------------------------------- MODULE MCDesk -------------------------------
(***************************************************************************)
(* Three programs that replace files under their final names: channel      *)
(* keygen and sign (Sign) and the builder of media (Media), which lock the *)
(* output directory alike and share no name in it, and the update of the   *)
(* image a machine boots (Boot).  None sees a step of another: an instance *)
(* runs one of the three, chosen at first.                                 *)
(*                                                                         *)
(* Boot: two images boot and one does not; each takes two of the units in  *)
(* which the slack is one.  A partition of five holds two images, as the   *)
(* one of 64 MiB the installer makes; nine hold four.  The machine starts  *)
(* as the installer leaves it, with and without its entry.                 *)
(***************************************************************************)
EXTENDS Naturals

CONSTANTS MaxKey, MaxMessage, MaxCut, Owner,
          MaxRequest, MaxAttempt, MaxKill, MaxStranger, Stranger, Bare,
          None, Torn, MaxRelease

VARIABLES tool, dir, stage, run, given,
          disk, message, keys, cuts,
          tomb, request, made, fallback, kills, strangers,
          esp, capacity, past, listed, order, session, wanted, updater, releases

BootEfi == {"e1", "e2", "e3"}
BootKernel == [e \in BootEfi |-> e]
BootSize == [e \in BootEfi |-> 2]
InstalledImage ==
  [p \in {"atual", "anterior", "novo"} |->
     IF p = "atual" THEN [efi |-> "e1", state |-> "synced"] ELSE [efi |-> "none", state |-> "absent"]]
BootStarts ==
  {[esp |-> InstalledImage, order |-> << >>], [esp |-> InstalledImage, order |-> <<"atual">>]}

S == INSTANCE Sign
M == INSTANCE Media
U == INSTANCE Boot WITH
  Efi <- BootEfi, Good <- {"e1", "e2"}, Kernel <- BootKernel, Size <- BootSize, Slack <- 1,
  Capacities <- {5, 9}, Starts <- BootStarts, TwicePerBoot <- FALSE, Forgets <- TRUE, MaxCut <- 2,
  proc <- updater

ASSUME DeskAssumption == S!SignAssumption /\ M!MediaAssumption /\ U!BootAssumption

ofSign  == <<disk, message, keys>>
ofMedia == <<tomb, request, made, fallback, kills, strangers>>
ofBoot  == <<esp, capacity, past, listed, order, session, wanted, updater, releases>>
ofDesk  == <<dir, stage, run, given>>

Signing == tool = "sign"
Bundling == tool = "media"
Booting == tool = "boot"

NoSign == disk = None /\ message = 0 /\ keys = 0
NoMedia ==
  /\ tomb = None /\ request = 0 /\ made = 0 /\ fallback = FALSE
  /\ kills = 0 /\ strangers = 0
NoBoot ==
  /\ esp = None /\ capacity = 0 /\ past = None /\ listed = None /\ order = None
  /\ session = None /\ wanted = None /\ updater = None /\ releases = 0

DeskInit ==
  \/ Signing /\ S!Init /\ NoMedia /\ NoBoot
  \/ Bundling /\ M!Init /\ cuts = 0 /\ NoSign /\ NoBoot
  \/ Booting /\ U!Init /\ NoSign /\ NoMedia /\ dir = None /\ stage = None
     /\ run = None /\ given = None

SignTurn == Signing /\ UNCHANGED <<tool, ofMedia, ofBoot>>
MediaTurn == Bundling /\ UNCHANGED <<tool, cuts, ofSign, ofBoot>>
BootTurn == Booting /\ UNCHANGED <<tool, ofDesk, ofSign, ofMedia>>

DeskNext ==
  \/ SignTurn /\ S!SignNext
  \/ MediaTurn /\ M!MediaNext
  \/ BootTurn /\ U!Next

deskVars == <<tool, cuts, ofDesk, ofSign, ofMedia, ofBoot>>

FairDesk ==
  /\ DeskInit /\ [][DeskNext]_deskVars
  /\ WF_deskVars(SignTurn /\ S!Step) /\ SF_deskVars(SignTurn /\ S!SignIt)
  /\ WF_deskVars(MediaTurn /\ M!Step) /\ WF_deskVars(MediaTurn /\ M!Build)
  /\ WF_deskVars(BootTurn /\ U!Step)

\* The types of the tool that runs.
DeskTypesOK ==
  CASE Signing -> S!TypeOK [] Bundling -> M!TypeOK [] Booting -> U!TypeOK

\* Sign: no public key without its secret one, no signature without its key,
\* and what keygen or sign reported is on the disk and stays there.
KeysAreWhole == Signing => S!PairIsWhole /\ S!SuccessIsDurable

\* Media: the final files are of one attempt, and the image comes last; a
\* reported bundle and a stranger's files are left alone.
MediumComesWhole ==
  /\ [](Bundling => M!ImageComesLast)
  /\ [][Bundling => M!FinalsStayStep]_deskVars

\* Boot: the image that runs survives an update cut anywhere, and a machine is
\* lost only if the firmware never had an entry for its previous image.
MachineBoots ==
  /\ [](Booting => U!RunningSurvives)
  /\ [][Booting => U!LostOnlyUnlistedStep]_deskVars

\* Once a pair is reported a signature comes about; repeated builds bring the
\* medium; and repeated updates bring the image of the package, and its entry
\* in front.
Converges ==
  /\ Signing /\ S!PairReported ~> Signing /\ S!HasSignature
  /\ <>[](Bundling /\ ~M!InTheWay /\ ~M!TwoNames) => <>(Bundling /\ given = request)
  /\ <>[](Booting /\ U!Roomy /\ U!Up => U!Settled)
  /\ []<>(Booting /\ U!Up => U!InFront \/ ~U!Settled)
=============================================================================
