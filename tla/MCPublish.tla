------------------------------ MODULE MCPublish ------------------------------
(***************************************************************************)
(* Two programs that publish several files as one: the outputs of a live   *)
(* image, in a directory of others (Publish), and the licences of a        *)
(* medium, in a directory of their own (Licenses).  An instance runs one   *)
(* of the two, chosen at first: one process after another, or two at once, *)
(* who publish a smaller image.                                            *)
(***************************************************************************)
EXTENDS Publish, TLC

CONSTANTS Process, FILES, HOME, Root, Object, MaxTrouble

VARIABLES program, noreplace, media, tree, synced, inode, run, reported, troubles

OneSidecar == <<"LOCK">>

AllSidecars == <<"COMPONENTS", "RUNNER_PROOF", "LOCK">>

TwoFiles == <<"a", "b">>

TwoFolders == [a |-> "top", b |-> "d"]

L == INSTANCE Licenses WITH disk <- synced

ASSUME LicencesAssumption == L!LicensesAssumption

ofImage == vars
ofLicences == <<noreplace, media, tree, synced, inode, run, reported, troubles>>
allVars == <<program, ofImage, ofLicences>>

Imaging == program = "image"
Licensing == program = "licences"

NoImage ==
  /\ live = FALSE /\ slot = 0 /\ out = 0 /\ file = 0
  /\ since = 0 /\ proc = 0 /\ runs = 0 /\ cuts = 0
NoLicences ==
  /\ noreplace = FALSE /\ media = 0 /\ tree = 0 /\ synced = 0
  /\ inode = 0 /\ run = 0 /\ reported = FALSE /\ troubles = 0

Alike == Permutations(Publisher)

EitherInit ==
  \/ Imaging /\ Init /\ NoLicences
  \/ Licensing /\ L!LicensesInit /\ NoImage

ImageTurn == Imaging /\ UNCHANGED <<program, ofLicences>>
LicencesTurn == Licensing /\ UNCHANGED <<program, ofImage>>

EitherNext ==
  \/ ImageTurn /\ Next
  \/ LicencesTurn /\ L!LicensesNext

Publishers == EitherInit /\ [][EitherNext]_allVars

\* Whoever did not succeed tries again, and a process that runs goes on.
FairPublishers ==
  /\ Publishers
  /\ WF_allVars(ImageTurn /\ \E p \in Publisher : Start(p) \/ Step(p))
  /\ \A p \in Process :
       WF_allVars(LicencesTurn /\ L!Begin(p)) /\ WF_allVars(LicencesTurn /\ L!Step(p))

\* Publish: the bootable image is never found without its sidecars, now or
\* after a power cut.  Licenses: nor the name of the bundle's hash without all
\* of the bundle.
NothingComesInPart ==
  /\ Imaging => BootableIsComplete
  /\ Licensing => L!GenerationIsWhole

\* Neither the mark nor the exit code promises what a power cut may take back.
ReportsHold == Imaging => ReportsAreDurable

\* What is found is whole, and what was reported stays.
PublicationHolds == NothingComesInPart /\ ReportsHold

\* A request that is the only one made is met in the end, with nothing of the
\* journal left; and one run after another installs the licences.
Published ==
  /\ \A r \in Request :
       [](Imaging => \A p \in Publisher : proc[p].req = r)
         => <>[](Imaging => IsPublished(r))
  /\ Licensing /\ noreplace ~> Licensing /\ L!Installed
=============================================================================
