----------------------------- MODULE MCInstaller -----------------------------
(***************************************************************************)
(* The installation of a machine in its three parts: the disk is decided   *)
(* and laid out (DiskInstall), the trees of the medium are composed and    *)
(* extracted (Trees), the medium is installed (Medium).  Each takes the    *)
(* other two as one step, and an instance runs one, chosen at first.       *)
(***************************************************************************)
EXTENDS DiskInstall, TLC

CONSTANTS
  Version, Tool, Packaged, Image, Medium0, MaxKill, MaxFail, Torn,   \* of Medium
  Path, Above, Administrative, Seeds, Content, Sources, Foreign,     \* of Trees
  MaxTotal, MaxEntries, Out,
  MaxChange,
  m1, m2, b1, b2, a, b

VARIABLES part,
          target, run, kills, failures, disc, snap, efi, checked, changes,
          policy, source, stage, entries, archive, written, composed

M == INSTANCE Medium WITH Boot <- Image
T == INSTANCE Trees WITH step <- stage

\* Two media, an offline one of version 1 and an online one of version 2, and
\* packages of the first that bring an executor.
Lock(v, cache) ==
  [tree |-> v, cache |-> cache, seed |-> v, world |-> v, overlay |-> v, plan |-> None]
TwoMedia == {[lock |-> Lock(1, 1), boot |-> b1], [lock |-> Lock(2, None), boot |-> b2]}
Versions == 1..2
Brought == <<m1, None>>

\* Five paths, directories of at most three entries, archives of at most two.
SmallPath == {"etc", "etc/a", "etc/b", "usr", "usr/c"}
SmallAbove ==
  [x \in SmallPath |-> CASE x \in {"etc/a", "etc/b"} -> {"etc"} [] x = "usr/c" -> {"usr"} [] OTHER -> {}]
SmallAdministrative == {"etc", "etc/a", "etc/b"}
SmallSeeds == {{"etc/a"}, {"etc/a", "usr/c"}}
SmallContent == {<<1, "x">>, <<2, "x">>, <<2, "y">>}
SmallDir == [kind |-> "dir", content |-> None, to |-> None]
SmallNode ==
  {SmallDir, [SmallDir EXCEPT !.kind = "odd"]}
  \cup {[SmallDir EXCEPT !.kind = "link", !.to = x] : x \in {"etc/a", "usr", Out}}
  \cup {[SmallDir EXCEPT !.kind = "file", !.content = c] : c \in SmallContent}
SmallSources ==
  {s \in UNION {[S -> SmallNode] : S \in {P \in SUBSET SmallPath : Cardinality(P) <= 3}} :
     \A x \in DOMAIN s : \A y \in SmallAbove[x] : y \in DOMAIN s /\ s[y] = SmallDir}
SmallEntry == [at : SmallPath, node : SmallNode]
SmallForeign == {<<e>> : e \in SmallEntry} \cup {<<e, f>> : e \in SmallEntry, f \in SmallEntry}

\* A disk with no room for a swap and one for a small one; tables with and
\* without room.
Tables3 == {<<3>>, <<5, 13, 3>>, <<13, 6>>}
TableBefore == {<<6, 13>>}
Capacities == a :> 30 @@ b :> 25

ASSUME InstallerIsFit == DiskAssumption /\ M!MediumAssumption /\ T!TreesAssumption

ofDisk   == dvars
ofMedium == <<target, run, kills, failures, disc, snap, efi, checked>>
ofTrees  == <<policy, source, stage, entries, archive, written, composed>>

NoDisk ==
  /\ table = None /\ shown = None /\ media = None /\ step = None /\ view = None
  /\ decision = None /\ gpt = None /\ layout = None /\ formatted = None
  /\ things = None /\ synced = None /\ edits = 0 /\ cuts = 0
NoMedium ==
  /\ target = None /\ run = None /\ kills = 0 /\ failures = 0
  /\ disc = None /\ snap = None /\ efi = None /\ checked = None
NoTrees ==
  /\ policy = None /\ source = None /\ stage = None /\ entries = None
  /\ archive = None /\ written = None /\ composed = None

Init ==
  \/ part = "disk" /\ DiskInit /\ NoMedium /\ NoTrees /\ changes = 0
  \/ part = "medium" /\ M!MediumInit /\ NoDisk /\ NoTrees
  \/ part = "trees" /\ T!TreesInit /\ NoDisk /\ NoMedium

DiskTurn == part = "disk" /\ UNCHANGED <<part, ofMedium, ofTrees, changes>>
MediumTurn == part = "medium" /\ UNCHANGED <<part, ofDisk, ofTrees>>
TreesTurn == part = "trees" /\ UNCHANGED <<part, ofDisk, ofMedium>>

Next ==
  \/ DiskTurn /\ DiskNext
  \/ MediumTurn /\ M!MediumNext
  \/ TreesTurn /\ T!TreesNext

vars == <<part, ofDisk, ofMedium, ofTrees, changes>>

\* What the code goes on with, and the commands that fit, repeated.
FairInstaller ==
  /\ Init /\ [][Next]_vars
  /\ WF_vars(MediumTurn /\ M!MediumStep) /\ SF_vars(MediumTurn /\ M!Clear)
  /\ SF_vars(MediumTurn /\ \E r \in M!Request : M!Fits(r) /\ M!Ask(r))

\* DiskInstall: a disk is laid out and formatted as the screens promised, and a
\* root that is started is whole.
DiskIsSound == part = "disk" => LayoutIsSound /\ FormattedIsSound /\ StartedIsWhole

\* Medium: a target and its boot image are of one medium, and its commit is made
\* over all of it.
OfOneMedium ==
  /\ [](part = "medium" => M!OfOneMedium /\ M!ImageOfTheInstalled)
  /\ [][MediumTurn => M!CommitStep]_vars

\* Medium: repeated commands end with the profile installed.
Converges ==
  <>[](part = "medium" /\ M!Hopeful) => <>(part = "medium" /\ M!Committed)

\* Trees: the composer and the installer agree, and nothing is extracted that
\* was not validated.
TreesAreKept == part = "trees" => T!ComposedIsExtracted /\ T!ExtractedIsValidated
=============================================================================
