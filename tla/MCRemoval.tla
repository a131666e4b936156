------------------------------ MODULE MCRemoval ------------------------------
(***************************************************************************)
(* What removals (Removal), judges (Records) and installations of defaults *)
(* (Etc) do with what a record says.  They share no state here: an         *)
(* instance runs one of the three, chosen at first.                        *)
(*                                                                         *)
(* Removal: depot owns a shared directory with another inside and a file;  *)
(* direct deposits a file there and owns an empty directory; set is a meta *)
(* package over direct.                                                    *)
(* Records: a package of each kind, provisional or not; three revisions of *)
(* its recipe, of which the last has another version, and the second of a  *)
(* source a shared directory.                                              *)
(* Etc: regular files and links of three contents.                         *)
(***************************************************************************)
EXTENDS Removal

CONSTANTS
  RecPackage, Revision, VersionOf, RecPath, RecTrees, RecDirectory, MaxEdited,  \* Records
  Contents,  \* Etc
  None

VARIABLES
  part, package, tree, place, heir, files, op,
  factory, seal, live, beside, since

MCPackage == {"depot", "direct", "set"}

MCShared == {"/share", "/share/sub"}

MCDir == MCShared \cup {"/spool"}

\* The last two are the administrator's.
MCPath == MCDir \cup {"/share/index", "/share/sub/icon", "/share/sub/note", "/spool/note"}

MCAbove == [x \in MCPath |->
  CASE x \in {"/share/index", "/share/sub"} -> {"/share"}
    [] x \in {"/share/sub/icon", "/share/sub/note"} -> MCShared
    [] x = "/spool/note" -> {"/spool"}
    [] OTHER -> {}]

\* Their byte order.
MCRank == [x \in MCPath |->
  CASE x = "/share" -> 1
    [] x = "/share/index" -> 2
    [] x = "/share/sub" -> 3
    [] x = "/share/sub/icon" -> 4
    [] x = "/share/sub/note" -> 5
    [] x = "/spool" -> 6
    [] x = "/spool/note" -> 7]

MCPayload == [p \in MCPackage |->
  CASE p = "depot" -> {"/share", "/share/sub", "/share/index"}
    [] p = "direct" -> {"/share/sub/icon", "/spool"}
    [] p = "set" -> {}]

MCDeps == [p \in MCPackage |->
  CASE p = "depot" -> {} [] p = "direct" -> {"depot"} [] p = "set" -> {"direct"}]

\* One package, or several with the dependents first.
Orderly == {<<"depot">>, <<"direct">>, <<"set">>, <<"direct", "depot">>,
            <<"set", "direct", "depot">>}

\* The dependency first.
DependencyFirst == {<<"depot", "direct">>}

\* Packages of world B only.
WorldBOnly == {<<"depot">>, <<"direct">>, <<"direct", "depot">>}

MCRecPath == {"version-1", "version-2", "command", "page", "directory"}
MCRevision == {"r", "r-again", "s"}

Plain(r) == [content |-> r, mode |-> 0]
SourceMade == [r \in MCRevision |->
  CASE r = "r" -> [x \in {"command", "page"} |-> Plain("r")]
    [] r = "r-again" ->
         [x \in {"command", "page", "directory"} |-> Plain(IF x = "page" THEN "r" ELSE "r-again")]
    [] r = "s" -> [x \in {"command"} |-> Plain("s")]]
BinaryMade == [r \in MCRevision |->
  IF r = "s" THEN [x \in {"version-2", "page"} |-> Plain("s")]
  ELSE [x \in {"version-1", "command"} |-> Plain("r")]]
NothingMade == [r \in MCRevision |-> << >>]

Describe(kind, provisional, made) ==
  [kind |-> kind, provisional |-> provisional, made |-> made,
   shared |-> [r \in MCRevision |-> DOMAIN made[r] \cap {"directory"}]]

MCRecPackage ==
  {Describe(k, p, IF k = "source" THEN SourceMade ELSE BinaryMade) :
     k \in {"source", "binary"}, p \in BOOLEAN}
  \cup {Describe("meta", FALSE, NothingMade)}

MCVersionOf == [r \in MCRevision |-> IF r = "s" THEN 2 ELSE 1]

R == INSTANCE Records WITH
  Package <- RecPackage, Path <- RecPath, Trees <- RecTrees, Directory <- RecDirectory,
  root <- place, record <- files

C == INSTANCE Etc WITH Content <- Contents

ASSUME RecordAssumption == R!RecordsAssumption /\ C!EtcAssumption

ofRecords == <<package, tree, place, heir, files, op>>
ofEtc == <<factory, seal, live, beside, since>>
ofAll == <<part, vars, ofRecords, ofEtc>>

Removing == part = "removal"
Judging == part = "records"
Providing == part = "etc"

WithoutRecords ==
  /\ package = None /\ tree = None /\ place = None /\ heir = None
  /\ files = None /\ op = None
WithoutEtc ==
  factory = None /\ seal = None /\ live = None /\ beside = None /\ since = None

PartsInit ==
  /\ Init
  /\ \/ Removing /\ WithoutRecords /\ WithoutEtc
     \/ Judging /\ R!Init /\ WithoutEtc
     \/ Providing /\ C!Init /\ WithoutRecords

PartsNext ==
  \/ Removing /\ Next /\ UNCHANGED <<part, ofRecords, ofEtc>>
  \/ Judging /\ R!Next /\ UNCHANGED <<part, vars, ofEtc>>
  \/ Providing /\ C!Next /\ UNCHANGED <<part, vars, ofRecords>>

PartsSpec == PartsInit /\ [][PartsNext]_ofAll

\* Records: those who judge a record of this version agree, and accept what the
\* command wrote but for lines kept from before; a migration loses no proof.
RecordsHold ==
  /\ [](Judging => R!TypeOK /\ R!JudgesAgree /\ R!WrittenIsObserved)
  /\ [][Judging => R!ProofsAreKeptStep]_ofAll

\* Etc: a default nobody edited is followed, but for four reasons, and what was
\* edited stays as it is.
DefaultsFollow ==
  /\ [](Providing => C!TypeOK /\ C!Follows)
  /\ [][Providing => C!EditsStandStep]_ofAll
=============================================================================
