------------------------------- MODULE Removal -------------------------------
(***************************************************************************)
(* memoryhole: removing packages of world B (and meta packages, which have *)
(* no payload): the reverse dependencies, the paths a record lists, the    *)
(* record, the world file.  There is no journal; death may come between    *)
(* any two steps.  (src/minitrue/src/install.rs, memoryhole)               *)
(*                                                                         *)
(* Installation is one step here (AtomicInstall, which WorldB implements), *)
(* and no journal is pending: recover_all comes first.                     *)
(* The administrator edits the root only between commands: the README of   *)
(* the repository (line 954) requires exclusive control of it during one.  *)
(***************************************************************************)
EXTENDS Naturals, Sequences, FiniteSets

CONSTANTS
  Package,
  Path,       \* of the live root, records apart
  Dir,        \* the paths that are directories
  Shared,     \* the directories at or below some SHARED_DIRS: claimed D:
  Above,      \* Above[x]: the directories that contain x
  Rank,       \* Rank[x]: the byte order of the paths
  Payload,    \* Payload[p]: the leaves, D: and empty directories of p's STAGE
  Deps,       \* Deps[p]: its direct dependencies
  Requests    \* the lists of names memoryhole may be called with

ASSUME RemovalAssumption ==
  /\ Shared \subseteq Dir /\ Dir \subseteq Path
  /\ Above \in [Path -> SUBSET Dir]
  /\ Rank \in [Path -> Nat]
  /\ \A x \in Path : \A d \in Above[x] : Rank[d] < Rank[x]
  /\ Payload \in [Package -> SUBSET Path]
  /\ Deps \in [Package -> SUBSET Package]
  /\ Requests \subseteq Seq(Package) \ {<< >>}

\* No two recipes claim one path: the preflight of WorldB refuses the second.
\* A directory with something of the same STAGE below it is claimed only as D:.
ASSUME OwnershipAssumption ==
  /\ \A p, q \in Package : p # q => Payload[p] \cap Payload[q] = {}
  /\ \A p \in Package : \A x \in Payload[p] : Above[x] \cap Payload[p] \subseteq Shared

VARIABLES
  root,     \* root[x]: what is at x; "file" is what the manifest's line proves
  record,   \* record[p]: what there is of records/p
  claims,   \* claims[p]: the paths its manifest lists
  world,    \* the packages listed in /etc/minitrue/world
  run,      \* the memory of a memoryhole
  verdict   \* how the last command ended

vars == <<root, record, claims, world, run, verdict>>

Content == {"absent", "dir", "file", "edited"}

RecordFile == {"dir", "meta", "manifest"}

\* names: still to remove, the present one first; removing: all that were
\* asked for; left: claims still to handle; kept: those found modified.
Idle == [names |-> << >>, removing |-> {}, next |-> "idle", left |-> {}, kept |-> {}]

-----------------------------------------------------------------------------
(***************************************************************************)
(* Records and paths                                                       *)
(***************************************************************************)

\* A record without meta does not count.
Counts(q) == "meta" \in record[q]

\* all_manifests reads the manifest of every record that counts, or fails.
Readable == \A q \in Package : Counts(q) => "manifest" \in record[q]

Empty(d) == \A x \in Path : d \in Above[x] => root[x] = "absent"

\* confined_claim_matches: a D: proves the directory only, a d: its whole tree.
Modified(c) ==
  IF c \in Dir THEN c \notin Shared /\ ~Empty(c) ELSE root[c] = "edited"

Name == Head(run.names)

At(step) == run.next = step

-----------------------------------------------------------------------------
(***************************************************************************)
(* Before and between commands                                             *)
(***************************************************************************)

Init ==
  /\ root = [x \in Path |-> "absent"]
  /\ record = [p \in Package |-> {}]
  /\ claims = [p \in Package |-> {}]
  /\ world = {}
  /\ run = Idle
  /\ verdict = "none"

\* A leaf that is there and not p's own blocks; so does a directory of p's own
\* that somebody filled.  A directory that was there is p's only if it is D:.
Install(p, explicit) ==
  LET new == {x \in Payload[p] : x \in Dir \ Shared => root[x] = "absent"} IN
  /\ run = Idle
  /\ Readable
  /\ ~Counts(p)
  /\ \A d \in Deps[p] : Counts(d)
  /\ \A x \in Payload[p] :
       IF x \in Dir THEN x \in Shared \/ Empty(x) ELSE root[x] = "absent"
  /\ root' = [x \in Path |->
               IF x \in Payload[p] \ Dir THEN "file"
               ELSE IF x \in Payload[p] \/ \E y \in Payload[p] : x \in Above[y]
                    THEN "dir" ELSE root[x]]
  /\ record' = [record EXCEPT ![p] = RecordFile]
  /\ claims' = [claims EXCEPT ![p] = new]
  /\ world' = IF explicit THEN world \cup {p} ELSE world
  /\ verdict' = "done"
  /\ UNCHANGED run

\* The administrator changes a file, or leaves one of his own in a directory.
Edit(x) ==
  /\ run = Idle
  /\ x \notin Dir
  /\ root[x] # "edited"
  /\ \A d \in Above[x] : root[d] = "dir"
  /\ root' = [root EXCEPT ![x] = "edited"]
  /\ UNCHANGED <<record, claims, world, run, verdict>>

-----------------------------------------------------------------------------
(***************************************************************************)
(* memoryhole                                                              *)
(***************************************************************************)

\* ensure_no_internal_claims stops at a record it cannot read.
Memoryhole(names) ==
  /\ run = Idle
  /\ IF Readable
     THEN /\ run' = [Idle EXCEPT !.names = names, !.next = "check",
                       !.removing = {names[i] : i \in DOMAIN names}]
          /\ verdict' = "none"
     ELSE run' = Idle /\ verdict' = "unreadable"
  /\ UNCHANGED <<root, record, claims, world>>

Refuse(why) ==
  /\ run' = Idle
  /\ verdict' = why
  /\ UNCHANGED <<root, record, claims, world>>

NoRecord == At("check") /\ "dir" \notin record[Name] /\ Refuse("no_record")

\* Mutant: only what is in the world file is sustained.
SustainsInWorld ==
  \E q \in Package \ run.removing : Counts(q) /\ q \in world /\ Name \in Deps[q]

\* A package that stays depends on this one (what is readable at the start of
\* the command stays so until its end).
Sustains == \E q \in Package \ run.removing : Counts(q) /\ Name \in Deps[q]

Sustained ==
  At("check") /\ "dir" \in record[Name] /\ Sustains /\ Refuse("sustains")

NoMeta ==
  /\ At("check")
  /\ record[Name] \cap {"dir", "meta"} = {"dir"}
  /\ ~Sustains
  /\ Refuse("no_meta")

\* Mutant: the proofs of the claims are not looked at.
JudgeNothing ==
  /\ At("check")
  /\ Counts(Name)
  /\ ~Sustains
  /\ run' = [run EXCEPT !.next = "paths", !.left = claims[Name]]
  /\ UNCHANGED <<root, record, claims, world, verdict>>

\* All claims are judged before the first one is removed.
Judge ==
  /\ At("check")
  /\ Counts(Name)
  /\ ~Sustains
  /\ run' = [run EXCEPT !.next = "paths", !.left = claims[Name],
                        !.kept = {c \in claims[Name] : Modified(c)}]
  /\ UNCHANGED <<root, record, claims, world, verdict>>

\* The claims are handled from the last to the first.
Turn(c) == \A o \in run.left : Rank[o] <= Rank[c]

\* Mutant: the directories that become empty go too.
WithoutParents(c) ==
  [x \in Path |->
    IF \/ x = c /\ (c \in Dir => Empty(c))
       \/ x \in Above[c] /\ \A y \in Path \ {c} : x \in Above[y] => root[y] = "absent"
    THEN "absent" ELSE root[x]]

\* unlink, or rmdir, which leaves a directory with children alone.
Without(c) ==
  IF c \in Dir /\ ~Empty(c) THEN root ELSE [root EXCEPT ![c] = "absent"]

RemovePath(c) ==
  /\ At("paths")
  /\ c \in run.left
  /\ Turn(c)
  /\ root' = IF c \in run.kept /\ root[c] # "absent" THEN root ELSE Without(c)
  /\ run' = [run EXCEPT !.left = @ \ {c}]
  /\ UNCHANGED <<record, claims, world, verdict>>

\* Mutant: the record may go before the paths.
EraseRecordFirst(f) ==
  /\ At("paths")
  /\ f \in record[Name]
  /\ f = "dir" => record[Name] = {"dir"}
  /\ record' = [record EXCEPT ![Name] = @ \ {f}]
  /\ run' = IF f = "dir" THEN [run EXCEPT !.next = "world", !.left = {}] ELSE run
  /\ UNCHANGED <<root, claims, world, verdict>>

\* remove_dir_all: the files in the order the directory gives them, then the
\* directory.
EraseRecord(f) ==
  /\ At("paths")
  /\ run.left = {}
  /\ f \in record[Name]
  /\ f = "dir" => record[Name] = {"dir"}
  /\ record' = [record EXCEPT ![Name] = @ \ {f}]
  /\ run' = IF f = "dir" THEN [run EXCEPT !.next = "world"] ELSE run
  /\ UNCHANGED <<root, claims, world, verdict>>

\* The name leaves the world file; then the next one.
WorldRemove ==
  /\ At("world")
  /\ world' = world \ {Name}
  /\ IF Len(run.names) = 1
     THEN run' = Idle /\ verdict' = "done"
     ELSE /\ run' = [run EXCEPT !.next = "check", !.names = Tail(@), !.kept = {}]
          /\ UNCHANGED verdict
  /\ UNCHANGED <<root, record, claims>>

\* Death, or an error of a system call, which stops the command where it is.
Crash == run # Idle /\ Refuse("died")

Step ==
  \/ NoRecord \/ Sustained \/ NoMeta \/ Judge
  \/ \E c \in Path : RemovePath(c)
  \/ \E f \in RecordFile : EraseRecord(f)
  \/ WorldRemove

Next ==
  \/ \E p \in Package : \E explicit \in BOOLEAN : Install(p, explicit)
  \/ \E x \in Path : Edit(x)
  \/ \E names \in Requests : Memoryhole(names)
  \/ Step
  \/ Crash

Spec == Init /\ [][Next]_vars

-----------------------------------------------------------------------------
(***************************************************************************)
(* Properties                                                              *)
(***************************************************************************)

\* A run remembers only what it asked for and what its package claims, and is
\* over when its list is (install.rs:7575).
TypeOK ==
  /\ root \in [Path -> Content]
  /\ record \in [Package -> SUBSET RecordFile]
  /\ claims \in [Package -> SUBSET Path]
  /\ \A p \in Package : claims[p] \subseteq Payload[p]
  /\ world \subseteq Package
  /\ run \in [names : Seq(Package), removing : SUBSET Package,
              next : {"idle", "check", "paths", "world"},
              left : SUBSET Path, kept : SUBSET Path]
  /\ run.names = << >> <=> run.next = "idle"
  /\ run.next = "idle" => run = Idle
  /\ run.left # {} => At("paths") /\ run.left \subseteq claims[Name]
  /\ verdict \in {"none", "done", "died", "unreadable", "no_record", "sustains", "no_meta"}

\* What the administrator changed or added is never removed, however often
\* removals die and are tried again (SPEC-0003 section 4 item 2;
\* install.rs:7697).
EditsSurvive == [][\A x \in Path : root[x] = "edited" => root'[x] = "edited"]_vars

\* Removing a package takes nothing another record lists: a directory they
\* share goes only when nothing is left in it (install.rs:7704).
TakesOnlyItsOwn ==
  [][\A q \in Package : (Counts(q) /\ (run.names # << >> => q # Name)) =>
       \A c \in claims[q] : root[c] # "absent" => root'[c] # "absent"]_vars

\* When a record stops to count, of what it listed only edits and directories
\* with something in them are left (SPEC-0003 section 4 item 1).
NothingIsLeft ==
  [][\A p \in Package : (Counts(p) /\ ~Counts(p)') =>
       \A c \in claims[p] :
         \/ root[c] \in {"absent", "edited"}
         \/ c \in Dir /\ ~Empty(c)]_vars

\* A file that nobody edited is always listed by a record that counts, so that
\* a removal that died can be tried again (SPEC-0003 section 4 item 3, "Registro
\* apagado por ultimo").
NoOrphanFile ==
  \A x \in Path : root[x] = "file" => \E p \in Package : Counts(p) /\ x \in claims[p]

\* Between commands every installed package has its dependencies (SPEC-0003
\* section 4 item 4; install.rs:7594).
SupportKept ==
  run = Idle => \A q \in Package : Counts(q) => \A d \in Deps[q] : Counts(d)

\* A command that is refused for the sake of one package has not taken away what
\* another that stays depends on (SPEC-0003 section 4 item 4; install.rs:7594).
RefusalKeepsSupport ==
  verdict = "sustains" => \A q \in Package : Counts(q) => \A d \in Deps[q] : Counts(d)

\* An interrupted removal is recovered by the next command: none of them stops
\* at a record this program left behind (README.md:947 of the repository).
InterruptedIsRecovered == verdict # "unreadable"

\* The strengthening behind the theorems: what is still to be handled is judged
\* right, and what was handled is settled for good.
Settled(c) == root[c] \in {"absent", "edited"} \/ (c \in Dir /\ ~Empty(c))

Inductive ==
  /\ \A x \in Dir : root[x] \notin {"file", "edited"}
  /\ NoOrphanFile
  /\ At("paths") =>
       /\ \A c \in run.left : root[c] = "edited" => c \in run.kept
       /\ \A c \in run.kept : /\ c \in claims[Name]
                              /\ c \notin Dir => root[c] = "edited"
                              /\ c \in Dir => c \notin Shared /\ ~Empty(c)
       /\ \A c \in claims[Name] \ run.left :
            Settled(c) /\ \A o \in run.left : Rank[o] <= Rank[c]

\* A request that names dependents before what they depend on.
DependentsFirst ==
  \A names \in Requests : \A i, j \in DOMAIN names :
    i < j => names[i] \notin Deps[names[j]]

\* The strengthening behind SupportKept under DependentsFirst: what was handled
\* does not count any more, and nobody else depends on what is at hand.
Supported ==
  /\ \A q \in Package : Counts(q) => \A d \in Deps[q] : Counts(d)
  /\ \A i, j \in DOMAIN run.names : i < j => run.names[i] \notin Deps[run.names[j]]
  /\ \A q \in run.removing : Counts(q) => \E j \in DOMAIN run.names : q = run.names[j]
  /\ At("world") => ~Counts(Name)
  /\ At("paths") => \A q \in Package : Counts(q) /\ Name \in Deps[q] => q = Name
=============================================================================
