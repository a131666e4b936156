-------------------------------- MODULE WorldB --------------------------------
(***************************************************************************)
(* Installing a sealed STAGE into the root (world B): the preflight that   *)
(* detects doublethink, apply_stage with its cessions, the removals of an  *)
(* upgrade, the record, the commit and the world file.                     *)
(* (src/minitrue/src/install.rs, install_sealed_source and apply_stage)    *)
(*                                                                         *)
(* It is a caller of Journal: each of its steps is a step of Journal or    *)
(* leaves Journal's variables alone.                                       *)
(***************************************************************************)
EXTENDS Journal

CONSTANTS
  Provisional,   \* packages whose recipe says PROVISIONAL
  Supersedes,    \* Supersedes[p]: the provisionals p's recipe may take from
  Deps,          \* Deps[p]: its direct dependencies
  Shared,        \* Shared[p]: its SHARED_DIRS
  Stages,        \* Stages[p]: the STAGEs (paths, parents first) it may bring
  Rank           \* Rank[x]: the byte order of the canonical paths

\* The paths a manifest may list: the payload.
Claimable == UNION ClaimSets

ASSUME RecipeAssumption ==
  /\ Provisional \subseteq Package
  /\ Supersedes \in [Package -> SUBSET Package]
  /\ Deps \in [Package -> SUBSET Package]
  /\ Shared \in [Package -> SUBSET Dir]
  /\ Rank \in [Path -> Nat]

\* What is above a path is a directory and comes before it; the control plane
\* is not payload (ensure_stage_avoids_control_plane).
ASSUME PlaceAssumption ==
  /\ \A x \in Path : \A d \in Above[x] : d \in Dir /\ Rank[d] < Rank[x]
  /\ \A p, q \in Package : Manifest[p] = Manifest[q] => p = q
  /\ \A p \in Package : {Meta[p], Manifest[p]} \cap Claimable = {}
  /\ Tmp \notin Claimable

\* A manifest may list any part of the payload, and nothing but payload is in a
\* STAGE.
ASSUME ClaimAssumption ==
  /\ ClaimSets = SUBSET Claimable
  /\ Stages \in [Package -> SUBSET Seq(Claimable)]

\* pack writes a directory before what is in it, and leaves none out.
ASSUME StageAssumption ==
  \A p \in Package : \A stage \in Stages[p] : \A i \in DOMAIN stage :
    \A d \in Above[stage[i]] : \E j \in 1..(i - 1) : stage[j] = d

VARIABLES
  job,      \* what install_sealed_source holds in memory
  world     \* the packages listed in /etc/minitrue/world

wvars == <<vars, job, world>>

\* left: entries still to apply; all: the whole STAGE; old: the previous
\* manifest; new: the one being built; ceded: what a provisional no longer
\* owns; skipped: an entry was skipped for that; adopted: the entry at hand has
\* been ceded by its provisional; next: the stage of the installation.
Job == [left : Seq(Claimable), all : ClaimSets, old : ClaimSets,
        new : ClaimSets, ceded : ClaimSets, skipped : BOOLEAN, adopted : BOOLEAN,
        next : {"none", "stage", "drop", "meta", "commit", "world"}]

NoJob == [left |-> << >>, all |-> {}, old |-> {}, new |-> {}, ceded |-> {},
          skipped |-> FALSE, adopted |-> FALSE, next |-> "none"]

-----------------------------------------------------------------------------
(***************************************************************************)
(* Ownership                                                               *)
(***************************************************************************)

Installed(root, q) == root[Meta[q]] # Absent

Others(p) == {q \in Package \ {p} : Installed(fs, q)}

\* At or below one of the shared directories.
IsShared(x, dirs) == \E r \in dirs : r = x \/ r \in Above[x]

AtOrAbove(x) == {x} \cup Above[x]

\* A D: claim is structural; every other claim is exclusive.
SharedClaims(root, q) == {c \in Claims(root, q) \cap Dir : IsShared(c, Shared[q])}

Exclusive(root, q) == Claims(root, q) \ SharedClaims(root, q)

\* The provisionals p's recipe may take from.
Ceding(p) == {q \in Supersedes[p] \cap Provisional : Installed(fs, q)}

\* A successor that is itself provisional has to name the cedent.
Authorizes(q, cedent) == q \notin Provisional \/ cedent \in Supersedes[q]

\* The baseline (manifest@VERSION, bound by hash to the meta) without what is
\* still active.
CededBy(root, p) ==
  IF p \in Provisional /\ Installed(root, p)
  THEN root[Meta[p]].claims \ root[Manifest[p]].claims ELSE {}

\* A ceded leaf is proved by a successor's claim on it, a ceded directory also
\* by one inside it.
Unproved(root, p) ==
  {x \in CededBy(root, p) :
     ~\E q \in Package \ {p} :
        /\ Authorizes(q, p)
        /\ \E c \in Claims(root, q) : c = x \/ (x \in Dir /\ x \in Above[c])}

\* No claim of one package is another's, or inside an exclusive one.
Disjoint(root) ==
  \A p, q \in Package : p # q =>
    \A c \in Claims(root, p), d \in Claims(root, q) :
      c # d /\ (d \in Above[c] => d \in SharedClaims(root, q))

\* A claim tells what is at its path.
Describes(root, q, c) ==
  IF c \in Dir THEN root[c].kind = "dir"
  ELSE root[c].kind = "file" /\ root[c].by = root[Meta[q]].by

Intact(root) == \A q \in Package : \A c \in Claims(root, q) : Describes(root, q, c)

\* Only a record and what it claims are there.
Accounted(root) ==
  \A x \in Path \ (Dir \cup {Tmp}) :
    \/ root[x].kind = "absent"
    \/ \E q \in Package : x \in {Meta[q], Manifest[q]} \cup Claims(root, q)

\* A file system: what is there is of its kind and inside directories.
Tree(root) ==
  \A x \in Path :
    \/ root[x] = Absent
    \/ /\ root[x].kind = IF x \in Dir THEN "dir" ELSE "file"
       /\ \A d \in Above[x] : root[d].kind = "dir"

Sound(root) == Disjoint(root) /\ Intact(root) /\ Accounted(root) /\ Tree(root)

\* The first command finds a root that earlier ones left sound.
ASSUME SoundRoots == \A root \in Roots : Sound(root)

\* The shared directories of others a path of p is at or below, with their owners.
SharedOver(root, p, x) ==
  {pr \in (Package \ {p}) \X AtOrAbove(x) : pr[2] \in SharedClaims(root, pr[1])}

-----------------------------------------------------------------------------
(***************************************************************************)
(* Preflight: doublethink                                                  *)
(***************************************************************************)

\* Claims as pairs <<owner, path>>.
ExclusiveOf(owners) == {pr \in owners \X Path : pr[2] \in Exclusive(fs, pr[1])}

SharedOf(owners) == {pr \in owners \X Path : pr[2] \in SharedClaims(fs, pr[1])}

Covering(pairs, x) == {pr \in pairs : pr[2] \in AtOrAbove(x)}

Inside(pairs, x) == {pr \in pairs : x \in Above[pr[2]]}

\* The index is asked for the deepest claim above, or the first one below.
Nearest(pairs) == {pr \in pairs : \A o \in pairs : Rank[o[2]] <= Rank[pr[2]]}

FirstOf(pairs) == {pr \in pairs : \A o \in pairs : Rank[pr[2]] <= Rank[o[2]]}

HasChildren(x, stage) == \E y \in stage : x \in Above[y]

\* Mutant: whoever finds a D: may deposit in it.
SharedAllowsAnyone(p, stage, x) ==
  \A pr \in Covering(SharedOf(Others(p)), x) : pr[2] = x => x \in Dir

\* Under another package's D: only a direct dependent deposits, and nobody
\* claims it twice or covers it with a tree of its own.
SharedAllows(p, stage, x) ==
  LET near == Nearest(Covering(SharedOf(Others(p)), x)) IN
  IF near # {}
  THEN \A pr \in near : /\ pr[1] \in Deps[p]
                        /\ ~(pr[2] = x /\ IsShared(x, Shared[p]))
                        /\ pr[2] = x => x \in Dir
  ELSE \/ x \in Dir /\ HasChildren(x, stage)
       \/ Inside(SharedOf(Others(p)), x) = {}

\* Another package's exclusive claim above or inside blocks, unless the one the
\* index finds belongs to a provisional that cedes.
ExclusiveAllows(p, stage, x) ==
  LET others     == ExclusiveOf(Others(p))
      above      == {pr \in Covering(others, x) : pr[2] # x \/ x \in Dir}
      reused     == UNION {SharedClaims(fs, q) : q \in Others(p) \cap Deps[p]}
      dependents == {q \in Others(p) : p \in Deps[q]}
      inside     == IF x \notin Dir THEN Inside(others, x)
                    ELSE IF HasChildren(x, stage) \/ IsShared(x, reused) THEN {}
                    ELSE IF IsShared(x, Shared[p])
                         THEN {pr \in Inside(others, x) : pr[1] \notin dependents}
                    ELSE Inside(others, x)
      found      == IF above # {} THEN Nearest(above) ELSE FirstOf(inside)
  IN \A pr \in found : pr[1] \in Ceding(p)

\* A leaf replaces what p owns, or what exactly one ceding provisional owns.
LeafAllows(p, x) ==
  LET external == {q \in Others(p) : x \in Exclusive(fs, q)}
      takeover == external # {} /\ \E q \in Ceding(p) : external = {q}
  IN /\ external = {} \/ takeover
     /\ x \in Exclusive(fs, p) \/ takeover \/ fs[x] = Absent

Preflight(p, stage, ceded) ==
  /\ Shared[p] \subseteq stage
  /\ \A x \in stage \ ceded :
       /\ \A q \in Others(p) \ Ceding(p) :
            Exclusive(fs, q) \cap Dir \cap AtOrAbove(x) = {}
       /\ SharedAllows(p, stage, x)
       /\ ExclusiveAllows(p, stage, x)
       /\ x \notin Dir => LeafAllows(p, x)

\* A cession whose successor is gone is retired only if nobody has the path.
CessionAllows(p, stage) ==
  \A x \in Unproved(fs, p) : fs[x] = Absent /\ x \notin stage

-----------------------------------------------------------------------------
(***************************************************************************)
(* install_sealed_source                                                   *)
(***************************************************************************)

WInit == Init /\ job = NoJob /\ world = {}

InstallBegin(p, stage) ==
  LET all   == {stage[i] : i \in DOMAIN stage}
      ceded == CededBy(fs, p) \ Unproved(fs, p)
  IN /\ Begin(p)
     /\ \A d \in Deps[p] : Installed(fs, d)
     /\ CessionAllows(p, all)
     /\ Preflight(p, all, ceded)
     /\ job' = [NoJob EXCEPT !.left = stage, !.all = all, !.ceded = ceded,
                             !.old = Claims(fs, p), !.next = "stage"]
     /\ UNCHANGED world

At(step) == pc = "apply" /\ job.next = step

Entry1 == Head(job.left)

AtStage == At("stage") /\ job.left # << >>

\* The entry is done; it is claimed or it is not.
Advance(claimed) ==
  job' = [job EXCEPT !.left = Tail(@), !.adopted = FALSE,
                     !.new = IF claimed THEN @ \cup {Entry1} ELSE @]

SkipCeded ==
  /\ AtStage
  /\ Entry1 \in job.ceded
  /\ job' = [job EXCEPT !.left = Tail(@), !.skipped = TRUE]
  /\ UNCHANGED <<vars, world>>

Cedents == {q \in Ceding(pkg) \ {pkg} : Entry1 \in fs[Manifest[q]].claims}

\* Mutant: the cedent loses all it has.
CedeAll(q) ==
  /\ AtStage
  /\ Entry1 \notin job.ceded
  /\ ~job.adopted
  /\ q \in Cedents
  /\ Intend("bytes", Manifest[q], {})
  /\ job' = [job EXCEPT !.adopted = TRUE]
  /\ UNCHANGED world

\* adopt_provisional_path: the cedent's manifest without the path.
Cede(q) ==
  /\ AtStage
  /\ Entry1 \notin job.ceded
  /\ ~job.adopted
  /\ q \in Cedents
  /\ Intend("bytes", Manifest[q], fs[Manifest[q]].claims \ {Entry1})
  /\ job' = [job EXCEPT !.adopted = TRUE]
  /\ UNCHANGED world

Settled == AtStage /\ Entry1 \notin job.ceded /\ (job.adopted \/ Cedents = {})

\* Mutant: the leaf is written without a line in the log.
PlaceLeafUnlogged ==
  /\ Settled
  /\ Entry1 \notin Dir
  /\ fs' = [fs EXCEPT ![Entry1] = NewNode("place", {})]
  /\ Advance(TRUE)
  /\ UNCHANGED <<journal, pc, pkg, op, cur, how, verdict, snap, txs, crashes, world>>

PlaceLeaf ==
  /\ Settled
  /\ Entry1 \notin Dir
  /\ Intend("place", Entry1, {})
  /\ Advance(TRUE)
  /\ UNCHANGED world

\* Nothing of its own comes below it in the STAGE.
Childless == ~HasChildren(Entry1, job.all)

Declared == IsShared(Entry1, Shared[pkg])

Reused ==
  IsShared(Entry1, UNION {SharedClaims(fs, q) : q \in Others(pkg) \cap Deps[pkg]})

MakeDir ==
  /\ Settled
  /\ Entry1 \in Dir
  /\ fs[Entry1] = Absent
  /\ Entry1 \notin job.old
  /\ Intend("mkdir", Entry1, {})
  /\ Advance(Declared \/ (Childless /\ ~Reused))
  /\ UNCHANGED world

\* A directory that is there: a D: is claimed, an empty one stays whose it was,
\* and a full one cannot become an exclusive claim (Fail).
KeepDir ==
  LET exclusive == Childless /\ ~Declared /\ ~Reused IN
  /\ Settled
  /\ Entry1 \in Dir
  /\ fs[Entry1] # Absent
  /\ exclusive => Removable(Entry1)
  /\ Advance(Declared \/ (exclusive /\ Entry1 \in job.old))
  /\ UNCHANGED <<vars, world>>

\* Mutant: what the new manifest lists too is dropped.
StageDoneAll ==
  /\ At("stage")
  /\ job.left = << >>
  /\ job' = [job EXCEPT !.next = "drop"]
  /\ UNCHANGED <<vars, world>>

\* What the old manifest listed and the STAGE no longer brings.
StageDone ==
  /\ At("stage")
  /\ job.left = << >>
  /\ job' = [job EXCEPT !.next = "drop",
                        !.old = @ \ (job.new \cup (job.all \cap Dir))]
  /\ UNCHANGED <<vars, world>>

\* The lines of a manifest are sorted by tag, directories before files.  A
\* directory that is not empty is preserved, and no longer claimed.
DropOld(x) ==
  /\ At("drop")
  /\ x \in job.old
  /\ x \notin Dir => job.old \cap Dir = {}
  /\ IF fs[x] = Absent \/ ~Removable(x) THEN UNCHANGED vars ELSE Intend("drop", x, {})
  /\ job' = [job EXCEPT !.old = @ \ {x}]
  /\ UNCHANGED world

\* An empty manifest is an error (Fail) unless everything had been ceded.
RecordManifest ==
  /\ At("drop")
  /\ job.old = {}
  /\ job.new # {} \/ job.skipped
  /\ Intend("bytes", Manifest[pkg], job.new)
  /\ job' = [job EXCEPT !.next = "meta"]
  /\ UNCHANGED world

\* Mutant: the meta goes before the manifest.
RecordMetaFirst ==
  /\ At("drop")
  /\ job.old = {}
  /\ Intend("bytes", Meta[pkg], job.new \cup job.ceded)
  /\ job' = [job EXCEPT !.next = "commit"]
  /\ UNCHANGED world

\* The baseline keeps the ceded lines; the meta carries the transaction id.
RecordMeta ==
  /\ At("meta")
  /\ Intend("bytes", Meta[pkg], job.new \cup job.ceded)
  /\ job' = [job EXCEPT !.next = "commit"]
  /\ UNCHANGED world

\* A package named on the command line goes on to the world file.
InstallCommit(explicit) ==
  /\ At("commit")
  /\ Commit
  /\ job' = IF explicit THEN [NoJob EXCEPT !.next = "world"] ELSE NoJob
  /\ UNCHANGED world

WorldAdd ==
  /\ pc = "done"
  /\ job.next = "world"
  /\ world' = world \cup {pkg}
  /\ job' = NoJob
  /\ UNCHANGED vars

\* An error rolls back; death takes the memory of the process with it.
Abandon == (Fail \/ Crash) /\ job' = NoJob /\ UNCHANGED world

Underneath ==
  /\ Start \/ Sweep \/ Primitive \/ Replay \/ (Finish /\ job.next # "world")
  /\ UNCHANGED <<job, world>>

WNext ==
  \/ \E p \in Package : \E stage \in Stages[p] : InstallBegin(p, stage)
  \/ SkipCeded \/ (\E q \in Package : Cede(q)) \/ PlaceLeaf
  \/ MakeDir \/ KeepDir \/ StageDone \/ (\E x \in Path : DropOld(x))
  \/ RecordManifest \/ RecordMeta \/ WorldAdd
  \/ (\E explicit \in BOOLEAN : InstallCommit(explicit))
  \/ Abandon \/ Underneath

WSpec == WInit /\ [][WNext]_wvars

-----------------------------------------------------------------------------
(***************************************************************************)
(* Properties                                                              *)
(***************************************************************************)

\* The memory of an installation is well formed, lives no longer than its
\* process, and never claims what was ceded.
WTypeOK ==
  /\ job \in Job
  /\ job.next # "none" => pc \in Forward \cup {"done"}
  /\ job.new \cap job.ceded = {}
  /\ world \subseteq Package

\* The installer keeps the contract its journal relies on: each of its steps is
\* a step of Journal, so what is proved of Journal holds of it.
JournalSpec == Spec

Atomic == INSTANCE AtomicInstall WITH root <- View

\* Whoever waits for recovery sees an installation happen in one step, cessions
\* and removals included, or not at all (SPEC-0003 section 6; install.rs:5404).
InstallsAtomically == Atomic!Spec

\* No path has two owners, and nobody owns anything inside another package's
\* exclusive directory (SPEC-0003 section 7; install.rs:6308).
NoDoublethink == Disjoint(View)

\* Every record that counts describes the root: each file it lists is the one
\* its own transaction placed, each directory is there (install.rs:9420).
ClaimsIntact == Intact(View)

\* Every payload file has an owner: no upgrade, cession or rollback leaves one
\* behind that no record lists.
NoOrphanFile == Accounted(View)

\* The three together: nothing has two owners, no claim is empty, no file is
\* without an owner.
OwnershipHolds == NoDoublethink /\ ClaimsIntact /\ NoOrphanFile

\* What a transaction adds at or below the shared directories of others, whatever
\* it ceded and dropped on the way, belongs to a direct dependent of the deepest
\* one's owner (SPEC-0003 section 7; install.rs:6357).
DepositsAreDeclared ==
  [][\A p \in Package : \A c \in Claims(View', p) \ Claims(View, p) :
       \A pr \in Nearest(SharedOver(View, p, c)) : pr[1] \in Deps[p]]_wvars

\* ... and only direct dependents of a shared directory's owner have anything
\* inside it, whoever came first (SPEC-0003 section 7; install.rs:6409).
OwnerDeclared ==
  \A p, q \in Package : p # q =>
    \A c \in Claims(View, p) :
      Above[c] \cap SharedClaims(View, q) # {} => q \in Deps[p]

\* A package is in the world file only if it is installed.
WorldIsInstalled == \A p \in world : Installed(View, p)

\* Recovery never stops for ever over what this program alone did: the backup
\* of every moved path is found (install.rs:5896).
ReplayIsIdempotent == verdict # "unsafe"

\* ... and a pending rollback is never refused for a commit that came later:
\* the lock and the sweep exclude one (SPEC-0003 section 6; install.rs:5504).
RollbackIsNeverLate == verdict # "superseded"

\* A provisional's claim is lost only to a successor that owns it, or when a
\* successor gives it up; directories apart: a ceded empty directory is there
\* already, so the successor does not list it (install.rs:5704).
CessionsAreProved ==
  [][View' # View =>
       \A q \in Provisional :
         Unproved(View, q)' \subseteq
           Unproved(View, q) \cup Dir
           \cup UNION {Claims(View, p) \ Claims(View', p) : p \in Package \ {q}}]_wvars
=============================================================================
