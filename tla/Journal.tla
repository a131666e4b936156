------------------------------- MODULE Journal -------------------------------
(***************************************************************************)
(* The undo journal of minitrue's world-B installations                    *)
(* (src/minitrue/src/install.rs, `Journal`).                               *)
(*                                                                         *)
(* A transaction changes the root file system in place.  Before every      *)
(* change it appends to its log either N (the destination is new) or B     *)
(* (the destination exists and is about to be moved to backup/<n>).  The   *)
(* commit mark is the transaction id inside the package's meta file, which *)
(* the caller writes last.  A command first sweeps the journal directory:  *)
(* a marked journal is only retired, an unmarked one is rolled back in     *)
(* reverse order.  A process may die between any two system calls.         *)
(*                                                                         *)
(* This module is the journal under an arbitrary caller: CallerContract is *)
(* all it assumes about the order in which paths are touched.  WorldB is   *)
(* the caller the code has.                                                *)
(***************************************************************************)
EXTENDS Integers, Sequences, FiniteSets

CONSTANTS
  Package,    \* names a journal may carry
  Path,       \* the paths of the root a transaction can touch
  Dir,        \* those of them that are directories when they exist
  Tmp,        \* the private name place_bytes writes before its rename
  Meta,       \* Meta[p]: records/<p>/meta
  Manifest,   \* Manifest[p]: records/<p>/manifest
  Above,      \* Above[x]: the proper ancestors of x that are in Path
  Roots,      \* the roots the first command may find
  ClaimSets,  \* what a manifest may list
  Reopen,     \* may one transaction replace the same path twice?
  MaxTx,      \* BOUND: transactions ever begun
  MaxLog,     \* BOUND: log entries of one transaction
  MaxCrash    \* BOUND: process deaths

ASSUME PathAssumption ==
  /\ Dir \subseteq Path /\ Tmp \in Path \ Dir
  /\ Meta \in [Package -> Path]
  /\ Manifest \in [Package -> Path]
  /\ Above \in [Path -> SUBSET Path]
  /\ ClaimSets \subseteq SUBSET Path /\ {} \in ClaimSets

ASSUME MetaAssumption ==
  /\ \A p \in Package : {Meta[p], Manifest[p]} \cap (Dir \cup {Tmp}) = {}
  /\ \A p, q \in Package : Meta[p] # Manifest[q]
  /\ \A p, q \in Package : Meta[p] = Meta[q] => p = q

\* What a path holds.  "by" is the transaction that wrote it (0: there before
\* the first one) and stands for its bytes; "claims" is what a manifest lists.
\* A "partial" file is one whose bytes are still being copied.
Node == [kind : {"absent", "partial", "file", "dir"}, by : Nat,
         claims : ClaimSets]

Absent == [kind |-> "absent", by |-> 0, claims |-> {}]

\* Nothing was written by a transaction of the model yet.
ASSUME RootAssumption ==
  /\ Roots \subseteq [Path -> Node]
  /\ \A root \in Roots : /\ root[Tmp] = Absent
                         /\ \A x \in Path : root[x].by = 0

ASSUME BoundAssumption ==
  /\ Reopen \in BOOLEAN
  /\ MaxTx \in Nat /\ MaxLog \in Nat /\ MaxCrash \in Nat

\* A log line.  "saved" is the content of backup/<n> for the line's own n, and
\* Absent while that backup does not exist.
Entry == [kind : {"N", "B"}, path : Path, saved : Node]

\* A journal directory; txid 0 means there is none under the active name.
JournalDir == [txid : Nat, log : Seq(Entry)]

NoJournal == [txid |-> 0, log |-> << >>]

\* A primitive the caller asked for: place_file, place_sealed_file and
\* place_symlink ("place"), the creating branch of ensure_dir ("mkdir"),
\* place_bytes ("bytes") and drop_path ("drop").
OpKinds == {"place", "mkdir", "bytes", "drop"}

Op == [kind : OpKinds, path : Path, node : Node]

\* Between two primitives.
NoOp == [kind |-> "drop", path |-> Tmp, node |-> Absent]

VARIABLES
  fs,         \* the root file system
  journal,    \* the journal directory of each package
  pc,         \* what the one process holding the lock is doing
  pkg,        \* the package of the transaction it works on
  op,         \* the primitive in progress
  cur,        \* the log entry the rollback is at
  how,        \* the rollback belongs to a "recover" or to an "abort"
  verdict,    \* why the last command stopped, "ok" if it did not refuse
  snap,       \* history: fs when the last transaction began
  txs,        \* transactions begun so far; the last one's id
  crashes     \* deaths so far

vars == <<fs, journal, pc, pkg, op, cur, how, verdict, snap, txs, crashes>>

Forward == {"apply", "moving", "unlinking", "writing", "filling", "tmp",
            "intent", "swapping"}

Undoing == {"replay", "restoring", "unbacking"}

Phases == {"idle", "sweep", "ready", "done"} \cup Forward \cup Undoing

Verdicts == {"ok", "unsafe", "superseded", "blocked", "ambiguous"}

-----------------------------------------------------------------------------
(***************************************************************************)
(* Views of the durable state                                              *)
(***************************************************************************)

Live(p) == journal[p].txid # 0

\* Mutant: a journal without lines is taken for no journal.
PendingWithLines == {p \in Package : Live(p) /\ journal[p].log # << >>}

Pending == {p \in Package : Live(p)}

\* The transaction id in the meta file is the only proof of a commit.
Committed(p) == fs[Meta[p]].kind = "file" /\ fs[Meta[p]].by = journal[p].txid

Log == journal[pkg].log

Logged(l, x) == \E i \in DOMAIN l : l[i].path = x

IsFirst(l, i) == \A j \in 1..(i - 1) : l[j].path # l[i].path

\* What a path of the root held before the transaction, as its first log line
\* tells it.
Before(root, e) == IF e.kind = "N" THEN Absent
                   ELSE IF e.saved # Absent THEN e.saved
                   ELSE root[e.path]

\* The root as recovery will leave it: the undone one while a transaction
\* without a commit mark is pending, the present one otherwise.
View ==
  LET undone == {p \in Pending : ~Committed(p)} IN
  IF undone = {} THEN fs
  ELSE LET l == journal[CHOOSE p \in undone : TRUE].log IN
       [x \in Path |->
          IF Logged(l, x)
          THEN Before(fs, l[CHOOSE i \in DOMAIN l : l[i].path = x /\ IsFirst(l, i)])
          ELSE fs[x]]

\* The claims of a record; one without meta is not installed and claims nothing.
Claims(root, q) == IF root[Meta[q]] = Absent THEN {} ELSE root[Manifest[q]].claims

Overlaps(c, x) == c = x \/ c \in Above[x] \/ x \in Above[c]

\* Some destination of p's log overlaps a claim another record holds now.
Superseded(p) ==
  \E q \in Package \ {p}, i \in DOMAIN journal[p].log :
    \E c \in Claims(fs, q) : Overlaps(c, journal[p].log[i].path)

\* A directory goes only when it is empty.
Removable(x) ==
  fs[x].kind = "dir" => \A y \in Path : x \in Above[y] => fs[y] = Absent

-----------------------------------------------------------------------------
(***************************************************************************)
(* A command takes the lock and sweeps the journal directory (recover_all) *)
(***************************************************************************)

\* The process is gone, and with it everything it remembered.
Exit == pc' = "idle" /\ op' = NoOp /\ cur' = 0 /\ how' = "abort"

Init ==
  /\ fs \in Roots
  /\ journal = [p \in Package |-> NoJournal]
  /\ pc = "idle"
  /\ pkg \in Package
  /\ op = NoOp
  /\ cur = 0
  /\ how = "abort"
  /\ verdict = "ok"
  /\ snap = fs
  /\ txs = 0
  /\ crashes = 0

Start ==
  /\ pc = "idle"
  /\ pc' = "sweep"
  /\ verdict' = "ok"
  /\ UNCHANGED <<fs, journal, pkg, op, cur, how, snap, txs, crashes>>

\* A command that stops with an error; the journal stays as it is.
Refuse(why) ==
  /\ Exit
  /\ verdict' = why
  /\ UNCHANGED <<fs, journal, pkg, snap, txs, crashes>>

SweepClean ==
  /\ pc = "sweep"
  /\ Pending = {}
  /\ pc' = "ready"
  /\ UNCHANGED <<fs, journal, pkg, op, cur, how, verdict, snap, txs, crashes>>

\* More than one active journal: the order of the rollbacks is not known.
SweepAmbiguous ==
  /\ pc = "sweep"
  /\ \E p, q \in Pending : p # q
  /\ Refuse("ambiguous")

SweepCommitted(p) ==
  /\ pc = "sweep"
  /\ Pending = {p}
  /\ Committed(p)
  /\ journal' = [journal EXCEPT ![p] = NoJournal]
  /\ pc' = "ready"
  /\ UNCHANGED <<fs, pkg, op, cur, how, verdict, snap, txs, crashes>>

SweepSuperseded(p) ==
  /\ pc = "sweep"
  /\ Pending = {p}
  /\ ~Committed(p)
  /\ Superseded(p)
  /\ Refuse("superseded")

\* Mutant: the commit mark is not looked at.
SweepRollbackAlways(p) ==
  /\ pc = "sweep"
  /\ Pending = {p}
  /\ ~Superseded(p)
  /\ pkg' = p
  /\ pc' = "replay"
  /\ cur' = Len(journal[p].log)
  /\ how' = "recover"
  /\ UNCHANGED <<fs, journal, op, verdict, snap, txs, crashes>>

SweepRollback(p) ==
  /\ pc = "sweep"
  /\ Pending = {p}
  /\ ~Committed(p)
  /\ ~Superseded(p)
  /\ pkg' = p
  /\ pc' = "replay"
  /\ cur' = Len(journal[p].log)
  /\ how' = "recover"
  /\ UNCHANGED <<fs, journal, op, verdict, snap, txs, crashes>>

\* The command ends without (another) transaction.
Finish ==
  /\ pc \in {"ready", "done"}
  /\ Exit
  /\ UNCHANGED <<fs, journal, pkg, verdict, snap, txs, crashes>>

-----------------------------------------------------------------------------
(***************************************************************************)
(* The transaction                                                         *)
(***************************************************************************)

\* The journal is built under a dot name and activated by one rename.
Begin(p) ==
  /\ pc = "ready"
  /\ Pending = {}
  /\ txs < MaxTx
  /\ txs' = txs + 1
  /\ journal' = [journal EXCEPT ![p] = [txid |-> txs + 1, log |-> << >>]]
  /\ pkg' = p
  /\ snap' = fs
  /\ pc' = "apply"
  /\ UNCHANGED <<fs, op, cur, how, verdict, crashes>>

Append1(e) == journal' = [journal EXCEPT ![pkg].log = Append(@, e)]

NewEntry(x) == [kind |-> "N", path |-> x, saved |-> Absent]

BackupEntry(x) == [kind |-> "B", path |-> x, saved |-> Absent]

\* Mutant: what is there is overwritten, not moved aside.
StashNothing(x, onNew) == Append1(NewEntry(x)) /\ pc' = onNew

\* Log the intent for x, before anything happens to x.
Stash(x, onNew) ==
  \/ /\ fs[x] = Absent
     /\ Append1(NewEntry(x))
     /\ pc' = onNew
  \/ /\ fs[x] # Absent
     /\ Append1(BackupEntry(x))
     /\ pc' = "moving"

\* What the journal relies on.  A path its own transaction emptied is never
\* opened again; the meta file is written once, and nothing follows it; a path
\* is replaced once unless Reopen.
CallerContract(k, x) ==
  /\ ~Committed(pkg)
  /\ x # Tmp
  /\ \A q \in Package : x = Meta[q] => q = pkg /\ k = "bytes"
  /\ Logged(Log, x) => Reopen /\ fs[x] # Absent

\* ensure_dir returns early when the directory is there, drop_path when there
\* is nothing to drop; replacing a directory by a file is refused (Fail).  The
\* parents of a new leaf are directories: place_* and ensure_dir see to that.
Suits(k, x) ==
  /\ k # "drop" => \A y \in Above[x] : fs[y].kind = "dir"
  /\ CASE k = "mkdir" -> x \in Dir /\ fs[x] = Absent
       [] k = "drop"  -> fs[x] # Absent /\ Removable(x)
       [] OTHER       -> x \notin Dir

NewNode(k, c) ==
  [kind |-> IF k = "mkdir" THEN "dir" ELSE "file",
   by |-> journal[pkg].txid, claims |-> c]

Intend(k, x, c) ==
  /\ pc = "apply"
  /\ Len(Log) + 2 <= MaxLog
  /\ CallerContract(k, x)
  /\ Suits(k, x)
  /\ op' = [kind |-> k, path |-> x, node |-> NewNode(k, c)]
  /\ IF k = "bytes"
     THEN Append1(NewEntry(Tmp)) /\ pc' = "tmp"
     ELSE Stash(x, "writing")
  /\ UNCHANGED <<fs, pkg, cur, how, verdict, snap, txs, crashes>>

\* The primitive is complete.
OpDone == pc' = "apply" /\ op' = NoOp

\* Where it goes on once its destination is out of the way.
Onward ==
  CASE op.kind = "drop"  -> OpDone
    [] op.kind = "bytes" -> pc' = "swapping" /\ op' = op
    [] OTHER             -> pc' = "writing" /\ op' = op

SetSaved(i, n) == journal' = [journal EXCEPT ![pkg].log[i].saved = n]

\* move_path within one file system.
MoveAside ==
  /\ pc = "moving"
  /\ SetSaved(Len(Log), fs[op.path])
  /\ fs' = [fs EXCEPT ![op.path] = Absent]
  /\ Onward
  /\ UNCHANGED <<pkg, cur, how, verdict, snap, txs, crashes>>

\* move_path across file systems: the backup gets its final name complete, and
\* only then the original goes.
CopyAside ==
  /\ pc = "moving"
  /\ fs[op.path].kind = "file"
  /\ SetSaved(Len(Log), fs[op.path])
  /\ pc' = "unlinking"
  /\ UNCHANGED <<fs, pkg, op, cur, how, verdict, snap, txs, crashes>>

UnlinkOriginal ==
  /\ pc = "unlinking"
  /\ fs' = [fs EXCEPT ![op.path] = Absent]
  /\ Onward
  /\ UNCHANGED <<journal, pkg, cur, how, verdict, snap, txs, crashes>>

\* The new leaf appears empty and is then filled; a directory is complete.
Create ==
  /\ pc = "writing"
  /\ IF op.kind = "mkdir"
     THEN fs' = [fs EXCEPT ![op.path] = op.node] /\ OpDone
     ELSE /\ fs' = [fs EXCEPT ![op.path] = [op.node EXCEPT !.kind = "partial"]]
          /\ pc' = "filling" /\ op' = op
  /\ UNCHANGED <<journal, pkg, cur, how, verdict, snap, txs, crashes>>

Fill ==
  /\ pc = "filling"
  /\ fs' = [fs EXCEPT ![op.path] = op.node]
  /\ OpDone
  /\ UNCHANGED <<journal, pkg, cur, how, verdict, snap, txs, crashes>>

\* place_bytes: temporary, intent for the destination, rename over it.
WriteTmp ==
  /\ pc = "tmp"
  /\ fs' = [fs EXCEPT ![Tmp] = op.node]
  /\ pc' = "intent"
  /\ UNCHANGED <<journal, pkg, op, cur, how, verdict, snap, txs, crashes>>

IntendSwap ==
  /\ pc = "intent"
  /\ Stash(op.path, "swapping")
  /\ UNCHANGED <<fs, pkg, op, cur, how, verdict, snap, txs, crashes>>

Swap ==
  /\ pc = "swapping"
  /\ fs' = [fs EXCEPT ![op.path] = op.node, ![Tmp] = Absent]
  /\ OpDone
  /\ UNCHANGED <<journal, pkg, cur, how, verdict, snap, txs, crashes>>

Commit ==
  /\ pc = "apply"
  /\ Committed(pkg)
  /\ journal' = [journal EXCEPT ![pkg] = NoJournal]
  /\ pc' = "done"
  /\ UNCHANGED <<fs, pkg, op, cur, how, verdict, snap, txs, crashes>>

\* Any step before the commit mark may fail; the caller then rolls back.
Fail ==
  /\ pc \in Forward
  /\ ~Committed(pkg)
  /\ pc' = "replay"
  /\ cur' = Len(Log)
  /\ how' = "abort"
  /\ op' = NoOp
  /\ UNCHANGED <<fs, journal, pkg, verdict, snap, txs, crashes>>

-----------------------------------------------------------------------------
(***************************************************************************)
(* replay_rollback: the log in reverse, from its last line every time      *)
(***************************************************************************)

AtEntry(kind) == pc = "replay" /\ cur > 0 /\ Log[cur].kind = kind

\* Mutant: only complete files are taken away.
UndoNewFile ==
  /\ AtEntry("N")
  /\ Removable(Log[cur].path)
  /\ fs' = IF fs[Log[cur].path].kind = "file"
           THEN [fs EXCEPT ![Log[cur].path] = Absent] ELSE fs
  /\ cur' = cur - 1
  /\ UNCHANGED <<journal, pc, pkg, op, how, verdict, snap, txs, crashes>>

UndoNew ==
  /\ AtEntry("N")
  /\ Removable(Log[cur].path)
  /\ fs' = [fs EXCEPT ![Log[cur].path] = Absent]
  /\ cur' = cur - 1
  /\ UNCHANGED <<journal, pc, pkg, op, how, verdict, snap, txs, crashes>>

\* Mutant: the backup is let go of before its content is back.
ClearBoth ==
  /\ AtEntry("B")
  /\ Log[cur].saved # Absent
  /\ fs' = [fs EXCEPT ![Log[cur].path] = Absent]
  /\ SetSaved(cur, Absent)
  /\ UNCHANGED <<pc, pkg, op, cur, how, verdict, snap, txs, crashes>>

\* remove_leaf_if_exists, the first half of restoring a backup.
ClearForRestore ==
  /\ AtEntry("B")
  /\ Log[cur].saved # Absent
  /\ Removable(Log[cur].path)
  /\ fs' = [fs EXCEPT ![Log[cur].path] = Absent]
  /\ pc' = "restoring"
  /\ UNCHANGED <<journal, pkg, op, cur, how, verdict, snap, txs, crashes>>

\* A directory that is not empty stays, and so does the journal.
UndoBlocked ==
  /\ pc = "replay" /\ cur > 0
  /\ Log[cur].kind = "B" => Log[cur].saved # Absent
  /\ ~Removable(Log[cur].path)
  /\ Refuse("blocked")

Restore ==
  /\ pc = "restoring"
  /\ fs' = [fs EXCEPT ![Log[cur].path] = Log[cur].saved]
  /\ SetSaved(cur, Absent)
  /\ cur' = cur - 1
  /\ pc' = "replay"
  /\ UNCHANGED <<pkg, op, how, verdict, snap, txs, crashes>>

\* The same across file systems: the backup is removed last.
RestoreByCopy ==
  /\ pc = "restoring"
  /\ Log[cur].saved.kind = "file"
  /\ fs' = [fs EXCEPT ![Log[cur].path] = Log[cur].saved]
  /\ pc' = "unbacking"
  /\ UNCHANGED <<journal, pkg, op, cur, how, verdict, snap, txs, crashes>>

UnlinkBackup ==
  /\ pc = "unbacking"
  /\ SetSaved(cur, Absent)
  /\ cur' = cur - 1
  /\ pc' = "replay"
  /\ UNCHANGED <<fs, pkg, op, how, verdict, snap, txs, crashes>>

\* No backup: the move never happened, or an earlier rollback restored it.
SkipRestored ==
  /\ AtEntry("B")
  /\ Log[cur].saved = Absent
  /\ fs[Log[cur].path] # Absent
  /\ cur' = cur - 1
  /\ UNCHANGED <<fs, journal, pc, pkg, op, how, verdict, snap, txs, crashes>>

UndoUnsafe ==
  /\ AtEntry("B")
  /\ Log[cur].saved = Absent
  /\ fs[Log[cur].path] = Absent
  /\ Refuse("unsafe")

\* After a recovery the command goes on; after an abort it ends with its error.
RetireRolledBack ==
  /\ pc = "replay"
  /\ cur = 0
  /\ journal' = [journal EXCEPT ![pkg] = NoJournal]
  /\ IF how = "recover" THEN pc' = "ready" /\ UNCHANGED <<op, cur, how>>
                         ELSE Exit
  /\ UNCHANGED <<fs, pkg, verdict, snap, txs, crashes>>

\* The process dies; only fs and the journal directories are left.
Crash ==
  /\ pc # "idle"
  /\ crashes < MaxCrash
  /\ crashes' = crashes + 1
  /\ Exit
  /\ UNCHANGED <<fs, journal, pkg, verdict, snap, txs>>

-----------------------------------------------------------------------------
Sweep ==
  \/ SweepClean \/ SweepAmbiguous
  \/ \E p \in Package : SweepCommitted(p) \/ SweepSuperseded(p) \/ SweepRollback(p)

\* The primitive in progress.
Primitive ==
  \/ MoveAside \/ CopyAside \/ UnlinkOriginal \/ Create \/ Fill
  \/ WriteTmp \/ IntendSwap \/ Swap

Replay ==
  \/ UndoNew \/ ClearForRestore \/ UndoBlocked \/ Restore \/ RestoreByCopy
  \/ UnlinkBackup \/ SkipRestored \/ UndoUnsafe \/ RetireRolledBack

Next ==
  \/ Start \/ Sweep \/ Finish
  \/ \E p \in Package : Begin(p)
  \/ \E k \in OpKinds, x \in Path, c \in ClaimSets : Intend(k, x, c)
  \/ Primitive \/ Commit \/ Fail
  \/ Replay \/ Crash

Spec == Init /\ [][Next]_vars

-----------------------------------------------------------------------------
(***************************************************************************)
(* Properties                                                              *)
(***************************************************************************)

\* Every variable holds a value of its kind.
TypeOK ==
  /\ fs \in [Path -> Node]
  /\ journal \in [Package -> JournalDir]
  /\ pc \in Phases
  /\ pkg \in Package
  /\ op \in Op
  /\ cur \in Nat
  /\ how \in {"recover", "abort"}
  /\ verdict \in Verdicts
  /\ snap \in [Path -> Node]
  /\ txs \in 0..MaxTx
  /\ crashes \in 0..MaxCrash

\* At most one journal is active, whatever packages are installed and wherever
\* the process dies: the order of a rollback is never ambiguous
\* (SPEC-0003 section 6; install.rs:5356).
AtMostOneJournal == \A p, q \in Package : Live(p) /\ Live(q) => p = q

\* Write-ahead: while a transaction is pending without its commit mark, the
\* first log line of each path, its backup and the live path together still
\* give back what the path held when the transaction began, and a path without
\* a log line was not changed.  It holds at every system call of the forward
\* run, of the rollback, and of a rollback cut short and started again.
NothingLost ==
  \A p \in Pending : ~Committed(p) =>
    \A x \in Path :
      /\ ~Logged(journal[p].log, x) => fs[x] = snap[x]
      /\ \A i \in DOMAIN journal[p].log :
           journal[p].log[i].path = x /\ IsFirst(journal[p].log, i)
             => Before(fs, journal[p].log[i]) = snap[x]

\* A journal without commit mark is retired only over the root its transaction
\* started from: all of it, temporaries and new directories included, is gone
\* (install.rs:5886, 5952).
RollbackRestores ==
  [][\A p \in Package :
       Live(p) /\ ~Committed(p) /\ journal'[p] = NoJournal => fs' = snap]_vars

\* Once the meta file carries the id, no step of a recovery or of the process
\* takes the transaction back (install.rs:5439).
CommitIsFinal ==
  [][\A p \in Package : Live(p) /\ Committed(p) => fs' = fs]_vars

\* No recovery is ever refused (install.rs:5896, "Idempotente").
RecoveryNeverRefused == verdict = "ok"

\* Whatever state the journal directory and the root are found in, damaged or
\* left by an older version: a backup leaves an uncommitted journal only into
\* its own path (install.rs:5403).
BackupsKeptStep ==
  \A p \in Package : Live(p) /\ ~Committed(p) =>
    \A i \in DOMAIN journal[p].log :
      LET e == journal[p].log[i] IN
      e.saved # Absent =>
        \/ fs'[e.path] = e.saved
        \/ i \in DOMAIN journal'[p].log /\ journal'[p].log[i] = e

BackupsKept == [][BackupsKeptStep]_vars

\* With two active journals no order of rollback is right, and none is tried:
\* nothing changes until someone repairs it (install.rs:5358).
AmbiguityFailsClosed ==
  [][(\E p, q \in Pending : p # q) => UNCHANGED <<fs, journal>>]_vars

\* Progress of the process, and of the next command after it died; a crash is
\* never owed to anyone.
Step == Next /\ crashes' = crashes

FairSpec == Spec /\ WF_vars(Step)

\* Every transaction ends: committed or rolled back, its journal is retired
\* even when processes die in the middle of the rollback.
EveryJournalRetired == \A p \in Package : Live(p) ~> ~Live(p)

-----------------------------------------------------------------------------
(***************************************************************************)
(* The inductive invariant                                                 *)
(***************************************************************************)

\* The log of a pending transaction: a path is opened as new only the first
\* time; later lines for it are backups, and a later backup never outlives an
\* earlier one; temporaries are always new; the meta file has one line.
LogInv(p) ==
  LET l == journal[p].log IN
  /\ \A x \in Path : Logged(l, x) =>
       \E i \in DOMAIN l : l[i].path = x /\ IsFirst(l, i)
  /\ \A j \in DOMAIN l : IsFirst(l, j) \/ l[j].path = Tmp \/ l[j].kind = "B"
  /\ \A j \in DOMAIN l : l[j].path = Tmp => l[j].kind = "N"
  /\ \A i, j \in DOMAIN l :
       i < j /\ l[i].path = l[j].path /\ l[i].kind = "B" /\ l[j].saved # Absent
         => l[i].saved # Absent
  /\ \A i \in DOMAIN l, q \in Package :
       l[i].path = Meta[q] => q = p /\ IsFirst(l, i)

\* What the log says the path held is what it held, commit mark or not.
Undoable(p) ==
  LET l == journal[p].log IN
  \A x \in Path :
    /\ ~Logged(l, x) => fs[x] = snap[x]
    /\ \A i \in DOMAIN l :
         l[i].path = x /\ IsFirst(l, i) => Before(fs, l[i]) = snap[x]

\* Transaction ids grow; nothing older than a transaction carries its id.
TxInv ==
  /\ \A x \in Path : fs[x].by <= txs
  /\ \A p \in Pending :
       /\ journal[p].txid = txs
       /\ \A x \in Path : snap[x].by < txs
       /\ \A i \in DOMAIN journal[p].log : journal[p].log[i].saved.by <= txs

\* The temporary of place_bytes is there only while it is in use.
TmpInv ==
  /\ Pending = {} => fs[Tmp] = Absent
  /\ \A p \in Pending : /\ snap[Tmp] = Absent
                        /\ Committed(p) => fs[Tmp] = Absent
  /\ pc = "apply" \/ (pc \in Forward /\ op.kind # "bytes") => fs[Tmp] = Absent

\* The process and its journal.
ProcessInv ==
  /\ pc \in {"ready", "done"} => Pending = {}
  /\ pc \in Forward \cup Undoing => Live(pkg)
  /\ pc \in (Forward \ {"apply"}) \cup Undoing => ~Committed(pkg)

\* Going forward: every backup but the one being made exists.
ForwardInv ==
  pc \in Forward =>
    /\ \A i \in DOMAIN Log :
         Log[i].kind = "B" /\ (i < Len(Log) \/ pc # "moving")
           => Log[i].saved # Absent
    /\ Logged(Log, Meta[pkg]) =>
         IF pc = "apply" THEN Committed(pkg) ELSE op.path = Meta[pkg]
    /\ pc # "apply" =>
         /\ op.path # Tmp
         /\ \A q \in Package : op.path = Meta[q] => q = pkg /\ op.kind = "bytes"
         /\ op.node.by = txs
         /\ op.kind = "bytes" => op.node.kind = "file" /\ Logged(Log, Tmp)
    /\ pc \in {"tmp", "intent"} =>
         /\ op.kind = "bytes"
         /\ Logged(Log, op.path) => fs[op.path] # Absent
         /\ ~Logged(Log, Meta[pkg])
    /\ pc \in {"moving", "unlinking", "writing", "filling", "swapping"} =>
         Len(Log) > 0 /\ Log[Len(Log)].path = op.path
    /\ pc = "moving" =>
         /\ Log[Len(Log)].kind = "B"
         /\ Log[Len(Log)].saved = Absent
         /\ fs[op.path] # Absent
    /\ pc = "unlinking" =>
         Log[Len(Log)].kind = "B" /\ Log[Len(Log)].saved = fs[op.path]
    /\ pc \in {"writing", "filling"} => op.kind # "bytes"
    /\ pc = "swapping" => op.kind = "bytes"

\* Going back: what lies behind the cursor is undone.
UndoInv ==
  pc \in Undoing =>
    /\ cur \in 0..Len(Log)
    /\ \A j \in DOMAIN Log : j > cur =>
         IF Log[j].kind = "B" THEN Log[j].saved = Absent
         ELSE IsFirst(Log, j) => fs[Log[j].path] = Absent
    /\ pc \in {"restoring", "unbacking"} =>
         cur > 0 /\ Log[cur].kind = "B" /\ Log[cur].saved # Absent
    /\ pc = "unbacking" => fs[Log[cur].path] = Log[cur].saved

\* Together with TypeOK, inductive; it implies the invariants above.
Inductive ==
  /\ AtMostOneJournal
  /\ \A p \in Pending : LogInv(p) /\ Undoable(p)
  /\ TxInv
  /\ TmpInv
  /\ ProcessInv
  /\ ForwardInv
  /\ UndoInv
=============================================================================
