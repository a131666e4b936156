------------------------------- MODULE Publish -------------------------------
(***************************************************************************)
(* Publication of a live EFI image with its sidecars                       *)
(* (src/bootstrap/live/live-lock-helper.c, command_publish).               *)
(*                                                                         *)
(* Four outputs have to appear beside each other, the bootable one last,   *)
(* and survive a power cut.  A journal directory holds the stages that are *)
(* hard-linked to the outputs, and marks that say how far it went; any run *)
(* of the same request continues what an earlier one left.                 *)
(*                                                                         *)
(* A process is a list of tasks, each a few system calls.  Two processes   *)
(* may run at once: nothing but NOREPLACE and O_EXCL keeps them apart.     *)
(*                                                                         *)
(* After a power cut a directory entry is what it was at some moment since *)
(* its directory was last synced, and a file that was not synced may be    *)
(* torn.                                                                   *)
(***************************************************************************)
EXTENDS Integers, Sequences, FiniteSets

CONSTANTS
  Publisher,   \* processes
  Request,     \* what may be asked for: the contents of the four outputs
  SidecarOrder,\* the sidecars, in the order they are staged and linked
  Inode,       \* BOUND: inodes of one name, 1 upwards
  MaxRun,      \* BOUND: runs of the program
  MaxCut       \* BOUND: deaths of processes and power cuts

Sidecars == {SidecarOrder[i] : i \in DOMAIN SidecarOrder}

ASSUME PublishAssumption ==
  /\ SidecarOrder \in Seq({"COMPONENTS", "RUNNER_PROOF", "LOCK"})
  /\ Request # {} /\ Inode \subseteq Nat \ {0} /\ MaxRun \in Nat /\ MaxCut \in Nat

Outputs == Sidecars \cup {"EFI"}

Marks == {"OWNER", "REQUEST", "READY", "COMMITTED"}

Names == Outputs \cup Marks

\* "whole" includes the final mode; "synced" is fsync of the file.
File == [req : Request, whole : BOOLEAN, synced : BOOLEAN]

None == 0

\* A name in the journal and the dot name it is written under first.
Slot == [temp : Inode \cup {None}, name : Inode \cup {None}]

Empty == [temp |-> None, name |-> None]

Verbs == {"put", "keep", "ready", "verify", "link", "sync", "check", "clean", "rmdir"}

VARIABLES
  live,     \* the journal directory exists
  slot,     \* what it holds
  out,      \* the outputs
  file,     \* the inodes of each name
  since,    \* what each entry has been since its directory was synced
  proc,     \* the processes
  runs,     \* runs so far
  cuts      \* deaths and power cuts so far

disk == <<live, slot, out, file, since>>

bounds == <<runs, cuts>>

vars == <<disk, proc, bounds>>

\* seen: the journal was there at the first look; left: outputs still to look
\* for; have: outputs and marks found so far; found: the name was there; fd: the temporary it writes;
\* open: its descriptor is that of the journal directory now in place.
Idle(r, result) ==
  [pc |-> "idle", req |-> r, result |-> result, seen |-> FALSE, have |-> {},
   left |-> << >>, todo |-> << >>, found |-> FALSE, fd |-> None, open |-> FALSE]

-----------------------------------------------------------------------------
(***************************************************************************)
(* Programs                                                                *)
(***************************************************************************)

Each(verb, names) == [i \in DOMAIN names |-> <<verb, names[i]>>]

SyncParent == <<<<"sync", "EFI">>>>

StageOrder == <<"EFI">> \o SidecarOrder

\* COMMITTED is the last name to go.
Cleanup ==
  Each("clean", StageOrder \o <<"READY", "REQUEST", "OWNER", "COMMITTED">>)
  \o <<<<"rmdir", "EFI">>>> \o SyncParent

\* Mutant: one sync for all links.
PublicationOneSync ==
  Each("put", <<"OWNER", "REQUEST">> \o StageOrder \o <<"READY">>)
  \o Each("link", SidecarOrder \o <<"EFI">>) \o SyncParent
  \o Each("put", <<"COMMITTED">>)
  \o <<<<"check", "EFI">>>> \o Cleanup

\* The bootable output is linked when its sidecars are on the disk.
Publication ==
  Each("put", <<"OWNER", "REQUEST">> \o StageOrder \o <<"READY">>)
  \o Each("link", SidecarOrder) \o SyncParent
  \o Each("link", <<"EFI">>) \o SyncParent
  \o Each("put", <<"COMMITTED">>)
  \o <<<<"check", "EFI">>>> \o Cleanup

\* All outputs are there, the commit is not: what vouches for them?
Recovery == Each("keep", <<"OWNER", "REQUEST">>) \o Each("ready", <<"READY">>)

\* READY does.
Reconciliation ==
  Each("put", <<"READY">>) \o Each("verify", StageOrder)
  \o Each("link", SidecarOrder \o <<"EFI">>) \o SyncParent
  \o Each("put", <<"COMMITTED">>) \o Cleanup

Finishing ==
  Each("put", <<"COMMITTED">>) \o Each("keep", <<"OWNER", "REQUEST", "READY">>)
  \o Cleanup

\* Only the empty journal directory is left.
Terminal == <<<<"rmdir", "EFI">>>> \o SyncParent

-----------------------------------------------------------------------------
(***************************************************************************)
(* Files and directories                                                   *)
(***************************************************************************)

\* The journal as p sees it: a removed directory is empty for ever.
Sees(p, n) == IF proc[p].open THEN slot[n] ELSE Empty

\* The marks say the same for every request, REQUEST apart.
Right(n, i, r) ==
  /\ i # None
  /\ file[n][i].whole
  /\ n \in {"OWNER", "READY", "COMMITTED"} \/ file[n][i].req = r

InUse(n) ==
  {slot[n].temp, slot[n].name}
  \cup UNION {{s.temp, s.name} : s \in since.slot[n]}
  \cup (IF n \in Outputs THEN {out[n]} \cup since.out[n] ELSE {})
  \cup {proc[p].fd : p \in {q \in Publisher : proc[q].todo # << >> /\ proc[q].todo[1][2] = n}}

\* The inode of a file just created.
Fresh(n) == CHOOSE i \in Inode \ InUse(n) : \A j \in Inode \ InUse(n) : i <= j

SetSlot(n, s) ==
  /\ slot' = [slot EXCEPT ![n] = s]
  /\ since' = [since EXCEPT !.slot[n] = @ \cup {s}]

FsyncJournal(p) ==
  since' = IF proc[p].open
           THEN [since EXCEPT !.slot = [n \in Names |-> {slot[n]}]] ELSE since

FsyncParent ==
  since' = [since EXCEPT !.live = {live}, !.out = [n \in Outputs |-> {out[n]}]]

-----------------------------------------------------------------------------
(***************************************************************************)
(* A run of the program                                                    *)
(***************************************************************************)

Go(p, pc) == proc' = [proc EXCEPT ![p].pc = pc]

Do(p, todo) ==
  proc' = [proc EXCEPT ![p].pc = "task", ![p].todo = todo, ![p].have = {}]

Die(p) ==
  /\ proc' = [proc EXCEPT ![p] = Idle(proc[p].req, "died")]
  /\ UNCHANGED <<disk, bounds>>

Nobody == Idle(CHOOSE r \in Request : TRUE, "none")

Blank == [req |-> Nobody.req, whole |-> FALSE, synced |-> FALSE]

Init ==
  /\ live = FALSE
  /\ slot = [n \in Names |-> Empty]
  /\ out = [n \in Outputs |-> None]
  /\ file = [n \in Names |-> [i \in Inode |-> Blank]]
  /\ since = [live |-> {FALSE}, out |-> [n \in Outputs |-> {None}],
              slot |-> [n \in Names |-> {Empty}]]
  /\ proc = [p \in Publisher |-> Nobody]
  /\ runs = 0
  /\ cuts = 0

Start(p) ==
  /\ proc[p].pc = "idle"
  /\ runs < MaxRun
  /\ runs' = runs + 1
  /\ \E r \in Request :
       proc' = [proc EXCEPT ![p] = [Idle(r, "none") EXCEPT !.pc = "look",
                                    !.seen = live, !.left = StageOrder]]
  /\ UNCHANGED <<disk, cuts>>

\* A second link is accepted only beside a journal.
LooksRight(p, n) ==
  /\ Right(n, out[n], proc[p].req)
  /\ proc[p].seen \/ ~(live /\ slot[n].name = out[n])

Look(p) ==
  LET n == Head(proc[p].left) IN
  /\ proc[p].pc = "look"
  /\ proc[p].left # << >>
  /\ IF out[n] = None \/ LooksRight(p, n)
     THEN /\ proc' = [proc EXCEPT ![p].left = Tail(@),
                        ![p].have = IF out[n] = None THEN @ ELSE @ \cup {n}]
          /\ UNCHANGED <<disk, bounds>>
     ELSE Die(p)

\* Some outputs without a journal to continue from are refused.
Decide(p) ==
  /\ proc[p].pc = "look"
  /\ proc[p].left = << >>
  /\ IF ~proc[p].seen /\ proc[p].have \notin {{}, Outputs} THEN Die(p)
     ELSE /\ IF proc[p].seen THEN Go(p, "open")
             ELSE IF proc[p].have = Outputs THEN Do(p, SyncParent)
             ELSE Go(p, "mkdir")
          /\ UNCHANGED <<disk, bounds>>

Mkdir(p) ==
  /\ proc[p].pc = "mkdir"
  /\ IF live THEN Die(p)
     ELSE /\ live' = TRUE
          /\ since' = [since EXCEPT !.live = @ \cup {TRUE}]
          /\ Go(p, "mkdirSync")
          /\ UNCHANGED <<slot, out, file, bounds>>

\* A journal found there may not have reached the disk.
OpenJournal(p) ==
  /\ proc[p].pc = "open"
  /\ IF live
     THEN /\ proc' = [proc EXCEPT ![p].open = TRUE,
                        ![p].pc = IF proc[p].seen THEN "reopenParent" ELSE "judge"]
          /\ UNCHANGED <<disk, bounds>>
     ELSE Die(p)

Judge(p) ==
  LET there(n) == Sees(p, n).name # None IN
  /\ proc[p].pc = "judge"
  /\ IF proc[p].have # Outputs THEN Do(p, Publication)
     ELSE IF there("COMMITTED") THEN Do(p, Finishing)
     ELSE proc' = [proc EXCEPT ![p].pc = "task", ![p].todo = Recovery,
                     ![p].have = {n \in {"READY"} : there(n)}]
  /\ UNCHANGED <<disk, bounds>>

-----------------------------------------------------------------------------
(***************************************************************************)
(* Tasks                                                                   *)
(***************************************************************************)

Now(p, pc, verb) ==
  proc[p].pc = pc /\ proc[p].todo # << >> /\ Head(proc[p].todo)[1] = verb

It(p) == Head(proc[p].todo)[2]

Next1(p) ==
  proc' = [proc EXCEPT ![p].pc = "task", ![p].todo = Tail(@), ![p].fd = None]

\* ensure_state_file, ensure_stage_file
Find(p) ==
  /\ Now(p, "task", "put")
  /\ proc' = [proc EXCEPT ![p].pc = "discard", ![p].found = Sees(p, It(p)).name # None]
  /\ UNCHANGED <<disk, bounds>>

AfterDiscard(p) == IF proc[p].found THEN "confirm" ELSE "create"

\* Mutant: what an earlier run left is not cleared away.
DiscardNothing(p) ==
  /\ proc[p].pc = "discard"
  /\ Go(p, AfterDiscard(p))
  /\ UNCHANGED <<disk, bounds>>

\* discard_known_temp
Discard(p) ==
  /\ proc[p].pc = "discard"
  /\ IF Sees(p, It(p)).temp = None
     THEN Go(p, AfterDiscard(p)) /\ UNCHANGED <<slot, since>>
     ELSE Go(p, "discardSync") /\ SetSlot(It(p), [slot[It(p)] EXCEPT !.temp = None])
  /\ UNCHANGED <<live, out, file, bounds>>

CreateTemp(p) ==
  LET n == It(p)
      i == Fresh(n) IN
  /\ proc[p].pc = "create"
  /\ IF proc[p].open /\ slot[n].temp = None
     THEN /\ SetSlot(n, [slot[n] EXCEPT !.temp = i])
          /\ file' = [file EXCEPT ![n][i] = [req |-> proc[p].req, whole |-> FALSE, synced |-> FALSE]]
          /\ proc' = [proc EXCEPT ![p].pc = "write", ![p].fd = i]
          /\ UNCHANGED <<live, out, bounds>>
     ELSE Die(p)

WriteTemp(p) ==
  /\ proc[p].pc = "write"
  /\ file' = [file EXCEPT ![It(p)][proc[p].fd].whole = TRUE]
  /\ Go(p, "flush")
  /\ UNCHANGED <<live, slot, out, since, bounds>>

Flush(p) ==
  /\ proc[p].pc = "flush"
  /\ file' = [file EXCEPT ![It(p)][proc[p].fd].synced = TRUE]
  /\ Go(p, IF It(p) \in Outputs THEN "verify" ELSE "rename")
  /\ UNCHANGED <<live, slot, out, since, bounds>>

\* The hash of what is under the dot name now.
VerifyTemp(p) ==
  /\ proc[p].pc = "verify"
  /\ IF Right(It(p), Sees(p, It(p)).temp, proc[p].req)
     THEN Go(p, "rename") /\ UNCHANGED <<disk, bounds>>
     ELSE Die(p)

RenameTemp(p) ==
  LET s == Sees(p, It(p)) IN
  /\ proc[p].pc = "rename"
  /\ IF s.temp # None /\ s.name = None
     THEN /\ SetSlot(It(p), [temp |-> None, name |-> s.temp])
          /\ Go(p, "renameSync")
          /\ UNCHANGED <<live, out, file, bounds>>
     ELSE Die(p)

\* validate_existing_state; verify_stage_hash and fsync_existing_stage
Confirm(p) ==
  LET n == It(p)
      i == Sees(p, n).name IN
  /\ proc[p].pc = "confirm"
  /\ IF Right(n, i, proc[p].req)
     THEN /\ file' = [file EXCEPT ![n][i].synced = TRUE]
          /\ Go(p, "confirmSync")
          /\ UNCHANGED <<live, slot, out, since, bounds>>
     ELSE Die(p)

\* validate_state_if_present
Keep(p) ==
  /\ Now(p, "task", "keep")
  /\ IF Sees(p, It(p)).name = None THEN Next1(p)
     ELSE proc' = [proc EXCEPT ![p].todo[1][1] = "put", ![p].have = @ \cup {It(p)}]
  /\ UNCHANGED <<disk, bounds>>

\* READY vouches for the stages, with the marks before it; without READY the
\* journal has to be empty.
Ready(p) ==
  /\ Now(p, "task", "ready")
  /\ \/ /\ Marks \ {"COMMITTED"} \subseteq proc[p].have
        /\ Do(p, Reconciliation)
        /\ UNCHANGED <<disk, bounds>>
     \/ /\ proc[p].have = {}
        /\ \A n \in Names : Sees(p, n) = Empty
        /\ Do(p, Terminal)
        /\ UNCHANGED <<disk, bounds>>
     \/ /\ ~(Marks \ {"COMMITTED"} \subseteq proc[p].have)
        /\ proc[p].have # {} \/ \E n \in Names : Sees(p, n) # Empty
        /\ Die(p)

\* verify_stage_hash of one stage, or the last look at all outputs
Verify(p) ==
  LET n == It(p) IN
  /\ \/ Now(p, "task", "verify") \/ Now(p, "task", "check")
  /\ IF CASE Head(proc[p].todo)[1] = "verify" -> Right(n, Sees(p, n).name, proc[p].req)
          [] OTHER -> \A o \in Outputs : Right(o, out[o], proc[p].req)
     THEN Next1(p) /\ UNCHANGED <<disk, bounds>>
     ELSE Die(p)

\* reconcile_link: an output that is there has to be the stage's own inode.
Link(p) ==
  LET n == It(p)
      i == Sees(p, n).name IN
  /\ Now(p, "task", "link")
  /\ IF i # None /\ out[n] = None
     THEN /\ out' = [out EXCEPT ![n] = i]
          /\ since' = [since EXCEPT !.out[n] = @ \cup {i}]
          /\ Next1(p)
          /\ UNCHANGED <<live, slot, file, bounds>>
     ELSE IF i # None /\ out[n] = i /\ Right(n, i, proc[p].req)
     THEN Next1(p) /\ UNCHANGED <<disk, bounds>>
     ELSE Die(p)

\* cleanup_file
Clean(p) ==
  LET n == It(p)
      i == Sees(p, n).name IN
  /\ Now(p, "task", "clean")
  /\ IF i = None
     THEN Next1(p) /\ UNCHANGED <<disk, bounds>>
     ELSE IF n \in Outputs /\ ~Right(n, i, proc[p].req)
     THEN Die(p)
     ELSE /\ SetSlot(n, [slot[n] EXCEPT !.name = None])
          /\ Go(p, "cleanSync")
          /\ UNCHANGED <<live, out, file, bounds>>

\* fsync of the journal directory
JournalSync(p) ==
  LET pc == proc[p].pc IN
  /\ pc \in {"reopenDir", "discardSync", "renameSync", "confirmSync", "cleanSync"}
  /\ FsyncJournal(p)
  /\ CASE pc = "reopenDir"   -> Go(p, "judge")
       [] pc = "discardSync" -> Go(p, AfterDiscard(p))
       [] pc = "renameSync"  -> Go(p, "confirm")
       [] OTHER              -> Next1(p)
  /\ UNCHANGED <<live, slot, out, file, bounds>>

\* fsync of the directory of the outputs
ParentSync(p) ==
  LET pc == proc[p].pc IN
  /\ pc \in {"mkdirSync", "reopenParent"} \/ Now(p, "task", "sync")
  /\ FsyncParent
  /\ CASE pc = "mkdirSync"    -> Go(p, "open")
       [] pc = "reopenParent" -> Go(p, "reopenDir")
       [] OTHER               -> Next1(p)
  /\ UNCHANGED <<live, slot, out, file, bounds>>

\* By name: whoever has the directory open is left with a removed one.
Rmdir(p) ==
  /\ Now(p, "task", "rmdir")
  /\ IF live /\ \A n \in Names : slot[n] = Empty
     THEN /\ live' = FALSE
          /\ since' = [since EXCEPT !.live = @ \cup {FALSE},
                                    !.slot = [n \in Names |-> {Empty}]]
          /\ proc' = [q \in Publisher |->
                        IF q = p THEN [proc[q] EXCEPT !.todo = Tail(@), !.open = FALSE]
                        ELSE [proc[q] EXCEPT !.open = FALSE]]
          /\ UNCHANGED <<slot, out, file, bounds>>
     ELSE Die(p)

Succeed(p) ==
  /\ proc[p].pc = "task"
  /\ proc[p].todo = << >>
  /\ proc' = [proc EXCEPT ![p] = Idle(proc[p].req, "ok")]
  /\ UNCHANGED <<disk, bounds>>

-----------------------------------------------------------------------------
(***************************************************************************)
(* Failures                                                                *)
(***************************************************************************)

Kill(p) ==
  /\ proc[p].pc # "idle"
  /\ cuts < MaxCut
  /\ cuts' = cuts + 1
  /\ proc' = [proc EXCEPT ![p] = Idle(proc[p].req, "none")]
  /\ UNCHANGED <<disk, runs>>

\* What is left of entries that were v, and may have been any of old.
Survivors(v, old) ==
  LET loose == {n \in DOMAIN v : old[n] # {v[n]}} IN
  {[n \in DOMAIN v |-> IF n \in loose THEN c[n] ELSE v[n]] :
     c \in {c \in [loose -> UNION {old[n] : n \in loose}] :
              \A n \in loose : c[n] \in old[n]}}

PowerCut ==
  /\ \E p \in Publisher : proc[p].pc # "idle"
  /\ cuts < MaxCut
  /\ cuts' = cuts + 1
  /\ live' \in since.live
  /\ out' \in Survivors(out, since.out)
  /\ slot' \in IF live' THEN Survivors(slot, since.slot) ELSE {[n \in Names |-> Empty]}
  /\ \E torn \in SUBSET {x \in Names \X Inode : /\ x[2] \in InUse(x[1])
                                                /\ ~file[x[1]][x[2]].synced
                                                /\ file[x[1]][x[2]].whole} :
       file' = [n \in Names |-> [i \in Inode |->
                  IF i \in InUse(n) THEN [file[n][i] EXCEPT !.synced = TRUE,
                                            !.whole = @ /\ <<n, i>> \notin torn]
                  ELSE Blank]]
  /\ since' = [live |-> {live'}, out |-> [n \in Outputs |-> {out'[n]}],
               slot |-> [n \in Names |-> {slot'[n]}]]
  /\ proc' = [p \in Publisher |-> Idle(proc[p].req, "none")]
  /\ UNCHANGED runs

-----------------------------------------------------------------------------
Step(p) ==
  \/ Look(p) \/ Decide(p) \/ Mkdir(p) \/ OpenJournal(p) \/ Judge(p)
  \/ Find(p) \/ Discard(p) \/ CreateTemp(p) \/ WriteTemp(p) \/ Flush(p)
  \/ VerifyTemp(p) \/ RenameTemp(p) \/ Confirm(p) \/ Keep(p) \/ Ready(p) \/ Verify(p) \/ Link(p)
  \/ Clean(p) \/ Rmdir(p) \/ JournalSync(p) \/ ParentSync(p) \/ Succeed(p)

Next ==
  \/ \E p \in Publisher : Start(p) \/ Step(p) \/ Kill(p)
  \/ PowerCut

Spec == Init /\ [][Next]_vars

\* Whoever did not succeed tries again, and a process that runs goes on.
FairSpec == Spec /\ WF_vars(\E p \in Publisher : Start(p) \/ Step(p))

-----------------------------------------------------------------------------
(***************************************************************************)
(* Properties                                                              *)
(***************************************************************************)

\* Every variable holds a value of its kind; a removed journal is empty, and
\* nobody works in it.
TypeOK ==
  /\ live \in BOOLEAN
  /\ slot \in [Names -> Slot]
  /\ out \in [Outputs -> Inode \cup {None}]
  /\ file \in [Names -> [Inode -> File]]
  /\ since.live \subseteq BOOLEAN
  /\ \A n \in Names : slot[n] \in since.slot[n] /\ since.slot[n] \subseteq Slot
  /\ \A n \in Outputs : out[n] \in since.out[n]
  /\ \A p \in Publisher :
       /\ proc[p].req \in Request /\ proc[p].result \in {"none", "ok", "died"}
       /\ \A i \in DOMAIN proc[p].todo : proc[p].todo[i] \in Verbs \X Names
  /\ runs \in 0..MaxRun /\ cuts \in 0..MaxCut
  /\ ~live => /\ \A n \in Names : slot[n] = Empty
              /\ \A p \in Publisher : ~proc[p].open

\* n will still be there, with what r asked for, after a power cut.
Durable(n, r) ==
  /\ \A i \in since.out[n] : Right(n, i, r)
  /\ file[n][out[n]].synced

\* Wherever the bootable image may be found, now or after a power cut, all its
\* sidecars are found, whole and of the same request (live-lock-helper.c:2290).
BootableIsComplete ==
  since.out["EFI"] # {None} =>
    \E r \in Request :
      /\ \A n \in Sidecars : Durable(n, r)
      /\ \A i \in since.out["EFI"] \ {None} :
           Right("EFI", i, r) /\ file["EFI"][i].synced

\* COMMITTED stands for outputs no power cut takes back
\* (live-lock-helper.c:2293).
CommittedIsDurable ==
  live /\ slot["COMMITTED"].name # None =>
    \E r \in Request : \A n \in Outputs : Durable(n, r)

\* A run that reports success has published what it was asked, for good.
SuccessIsDurable ==
  \A p \in Publisher : proc[p].result = "ok" =>
    \A n \in Outputs : Durable(n, proc[p].req)

\* Neither the mark nor the exit code promises what a power cut may take back.
ReportsAreDurable == CommittedIsDurable /\ SuccessIsDurable

\* A run is refused only over another request's journal or outputs: what a kill
\* or a power cut leaves never stands in the way of its own retry
\* (live-lock-strict:501).  For one process at a time.
RefusedOnlyForAnother ==
  \A p \in Publisher : proc[p].result = "died" =>
    \/ \E n \in Outputs : out[n] # None /\ file[n][out[n]].req # proc[p].req
    \/ LET i == slot["REQUEST"].name IN
       i # None /\ file["REQUEST"][i].req # proc[p].req

\* What r asked for is there for good, and nothing of the journal is left.
IsPublished(r) == ~live /\ \A n \in Outputs : Durable(n, r)
=============================================================================
