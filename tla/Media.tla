-------------------------------- MODULE Media -------------------------------
(***************************************************************************)
(* The publication of a medium, minipax/src/media.rs: build prepares the   *)
(* image and its three sidecars in a private directory of a fixed name,    *)
(* seals them in READY, moves them to their final names without replacing  *)
(* anything, the image last, writes COMMITTED and erases the directory.    *)
(* A failure before COMMITTED moves back what was moved and erases; a run  *)
(* that finds the directory of a dead one of the same request finishes its *)
(* work, or erases what was not sealed and starts over.                    *)
(*                                                                         *)
(* A request stands for all that the controls bind: profile, payload, tool *)
(* and mode.  A file is <<request, attempt>>: its content follows from the *)
(* request, its inode from the attempt.  Where renameat2 is not supported  *)
(* a move is a link and an unlink, and a file may have two names.  The     *)
(* output directory is locked by flock until the process ends, so runs are *)
(* one at a time; a stranger, who may write the final names, is not.       *)
(* Processes are killed at any step.  Left out: power cuts, modes and      *)
(* owners of files, the composition of the image.                          *)
(***************************************************************************)
EXTENDS Naturals, Sequences, FiniteSets

CONSTANTS
  MaxRequest,   \* BOUND on the requests
  MaxAttempt,   \* BOUND on the directories made
  MaxKill,      \* BOUND on kills and failures
  MaxStranger,  \* BOUND on files the stranger creates
  None,         \* no file, no directory
  Torn,         \* a file cut before it was filled and synced
  Stranger,     \* the stranger's file
  Bare          \* the container of the erasure, with nothing in it

\* Of the constants; the module that makes an instance assumes it.
MediaAssumption ==
  /\ {MaxRequest, MaxAttempt, MaxKill, MaxStranger} \subseteq Nat
  /\ Cardinality({None, Torn, Stranger, Bare}) = 4

BUNDLE_MEMBERS == <<"image", "sha256", "media.lock", "manifest">>

\* A bug: the image does not wait for the manifest.
ImageEarly == <<"sha256", "media.lock", "image", "manifest">>

PROMOTION_ORDER == <<"sha256", "media.lock", "manifest", "image">>

Member == {BUNDLE_MEMBERS[i] : i \in 1 .. 4}

Control == {"OWNER", "REQUEST", "READY", "COMMITTED"}

\* The private directory: its files, the temporaries of the controls, and the
\* name a member has between two steps of its rollback.
Empty == [file  |-> [n \in Member \cup Control |-> None],
          tmp   |-> [n \in Control |-> None],
          aside |-> [m \in Member |-> None]]

VARIABLES
  dir,      \* dir[m]: the final file of member m
  stage,    \* the files in the private directory, or None
  tomb,     \* the container: None, Bare, or the private directory captured
  request,  \* what the next build is for
  made,     \* attempts
  run,      \* the process that holds the lock, and its next steps
  given,    \* the request of the last success reported
  fallback, \* renameat2 is not supported
  kills, strangers

vars == <<dir, stage, tomb, request, made, run, given, fallback, kills, strangers>>

Idle == [is |-> None, todo |-> << >>, phase |-> "idle", failed |-> FALSE]

Init ==
  /\ dir = [m \in Member |-> None]
  /\ stage = None /\ tomb = None
  /\ request = 1 /\ made = 0
  /\ run = Idle /\ given = None
  /\ fallback \in BOOLEAN
  /\ kills = 0 /\ strangers = 0
-----------------------------------------------------------------------------
(* The programs of a run. *)

Each(step, names) == [i \in 1 .. Len(names) |-> <<step, names[i]>>]

Stop == << <<"stop">> >>

Report == << <<"report">> >>

Write(n) == << <<"reconcile", n>>, <<"create", n>>, <<"fill", n>>, <<"move", n>> >>

Capture == << <<"reserve">>, <<"capture">>, <<"remove captured">>, <<"remove container">> >>

\* cleanup_stage: READY goes before anything it describes.
Cleanup ==
  Each("reconcile", <<"OWNER", "REQUEST", "READY", "COMMITTED">>)
    \o Each("unlink", <<"COMMITTED", "READY">>)
    \o Each("unlink", BUNDLE_MEMBERS)
    \o Each("unlink", <<"REQUEST", "OWNER">>) \o Capture

RemoveEmpty == Each("reconcile", <<"OWNER", "REQUEST", "READY", "COMMITTED">>) \o Capture

Commit == Write("COMMITTED") \o Cleanup \o Report

Promotion == Each("promote", PROMOTION_ORDER) \o << <<"validate">> >>

\* The order is that of the promotion, reversed.
Rollback ==
  [i \in 1 .. 4 |-> <<"move back", PROMOTION_ORDER[5 - i]>>]
    \o << <<"rolled back">> >> \o Cleanup \o Stop

New ==
  << <<"mkdir">> >> \o Write("OWNER") \o Write("REQUEST")
    \o [i \in 1 .. 8 |-> <<IF i % 2 = 1 THEN "create" ELSE "fill",
                           BUNDLE_MEMBERS[(i + 1) \div 2]>>]
    \o Write("READY") \o << <<"sealed">> >> \o Promotion \o Commit

Now(step) == run # Idle /\ Head(run.todo)[1] = step

Name == Head(run.todo)[2]

Done == run' = [run EXCEPT !.todo = Tail(@)]

Onward(todo) == run' = [run EXCEPT !.todo = todo]

\* What an error does: before READY erase, until COMMITTED move back, else stop.
Errs ==
  run' = CASE run.phase = "prepare" ->
                [run EXCEPT !.todo = Cleanup \o Stop, !.phase = "end"]
           [] run.phase = "promote" ->
                [run EXCEPT !.todo = Rollback, !.phase = "end"]
           [] OTHER -> Idle

Put(n, c) == stage' = [stage EXCEPT !.file[n] = c]

PutTmp(n, c) == stage' = [stage EXCEPT !.tmp[n] = c]

PutAside(n, c) == stage' = [stage EXCEPT !.aside[n] = c]
-----------------------------------------------------------------------------
(* The recovery: recover_stage_cleanup and recover_publication.            *)

Build ==
  /\ run = Idle
  /\ run' = [is |-> request, todo |-> << <<"recover">>, <<"recognize">> >>,
             phase |-> "recover", failed |-> FALSE]
  /\ UNCHANGED <<dir, stage, tomb, request, made, given, fallback, kills, strangers>>

\* What a capture left is removed; a captured directory that is not empty, or
\* one beside the directory, stops the run.
RecoverCapture ==
  /\ Now("recover")
  /\ CASE tomb = None -> Done
       [] tomb = Bare -> Onward(<< <<"remove container">> >> \o Tail(run.todo))
       [] tomb = Empty /\ stage = None ->
            Onward(<< <<"remove captured">>, <<"remove container">> >> \o Tail(run.todo))
       [] OTHER -> Errs
  /\ UNCHANGED <<dir, stage, tomb, request, made, given, fallback, kills, strangers>>

Links(m) ==
  IF stage # None /\ stage.file[m] = dir[m] THEN 2 ELSE 1

\* validate_bundle_at over the final names.
Complete(r) ==
  \A m \in Member : dir[m] \notin {None, Stranger} /\ dir[m][1] = r /\ Links(m) = 1

Finals == {m \in Member : dir[m] # None}

\* Four files: either they are what was asked for, and the private directory
\* goes, or they are not, and the run stops.
Recognize ==
  /\ Now("recognize") /\ Finals = Member
  /\ IF ~Complete(run.is) THEN Errs
     ELSE run' = [run EXCEPT !.phase = "end", !.todo =
            CASE stage = None -> Report
              [] stage # None /\ stage.file["OWNER"] = run.is ->
                   Each("reconcile", <<"OWNER", "READY">>) \o Cleanup \o Report
              [] stage # None /\ stage.file["OWNER"] = None -> RemoveEmpty \o Report
              [] OTHER -> Report]
  /\ UNCHANGED <<dir, stage, tomb, request, made, given, fallback, kills, strangers>>

\* No directory: final files belong to somebody else, and none may be there.
StartNew ==
  /\ Now("recognize") /\ Finals # Member /\ stage = None
  /\ IF Finals = {} /\ made < MaxAttempt THEN Onward(New) ELSE run' = Idle
  /\ UNCHANGED <<dir, stage, tomb, request, made, given, fallback, kills, strangers>>

\* A directory that was not sealed is erased, and the run starts over.
StartOver ==
  /\ Now("recognize") /\ Finals # Member /\ stage # None
  /\ stage.file["OWNER"] \in {None, run.is}
  /\ None \in {stage.file["OWNER"], stage.file["REQUEST"], stage.file["READY"]}
  /\ Onward((IF stage.file["OWNER"] = None THEN RemoveEmpty ELSE Cleanup)
              \o << <<"recognize">> >>)
  /\ UNCHANGED <<dir, stage, tomb, request, made, given, fallback, kills, strangers>>

Resume ==
  /\ Now("recognize") /\ Finals # Member /\ stage # None
  /\ stage.file["OWNER"] = run.is /\ None \notin {stage.file["REQUEST"], stage.file["READY"]}
  /\ run' = [run EXCEPT !.phase = "promote", !.todo =
       Each("reconcile", <<"OWNER", "REQUEST", "READY">>) \o Promotion
         \o (IF stage.file["COMMITTED"] = None THEN Commit ELSE Cleanup \o Report)]
  /\ UNCHANGED <<dir, stage, tomb, request, made, given, fallback, kills, strangers>>

RefuseOther ==
  /\ Now("recognize") /\ Finals # Member /\ stage # None
  /\ stage.file["OWNER"] \notin {None, run.is} /\ run' = Idle
  /\ UNCHANGED <<dir, stage, tomb, request, made, given, fallback, kills, strangers>>
-----------------------------------------------------------------------------
(* The private directory and its controls.                                 *)

Mkdir ==
  /\ Now("mkdir") /\ stage' = Empty /\ made' = made + 1
  /\ run' = [run EXCEPT !.todo = Tail(@), !.phase = "prepare"]
  /\ UNCHANGED <<dir, tomb, request, given, fallback, kills, strangers>>

\* A control is written under its temporary name, a member under its own.
Prepare(c) == IF Name \in Control THEN PutTmp(Name, c) ELSE Put(Name, c)

Content == IF Name \in {"OWNER", "REQUEST", "COMMITTED"} THEN run.is ELSE <<run.is, made>>

Reconcile ==
  /\ Now("reconcile") /\ PutTmp(Name, None) /\ Done
  /\ UNCHANGED <<dir, tomb, request, made, given, fallback, kills, strangers>>

Create ==
  /\ Now("create") /\ Prepare(Torn) /\ Done
  /\ UNCHANGED <<dir, tomb, request, made, given, fallback, kills, strangers>>

Fill ==
  /\ Now("fill") /\ Prepare(Content) /\ Done
  /\ UNCHANGED <<dir, tomb, request, made, given, fallback, kills, strangers>>

MoveControl ==
  /\ Now("move") /\ ~fallback /\ Done
  /\ stage' = [stage EXCEPT !.file[Name] = stage.tmp[Name], !.tmp[Name] = None]
  /\ UNCHANGED <<dir, tomb, request, made, given, fallback, kills, strangers>>

LinkControl ==
  /\ Now("move") /\ fallback
  /\ Put(Name, stage.tmp[Name])
  /\ Onward(<< <<"reconcile", Name>> >> \o Tail(run.todo))
  /\ UNCHANGED <<dir, tomb, request, made, given, fallback, kills, strangers>>

Sealed ==
  /\ Now("sealed") /\ run' = [run EXCEPT !.todo = Tail(@), !.phase = "promote"]
  /\ UNCHANGED <<dir, stage, tomb, request, made, given, fallback, kills, strangers>>

Unlink ==
  /\ Now("unlink") /\ Done
  /\ stage' = IF Name \in Control THEN [stage EXCEPT !.file[Name] = None]
              ELSE [stage EXCEPT !.file[Name] = None, !.aside[Name] = None]
  /\ UNCHANGED <<dir, tomb, request, made, given, fallback, kills, strangers>>

Reserve ==
  /\ Now("reserve") /\ tomb = None /\ tomb' = Bare /\ Done
  /\ UNCHANGED <<dir, stage, request, made, given, fallback, kills, strangers>>

CaptureStage ==
  /\ Now("capture") /\ tomb' = stage /\ stage' = None /\ Done
  /\ UNCHANGED <<dir, request, made, given, fallback, kills, strangers>>

RemoveCaptured ==
  /\ Now("remove captured")
  /\ IF tomb = Empty THEN tomb' = Bare /\ Done ELSE tomb' = tomb /\ Errs
  /\ UNCHANGED <<dir, stage, request, made, given, fallback, kills, strangers>>

RemoveContainer ==
  /\ Now("remove container") /\ tomb' = None /\ Done
  /\ UNCHANGED <<dir, stage, request, made, given, fallback, kills, strangers>>
-----------------------------------------------------------------------------
(* The promotion and its rollback, against the files READY describes.      *)

Expected == stage.file["READY"]

Both == dir[Name] = stage.file[Name] /\ dir[Name] # None

Promote ==
  /\ Now("promote") /\ ~fallback
  /\ stage.file[Name] = Expected /\ stage.aside[Name] = None /\ dir[Name] = None
  /\ dir' = [dir EXCEPT ![Name] = stage.file[Name]] /\ Put(Name, None) /\ Done
  /\ UNCHANGED <<tomb, request, made, given, fallback, kills, strangers>>

LinkFinal ==
  /\ Now("promote") /\ fallback
  /\ stage.file[Name] = Expected /\ stage.aside[Name] = None /\ dir[Name] = None
  /\ dir' = [dir EXCEPT ![Name] = stage.file[Name]]
  /\ UNCHANGED <<stage, tomb, request, made, run, given, fallback, kills, strangers>>

UnlinkStaged ==
  /\ Now("promote") /\ Both /\ Put(Name, None) /\ Done
  /\ UNCHANGED <<dir, tomb, request, made, given, fallback, kills, strangers>>

Promoted ==
  /\ Now("promote") /\ stage.file[Name] = None /\ dir[Name] = Expected /\ Done
  /\ UNCHANGED <<dir, stage, tomb, request, made, given, fallback, kills, strangers>>

\* The final name is another's, or the staged file is not the sealed one.
PromoteErr ==
  /\ Now("promote")
  /\ \/ dir[Name] \notin {None, Expected}
     \/ dir[Name] = None /\ (stage.file[Name] # Expected \/ stage.aside[Name] # None)
  /\ Errs
  /\ UNCHANGED <<dir, stage, tomb, request, made, given, fallback, kills, strangers>>

Validate ==
  /\ Now("validate")
  /\ IF \A m \in Member : dir[m] = Expected
     THEN run' = [run EXCEPT !.todo = Tail(@), !.phase = "commit"] ELSE Errs
  /\ UNCHANGED <<dir, stage, tomb, request, made, given, fallback, kills, strangers>>

MoveBack ==
  /\ Now("move back") /\ stage.file[Name] = None /\ dir[Name] = Expected /\ Done
  /\ dir' = [dir EXCEPT ![Name] = None] /\ Put(Name, dir[Name])
  /\ UNCHANGED <<tomb, request, made, given, fallback, kills, strangers>>

NotMoved ==
  /\ Now("move back") /\ Done
  /\ stage.file[Name] = Expected /\ dir[Name] = None /\ stage.aside[Name] = None
  /\ UNCHANGED <<dir, stage, tomb, request, made, given, fallback, kills, strangers>>

\* A file with both names: the final one goes through the rollback name.
MoveAside ==
  /\ Now("move back") /\ Both
  /\ dir' = [dir EXCEPT ![Name] = None] /\ PutAside(Name, dir[Name])
  /\ Onward(<< <<"drop aside", Name>> >> \o Tail(run.todo))
  /\ UNCHANGED <<tomb, request, made, given, fallback, kills, strangers>>

DropAside ==
  /\ Now("drop aside") /\ PutAside(Name, None) /\ Done
  /\ UNCHANGED <<dir, tomb, request, made, given, fallback, kills, strangers>>

MoveBackErr ==
  /\ Now("move back")
  /\ \/ dir[Name] \notin {None, Expected}
     \/ dir[Name] = None /\ (stage.file[Name] # Expected \/ stage.aside[Name] # None)
  /\ run' = [run EXCEPT !.todo = Tail(@), !.failed = TRUE]
  /\ UNCHANGED <<dir, stage, tomb, request, made, given, fallback, kills, strangers>>

RolledBack ==
  /\ Now("rolled back") /\ IF run.failed THEN run' = Idle ELSE Done
  /\ UNCHANGED <<dir, stage, tomb, request, made, given, fallback, kills, strangers>>

Stopped ==
  /\ Now("stop") /\ run' = Idle
  /\ UNCHANGED <<dir, stage, tomb, request, made, given, fallback, kills, strangers>>

Success ==
  /\ Now("report") /\ run' = Idle /\ given' = run.is
  /\ UNCHANGED <<dir, stage, tomb, request, made, fallback, kills, strangers>>
-----------------------------------------------------------------------------
Change ==
  /\ request < MaxRequest /\ request' = request + 1
  /\ UNCHANGED <<dir, stage, tomb, made, run, given, fallback, kills, strangers>>

Kill ==
  /\ run # Idle /\ run' = Idle
  /\ kills < MaxKill /\ kills' = kills + 1
  /\ UNCHANGED <<dir, stage, tomb, request, made, given, fallback, strangers>>

\* A call of the system fails: in the preparation or in the promotion; later,
\* and in the erasure, a failure ends the run as a kill does.
Fail ==
  /\ run.phase \in {"prepare", "promote"} /\ Errs
  /\ kills < MaxKill /\ kills' = kills + 1
  /\ UNCHANGED <<dir, stage, tomb, request, made, given, fallback, strangers>>

StrangerCreates(m) ==
  /\ dir[m] = None /\ dir' = [dir EXCEPT ![m] = Stranger]
  /\ strangers < MaxStranger /\ strangers' = strangers + 1
  /\ UNCHANGED <<stage, tomb, request, made, run, given, fallback, kills>>

StrangerRemoves(m) ==
  /\ dir[m] = Stranger /\ dir' = [dir EXCEPT ![m] = None]
  /\ UNCHANGED <<stage, tomb, request, made, run, given, fallback, kills, strangers>>

AnyStranger == \E m \in Member : StrangerCreates(m) \/ StrangerRemoves(m)

Recovery == RecoverCapture \/ Recognize \/ StartNew \/ StartOver \/ Resume \/ RefuseOther

Preparation ==
  \/ Mkdir \/ Reconcile \/ Create \/ Fill \/ MoveControl \/ LinkControl \/ Sealed
  \/ Unlink \/ Reserve \/ CaptureStage \/ RemoveCaptured \/ RemoveContainer

Publication ==
  \/ Promote \/ LinkFinal \/ UnlinkStaged \/ Promoted \/ PromoteErr \/ Validate
  \/ MoveBack \/ NotMoved \/ MoveAside \/ DropAside \/ MoveBackErr \/ RolledBack
  \/ Stopped \/ Success

Step == Recovery \/ Preparation \/ Publication

MediaNext == Build \/ Step \/ Change \/ Kill \/ Fail \/ AnyStranger

MediaSpec == Init /\ [][MediaNext]_vars

\* A build that is not killed goes on, and it is asked for again.
FairMedia == MediaSpec /\ WF_vars(Step) /\ WF_vars(Build)
-----------------------------------------------------------------------------
TypeOK ==
  /\ \A m \in Member :
       dir[m] \in {None, Stranger} \cup ((1 .. MaxRequest) \X (1 .. MaxAttempt))
  /\ stage # None => DOMAIN stage = {"file", "tmp", "aside"}
  /\ tomb \in {None, Bare, Empty}
  /\ request \in 1 .. MaxRequest /\ made \in 0 .. MaxAttempt

Own == {m \in Member : dir[m] \notin {None, Stranger}}

\* What the program has put at the final names is of one attempt, and the image
\* is never among it without the three sidecars, through promotions, kills,
\* recoveries and rollbacks (PROMOTION_ORDER, its reverse, and READY).
ImageComesLast ==
  /\ \A m, n \in Own : dir[m] = dir[n]
  /\ "image" \in Own => Own = Member

\* A bundle once reported stays as it was reported, whatever is asked for next,
\* by whom, and wherever that is cut; no stranger's file is replaced or removed.
FinalsStayStep ==
  \/ AnyStranger
  \/ /\ \A m \in Member : dir[m] = Stranger => dir'[m] = Stranger
     /\ given # None => dir' = dir

FinalsStay == [][FinalsStayStep]_vars

\* A file with two names, where a build does not expect it: beside four final
\* files, or in a rollback that was cut.
TwoNames ==
  /\ stage # None
  /\ \E m \in Member : \/ stage.file[m] # None /\ stage.aside[m] = stage.file[m]
                       \/ Finals = Member /\ stage.file[m] = dir[m]

\* With no stranger's file at the final names and no other request's work in
\* the way, builds repeated after kills and failures bring the medium, except
\* where a file was left with two names.
InTheWay ==
  \/ made = MaxAttempt \/ Own # Finals
  \/ \E m \in Own : dir[m][1] # request
  \/ stage # None /\ stage.file["OWNER"] \notin {None, request}

Converges == <>[]~(InTheWay \/ TwoNames) => <>(given = request)

\* The same without the exception, as the comments of ensure_member_state and
\* move_back_owned have it: false, see the README.
FallbackConverges == <>[]~InTheWay => <>(given = request)
=============================================================================
