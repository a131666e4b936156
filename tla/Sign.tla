-------------------------------- MODULE Sign --------------------------------
(***************************************************************************)
(* The publications of minitrue/src/sign.rs: channel keygen, which makes a *)
(* pair of keys, and channel sign, which writes a signature beside a       *)
(* message.  Each prepares its files in a private directory of a fixed     *)
(* name, with OWNER, REQUEST and READY that bind them, moves them to their *)
(* final names without replacing anything, and erases the directory.  A    *)
(* run that finds the directory of a dead one resumes, or starts over, or  *)
(* refuses.                                                                *)
(*                                                                         *)
(* Content is abstract: a key is a number, the payload of a signature is   *)
(* <<key, message>>, and every file made for one of them has it as its     *)
(* content; Owner stands for OWNER, which depends on the names alone.      *)
(* The output directory is locked by flock until the process ends, so runs *)
(* are one at a time.  A file is created, then filled and synced.  A power *)
(* cut may undo any rename or removal since the sync of its directory, a   *)
(* rename as a whole.  Left out: modes, owners and links of the files,     *)
(* which only a stranger changes, and the verification of the signature.   *)
(***************************************************************************)
EXTENDS Naturals, Sequences, FiniteSets

CONSTANTS
  MaxKey,      \* BOUND on the keys drawn
  MaxMessage,  \* BOUND on the edits of the message
  MaxCut,      \* BOUND on kills and power cuts
  None,        \* no file, no directory
  Torn,        \* a file cut before it was filled and synced
  Owner

Op == {"keygen", "sign"}

\* The names discard_keygen_stage and discard_signature_stage remove, in order.
Erasure == [keygen |-> <<"READY", "REQUEST", "public", "secret", "OWNER">>,
            sign   |-> <<"READY", "signature", "REQUEST", "OWNER">>]

Final == {"secret", "public", "signature"}

Leaf == Final \cup {"OWNER", "REQUEST", "READY"}

Empty == [n \in Leaf |-> None]

\* Of the constants; the module that makes an instance assumes it.
SignAssumption ==
  /\ MaxKey \in Nat /\ MaxMessage \in Nat /\ MaxCut \in Nat
  /\ Cardinality({None, Torn, Owner}) = 3 /\ {None, Torn, Owner} \cap Nat = {}
  /\ None \notin [Leaf -> {None, Torn, Owner} \cup Nat] \cup (Nat \X Nat)

VARIABLES
  dir,      \* dir[n]: the final file n
  stage,    \* stage[op]: the files in the private directory of op, or None
  disk,     \* what of dir and stage is on the disk for certain
  message,  \* the message to sign
  keys,     \* keys drawn
  given,    \* given[op]: what the last successful run of op reported
  run,      \* the process that holds the lock: what it makes and its next steps
  cuts

vars == <<dir, stage, disk, message, keys, given, run, cuts>>

Idle == [op |-> None, is |-> None, todo |-> << >>]

Init ==
  /\ dir = [n \in Final |-> None]
  /\ stage = [op \in Op |-> None]
  /\ disk = [dir |-> dir, stage |-> stage]
  /\ message = 0 /\ keys = 0 /\ cuts = 0
  /\ given = [op \in Op |-> None]
  /\ run = Idle
-----------------------------------------------------------------------------
(* The programs of a run. *)

Content(n, is) == IF n = "OWNER" THEN Owner ELSE is

Erase(op) ==
  [i \in 1 .. Len(Erasure[op]) |-> <<"unlink", Erasure[op][i]>>]
    \o << <<"sync_stage">>, <<"rmdir">> >>

\* The rename and the two syncs that follow it.
Promotion(n) == << <<"promote", n>>, <<"sync_dir">>, <<"sync_stage">> >>

Synced == << <<"sync_stage">>, <<"sync_dir">> >>

Ensure(names) == [i \in 1 .. Len(names) |-> <<"ensure", names[i]>>]

Report == << <<"report">> >>

PreparePair == Ensure(<<"OWNER", "secret", "public", "REQUEST", "READY">>) \o Synced

\* A bug: the public key goes first.
PublishPublicFirst ==
  PreparePair \o Promotion("public") \o Promotion("secret")
    \o << <<"sync_dir">> >> \o Erase("keygen") \o Report

PublishPair ==
  PreparePair \o Promotion("secret") \o Promotion("public")
    \o << <<"sync_dir">> >> \o Erase("keygen") \o Report

PublishSignature ==
  Ensure(<<"OWNER", "REQUEST", "signature", "READY">>) \o Synced
    \o << <<"check">> >> \o Promotion("signature") \o Erase("sign") \o Report

Begin(op, is, todo) ==
  /\ run = Idle
  /\ run' = [op |-> op, is |-> is, todo |-> todo]
-----------------------------------------------------------------------------
(* channel keygen. *)

PairStage == stage["keygen"]

\* recover_keygen_material's sources: the staged file, else the final one.
Source(n) == IF PairStage[n] # None THEN PairStage[n] ELSE dir[n]

\* The first of the controls that is not exactly what the pair asks for.
Amiss ==
  LET bad(n) == PairStage[n] # Content(n, Source("secret"))
  IN  IF bad("OWNER") THEN PairStage["OWNER"]
      ELSE IF bad("REQUEST") THEN PairStage["REQUEST"]
      ELSE IF bad("READY") THEN PairStage["READY"]
      ELSE Source("secret")

\* The key that the leftovers of a dead run still hold; None if it did not get
\* far enough, Torn if they contradict each other, which refuses the run.
Recovered ==
  IF \E n \in {"secret", "public"} :
       None \notin {PairStage[n], dir[n]} /\ PairStage[n] # dir[n] THEN Torn
  ELSE IF None \in {Source("secret"), Source("public")} THEN None
  ELSE IF Source("secret") = Torn \/ Source("public") # Source("secret") THEN Torn
  ELSE Amiss

Pair == dir["secret"] # None /\ dir["public"] # None

NoPair == dir["secret"] = None /\ dir["public"] = None

KeygenAgain ==
  /\ Pair /\ PairStage = None
  /\ Begin("keygen", dir["secret"], << <<"sync_dir">> >> \o Report)
  /\ UNCHANGED <<dir, stage, disk, message, keys, given, cuts>>

KeygenTidy ==
  /\ Pair /\ PairStage # None /\ Recovered = dir["secret"]
  /\ Begin("keygen", dir["secret"], Synced \o Erase("keygen") \o Report)
  /\ UNCHANGED <<dir, stage, disk, message, keys, given, cuts>>

KeygenResume ==
  /\ ~Pair /\ PairStage # None /\ Recovered \notin {None, Torn}
  /\ Begin("keygen", Recovered, Synced \o PublishPair)
  /\ UNCHANGED <<dir, stage, disk, message, keys, given, cuts>>

\* A new pair, after what a dead run left is erased: only without any final.
KeygenNew ==
  /\ NoPair /\ (PairStage # None => Recovered = None)
  /\ keys < MaxKey /\ keys' = keys + 1
  /\ Begin("keygen", keys',
       (IF PairStage = None THEN << >> ELSE Erase("keygen"))
         \o << <<"mkdir">> >> \o PublishPair)
  /\ UNCHANGED <<dir, stage, disk, message, given, cuts>>
-----------------------------------------------------------------------------
(* channel sign: the key is the secret one, which must be the one of the    *)
(* public key the caller expects; the payload follows from it and the       *)
(* message as it is now.                                                    *)

SignStage == stage["sign"]

Payload == <<dir["secret"], message>>

MaySign == Pair /\ dir["secret"] = dir["public"]

SignAgain ==
  /\ MaySign /\ dir["signature"] = Payload
  /\ Begin("sign", Payload,
       << <<"sync_dir">> >>
         \o (IF SignStage # None /\ SignStage["OWNER"] = Owner THEN Erase("sign") ELSE << >>)
         \o Report)
  /\ UNCHANGED <<dir, stage, disk, message, keys, given, cuts>>

\* Leftovers are used again if both of their controls are of this request.
SignNew ==
  /\ MaySign /\ dir["signature"] = None
  /\ LET unused == \A n \in {"OWNER", "REQUEST"} : SignStage[n] = None
         ours   == \A n \in {"OWNER", "REQUEST"} : SignStage[n] = Content(n, Payload)
     IN  Begin("sign", Payload,
           (CASE SignStage = None -> << <<"mkdir">> >>
              [] SignStage # None /\ (unused \/ ours) -> << >>
              [] OTHER -> Erase("sign") \o << <<"mkdir">> >>)
             \o PublishSignature)
  /\ UNCHANGED <<dir, stage, disk, message, keys, given, cuts>>
-----------------------------------------------------------------------------
(* The steps of a program. *)

Now(step) == run # Idle /\ run.todo # << >> /\ Head(run.todo)[1] = step

Name == Head(run.todo)[2]

Done == run' = [run EXCEPT !.todo = Tail(@)]

Here == stage[run.op][Name]

Put(c) == stage' = [stage EXCEPT ![run.op][Name] = c]

OnDisk(c) == disk' = [disk EXCEPT !.stage[run.op][Name] = c]

Mkdir ==
  /\ Now("mkdir") /\ stage[run.op] = None /\ Done
  /\ stage' = [stage EXCEPT ![run.op] = Empty]
  /\ disk' = [disk EXCEPT !.stage[run.op] = Empty]
  /\ UNCHANGED <<dir, message, keys, given, cuts>>

\* ensure_leaf_at: an exact file is kept and synced ...
Keep ==
  /\ Now("ensure") /\ Here = Content(Name, run.is) /\ Done
  /\ OnDisk(Here)
  /\ UNCHANGED <<dir, stage, message, keys, given, cuts>>

\* ... another one removed ...
Replace ==
  /\ Now("ensure") /\ Here \notin {None, Content(Name, run.is)}
  /\ Put(None) /\ OnDisk(None)
  /\ UNCHANGED <<dir, message, keys, given, run, cuts>>

\* ... and the file created, and filled and synced.
Create ==
  /\ Now("ensure") /\ Here = None
  /\ Put(Torn)
  /\ run' = [run EXCEPT !.todo = << <<"fill", Name>> >> \o Tail(@)]
  /\ UNCHANGED <<dir, disk, message, keys, given, cuts>>

Fill ==
  /\ Now("fill") /\ Done
  /\ Put(Content(Name, run.is)) /\ OnDisk(Content(Name, run.is))
  /\ UNCHANGED <<dir, message, keys, given, cuts>>

\* The message still is the file that was read; if not, the run stops.
CheckMessage ==
  /\ Now("check")
  /\ IF run.is[2] = message THEN Done ELSE run' = Idle
  /\ UNCHANGED <<dir, stage, disk, message, keys, given, cuts>>

Promote ==
  /\ Now("promote") /\ dir[Name] = None /\ Here = run.is /\ Done
  /\ dir' = [dir EXCEPT ![Name] = Here] /\ Put(None)
  /\ UNCHANGED <<disk, message, keys, given, cuts>>

\* The final file is in place: neither rename nor syncs are needed.
SkipPromotion ==
  /\ Now("promote") /\ dir[Name] = run.is
  /\ run' = [run EXCEPT !.todo = SubSeq(@, 4, Len(@))]
  /\ UNCHANGED <<dir, stage, disk, message, keys, given, cuts>>

SyncDir ==
  /\ Now("sync_dir") /\ Done
  /\ disk' = [dir   |-> dir,
              stage |-> [op \in Op |-> IF stage[op] = None THEN None ELSE
                 [n \in Leaf |-> IF n \in Final /\ disk.dir[n] # dir[n]
                                 THEN stage[op][n] ELSE disk.stage[op][n]]]]
  /\ UNCHANGED <<dir, stage, message, keys, given, cuts>>

SyncStage ==
  /\ Now("sync_stage") /\ Done
  /\ disk' = [disk EXCEPT !.stage[run.op] =
       [n \in Leaf |-> IF n \in Final /\ disk.dir[n] # dir[n]
                       THEN @[n] ELSE stage[run.op][n]]]
  /\ UNCHANGED <<dir, stage, message, keys, given, cuts>>

Unlink ==
  /\ Now("unlink") /\ Done /\ Put(None)
  /\ UNCHANGED <<dir, disk, message, keys, given, cuts>>

Rmdir ==
  /\ Now("rmdir") /\ stage[run.op] = Empty /\ Done
  /\ stage' = [stage EXCEPT ![run.op] = None]
  /\ disk' = [disk EXCEPT !.stage[run.op] = None]
  /\ UNCHANGED <<dir, message, keys, given, cuts>>

Success ==
  /\ Now("report") /\ run' = Idle
  /\ given' = [given EXCEPT ![run.op] = run.is]
  /\ UNCHANGED <<dir, stage, disk, message, keys, cuts>>
-----------------------------------------------------------------------------
Edit ==
  /\ message < MaxMessage /\ message' = message + 1
  /\ UNCHANGED <<dir, stage, disk, keys, given, run, cuts>>

Kill ==
  /\ run # Idle /\ run' = Idle
  /\ cuts < MaxCut /\ cuts' = cuts + 1
  /\ UNCHANGED <<dir, stage, disk, message, keys, given>>

\* Of the changes not synced, any may be undone.
PowerCut ==
  /\ run' = Idle
  /\ cuts < MaxCut /\ cuts' = cuts + 1
  /\ \E renames  \in SUBSET {n \in Final : dir[n] # disk.dir[n]},
        removals \in SUBSET {x \in Op \X Leaf :
           /\ stage[x[1]] # None
           /\ stage[x[1]][x[2]] # disk.stage[x[1]][x[2]]
           /\ ~(x[2] \in Final /\ dir[x[2]] # disk.dir[x[2]])} :
       /\ dir' = [n \in Final |-> IF n \in renames THEN disk.dir[n] ELSE dir[n]]
       /\ stage' = [op \in Op |-> IF stage[op] = None THEN None ELSE
            [n \in Leaf |-> IF n \in renames \/ <<op, n>> \in removals
                            THEN disk.stage[op][n] ELSE stage[op][n]]]
       /\ disk' = [dir |-> dir', stage |-> stage']
  /\ UNCHANGED <<message, keys, given>>

Keygen == KeygenAgain \/ KeygenTidy \/ KeygenResume \/ KeygenNew

SignIt == SignAgain \/ SignNew

Step ==
  \/ Mkdir \/ Keep \/ Replace \/ Create \/ Fill \/ CheckMessage
  \/ Promote \/ SkipPromotion \/ SyncDir \/ SyncStage \/ Unlink \/ Rmdir \/ Success

SignNext == Keygen \/ SignIt \/ Step \/ Edit \/ Kill \/ PowerCut

SignSpec == Init /\ [][SignNext]_vars

\* A run that is not cut goes on, and a signature is asked for until it is there.
FairSign == SignSpec /\ WF_vars(Step) /\ SF_vars(SignIt)
-----------------------------------------------------------------------------
TypeOK ==
  /\ dir["secret"] \in (1 .. MaxKey) \cup {None}
  /\ dir["public"] \in (1 .. MaxKey) \cup {None}
  /\ dir["signature"] \in ((1 .. MaxKey) \X (0 .. MaxMessage)) \cup {None}
  /\ keys \in 0 .. MaxKey /\ message \in 0 .. MaxMessage /\ cuts \in 0 .. MaxCut
  /\ \A op \in Op : stage[op] # None => DOMAIN stage[op] = Leaf

\* A public key is never found without its secret key, nor a signature without
\* the key it was made with, whatever was cut (the order of the renames and
\* the sync between them in keygen; the pair that sign asks for).
PairIsWhole ==
  /\ dir["public"] # None => dir["secret"] = dir["public"]
  /\ dir["signature"] # None => dir["signature"][1] = dir["secret"]

\* What a run reported is on the disk, for the run that did the work and for
\* the retry that found it done, and nothing that follows takes it away.
SuccessIsDurable ==
  /\ given["keygen"] # None =>
       disk.dir["secret"] = given["keygen"] /\ disk.dir["public"] = given["keygen"]
  /\ given["sign"] # None => disk.dir["signature"] = given["sign"]

\* Once a pair is reported, a signature comes about: whatever a dead run of sign
\* left, of this message or an earlier one, is not in the way of the next.
PairReported == given["keygen"] # None
HasSignature == dir["signature"] # None

Signed == PairReported ~> HasSignature

\* keygen_recupera_todos_os_killpoints: a keygen that died can be repeated.
\* It cannot, after a death inside the write of public, REQUEST or READY, or
\* after the first removal of the erasure.
KeygenRepeats ==
  [](run = Idle /\ keys < MaxKey => ENABLED Keygen)
=============================================================================
