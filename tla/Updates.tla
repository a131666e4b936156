------------------------------ MODULE Updates -------------------------------
(***************************************************************************)
(* What a machine fetches: the tree of recipes (src/minitrue/src/arvore.rs)*)
(* and the signed index of each binary channel (channel.rs), and the sync  *)
(* that selects a package from both (plan.rs, install.rs).                 *)
(*                                                                         *)
(* Both are directories with a body and a signature, downloaded one after  *)
(* the other while the site publishes, staged, synced and exchanged with   *)
(* the name in use.  Directory operations reach the disk in their order,   *)
(* and any fsync brings the earlier ones along (the root is ext4,          *)
(* src/bootstrap/live/init:555-558); the data of a file not synced may be  *)
(* lost.  The root lock admits one command at a time.                      *)
(***************************************************************************)
EXTENDS Naturals, Sequences, FiniteSets

CONSTANTS
  Order,     \* the channels by priority: a sequence without repetition
  Version,   \* Version[r]: the version of the package in release r, and
  Fingerprint,     \* Fingerprint[r]: the fingerprint of its recipe
  MaxRelease, MaxNews, MaxTrouble   \* BOUND

Release == 1 .. MaxRelease

Channel == {Order[i] : i \in DOMAIN Order}

ASSUME UpdatesAssumption ==
  /\ MaxRelease \in Nat \ {0}
  /\ Order \in Seq(Channel) /\ Order # <<>>
  /\ Version \in [Release -> Nat] /\ Fingerprint \in [Release -> Nat]
  /\ Channel \cap {"newspeak", "novo", "anterior", "temp", "local"} = {}

\* What the site publishes, each under a body and a signature.
Object == Channel \cup {"newspeak"}

\* The names of directories: those in use, the stages (.newspeak.novo; the
\* temporary of a channel) and what the older algorithm called .newspeak.anterior.
Slot == Object \cup {"novo", "anterior", "temp"}

Pair == [body : 0 .. MaxRelease, sig : 0 .. MaxRelease]

\* "written" is complete but not yet durable.
Dir == [pair : Pair, state : {"absent", "partial", "written", "whole"}]

NoPair == [body |-> 0, sig |-> 0]

NoDir == [pair |-> NoPair, state |-> "absent"]

Of(r) == [pair |-> [body |-> r, sig |-> r], state |-> "whole"]

Lock == [channel : Channel, index : Release, print : Nat]

NoLock == [channel |-> "local", index |-> 0, print |-> 0]

NoRecord == [print |-> 0, lock |-> NoLock, bound |-> FALSE]

VARIABLES
  site,     \* site[o]: what the server holds of o
  files,    \* the directories, the channel locks and the record of the package
  past,     \* what files may be after a power cut, before data is lost
  op,       \* the command that holds the root lock
  given,    \* given[o]: the release of o the machine came with or was told it has
  troubles  \* kills, cuts and failures so far

vars == <<site, files, past, op, given, troubles>>

Idle == [kind |-> "none", pc |-> "idle", offline |-> FALSE, round |-> 0,
         todo |-> <<>>, ready |-> <<>>, got |-> [o \in Object |-> NoPair]]

At(step) == op.pc = step

Goto(step) == op' = [op EXCEPT !.pc = step]

dir == files.dir

Matches(pair) == pair.body # 0 /\ pair.body = pair.sig

\* A change of names that is not yet on disk, and one that is.
\* (past is of no interest once no cut can follow).
Change(f) == files' = f /\ past' = IF troubles < MaxTrouble THEN past \cup {f} ELSE {f}

Commit(f) == files' = f /\ past' = {f}

\* What a cut does to data that no fsync covers.
Torn(f) ==
  [f EXCEPT !.dir = [s \in Slot |->
     IF f.dir[s].state = "written" THEN [f.dir[s] EXCEPT !.state = "partial"] ELSE f.dir[s]]]

-----------------------------------------------------------------------------
\* A machine fresh from its media, with the tree and the indexes or with none of
\* them; or one that the older algorithm of two renames left
\* between them, or before it removed the older tree.
Seeds == {[o \in Object |-> r] : r \in {0, 1}}

Leftovers ==
  {[anterior |-> NoDir, novo |-> NoDir, gone |-> FALSE],
   [anterior |-> Of(1), novo |-> Of(1), gone |-> TRUE],
   [anterior |-> Of(1), novo |-> [Of(1) EXCEPT !.state = "partial"], gone |-> FALSE],
   [anterior |-> [Of(1) EXCEPT !.state = "partial"], novo |-> NoDir, gone |-> FALSE]}

Init ==
  /\ site = [o \in Object |-> [body |-> 1, sig |-> 1]]
  /\ given \in Seeds
  /\ \E old \in Leftovers :
       /\ given["newspeak"] = 0 => old.anterior = NoDir
       /\ files = [dir |-> [s \in Slot |->
                      CASE s = "newspeak" ->
                             IF given[s] = 0 \/ old.gone THEN NoDir ELSE Of(1)
                        [] s = "anterior" -> old.anterior
                        [] s = "novo" -> old.novo
                        [] s = "temp" -> NoDir
                        [] OTHER -> IF given[s] = 0 THEN NoDir ELSE Of(1)],
                   locks |-> {}, record |-> NoRecord]
  /\ past = {files}
  /\ op = Idle
  /\ troubles = 0

-----------------------------------------------------------------------------
\* The site.  A body and its signature are two files: a client may get one of
\* each.
PublishBody(o) ==
  /\ Matches(site[o]) /\ site[o].body < MaxRelease
  /\ Cardinality({other \in Object \ {o} : site[other].body # 1}) < MaxNews
  /\ site' = [site EXCEPT ![o].body = @ + 1]
  /\ UNCHANGED <<files, past, op, given, troubles>>

PublishSignature(o) ==
  /\ site' = [site EXCEPT ![o].sig = site[o].body]
  /\ site' # site
  /\ UNCHANGED <<files, past, op, given, troubles>>

-----------------------------------------------------------------------------
\* The commands.

\* What may be named: some of the channels, by priority.
Names ==
  {s \in UNION {[1 .. n -> Channel] : n \in 1 .. Len(Order)} :
     \A i, j \in DOMAIN s : i < j =>
       \E k, l \in DOMAIN Order : k < l /\ Order[k] = s[i] /\ Order[l] = s[j]}

Begin(kind, pc, todo, offline) ==
  /\ At("idle")
  /\ op' = [Idle EXCEPT !.kind = kind, !.pc = pc, !.todo = todo, !.round = 1,
                        !.offline = offline]
  /\ UNCHANGED <<site, files, past, given, troubles>>

\* rectify newspeak: offline too it first repairs an interrupted exchange.
StartTree(offline) == Begin("tree", "recover", <<"newspeak">>, offline)

\* channel refresh: the channels named, or all; never offline.
StartRefresh(names) == Begin("refresh", "get", names, FALSE)

\* rectify --sync; without recipes there is nothing to resolve.
StartSync(offline) ==
  /\ dir["newspeak"].state # "absent"
  /\ Begin("sync", IF offline THEN "cache" ELSE "get", Order, offline)

Kill ==
  /\ ~At("idle") /\ troubles < MaxTrouble
  /\ troubles' = troubles + 1
  /\ op' = Idle
  /\ files' = [files EXCEPT !.dir["temp"] = NoDir]   \* a name no one uses again
  /\ past' = IF troubles' < MaxTrouble THEN past \cup {files'} ELSE {files'}
  /\ UNCHANGED <<site, given>>

Cut ==
  /\ troubles < MaxTrouble
  /\ troubles' = troubles + 1
  /\ op' = Idle
  /\ \E f \in past : files' = [Torn(f) EXCEPT !.dir["temp"] = NoDir]
  /\ past' = {files'}
  /\ UNCHANGED <<site, given>>

-----------------------------------------------------------------------------
\* The repair of an interrupted exchange.

Recover ==
  /\ At("recover")
  /\ IF dir["newspeak"].state = "absent" /\ dir["anterior"].state # "absent"
     THEN Change([files EXCEPT !.dir["newspeak"] = dir["anterior"], !.dir["anterior"] = NoDir])
     ELSE UNCHANGED <<files, past>>
  /\ Goto("purge")
  /\ UNCHANGED <<site, given, troubles>>

\* What an earlier attempt staged goes.
Purge ==
  /\ At("purge")
  /\ Change([files EXCEPT !.dir["novo"] = NoDir])
  /\ IF op.offline THEN op' = Idle ELSE Goto("get")
  /\ UNCHANGED <<site, given, troubles>>

-----------------------------------------------------------------------------
\* Downloads.  Of the tree the signature comes first, of a channel the index.

First(o) == IF o = "newspeak" THEN "sig" ELSE "body"

Second(o) == IF o = "newspeak" THEN "body" ELSE "sig"

Get ==
  /\ At("get")
  /\ LET o == Head(op.todo) IN
     op' = [op EXCEPT !.got[o][First(o)] = site[o][First(o)], !.pc = "get2"]
  /\ UNCHANGED <<site, files, past, given, troubles>>

\* All that was downloaded is authenticated before any of it is used.
Get2 ==
  /\ At("get2")
  /\ LET o == Head(op.todo)
         pair == [op.got[o] EXCEPT ![Second(o)] = site[o][Second(o)]]
         next == [op EXCEPT !.got[o] = pair, !.todo = Tail(@), !.ready = Append(@, o)] IN
     op' = IF ~Matches(pair) THEN Idle
           ELSE IF next.todo # <<>> THEN [next EXCEPT !.pc = "get"]
           ELSE [next EXCEPT !.pc = IF op.kind = "sync" THEN "select" ELSE "make"]
  /\ UNCHANGED <<site, files, past, given, troubles>>

\* Offline, each channel is its snapshot, if that verifies.
Cache ==
  /\ At("cache")
  /\ op' = IF \A c \in Channel : dir[c].state = "whole" /\ Matches(dir[c].pair)
           THEN [op EXCEPT !.pc = "select",
                           !.got = [o \in Object |-> IF o \in Channel THEN dir[o].pair ELSE NoPair]]
           ELSE Idle
  /\ UNCHANGED <<site, files, past, given, troubles>>

-----------------------------------------------------------------------------
\* The exchange of one directory: the first of op.ready.

Stage == IF op.kind = "tree" THEN "novo" ELSE "temp"

Make ==
  /\ At("make")
  /\ Change([files EXCEPT !.dir[Stage] = [pair |-> op.got[Head(op.ready)], state |-> "written"]])
  /\ Goto("settle")
  /\ UNCHANGED <<site, given, troubles>>

\* A mutation: nothing is synced.
SettleNothing ==
  /\ At("settle")
  /\ Goto(IF op.kind = "tree" THEN "drop" ELSE "swap")
  /\ UNCHANGED <<site, files, past, given, troubles>>

\* Every file and directory of the stage is synced.
Settle ==
  /\ At("settle")
  /\ Commit([files EXCEPT !.dir[Stage].state = "whole"])
  /\ Goto(IF op.kind = "tree" THEN "drop" ELSE "swap")
  /\ UNCHANGED <<site, given, troubles>>

\* What the older algorithm left.  A death in the middle leaves part of it.
Drop ==
  /\ At("drop")
  /\ \E left \in {NoDir, [dir["anterior"] EXCEPT !.state = "partial"]} :
       /\ dir["anterior"].state = "absent" => left = NoDir
       /\ Change([files EXCEPT !.dir["anterior"] = left])
       /\ Goto(IF left = NoDir THEN "swap" ELSE "drop")
  /\ UNCHANGED <<site, given, troubles>>

\* RENAME_EXCHANGE with the name in use, or a rename to it.
Swap ==
  /\ At("swap")
  /\ LET o == Head(op.ready) IN
     Change([files EXCEPT !.dir[o] = dir[Stage], !.dir[Stage] = dir[o]])
  /\ Goto("tidy")
  /\ UNCHANGED <<site, given, troubles>>

\* The old one goes, best effort: what cannot be removed stays.
Tidy ==
  /\ At("tidy")
  /\ \/ Change([files EXCEPT !.dir[Stage] = NoDir]) /\ UNCHANGED troubles
     \/ /\ dir[Stage].state # "absent" /\ troubles < MaxTrouble
        /\ Change([files EXCEPT !.dir[Stage].state = "partial"])
        /\ troubles' = troubles + 1
  /\ Goto("seal")
  /\ UNCHANGED <<site, given>>

\* A mutation: only the first channel is published.
SealFirst ==
  /\ At("seal")
  /\ Commit([files EXCEPT !.dir["temp"] = NoDir])
  /\ LET done == op.kind # "sync" IN
     /\ op' = IF done THEN Idle ELSE [op EXCEPT !.ready = <<>>, !.pc = "lock"]
     /\ given' = [o \in Object |->
          IF done /\ o = Head(op.ready) THEN op.got[o].body ELSE given[o]]
  /\ UNCHANGED <<site, troubles>>

\* The parent is synced; the next directory, or the end of the publication.
Seal ==
  /\ At("seal")
  /\ Commit([files EXCEPT !.dir["temp"] = NoDir])
  /\ LET rest == Tail(op.ready)
         done == rest = <<>> /\ op.kind # "sync" IN
     /\ op' = IF done THEN Idle
              ELSE [op EXCEPT !.ready = rest, !.pc = IF rest = <<>> THEN "lock" ELSE "make"]
     /\ given' = [o \in Object |->
          IF done /\ op.got[o] # NoPair THEN op.got[o].body ELSE given[o]]
  /\ UNCHANGED <<site, troubles>>

\* A step fails: the network, the disk.  The stage is removed.
Fail ==
  /\ troubles < MaxTrouble
  /\ op.pc \in {"get", "get2", "make", "settle", "drop", "swap", "seal", "lock", "install"}
  /\ troubles' = troubles + 1
  /\ LET staged == op.pc \in {"settle", "drop", "swap", "seal"} IN
     IF staged THEN Change([files EXCEPT !.dir[Stage] = NoDir]) ELSE UNCHANGED <<files, past>>
  /\ op' = Idle
  /\ UNCHANGED <<site, given>>

-----------------------------------------------------------------------------
\* sync: a plan, its publication, the installation and the closing.

release == dir["newspeak"].pair.body

\* The channels that have the package in the version of the recipe, by place.
Offering == {i \in DOMAIN Order : Version[op.got[Order[i]].body] = Version[release]}

\* The first of them decides.
Preferred == Order[CHOOSE i \in Offering : \A j \in Offering : i <= j]

\* The lock of the selection.
Selected ==
  IF Offering = {} THEN NoLock
  ELSE [channel |-> Preferred, index |-> op.got[Preferred].body, print |-> Fingerprint[release]]

\* It describes another package under the same version.
Mistaken ==
  Offering # {} /\ Fingerprint[op.got[Preferred].body] # Fingerprint[release]

\* The record is what the plan wants.  One not yet bound counts only for the
\* command that wrote it: in the second round.
Keep ==
  /\ files.record.print = Fingerprint[release]
  /\ files.record.bound \/ op.round = 2
  /\ Offering # {} => files.record.lock.channel = Preferred

\* The second round is the closing, which resolves anew and installs nothing.
\* Without a selection the indexes are not published either.
Select ==
  /\ At("select")
  /\ IF Mistaken \/ (op.round = 2 /\ ~Keep)
     THEN op' = Idle
     ELSE op' = [op EXCEPT !.ready = IF Selected = NoLock \/ op.offline THEN <<>> ELSE Order,
                           !.pc = IF Selected = NoLock \/ op.offline THEN "lock" ELSE "make"]
  /\ UNCHANGED <<site, files, past, given, troubles>>

\* A mutation: the lock is published at the closing.
PersistLockLate ==
  /\ At("lock")
  /\ IF Selected = NoLock \/ op.round = 1 THEN UNCHANGED <<files, past>>
     ELSE Commit([files EXCEPT !.locks = @ \cup {Selected}])
  /\ Goto(IF op.round = 1 THEN "install" ELSE "bind")
  /\ UNCHANGED <<site, given, troubles>>

PersistLock ==
  /\ At("lock")
  /\ IF Selected = NoLock THEN UNCHANGED <<files, past>>
     ELSE Commit([files EXCEPT !.locks = @ \cup {Selected}])
  /\ Goto(IF op.round = 1 THEN "install" ELSE "bind")
  /\ UNCHANGED <<site, given, troubles>>

\* One transaction of the installer (Journal, WorldB); then the closing, which
\* reads the indexes again.
Install ==
  /\ At("install")
  /\ IF Keep THEN UNCHANGED <<files, past>>
     ELSE Commit([files EXCEPT !.record =
            [print |-> Fingerprint[release], lock |-> Selected, bound |-> FALSE]])
  /\ op' = [op EXCEPT !.round = 2, !.todo = Order, !.ready = <<>>,
                      !.got = Idle.got,
                      !.pc = IF op.offline THEN "cache" ELSE "get"]
  /\ UNCHANGED <<site, given, troubles>>

Bind ==
  /\ At("bind")
  /\ Commit([files EXCEPT !.record.bound = TRUE])
  /\ op' = Idle
  /\ given' = [o \in Object |->
       IF o \in Channel /\ Selected # NoLock /\ ~op.offline THEN op.got[o].body ELSE given[o]]
  /\ UNCHANGED <<site, troubles>>

-----------------------------------------------------------------------------
Step ==
  \/ Recover \/ Purge
  \/ Get \/ Get2 \/ Cache
  \/ Make \/ Settle \/ Drop \/ Swap \/ Tidy \/ Seal
  \/ Select \/ PersistLock \/ Install \/ Bind

Start ==
  \/ \E offline \in BOOLEAN : StartTree(offline) \/ StartSync(offline)
  \/ \E names \in Names : StartRefresh(names)

Next ==
  \/ \E o \in Object : PublishBody(o) \/ PublishSignature(o)
  \/ Start \/ Step \/ Fail \/ Kill \/ Cut

Spec == Init /\ [][Next]_vars

\* A command goes on, a publication is completed, and the administrator tries
\* again until a run succeeds.
FairSpec ==
  /\ Spec
  /\ WF_vars(Step)
  /\ \A o \in Object : WF_vars(PublishSignature(o))
  /\ SF_vars(StartTree(FALSE)) /\ SF_vars(StartRefresh(Order))

-----------------------------------------------------------------------------
TypeOK ==
  /\ site \in [Object -> Pair]
  /\ files \in [dir : [Slot -> Dir], locks : SUBSET Lock,
                record : [print : Nat, lock : Lock \cup {NoLock}, bound : BOOLEAN]]
  /\ files \in past
  /\ given \in [Object -> 0 .. MaxRelease]
  /\ op.pc = "idle" <=> op = Idle
  /\ dir["temp"].state # "absent" =>
       op.kind \in {"refresh", "sync"} /\ op.pc \in {"settle", "swap", "tidy", "seal"}

\* A name in use is absent or holds one whole release, with its own signature,
\* after any kill or cut.
NamesAreWhole ==
  \A o \in Object : dir[o].state # "absent" => dir[o].state # "partial" /\ Matches(dir[o].pair)

\* What the machine was given or told it has it keeps, or something newer; of
\* the tree, at worst under the name the repair brings back without network.
NothingGivenIsLost ==
  \A o \in Object : given[o] # 0 =>
    \/ dir[o].state = "whole" /\ dir[o].pair.body >= given[o]
    \/ /\ o = "newspeak" /\ dir[o].state = "absent"
       /\ dir["anterior"].state = "whole" /\ dir["anterior"].pair.body >= given[o]

\* Both, of every generation a reader may meet.
GenerationsSurvive == NamesAreWhole /\ NothingGivenIsLost

\* The record of a package from a channel names a lock that is on the machine
\* and was made for its recipe.
RecordIsExplained ==
  files.record.lock # NoLock =>
    files.record.lock \in files.locks /\ files.record.lock.print = files.record.print

\* When the site rests, the machine comes to hold what it published and keeps
\* it, and the remains of an exchange go.
Converges ==
  /\ <>[](\A o \in Object : dir[o] = Of(site[o].body))
  /\ []<>(dir["novo"] = NoDir)

\* Once the lock exists, no update of an index changes the operation
\* (src/specs/SPEC-0009-canais-binarios.md:161-162): the closing accepts what
\* the command itself selected and installed.
IndexIsFrozen ==
  [][At("select") /\ op.round = 2 /\ troubles' = troubles => op' # Idle]_vars

=============================================================================
