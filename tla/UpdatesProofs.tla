--------------------------- MODULE UpdatesProofs ---------------------------
(***************************************************************************)
(* Theorems of Updates, for any channels, versions, fingerprints and       *)
(* bounds.                                                                 *)
(*                                                                         *)
(* The inductive invariant IInv says of the disk that every state a power  *)
(* cut may bring back is sound (Sound), and of the command that holds the  *)
(* lock what its memory is worth: where it stands (Course, Ground), that   *)
(* what it downloaded is one release no older than what the machine has    *)
(* (Fetched, SiteGoesOn), that each pair it downloaded is still to be      *)
(* exchanged or is in use (Brought), and that the lock of its selection is *)
(* durable before it installs (Sealed).                                    *)
(***************************************************************************)
EXTENDS Updates, SequenceTheorems, WellFoundedInduction, TLAPS

\* The states of a command in which it brings directories in.
Exchanging == {"make", "settle", "drop", "swap", "tidy", "seal"}

Online == {"get", "get2"} \cup Exchanging

Pending == Range(op.ready)

Listed == Range(op.todo)

Lock0 == Lock \cup {NoLock}

FilesType == [dir : [Slot -> Dir], locks : SUBSET Lock,
              record : [print : Nat, lock : Lock0, bound : BOOLEAN]]

OpType ==
  [kind : {"none", "tree", "refresh", "sync"},
   pc : {"idle", "recover", "purge", "get", "get2", "cache", "select", "lock", "install", "bind"}
          \cup Exchanging,
   offline : BOOLEAN, round : 0 .. 2, todo : Seq(Object), ready : Seq(Object),
   got : [Object -> Pair]]

Types ==
  /\ site \in [Object -> Pair]
  /\ past \subseteq FilesType /\ files \in past
  /\ given \in [Object -> 0 .. MaxRelease]
  /\ op \in OpType
  /\ troubles \in Nat

\* What a state of a command means for the rest of its memory.
Course ==
  /\ op.pc = "idle" \/ op.kind = "none" => op = Idle
  /\ op.pc \in {"recover", "purge", "drop"} => op.kind = "tree"
  /\ op.pc \in {"cache", "select", "lock", "install", "bind"} => op.kind = "sync"
  /\ op.pc \in {"recover", "purge", "get", "get2"} => op.todo # <<>>
  /\ op.pc \in Online => ~op.offline
  /\ op.pc = "cache" => op.offline
  /\ op.pc \in Exchanging => op.ready # <<>>
  /\ op.pc \in {"lock", "install", "bind"} => op.ready = <<>>
  /\ op.kind = "tree" => Listed \cup Pending \subseteq {"newspeak"}
  /\ op.kind \in {"sync", "refresh"} => Listed \cup Pending \subseteq Channel
  /\ op.kind = "sync" /\ op.pc \in {"get", "get2"} => Channel \subseteq Listed \cup Pending
  /\ op.kind = "sync" /\ op.pc = "select" /\ ~op.offline => Channel \subseteq Pending

\* ... and for the disk.
Ground ==
  /\ op.kind = "sync" /\ op.pc \in Exchanging => Offering # {}
  /\ op.kind = "sync" => dir["newspeak"].state = "whole"
  /\ op.kind = "sync" /\ op.pc \in {"select", "lock", "install", "bind"} \cup Exchanging
       => \A c \in Channel : Matches(op.got[c])
  /\ op.kind = "tree" /\ op.pc # "recover" =>
       (dir["newspeak"].state = "absent" => dir["anterior"].state = "absent")
  /\ dir["temp"].state # "absent" =>
       op.kind \in {"refresh", "sync"} /\ op.pc \in {"settle", "swap", "tidy", "seal"}

Shape == Course /\ Ground

\* A state of the disk a reader, or a command after a cut, may find.
Sound(f) ==
  /\ \A o \in Object : /\ f.dir[o].state \in {"absent", "whole"}
                       /\ f.dir[o].state = "whole" => Matches(f.dir[o].pair)
  /\ f.dir["newspeak"].state = "absent" =>
       /\ f.dir["anterior"].state \in {"absent", "whole"}
       /\ f.dir["anterior"].state = "whole" => Matches(f.dir["anterior"].pair)
  /\ \A o \in Object : given[o] # 0 =>
       \/ f.dir[o].state = "whole" /\ f.dir[o].pair.body >= given[o]
       \/ /\ o = "newspeak" /\ f.dir[o].state = "absent"
          /\ f.dir["anterior"].state = "whole" /\ f.dir["anterior"].pair.body >= given[o]
  /\ f.record.lock # NoLock => f.record.lock \in f.locks /\ f.record.lock.print = f.record.print

\* What was downloaded is one release, no older than what the machine has.
Fit(o) ==
  /\ Matches(op.got[o])
  /\ given[o] <= op.got[o].body /\ op.got[o].sig <= site[o].sig

\* The object between its two downloads.
Doubtful == IF op.pc = "get2" THEN {Head(op.todo)} ELSE {}

Fetched ==
  ~op.offline =>
    /\ \A o \in Object \ Doubtful : op.got[o] = NoPair \/ Fit(o)
    /\ \A o \in Pending \ Doubtful : op.got[o] # NoPair
    /\ op.pc \in {"recover", "purge", "get", "get2", "select"} =>
         \A o \in Object \ (Pending \cup Doubtful) : op.got[o] = NoPair
    /\ \A o \in Doubtful : o = "newspeak" =>
         given[o] <= op.got[o].sig /\ op.got[o].sig <= site[o].sig

InUse(o) == dir[o] = [pair |-> op.got[o], state |-> "whole"]

\* Of what was downloaded, what is not in use is still to come.
Brought ==
  /\ op.pc = "settle" => dir[Stage].pair = op.got[Head(op.ready)] /\ dir[Stage].state = "written"
  /\ op.pc \in {"drop", "swap"} =>
       dir[Stage] = [pair |-> op.got[Head(op.ready)], state |-> "whole"]
  /\ op.pc \in {"tidy", "seal"} => InUse(Head(op.ready))
  /\ op.pc \in Exchanging \cup {"lock", "install", "bind"} /\ ~op.offline
       /\ (op.kind = "sync" => Offering # {}) =>
       \A o \in Object : op.got[o] # NoPair => o \in Pending \/ InUse(o)

\* The lock of a selection is there before what was selected is installed.
Sealed ==
  /\ op.pc \in {"install", "bind"} /\ Selected # NoLock => Selected \in files.locks

SiteGoesOn == \A o \in Object : given[o] <= site[o].sig /\ site[o].sig <= site[o].body /\ 1 <= site[o].sig

IInv ==
  /\ Types /\ Shape /\ SiteGoesOn /\ Fetched /\ Brought /\ Sealed
  /\ \A f \in past : Sound(f)


-----------------------------------------------------------------------------
\* The names of directories: objects, stages and what the older algorithm left.
LEMMA NameFacts ==
  /\ Channel \subseteq Object /\ Object \subseteq Slot
  /\ "newspeak" \in Object /\ {"novo", "temp", "anterior"} \subseteq Slot
  /\ \A c \in Channel : c \notin {"newspeak", "novo", "anterior", "temp", "local"}
  /\ \A o \in Object : o \notin {"novo", "anterior", "temp", "local"}
  /\ Stage \in {"novo", "temp"} /\ Stage \in Slot \ Object
BY UpdatesAssumption DEF Object, Slot, Stage

\* The values every directory and command starts from.
LEMMA PairFacts ==
  /\ NoPair \in Pair /\ NoDir \in Dir /\ NoLock \in Lock0
  /\ \A r \in 0 .. MaxRelease : Of(r) \in Dir
  /\ Idle \in OpType
  /\ \A p \in Pair : /\ p.body \in 0 .. MaxRelease /\ p.sig \in 0 .. MaxRelease
                     /\ p.body \in Int /\ p.sig \in Int
                     /\ Matches(p) => p # NoPair /\ p.body \in Release
<1>1. NoPair \in Pair /\ NoDir \in Dir
  BY UpdatesAssumption DEF NoPair, Pair, NoDir, Dir
<1>2. <<>> \in Seq(Object)
  BY EmptySeq
<1> QED
  BY <1>1, <1>2, UpdatesAssumption
     DEF NoPair, Pair, Dir, NoLock, Lock0, Of, Idle, OpType, Matches, Release

\* The channels by priority, and what a refresh may name.
LEMMA OrderFacts ==
  /\ Order \in Seq(Object) /\ Order # <<>>
  /\ \A i \in DOMAIN Order : Order[i] \in Channel
  /\ Channel = Range(Order)
  /\ \A s \in Names : /\ s \in Seq(Object) /\ s # <<>>
                      /\ \A i \in DOMAIN s : s[i] \in Channel
<1>1. Order \in Seq(Channel) /\ Order # <<>> /\ Len(Order) \in Nat
  BY UpdatesAssumption, LenProperties
<1>2. Order \in Seq(Object)
  BY <1>1, SeqMonotonic, NameFacts
<1>3. ASSUME NEW s \in Names
      PROVE  s \in Seq(Object) /\ s # <<>> /\ \A i \in DOMAIN s : s[i] \in Channel
  <2>1. PICK n \in 1 .. Len(Order) : s \in [1 .. n -> Channel]
    BY <1>3 DEF Names
  <2>2. s \in Seq(Channel) /\ Len(s) = n /\ n \in Nat
    BY <1>1, <2>1, IsASeq
  <2>3. s # <<>>
    BY <2>2, <2>1, LenProperties
  <2> QED
    BY <2>1, <2>2, <2>3, SeqMonotonic, NameFacts
<1>4. \A i \in DOMAIN Order : Order[i] \in Channel
  BY DEF Channel
<1>5. Channel = Range(Order)
  BY DEF Channel, Range
<1> QED
  BY <1>1, <1>2, <1>3, <1>4, <1>5

Below == OpToRel(<, Nat)

\* What is not below another natural is at or above it.
LEMMA NatOrder == \A i, j \in Nat : ~(j < i) => i <= j
OBVIOUS

\* A set of naturals has a least element.
LEMMA LeastNat ==
  ASSUME NEW S, S \subseteq Nat, S # {}
  PROVE  \E i \in S : \A j \in S : i <= j
<1>1. IsWellFoundedOn(Below, Nat)
  BY NatLessThanWellFounded, Zenon DEF Below
<1>2. \E i \in S : \A j \in S : ~(<<j, i>> \in Below)
  BY <1>1, WFMin, Zenon
<1>3. \A i, j \in Nat : j < i => <<j, i>> \in Below
  BY Zenon DEF Below, OpToRel
<1>4. \A i, j \in S : ~(<<j, i>> \in Below) => i <= j
  BY <1>3, NatOrder, Zenon
<1> QED
  BY <1>2, <1>4, Zenon

\* The first of the channels that offer the package is one of them.
LEMMA PreferredFacts ==
  ASSUME Offering # {}
  PROVE  Preferred \in Channel /\ \E i \in Offering : Preferred = Order[i]
<1> DEFINE first == CHOOSE i \in Offering : \A j \in Offering : i <= j
<1>1. Offering \subseteq Nat
  BY OrderFacts, LenProperties DEF Offering
<1>2. \E i \in Offering : \A j \in Offering : i <= j
  BY <1>1, LeastNat, Zenon
<1>3. first \in Offering
  BY <1>2, Zenon
<1>4. Preferred = Order[first] /\ Offering \subseteq DOMAIN Order
  BY DEF Preferred, Offering
<1> QED
  BY <1>3, <1>4, OrderFacts, Zenon

-----------------------------------------------------------------------------
\* A change, durable or not, is the state of the disk; older ones are forgotten
\* at most.
LEMMA ChangeFacts ==
  ASSUME NEW f, Change(f) \/ Commit(f)
  PROVE  files' = f /\ f \in past' /\ past' \subseteq past \cup {f}
BY DEF Change, Commit

\* A durable change leaves one past.
LEMMA CommitFacts ==
  ASSUME NEW f, Commit(f)
  PROVE  files' = f /\ past' = {f}
BY DEF Commit

\* The fields of a typed disk.
LEMMA FilesFacts ==
  ASSUME NEW f \in FilesType
  PROVE  /\ \A s \in Slot : /\ f.dir[s] \in Dir /\ f.dir[s].pair \in Pair
                            /\ f.dir[s].state \in {"absent", "partial", "written", "whole"}
         /\ f.dir \in [Slot -> Dir] /\ f.locks \subseteq Lock
         /\ f.record.lock \in Lock0 /\ f.record.print \in Nat
BY DEF FilesType, Dir

\* The updates of the steps keep the type of the disk.
LEMMA UpdateTyped ==
  ASSUME NEW f \in FilesType
  PROVE  /\ \A s \in Slot, d \in Dir : [f EXCEPT !.dir[s] = d] \in FilesType
         /\ \A s, t \in Slot, d, e \in Dir :
              [f EXCEPT !.dir[s] = d, !.dir[t] = e] \in FilesType
         /\ \A s \in Slot, st \in {"absent", "partial", "written", "whole"} :
              [f EXCEPT !.dir[s].state = st] \in FilesType
         /\ \A l \in Lock : [f EXCEPT !.locks = @ \cup {l}] \in FilesType
         /\ \A r \in [print : Nat, lock : Lock0, bound : BOOLEAN] :
              [f EXCEPT !.record = r] \in FilesType
         /\ [f EXCEPT !.record.bound = TRUE] \in FilesType
         /\ Torn(f) \in FilesType
BY DEF FilesType, Dir, Torn

\* A selection is a lock or none, and is none without an offering channel.
LEMMA SelectedTyped ==
  ASSUME Types, Shape, Sound(files), op.kind = "sync",
         op.pc \in {"select", "lock", "install", "bind"}
  PROVE  /\ release \in Release
         /\ Selected \in Lock0
         /\ Selected # NoLock => Selected \in Lock
         /\ Selected = NoLock <=> Offering = {}
<1>1. release \in Release /\ Fingerprint[release] \in Nat
  <2>1. files \in FilesType /\ dir["newspeak"].state = "whole"
    BY DEF Types, Shape, Ground
  <2>2. Matches(dir["newspeak"].pair) /\ dir["newspeak"].pair \in Pair
    BY <2>1, FilesFacts, NameFacts DEF Sound, dir
  <2> QED
    BY <2>2, PairFacts, UpdatesAssumption DEF release
<1>2. ASSUME Offering # {}
      PROVE  Selected \in Lock /\ Selected.channel # "local"
  <2>1. Preferred \in Channel
    BY <1>2, PreferredFacts
  <2>2. op.got[Preferred] \in Pair /\ Matches(op.got[Preferred])
    BY <2>1, NameFacts DEF Types, OpType, Shape, Ground
  <2>3. op.got[Preferred].body \in Release
    BY <2>2, PairFacts
  <2> QED
    BY <1>1, <1>2, <2>1, <2>3, NameFacts DEF Selected, Lock
<1> QED
  BY <1>1, <1>2, PairFacts DEF Selected, Lock0, NoLock

-----------------------------------------------------------------------------
\* Every step keeps the types.
LEMMA TypesKept ==
  ASSUME Types, Shape, Sound(files), [Next]_vars
  PROVE  Types'
<1>1. /\ files \in FilesType /\ past \subseteq FilesType /\ files \in past
      /\ op \in OpType /\ site \in [Object -> Pair] /\ troubles \in Nat
      /\ given \in [Object -> 0 .. MaxRelease]
      /\ op.got \in [Object -> Pair] /\ op.todo \in Seq(Object) /\ op.ready \in Seq(Object)
  BY DEF Types, OpType
<1>2. ASSUME NEW f \in FilesType, Change(f) \/ Commit(f)
      PROVE  files' \in past' /\ past' \subseteq FilesType
  BY <1>1, <1>2, ChangeFacts
<1>3. \A s \in Slot : dir[s] \in Dir /\ dir[s].pair \in Pair
  BY <1>1, FilesFacts DEF dir
<1>4. op.todo # <<>> => Head(op.todo) \in Object /\ Tail(op.todo) \in Seq(Object)
  BY <1>1, HeadTailProperties
<1>5. op.ready # <<>> => Head(op.ready) \in Object /\ Tail(op.ready) \in Seq(Object)
  BY <1>1, HeadTailProperties
<1>6. ASSUME NEW o \in Object, PublishBody(o) \/ PublishSignature(o)
      PROVE  Types'
  <2>1. site' \in [Object -> Pair]
    <3>1. CASE PublishBody(o)
      <4>1. site' = [site EXCEPT ![o].body = @ + 1] /\ site[o].body < MaxRelease
        BY <3>1 DEF PublishBody
      <4>2. site[o] \in Pair /\ site[o].body + 1 \in 0 .. MaxRelease
        BY <1>1, <4>1, UpdatesAssumption DEF Pair
      <4> QED
        BY <1>1, <4>1, <4>2 DEF Pair
    <3>2. CASE PublishSignature(o)
      BY <1>1, <3>2 DEF PublishSignature, Pair
    <3> QED
      BY <1>6, <3>1, <3>2
  <2> QED
    BY <1>6, <2>1 DEF Types, PublishBody, PublishSignature
<1>7. ASSUME NEW kind \in {"tree", "refresh", "sync"}, NEW todo \in Seq(Object),
             NEW offline \in BOOLEAN, NEW at \in {"recover", "get", "cache"},
             Begin(kind, at, todo, offline)
      PROVE  Types'
  <2>1. op' \in OpType
    <3>1. op' = [kind |-> kind, pc |-> at, offline |-> offline, round |-> 1, todo |-> todo,
                 ready |-> <<>>, got |-> [o \in Object |-> NoPair]]
      BY <1>7 DEF Begin, Idle
    <3>2. <<>> \in Seq(Object) /\ [o \in Object |-> NoPair] \in [Object -> Pair]
      BY PairFacts, EmptySeq
    <3> QED
      BY <3>1, <3>2 DEF OpType
  <2> QED
    BY <1>1, <1>7, <2>1 DEF Begin, Types
<1>8. CASE Start
  <2>1. <<"newspeak">> \in Seq(Object)
    BY NameFacts
  <2> QED
    BY <1>7, <1>8, <2>1, OrderFacts DEF Start, StartTree, StartSync, StartRefresh
<1>9. CASE Kill
  <2>1. [files EXCEPT !.dir["temp"] = NoDir] \in FilesType
    BY <1>1, UpdateTyped, NameFacts, PairFacts
  <2>2. files' \in FilesType /\ files' \in past' /\ past' \subseteq past \cup {files'}
    BY <1>9, <2>1 DEF Kill
  <2>3. op' \in OpType /\ troubles' \in Nat /\ UNCHANGED <<site, given>>
    BY <1>1, <1>9, PairFacts DEF Kill
  <2> QED
    BY <1>1, <2>2, <2>3 DEF Types
<1>10. CASE Cut
  <2>1. PICK f \in past : files' = [Torn(f) EXCEPT !.dir["temp"] = NoDir]
    BY <1>10 DEF Cut
  <2>2. files' \in FilesType
    BY <1>1, <2>1, UpdateTyped, NameFacts, PairFacts
  <2> QED
    BY <1>1, <1>10, <2>2, PairFacts DEF Cut, Types
<1>11. CASE Recover
  <2>1. [files EXCEPT !.dir["newspeak"] = dir["anterior"], !.dir["anterior"] = NoDir] \in FilesType
    BY <1>1, <1>3, UpdateTyped, NameFacts, PairFacts
  <2>2. files' \in past' /\ past' \subseteq FilesType
    BY <1>1, <1>2, <1>11, <2>1 DEF Recover
  <2>3. op' \in OpType
    BY <1>1, <1>11 DEF Recover, Goto, OpType
  <2> QED
    BY <1>1, <1>11, <2>2, <2>3 DEF Recover, Types
<1>12. CASE Purge
  <2>1. files' \in past' /\ past' \subseteq FilesType
    BY <1>1, <1>2, <1>12, UpdateTyped, NameFacts, PairFacts DEF Purge
  <2>2. op' \in OpType
    BY <1>1, <1>12, PairFacts DEF Purge, Goto, OpType
  <2> QED
    BY <1>1, <1>12, <2>1, <2>2 DEF Purge, Types
<1>13. CASE Get
  <2>1. op.todo # <<>>
    BY <1>13 DEF Get, At, Shape, Course
  <2>2. site[Head(op.todo)] \in Pair
    BY <1>1, <1>4, <2>1
  <2>3. op' \in OpType
    BY <1>1, <1>4, <1>13, <2>1, <2>2 DEF Get, OpType, Pair, First, Exchanging
  <2> QED
    BY <1>1, <1>13, <2>3 DEF Get, Types
<1>14. CASE Get2
  <2> DEFINE o == Head(op.todo)
             pair == [op.got[o] EXCEPT ![Second(o)] = site[o][Second(o)]]
             next == [op EXCEPT !.got[o] = pair, !.todo = Tail(@), !.ready = Append(@, o)]
  <2>1. op.todo # <<>> /\ o \in Object /\ Tail(op.todo) \in Seq(Object)
    BY <1>4, <1>14 DEF Get2, At, Shape, Course
  <2>2. pair \in Pair
    BY <1>1, <2>1 DEF Pair, Second
  <2>3. Append(op.ready, o) \in Seq(Object)
    BY <1>1, <2>1, AppendProperties
  <2>4. next \in OpType
    BY <1>1, <2>1, <2>2, <2>3 DEF OpType
  <2>5. op' \in OpType
    <3>1. \A at \in {"get", "select", "make"} : [next EXCEPT !.pc = at] \in OpType
      BY <2>4 DEF OpType, Exchanging
    <3>2. op' \in {Idle, [next EXCEPT !.pc = "get"], [next EXCEPT !.pc = "select"],
                   [next EXCEPT !.pc = "make"]}
      BY <1>14 DEF Get2
    <3> QED
      BY <3>1, <3>2, PairFacts
  <2> QED
    BY <1>1, <1>14, <2>5 DEF Get2, Types
<1>15. CASE Cache
  <2>1. [o \in Object |-> IF o \in Channel THEN dir[o].pair ELSE NoPair] \in [Object -> Pair]
    BY <1>3, NameFacts, PairFacts
  <2>2. op' \in OpType
    BY <1>1, <1>15, <2>1, PairFacts DEF Cache, OpType
  <2> QED
    BY <1>1, <1>15, <2>2 DEF Cache, Types
<1>16. CASE Make
  <2>1. op.ready # <<>>
    BY <1>16 DEF Make, At, Shape, Course, Exchanging
  <2>2. [pair |-> op.got[Head(op.ready)], state |-> "written"] \in Dir
    BY <1>1, <1>5, <2>1 DEF Dir
  <2>3. files' \in past' /\ past' \subseteq FilesType
    BY <1>1, <1>2, <1>16, <2>2, UpdateTyped, NameFacts DEF Make
  <2>4. op' \in OpType
    BY <1>1, <1>16 DEF Make, Goto, OpType, Exchanging
  <2> QED
    BY <1>1, <1>16, <2>3, <2>4 DEF Make, Types
<1>17. CASE Settle
  <2>1. files' \in past' /\ past' \subseteq FilesType
    BY <1>1, <1>2, <1>17, UpdateTyped, NameFacts DEF Settle
  <2>2. op' \in OpType
    BY <1>1, <1>17 DEF Settle, Goto, OpType, Exchanging
  <2> QED
    BY <1>1, <1>17, <2>1, <2>2 DEF Settle, Types
<1>18. CASE Drop
  <2>1. PICK left \in {NoDir, [dir["anterior"] EXCEPT !.state = "partial"]} :
          /\ Change([files EXCEPT !.dir["anterior"] = left])
          /\ Goto(IF left = NoDir THEN "swap" ELSE "drop")
    BY <1>18 DEF Drop
  <2>2. left \in Dir
    BY <1>3, NameFacts, PairFacts DEF Dir
  <2>3. files' \in past' /\ past' \subseteq FilesType
    BY <1>1, <1>2, <2>1, <2>2, UpdateTyped, NameFacts
  <2>4. op' \in OpType
    BY <1>1, <2>1 DEF Goto, OpType, Exchanging
  <2> QED
    BY <1>1, <1>18, <2>3, <2>4 DEF Drop, Types
<1>19. CASE Swap
  <2>1. Head(op.ready) \in Slot
    BY <1>5, <1>19, NameFacts DEF Swap, At, Shape, Course, Exchanging
  <2>2. files' \in past' /\ past' \subseteq FilesType
    BY <1>1, <1>2, <1>3, <1>19, <2>1, UpdateTyped, NameFacts DEF Swap
  <2>3. op' \in OpType
    BY <1>1, <1>19 DEF Swap, Goto, OpType, Exchanging
  <2> QED
    BY <1>1, <1>19, <2>2, <2>3 DEF Swap, Types
<1>20. CASE Tidy
  <2>1. files' \in past' /\ past' \subseteq FilesType
    BY <1>1, <1>2, <1>20, UpdateTyped, NameFacts, PairFacts DEF Tidy
  <2>2. op' \in OpType
    BY <1>1, <1>20 DEF Tidy, Goto, OpType, Exchanging
  <2> QED
    BY <1>1, <1>20, <2>1, <2>2 DEF Tidy, Types
<1>21. CASE Seal
  <2>1. files' \in past' /\ past' \subseteq FilesType
    BY <1>1, <1>2, <1>21, UpdateTyped, NameFacts, PairFacts DEF Seal
  <2>2. op.ready # <<>> /\ Tail(op.ready) \in Seq(Object)
    BY <1>5, <1>21 DEF Seal, At, Shape, Course, Exchanging
  <2>3. op' \in OpType
    BY <1>1, <1>21, <2>2, PairFacts DEF Seal, OpType, Exchanging
  <2>4. given' \in [Object -> 0 .. MaxRelease]
    BY <1>1, <1>21, PairFacts DEF Seal
  <2> QED
    BY <1>1, <1>21, <2>1, <2>3, <2>4 DEF Seal, Types
<1>22. CASE Select
  <2>1. op' \in OpType
    <3>1. op' \in {Idle, [op EXCEPT !.ready = <<>>, !.pc = "lock"],
                   [op EXCEPT !.ready = Order, !.pc = "make"]}
      BY <1>22 DEF Select
    <3>2. <<>> \in Seq(Object) /\ Order \in Seq(Object)
      BY OrderFacts, EmptySeq
    <3> QED
      BY <1>1, <3>1, <3>2, PairFacts DEF OpType, Exchanging
  <2> QED
    BY <1>1, <1>22, <2>1 DEF Select, Types
<1>23. CASE PersistLock
  <2>1. files' \in past' /\ past' \subseteq FilesType
    <3>1. Selected # NoLock => Selected \in Lock
      BY <1>23, SelectedTyped DEF PersistLock, At, Shape, Course
    <3>2. CASE Selected = NoLock
      BY <1>1, <1>23, <3>2 DEF PersistLock
    <3>3. CASE Selected # NoLock
      <4>1. [files EXCEPT !.locks = @ \cup {Selected}] \in FilesType
        BY <1>1, <3>1, <3>3, UpdateTyped
      <4> QED
        BY <1>2, <1>23, <3>3, <4>1 DEF PersistLock
    <3> QED
      BY <3>2, <3>3
  <2>2. op' \in OpType
    BY <1>1, <1>23 DEF PersistLock, Goto, OpType
  <2> QED
    BY <1>1, <1>23, <2>1, <2>2 DEF PersistLock, Types
<1>24. CASE Install
  <2>1. release \in Release /\ Selected \in Lock0
    BY <1>24, SelectedTyped DEF Install, At, Shape, Course
  <2>2. [print |-> Fingerprint[release], lock |-> Selected, bound |-> FALSE]
          \in [print : Nat, lock : Lock0, bound : BOOLEAN]
    BY <2>1, UpdatesAssumption
  <2>3. files' \in past' /\ past' \subseteq FilesType
    <3>1. [files EXCEPT !.record = [print |-> Fingerprint[release], lock |-> Selected,
                                    bound |-> FALSE]] \in FilesType
      BY <1>1, <2>2, UpdateTyped
    <3>2. CASE Keep
      BY <1>1, <1>24, <3>2 DEF Install
    <3>3. CASE ~Keep
      BY <1>2, <1>24, <3>1, <3>3 DEF Install
    <3> QED
      BY <3>2, <3>3
  <2>4. op' \in OpType
    <3>1. <<>> \in Seq(Object) /\ Order \in Seq(Object) /\ Idle.got \in [Object -> Pair]
      BY OrderFacts, EmptySeq, PairFacts DEF Idle
    <3>2. op' = [kind |-> op.kind, offline |-> op.offline, round |-> 2, todo |-> Order,
                 ready |-> <<>>, got |-> Idle.got,
                 pc |-> IF op.offline THEN "cache" ELSE "get"]
      BY <1>1, <1>24 DEF Install, OpType
    <3> QED
      BY <1>1, <3>1, <3>2 DEF OpType
  <2> QED
    BY <1>1, <1>24, <2>3, <2>4 DEF Install, Types
<1>25. CASE Bind
  <2>1. files' \in past' /\ past' \subseteq FilesType
    BY <1>1, <1>2, <1>25, UpdateTyped DEF Bind
  <2>2. given' \in [Object -> 0 .. MaxRelease]
    BY <1>1, <1>25, PairFacts DEF Bind
  <2> QED
    BY <1>1, <1>25, <2>1, <2>2, PairFacts DEF Bind, Types
<1>26. CASE Fail
  <2>1. files' \in past' /\ past' \subseteq FilesType
    <3>1. [files EXCEPT !.dir[Stage] = NoDir] \in FilesType
      BY <1>1, UpdateTyped, NameFacts, PairFacts
    <3>2. UNCHANGED <<files, past>> \/ Change([files EXCEPT !.dir[Stage] = NoDir])
      BY <1>26 DEF Fail
    <3> QED
      BY <1>1, <1>2, <3>1, <3>2
  <2> QED
    BY <1>1, <1>26, <2>1, PairFacts DEF Fail, Types
<1>27. CASE UNCHANGED vars
  BY <1>27 DEF vars, Types
<1> QED
  BY <1>6, <1>8, <1>9, <1>10, <1>11, <1>12, <1>13, <1>14, <1>15, <1>16, <1>17, <1>18, <1>19,
     <1>20, <1>21, <1>22, <1>23, <1>24, <1>25, <1>26, <1>27 DEF Next, Step

-----------------------------------------------------------------------------
\* The elements of a sequence: its head and those of its tail.
LEMMA TailRange ==
  ASSUME NEW S, NEW s \in Seq(S), s # <<>>
  PROVE  Range(s) = {Head(s)} \cup Range(Tail(s))
<1> DEFINE t == Tail(s)  h == Head(s)
<1>1. /\ Len(s) \in Nat /\ Len(s) >= 1 /\ DOMAIN s = 1 .. Len(s)
      /\ DOMAIN t = 1 .. Len(s) - 1 /\ h = s[1]
      /\ \A i \in 1 .. Len(s) - 1 : t[i] = s[i + 1]
  BY HeadTailProperties, LenProperties
<1> HIDE DEF t, h
<1>2. \A i \in DOMAIN s : i = 1 \/ (i - 1 \in DOMAIN t /\ s[i] = t[i - 1])
  BY <1>1
<1>3. \A i \in DOMAIN t : i + 1 \in DOMAIN s /\ t[i] = s[i + 1]
  BY <1>1
<1>4. \A i \in DOMAIN s : s[i] = h \/ \E k \in DOMAIN t : s[i] = t[k]
  BY <1>1, <1>2
<1>5. /\ \A k \in DOMAIN t : \E i \in DOMAIN s : t[k] = s[i]
      /\ \E i \in DOMAIN s : h = s[i]
  BY <1>1, <1>3
<1>6. Range(s) = {h} \cup Range(t)
  <2>1. \A x \in Range(s) : x = h \/ x \in Range(t)
    BY <1>4 DEF Range
  <2>2. h \in Range(s) /\ \A x \in Range(t) : x \in Range(s)
    BY <1>5 DEF Range
  <2> QED
    BY <2>1, <2>2
<1> QED
  BY <1>6 DEF t, h

\* Append adds one element.
LEMMA AppendRange ==
  ASSUME NEW S, NEW s \in Seq(S), NEW e \in S
  PROVE  Range(Append(s, e)) = Range(s) \cup {e}
<1> DEFINE a == Append(s, e)
<1>1. /\ Len(s) \in Nat /\ DOMAIN s = 1 .. Len(s) /\ DOMAIN a = 1 .. Len(s) + 1
      /\ \A i \in 1 .. Len(s) : a[i] = s[i]
      /\ a[Len(s) + 1] = e
  BY AppendProperties, LenProperties
<1> HIDE DEF a
<1>2. \A i \in DOMAIN a : (i \in DOMAIN s /\ a[i] = s[i]) \/ a[i] = e
  BY <1>1
<1>3. /\ \A i \in DOMAIN s : i \in DOMAIN a /\ a[i] = s[i]
      /\ \E i \in DOMAIN a : a[i] = e
  BY <1>1
<1>4. Range(a) = Range(s) \cup {e}
  BY <1>2, <1>3, Zenon DEF Range
<1> QED
  BY <1>4 DEF a

\* The empty sequence has no element.
LEMMA EmptyRange == Range(<<>>) = {}
BY DEF Range

\* The list of the tree alone.
LEMMA SingleRange == Range(<<"newspeak">>) = {"newspeak"}
BY DEF Range

\* A step that leaves the lists alone.
LEMMA Onwards ==
  ASSUME NEW at, op \in OpType, op' = [op EXCEPT !.pc = at]
  PROVE  /\ op'.kind = op.kind /\ op'.todo = op.todo /\ op'.ready = op.ready
         /\ op'.offline = op.offline /\ op'.got = op.got /\ op'.round = op.round /\ op'.pc = at
         /\ Listed' = Listed /\ Pending' = Pending
BY DEF OpType, Listed, Pending

\* Every step of a command leads where its memory says.
LEMMA CourseKept ==
  ASSUME Types, Shape, [Next]_vars
  PROVE  Course'
<1>1. op \in OpType /\ op.todo \in Seq(Object) /\ op.ready \in Seq(Object) /\ Course
  BY DEF Types, OpType, Shape
<1>2. op' = Idle => Course'
  BY EmptyRange DEF Course, Idle, Online, Exchanging, Listed, Pending
<1>3. op.pc # "idle" => op.kind # "none"
  BY <1>1 DEF Course, Idle
<1>4. UNCHANGED op => Course'
  BY <1>1 DEF Course, Listed, Pending
<1>5. ASSUME NEW kind \in {"tree", "sync", "refresh"}, NEW at, NEW todo, NEW offline,
             Begin(kind, at, todo, offline)
      PROVE  /\ op'.kind = kind /\ op'.pc = at /\ op'.todo = todo /\ op'.offline = offline
             /\ op'.ready = <<>> /\ Pending' = {} /\ Listed' = Range(todo)
  BY <1>5, EmptyRange DEF Begin, Idle, Listed, Pending
<1>6. CASE Start
  <2>1. ASSUME NEW offline \in BOOLEAN, StartTree(offline)
        PROVE  Course'
    BY <1>5, <2>1, SingleRange DEF StartTree, Course, Online, Exchanging
  <2>2. ASSUME NEW offline \in BOOLEAN, StartSync(offline)
        PROVE  Course'
    BY <1>5, <2>2, OrderFacts DEF StartSync, Course, Online, Exchanging
  <2>3. ASSUME NEW names \in Names, StartRefresh(names)
        PROVE  Course'
    <3>1. Range(names) \subseteq Channel /\ names # <<>>
      BY <2>3, OrderFacts DEF Range
    <3>2. /\ op'.kind = "refresh" /\ op'.pc = "get" /\ op'.todo = names /\ op'.offline = FALSE
          /\ Pending' = {} /\ Listed' = Range(names)
      BY <1>5, <2>3 DEF StartRefresh
    <3> QED
      BY <3>1, <3>2 DEF Course, Online, Exchanging
  <2> QED
    BY <1>6, <2>1, <2>2, <2>3 DEF Start
<1>7. CASE Recover
  <2>1. op' = [op EXCEPT !.pc = "purge"] /\ op.pc = "recover"
    BY <1>7 DEF Recover, Goto, At
  <2> QED
    BY <1>1, <1>3, <2>1, Onwards DEF Course, Online, Exchanging
<1>8. CASE Purge
  <2>1. op' = Idle \/ (op' = [op EXCEPT !.pc = "get"] /\ op.pc = "purge" /\ ~op.offline)
    BY <1>8 DEF Purge, Goto, At
  <2>2. CASE op' = [op EXCEPT !.pc = "get"] /\ op.pc = "purge" /\ ~op.offline
    <3>1. /\ op'.kind = op.kind /\ op'.todo = op.todo /\ op'.ready = op.ready /\ op'.pc = "get"
          /\ op'.offline = op.offline /\ Listed' = Listed /\ Pending' = Pending
      BY <1>1, <2>2, Onwards
    <3> QED
      BY <1>1, <1>3, <2>2, <3>1 DEF Course, Online, Exchanging
  <2> QED
    BY <1>2, <2>1, <2>2
<1>9. CASE Get
  <2>1. /\ op'.kind = op.kind /\ op'.pc = "get2" /\ op'.todo = op.todo /\ op'.ready = op.ready
        /\ op'.offline = op.offline /\ Listed' = Listed /\ Pending' = Pending
        /\ op.pc = "get"
    BY <1>1, <1>9 DEF Get, At, OpType, Listed, Pending
  <2> QED
    BY <1>1, <1>3, <2>1 DEF Course, Online, Exchanging
<1>10. CASE Get2
  <2> DEFINE o == Head(op.todo)
  <2>1. CASE op' = Idle
    BY <1>2, <2>1
  <2>2. CASE op' # Idle
    <3>1. op.pc = "get2" /\ op.todo # <<>> /\ o \in Object /\ ~op.offline
      BY <1>1, <1>10, HeadTailProperties DEF Get2, At, Course, Online
    <3>2. /\ op'.kind = op.kind /\ op'.todo = Tail(op.todo) /\ op'.ready = Append(op.ready, o)
          /\ op'.offline = op.offline
          /\ op'.pc = IF Tail(op.todo) # <<>> THEN "get"
                      ELSE IF op.kind = "sync" THEN "select" ELSE "make"
      BY <1>1, <1>10, <2>2 DEF Get2, OpType
    <3>3. Listed = {o} \cup Listed'
      BY <1>1, <3>1, <3>2, TailRange DEF Listed
    <3>4. Pending' = Pending \cup {o}
      BY <1>1, <3>1, <3>2, AppendRange DEF Pending
    <3>5. op'.ready # <<>>
      BY <1>1, <3>1, <3>2, AppendProperties
    <3>6. op'.todo = <<>> => Listed' = {}
      BY EmptyRange DEF Listed
    <3> QED
      BY <1>1, <1>3, <3>1, <3>2, <3>3, <3>4, <3>5, <3>6 DEF Course, Online, Exchanging
  <2> QED
    BY <2>1, <2>2
<1>11. CASE Cache
  <2>1. CASE op' = Idle
    BY <1>2, <2>1
  <2>2. CASE op' # Idle
    <3>1. /\ op'.kind = op.kind /\ op'.pc = "select" /\ op'.todo = op.todo
          /\ op'.ready = op.ready /\ op'.offline = op.offline
          /\ Listed' = Listed /\ Pending' = Pending /\ op.pc = "cache"
      BY <1>1, <1>11, <2>2 DEF Cache, At, OpType, Listed, Pending
    <3> QED
      BY <1>1, <1>3, <3>1 DEF Course, Online, Exchanging
  <2> QED
    BY <2>1, <2>2
<1>12. CASE Make \/ Settle \/ Drop \/ Swap \/ Tidy
  <2>1. \E at \in {"settle", "drop", "swap", "tidy", "seal"} :
          /\ op' = [op EXCEPT !.pc = at] /\ op.pc \in Exchanging
          /\ at = "drop" => op.kind = "tree"
    BY <1>1, <1>12 DEF Make, Settle, Drop, Swap, Tidy, Goto, At, Exchanging, Course
  <2> QED
    BY <1>1, <1>3, <2>1, Onwards DEF Course, Online, Exchanging
<1>13. CASE Seal
  <2>1. CASE op' = Idle
    BY <1>2, <2>1
  <2>2. CASE op' # Idle
    <3>1. op.pc = "seal" /\ op.ready # <<>>
      BY <1>1, <1>13 DEF Seal, At, Course, Exchanging
    <3>2. /\ op'.kind = op.kind /\ op'.todo = op.todo /\ op'.ready = Tail(op.ready)
          /\ op'.offline = op.offline /\ Listed' = Listed
          /\ op'.pc = IF Tail(op.ready) = <<>> THEN "lock" ELSE "make"
          /\ op.kind = "sync" \/ Tail(op.ready) # <<>>
      BY <1>1, <1>13, <2>2 DEF Seal, OpType, Listed
    <3>3. Pending' \subseteq Pending
      BY <1>1, <3>1, <3>2, TailRange DEF Pending
    <3> QED
      BY <1>1, <1>3, <3>1, <3>2, <3>3 DEF Course, Online, Exchanging
  <2> QED
    BY <2>1, <2>2
<1>14. CASE Select
  <2>1. CASE op' = Idle
    BY <1>2, <2>1
  <2>2. CASE op' = [op EXCEPT !.ready = <<>>, !.pc = "lock"]
    <3>1. /\ op'.kind = op.kind /\ op'.pc = "lock" /\ op'.todo = op.todo /\ op'.ready = <<>>
          /\ op'.offline = op.offline /\ Listed' = Listed /\ Pending' = {} /\ op.pc = "select"
      BY <1>1, <1>14, <2>2, EmptyRange DEF Select, At, OpType, Listed, Pending
    <3> QED
      BY <1>1, <1>3, <3>1 DEF Course, Online, Exchanging
  <2>3. CASE op' = [op EXCEPT !.ready = Order, !.pc = "make"] /\ ~op.offline
    <3>1. /\ op'.kind = op.kind /\ op'.pc = "make" /\ op'.todo = op.todo /\ op'.ready = Order
          /\ op'.offline = op.offline /\ Listed' = Listed /\ Pending' = Channel
          /\ op.pc = "select"
      BY <1>1, <1>14, <2>3, OrderFacts DEF Select, At, OpType, Listed, Pending
    <3> QED
      BY <1>1, <1>3, <2>3, <3>1, OrderFacts DEF Course, Online, Exchanging
  <2> QED
    BY <1>14, <2>1, <2>2, <2>3 DEF Select
<1>15. CASE PersistLock
  <2>1. \E at \in {"install", "bind"} : op' = [op EXCEPT !.pc = at] /\ op.pc = "lock"
    BY <1>15 DEF PersistLock, Goto, At
  <2> QED
    BY <1>1, <1>3, <2>1, Onwards DEF Course, Online, Exchanging
<1>16. CASE Install
  <2>1. /\ op'.kind = op.kind /\ op'.pc = (IF op.offline THEN "cache" ELSE "get")
        /\ op'.todo = Order /\ op'.ready = <<>> /\ op'.offline = op.offline
        /\ Listed' = Channel /\ Pending' = {} /\ op.pc = "install"
    BY <1>1, <1>16, OrderFacts, EmptyRange DEF Install, At, OpType, Listed, Pending
  <2> QED
    BY <1>1, <1>3, <2>1, OrderFacts DEF Course, Online, Exchanging
<1>17. CASE Bind \/ Fail \/ Kill \/ Cut
  BY <1>2, <1>17 DEF Bind, Fail, Kill, Cut
<1>18. CASE UNCHANGED vars \/ \E o \in Object : PublishBody(o) \/ PublishSignature(o)
  BY <1>4, <1>18 DEF vars, PublishBody, PublishSignature
<1> QED
  BY <1>6, <1>7, <1>8, <1>9, <1>10, <1>11, <1>12, <1>13, <1>14, <1>15, <1>16, <1>17, <1>18
     DEF Next, Step

-----------------------------------------------------------------------------
\* A cut spoils what was written and not synced, and only that.
LEMMA TornFacts ==
  ASSUME NEW f \in FilesType
  PROVE  /\ \A t \in Slot : Torn(f).dir[t] = IF f.dir[t].state = "written"
                                             THEN [pair |-> f.dir[t].pair, state |-> "partial"]
                                             ELSE f.dir[t]
         /\ Torn(f).locks = f.locks /\ Torn(f).record = f.record
BY DEF FilesType, Dir, Torn

\* A selection depends on what was fetched and on the tree in use.
LEMMA SelectionStays ==
  ASSUME op'.got = op.got, dir'["newspeak"] = dir["newspeak"]
  PROVE  Offering' = Offering /\ Selected' = Selected /\ release' = release
<1>1. release' = release
  BY DEF release
<1>2. Offering' = Offering
  BY <1>1 DEF Offering
<1>3. Preferred' = Preferred
  BY <1>2 DEF Preferred
<1> QED
  BY <1>1, <1>2, <1>3 DEF Selected

\* The steps of an exchange, by what they do to the disk.
LEMMA RecoverEffect ==
  ASSUME Types, Shape, Recover
  PROVE  \/ UNCHANGED files
         \/ /\ dir["newspeak"].state = "absent"
            /\ \A t \in Slot : dir'[t] = IF t = "newspeak" THEN dir["anterior"]
                                        ELSE IF t = "anterior" THEN NoDir ELSE dir[t]
            /\ files'.locks = files.locks /\ files'.record = files.record
<1>1. \/ UNCHANGED files
      \/ /\ dir["newspeak"].state = "absent"
         /\ files' = [files EXCEPT !.dir["newspeak"] = dir["anterior"], !.dir["anterior"] = NoDir]
  BY ChangeFacts DEF Recover
<1>2. files \in FilesType /\ "newspeak" \in Slot /\ "anterior" \in Slot
  BY NameFacts DEF Types
<1>3. CASE /\ dir["newspeak"].state = "absent"
           /\ files' = [files EXCEPT !.dir["newspeak"] = dir["anterior"], !.dir["anterior"] = NoDir]
  BY <1>2, <1>3 DEF FilesType, dir
<1> QED
  BY <1>1, <1>2, <1>3

\* The stage of the tree goes.
LEMMA PurgeEffect ==
  ASSUME Types, Shape, Purge
  PROVE  /\ \A t \in Slot : dir'[t] = IF t = "novo" THEN NoDir ELSE dir[t]
         /\ files'.locks = files.locks /\ files'.record = files.record
<1>1. files' = [files EXCEPT !.dir["novo"] = NoDir]
  BY ChangeFacts DEF Purge
<1> QED
  BY <1>1, NameFacts DEF Types, FilesType, dir

\* The stage is written.
LEMMA MakeEffect ==
  ASSUME Types, Shape, Make
  PROVE  /\ \A t \in Slot : dir'[t] = IF t = Stage
                                    THEN [pair |-> op.got[Head(op.ready)], state |-> "written"]
                                    ELSE dir[t]
         /\ files'.locks = files.locks /\ files'.record = files.record
<1>1. files' = [files EXCEPT !.dir[Stage] = [pair |-> op.got[Head(op.ready)], state |-> "written"]]
  BY ChangeFacts DEF Make
<1> QED
  BY <1>1, NameFacts DEF Types, FilesType, dir

\* The stage is synced.
LEMMA SettleEffect ==
  ASSUME Types, Shape, Settle
  PROVE  /\ \A t \in Slot : dir'[t] = IF t = Stage THEN [pair |-> dir[t].pair, state |-> "whole"] ELSE dir[t]
         /\ files'.locks = files.locks /\ files'.record = files.record
<1>1. files' = [files EXCEPT !.dir[Stage].state = "whole"]
  BY ChangeFacts DEF Settle
<1> QED
  BY <1>1, NameFacts DEF Types, FilesType, Dir, dir

\* The older tree goes, or part of it.
LEMMA DropEffect ==
  ASSUME Types, Shape, Drop
  PROVE  /\ \A t \in Slot \ {"anterior"} : dir'[t] = dir[t]
         /\ dir["anterior"].state = "absent" => dir'["anterior"] = NoDir
         /\ files'.locks = files.locks /\ files'.record = files.record
<1>1. PICK left \in {NoDir, [dir["anterior"] EXCEPT !.state = "partial"]} :
        /\ dir["anterior"].state = "absent" => left = NoDir
        /\ files' = [files EXCEPT !.dir["anterior"] = left]
  BY ChangeFacts DEF Drop
<1> QED
  BY <1>1, NameFacts DEF Types, FilesType, dir

\* The stage and the name in use change places.
LEMMA SwapEffect ==
  ASSUME Types, Shape, Swap
  PROVE  /\ Head(op.ready) \in Object
         /\ \A t \in Slot : dir'[t] = IF t = Head(op.ready) THEN dir[Stage]
                                     ELSE IF t = Stage THEN dir[Head(op.ready)] ELSE dir[t]
         /\ files'.locks = files.locks /\ files'.record = files.record
<1> DEFINE o == Head(op.ready)
<1>1. files' = [files EXCEPT !.dir[o] = dir[Stage], !.dir[Stage] = dir[o]]
  BY ChangeFacts DEF Swap
<1>2. o \in Object
  BY HeadTailProperties DEF Swap, At, Types, OpType, Shape, Course, Exchanging
<1> HIDE DEF o
<1>3. o \in Slot /\ Stage \in Slot /\ o # Stage /\ files \in FilesType
  BY <1>2, NameFacts DEF Types
<1>4. /\ \A t \in Slot : files'.dir[t] = IF t = o THEN dir[Stage] ELSE IF t = Stage THEN dir[o]
                                         ELSE files.dir[t]
      /\ files'.locks = files.locks /\ files'.record = files.record
  BY <1>1, <1>3 DEF FilesType, dir
<1> QED
  BY <1>2, <1>4 DEF dir, o

\* What was in use goes, or part of it.
LEMMA TidyEffect ==
  ASSUME Types, Shape, Tidy
  PROVE  /\ \A t \in Slot \ {Stage} : dir'[t] = dir[t]
         /\ files'.locks = files.locks /\ files'.record = files.record
<1>1. \/ files' = [files EXCEPT !.dir[Stage] = NoDir]
      \/ files' = [files EXCEPT !.dir[Stage].state = "partial"]
  BY ChangeFacts DEF Tidy
<1>2. files \in FilesType /\ Stage \in Slot
  BY NameFacts DEF Types
<1>3. CASE files' = [files EXCEPT !.dir[Stage] = NoDir]
  BY <1>2, <1>3 DEF FilesType, dir
<1>4. CASE files' = [files EXCEPT !.dir[Stage].state = "partial"]
  BY <1>2, <1>4 DEF FilesType, Dir, dir
<1> QED
  BY <1>1, <1>3, <1>4

\* The parent is synced.
LEMMA SealEffect ==
  ASSUME Types, Shape, Seal
  PROVE  /\ \A t \in Slot : dir'[t] = IF t = "temp" THEN NoDir ELSE dir[t]
         /\ files'.locks = files.locks /\ files'.record = files.record
<1>1. files' = [files EXCEPT !.dir["temp"] = NoDir]
  BY ChangeFacts DEF Seal
<1> QED
  BY <1>1, NameFacts DEF Types, FilesType, dir

\* A killed command leaves the disk as it is.
LEMMA KillEffect ==
  ASSUME Types, Shape, Kill
  PROVE  /\ \A t \in Slot : dir'[t] = IF t = "temp" THEN NoDir ELSE dir[t]
         /\ files'.locks = files.locks /\ files'.record = files.record
<1>1. files' = [files EXCEPT !.dir["temp"] = NoDir]
  BY ChangeFacts DEF Kill
<1> QED
  BY <1>1, NameFacts DEF Types, FilesType, dir

\* A failed step removes its stage.
LEMMA FailEffect ==
  ASSUME Types, Shape, Fail
  PROVE  \/ UNCHANGED files /\ op.pc \notin {"settle", "drop", "swap", "seal"}
         \/ /\ \A t \in Slot : dir'[t] = IF t = Stage THEN NoDir ELSE dir[t]
            /\ files'.locks = files.locks /\ files'.record = files.record
<1>1. \/ UNCHANGED files /\ op.pc \notin {"settle", "drop", "swap", "seal"}
      \/ files' = [files EXCEPT !.dir[Stage] = NoDir]
  BY ChangeFacts DEF Fail
<1> QED
  BY <1>1, NameFacts DEF Types, FilesType, dir

\* The lock of the selection is added.
LEMMA PersistLockEffect ==
  ASSUME Types, Shape, PersistLock
  PROVE  /\ dir' = dir /\ files'.record = files.record
         /\ files'.locks = IF Selected = NoLock THEN files.locks ELSE files.locks \cup {Selected}
<1>1. CASE Selected = NoLock
  BY <1>1 DEF PersistLock, dir
<1>2. CASE Selected # NoLock
  <2>1. files' = [files EXCEPT !.locks = @ \cup {Selected}]
    BY <1>2, ChangeFacts DEF PersistLock
  <2> QED
    BY <1>2, <2>1 DEF Types, FilesType, dir
<1> QED
  BY <1>1, <1>2

\* The record is that of the selection, or is kept.
LEMMA InstallEffect ==
  ASSUME Types, Shape, Install
  PROVE  /\ dir' = dir /\ files'.locks = files.locks
         /\ \/ files'.record = files.record
            \/ files'.record = [print |-> Fingerprint[release], lock |-> Selected, bound |-> FALSE]
<1>1. CASE Keep
  BY <1>1 DEF Install, dir
<1>2. CASE ~Keep
  <2>1. files' = [files EXCEPT !.record = [print |-> Fingerprint[release], lock |-> Selected,
                                           bound |-> FALSE]]
    BY <1>2, ChangeFacts DEF Install
  <2> QED
    BY <2>1 DEF Types, FilesType, dir
<1> QED
  BY <1>1, <1>2

\* The record is bound to the same selection.
LEMMA BindEffect ==
  ASSUME Types, Shape, Bind
  PROVE  /\ dir' = dir /\ files'.locks = files.locks
         /\ files'.record.lock = files.record.lock /\ files'.record.print = files.record.print
BY ChangeFacts DEF Bind, Types, FilesType, dir

\* After a cut the disk is one of its past states, without the data not synced.
LEMMA CutEffect ==
  ASSUME Types, Shape, Cut
  PROVE  \E f \in past :
           /\ \A t \in Slot : dir'[t] = IF t = "temp" THEN NoDir
                                        ELSE IF f.dir[t].state = "written"
                                             THEN [pair |-> f.dir[t].pair, state |-> "partial"]
                                             ELSE f.dir[t]
           /\ files'.locks = f.locks /\ files'.record = f.record
<1>1. PICK f \in past : files' = [Torn(f) EXCEPT !.dir["temp"] = NoDir]
  BY DEF Cut
<1>2. f \in FilesType /\ Torn(f) \in FilesType
  BY UpdateTyped DEF Types
<1>3. /\ \A t \in Slot : files'.dir[t] = IF t = "temp" THEN NoDir ELSE Torn(f).dir[t]
      /\ files'.locks = Torn(f).locks /\ files'.record = Torn(f).record
  BY <1>1, <1>2, NameFacts DEF FilesType
<1> QED
  BY <1>2, <1>3, TornFacts DEF dir

-----------------------------------------------------------------------------
\* The site only goes on, its signatures after its bodies.
LEMMA SiteKept ==
  ASSUME Types, Shape, SiteGoesOn, [Next]_vars, NEW o \in Object
  PROVE  site[o].sig <= site'[o].sig /\ site'[o].sig <= site'[o].body /\ 1 <= site'[o].sig
<1>1. site \in [Object -> Pair] /\ site[o].sig \in Int /\ site[o].body \in Int
  BY PairFacts DEF Types
<1>2. site[o].sig <= site[o].body /\ 1 <= site[o].sig
  BY DEF SiteGoesOn
<1>3. CASE UNCHANGED site
  BY <1>1, <1>2, <1>3
<1>4. CASE \E b \in Object : PublishBody(b)
  <2>1. PICK b \in Object : site' = [site EXCEPT ![b].body = @ + 1]
    BY <1>4 DEF PublishBody
  <2> QED
    BY <1>1, <1>2, <2>1 DEF Pair
<1>5. CASE \E b \in Object : PublishSignature(b)
  <2>1. PICK b \in Object : site' = [site EXCEPT ![b].sig = site[b].body]
    BY <1>5 DEF PublishSignature
  <2> QED
    BY <1>1, <1>2, <2>1 DEF Pair
<1> QED
  BY <1>3, <1>4, <1>5
     DEF Next, Start, StartTree, StartSync, StartRefresh, Begin, Step, Recover, Purge, Get, Get2,
         Cache, Make, Settle, Drop, Swap, Tidy, Seal, Select, PersistLock, Install, Bind, Fail,
         Kill, Cut, vars

\* What a command says when it ends is what it fetched.
LEMMA GivenSteps ==
  ASSUME Types, Shape, [Next]_vars, NEW o \in Object
  PROVE  \/ given'[o] = given[o]
         \/ /\ given'[o] = op.got[o].body /\ op' = Idle
            /\ \/ Seal /\ op.kind # "sync" /\ Tail(op.ready) = <<>> /\ op.got[o] # NoPair
               \/ Bind /\ o \in Channel /\ Selected # NoLock /\ ~op.offline
<1>1. given \in [Object -> 0 .. MaxRelease]
  BY DEF Types
<1>2. CASE Seal
  BY <1>1, <1>2 DEF Seal
<1>3. CASE Bind
  BY <1>1, <1>3 DEF Bind
<1>4. CASE ~(Seal \/ Bind)
  <2>1. UNCHANGED given
    BY <1>4 DEF Next, Start, StartTree, StartSync, StartRefresh, Begin, Step, Recover, Purge, Get,
         Get2, Cache, Make, Settle, Drop, Swap, Tidy, Select, PersistLock, Install, Fail,
         Kill, Cut, PublishBody, PublishSignature, vars
  <2> QED
    BY <2>1
<1> QED
  BY <1>2, <1>3, <1>4

\* What was fetched stays fit while the machine is told nothing new.
LEMMA FitKept ==
  ASSUME Types, Types', Shape, SiteGoesOn, [Next]_vars, NEW o \in Object,
         given'[o] = given[o], op'.got[o] = op.got[o], Fit(o)
  PROVE  Fit(o)'
<1>1. site[o].sig <= site'[o].sig
  BY SiteKept
<1>2. site[o].sig \in Int /\ site'[o].sig \in Int /\ op.got[o].sig \in Int
  BY PairFacts DEF Types, OpType
<1> QED
  BY <1>1, <1>2 DEF Fit

\* What was downloaded stays one release, no older than what the machine has.
LEMMA FetchedKept ==
  ASSUME Types, Types', Shape, Course', SiteGoesOn, Fetched, [Next]_vars
  PROVE  Fetched'
<1>1. op \in OpType /\ Course /\ op.got \in [Object -> Pair] /\ op.todo \in Seq(Object)
  BY DEF Types, OpType, Shape
<1>2. op' = Idle => Fetched'
  BY EmptyRange DEF Fetched, Idle, Doubtful, Pending
<1>3. op' # Idle => \A o \in Object : given'[o] = given[o]
  BY GivenSteps
<1>4. ASSUME op.pc # "get2", op'.pc # "get2", op' # Idle, op'.offline = op.offline,
             op'.got = op.got, Pending' \subseteq Pending,
             op'.pc \in {"recover", "purge", "get", "select"} =>
               op.pc \in {"recover", "purge", "get", "select"} /\ Pending' = Pending
      PROVE  Fetched'
  <2>1. Doubtful = {} /\ Doubtful' = {}
    BY <1>4 DEF Doubtful
  <2>2. ASSUME ~op.offline, NEW o \in Object, Fit(o)
        PROVE  Fit(o)'
    BY <1>3, <1>4, <2>2, FitKept
  <2> QED
    BY <1>4, <2>1, <2>2 DEF Fetched

<1>5. CASE UNCHANGED op
  <2>1. Doubtful' = Doubtful /\ Pending' = Pending
    BY <1>5 DEF Doubtful, Pending
  <2>2. op' = Idle \/ \A o \in Object : Fit(o) => Fit(o)'
    BY <1>3, <1>5, FitKept
  <2>3. \A o \in Object : given[o] <= op.got[o].sig /\ op.got[o].sig <= site[o].sig =>
                            op.got[o].sig <= site'[o].sig
    <3>1. \A o \in Object : site[o].sig <= site'[o].sig
      BY SiteKept
    <3>2. \A o \in Object : site[o].sig \in Int /\ site'[o].sig \in Int /\ op.got[o].sig \in Int
      BY PairFacts DEF Types, OpType
    <3> QED
      BY <3>1, <3>2
  <2>4. CASE op' = Idle
    BY <1>2, <2>4
  <2>5. CASE op' # Idle
    BY <1>3, <1>5, <2>1, <2>2, <2>3, <2>5, NameFacts DEF Fetched
  <2> QED
    BY <2>4, <2>5
<1>6. CASE Start
  <2>1. op'.got = [o \in Object |-> NoPair] /\ op'.ready = <<>> /\ op'.pc # "get2"
    BY <1>6 DEF Start, StartTree, StartSync, StartRefresh, Begin, Idle
  <2> QED
    BY <2>1, EmptyRange DEF Fetched, Doubtful, Pending
<1>7. CASE Recover \/ Purge \/ Make \/ Settle \/ Drop \/ Swap \/ Tidy \/ PersistLock
  <2>1. op' = Idle \/ \E at \in {"purge", "get", "settle", "drop", "swap", "tidy", "seal", "install", "bind"} :
          /\ op' = [op EXCEPT !.pc = at] /\ op.pc # "get2"
          /\ at \in {"purge", "get"} => op.pc \in {"recover", "purge"}
    BY <1>7 DEF Recover, Purge, Make, Settle, Drop, Swap, Tidy, PersistLock, Goto, At
  <2>2. CASE op' = Idle
    BY <1>2, <2>2
  <2>3. ASSUME NEW at \in {"purge", "get", "settle", "drop", "swap", "tidy", "seal", "install", "bind"},
               op' = [op EXCEPT !.pc = at], op.pc # "get2",
               at \in {"purge", "get"} => op.pc \in {"recover", "purge"}
        PROVE  Fetched'
    BY <1>1, <1>2, <1>4, <2>3, Onwards
  <2> QED
    BY <2>1, <2>2, <2>3
<1>8. CASE Get
  <2> DEFINE h == Head(op.todo)
  <2>a. op.pc = "get" /\ op.todo # <<>> /\ h \in Object /\ ~op.offline
    BY <1>1, <1>8, HeadTailProperties DEF Get, At, Course, Online
  <2>b. /\ op' = [op EXCEPT !.got[h][First(h)] = site[h][First(h)], !.pc = "get2"]
        /\ site' = site
    BY <1>8 DEF Get
  <2>c. /\ op'.pc = "get2" /\ op'.todo = op.todo /\ op'.ready = op.ready
        /\ op'.offline = op.offline
        /\ op'.got = [op.got EXCEPT ![h][First(h)] = site[h][First(h)]]
    BY <1>1, <2>b DEF OpType
  <2> HIDE DEF h
  <2>d. op' # Idle
    BY <2>c DEF Idle
  <2>e. h = "newspeak" => op'.got[h].sig = site[h].sig
    BY <1>1, <2>a, <2>c DEF First, Pair
  <2>1. /\ op.pc = "get" /\ op'.pc = "get2" /\ op'.todo = op.todo /\ op'.ready = op.ready
        /\ op'.offline = op.offline /\ h \in Object /\ ~op.offline /\ op' # Idle
        /\ \A o \in Object \ {h} : op'.got[o] = op.got[o]
        /\ h = "newspeak" => op'.got[h].sig = site[h].sig
        /\ site' = site
    BY <1>1, <2>a, <2>b, <2>c, <2>d, <2>e
  <2>2. Doubtful = {} /\ Doubtful' = {h} /\ Pending' = Pending
    BY <2>1 DEF Doubtful, Pending, h
  <2>3. \A o \in Object \ {h} : Fit(o) => Fit(o)'
    BY <1>3, <2>1, FitKept
  <2>4. h = "newspeak" => given'[h] <= op'.got[h].sig /\ op'.got[h].sig <= site'[h].sig
    <3>1. site[h].sig \in Int /\ given[h] <= site[h].sig
      BY <2>1, PairFacts DEF SiteGoesOn, Types
    <3> QED
      BY <1>3, <2>1, <3>1
  <2>5. \A o \in Object \ {h} : op'.got[o] = NoPair \/ Fit(o)'
    BY <2>1, <2>2, <2>3 DEF Fetched
  <2>6. \A o \in Pending' \ {h} : op'.got[o] # NoPair
    <3>1. Pending \subseteq Object
      BY <1>1 DEF Pending, Range, OpType
    <3> QED
      BY <2>1, <2>2, <3>1 DEF Fetched
  <2>7. \A o \in Object \ (Pending' \cup {h}) : op'.got[o] = NoPair
    BY <2>1, <2>2 DEF Fetched
  <2> QED
    BY <2>2, <2>4, <2>5, <2>6, <2>7 DEF Fetched
<1>9. CASE Get2
  <2>a. op.todo # <<>> /\ Head(op.todo) \in Object /\ ~op.offline /\ op.pc = "get2"
    BY <1>1, <1>9, HeadTailProperties DEF Get2, At, Course, Online
  <2>b. PICK h \in Object : h = Head(op.todo)
    BY <2>a
  <2>1. CASE op' = Idle
    BY <1>2, <2>1
  <2>2. CASE op' # Idle
    <3> DEFINE pair == [op.got[h] EXCEPT ![Second(h)] = site[h][Second(h)]]
    <3>1. op.todo # <<>> /\ h = Head(op.todo) /\ ~op.offline /\ op.pc = "get2"
      BY <2>a, <2>b
    <3>2. /\ op'.pc \in {"get", "select", "make"} /\ op'.ready = Append(op.ready, h)
          /\ op'.offline = op.offline /\ op'.got[h] = pair /\ Matches(pair)
          /\ \A o \in Object \ {h} : op'.got[o] = op.got[o]
          /\ site' = site
      BY <1>1, <1>9, <2>2, <3>1 DEF Get2, OpType
    <3>3. /\ op.got[h] \in Pair /\ site[h] \in Pair /\ pair \in Pair
          /\ given[h] <= site[h].sig /\ given[h] \in Int
      <4>1. op.got[h] \in Pair /\ site[h] \in Pair
        BY <1>1, <3>1 DEF Types
      <4>2. pair \in Pair
        BY <4>1 DEF Pair, Second
      <4>3. given[h] \in Int
        BY <3>1, UpdatesAssumption DEF Types
      <4> QED
        BY <3>1, <4>1, <4>2, <4>3 DEF SiteGoesOn
    <3>4. Doubtful = {h} /\ Doubtful' = {}
      BY <3>1, <3>2 DEF Doubtful
    <3>5. Pending' = Pending \cup {h}
      BY <1>1, <3>1, <3>2, AppendRange DEF Pending, Types, OpType
    <3>6. given[h] <= pair.sig /\ pair.sig <= site[h].sig
      <4>1. CASE h = "newspeak"
        <5>1. pair.sig = op.got[h].sig
          BY <3>3, <4>1 DEF Second, Pair
        <5> QED
          BY <3>1, <3>4, <4>1, <5>1 DEF Fetched
      <4>2. CASE h # "newspeak"
        <5>1. pair.sig = site[h].sig
          BY <3>3, <4>2 DEF Second, Pair
        <5> QED
          BY <3>3, <5>1, PairFacts
      <4> QED
        BY <4>1, <4>2
    <3> HIDE DEF pair
    <3>7. Fit(h)' /\ op'.got[h] # NoPair
      <4>1. Matches(pair) /\ pair # NoPair /\ pair.sig \in Int /\ pair.body = pair.sig
        BY <3>2, <3>3, PairFacts DEF Matches
      <4>2. given'[h] = given[h] /\ site'[h].sig = site[h].sig
        BY <1>3, <2>2, <3>1, <3>2
      <4> QED
        BY <3>2, <3>3, <3>6, <4>1, <4>2 DEF Fit
    <3>8. \A o \in Object \ {h} : Fit(o) => Fit(o)'
      BY <1>3, <2>2, <3>2, FitKept
    <3>9. Pending \subseteq Object
      BY <1>1 DEF Pending, Range, Types, OpType
    <3>10. \A o \in Object : op'.got[o] = NoPair \/ Fit(o)'
      BY <3>1, <3>2, <3>4, <3>7, <3>8 DEF Fetched
    <3>11. \A o \in Pending' : op'.got[o] # NoPair
      BY <3>1, <3>2, <3>4, <3>5, <3>7, <3>9 DEF Fetched
    <3>12. \A o \in Object \ Pending' : op'.got[o] = NoPair
      BY <3>1, <3>2, <3>4, <3>5 DEF Fetched
    <3> QED
      BY <3>4, <3>10, <3>11, <3>12 DEF Fetched
  <2> QED
    BY <2>1, <2>2
<1>10. CASE Cache
  <2>1. op' = Idle \/ op'.offline
    BY <1>1, <1>10 DEF Cache, At, Course, OpType
  <2> QED
    BY <1>2, <2>1 DEF Fetched
<1>11. CASE Seal
  <2>1. CASE op' = Idle
    BY <1>2, <2>1
  <2>2. CASE op' # Idle
    <3>1. op.pc = "seal" /\ op.ready # <<>>
      BY <1>1, <1>11 DEF Seal, At, Course, Exchanging
    <3>2. /\ op'.ready = Tail(op.ready) /\ op'.offline = op.offline
          /\ op'.got = op.got /\ op'.pc \in {"lock", "make"}
      BY <1>1, <1>11, <2>2 DEF Seal, OpType
    <3>3. Pending' \subseteq Pending
      BY <1>1, <3>1, <3>2, TailRange DEF Pending, Types, OpType
    <3> QED
      BY <1>4, <2>2, <3>1, <3>2, <3>3
  <2> QED
    BY <2>1, <2>2
<1>12. CASE Select
  <2>1. CASE op' = Idle
    BY <1>2, <2>1
  <2>2. CASE op' # Idle
    <3>1. /\ op.pc = "select" /\ op'.pc \in {"lock", "make"} /\ op'.got = op.got
          /\ op'.offline = op.offline /\ op'.ready \in {<<>>, Order} /\ op.kind = "sync"
      BY <1>1, <1>12, <2>2 DEF Select, At, OpType, Course
    <3>2. Pending' \subseteq Channel
      BY <3>1, EmptyRange, OrderFacts DEF Pending
    <3>3. CASE op.offline
      BY <3>1, <3>3 DEF Fetched
    <3>4. CASE ~op.offline
      <4>1. Pending' \subseteq Pending
        BY <1>1, <3>1, <3>2, <3>4 DEF Course
      <4> QED
        BY <1>4, <2>2, <3>1, <4>1
    <3> QED
      BY <3>3, <3>4
  <2> QED
    BY <2>1, <2>2
<1>13. CASE Install
  <2>1. /\ op'.got = [o \in Object |-> NoPair] /\ op'.ready = <<>> /\ op'.pc # "get2"
    BY <1>1, <1>13 DEF Install, Idle, OpType
  <2> QED
    BY <2>1, EmptyRange DEF Fetched, Doubtful, Pending
<1>14. CASE Bind \/ Fail \/ Kill \/ Cut
  BY <1>2, <1>14 DEF Bind, Fail, Kill, Cut
<1>15. CASE \E o \in Object : PublishBody(o) \/ PublishSignature(o)
  BY <1>5, <1>15 DEF PublishBody, PublishSignature
<1> QED
  BY <1>5, <1>6, <1>7, <1>8, <1>9, <1>10, <1>11, <1>12, <1>13, <1>14, <1>15
     DEF Next, Step, vars

-----------------------------------------------------------------------------
\* A sync never touches the tree of recipes.
LEMMA TreeUntouched ==
  ASSUME Types, Shape, [Next]_vars, op'.kind = "sync"
  PROVE  dir'["newspeak"] = dir["newspeak"]
<1>1. op \in OpType /\ Course /\ "newspeak" \in Slot
  BY NameFacts DEF Types, Shape
<1>2. op' # Idle
  BY DEF Idle
<1>3. ASSUME op.kind = "sync", op.pc \in Exchanging
      PROVE  Stage = "temp" /\ Head(op.ready) \in Channel
  <2>1. op.ready # <<>> /\ op.ready \in Seq(Object) /\ Pending \subseteq Channel
    BY <1>1, <1>3 DEF Course, OpType
  <2>2. Head(op.ready) \in Pending
    BY <2>1, TailRange DEF Pending
  <2> QED
    BY <1>3, <2>1, <2>2 DEF Stage
<1>4. CASE Make \/ Settle \/ Swap \/ Tidy \/ Seal
  <2>1. op.kind = "sync" /\ op.pc \in Exchanging
    BY <1>1, <1>2, <1>4
       DEF Make, Settle, Swap, Tidy, Seal, Goto, At, Exchanging, OpType
  <2>2. Stage = "temp" /\ Head(op.ready) # "newspeak" /\ "temp" # "newspeak"
    BY <1>3, <2>1, NameFacts
  <2> QED
    BY <1>1, <1>4, <2>2, MakeEffect, SettleEffect, SwapEffect, TidyEffect, SealEffect
<1>5. CASE Drop
  BY <1>1, <1>5, DropEffect
<1>6. CASE PersistLock \/ Install
  BY <1>6, PersistLockEffect, InstallEffect
<1>7. CASE Recover
  BY <1>1, <1>7 DEF Recover, Goto, At, Course, OpType
<1>8. CASE Purge
  BY <1>1, <1>8, PurgeEffect
<1>9. CASE Start \/ Get \/ Get2 \/ Cache \/ Select \/ UNCHANGED vars
             \/ \E o \in Object : PublishBody(o) \/ PublishSignature(o)
  BY <1>9 DEF Start, StartTree, StartSync, StartRefresh, Begin, Get, Get2, Cache, Select, vars,
              PublishBody, PublishSignature, dir
<1>10. CASE Bind \/ Fail \/ Kill \/ Cut
  BY <1>2, <1>10 DEF Bind, Fail, Kill, Cut
<1> QED
  BY <1>4, <1>5, <1>6, <1>7, <1>8, <1>9, <1>10 DEF Next, Step

\* The temporary of a channel exists only during its exchange.
LEMMA TemporaryKept ==
  ASSUME Types, Shape, [Next]_vars
  PROVE  dir'["temp"].state # "absent" =>
           op'.kind \in {"refresh", "sync"} /\ op'.pc \in {"settle", "swap", "tidy", "seal"}
<1>1. op \in OpType /\ Course /\ "temp" \in Slot /\ NoDir.state = "absent"
  BY NameFacts DEF Types, Shape, NoDir
<1>2. dir["temp"].state # "absent" =>
        op.kind \in {"refresh", "sync"} /\ op.pc \in {"settle", "swap", "tidy", "seal"}
  BY DEF Shape, Ground
<1>3. op.pc # "idle" => op.kind \in {"tree", "refresh", "sync"}
  BY <1>1 DEF Course, Idle, OpType
<1>4. CASE Make \/ Settle \/ Swap \/ Tidy
  <2>1. /\ op'.kind = op.kind /\ op'.pc \in {"settle", "swap", "drop", "tidy", "seal"}
        /\ op'.pc = "drop" => op.kind = "tree"
        /\ op.pc \in Exchanging
    BY <1>1, <1>4 DEF Make, Settle, Swap, Tidy, Goto, At, Exchanging, OpType
  <2>2. CASE op.kind = "tree"
    <3>1. Stage = "novo" /\ "novo" \in Slot /\ dir["temp"].state = "absent"
      BY <1>2, <2>2, NameFacts DEF Stage
    <3>2. Swap => Head(op.ready) # "temp"
      BY SwapEffect, NameFacts
    <3>3. dir'["temp"] = dir["temp"]
      BY <1>1, <1>4, <3>1, <3>2, MakeEffect, SettleEffect, SwapEffect, TidyEffect
    <3> QED
      BY <3>1, <3>3
  <2>3. CASE op.kind \in {"refresh", "sync"}
    BY <2>1, <2>3
  <2> QED
    BY <1>1, <1>3, <2>1, <2>2, <2>3 DEF Exchanging
<1>5. CASE Seal
  BY <1>1, <1>5, SealEffect
<1>6. CASE Kill
  BY <1>1, <1>6, KillEffect
<1>7. CASE Cut
  BY <1>1, <1>7, CutEffect
<1>8. CASE Fail
  <2>1. CASE UNCHANGED files /\ op.pc \notin {"settle", "drop", "swap", "seal"}
    BY <1>2, <1>8, <2>1 DEF Fail, dir
  <2>2. CASE \A t \in Slot : dir'[t] = IF t = Stage THEN NoDir ELSE dir[t]
    BY <1>1, <1>2, <2>2 DEF Stage
  <2> QED
    BY <1>8, <2>1, <2>2, FailEffect
<1>9. CASE Recover \/ Purge \/ Drop
  <2>1. op.kind = "tree"
    BY <1>1, <1>9 DEF Recover, Purge, Drop, At, Course
  <2>2. dir'["temp"] = dir["temp"] \/ dir'["temp"] = NoDir
    BY <1>1, <1>9, RecoverEffect, PurgeEffect, DropEffect DEF dir
  <2> QED
    BY <1>1, <1>2, <2>1, <2>2
<1>10. CASE PersistLock \/ Install \/ Bind
  <2>1. op.pc \in {"lock", "install", "bind"} /\ dir' = dir
    BY <1>10, PersistLockEffect, InstallEffect, BindEffect DEF PersistLock, Install, Bind, At
  <2> QED
    BY <1>2, <2>1
<1>11. CASE Start \/ Get \/ Get2 \/ Cache \/ Select
  <2>1. op.pc \in {"idle", "get", "get2", "cache", "select"} /\ dir' = dir
    BY <1>11 DEF Start, StartTree, StartSync, StartRefresh, Begin, Get, Get2, Cache, Select, At, dir
  <2> QED
    BY <1>2, <2>1
<1>12. CASE UNCHANGED vars \/ \E o \in Object : PublishBody(o) \/ PublishSignature(o)
  BY <1>2, <1>12 DEF vars, PublishBody, PublishSignature, dir
<1> QED
  BY <1>4, <1>5, <1>6, <1>7, <1>8, <1>9, <1>10, <1>11, <1>12 DEF Next, Step

\* Where a command stands and what it fetched, after a step that keeps it going.
LEMMA OpSteps ==
  ASSUME Types, Shape, [Next]_vars, op' # Idle, ~Start, ~Get, ~Get2, ~Cache, ~Install
  PROVE  /\ op'.kind = op.kind /\ op'.got = op.got /\ op'.offline = op.offline
         /\ op.kind \in {"tree", "refresh", "sync"}
         /\ op'.pc \in Exchanging => op.pc \in Exchanging \cup {"select"}
         /\ op'.pc \in Exchanging /\ op.pc = "select" => Selected # NoLock
         /\ op'.pc \in {"select", "lock", "install", "bind"} \cup Exchanging
              => op.pc \in {"select", "lock", "install", "bind"} \cup Exchanging
<1>1. op \in OpType /\ Course
  BY DEF Types, Shape
<1>2. op.pc # "idle" => op.kind \in {"tree", "refresh", "sync"}
  BY <1>1 DEF Course, Idle, OpType
<1>3. CASE UNCHANGED op
  BY <1>1, <1>2, <1>3 DEF Course, Exchanging
<1>4. CASE Recover \/ Purge \/ Make \/ Settle \/ Drop \/ Swap \/ Tidy \/ PersistLock
  <2>1. \E at \in {"purge", "get", "settle", "drop", "swap", "tidy", "seal", "install", "bind"} :
          /\ op' = [op EXCEPT !.pc = at] /\ op.pc # "idle"
          /\ at \in {"settle", "drop", "swap", "tidy", "seal"} => op.pc \in Exchanging
          /\ at \in {"install", "bind"} => op.pc = "lock"
    BY <1>4 DEF Recover, Purge, Make, Settle, Drop, Swap, Tidy, PersistLock, Goto, At, Exchanging
  <2> QED
    BY <1>1, <1>2, <2>1, Onwards DEF Exchanging
<1>5. CASE Seal
  BY <1>1, <1>2, <1>5 DEF Seal, At, OpType, Exchanging
<1>6. CASE Select
  BY <1>1, <1>2, <1>6 DEF Select, At, OpType, Exchanging
<1>7. CASE Bind \/ Fail \/ Kill \/ Cut
  BY <1>7 DEF Bind, Fail, Kill, Cut
<1>8. CASE UNCHANGED vars \/ \E o \in Object : PublishBody(o) \/ PublishSignature(o)
  BY <1>3, <1>8 DEF vars, PublishBody, PublishSignature
<1> QED
  BY <1>4, <1>5, <1>6, <1>7, <1>8 DEF Next, Step

\* The tree is in use again before its older generation may go.
LEMMA RepairKept ==
  ASSUME Types, Shape, Brought, [Next]_vars, op'.kind = "tree", op'.pc # "recover",
         dir'["newspeak"].state = "absent"
  PROVE  dir'["anterior"].state = "absent"
<1>1. op \in OpType /\ Course /\ {"newspeak", "anterior"} \subseteq Slot /\ NoDir.state = "absent"
  BY NameFacts DEF Types, Shape, NoDir
<1>2. op.kind = "tree" /\ op.pc # "recover" =>
        (dir["newspeak"].state = "absent" => dir["anterior"].state = "absent")
  BY DEF Shape, Ground
<1>3. op' # Idle
  BY DEF Idle
<1>4. CASE Start
  BY <1>4 DEF Start, StartTree, StartSync, StartRefresh, Begin, Idle
<1>5. CASE Recover
  <2>1. CASE dir["newspeak"].state = "absent" /\ dir["anterior"].state # "absent"
    <3>1. files' = [files EXCEPT !.dir["newspeak"] = dir["anterior"], !.dir["anterior"] = NoDir]
      BY <1>5, <2>1, ChangeFacts DEF Recover
    <3>2. files \in FilesType /\ "newspeak" # "anterior"
      BY DEF Types
    <3>3. dir'["anterior"] = NoDir
      BY <1>1, <3>1, <3>2 DEF FilesType, dir
    <3> QED
      BY <1>1, <3>3
  <2>2. CASE UNCHANGED files /\ ~(dir["newspeak"].state = "absent" /\ dir["anterior"].state # "absent")
    BY <2>2 DEF dir
  <2> QED
    BY <1>5, <2>1, <2>2 DEF Recover
<1>6. CASE Purge \/ Make \/ Settle \/ Tidy \/ Seal
  <2>1. op.kind = "tree" /\ op.pc # "recover" /\ Stage = "novo"
    BY <1>1, <1>3, <1>6
       DEF Purge, Make, Settle, Tidy, Seal, Goto, At, OpType, Stage
  <2>2. dir'["newspeak"].state = dir["newspeak"].state /\ dir'["anterior"] = dir["anterior"]
    BY <1>1, <1>6, <2>1, PurgeEffect, MakeEffect, SettleEffect, TidyEffect, SealEffect
  <2> QED
    BY <1>2, <2>1, <2>2
<1>7. CASE Drop
  <2>1. op.kind = "tree" /\ op.pc # "recover"
    BY <1>1, <1>7 DEF Drop, At, Course
  <2>2. dir'["newspeak"] = dir["newspeak"]
    BY <1>1, <1>7, DropEffect
  <2>3. dir["anterior"].state = "absent" => dir'["anterior"] = NoDir
    BY <1>7, DropEffect
  <2> QED
    BY <1>1, <1>2, <2>1, <2>2, <2>3
<1>8. CASE Swap
  <2>1. op.kind = "tree" /\ op.pc = "swap" /\ Stage = "novo"
    BY <1>1, <1>8 DEF Swap, Goto, At, OpType, Stage
  <2>2. op.ready # <<>> /\ op.ready \in Seq(Object) /\ Pending \subseteq {"newspeak"}
    BY <1>1, <2>1 DEF Course, OpType, Exchanging
  <2>3. Head(op.ready) = "newspeak"
    BY <2>2, TailRange DEF Pending
  <2>4. dir'["newspeak"] = dir[Stage] /\ dir[Stage].state = "whole"
    BY <1>1, <1>8, <2>1, <2>3, SwapEffect DEF Brought
  <2> QED
    BY <2>4
<1>9. CASE Get \/ Get2 \/ Cache \/ Select \/ UNCHANGED vars
             \/ \E o \in Object : PublishBody(o) \/ PublishSignature(o)
  <2>1. dir' = dir
    BY <1>9 DEF Get, Get2, Cache, Select, vars, PublishBody, PublishSignature, dir
  <2>2. op.kind = "tree" /\ op.pc # "recover"
    BY <1>1, <1>3, <1>9
       DEF Get, Get2, Cache, Select, vars, PublishBody, PublishSignature, At, OpType
  <2> QED
    BY <1>2, <2>1, <2>2
<1>10. CASE PersistLock \/ Install \/ Bind \/ Fail \/ Kill \/ Cut
  BY <1>1, <1>3, <1>10 DEF PersistLock, Install, Bind, Fail, Kill, Cut, Goto, At, OpType, Course
<1> QED
  BY <1>4, <1>5, <1>6, <1>7, <1>8, <1>9, <1>10 DEF Next, Step

\* Every step leaves the disk as the next one expects it.
LEMMA GroundKept ==
  ASSUME Types, Types', Shape, Course', Fetched', Brought, \A f \in past : Sound(f), [Next]_vars
  PROVE  Ground'
<1>1. op \in OpType /\ op' \in OpType /\ Course /\ Sound(files) /\ "newspeak" \in Object
  BY NameFacts DEF Types, Shape
<1>2. op' = Idle => op'.kind = "none" /\ op'.pc = "idle"
  BY DEF Idle
<1>3. op'.kind = "sync" => op' # Idle
  BY DEF Idle
<1>4. ASSUME op'.kind = "sync", op'.pc \in Exchanging
      PROVE  Offering' # {}
  <2>1. /\ op'.got = op.got /\ op.kind = "sync" /\ op.pc \in Exchanging \cup {"select"}
        /\ op.pc = "select" => Selected # NoLock
    <3>1. ~Start /\ ~Get /\ ~Get2 /\ ~Cache /\ ~Install
      <4>1. Start => op'.pc \in {"recover", "get", "cache"}
        BY DEF Start, StartTree, StartSync, StartRefresh, Begin, Idle
      <4>2. Get \/ Cache \/ Install => op'.pc \in {"get2", "select", "idle", "cache", "get"}
        BY <1>1, <1>2 DEF Get, Cache, Install, OpType
      <4>3. Get2 => op'.pc \in {"idle", "get", "select"}
        <5>1. Get2 => op' = Idle \/ (op'.kind = op.kind
                                    /\ op'.pc \in {"get", IF op.kind = "sync" THEN "select" ELSE "make"})
          BY <1>1 DEF Get2, OpType
        <5> QED
          BY <1>2, <1>4, <5>1
      <4> QED
        BY <1>4, <4>1, <4>2, <4>3 DEF Exchanging
    <3> QED
      BY <1>3, <1>4, <3>1, OpSteps
  <2>2. Offering # {}
    <3>1. CASE op.pc = "select"
      BY <1>1, <2>1, <3>1, SelectedTyped
    <3>2. CASE op.pc \in Exchanging
      BY <2>1, <3>2 DEF Shape, Ground
    <3> QED
      BY <2>1, <3>1, <3>2
  <2> QED
    BY <1>4, <2>1, <2>2, TreeUntouched, SelectionStays
<1>5. ASSUME op'.kind = "sync"
      PROVE  dir'["newspeak"].state = "whole"
  <2>1. dir'["newspeak"] = dir["newspeak"]
    BY <1>5, TreeUntouched
  <2>2. op.kind = "sync" \/ dir["newspeak"].state # "absent"
    <3>1. CASE Start
      BY <1>5, <3>1 DEF Start, StartTree, StartSync, StartRefresh, Begin, Idle
    <3>2. CASE Get \/ Get2 \/ Cache \/ Install
      BY <1>1, <1>3, <1>5, <3>2 DEF Get, Get2, Cache, Install, OpType
    <3>3. CASE ~Start /\ ~Get /\ ~Get2 /\ ~Cache /\ ~Install
      BY <1>3, <1>5, <3>3, OpSteps
    <3> QED
      BY <3>1, <3>2, <3>3
  <2>3. op.kind = "sync" => dir["newspeak"].state = "whole"
    BY DEF Shape, Ground
  <2>4. dir["newspeak"].state \in {"absent", "whole"}
    BY <1>1 DEF Sound, dir
  <2> QED
    BY <2>1, <2>2, <2>3, <2>4
<1>6. ASSUME op'.kind = "sync", op'.pc \in {"select", "lock", "install", "bind"} \cup Exchanging,
             NEW c \in Channel
      PROVE  Matches(op'.got[c])
  <2>1. CASE Get2
    <3>1. op.pc = "get2" /\ ~op.offline /\ op'.offline = op.offline /\ op'.pc = "select"
      BY <1>1, <1>3, <1>6, <2>1 DEF Get2, At, Course, Online, OpType, Exchanging
    <3>2. c \in Pending' /\ Doubtful' = {}
      BY <1>6, <3>1 DEF Course, Doubtful
    <3>3. op'.got[c] # NoPair /\ c \in Object
      BY <3>1, <3>2, NameFacts DEF Fetched
    <3> QED
      BY <3>1, <3>2, <3>3 DEF Fetched, Fit
  <2>2. CASE Cache
    <3>1. /\ Matches(dir[c].pair) /\ c \in Object
          /\ op'.got = [o \in Object |-> IF o \in Channel THEN dir[o].pair ELSE NoPair]
      BY <1>1, <1>3, <1>6, <2>2, NameFacts DEF Cache, OpType
    <3> QED
      BY <1>6, <3>1
  <2>3. CASE Start \/ Get \/ Install
    <3>1. Start => op'.pc \in {"recover", "get", "cache"}
      BY DEF Start, StartTree, StartSync, StartRefresh, Begin, Idle
    <3>2. Get \/ Install => op'.pc \in {"get2", "cache", "get"}
      BY <1>1 DEF Get, Install, OpType
    <3> QED
      BY <1>6, <2>3, <3>1, <3>2 DEF Exchanging
  <2>4. CASE ~Start /\ ~Get /\ ~Get2 /\ ~Cache /\ ~Install
    <3>1. op.kind = "sync" /\ op'.got = op.got
          /\ op.pc \in {"select", "lock", "install", "bind"} \cup Exchanging
      BY <1>3, <1>6, <2>4, OpSteps
    <3> QED
      BY <1>6, <3>1 DEF Shape, Ground
  <2> QED
    BY <2>1, <2>2, <2>3, <2>4
<1> QED
  BY <1>4, <1>5, <1>6, RepairKept, TemporaryKept DEF Ground

-----------------------------------------------------------------------------
\* What was downloaded is still to be exchanged, or in use.
LEMMA BroughtKept ==
  ASSUME Types, Types', Shape, Course', Fetched, Brought, Sound(files), [Next]_vars
  PROVE  Brought'
<1> DEFINE All == \A o \in Object : op.got[o] # NoPair => o \in Pending \/ InUse(o)
           Coming == /\ op.pc \in Exchanging \cup {"lock", "install", "bind"} /\ ~op.offline
                     /\ op.kind = "sync" => Offering # {}
<1>1. op \in OpType /\ Course /\ op.got \in [Object -> Pair] /\ Object \subseteq Slot
  BY NameFacts DEF Types, OpType, Shape
<1>2. op' = Idle => Brought'
  BY DEF Brought, Idle, Exchanging
<1>3. ASSUME op' # Idle, op' = op \/ \E at : op' = [op EXCEPT !.pc = at], Coming'
      PROVE  /\ op'.got = op.got /\ Pending' = Pending /\ op'.ready = op.ready
             /\ op'.kind = op.kind /\ op'.offline = op.offline /\ Stage' = Stage
             /\ op.kind = "sync" => Offering # {}
  <2>1. /\ op'.got = op.got /\ Pending' = Pending /\ op'.ready = op.ready
        /\ op'.kind = op.kind /\ op'.offline = op.offline
    BY <1>1, <1>3, Onwards DEF Pending
  <2>2. op.kind = "sync" => Offering' = Offering
    BY <2>1, TreeUntouched, SelectionStays
  <2> QED
    BY <1>3, <2>1, <2>2 DEF Stage
<1>4. ASSUME op' # Idle, op' = op \/ \E at : op' = [op EXCEPT !.pc = at],
             op.pc \in Exchanging \cup {"lock", "install", "bind"},
             \A o \in Object : o \in Pending \/ dir'[o] = dir[o]
      PROVE  Coming' => All'
  <2>1. CASE ~Coming'
    BY <2>1
  <2>2. CASE Coming'
    BY <1>3, <1>4, <2>2 DEF Brought, InUse
  <2> QED
    BY <2>1, <2>2
<1>5. ASSUME op.pc \in Exchanging
      PROVE  /\ Head(op.ready) \in Object /\ Head(op.ready) \in Pending
             /\ Stage \in Slot \ Object
  <2>1. op.ready # <<>> /\ op.ready \in Seq(Object)
    BY <1>1, <1>5 DEF Course, OpType
  <2> QED
    BY <2>1, HeadTailProperties, TailRange, NameFacts DEF Pending
<1> HIDE DEF All, Coming
<1>6. CASE Make
  <2>1. op.pc = "make" /\ op' = [op EXCEPT !.pc = "settle"] /\ op.pc \in Exchanging
    BY <1>6 DEF Make, At, Goto, Exchanging
  <2>2. /\ op'.pc = "settle" /\ op'.got = op.got /\ op'.ready = op.ready /\ Stage' = Stage
        /\ op' # Idle
    BY <1>1, <2>1, Onwards DEF Stage, Idle
  <2>3. dir'[Stage] = [pair |-> op.got[Head(op.ready)], state |-> "written"]
    BY <1>5, <1>6, <2>1, MakeEffect
  <2>4. \A o \in Object : dir'[o] = dir[o]
    BY <1>1, <1>5, <1>6, <2>1, MakeEffect
  <2>5. Coming' => All'
    BY <1>4, <2>1, <2>2, <2>4
  <2> QED
    BY <2>2, <2>3, <2>5 DEF Brought, All, Coming
<1>7. CASE Settle
  <2>1. /\ op.pc = "settle" /\ op.pc \in Exchanging
        /\ op' = [op EXCEPT !.pc = IF op.kind = "tree" THEN "drop" ELSE "swap"]
    BY <1>7 DEF Settle, At, Goto, Exchanging
  <2>2. /\ op'.pc \in {"drop", "swap"} /\ op'.got = op.got /\ op'.ready = op.ready
        /\ Stage' = Stage /\ op' # Idle
    BY <1>1, <2>1, Onwards DEF Stage, Idle
  <2>3. dir[Stage].pair = op.got[Head(op.ready)]
    BY <2>1 DEF Brought
  <2>4. dir'[Stage] = [pair |-> op.got[Head(op.ready)], state |-> "whole"]
    BY <1>5, <1>7, <2>1, <2>3, SettleEffect
  <2>5. \A o \in Object : dir'[o] = dir[o]
    BY <1>1, <1>5, <1>7, <2>1, SettleEffect
  <2>6. Coming' => All'
    BY <1>4, <2>1, <2>2, <2>5
  <2> QED
    BY <2>2, <2>4, <2>6 DEF Brought, All, Coming
<1>8. CASE Drop
  <2>1. PICK at \in {"drop", "swap"} : op' = [op EXCEPT !.pc = at]
    BY <1>8 DEF Drop, Goto
  <2>2. op.pc = "drop" /\ op.pc \in Exchanging /\ op.kind = "tree"
    BY <1>1, <1>8 DEF Drop, At, Exchanging, Course
  <2>3. /\ op'.pc \in {"drop", "swap"} /\ op'.got = op.got /\ op'.ready = op.ready
        /\ Stage' = Stage /\ op' # Idle
    BY <1>1, <2>1, Onwards DEF Stage, Idle
  <2>4. dir'[Stage] = dir[Stage] /\ \A o \in Object : dir'[o] = dir[o]
    BY <1>1, <1>8, <2>2, DropEffect, NameFacts DEF Stage
  <2>5. dir[Stage] = [pair |-> op.got[Head(op.ready)], state |-> "whole"]
    BY <2>2 DEF Brought
  <2>6. Coming' => All'
    BY <1>4, <2>1, <2>2, <2>3, <2>4
  <2> QED
    BY <2>3, <2>4, <2>5, <2>6 DEF Brought, All, Coming
<1>9. CASE Swap
  <2>1. op.pc = "swap" /\ op' = [op EXCEPT !.pc = "tidy"] /\ op.pc \in Exchanging
    BY <1>9 DEF Swap, At, Goto, Exchanging
  <2>2. /\ op'.pc = "tidy" /\ op'.got = op.got /\ op'.ready = op.ready /\ op' # Idle
    BY <1>1, <2>1, Onwards DEF Idle
  <2>3. dir[Stage] = [pair |-> op.got[Head(op.ready)], state |-> "whole"]
    BY <2>1 DEF Brought
  <2>4. dir'[Head(op.ready)] = dir[Stage]
    BY <1>1, <1>5, <1>9, <2>1, SwapEffect
  <2>5. \A o \in Object : o \in Pending \/ dir'[o] = dir[o]
    BY <1>1, <1>5, <1>9, <2>1, SwapEffect
  <2>6. Coming' => All'
    BY <1>4, <2>1, <2>2, <2>5
  <2> QED
    BY <2>2, <2>3, <2>4, <2>6 DEF Brought, All, Coming, InUse
<1>10. CASE Tidy
  <2>1. op.pc = "tidy" /\ op' = [op EXCEPT !.pc = "seal"] /\ op.pc \in Exchanging
    BY <1>10 DEF Tidy, At, Goto, Exchanging
  <2>2. /\ op'.pc = "seal" /\ op'.got = op.got /\ op'.ready = op.ready /\ op' # Idle
    BY <1>1, <2>1, Onwards DEF Idle
  <2>3. \A o \in Object : dir'[o] = dir[o]
    BY <1>1, <1>5, <1>10, <2>1, TidyEffect
  <2>4. InUse(Head(op.ready))
    BY <2>1 DEF Brought
  <2>5. Coming' => All'
    BY <1>4, <2>1, <2>2, <2>3
  <2> QED
    BY <1>5, <2>1, <2>2, <2>3, <2>4, <2>5 DEF Brought, All, Coming, InUse
<1>11. CASE Seal
  <2>1. CASE op' = Idle
    BY <1>2, <2>1
  <2>2. CASE op' # Idle
    <3>1. op.pc = "seal" /\ op.pc \in Exchanging /\ op.ready # <<>> /\ op.ready \in Seq(Object)
      BY <1>1, <1>11 DEF Seal, At, Course, Exchanging, OpType
    <3>2. /\ op'.ready = Tail(op.ready) /\ op'.got = op.got /\ op'.pc \in {"lock", "make"}
          /\ op'.kind = op.kind /\ op'.offline = op.offline
      BY <1>1, <1>11, <2>2 DEF Seal, OpType
    <3>3. Pending = {Head(op.ready)} \cup Pending'
      BY <3>1, <3>2, TailRange DEF Pending
    <3>4. \A o \in Object : dir'[o] = dir[o]
      BY <1>1, <1>11, SealEffect, NameFacts
    <3>5. InUse(Head(op.ready))
      BY <3>1 DEF Brought
    <3>6. Coming' => All
      <4>1. op.kind = "sync" => Offering' = Offering
        BY <3>2, TreeUntouched, SelectionStays
      <4> QED
        BY <3>1, <3>2, <4>1 DEF Coming, All, Brought
    <3>7. All => All'
      BY <3>2, <3>3, <3>4, <3>5 DEF All, InUse
    <3> QED
      BY <3>2, <3>6, <3>7 DEF Brought, All, Coming
  <2> QED
    BY <2>1, <2>2
<1>12. CASE Get2
  <2>1. CASE op' = Idle
    BY <1>2, <2>1
  <2>2. CASE op' # Idle
    <3>1. /\ op.todo # <<>> /\ Head(op.todo) \in Object /\ ~op.offline /\ op.pc = "get2"
          /\ op.todo \in Seq(Object) /\ op.ready \in Seq(Object)
      BY <1>1, <1>12, HeadTailProperties DEF Get2, At, Course, Online, OpType
    <3>2. PICK h \in Object : h = Head(op.todo)
      BY <3>1
    <3>3. /\ op'.pc \in {"get", "select", "make"} /\ op'.ready = Append(op.ready, h)
          /\ \A o \in Object \ {h} : op'.got[o] = op.got[o]
      BY <1>1, <1>12, <2>2, <3>2 DEF Get2, OpType
    <3>4. Pending' = Pending \cup {h} /\ Doubtful = {h}
      BY <3>1, <3>2, <3>3, AppendRange DEF Pending, Doubtful
    <3>5. All'
      BY <3>1, <3>3, <3>4 DEF All, Fetched
    <3> QED
      BY <3>3, <3>5 DEF Brought, All, Coming
  <2> QED
    BY <2>1, <2>2
<1>13. CASE Select
  <2>1. CASE op' = Idle
    BY <1>2, <2>1
  <2>2. CASE op' # Idle
    <3>1. /\ op.pc = "select" /\ op'.pc \in {"lock", "make"} /\ op'.got = op.got
          /\ op'.offline = op.offline /\ op.kind = "sync" /\ op'.kind = "sync"
          /\ op'.pc = "make" => op'.ready = Order
          /\ op'.pc = "lock" => Selected = NoLock \/ op.offline
      <4>1. op.pc = "select" /\ op.kind = "sync"
        BY <1>1, <1>13 DEF Select, At, Course
      <4>2. op' = [op EXCEPT !.ready = IF Selected = NoLock \/ op.offline THEN <<>> ELSE Order,
                             !.pc = IF Selected = NoLock \/ op.offline THEN "lock" ELSE "make"]
        BY <1>13, <2>2 DEF Select
      <4>3. /\ op'.got = op.got /\ op'.offline = op.offline /\ op'.kind = op.kind
            /\ op'.ready = (IF Selected = NoLock \/ op.offline THEN <<>> ELSE Order)
            /\ op'.pc = (IF Selected = NoLock \/ op.offline THEN "lock" ELSE "make")
        BY <1>1, <4>2 DEF OpType
      <4> QED
        BY <4>1, <4>3
    <3>2. Selected = NoLock <=> Offering = {}
      BY <3>1, SelectedTyped
    <3>3. Offering' = Offering
      BY <3>1, TreeUntouched, SelectionStays
    <3>4. CASE op'.pc = "lock"
      BY <3>1, <3>2, <3>3, <3>4 DEF Brought, Exchanging
    <3>5. CASE op'.pc = "make"
      <4>1. Pending' = Channel /\ Pending \subseteq Channel
        BY <1>1, <3>1, <3>5, OrderFacts DEF Pending, Course
      <4>2. ~op.offline => All'
        BY <3>1, <4>1 DEF All, Fetched, Doubtful
      <4> QED
        BY <3>1, <3>5, <4>2 DEF Brought, All, Coming
    <3> QED
      BY <3>1, <3>4, <3>5
  <2> QED
    BY <2>1, <2>2
<1>14. CASE PersistLock
  <2>1. PICK at \in {"install", "bind"} : op' = [op EXCEPT !.pc = at] /\ op.pc = "lock"
    BY <1>14 DEF PersistLock, Goto, At
  <2>2. op'.pc \in {"install", "bind"} /\ op' # Idle
    BY <1>1, <2>1, Onwards DEF Idle
  <2>3. Coming' => All'
    BY <1>4, <1>14, <2>1, <2>2, PersistLockEffect
  <2> QED
    BY <2>2, <2>3 DEF Brought, All, Coming
<1>15. CASE Start \/ Recover \/ Purge \/ Get \/ Cache \/ Install
  <2>1. op'.pc \notin Exchanging \cup {"lock", "install", "bind"}
    <3>1. Start => op'.pc \in {"recover", "get", "cache"}
      BY DEF Start, StartTree, StartSync, StartRefresh, Begin, Idle
    <3>2. Idle.pc = "idle"
      BY DEF Idle
    <3>3. Recover \/ Purge \/ Get \/ Cache \/ Install
            => op'.pc \in {"purge", "get2", "select", "idle", "cache", "get"}
      BY <1>1, <3>2 DEF Recover, Purge, Goto, Get, Cache, Install, OpType
    <3> QED
      BY <1>15, <3>1, <3>3 DEF Exchanging
  <2> QED
    BY <2>1 DEF Brought, Exchanging
<1>16. CASE Bind \/ Fail \/ Kill \/ Cut
  BY <1>2, <1>16 DEF Bind, Fail, Kill, Cut
<1>17. CASE UNCHANGED vars \/ \E o \in Object : PublishBody(o) \/ PublishSignature(o)
  <2>1. op' = op /\ files' = files
    BY <1>17 DEF vars, PublishBody, PublishSignature
  <2>2. Stage' = Stage /\ Pending' = Pending /\ Offering' = Offering
    BY <2>1 DEF Stage, Pending, Offering, release, dir
  <2> QED
    BY <2>1, <2>2 DEF Brought, InUse, dir
<1> QED
  BY <1>6, <1>7, <1>8, <1>9, <1>10, <1>11, <1>12, <1>13, <1>14, <1>15, <1>16, <1>17
     DEF Next, Step

\* Nothing is installed before the lock that explains it.
LEMMA SealedKept ==
  ASSUME Types, Types', Shape, Course', Sealed, [Next]_vars
  PROVE  Sealed'
<1>1. op \in OpType /\ Course
  BY DEF Types, Shape
<1>2. ASSUME op' = op \/ \E at : op' = [op EXCEPT !.pc = at], op'.pc \in {"install", "bind"}
      PROVE  Selected' = Selected
  <2>1. op'.got = op.got /\ op'.kind = "sync"
    BY <1>1, <1>2, Onwards DEF Course
  <2> QED
    BY <2>1, TreeUntouched, SelectionStays
<1>3. CASE PersistLock
  <2>1. op' = [op EXCEPT !.pc = IF op.round = 1 THEN "install" ELSE "bind"]
    BY <1>3 DEF PersistLock, Goto
  <2>2. op'.pc \in {"install", "bind"}
    BY <1>1, <2>1, Onwards
  <2>3. Selected # NoLock => Selected \in files'.locks
    BY <1>3, PersistLockEffect
  <2> QED
    BY <1>2, <2>1, <2>2, <2>3 DEF Sealed
<1>4. CASE UNCHANGED vars \/ \E o \in Object : PublishBody(o) \/ PublishSignature(o)
  <2>1. op' = op /\ files' = files
    BY <1>4 DEF vars, PublishBody, PublishSignature
  <2> QED
    BY <1>2, <2>1 DEF Sealed
<1>5. CASE ~PersistLock /\ ~(UNCHANGED vars \/ \E o \in Object : PublishBody(o) \/ PublishSignature(o))
  <2>1. op'.pc \notin {"install", "bind"}
    <3>1. Idle.pc = "idle"
      BY DEF Idle
    <3>2. Start => op'.pc \in {"recover", "get", "cache"}
      BY DEF Start, StartTree, StartSync, StartRefresh, Begin, Idle
    <3>3. Recover \/ Purge \/ Make \/ Settle \/ Drop \/ Swap \/ Tidy
            => op'.pc \in {"idle", "purge", "get"} \cup Exchanging
      BY <1>1, <3>1
         DEF Recover, Purge, Make, Settle, Drop, Swap, Tidy, Goto, OpType, Exchanging
    <3>4. Get \/ Get2 \/ Cache \/ Install \/ Seal \/ Select
            => op'.pc \in {"idle", "get2", "get", "select", "make", "cache", "lock"}
      BY <1>1, <3>1 DEF Get, Get2, Cache, Install, Seal, Select, OpType
    <3>5. Bind \/ Fail \/ Kill \/ Cut => op'.pc = "idle"
      BY <3>1 DEF Bind, Fail, Kill, Cut
    <3> QED
      BY <1>5, <3>2, <3>3, <3>4, <3>5 DEF Next, Step, Exchanging
  <2> QED
    BY <2>1 DEF Sealed
<1> QED
  BY <1>3, <1>4, <1>5

-----------------------------------------------------------------------------
\* What ends a command tells it: every object it says it has is in use.
LEMMA ToldIsFit ==
  ASSUME Types, Shape, Fetched, Brought, Sound(files), [Next]_vars,
         NEW o \in Object, given'[o] # given[o]
  PROVE  given'[o] = op.got[o].body /\ Fit(o) /\ InUse(o) /\ (Seal \/ Bind)
<1>1. op \in OpType /\ Course /\ op.ready \in Seq(Object)
  BY DEF Types, OpType, Shape
<1>2. CASE Seal /\ op.kind # "sync" /\ Tail(op.ready) = <<>> /\ op.got[o] # NoPair
  <2>1. op.pc = "seal" /\ op.ready # <<>> /\ ~op.offline /\ op.pc \in Exchanging
    BY <1>1, <1>2 DEF Seal, At, Course, Exchanging, Online
  <2>2. Pending = {Head(op.ready)} /\ Doubtful = {}
    BY <1>1, <1>2, <2>1, TailRange, EmptyRange DEF Pending, Doubtful
  <2>3. Fit(o)
    BY <1>2, <2>1, <2>2 DEF Fetched
  <2>4. InUse(o)
    BY <1>2, <2>1, <2>2 DEF Brought
  <2> QED
    BY <1>2, <2>3, <2>4, GivenSteps
<1>3. CASE Bind /\ o \in Channel /\ Selected # NoLock /\ ~op.offline
  <2>1. op.pc = "bind" /\ op.kind = "sync" /\ op.ready = <<>>
    BY <1>1, <1>3 DEF Bind, At, Course
  <2>2. Pending = {} /\ Doubtful = {}
    BY <2>1, EmptyRange DEF Pending, Doubtful
  <2>3. Offering # {} /\ Matches(op.got[o])
    BY <1>3, <2>1, SelectedTyped DEF Shape, Ground
  <2>4. op.got[o] # NoPair
    BY <2>3, PairFacts DEF Types, OpType
  <2>5. Fit(o)
    BY <1>3, <2>2, <2>4 DEF Fetched
  <2>6. InUse(o)
    BY <1>3, <2>1, <2>2, <2>3, <2>4 DEF Brought
  <2> QED
    BY <1>3, <2>5, <2>6, GivenSteps
<1> QED
  BY <1>2, <1>3, GivenSteps

\* What a machine was told it has the site has signed.
LEMMA SiteGoesOnKept ==
  ASSUME Types, Types', Shape, SiteGoesOn, Fetched, Brought, Sound(files), [Next]_vars
  PROVE  SiteGoesOn'
<1> SUFFICES ASSUME NEW o \in Object
             PROVE  given'[o] <= site'[o].sig
  BY SiteKept DEF SiteGoesOn
<1>1. /\ site[o].sig \in Int /\ site'[o].sig \in Int /\ given[o] \in Int
      /\ op.got[o].sig \in Int /\ op.got[o].body \in Int
  BY PairFacts, UpdatesAssumption DEF Types, OpType
<1>2. site[o].sig <= site'[o].sig /\ given[o] <= site[o].sig
  BY SiteKept DEF SiteGoesOn
<1>3. CASE given'[o] = given[o]
  BY <1>1, <1>2, <1>3
<1>4. CASE given'[o] # given[o]
  <2>1. given'[o] = op.got[o].body /\ Fit(o)
    BY <1>4, ToldIsFit
  <2>2. op.got[o].body = op.got[o].sig /\ op.got[o].sig <= site[o].sig
    BY <2>1 DEF Fit, Matches
  <2> QED
    BY <1>1, <1>2, <2>1, <2>2
<1> QED
  BY <1>3, <1>4

\* What is sound depends on the names in use and the older tree, the locks and the record.
LEMMA SoundSame ==
  ASSUME NEW f, NEW g, Sound(f),
         \A o \in Object \cup {"anterior"} : g.dir[o] = f.dir[o],
         f.locks \subseteq g.locks,
         g.record.lock = f.record.lock, g.record.print = f.record.print
  PROVE  Sound(g)
<1>1. "newspeak" \in Object
  BY NameFacts
<1>2. \A o \in Object : g.dir[o] = f.dir[o]
  OBVIOUS
<1>3. g.dir["anterior"] = f.dir["anterior"]
  OBVIOUS
<1> HIDE DEF Object
<1> QED
  BY <1>1, <1>2, <1>3 DEF Sound

\* Every step but the last of a publication or of a sync leaves a sound disk.
LEMMA StepIsSound ==
  ASSUME Types, Shape, Fetched, Brought, Sealed, \A f \in past : Sound(f), [Next]_vars
  PROVE  Sound(files')
<1>1. /\ op \in OpType /\ Course /\ Sound(files) /\ Object \subseteq Slot
      /\ {"newspeak", "anterior"} \subseteq Slot /\ "newspeak" \in Object
      /\ NoDir.state = "absent" /\ "anterior" \notin Object
  BY NameFacts DEF Types, Shape, NoDir
<1>2. op.pc # "idle" => op.kind \in {"tree", "refresh", "sync"}
  BY <1>1 DEF Course, Idle, OpType
<1>3. \A f \in FilesType : f.record.lock \in Lock0
  BY FilesFacts
<1>4. Stage \in Slot \ Object /\ Stage # "anterior"
  BY NameFacts DEF Stage
<1>5. ASSUME \A t \in Slot : t \in Object \cup {"anterior"} => dir'[t] = dir[t],
             files.locks \subseteq files'.locks,
             files'.record.lock = files.record.lock, files'.record.print = files.record.print
      PROVE  Sound(files')
  <2>1. \A t \in Object \cup {"anterior"} : files'.dir[t] = files.dir[t]
    BY <1>1, <1>5 DEF dir
  <2> QED
    BY <1>1, <1>5, <2>1, SoundSame
<1>6. CASE Recover
  <2>1. CASE UNCHANGED files
    BY <1>1, <2>1
  <2>2. CASE /\ dir["newspeak"].state = "absent"
             /\ \A t \in Slot : dir'[t] = IF t = "newspeak" THEN dir["anterior"]
                                         ELSE IF t = "anterior" THEN NoDir ELSE dir[t]
             /\ files'.locks = files.locks /\ files'.record = files.record
    <3>1. /\ dir'["newspeak"] = dir["anterior"] /\ dir'["anterior"] = NoDir
          /\ \A o \in Object \ {"newspeak"} : dir'[o] = dir[o]
      BY <1>1, <2>2
    <3> QED
      BY <1>1, <2>2, <3>1 DEF Sound, dir
  <2> QED
    BY <1>6, <2>1, <2>2, RecoverEffect
<1>7. CASE Purge \/ Make \/ Settle \/ Tidy \/ Seal \/ Kill
  <2>1. \A t \in Slot : t \in Object \cup {"anterior"} => dir'[t] = dir[t]
    BY <1>1, <1>4, <1>7, NameFacts, PurgeEffect, MakeEffect, SettleEffect, TidyEffect,
       SealEffect, KillEffect
  <2>2. files'.locks = files.locks /\ files'.record = files.record
    BY <1>7, PurgeEffect, MakeEffect, SettleEffect, TidyEffect, SealEffect, KillEffect
  <2> QED
    BY <1>5, <2>1, <2>2
<1>8. CASE Fail
  <2>1. CASE UNCHANGED files
    BY <1>1, <2>1
  <2>2. CASE /\ \A t \in Slot : dir'[t] = IF t = Stage THEN NoDir ELSE dir[t]
             /\ files'.locks = files.locks /\ files'.record = files.record
    BY <1>4, <1>5, <2>2
  <2> QED
    BY <1>8, <2>1, <2>2, FailEffect
<1>9. CASE Drop
  <2>1. dir["newspeak"].state = "absent" => dir["anterior"].state = "absent"
    BY <1>1, <1>9 DEF Drop, At, Course, Shape, Ground
  <2>2. /\ \A o \in Object : dir'[o] = dir[o]
        /\ dir["anterior"].state = "absent" => dir'["anterior"] = NoDir
        /\ files'.locks = files.locks /\ files'.record = files.record
    BY <1>1, <1>9, DropEffect
  <2> QED
    BY <1>1, <2>1, <2>2 DEF Sound, dir
<1>10. CASE Swap
  <2>1. op.pc = "swap" /\ op.pc \in Exchanging /\ op.ready # <<>> /\ ~op.offline
        /\ op.ready \in Seq(Object)
    BY <1>1, <1>10 DEF Swap, At, Course, Exchanging, Online, OpType
  <2>2. PICK h \in Object : h = Head(op.ready)
    BY <1>10, SwapEffect
  <2>3. h \in Pending /\ Doubtful = {}
    BY <2>1, <2>2, TailRange DEF Pending, Doubtful
  <2>4. Fit(h)
    BY <2>1, <2>3 DEF Fetched
  <2>5. dir'[h] = [pair |-> op.got[h], state |-> "whole"]
    BY <1>1, <1>10, <2>1, <2>2, SwapEffect DEF Brought
  <2>6. /\ \A o \in Object \ {h} : dir'[o] = dir[o]
        /\ dir'["anterior"] = dir["anterior"]
        /\ files'.locks = files.locks /\ files'.record = files.record
    BY <1>1, <1>4, <1>10, <2>2, SwapEffect
  <2> QED
    BY <1>1, <2>4, <2>5, <2>6 DEF Sound, Fit, dir
<1>11. CASE PersistLock
  BY <1>5, <1>11, PersistLockEffect
<1>12. CASE Install
  <2>1. Selected # NoLock => Selected \in files.locks /\ Selected.print = Fingerprint[release]
    BY <1>12 DEF Install, At, Sealed, Selected
  <2>2. CASE files'.record = files.record
    BY <1>5, <1>12, <2>2, InstallEffect
  <2>3. CASE files'.record = [print |-> Fingerprint[release], lock |-> Selected, bound |-> FALSE]
    <3>1. files'.dir = files.dir /\ files'.locks = files.locks
      BY <1>12, InstallEffect DEF dir
    <3>2. files'.record.lock # NoLock =>
            files'.record.lock \in files'.locks /\ files'.record.lock.print = files'.record.print
      BY <2>1, <2>3, <3>1
    <3> QED
      BY <1>1, <3>1, <3>2 DEF Sound
  <2> QED
    BY <1>12, <2>2, <2>3, InstallEffect
<1>13. CASE Bind
  BY <1>5, <1>13, BindEffect
<1>14. CASE Cut
  <2>1. PICK f \in past :
           /\ \A t \in Slot : dir'[t] = IF t = "temp" THEN NoDir
                                        ELSE IF f.dir[t].state = "written"
                                             THEN [pair |-> f.dir[t].pair, state |-> "partial"]
                                             ELSE f.dir[t]
           /\ files'.locks = f.locks /\ files'.record = f.record
    BY <1>14, CutEffect
  <2>2. Sound(f)
    OBVIOUS
  <2>3. \A o \in Object : dir'[o] = f.dir[o]
    BY <1>1, <2>1, <2>2, NameFacts DEF Sound
  <2>4. f.dir["newspeak"].state = "absent" => dir'["anterior"] = f.dir["anterior"]
    BY <1>1, <2>1, <2>2, NameFacts DEF Sound
  <2> QED
    BY <1>1, <2>1, <2>2, <2>3, <2>4 DEF Sound, dir
<1>15. CASE Start \/ Get \/ Get2 \/ Cache \/ Select \/ UNCHANGED vars
             \/ \E o \in Object : PublishBody(o) \/ PublishSignature(o)
  <2>1. files' = files
    BY <1>15 DEF Start, StartTree, StartSync, StartRefresh, Begin, Get, Get2, Cache, Select,
                 vars, PublishBody, PublishSignature
  <2> QED
    BY <1>1, <2>1
<1> QED
  BY <1>6, <1>7, <1>8, <1>9, <1>10, <1>11, <1>12, <1>13, <1>14, <1>15 DEF Next, Step

\* A step adds at most its own result to the past; the end of a command forgets the rest.
LEMMA PastSteps ==
  ASSUME Types, [Next]_vars
  PROVE  past' \subseteq past \cup {files'} /\ (Seal \/ Bind => past' = {files'})
<1>1. Seal \/ Bind => past' = {files'}
  BY DEF Seal, Bind, Commit
<1> SUFFICES past' \subseteq past \cup {files'}
  BY <1>1
<1>2. ASSUME NEW f, Change(f) \/ Commit(f)
      PROVE  past' \subseteq past \cup {files'}
  BY <1>2, ChangeFacts
<1>3. CASE Seal \/ Bind
  BY <1>1, <1>3
<1>4. CASE Recover \/ Purge \/ Make \/ Settle \/ Drop \/ Swap \/ Tidy \/ PersistLock \/ Install
             \/ Fail
  <2>1. past' = past \/ \E f : Change(f) \/ Commit(f)
    BY <1>4 DEF Recover, Purge, Make, Settle, Drop, Swap, Tidy, PersistLock, Install, Fail
  <2> QED
    BY <1>2, <2>1
<1>5. CASE Kill \/ Cut
  BY <1>5 DEF Kill, Cut
<1>6. CASE Start \/ Get \/ Get2 \/ Cache \/ Select \/ UNCHANGED vars
             \/ \E o \in Object : PublishBody(o) \/ PublishSignature(o)
  BY <1>6 DEF Start, StartTree, StartSync, StartRefresh, Begin, Get, Get2, Cache, Select,
              vars, PublishBody, PublishSignature
<1> QED
  BY <1>3, <1>4, <1>5, <1>6 DEF Next, Step

\* Every past stays sound, also for what the machine is told at the end.
LEMMA SoundKept ==
  ASSUME Types, Types', Shape, Fetched, Brought, Sealed, \A f \in past : Sound(f), [Next]_vars
  PROVE  \A f \in past' : Sound(f)'
<1>1. \A f \in past' : Sound(f)
  <2>1. Sound(files')
    BY StepIsSound
  <2> QED
    BY <2>1, PastSteps
<1>2. CASE \A o \in Object : given'[o] = given[o]
  BY <1>1, <1>2 DEF Sound
<1>3. CASE ~ \A o \in Object : given'[o] = given[o]
  <2>1. PICK u \in Object : given'[u] # given[u]
    BY <1>3
  <2>2. Sound(files)
    BY DEF Types
  <2>3. Seal \/ Bind
    BY <2>1, <2>2, ToldIsFit
  <2>4. past' = {files'} /\ Sound(files')
    BY <1>1, <2>3, PastSteps
  <2>5. \A o \in Object : dir'[o] = dir[o]
    BY <2>3, SealEffect, BindEffect, NameFacts
  <2>6. ASSUME NEW o \in Object, given'[o] # given[o]
        PROVE  dir'[o].state = "whole" /\ dir'[o].pair.body >= given'[o]
    <3>1. given'[o] = op.got[o].body /\ InUse(o) /\ op.got[o].body \in Int
      BY <2>2, <2>6, ToldIsFit, PairFacts DEF Types, OpType
    <3>2. dir'[o] = [pair |-> op.got[o], state |-> "whole"]
      BY <2>5, <3>1 DEF InUse
    <3> QED
      BY <3>1, <3>2
  <2>7. PICK g \in past' : g = files'
    BY <2>4
  <2>8. Sound(g)'
    <3>1. \A o \in Object : given'[o] # given[o] =>
            g.dir[o].state = "whole" /\ g.dir[o].pair.body >= given'[o]
      BY <2>6, <2>7 DEF dir
    <3>2. Sound(g)
      BY <2>4, <2>7
    <3> QED
      BY <3>1, <3>2 DEF Sound
  <2> QED
    BY <2>4, <2>7, <2>8
<1> QED
  BY <1>2, <1>3

-----------------------------------------------------------------------------
\* A machine fresh from its media, or left by the older algorithm.
LEMMA InitIsSound == Init => IInv
<1> SUFFICES ASSUME Init
             PROVE  IInv
  OBVIOUS
<1> USE UpdatesAssumption
<1>1. /\ MaxRelease \in Nat \ {0} /\ given \in [Object -> {0, 1}] /\ past = {files}
      /\ op = Idle /\ troubles = 0
      /\ site = [o \in Object |-> [body |-> 1, sig |-> 1]]
  <2>1. \E r \in {0, 1} : given = [o \in Object |-> r]
    BY DEF Init, Seeds
  <2> QED
    BY <2>1 DEF Init
<1>2. Of(1) \in Dir /\ Of(1) = [pair |-> [body |-> 1, sig |-> 1], state |-> "whole"]
      /\ NoDir \in Dir /\ NoDir = [pair |-> NoPair, state |-> "absent"]
      /\ [Of(1) EXCEPT !.state = "partial"] \in Dir
  BY <1>1, PairFacts DEF Of, NoDir, Dir
<1>3. PICK old \in Leftovers :
        /\ given["newspeak"] = 0 => old.anterior = NoDir
        /\ files = [dir |-> [s \in Slot |->
                      CASE s = "newspeak" ->
                             IF given[s] = 0 \/ old.gone THEN NoDir ELSE Of(1)
                        [] s = "anterior" -> old.anterior
                        [] s = "novo" -> old.novo
                        [] s = "temp" -> NoDir
                        [] OTHER -> IF given[s] = 0 THEN NoDir ELSE Of(1)],
                    locks |-> {}, record |-> NoRecord]
  BY DEF Init
<1>4. /\ old.anterior \in Dir /\ old.novo \in Dir /\ old.gone \in BOOLEAN
      /\ old.gone => old.anterior = Of(1)
  <2> DEFINE broken == [Of(1) EXCEPT !.state = "partial"]
  <2>1. broken \in Dir /\ Of(1) \in Dir /\ NoDir \in Dir
    BY <1>2
  <2> HIDE DEF broken
  <2>2. old \in {[anterior |-> NoDir, novo |-> NoDir, gone |-> FALSE],
                 [anterior |-> Of(1), novo |-> Of(1), gone |-> TRUE],
                 [anterior |-> Of(1), novo |-> broken, gone |-> FALSE],
                 [anterior |-> broken, novo |-> NoDir, gone |-> FALSE]}
    BY <1>3 DEF Leftovers, broken
  <2> HIDE DEF Leftovers
  <2>3. /\ old.anterior \in {NoDir, Of(1), broken} /\ old.novo \in {NoDir, Of(1), broken}
        /\ old.gone \in BOOLEAN
        /\ old.gone => old.anterior = Of(1)
    <3>1. CASE old = [anterior |-> NoDir, novo |-> NoDir, gone |-> FALSE]
      BY <3>1
    <3>2. CASE old = [anterior |-> Of(1), novo |-> Of(1), gone |-> TRUE]
      BY <3>2
    <3>3. CASE old = [anterior |-> Of(1), novo |-> broken, gone |-> FALSE]
      BY <3>3
    <3>4. CASE old = [anterior |-> broken, novo |-> NoDir, gone |-> FALSE]
      BY <3>4
    <3> QED
      BY <2>2, <3>1, <3>2, <3>3, <3>4, Zenon
  <2> QED
    BY <2>1, <2>3
<1>5. /\ files.dir["newspeak"] = IF given["newspeak"] = 0 \/ old.gone THEN NoDir ELSE Of(1)
      /\ files.dir["anterior"] = old.anterior /\ files.dir["novo"] = old.novo
      /\ files.dir["temp"] = NoDir
      /\ \A c \in Channel : files.dir[c] = IF given[c] = 0 THEN NoDir ELSE Of(1)
      /\ files.locks = {} /\ files.record = NoRecord
  BY <1>3, NameFacts
<1>6. files \in FilesType
  <2>1. \A s \in Slot : files.dir[s] \in Dir
    BY <1>2, <1>4, <1>5 DEF Slot, Object
  <2>2. files.dir \in [Slot -> Dir]
    <3>1. files.dir = [s \in Slot |-> files.dir[s]]
      BY <1>3
    <3> QED
      BY <2>1, <3>1
  <2>3. NoRecord \in [print : Nat, lock : Lock0, bound : BOOLEAN]
    BY PairFacts DEF NoRecord
  <2>4. files = [dir |-> files.dir, locks |-> {}, record |-> NoRecord]
    BY <1>3
  <2> QED
    BY <2>2, <2>3, <2>4 DEF FilesType
<1>7. Types
  <2>1. site \in [Object -> Pair]
    BY <1>1 DEF Pair
  <2>2. given \in [Object -> 0 .. MaxRelease]
    BY <1>1
  <2> QED
    BY <1>1, <1>6, <2>1, <2>2, PairFacts DEF Types
<1>8. Shape
  <2>1. Course
    BY <1>1, EmptyRange DEF Course, Idle, Online, Exchanging, Listed, Pending
  <2>2. Ground
    BY <1>1, <1>5 DEF Ground, Idle, Exchanging, dir, NoDir
  <2> QED
    BY <2>1, <2>2 DEF Shape
<1>9. SiteGoesOn
  <2>1. \A o \in Object : site[o].sig = 1 /\ site[o].body = 1 /\ given[o] \in {0, 1}
    BY <1>1
  <2> QED
    BY <2>1 DEF SiteGoesOn
<1>10. Fetched
  BY <1>1, EmptyRange DEF Fetched, Idle, Doubtful, Pending
<1>11. Brought /\ Sealed
  BY <1>1 DEF Brought, Sealed, Idle, Exchanging
<1>12. Sound(files)
  <2>1. \A o \in Object : \/ files.dir[o] = NoDir /\ (given[o] = 0 \/ (o = "newspeak" /\ old.gone))
                          \/ files.dir[o] = Of(1) /\ given[o] \in {0, 1}
    BY <1>1, <1>5 DEF Object
  <2>2. /\ NoDir.state = "absent" /\ Of(1).state = "whole" /\ Matches(Of(1).pair)
        /\ Of(1).pair.body = 1
    BY <1>2 DEF Matches
  <2>3. old.gone => files.dir["anterior"] = Of(1)
    BY <1>4, <1>5
  <2>4. files.dir["newspeak"].state = "absent" => old.anterior \in {NoDir, Of(1)}
    <3>1. given["newspeak"] = 0 \/ old.gone \/ files.dir["newspeak"].state = "whole"
      BY <1>5, <2>2
    <3> QED
      BY <1>3, <1>4, <3>1
  <2>5. files.record.lock = NoLock
    BY <1>5 DEF NoRecord
  <2>6. \A o \in Object : given[o] \in {0, 1} /\ files.dir[o] \in {NoDir, Of(1)}
    BY <1>1, <2>1
  <2>7. \A o \in Object : /\ files.dir[o].state \in {"absent", "whole"}
                          /\ files.dir[o].state = "whole" => Matches(files.dir[o].pair)
    BY <2>2, <2>6
  <2>8. files.dir["newspeak"].state = "absent" =>
          /\ files.dir["anterior"].state \in {"absent", "whole"}
          /\ files.dir["anterior"].state = "whole" => Matches(files.dir["anterior"].pair)
    BY <1>5, <2>2, <2>4
  <2>9. ASSUME NEW o \in Object, given[o] # 0
        PROVE  \/ files.dir[o].state = "whole" /\ files.dir[o].pair.body >= given[o]
               \/ /\ o = "newspeak" /\ files.dir[o].state = "absent"
                  /\ files.dir["anterior"].state = "whole" /\ files.dir["anterior"].pair.body >= given[o]
    <3>1. given[o] = 1
      BY <2>6, <2>9
    <3>2. CASE files.dir[o] = Of(1)
      BY <2>2, <3>1, <3>2
    <3>3. CASE files.dir[o] = NoDir /\ o = "newspeak" /\ old.gone
      BY <2>2, <2>3, <3>1, <3>3
    <3> QED
      BY <2>1, <2>9, <3>2, <3>3
  <2> QED
    BY <2>5, <2>7, <2>8, <2>9 DEF Sound
<1> QED
  BY <1>1, <1>7, <1>8, <1>9, <1>10, <1>11, <1>12 DEF IInv

\* The invariant is inductive.
LEMMA IInvKept == IInv /\ [Next]_vars => IInv'
<1> SUFFICES ASSUME IInv, [Next]_vars
             PROVE  IInv'
  OBVIOUS
<1>1. /\ Types /\ Shape /\ SiteGoesOn /\ Fetched /\ Brought /\ Sealed
      /\ \A f \in past : Sound(f)
  BY DEF IInv
<1>2. Sound(files)
  BY <1>1 DEF Types
<1>3. Types'
  BY <1>1, <1>2, TypesKept
<1>4. Course'
  BY <1>1, CourseKept
<1>5. Fetched'
  BY <1>1, <1>3, <1>4, FetchedKept
<1>6. Ground'
  BY <1>1, <1>3, <1>4, <1>5, GroundKept
<1>7. Brought'
  BY <1>1, <1>2, <1>3, <1>4, BroughtKept
<1>8. Sealed'
  BY <1>1, <1>3, <1>4, SealedKept
<1>9. SiteGoesOn'
  BY <1>1, <1>2, <1>3, SiteGoesOnKept
<1>10. \A f \in past' : Sound(f)'
  BY <1>1, <1>3, SoundKept
<1> QED
  BY <1>3, <1>4, <1>5, <1>6, <1>7, <1>8, <1>9, <1>10 DEF IInv, Shape

\* The inductive invariant holds in every behaviour.
LEMMA Inductive == Spec => []IInv
BY InitIsSound, IInvKept, PTL DEF Spec

\* A command remembers nothing once it ends, the temporary of a channel lives only
\* during its exchange, and every value keeps its type (arvore.rs 150-412, channel.rs).
THEOREM Typed == Spec => []TypeOK
<1>1. IInv => TypeOK
  BY DEF IInv, Types, Shape, Course, Ground, TypeOK, FilesType, Lock0, Idle
<1> QED
  BY <1>1, Inductive, PTL

\* Whatever kill or power cut interrupts an exchange, a name in use is absent or one
\* whole release with its own signature, and of what the machine was given or was told
\* it has, it keeps that or something newer: of the tree, at worst under the name the
\* repair brings back without network.
THEOREM GenerationsKept == Spec => []GenerationsSurvive
<1>1. IInv => GenerationsSurvive
  <2> SUFFICES ASSUME IInv
               PROVE  GenerationsSurvive
    OBVIOUS
  <2>1. Sound(files)
    BY DEF IInv, Types
  <2> QED
    BY <2>1 DEF Sound, GenerationsSurvive, NamesAreWhole, NothingGivenIsLost, dir
<1> QED
  BY <1>1, Inductive, PTL

\* A record that came from a channel names a lock that is durably on the machine, made for
\* the recipe that was installed: no cut leaves a package whose selection no one can repeat.
THEOREM RecordsExplained == Spec => []RecordIsExplained
<1>1. IInv => RecordIsExplained
  BY DEF IInv, Types, Sound, RecordIsExplained
<1> QED
  BY <1>1, Inductive, PTL

\* Both hold as well of every state of the disk that a power cut may yet bring back.
THEOREM EveryPastIsSound == Spec => [](\A f \in past : Sound(f))
<1>1. IInv => \A f \in past : Sound(f)
  BY DEF IInv
<1> QED
  BY <1>1, Inductive, PTL

=============================================================================
