---------------------------- MODULE RemovalProofs ----------------------------
(***************************************************************************)
(* Theorems about what MCRemoval composes: what memoryhole keeps, for any  *)
(* packages, paths and lists of names, however often it dies (Removal);    *)
(* which defaults of /etc an installation puts in place, for any contents  *)
(* (Etc); and that those who judge a record agree, for any recipes, trees  *)
(* and successors (Records).                                               *)
(***************************************************************************)
EXTENDS MCRemoval, SequenceTheorems, TLAPS

IInv == TypeOK /\ Inductive

\* A run that is not idle works on the first of its names.
LEMMA NameType ==
  ASSUME TypeOK, run.next # "idle"
  PROVE  run.names # << >> /\ Name \in Package /\ Tail(run.names) \in Seq(Package)
BY DEF TypeOK, Name

\* What is left of a list of more than one name.
LEMMA LongerTail ==
  ASSUME NEW S, NEW s \in Seq(S), s # << >>, Len(s) # 1
  PROVE  Tail(s) # << >>
<1> DEFINE n == Len(s)
           m == Len(Tail(s))
<1>1. n \in Nat \ {0} /\ m = n - 1
  BY EmptySeq, HeadTailProperties
<1> HIDE DEF n, m
<1>2. n # 1
  BY DEF n
<1>3. m # 0
  BY <1>1, <1>2
<1> QED
  BY <1>3, EmptySeq DEF m

-----------------------------------------------------------------------------
(***************************************************************************)
(* Types                                                                   *)
(***************************************************************************)

LEMMA InitType == Init => TypeOK
BY RemovalAssumption DEF Init, TypeOK, Idle, Content, At

LEMMA InstallType ==
  ASSUME TypeOK, NEW p \in Package, NEW explicit \in BOOLEAN, Install(p, explicit)
  PROVE  TypeOK'
<1> DEFINE new == {x \in Payload[p] : x \in Dir \ Shared => root[x] = "absent"}
<1>1. new \subseteq Payload[p] /\ new \subseteq Path
  BY RemovalAssumption
<1>2. root' \in [Path -> Content]
  BY DEF Install, TypeOK, Content
<1>3. record' \in [Package -> SUBSET RecordFile]
  BY DEF Install, TypeOK
<1>4. claims' \in [Package -> SUBSET Path] /\ \A q \in Package : claims'[q] \subseteq Payload[q]
  BY <1>1 DEF Install, TypeOK
<1>5. world' \subseteq Package
  BY DEF Install, TypeOK
<1>6. run = Idle /\ run' = Idle /\ run'.left = {} /\ verdict' = "done"
  BY DEF Install, Idle
<1> QED
  BY <1>2, <1>3, <1>4, <1>5, <1>6 DEF TypeOK, At

\* Whatever changes neither claims nor names keeps a run well formed.
LEMMA EditType ==
  ASSUME TypeOK, NEW x \in Path, Edit(x)
  PROVE  TypeOK'
<1>1. root' \in [Path -> Content]
  BY DEF Edit, TypeOK, Content
<1> QED
  BY <1>1 DEF Edit, TypeOK, At, Name

LEMMA MemoryholeType ==
  ASSUME TypeOK, NEW names \in Requests, Memoryhole(names)
  PROVE  TypeOK'
<1>1. names \in Seq(Package) /\ names # << >>
  BY RemovalAssumption
<1>2. {names[i] : i \in DOMAIN names} \subseteq Package
  BY <1>1
<1>3. CASE Readable
  <2>1. run' = [names |-> names, removing |-> {names[i] : i \in DOMAIN names},
                next |-> "check", left |-> {}, kept |-> {}]
    BY <1>3 DEF Memoryhole, Idle
  <2> QED
    BY <1>1, <1>2, <1>3, <2>1 DEF Memoryhole, TypeOK, At, Name
<1>4. CASE ~Readable
  BY <1>4 DEF Memoryhole, TypeOK, At, Idle, Name
<1> QED
  BY <1>3, <1>4

LEMMA RefuseType ==
  ASSUME TypeOK, NEW why \in {"died", "no_record", "sustains", "no_meta"}, Refuse(why)
  PROVE  TypeOK'
BY DEF Refuse, TypeOK, At, Idle, Name

LEMMA JudgeType ==
  ASSUME TypeOK, Judge
  PROVE  TypeOK'
<1>1. run.next # "idle" /\ Name \in Package
  BY NameType DEF Judge, At
<1>2. claims[Name] \subseteq Path
  BY <1>1 DEF TypeOK
<1>3. run' = [run EXCEPT !.next = "paths", !.left = claims[Name],
                         !.kept = {c \in claims[Name] : Modified(c)}]
  BY DEF Judge
<1>4. run'.names = run.names /\ run'.left = claims[Name] /\ run'.next = "paths"
  BY <1>3 DEF TypeOK
<1>5. run' \in [names : Seq(Package), removing : SUBSET Package,
                next : {"idle", "check", "paths", "world"},
                left : SUBSET Path, kept : SUBSET Path]
  BY <1>2, <1>3 DEF TypeOK
<1> QED
  BY <1>1, <1>4, <1>5 DEF Judge, TypeOK, At, Name

LEMMA RemovePathType ==
  ASSUME TypeOK, NEW c \in Path, RemovePath(c)
  PROVE  TypeOK'
<1>1. root' \in [Path -> Content]
  BY DEF RemovePath, Without, TypeOK, Content
<1>2. run' = [run EXCEPT !.left = @ \ {c}]
  BY DEF RemovePath
<1>3. run'.names = run.names /\ run'.left = run.left \ {c} /\ run'.next = run.next
  BY <1>2 DEF TypeOK
<1>4. run' \in [names : Seq(Package), removing : SUBSET Package,
                next : {"idle", "check", "paths", "world"},
                left : SUBSET Path, kept : SUBSET Path]
  BY <1>2 DEF TypeOK
<1> QED
  BY <1>1, <1>3, <1>4 DEF RemovePath, TypeOK, At, Name

LEMMA EraseRecordType ==
  ASSUME TypeOK, NEW f \in RecordFile, EraseRecord(f)
  PROVE  TypeOK'
<1>1. Name \in Package /\ run.next = "paths" /\ run.left = {}
  BY NameType DEF EraseRecord, At
<1>2. record' \in [Package -> SUBSET RecordFile]
  BY <1>1 DEF EraseRecord, TypeOK
<1>3. run'.names = run.names /\ run'.left = {} /\ run'.next # "idle"
  BY <1>1 DEF EraseRecord, TypeOK
<1>4. run' \in [names : Seq(Package), removing : SUBSET Package,
                next : {"idle", "check", "paths", "world"},
                left : SUBSET Path, kept : SUBSET Path]
  BY DEF EraseRecord, TypeOK
<1> QED
  BY <1>1, <1>2, <1>3, <1>4 DEF EraseRecord, TypeOK, At, Name

LEMMA WorldRemoveType ==
  ASSUME TypeOK, WorldRemove
  PROVE  TypeOK'
<1>1. run.names # << >> /\ Tail(run.names) \in Seq(Package) /\ run.left = {}
  BY NameType DEF WorldRemove, At, TypeOK
<1>2. CASE Len(run.names) = 1
  <2>1. run' = Idle /\ verdict' = "done" /\ UNCHANGED <<root, record, claims>>
    BY <1>2 DEF WorldRemove
  <2>2. run' \in [names : Seq(Package), removing : SUBSET Package,
                  next : {"idle", "check", "paths", "world"},
                  left : SUBSET Path, kept : SUBSET Path]
    BY <2>1 DEF Idle
  <2>3. run'.names = << >> /\ run'.next = "idle" /\ run'.left = {}
    BY <2>1 DEF Idle
  <2>4. world' \subseteq Package
    BY DEF WorldRemove, TypeOK
  <2> QED
    BY <2>1, <2>2, <2>3, <2>4 DEF TypeOK
<1>3. CASE Len(run.names) # 1
  <2>1. run' = [run EXCEPT !.next = "check", !.names = Tail(@), !.kept = {}]
    BY <1>3 DEF WorldRemove
  <2>2. run'.names = Tail(run.names) /\ run'.left = {} /\ run'.next = "check"
    BY <1>1, <2>1 DEF TypeOK
  <2>3. Tail(run.names) # << >>
    BY <1>1, <1>3, LongerTail DEF TypeOK
  <2>4. run' \in [names : Seq(Package), removing : SUBSET Package,
                  next : {"idle", "check", "paths", "world"},
                  left : SUBSET Path, kept : SUBSET Path]
    BY <1>1, <2>1 DEF TypeOK
  <2> QED
    BY <1>3, <2>2, <2>3, <2>4 DEF WorldRemove, TypeOK
<1> QED
  BY <1>2, <1>3

LEMMA StutterType ==
  ASSUME TypeOK, UNCHANGED vars
  PROVE  TypeOK'
BY DEF vars, TypeOK, At, Name

LEMMA NextType ==
  ASSUME TypeOK, [Next]_vars
  PROVE  TypeOK'
<1>1. ASSUME NEW p \in Package, NEW explicit \in BOOLEAN, Install(p, explicit)
      PROVE TypeOK'
  BY <1>1, InstallType
<1>2. ASSUME NEW x \in Path, Edit(x) PROVE TypeOK'
  BY <1>2, EditType
<1>3. ASSUME NEW names \in Requests, Memoryhole(names) PROVE TypeOK'
  BY <1>3, MemoryholeType
<1>4. ASSUME Step PROVE TypeOK'
  <2>1. CASE NoRecord \/ Sustained \/ NoMeta
    BY <2>1, RefuseType DEF NoRecord, Sustained, NoMeta
  <2>2. CASE Judge
    BY <2>2, JudgeType
  <2>3. ASSUME NEW c \in Path, RemovePath(c) PROVE TypeOK'
    BY <2>3, RemovePathType
  <2>4. ASSUME NEW f \in RecordFile, EraseRecord(f) PROVE TypeOK'
    BY <2>4, EraseRecordType
  <2>5. CASE WorldRemove
    BY <2>5, WorldRemoveType
  <2> QED
    BY <1>4, <2>1, <2>2, <2>3, <2>4, <2>5 DEF Step
<1>5. CASE Crash
  BY <1>5, RefuseType DEF Crash
<1>6. CASE UNCHANGED vars
  BY <1>6, StutterType
<1> QED
  BY <1>1, <1>2, <1>3, <1>4, <1>5, <1>6 DEF Next

\* Every variable of a removal keeps its type, and a run remembers no more than
\* its names and its package's claims (install.rs:7575).
THEOREM RemovalTypeCorrect == Spec => []TypeOK
<1>1. Init => TypeOK
  BY InitType
<1>2. TypeOK /\ [Next]_vars => TypeOK'
  BY NextType
<1> QED
  BY <1>1, <1>2, PTL DEF Spec

-----------------------------------------------------------------------------
(***************************************************************************)
(* The inductive invariant                                                 *)
(***************************************************************************)

LEMMA InitInductive == Init => Inductive
BY RemovalAssumption DEF Init, Inductive, NoOrphanFile, At, Idle

\* Only the root, the records and the claims matter while no path is handled.
LEMMA OutsidePaths ==
  ASSUME Inductive, UNCHANGED <<root, record, claims>>, run'.next # "paths"
  PROVE  Inductive'
BY DEF Inductive, NoOrphanFile, Counts, At

LEMMA InstallInductive ==
  ASSUME IInv, NEW p \in Package, NEW explicit \in BOOLEAN, Install(p, explicit)
  PROVE  Inductive'
<1> DEFINE new == {x \in Payload[p] : x \in Dir \ Shared => root[x] = "absent"}
<1>1. run'.next # "paths"
  BY DEF Install, Idle
<1>2. \A x \in Path : root'[x] = IF x \in Payload[p] \ Dir THEN "file"
                      ELSE IF x \in Payload[p] \/ \E y \in Payload[p] : x \in Above[y]
                           THEN "dir" ELSE root[x]
  BY DEF Install
<1>3. \A x \in Dir : root'[x] \notin {"file", "edited"}
  BY <1>2, RemovalAssumption DEF IInv, Inductive
<1>4. Counts(p)' /\ claims'[p] = new
  BY DEF Install, Counts, RecordFile, IInv, TypeOK
<1>5. \A q \in Package \ {p} : (Counts(q) => Counts(q)') /\ claims'[q] = claims[q]
  BY DEF Install, Counts, IInv, TypeOK
<1>6. ASSUME NEW x \in Path, root'[x] = "file"
      PROVE  \E q \in Package : Counts(q)' /\ x \in claims'[q]
  <2>1. CASE x \in Payload[p] \ Dir
    <3>1. x \in new
      BY <2>1
    <3> QED
      BY <3>1, <1>4
  <2>2. CASE x \notin Payload[p] \ Dir
    <3>1. root[x] = "file"
      BY <1>2, <1>6, <2>2
    <3>2. PICK q \in Package : Counts(q) /\ x \in claims[q]
      BY <3>1 DEF IInv, Inductive, NoOrphanFile
    <3>3. q # p
      BY <3>2 DEF Install
    <3> QED
      BY <3>2, <3>3, <1>5
  <2> QED
    BY <2>1, <2>2
<1> QED
  BY <1>1, <1>3, <1>6 DEF Inductive, NoOrphanFile, At

LEMMA EditInductive ==
  ASSUME IInv, NEW x \in Path, Edit(x)
  PROVE  Inductive'
<1>1. run'.next # "paths" /\ UNCHANGED <<record, claims>>
  BY DEF Edit, Idle
<1>2. \A y \in Path : root'[y] = IF y = x THEN "edited" ELSE root[y]
  BY DEF Edit, IInv, TypeOK
<1>3. \A y \in Dir : root'[y] \notin {"file", "edited"}
  BY <1>2, RemovalAssumption DEF Edit, IInv, Inductive
<1>4. NoOrphanFile'
  BY <1>1, <1>2 DEF IInv, Inductive, NoOrphanFile, Counts
<1> QED
  BY <1>1, <1>3, <1>4 DEF Inductive, At

LEMMA MemoryholeInductive ==
  ASSUME IInv, NEW names \in Requests, Memoryhole(names)
  PROVE  Inductive'
<1>1. CASE Readable
  <2>1. run'.next = "check"
    BY <1>1 DEF Memoryhole, Idle
  <2> QED
    BY <2>1, OutsidePaths DEF Memoryhole, IInv
<1>2. CASE ~Readable
  <2>1. run'.next = "idle"
    BY <1>2 DEF Memoryhole, Idle
  <2> QED
    BY <2>1, OutsidePaths DEF Memoryhole, IInv
<1> QED
  BY <1>1, <1>2

LEMMA RefuseInductive ==
  ASSUME IInv, NEW why \in {"died", "no_record", "sustains", "no_meta"}, Refuse(why)
  PROVE  Inductive'
<1>1. run'.next # "paths"
  BY DEF Refuse, Idle
<1> QED
  BY <1>1, OutsidePaths DEF Refuse, IInv

LEMMA JudgeInductive ==
  ASSUME IInv, Judge
  PROVE  Inductive'
<1>1. /\ run'.next = "paths" /\ run'.left = claims[Name] /\ Name' = Name
      /\ run'.kept = {c \in claims[Name] : Modified(c)}
  BY DEF Judge, IInv, TypeOK, Name
<1>2. UNCHANGED <<root, record, claims>>
  BY DEF Judge
<1>3. claims[Name] \subseteq Path
  BY NameType DEF Judge, At, IInv, TypeOK
<1>4. \A c \in claims[Name] : root[c] = "edited" => Modified(c)
  BY <1>3, RemovalAssumption DEF IInv, Inductive, Modified
<1>5. NoOrphanFile' /\ \A x \in Dir : root'[x] \notin {"file", "edited"}
  BY <1>2 DEF IInv, Inductive, NoOrphanFile, Counts
<1>6. \A c \in run'.left : root'[c] = "edited" => c \in run'.kept
  BY <1>1, <1>2, <1>4
<1>7. \A c \in run'.kept : /\ c \in claims'[Name']
                           /\ c \notin Dir => root'[c] = "edited"
                           /\ c \in Dir => c \notin Shared /\ ~Empty(c)'
  BY <1>1, <1>2 DEF Modified, Empty
<1>8. claims'[Name'] \ run'.left = {}
  BY <1>1, <1>2
<1> QED
  BY <1>5, <1>6, <1>7, <1>8 DEF Inductive

\* What is below a directory comes before it, so that a directory that was left
\* alone for what is in it is never emptied by the same run.
LEMMA RemovePathInductive ==
  ASSUME IInv, NEW c \in Path, RemovePath(c)
  PROVE  Inductive'
<1>1. /\ run'.left = run.left \ {c} /\ run'.kept = run.kept
      /\ run'.next = "paths" /\ Name' = Name /\ UNCHANGED <<record, claims>>
  BY DEF RemovePath, At, IInv, TypeOK, Name
<1>2. Name \in Package /\ claims[Name] \subseteq Payload[Name] /\ claims[Name] \subseteq Path
  BY NameType DEF RemovePath, At, IInv, TypeOK
<1>3. c \in run.left /\ c \in claims[Name] /\ \A o \in run.left : Rank[o] <= Rank[c]
  BY DEF RemovePath, Turn, IInv, TypeOK
<1>4. root' \in [Path -> Content] /\ \A x \in Path \ {c} : root'[x] = root[x]
  BY DEF RemovePath, Without, IInv, TypeOK, Content
<1>5. root'[c] = root[c] \/ root'[c] = "absent"
  BY DEF RemovePath, Without, IInv, TypeOK
<1>6. /\ \A c1 \in run.left : root[c1] = "edited" => c1 \in run.kept
      /\ \A k \in run.kept : /\ k \in claims[Name]
                             /\ k \notin Dir => root[k] = "edited"
                             /\ k \in Dir => k \notin Shared /\ ~Empty(k)
      /\ \A d \in claims[Name] \ run.left :
           Settled(d) /\ \A o \in run.left : Rank[o] <= Rank[d]
  BY DEF RemovePath, IInv, Inductive
<1>7. \A x \in Dir : root'[x] \notin {"file", "edited"}
  BY <1>4, <1>5, RemovalAssumption DEF IInv, Inductive
<1>8. NoOrphanFile'
  <2>1. \A x \in Path : root'[x] = "file" => root[x] = "file"
    BY <1>4, <1>5
  <2> QED
    BY <1>1, <2>1 DEF IInv, Inductive, NoOrphanFile, Counts
<1>9. \A o \in run'.left : root'[o] = "edited" => o \in run'.kept
  BY <1>1, <1>2, <1>4, <1>6 DEF IInv, TypeOK
<1>10. ASSUME NEW d \in claims[Name] \cap Dir, ~Empty(d), c \notin Payload[Name] \/ d \notin Above[c]
       PROVE  ~Empty(d)'
  <2>1. PICK x \in Path : d \in Above[x] /\ root[x] # "absent"
    BY <1>10 DEF Empty
  <2>2. x # c
    BY <1>2, <1>3, <1>10, <2>1
  <2> QED
    BY <1>4, <2>1, <2>2 DEF Empty
<1>11. ASSUME NEW k \in run'.kept
       PROVE  /\ k \in claims'[Name']
              /\ k \notin Dir => root'[k] = "edited"
              /\ k \in Dir => k \notin Shared /\ ~Empty(k)'
  <2>1. k \in run.kept /\ k \in claims[Name] /\ k \in Path
    BY <1>1, <1>2, <1>6, <1>11
  <2>2. CASE k \in Dir
    <3>1. k \notin Shared /\ ~Empty(k)
      BY <1>6, <2>1, <2>2
    <3>2. k \notin Above[c]
      BY <1>2, <1>3, <2>1, <3>1, OwnershipAssumption
    <3> QED
      BY <1>1, <1>10, <2>1, <2>2, <3>1, <3>2
  <2>3. CASE k \notin Dir
    <3>1. root[k] = "edited"
      BY <1>6, <2>1, <2>3
    <3>2. root'[k] = "edited"
      BY <1>4, <2>1, <3>1 DEF RemovePath
    <3> QED
      BY <1>1, <2>1, <2>3, <3>2
  <2> QED
    BY <2>2, <2>3
<1>12. ASSUME NEW d \in claims[Name], d \notin run.left
       PROVE  Settled(d)' /\ \A o \in run'.left : Rank[o] <= Rank[d]
  <2>1. Settled(d) /\ \A o \in run.left : Rank[o] <= Rank[d]
    BY <1>6, <1>12
  <2>2. d # c /\ root'[d] = root[d]
    BY <1>2, <1>3, <1>4, <1>12
  <2>3. d \notin Above[c]
    <3>1. Rank[c] <= Rank[d] /\ Rank[c] \in Nat /\ Rank[d] \in Nat
      BY <1>2, <1>3, <2>1, RemovalAssumption
    <3> QED
      BY <3>1, RemovalAssumption
  <2> QED
    BY <1>1, <1>10, <2>1, <2>2, <2>3 DEF Settled
<1>13. Settled(c)'
  <2>1. CASE c \in run.kept /\ root[c] # "absent"
    <3>1. root' = root
      BY <2>1 DEF RemovePath
    <3> QED
      BY <1>6, <2>1, <3>1 DEF Settled, Empty
  <2>2. CASE ~(c \in run.kept /\ root[c] # "absent")
    <3>1. root' = Without(c)
      BY <2>2 DEF RemovePath
    <3>2. CASE c \in Dir /\ ~Empty(c)
      BY <3>1, <3>2 DEF Without, Settled, Empty
    <3>3. CASE ~(c \in Dir /\ ~Empty(c))
      BY <3>1, <3>3 DEF Without, Settled, IInv, TypeOK
    <3> QED
      BY <3>2, <3>3
  <2> QED
    BY <2>1, <2>2
<1>14. \A d \in claims'[Name'] \ run'.left :
         Settled(d)' /\ \A o \in run'.left : Rank[o] <= Rank[d]
  BY <1>1, <1>3, <1>12, <1>13
<1> QED
  BY <1>7, <1>8, <1>9, <1>11, <1>14 DEF Inductive

\* A record goes when everything it lists is settled, and no file is.
LEMMA EraseRecordInductive ==
  ASSUME IInv, NEW f \in RecordFile, EraseRecord(f)
  PROVE  Inductive'
<1>1. UNCHANGED <<root, claims>> /\ Name \in Package /\ claims[Name] \subseteq Path
  BY NameType DEF EraseRecord, At, IInv, TypeOK
<1>2. \A d \in claims[Name] : root[d] # "file"
  BY <1>1, RemovalAssumption DEF EraseRecord, At, IInv, Inductive, Settled
<1>3. \A q \in Package \ {Name} : Counts(q) => Counts(q)'
  BY <1>1 DEF EraseRecord, Counts, IInv, TypeOK
<1>4. NoOrphanFile'
  BY <1>1, <1>2, <1>3 DEF IInv, Inductive, NoOrphanFile
<1>5. CASE f = "dir"
  <2>1. run'.next = "world"
    BY <1>5 DEF EraseRecord, IInv, TypeOK
  <2> QED
    BY <1>1, <1>4, <2>1 DEF IInv, Inductive, At
<1>6. CASE f # "dir"
  <2>1. run' = run
    BY <1>6 DEF EraseRecord
  <2> QED
    BY <1>1, <1>4, <2>1 DEF IInv, Inductive, At, Name, Settled, Empty
<1> QED
  BY <1>5, <1>6

LEMMA WorldRemoveInductive ==
  ASSUME IInv, WorldRemove
  PROVE  Inductive'
<1>1. run'.next = "idle" \/ run'.next = "check"
  <2>1. CASE Len(run.names) = 1
    BY <2>1 DEF WorldRemove, Idle
  <2>2. CASE Len(run.names) # 1
    BY <2>2 DEF WorldRemove, IInv, TypeOK
  <2> QED
    BY <2>1, <2>2
<1> QED
  BY <1>1, OutsidePaths DEF WorldRemove, IInv

LEMMA StutterInductive ==
  ASSUME IInv, UNCHANGED vars
  PROVE  Inductive'
BY DEF vars, IInv, Inductive, NoOrphanFile, Counts, At, Name, Settled, Empty

LEMMA NextInductive ==
  ASSUME IInv, [Next]_vars
  PROVE  IInv'
<1>1. TypeOK'
  BY NextType DEF IInv
<1>2. ASSUME NEW p \in Package, NEW explicit \in BOOLEAN, Install(p, explicit)
      PROVE  Inductive'
  BY <1>2, InstallInductive
<1>3. ASSUME NEW x \in Path, Edit(x) PROVE Inductive'
  BY <1>3, EditInductive
<1>4. ASSUME NEW names \in Requests, Memoryhole(names) PROVE Inductive'
  BY <1>4, MemoryholeInductive
<1>5. ASSUME Step PROVE Inductive'
  <2>1. CASE NoRecord \/ Sustained \/ NoMeta
    BY <2>1, RefuseInductive DEF NoRecord, Sustained, NoMeta
  <2>2. CASE Judge
    BY <2>2, JudgeInductive
  <2>3. ASSUME NEW c \in Path, RemovePath(c) PROVE Inductive'
    BY <2>3, RemovePathInductive
  <2>4. ASSUME NEW f \in RecordFile, EraseRecord(f) PROVE Inductive'
    BY <2>4, EraseRecordInductive
  <2>5. CASE WorldRemove
    BY <2>5, WorldRemoveInductive
  <2> QED
    BY <1>5, <2>1, <2>2, <2>3, <2>4, <2>5 DEF Step
<1>6. ASSUME Crash PROVE Inductive'
  BY <1>6, RefuseInductive DEF Crash
<1>7. ASSUME UNCHANGED vars PROVE Inductive'
  BY <1>7, StutterInductive
<1> QED
  BY <1>1, <1>2, <1>3, <1>4, <1>5, <1>6, <1>7 DEF Next, IInv

THEOREM RemovalInductive == Spec => []IInv
<1>1. Init => IInv
  BY InitType, InitInductive DEF IInv
<1>2. IInv /\ [Next]_vars => IInv'
  BY NextInductive
<1> QED
  BY <1>1, <1>2, PTL DEF Spec

-----------------------------------------------------------------------------
(***************************************************************************)
(* What follows                                                            *)
(***************************************************************************)

\* A file that nobody edited is always listed by a record that counts: the
\* record goes after the paths, in every interrupted removal too
\* (install.rs:7716).
THEOREM OrphanFree == Spec => []NoOrphanFile
<1>1. IInv => NoOrphanFile
  BY DEF IInv, Inductive
<1> QED
  BY <1>1, RemovalInductive, PTL

\* Only Install, Edit and RemovePath change the root.
LEMMA RootSteps ==
  ASSUME [Next]_vars
  PROVE  \/ \E p \in Package : \E explicit \in BOOLEAN : Install(p, explicit)
         \/ \E x \in Path : Edit(x)
         \/ \E c \in Path : RemovePath(c)
         \/ root' = root
BY DEF Next, Step, Memoryhole, NoRecord, Sustained, NoMeta, Refuse, Judge,
       EraseRecord, WorldRemove, Crash, vars

\* What the administrator changed or added is never removed (install.rs:7697).
THEOREM EditsAreKept == Spec => EditsSurvive
<1>1. ASSUME IInv, [Next]_vars, NEW x \in Path, root[x] = "edited"
      PROVE  root'[x] = "edited"
  <2>1. x \notin Dir
    BY <1>1 DEF IInv, Inductive
  <2>2. ASSUME NEW p \in Package, NEW explicit \in BOOLEAN, Install(p, explicit)
        PROVE  root'[x] = "edited"
    <3>1. x \notin Payload[p]
      BY <1>1, <2>1, <2>2 DEF Install
    <3>2. ~\E y \in Payload[p] : x \in Above[y]
      BY <2>1, RemovalAssumption
    <3> QED
      BY <1>1, <2>2, <3>1, <3>2 DEF Install
  <2>3. ASSUME NEW y \in Path, Edit(y) PROVE root'[x] = "edited"
    BY <1>1, <2>3 DEF Edit, IInv, TypeOK
  <2>4. ASSUME NEW c \in Path, RemovePath(c) PROVE root'[x] = "edited"
    <3>1. CASE x = c
      <4>1. c \in run.kept
        BY <1>1, <2>4, <3>1 DEF RemovePath, IInv, Inductive
      <4> QED
        BY <1>1, <2>4, <3>1, <4>1 DEF RemovePath
    <3>2. CASE x # c
      BY <1>1, <2>4, <3>2 DEF RemovePath, Without, IInv, TypeOK
    <3> QED
      BY <3>1, <3>2
  <2> QED
    BY <1>1, <2>2, <2>3, <2>4, RootSteps
<1>2. IInv /\ [Next]_vars => [\A x \in Path : root[x] = "edited" => root'[x] = "edited"]_vars
  BY <1>1
<1> QED
  BY <1>2, RemovalInductive, PTL DEF Spec, EditsSurvive

\* A removal takes nothing that another record lists (install.rs:7704).
THEOREM OthersAreKept == Spec => TakesOnlyItsOwn
<1>1. ASSUME IInv, [Next]_vars, NEW q \in Package, Counts(q),
             run.names # << >> => q # Name,
             NEW d \in claims[q], root[d] # "absent"
      PROVE  root'[d] # "absent"
  <2>1. d \in Path /\ d \in Payload[q]
    BY <1>1, RemovalAssumption DEF IInv, TypeOK
  <2>2. ASSUME NEW p \in Package, NEW explicit \in BOOLEAN, Install(p, explicit)
        PROVE  root'[d] # "absent"
    BY <1>1, <2>1, <2>2 DEF Install
  <2>3. ASSUME NEW y \in Path, Edit(y) PROVE root'[d] # "absent"
    BY <1>1, <2>1, <2>3 DEF Edit, IInv, TypeOK
  <2>4. ASSUME NEW c \in Path, RemovePath(c) PROVE root'[d] # "absent"
    <3>1. run.names # << >> /\ Name \in Package /\ c \in Payload[Name]
      BY <1>1, <2>4, NameType DEF RemovePath, At, IInv, TypeOK
    <3>2. c # d
      BY <1>1, <2>1, <3>1, OwnershipAssumption
    <3> QED
      BY <1>1, <2>1, <2>4, <3>2 DEF RemovePath, Without, IInv, TypeOK
  <2> QED
    BY <1>1, <2>2, <2>3, <2>4, RootSteps
<1>2. IInv /\ [Next]_vars =>
        [\A q \in Package : (Counts(q) /\ (run.names # << >> => q # Name)) =>
           \A c \in claims[q] : root[c] # "absent" => root'[c] # "absent"]_vars
  BY <1>1
<1> QED
  BY <1>2, RemovalInductive, PTL DEF Spec, TakesOnlyItsOwn

\* When a record stops to count, of what it listed only edits and directories
\* with something in them are left (install.rs:7716).
THEOREM NothingLeftBehind == Spec => NothingIsLeft
<1>1. ASSUME IInv, [Next]_vars, NEW p \in Package, Counts(p), ~Counts(p)',
             NEW c \in claims[p]
      PROVE  root[c] \in {"absent", "edited"} \/ (c \in Dir /\ ~Empty(c))
  <2>1. CASE \E q \in Package : \E explicit \in BOOLEAN : Install(q, explicit)
    BY <1>1, <2>1 DEF Install, Counts, IInv, TypeOK, RecordFile
  <2>2. CASE \E f \in RecordFile : EraseRecord(f)
    <3>1. PICK f \in RecordFile : EraseRecord(f)
      BY <2>2
    <3>2. p = Name
      BY <1>1, <3>1 DEF EraseRecord, Counts, IInv, TypeOK
    <3>3. Settled(c)
      BY <1>1, <3>1, <3>2 DEF EraseRecord, IInv, Inductive
    <3> QED
      BY <3>3 DEF Settled
  <2>3. CASE record' = record
    BY <1>1, <2>3 DEF Counts
  <2>4. \/ \E q \in Package : \E explicit \in BOOLEAN : Install(q, explicit)
        \/ \E f \in RecordFile : EraseRecord(f)
        \/ record' = record
    BY <1>1 DEF Next, Step, Edit, Memoryhole, NoRecord, Sustained, NoMeta, Refuse,
                Judge, RemovePath, WorldRemove, Crash, vars
  <2> QED
    BY <2>1, <2>2, <2>3, <2>4
<1>2. IInv /\ [Next]_vars =>
        [\A p \in Package : (Counts(p) /\ ~Counts(p)') =>
           \A c \in claims[p] :
             \/ root[c] \in {"absent", "edited"}
             \/ c \in Dir /\ ~Empty(c)]_vars
  BY <1>1
<1> QED
  BY <1>2, RemovalInductive, PTL DEF Spec, NothingIsLeft

-----------------------------------------------------------------------------
(***************************************************************************)
(* Dependencies, when dependents are named first                           *)
(***************************************************************************)

\* The records and the names decide; most steps keep both, or end the run.
LEMMA SameSupport ==
  ASSUME Supported, UNCHANGED record,
         \/ run'.next = "idle" /\ run'.names = << >> /\ run'.removing = {}
         \/ UNCHANGED <<run.names, run.removing, run.next>>
  PROVE  Supported'
<1>1. CASE run'.next = "idle" /\ run'.names = << >> /\ run'.removing = {}
  <2>1. DOMAIN run'.names = {}
    BY <1>1
  <2> QED
    BY <1>1, <2>1 DEF Supported, Counts, At
<1>2. CASE UNCHANGED <<run.names, run.removing, run.next>>
  BY <1>2 DEF Supported, Counts, At, Name
<1> QED
  BY <1>1, <1>2

LEMMA InitSupported == Init => Supported
BY DEF Init, Supported, Counts, Idle, At

LEMMA InstallSupported ==
  ASSUME TypeOK, Supported, NEW p \in Package, NEW explicit \in BOOLEAN,
         Install(p, explicit)
  PROVE  Supported'
<1>1. \A q \in Package : Counts(q)' <=> (Counts(q) \/ q = p)
  BY DEF Install, Counts, RecordFile, TypeOK
<1>2. \A d \in Deps[p] : Counts(d)
  BY DEF Install
<1>3. run' = Idle /\ DOMAIN run'.names = {} /\ run'.removing = {} /\ run'.next = "idle"
  BY DEF Install, Idle
<1>4. \A q \in Package : Counts(q)' => \A d \in Deps[q] : Counts(d)'
  BY <1>1, <1>2, RemovalAssumption DEF Supported
<1> QED
  BY <1>3, <1>4 DEF Supported, At

LEMMA MemoryholeSupported ==
  ASSUME DependentsFirst, Supported, NEW names \in Requests, Memoryhole(names)
  PROVE  Supported'
<1>1. UNCHANGED record
  BY DEF Memoryhole
<1>2. CASE Readable
  <2>1. /\ run'.names = names /\ run'.next = "check"
        /\ run'.removing = {names[i] : i \in DOMAIN names}
    BY <1>2 DEF Memoryhole, Idle
  <2>2. \A q \in run'.removing : \E j \in DOMAIN names : q = names[j]
    BY <2>1
  <2> QED
    BY <1>1, <2>1, <2>2 DEF Supported, DependentsFirst, Counts, At
<1>3. CASE ~Readable
  <2>1. run'.next = "idle" /\ run'.names = << >> /\ run'.removing = {}
    BY <1>3 DEF Memoryhole, Idle
  <2> QED
    BY <1>1, <2>1, SameSupport
<1> QED
  BY <1>2, <1>3

LEMMA RefuseSupported ==
  ASSUME Supported, NEW why \in {"died", "no_record", "sustains", "no_meta"}, Refuse(why)
  PROVE  Supported'
BY SameSupport DEF Refuse, Idle

\* Whoever depends on what is judged is to be removed too, and was before it.
LEMMA JudgeSupported ==
  ASSUME TypeOK, Supported, Judge
  PROVE  Supported'
<1>1. /\ run'.next = "paths" /\ run'.names = run.names /\ Name' = Name
      /\ run'.removing = run.removing /\ UNCHANGED record
  BY DEF Judge, TypeOK, Name
<1>2. run.names # << >> /\ run.names \in Seq(Package) /\ Name = run.names[1]
  BY NameType, HeadTailProperties DEF Judge, At, Name, TypeOK
<1>3. 1 \in DOMAIN run.names /\ DOMAIN run.names = 1 .. Len(run.names)
  BY <1>2, LenProperties, EmptySeq
<1>4. ASSUME NEW q \in Package, Counts(q), Name \in Deps[q] PROVE q = Name
  <2>1. q \in run.removing
    BY <1>4 DEF Judge, Sustains
  <2>2. PICK j \in DOMAIN run.names : q = run.names[j]
    BY <1>4, <2>1 DEF Supported
  <2>3. ~(1 < j)
    BY <1>2, <1>3, <1>4, <2>2 DEF Supported
  <2>4. j = 1
    BY <1>3, <2>2, <2>3
  <2> QED
    BY <1>2, <2>2, <2>4
<1> QED
  BY <1>1, <1>4 DEF Supported, Counts, At

LEMMA EraseRecordSupported ==
  ASSUME TypeOK, Supported, NEW f \in RecordFile, EraseRecord(f)
  PROVE  Supported'
<1>1. /\ run'.names = run.names /\ run'.removing = run.removing /\ Name' = Name
      /\ Name \in Package /\ At("paths")
  BY NameType DEF EraseRecord, At, TypeOK, Name
<1>2. \A q \in Package : /\ q # Name => (Counts(q)' <=> Counts(q))
                         /\ Counts(q)' => Counts(q)
  BY <1>1 DEF EraseRecord, Counts, TypeOK
<1>3. \A q \in Package : Counts(q) /\ Name \in Deps[q] => q = Name
  BY <1>1 DEF Supported
<1>4. \A q \in Package : Counts(q)' => \A d \in Deps[q] : Counts(d)'
  <2>1. ASSUME NEW q \in Package, Counts(q)', NEW d \in Deps[q] PROVE Counts(d)'
    <3>1. Counts(q) /\ Counts(d) /\ d \in Package
      BY <1>2, <2>1, RemovalAssumption DEF Supported
    <3>2. CASE d = Name
      <4>1. q = Name
        BY <1>3, <2>1, <3>1, <3>2
      <4> QED
        BY <2>1, <3>2, <4>1
    <3>3. CASE d # Name
      BY <1>2, <3>1, <3>3
    <3> QED
      BY <3>2, <3>3
  <2> QED
    BY <2>1
<1>5. run'.removing \subseteq Package
  BY <1>1 DEF TypeOK
<1>6. CASE f = "dir"
  <2>1. run'.next = "world" /\ ~Counts(Name)'
    BY <1>1, <1>6 DEF EraseRecord, Counts, TypeOK
  <2> QED
    BY <1>1, <1>2, <1>4, <1>5, <2>1 DEF Supported, At
<1>7. CASE f # "dir"
  <2>1. run' = run
    BY <1>7 DEF EraseRecord
  <2> QED
    BY <1>1, <1>2, <1>3, <1>4, <1>5, <2>1 DEF Supported, At
<1> QED
  BY <1>6, <1>7

LEMMA WorldRemoveSupported ==
  ASSUME TypeOK, Supported, WorldRemove
  PROVE  Supported'
<1>1. UNCHANGED record /\ ~Counts(Name)
  BY DEF WorldRemove, Supported
<1>2. CASE Len(run.names) = 1
  <2>1. run'.next = "idle" /\ run'.names = << >> /\ run'.removing = {}
    BY <1>2 DEF WorldRemove, Idle
  <2> QED
    BY <1>1, <2>1, SameSupport
<1>3. CASE Len(run.names) # 1
  <2>1. run'.next = "check" /\ run'.names = Tail(run.names) /\ run'.removing = run.removing
    BY <1>3 DEF WorldRemove, TypeOK
  <2>2. run.names # << >> /\ run.names \in Seq(Package) /\ Name = run.names[1]
    BY NameType, HeadTailProperties DEF WorldRemove, At, Name, TypeOK
  <2> DEFINE names == run.names
             rest == Tail(run.names)
  <2>3. /\ DOMAIN names = 1 .. Len(names) /\ Len(names) \in Nat \ {0}
        /\ DOMAIN rest = 1 .. (Len(names) - 1)
        /\ \A i \in DOMAIN rest : rest[i] = names[i + 1]
    <3>1. rest \in Seq(Package) /\ Len(rest) = Len(names) - 1
          /\ \A i \in 1 .. Len(rest) : rest[i] = names[i + 1]
      BY <2>2, HeadTailProperties
    <3> QED
      BY <2>2, <3>1, LenProperties, EmptySeq
  <2>4. \A i, j \in DOMAIN names : i < j => names[i] \notin Deps[names[j]]
    BY DEF Supported
  <2>5. \A q \in run.removing : Counts(q) => \E j \in DOMAIN names : q = names[j]
    BY DEF Supported
  <2>6. Name = names[1]
    BY <2>2
  <2>7. run'.names = rest
    BY <2>1
  <2> HIDE DEF names, rest
  <2>8. \A i, j \in DOMAIN rest : i < j => rest[i] \notin Deps[rest[j]]
    BY <2>3, <2>4
  <2>9. \A q \in run.removing : Counts(q) => \E j \in DOMAIN rest : q = rest[j]
    <3>1. ASSUME NEW q \in run.removing, Counts(q) PROVE \E j \in DOMAIN rest : q = rest[j]
      <4>1. PICK j \in DOMAIN names : q = names[j]
        BY <2>5, <3>1
      <4>2. j # 1
        BY <1>1, <2>6, <3>1, <4>1
      <4>3. j - 1 \in DOMAIN rest /\ rest[j - 1] = names[j]
        BY <2>3, <4>1, <4>2
      <4> QED
        BY <4>1, <4>3
    <3> QED
      BY <3>1
  <2> QED
    BY <1>1, <2>1, <2>7, <2>8, <2>9 DEF Supported, Counts, At
<1> QED
  BY <1>2, <1>3

LEMMA NextSupported ==
  ASSUME DependentsFirst, TypeOK, Supported, [Next]_vars
  PROVE  Supported'
<1>1. ASSUME NEW p \in Package, NEW explicit \in BOOLEAN, Install(p, explicit)
      PROVE  Supported'
  BY <1>1, InstallSupported
<1>2. ASSUME NEW x \in Path, Edit(x) PROVE Supported'
  BY <1>2, SameSupport DEF Edit
<1>3. ASSUME NEW names \in Requests, Memoryhole(names) PROVE Supported'
  BY <1>3, MemoryholeSupported
<1>4. ASSUME Step PROVE Supported'
  <2>1. CASE NoRecord \/ Sustained \/ NoMeta
    BY <2>1, RefuseSupported DEF NoRecord, Sustained, NoMeta
  <2>2. CASE Judge
    BY <2>2, JudgeSupported
  <2>3. ASSUME NEW c \in Path, RemovePath(c) PROVE Supported'
    BY <2>3, SameSupport DEF RemovePath, TypeOK
  <2>4. ASSUME NEW f \in RecordFile, EraseRecord(f) PROVE Supported'
    BY <2>4, EraseRecordSupported
  <2>5. CASE WorldRemove
    BY <2>5, WorldRemoveSupported
  <2> QED
    BY <1>4, <2>1, <2>2, <2>3, <2>4, <2>5 DEF Step
<1>5. CASE Crash
  BY <1>5, RefuseSupported DEF Crash
<1>6. CASE UNCHANGED vars
  BY <1>6, SameSupport DEF vars
<1> QED
  BY <1>1, <1>2, <1>3, <1>4, <1>5, <1>6 DEF Next

\* If every list names dependents first, no removal, refused, dead or done,
\* leaves an installed package without a dependency (install.rs:7594).
THEOREM SupportIsKept ==
  ASSUME DependentsFirst
  PROVE  Spec => []SupportKept
<1>1. Init => TypeOK /\ Supported
  BY InitType, InitSupported
<1>2. TypeOK /\ Supported /\ [Next]_vars => (TypeOK /\ Supported)'
  BY NextType, NextSupported
<1>3. Supported => SupportKept
  BY DEF Supported, SupportKept
<1> QED
  BY <1>1, <1>2, <1>3, PTL DEF Spec

-----------------------------------------------------------------------------
(***************************************************************************)
(* The parts                                                               *)
(***************************************************************************)

\* A step of the composition is one of Removal, or leaves what it is about.
LEMMA RemovalSteps ==
  /\ PartsInit => Init
  /\ [PartsNext]_ofAll => [Next]_vars
BY DEF PartsInit, PartsNext, ofAll

THEOREM PartsAreRemoval == PartsSpec => Spec
BY RemovalSteps, PTL DEF PartsSpec, Spec

-----------------------------------------------------------------------------
(***************************************************************************)
(* Defaults of /etc                                                        *)
(***************************************************************************)

EtcInv == C!TypeOK /\ C!Follows

LEMMA EtcInit == C!Init => EtcInv
BY RecordAssumption DEF EtcInv, C!EtcAssumption, C!Init, C!TypeOK, C!Follows, C!Default, C!File, C!Link, C!Why

\* A file that differs from the one before and from the new default was edited,
\* or is passed over for one of the reasons.
LEMMA EtcInstall ==
  ASSUME EtcInv, NEW d \in C!Default, NEW successor \in BOOLEAN, C!Install(d, successor)
  PROVE  EtcInv' /\ (live # None => live' = live \/ (live' = d /\ live = factory))
<1> DEFINE recorded == IF successor THEN None ELSE seal
<1> USE RecordAssumption DEF C!EtcAssumption
<1>1. C!Materialize(d, recorded) /\ factory' = d /\ seal' = C!Proof(d)
  BY DEF C!Install
<1>2. recorded \in {None, factory}
  BY DEF EtcInv, C!TypeOK
<1>3. C!TypeOK'
  BY <1>1 DEF EtcInv, C!TypeOK, C!Materialize, C!Proof, C!Default, C!File, C!Link, C!Reasons
<1> HIDE DEF recorded
<1>4. CASE live = None \/ (~C!Same(d) /\ C!Unedited(d, recorded))
  <2>1. live' = d
    BY <1>1, <1>4 DEF C!Materialize
  <2> QED
    BY <1>1, <1>2, <1>3, <1>4, <2>1 DEF EtcInv, C!Follows, C!Unedited
<1>5. CASE live # None /\ ~(~C!Same(d) /\ C!Unedited(d, recorded))
  <2>1. live' = live
    BY <1>1, <1>5 DEF C!Materialize
  <2>2. C!Follows'
    <3> SUFFICES ASSUME live # d PROVE since' # {}
      BY <1>1, <2>1 DEF C!Follows
    <3>1. since' = since \cup C!Reasons(d, recorded)
      BY <1>1, <2>1 DEF C!Materialize
    <3>2. CASE C!Same(d)
      BY <3>1, <3>2 DEF C!Reasons, C!Why
    <3>3. CASE d.kind = "link"
      BY <3>1, <3>3 DEF C!Reasons, C!Why
    <3>4. CASE recorded = None
      BY <3>1, <3>4 DEF C!Reasons, C!Why
    <3>5. CASE ~C!Same(d) /\ d.kind # "link" /\ recorded # None
      <4>1. d.kind = "file"
        BY <3>5 DEF C!Default, C!File, C!Link
      <4>2. live # factory /\ factory # None
        BY <1>2, <1>5, <3>5, <4>1 DEF C!Unedited
      <4> QED
        BY <1>5, <3>1, <4>2 DEF EtcInv, C!Follows
    <3> QED
      BY <3>2, <3>3, <3>4, <3>5
  <2> QED
    BY <1>3, <2>1, <2>2 DEF EtcInv
<1> QED
  BY <1>4, <1>5

LEMMA EtcNext == EtcInv /\ [C!Next]_ofEtc => EtcInv'
<1> SUFFICES ASSUME EtcInv, [C!Next]_ofEtc PROVE EtcInv'
  OBVIOUS
<1> USE RecordAssumption DEF C!EtcAssumption
<1>1. CASE \E d \in C!Default, successor \in BOOLEAN : C!Install(d, successor)
  BY <1>1, EtcInstall
<1>2. CASE C!Remove
  BY <1>2 DEF C!Remove, EtcInv, C!TypeOK, C!Follows
<1>3. CASE C!Edit
  BY <1>3 DEF C!Edit, EtcInv, C!TypeOK, C!Follows, C!Why
<1>4. CASE C!TakeNew
  BY <1>4 DEF C!TakeNew, EtcInv, C!TypeOK, C!Follows, C!Why
<1>5. CASE UNCHANGED ofEtc
  BY <1>5 DEF ofEtc, EtcInv, C!TypeOK, C!Follows
<1> QED
  BY <1>1, <1>2, <1>3, <1>4, <1>5 DEF C!Next

\* The composition starts and moves Etc as Etc alone, and no part becomes another.
LEMMA EtcSteps ==
  /\ PartsInit /\ Providing => C!Init
  /\ [PartsNext]_ofAll => part' = part /\ (Providing => [C!Next]_ofEtc)
BY DEF PartsInit, PartsNext, ofAll, Removing, Judging, Providing

\* A file of /etc that nobody edited follows the default of the package, but for
\* the four reasons the code leaves, and no installation replaces another file,
\* for any contents and orders of installations, successions, removals and edits
\* (install.rs:6866).
THEOREM DefaultsAreFollowed == PartsSpec => DefaultsFollow
<1> DEFINE I == Providing => EtcInv
<1>1. PartsInit => I
  BY EtcInit, EtcSteps
<1>2. I /\ [PartsNext]_ofAll => I'
  <2> SUFFICES ASSUME I, [PartsNext]_ofAll, Providing' PROVE EtcInv'
    OBVIOUS
  <2>1. Providing /\ [C!Next]_ofEtc
    BY EtcSteps DEF Providing
  <2> QED
    BY <2>1, EtcNext
<1>3. I => (Providing => C!TypeOK /\ C!Follows)
  BY DEF EtcInv
<1>4. I /\ [PartsNext]_ofAll => [Providing => C!EditsStandStep]_ofAll
  <2> SUFFICES ASSUME I, Providing PROVE C!EditsStandStep
    OBVIOUS
  <2> QED
    BY EtcInstall DEF C!EditsStandStep
<1> QED
  BY <1>1, <1>2, <1>3, <1>4, PTL DEF PartsSpec, DefaultsFollow

-----------------------------------------------------------------------------
(***************************************************************************)
(* Records: the constants and what is made of them                         *)
(***************************************************************************)

LEMMA Described ==
  ASSUME package \in RecPackage, NEW r \in Revision
  PROVE  /\ package.kind \in {"source", "binary", "meta"} /\ package.provisional \in BOOLEAN
         /\ DOMAIN package.made[r] \subseteq RecPath
         /\ \A x \in DOMAIN package.made[r] : package.made[r][x] \in R!State
         /\ package.shared[r] = DOMAIN package.made[r] \cap RecDirectory
         /\ package.shared[r] # {} => package.kind = "source"
         /\ package.kind = "meta" => DOMAIN package.made[r] = {} /\ ~package.provisional
         /\ package.kind # "meta" => DOMAIN package.made[r] # {}
<1>1. package \in R!Description
  BY RecordAssumption DEF R!RecordsAssumption
<1>2. package.made[r] \in UNION {[s -> R!State] : s \in SUBSET RecPath}
  BY <1>1 DEF R!Description
<1>3. PICK s \in SUBSET RecPath : package.made[r] \in [s -> R!State]
  BY <1>2
<1>4. /\ package.shared[r] = DOMAIN package.made[r] \cap RecDirectory
      /\ package.shared[r] # {} => package.kind = "source"
      /\ package.kind = "meta" => DOMAIN package.made[r] = {} /\ ~package.provisional
      /\ package.kind # "meta" => DOMAIN package.made[r] # {}
  BY RecordAssumption DEF R!RecordsAssumption
<1>5. package.kind \in {"source", "binary", "meta"} /\ package.provisional \in BOOLEAN
  BY <1>1 DEF R!Description
<1> QED
  BY <1>3, <1>4, <1>5

\* The trees of two revisions of one version are the same.
LEMMA OneTree ==
  ASSUME package \in RecPackage, NEW r \in Revision, NEW s \in Revision, VersionOf[s] = VersionOf[r]
  PROVE  DOMAIN package.made[s] \cap RecTrees = DOMAIN package.made[r] \cap RecTrees
BY RecordAssumption DEF R!RecordsAssumption

LEMMA Nones ==
  /\ None \notin R!State /\ None \notin Revision /\ None \notin 0 .. 4
  /\ \A m : R!IsManifest(m) => m # None
  /\ \A m : R!IsMeta(m) => m.format # None
<1>1. None \notin R!State /\ None \notin Revision /\ None \notin 0 .. 4
  BY RecordAssumption DEF R!RecordsAssumption
<1>2. \A s \in SUBSET RecPath : None \notin [s -> R!Line]
  BY RecordAssumption DEF R!RecordsAssumption
<1>3. ASSUME NEW m, R!IsManifest(m) PROVE m # None
  BY <1>2, <1>3 DEF R!IsManifest
<1>4. ASSUME NEW m, R!IsMeta(m) PROVE m.format # None
  BY <1>1, <1>4 DEF R!IsMeta
<1> QED
  BY <1>1, <1>3, <1>4

LEMMA Lined ==
  \A s \in R!State :
    /\ R!Claim("typed", s) \in R!Line /\ R!Claim("typed", s).form = "typed"
    /\ \A x : /\ R!Claim(R!Typed(x), s) \in R!Line
              /\ R!Claim(R!Typed(x), s).form = "shared" <=> x \in RecDirectory
BY DEF R!Line, R!Claim, R!Typed, R!Shown, R!State

\* Manifests that say the same of the same paths are equal.
LEMMA SameManifest ==
  ASSUME NEW m, NEW n, R!IsManifest(m), R!IsManifest(n), DOMAIN m = DOMAIN n,
         \A x \in DOMAIN m : m[x] = n[x]
  PROVE  m = n
BY DEF R!IsManifest

LEMMA NoDomain == DOMAIN R!NoLines = {} /\ R!NoLines \in [{} -> R!Line]
BY DEF R!NoLines

LEMMA EmptyLines == DOMAIN R!NoLines = {} /\ R!IsManifest(R!NoLines)
<1> DEFINE m == R!NoLines
<1> HIDE DEF m
<1>1. DOMAIN m = {} /\ R!IsManifest(m)
  BY NoDomain DEF R!IsManifest, m
<1> QED
  BY <1>1 DEF m

LEMMA AVersion == \A r \in Revision : VersionOf[r] \in R!Version
BY DEF R!Version

-----------------------------------------------------------------------------
(***************************************************************************)
(* Records: what a rebuilding leaves                                       *)
(***************************************************************************)

RecInv == R!TypeOK /\ R!Inductive

\* What is left to the successor is what the old baseline had of it.
LEMMA KeptFacts ==
  ASSUME RecInv
  PROVE  /\ R!IsManifest(R!Kept) /\ DOMAIN R!Kept \subseteq heir
         /\ DOMAIN R!Kept # {} => R!Installed
         /\ \A x \in DOMAIN R!Kept : x \in DOMAIN R!Baseline /\ R!Kept[x] = R!Baseline[x]
<1>1. CASE R!Cession \notin {"intact", "unproved"}
  <2>1. R!Kept = R!NoLines
    BY <1>1 DEF R!Kept
  <2> QED
    BY <2>1, EmptyLines
<1>2. CASE R!Cession \in {"intact", "unproved"}
  <2>1. R!Installed
    BY <1>2 DEF R!Cession
  <2>2. R!Kept = [x \in R!Ceded \ R!Unproved |-> R!Baseline[x]]
    BY <1>2 DEF R!Kept
  <2>3. DOMAIN R!Kept \subseteq heir /\ DOMAIN R!Kept \subseteq DOMAIN R!Baseline
    BY <2>2 DEF R!Unproved, R!Ceded
  <2>4. R!IsManifest(R!Baseline)
    BY <2>1, AVersion, Nones DEF RecInv, R!TypeOK, R!Inductive, R!Counts, R!IsRecord, R!IsMeta, R!Baseline, R!Installed, R!Meta
  <2>5. R!IsManifest(R!Kept)
    BY <2>2, <2>3, <2>4 DEF R!IsManifest
  <2> QED
    BY <2>1, <2>2, <2>3, <2>5
<1> QED
  BY <1>1, <1>2

\* Pruning spares the files of the version the record is of.
LEMMA PrunedFacts ==
  ASSUME RecInv
  PROVE  /\ R!IsRecord(R!Pruned)
         /\ R!Pruned.manifest = files.manifest /\ R!Pruned.meta = files.meta
         /\ R!Pruned.recipe = files.recipe
         /\ R!Installed => R!Pruned.base[VersionOf[files.meta.rev]] = R!Baseline
<1>1. R!IsRecord(files) /\ package \in RecPackage
  BY DEF RecInv, R!TypeOK
<1>2. R!Pruned.manifest = files.manifest /\ R!Pruned.meta = files.meta /\ R!Pruned.recipe = files.recipe
  BY <1>1 DEF R!Pruned, R!IsRecord
<1>3. /\ DOMAIN R!Pruned.base = R!Version
      /\ \A v \in R!Version : R!Pruned.base[v] \in {None, files.base[v]}
  BY <1>1 DEF R!Pruned, R!IsRecord
<1>4. R!IsRecord(R!Pruned)
  BY <1>1, <1>2 DEF R!Pruned, R!IsRecord
<1>5. ASSUME R!Installed PROVE R!Pruned.base[VersionOf[files.meta.rev]] = R!Baseline
  <2> DEFINE v == VersionOf[files.meta.rev]
  <2>1. files.meta.rev \in Revision /\ v \in R!Version
    BY <1>1, <1>5, AVersion DEF R!IsRecord, R!IsMeta, R!Installed, R!Meta
  <2>2. ASSUME NEW r \in Revision, VersionOf[r] = v, NEW x \in R!Stale, x \in DOMAIN package.made[r]
        PROVE  FALSE
    <3>1. x \in RecTrees /\ x \notin DOMAIN package.made[files.meta.rev]
      BY <1>5 DEF R!Stale, R!Meta
    <3> QED
      BY <1>1, <2>1, <2>2, <3>1, OneTree
  <2>3. ~\E r \in Revision : VersionOf[r] = v /\ DOMAIN package.made[r] \cap R!Stale # {}
    BY <2>2
  <2>4. R!Pruned.base = [w \in R!Version |->
           IF \E r \in Revision : VersionOf[r] = w /\ DOMAIN package.made[r] \cap R!Stale # {}
           THEN None ELSE files.base[w]]
    BY <1>1 DEF R!Pruned, R!IsRecord
  <2> QED
    BY <2>1, <2>3, <2>4 DEF R!Baseline, R!Meta
<1> QED
  BY <1>2, <1>4, <1>5

LEMMA FreshFacts ==
  ASSUME RecInv, R!Builds
  PROVE  /\ R!IsRecord(R!Fresh) /\ R!AsMade(R!Fresh, place')
         /\ \A v \in R!Version \ {VersionOf[tree]} : R!Fresh.base[v] = R!Pruned.base[v]
         /\ \A x \in DOMAIN R!Fresh.base[VersionOf[tree]] \ DOMAIN R!Fresh.manifest :
              R!Installed /\ x \in DOMAIN R!Baseline
              /\ R!Fresh.base[VersionOf[tree]][x] = R!Baseline[x]
         /\ place' \in [RecPath -> R!State \cup {None}]
<1> DEFINE lines == [x \in R!Owned |-> R!Claim(R!Typed(x), R!Made[x])]
           whole == [x \in R!Owned \cup DOMAIN R!Kept |->
                       IF x \in DOMAIN R!Kept THEN R!Kept[x] ELSE lines[x]]
           v == VersionOf[tree]
<1>1. /\ package \in RecPackage /\ tree \in Revision /\ v \in R!Version
      /\ place \in [RecPath -> R!State \cup {None}] /\ R!IsRecord(files)
  BY AVersion DEF RecInv, R!TypeOK
<1>2. /\ DOMAIN R!Made \subseteq RecPath /\ \A x \in DOMAIN R!Made : R!Made[x] \in R!State
      /\ package.shared[tree] = DOMAIN R!Made \cap RecDirectory
  BY <1>1, Described DEF R!Made
<1>3. R!Owned = DOMAIN R!Made \ DOMAIN R!Kept
  BY DEF R!Owned
<1>4. R!IsManifest(lines) /\ DOMAIN lines = R!Owned
  BY <1>2, <1>3, Lined DEF R!IsManifest
<1>5. R!IsManifest(whole)
  BY <1>4, KeptFacts DEF R!IsManifest
<1>6. /\ R!Fresh.manifest = lines /\ R!Fresh.recipe = tree
      /\ R!Fresh.base = [R!Pruned.base EXCEPT ![v] = whole]
      /\ R!Fresh.recipeAt = [R!Pruned.recipeAt EXCEPT ![v] = tree]
      /\ R!Fresh.meta = [format |-> 3, rev |-> tree, stamped |-> TRUE,
                         licensed |-> package.kind # "meta", shared |-> package.shared[tree],
                         sealed |-> whole, bound |-> None]
      /\ R!Fresh = [manifest |-> R!Fresh.manifest, base |-> R!Fresh.base, recipe |-> R!Fresh.recipe,
                    recipeAt |-> R!Fresh.recipeAt, meta |-> R!Fresh.meta]
  BY <1>4 DEF R!Fresh, R!Written
<1> HIDE DEF lines, whole
<1>7. R!IsRecord(R!Pruned)
  BY PrunedFacts
<1>8. /\ DOMAIN R!Fresh.base = R!Version /\ R!Fresh.base[v] = whole
      /\ \A w \in R!Version \ {v} : R!Fresh.base[w] = R!Pruned.base[w]
      /\ R!Fresh.recipeAt \in [R!Version -> Revision \cup {None}] /\ R!Fresh.recipeAt[v] = tree
  BY <1>1, <1>6, <1>7 DEF R!IsRecord
<1>9. R!IsMeta(R!Fresh.meta)
  BY <1>1, <1>2, <1>5, <1>6 DEF R!IsMeta
<1>10. R!IsRecord(R!Fresh)
  <2>1. \A w \in R!Version : R!Fresh.base[w] = None \/ R!IsManifest(R!Fresh.base[w])
    BY <1>5, <1>7, <1>8 DEF R!IsRecord
  <2>2. R!Fresh.base \in [R!Version -> {R!Fresh.base[w] : w \in R!Version}]
    BY <1>6, <1>7, <1>8 DEF R!IsRecord
  <2> QED
    BY <1>1, <1>4, <1>6, <1>8, <1>9, <2>1, <2>2 DEF R!IsRecord
<1>11. place' = [x \in RecPath |-> place'[x]] /\ \A x \in R!Owned : place'[x] = R!Made[x]
  <2>1. R!Installs
    BY DEF R!Builds
  <2> QED
    BY <2>1, <1>2, <1>3 DEF R!Installs
<1>12. place' \in [RecPath -> R!State \cup {None}]
  <2>1. PICK full \in SUBSET RecDirectory :
          place' = [x \in RecPath |->
            IF x \in R!Owned THEN R!Made[x] ELSE IF R!Leaves(x, full) THEN place[x] ELSE None]
    BY DEF R!Builds, R!Installs
  <2> QED
    BY <1>1, <1>2, <1>3, <2>1
<1>13. R!Owned \cap heir = {}
  BY DEF R!Builds, R!MayInstall
<1>14. /\ DOMAIN whole = R!Owned \cup DOMAIN R!Kept
       /\ \A x \in R!Owned : whole[x] = lines[x] /\ lines[x] = R!Claim(R!Typed(x), R!Made[x])
       /\ \A x \in DOMAIN R!Kept : whole[x] = R!Kept[x]
  BY <1>3 DEF whole, lines
<1>15. ~package.provisional => R!Owned = DOMAIN R!Made
  BY <1>3, KeptFacts DEF RecInv, R!Inductive
<1>16. R!AsMade(R!Fresh, place')
  <2>1. R!Fresh.manifest # None /\ whole # None
    BY <1>4, <1>5, <1>6, Nones
  <2>2. R!Within(R!Fresh.manifest, whole)
    BY <1>4, <1>6, <1>14 DEF R!Within
  <2>3. DOMAIN whole \ DOMAIN R!Fresh.manifest \subseteq heir
    BY <1>4, <1>6, <1>14, KeptFacts
  <2>4. DOMAIN R!Fresh.manifest \subseteq DOMAIN R!Made \ heir
    BY <1>3, <1>4, <1>6, <1>13
  <2>5. \A x \in DOMAIN R!Fresh.manifest :
          place'[x] = R!Made[x] /\ R!Fresh.manifest[x] = R!Claim(R!Typed(x), R!Made[x])
    BY <1>4, <1>6, <1>11, <1>14
  <2> QED
    BY <1>4, <1>6, <1>8, <1>15, <2>1, <2>2, <2>3, <2>4, <2>5 DEF R!AsMade
<1>17. ASSUME NEW x \in DOMAIN whole \ DOMAIN R!Fresh.manifest
       PROVE  R!Installed /\ x \in DOMAIN R!Baseline /\ whole[x] = R!Baseline[x]
  <2>1. x \in DOMAIN R!Kept
    BY <1>4, <1>6, <1>14, <1>17
  <2> QED
    BY <1>14, <2>1, KeptFacts
<1> QED
  BY <1>8, <1>10, <1>12, <1>16, <1>17

-----------------------------------------------------------------------------
(***************************************************************************)
(* Records: the steps of the invariant                                     *)
(***************************************************************************)

\* A record of what was just installed counts.
LEMMA MadeCounts ==
  /\ package \in RecPackage /\ tree \in Revision /\ R!IsRecord(files)
  /\ heir \cap RecDirectory = {} /\ (heir # {} => package.provisional)
  /\ R!AsMade(files, place)
  => R!Installed /\ R!Counts
<1> SUFFICES ASSUME package \in RecPackage, tree \in Revision, R!IsRecord(files),
                    heir \cap RecDirectory = {}, heir # {} => package.provisional,
                    R!AsMade(files, place)
             PROVE  R!Installed /\ R!Counts
  OBVIOUS
<1>1. /\ R!Meta.format = 3 /\ R!Meta.rev = tree
      /\ R!Active # None /\ R!Baseline # None /\ R!Baseline = files.base[VersionOf[tree]]
      /\ DOMAIN R!Active \subseteq DOMAIN R!Made \ heir
      /\ R!Within(R!Active, R!Baseline) /\ DOMAIN R!Baseline \ DOMAIN R!Active \subseteq heir
  BY DEF R!AsMade, R!Meta, R!Active, R!Baseline
<1>2. R!Installed
  BY <1>1, Nones DEF R!Installed
<1>3. R!IsManifest(R!Active) /\ R!IsManifest(R!Baseline)
  BY <1>1, AVersion DEF R!IsRecord, R!Active
<1>4. ~package.provisional => R!Active = R!Baseline
  <2> SUFFICES ASSUME ~package.provisional PROVE R!Active = R!Baseline
    OBVIOUS
  <2>1. DOMAIN R!Active = DOMAIN R!Baseline /\ \A x \in DOMAIN R!Active : R!Active[x] = R!Baseline[x]
    BY <1>1 DEF R!Within
  <2> QED
    BY <1>3, <2>1, SameManifest
<1>5. package.kind = "meta" => DOMAIN R!Active = {} /\ DOMAIN R!Baseline = {}
  BY <1>1, <1>4, Described DEF R!Made
<1> QED
  BY <1>1, <1>2, <1>4, <1>5 DEF R!Counts

LEMMA RecInitially == R!Init => RecInv
<1> SUFFICES ASSUME R!Init PROVE RecInv
  OBVIOUS
<1>1. package \in RecPackage /\ tree \in Revision /\ op = R!Idle /\ op.step = "idle"
  BY DEF R!Init, R!Idle
<1>2. CASE files = R!NoRecord /\ place = [x \in RecPath |-> None] /\ heir = {}
  <2>1. R!IsRecord(files) /\ ~R!Installed
    BY <1>2, Nones DEF R!IsRecord, R!NoRecord, R!Installed, R!Meta
  <2> QED
    BY <1>1, <1>2, <2>1 DEF RecInv, R!TypeOK, R!Inductive
<1>3. ASSUME NEW r \in Revision, NEW format \in 0 .. 2, NEW stamped \in BOOLEAN,
             NEW licensed \in BOOLEAN,
             heir \in SUBSET ((DOMAIN package.made[r] \ RecDirectory) \ RecTrees),
             heir # {} => package.provisional,
             files = R!Earlier(package, r, format, heir, stamped, licensed),
             place = [x \in RecPath |->
               IF x \in heir THEN R!Heirs
               ELSE IF x \in DOMAIN package.made[r] \ RecDirectory THEN package.made[r][x] ELSE None]
      PROVE  RecInv
  <2> DEFINE lines == [x \in DOMAIN package.made[r] \ RecDirectory |->
                         R!Claim(R!Form(format, x), package.made[r][x])]
             active == [x \in DOMAIN lines \ heir |-> lines[x]]
  <2>1. /\ DOMAIN package.made[r] \subseteq RecPath
        /\ \A x \in DOMAIN package.made[r] : package.made[r][x] \in R!State
    BY <1>1, Described
  <2>2. R!IsManifest(lines)
    <3>1. ASSUME NEW x \in DOMAIN package.made[r]
          PROVE  /\ R!Claim(R!Form(format, x), package.made[r][x]) \in R!Line
                 /\ R!Claim(R!Form(format, x), package.made[r][x]).form # "shared"
      <4>1. format \in {0, 1, 2}
        OBVIOUS
      <4>2. R!Form(format, x) \in {"bare", "hash", "typed"}
        BY <4>1 DEF R!Form
      <4> QED
        BY <2>1, <4>2 DEF R!Claim, R!Shown, R!Line, R!State
    <3> QED
      BY <2>1, <3>1 DEF R!IsManifest
  <2>3. R!IsManifest(active) /\ DOMAIN active = DOMAIN lines \ heir
    BY <2>2 DEF R!IsManifest
  <2>4. /\ files.manifest = active /\ files.base = [R!NoRecord.base EXCEPT ![VersionOf[r]] = lines]
        /\ files.recipe = r
        /\ files.recipeAt = [R!NoRecord.recipeAt EXCEPT ![VersionOf[r]] = r]
        /\ files.meta = [format |-> format, rev |-> r, stamped |-> stamped, licensed |-> licensed,
                         shared |-> None, sealed |-> IF format = 2 THEN lines ELSE None,
                         bound |-> None]
        /\ files = [manifest |-> files.manifest, base |-> files.base, recipe |-> files.recipe,
                    recipeAt |-> files.recipeAt, meta |-> files.meta]
    BY <1>3 DEF R!Earlier
  <2>5. DOMAIN lines = DOMAIN package.made[r] \ RecDirectory
    OBVIOUS
  <2> HIDE DEF lines, active
  <2>6. /\ files.base \in [R!Version -> {files.base[w] : w \in R!Version}]
        /\ files.base[VersionOf[r]] = lines
        /\ \A w \in R!Version : files.base[w] \in {lines, None}
        /\ files.recipeAt \in [R!Version -> Revision \cup {None}]
    BY <2>4, AVersion DEF R!NoRecord
  <2>7. R!IsMeta(files.meta)
    <3>1. format \in 0 .. 4
      OBVIOUS
    <3>2. files.meta.sealed = None \/ R!IsManifest(files.meta.sealed)
      BY <2>2, <2>4
    <3> QED
      BY <2>4, <3>1, <3>2 DEF R!IsMeta
  <2>8. R!IsRecord(files)
    BY <2>2, <2>3, <2>4, <2>6, <2>7 DEF R!IsRecord
  <2>9. R!Active = active /\ R!Baseline = lines /\ R!Meta.format \in 0 .. 2
    BY <2>4, <2>6 DEF R!Active, R!Baseline, R!Meta
  <2>10. ~package.provisional => active = lines
    BY <1>3, <2>2, <2>3 DEF active, R!IsManifest
  <2>11. R!Counts
    <3>1. package.kind = "meta" => DOMAIN lines = {}
      BY <1>1, <2>5, Described
    <3>2. DOMAIN lines \cap RecDirectory = {} /\ active # None /\ lines # None
      BY <2>2, <2>3, <2>5, Nones
    <3>3. R!Meta.format # 4
      BY <2>9
    <3> QED
      BY <2>3, <2>9, <2>10, <3>1, <3>2, <3>3 DEF R!Counts
  <2>12. place \in [RecPath -> R!State \cup {None}]
    BY <1>3, <2>1 DEF R!State, R!Heirs
  <2>13. heir \subseteq RecPath /\ heir \cap (RecTrees \cup RecDirectory) = {}
    BY <1>3, <2>1
  <2> QED
    BY <1>1, <1>3, <2>8, <2>11, <2>12, <2>13 DEF RecInv, R!TypeOK, R!Inductive
<1> QED
  BY <1>2, <1>3 DEF R!Init

\* What the invariant says of a record that counts.
LEMMA CountsFacts ==
  ASSUME RecInv
  PROVE  /\ package \in RecPackage /\ tree \in Revision /\ heir \subseteq RecPath
         /\ place \in [RecPath -> R!State \cup {None}] /\ R!IsRecord(files)
         /\ heir \cap RecTrees = {} /\ heir \cap RecDirectory = {}
         /\ heir # {} => package.provisional
         /\ R!Installed =>
              /\ R!Counts /\ R!IsMeta(R!Meta) /\ R!Meta.rev \in Revision
              /\ R!IsManifest(R!Active) /\ R!IsManifest(R!Baseline)
<1>1. /\ package \in RecPackage /\ tree \in Revision /\ heir \subseteq RecPath
      /\ place \in [RecPath -> R!State \cup {None}] /\ R!IsRecord(files)
  BY DEF RecInv, R!TypeOK
<1>2. /\ heir \cap RecTrees = {} /\ heir \cap RecDirectory = {}
      /\ heir # {} => package.provisional
      /\ R!Installed => R!Counts
  BY DEF RecInv, R!Inductive
<1>3. ASSUME R!Installed
      PROVE  /\ R!IsMeta(R!Meta) /\ R!Meta.rev \in Revision
             /\ R!IsManifest(R!Active) /\ R!IsManifest(R!Baseline)
  <2>1. R!IsMeta(R!Meta)
    BY <1>1, <1>3 DEF R!IsRecord, R!Installed, R!Meta
  <2>2. R!Meta.rev \in Revision
    BY <2>1 DEF R!IsMeta
  <2>3. R!Active # None /\ R!Baseline # None
    BY <1>2, <1>3 DEF R!Counts
  <2> QED
    BY <1>1, <2>1, <2>2, <2>3, AVersion DEF R!IsRecord, R!Active, R!Baseline, R!Meta
<1> QED
  BY <1>1, <1>2, <1>3

\* Lines where the judges look for them.
LEMMA LineFacts ==
  ASSUME NEW m, R!IsManifest(m), NEW x \in DOMAIN m
  PROVE  /\ x \in RecPath /\ m[x] \in R!Line
         /\ m[x].form \in {"bare", "hash", "typed", "shared"}
         /\ m[x].form = "shared" => x \in RecDirectory
<1>1. x \in RecPath /\ m[x] \in R!Line /\ (m[x].form = "shared" => x \in RecDirectory)
  BY DEF R!IsManifest
<1> QED
  BY <1>1 DEF R!Line

LEMMA KeepsMigrateTyped ==
  ASSUME RecInv, R!MigrateTyped
  PROVE  /\ RecInv' /\ R!Installed /\ R!Active' = R!Active /\ R!Baseline' = R!Baseline /\ op' = op
         /\ R!AllWellTyped(R!Baseline)
<1>1. /\ R!Installed /\ op = R!Idle /\ op' = R!Idle /\ op.step = "idle" /\ R!AllWellTyped(R!Baseline)
  BY DEF R!MigrateTyped, R!Asked, R!MigratableTyped, R!Same, R!Idle
<1>2. /\ package \in RecPackage /\ tree \in Revision /\ heir \subseteq RecPath
      /\ place \in [RecPath -> R!State \cup {None}] /\ R!IsRecord(files)
      /\ R!Counts /\ R!IsMeta(files.meta)
  BY <1>1, CountsFacts DEF R!Meta
<1>3. /\ files'.manifest = files.manifest /\ files'.base = files.base
      /\ files'.recipe = files.recipe /\ files'.recipeAt = files.recipeAt
      /\ files'.meta = [files.meta EXCEPT !.format = 3, !.shared = {}]
      /\ files' = [manifest |-> files'.manifest, base |-> files'.base, recipe |-> files'.recipe,
                   recipeAt |-> files'.recipeAt, meta |-> files'.meta]
  BY <1>2 DEF R!MigrateTyped, R!IsRecord
<1>4. /\ files'.meta.format = 3 /\ files'.meta.rev = files.meta.rev
      /\ files'.meta.sealed = files.meta.sealed
      /\ files'.meta \in [format : 0 .. 4, rev : Revision, stamped : BOOLEAN, licensed : BOOLEAN,
            shared : (SUBSET RecDirectory) \cup {None}, sealed : {files'.meta.sealed},
            bound : {files'.meta.bound}]
  <2>1. 3 \in 0 .. 4 /\ {} \in (SUBSET RecDirectory) \cup {None}
    OBVIOUS
  <2>2. files.meta \in [format : 0 .. 4, rev : Revision, stamped : BOOLEAN, licensed : BOOLEAN,
            shared : (SUBSET RecDirectory) \cup {None}, sealed : {files.meta.sealed},
            bound : {files.meta.bound}]
    BY <1>2 DEF R!IsMeta
  <2>3. /\ files'.meta.format = 3 /\ files'.meta.rev = files.meta.rev
        /\ files'.meta.sealed = files.meta.sealed /\ files'.meta.bound = files.meta.bound
    BY <1>3, <2>2
  <2> QED
    BY <1>3, <2>1, <2>2, <2>3
<1>5. R!IsMeta(files'.meta)
  BY <1>2, <1>4 DEF R!IsMeta
<1>6. R!IsRecord(files')
  BY <1>2, <1>3, <1>5 DEF R!IsRecord
<1>7. R!Active' = R!Active /\ R!Baseline' = R!Baseline /\ R!Meta'.format = 3
  BY <1>3, <1>4 DEF R!Active, R!Baseline, R!Meta
<1>8. package' = package /\ tree' = tree /\ place' = place /\ heir' = heir
  BY DEF R!MigrateTyped
<1>9. R!Counts'
  BY <1>2, <1>7, <1>8 DEF R!Counts
<1>10. R!TypeOK'
  BY <1>1, <1>2, <1>6, <1>8 DEF R!TypeOK
<1>11. R!Inductive'
  BY <1>1, <1>8, <1>9 DEF RecInv, R!Inductive
<1> QED
  BY <1>1, <1>7, <1>10, <1>11 DEF RecInv

LEMMA KeepsMigrateLegacy ==
  ASSUME RecInv, R!MigrateLegacy
  PROVE  /\ RecInv' /\ R!Installed /\ R!Active = R!Baseline /\ op' = op
         /\ R!Meta.format <= 1 /\ R!AllMatch(R!Active)
         /\ DOMAIN R!Active' = DOMAIN R!Active /\ DOMAIN R!Baseline' = DOMAIN R!Baseline
         /\ \A x \in DOMAIN R!Active : R!Baseline'[x] = R!Claim("typed", place[x])
<1> DEFINE lines == [x \in DOMAIN R!Active |-> R!Claim("typed", place[x])]
           whole == [x \in DOMAIN lines \cup DOMAIN R!NoLines |->
                       IF x \in DOMAIN R!NoLines THEN R!NoLines[x] ELSE lines[x]]
           v == VersionOf[tree]
<1>1. /\ R!Installed /\ op = R!Idle /\ op' = R!Idle /\ op.step = "idle" /\ R!Active = R!Baseline
      /\ R!AllMatch(R!Active) /\ R!Meta.format <= 1 /\ R!Meta.rev = tree
  BY DEF R!MigrateLegacy, R!Asked, R!MigratableLegacy, R!Same, R!Idle
<1>2. /\ package \in RecPackage /\ tree \in Revision /\ v \in R!Version /\ heir \subseteq RecPath
      /\ place \in [RecPath -> R!State \cup {None}] /\ R!IsRecord(files)
      /\ R!Counts /\ R!IsManifest(R!Active) /\ R!IsMeta(R!Meta)
  BY <1>1, CountsFacts, AVersion
<1>3. R!IsManifest(lines) /\ DOMAIN lines = DOMAIN R!Active
  <2>1. ASSUME NEW x \in DOMAIN R!Active PROVE x \in RecPath /\ place[x] \in R!State
    <3>1. x \in RecPath /\ place[x] # None
      BY <1>1, <1>2, LineFacts DEF R!AllMatch, R!Matches
    <3> QED
      BY <1>2, <3>1
  <2> QED
    BY <2>1, Lined DEF R!IsManifest
<1>4. whole = lines
  <2>1. DOMAIN whole = DOMAIN lines /\ \A x \in DOMAIN lines : whole[x] = lines[x]
    BY EmptyLines
  <2> QED
    BY <2>1
<1>5. /\ files'.manifest = lines /\ files'.recipe = tree
      /\ files'.base = [files.base EXCEPT ![v] = whole]
      /\ files'.recipeAt = [files.recipeAt EXCEPT ![v] = tree]
      /\ files'.meta = [format |-> 3, rev |-> tree, stamped |-> TRUE,
                        licensed |-> package.kind # "meta", shared |-> package.shared[tree],
                        sealed |-> whole, bound |-> None]
      /\ files' = [manifest |-> files'.manifest, base |-> files'.base, recipe |-> files'.recipe,
                   recipeAt |-> files'.recipeAt, meta |-> files'.meta]
  BY <1>2 DEF R!MigrateLegacy, R!Written
<1>6. package' = package /\ tree' = tree /\ place' = place /\ heir' = heir
  BY DEF R!MigrateLegacy
<1>7. \A x \in DOMAIN R!Active : lines[x] = R!Claim("typed", place[x])
  OBVIOUS
<1> HIDE DEF lines, whole
<1>8. /\ DOMAIN files'.base = R!Version /\ files'.base[v] = lines
      /\ files'.base \in [R!Version -> {files'.base[w] : w \in R!Version}]
      /\ \A w \in R!Version \ {v} : files'.base[w] = files.base[w]
      /\ files'.recipeAt \in [R!Version -> Revision \cup {None}]
  BY <1>2, <1>4, <1>5 DEF R!IsRecord
<1>9. R!IsMeta(files'.meta)
  BY <1>2, <1>3, <1>4, <1>5, Described DEF R!IsMeta
<1>10. \A w \in R!Version : files'.base[w] = None \/ R!IsManifest(files'.base[w])
  BY <1>2, <1>3, <1>8 DEF R!IsRecord
<1>11. R!IsRecord(files')
  BY <1>2, <1>3, <1>5, <1>8, <1>9, <1>10 DEF R!IsRecord
<1>12. R!Active' = lines /\ R!Baseline' = lines /\ R!Meta'.format = 3
  BY <1>5, <1>8 DEF R!Active, R!Baseline, R!Meta
<1>13. R!Counts'
  BY <1>1, <1>2, <1>3, <1>6, <1>12, Nones DEF R!Counts
<1>14. R!TypeOK'
  BY <1>1, <1>2, <1>6, <1>11 DEF R!TypeOK
<1>15. R!Inductive'
  BY <1>1, <1>6, <1>13 DEF RecInv, R!Inductive
<1> QED
  BY <1>1, <1>3, <1>7, <1>12, <1>14, <1>15 DEF RecInv

LEMMA MadeCountsNext ==
  ASSUME package' \in RecPackage, tree' \in Revision, R!IsRecord(files'),
         heir' \cap RecDirectory = {}, heir' # {} => package'.provisional,
         R!AsMade(files, place)'
  PROVE  R!Installed' /\ R!Counts'
<1>1. (/\ package \in RecPackage /\ tree \in Revision /\ R!IsRecord(files)
       /\ heir \cap RecDirectory = {} /\ (heir # {} => package.provisional)
       /\ R!AsMade(files, place)
       => R!Installed /\ R!Counts)'
  BY MadeCounts, PTL
<1> QED
  BY <1>1

LEMMA KeepsInstallSource ==
  ASSUME RecInv, R!InstallSource
  PROVE  /\ RecInv'
         /\ \A x \in DOMAIN R!Baseline' \ DOMAIN R!Active' :
              R!Installed /\ x \in DOMAIN R!Baseline /\ R!Baseline'[x] = R!Baseline[x]
<1>1. /\ R!Builds /\ files' = R!Fresh /\ op' = [step |-> "written"] /\ op'.step = "written"
      /\ package' = package /\ tree' = tree /\ heir' = heir
  BY DEF R!InstallSource, R!Builds
<1>2. /\ package \in RecPackage /\ tree \in Revision /\ heir \subseteq RecPath
      /\ heir \cap RecTrees = {} /\ heir \cap RecDirectory = {}
      /\ heir # {} => package.provisional
  BY CountsFacts
<1>3. /\ R!IsRecord(R!Fresh) /\ R!AsMade(R!Fresh, place')
      /\ place' \in [RecPath -> R!State \cup {None}]
  BY <1>1, FreshFacts
<1>4. R!AsMade(files, place)'
  BY <1>1, <1>3 DEF R!AsMade, R!Made
<1>5. R!IsRecord(files)'
  BY <1>1, <1>3
<1>6. R!Installed' /\ R!Counts'
  BY <1>1, <1>2, <1>4, <1>5, MadeCountsNext
<1>7. R!TypeOK'
  BY <1>1, <1>2, <1>3, <1>5 DEF R!TypeOK
<1>8. R!Inductive'
  BY <1>1, <1>2, <1>4, <1>6 DEF R!Inductive
<1>9. R!Baseline' = R!Fresh.base[VersionOf[tree]] /\ R!Active' = R!Fresh.manifest
  BY <1>1, <1>4 DEF R!AsMade, R!Baseline, R!Meta, R!Active
<1> QED
  BY <1>1, <1>7, <1>8, <1>9, FreshFacts DEF RecInv

LEMMA KeepsInstallUnjournaled ==
  ASSUME RecInv, R!InstallUnjournaled
  PROVE  /\ RecInv' /\ R!Meta' = R!Meta
         /\ R!Installed => R!Baseline' = R!Baseline
<1>1. /\ R!Builds /\ package.kind # "source" /\ files' = R!Pruned
      /\ op' = [step |-> "files", new |-> R!Fresh, at |-> 1]
      /\ op'.step = "files" /\ op'.new = R!Fresh /\ op'.at = 1
      /\ package' = package /\ tree' = tree /\ heir' = heir
  BY DEF R!InstallUnjournaled, R!Builds
<1>2. /\ package \in RecPackage /\ tree \in Revision /\ heir \subseteq RecPath
      /\ heir \cap RecTrees = {} /\ heir \cap RecDirectory = {}
      /\ heir # {} => package.provisional
      /\ R!Installed => R!Counts
  BY CountsFacts
<1>3. /\ R!IsRecord(R!Fresh) /\ R!AsMade(R!Fresh, place')
      /\ place' \in [RecPath -> R!State \cup {None}]
      /\ \A w \in R!Version \ {VersionOf[tree]} : R!Fresh.base[w] = R!Pruned.base[w]
  BY <1>1, FreshFacts
<1>4. /\ R!IsRecord(files)' /\ files'.manifest = files.manifest /\ files'.meta = files.meta
      /\ R!Installed => files'.base[VersionOf[files.meta.rev]] = R!Baseline
  BY <1>1, PrunedFacts
<1>5. /\ R!Meta' = R!Meta /\ R!Active' = R!Active /\ (R!Installed' <=> R!Installed)
      /\ R!Installed => R!Baseline' = R!Baseline
  BY <1>4 DEF R!Meta, R!Active, R!Installed, R!Baseline
<1>6. R!Installed' => R!Counts'
  <2>1. R!Closed => R!Closed'
    BY <1>1, <1>5 DEF R!Closed, R!AllWellTyped, R!WellTyped
  <2> QED
    BY <1>1, <1>2, <1>5, <2>1 DEF R!Counts
<1>7. R!AsMade(op.new, place)'
  BY <1>1, <1>3 DEF R!AsMade, R!Made
<1>8. R!Torn'
  <2>1. R!Installed' =>
          \A x \in DOMAIN op'.new.base[VersionOf[tree']] \ DOMAIN op'.new.manifest :
            x \in DOMAIN R!Baseline' /\ op'.new.base[VersionOf[tree']][x] = R!Baseline'[x]
    BY <1>1, <1>5, FreshFacts
  <2>2. \A w \in R!Version \ {VersionOf[tree']} : op'.new.base[w] = files'.base[w]
    BY <1>1, <1>3
  <2> QED
    BY <1>1, <1>7, <2>1, <2>2 DEF R!Torn
<1>9. R!TypeOK'
  <2>1. op' \in [step : {"files"}, new : {op'.new}, at : 1 .. Len(R!File)]
    BY <1>1 DEF R!File
  <2> QED
    BY <1>1, <1>2, <1>3, <1>4, <2>1 DEF R!TypeOK
<1>10. R!Inductive'
  BY <1>1, <1>2, <1>6, <1>8 DEF R!Inductive
<1> QED
  BY <1>5, <1>9, <1>10 DEF RecInv

LEMMA KeepsStop ==
  ASSUME RecInv, R!Stop
  PROVE  RecInv' /\ R!Meta' = R!Meta /\ R!Baseline' = R!Baseline
<1>1. /\ op' = R!Idle /\ op'.step = "idle" /\ package' = package /\ tree' = tree /\ place' = place
      /\ heir' = heir /\ files' = files
  BY DEF R!Stop, R!Idle
<1>2. R!Meta' = R!Meta /\ R!Baseline' = R!Baseline
  BY <1>1 DEF R!Meta, R!Baseline
<1>3. R!Installed' => R!Counts'
  BY <1>1 DEF RecInv, R!Inductive, R!Counts, R!Closed, R!Installed, R!Meta, R!Active, R!Baseline,
              R!AllWellTyped, R!WellTyped
<1>4. R!TypeOK'
  BY <1>1 DEF RecInv, R!TypeOK
<1>5. R!Inductive'
  BY <1>1, <1>3 DEF RecInv, R!Inductive
<1> QED
  BY <1>2, <1>4, <1>5 DEF RecInv

LEMMA KeepsClose ==
  ASSUME RecInv, R!Close
  PROVE  RecInv' /\ R!Installed /\ R!Baseline' = R!Baseline /\ R!Meta.format = 3
<1>1. /\ op.step = "written" /\ op' = R!Idle /\ op'.step = "idle"
      /\ package' = package /\ tree' = tree /\ place' = place /\ heir' = heir
  BY DEF R!Close, R!Idle
<1>2. /\ package \in RecPackage /\ tree \in Revision /\ R!IsRecord(files)
      /\ R!Installed => R!Counts /\ R!IsMeta(R!Meta)
  BY CountsFacts
<1>3. /\ R!Meta = [format |-> 3, rev |-> tree, stamped |-> TRUE,
                   licensed |-> package.kind # "meta", shared |-> package.shared[tree],
                   sealed |-> files.base[VersionOf[tree]], bound |-> None]
      /\ R!AsMade(files, place)
  BY <1>1 DEF RecInv, R!Inductive, R!AsMade, R!Meta
<1>4. R!Installed
  BY <1>3, Nones DEF R!Installed
<1>5. CASE ~R!Intact(tree, TRUE)
  <2>1. files' = files
    BY <1>5 DEF R!Close
  <2>2. R!Meta' = R!Meta /\ R!Baseline' = R!Baseline /\ R!Active' = R!Active
    BY <2>1 DEF R!Meta, R!Baseline, R!Active
  <2>3. R!Counts'
    BY <1>1, <1>2, <1>3, <1>4, <2>2 DEF R!Counts
  <2>4. R!TypeOK'
    BY <1>1, <2>1 DEF RecInv, R!TypeOK
  <2>5. R!Inductive'
    BY <1>1, <2>3 DEF RecInv, R!Inductive
  <2> QED
    BY <1>3, <1>4, <2>2, <2>4, <2>5 DEF RecInv
<1>6. CASE R!Intact(tree, TRUE)
  <2> DEFINE bound == [rev |-> R!Meta.rev, payload |-> R!PlanPayload]
  <2>1. files' = [files EXCEPT !.meta.format = 4, !.meta.bound = bound]
    BY <1>6 DEF R!Close
  <2> HIDE DEF bound
  <2>2. /\ files'.manifest = files.manifest /\ files'.base = files.base
        /\ files'.recipe = files.recipe /\ files'.recipeAt = files.recipeAt
        /\ files'.meta = [files.meta EXCEPT !.format = 4, !.bound = bound]
        /\ files' = [manifest |-> files'.manifest, base |-> files'.base, recipe |-> files'.recipe,
                     recipeAt |-> files'.recipeAt, meta |-> files'.meta]
    BY <1>2, <2>1 DEF R!IsRecord
  <2>3. /\ R!Meta'.format = 4 /\ R!Meta'.rev = tree /\ R!Meta'.stamped = TRUE
        /\ R!Meta'.licensed = (package.kind # "meta") /\ R!Meta'.shared = package.shared[tree]
        /\ R!Meta'.sealed = files.base[VersionOf[tree]] /\ R!Meta'.bound = bound
        /\ files'.meta \in [format : {4}, rev : {tree}, stamped : {TRUE},
              licensed : {package.kind # "meta"}, shared : {package.shared[tree]},
              sealed : {R!Meta'.sealed}, bound : {R!Meta'.bound}]
    <3> DEFINE licensed == package.kind # "meta"
               sealed == files.base[VersionOf[tree]]
               shared == package.shared[tree]
    <3>1. files.meta = [format |-> 3, rev |-> tree, stamped |-> TRUE, licensed |-> licensed,
                        shared |-> shared, sealed |-> sealed, bound |-> None]
      BY <1>3 DEF R!Meta
    <3> HIDE DEF licensed, sealed, shared
    <3>2. files.meta \in [format : {3}, rev : {tree}, stamped : {TRUE}, licensed : {licensed},
                          shared : {shared}, sealed : {sealed}, bound : {None}]
      BY <3>1
    <3>3. files'.meta \in [format : {4}, rev : {tree}, stamped : {TRUE}, licensed : {licensed},
                           shared : {shared}, sealed : {sealed}, bound : {bound}]
      BY <2>2, <3>2
    <3> QED
      BY <3>3 DEF R!Meta, licensed, sealed, shared
  <2>4. /\ R!Baseline' = R!Baseline /\ R!Active' = R!Active
        /\ R!Baseline = files.base[VersionOf[tree]]
    BY <1>3, <2>2, <2>3 DEF R!Meta, R!Baseline, R!Active
  <2>5. R!IsMeta(files'.meta)
    <3>1. 4 \in 0 .. 4 /\ package.shared[tree] \in (SUBSET RecDirectory) \cup {None}
          /\ (package.kind # "meta") \in BOOLEAN
      BY <1>2, Described
    <3>2. files'.meta.sealed = None \/ R!IsManifest(files'.meta.sealed)
      BY <1>2, <2>3, AVersion DEF R!IsRecord, R!Meta
    <3> QED
      BY <1>2, <2>3, <3>1, <3>2 DEF R!IsMeta, R!Meta
  <2>6. R!IsRecord(files')
    BY <1>2, <2>2, <2>5 DEF R!IsRecord
  <2>7. R!Closed'
    <3>1. R!AllWellTyped(R!Baseline) /\ R!Coherent
      BY <1>6 DEF R!Intact
    <3>2. ASSUME NEW x \in DOMAIN R!Baseline PROVE R!WellTyped(x, R!Baseline[x])'
      <4>1. R!WellTyped(x, R!Baseline[x])
        BY <3>1 DEF R!AllWellTyped
      <4> QED
        BY <1>3, <2>3, <2>4, <4>1 DEF R!WellTyped
    <3>3. R!AllWellTyped(R!Meta.sealed)'
      BY <2>3, <2>4, <3>2 DEF R!AllWellTyped
    <3>4. package.kind = "binary" /\ ~package.provisional => bound.payload = R!Baseline
      BY <3>1 DEF bound, R!Coherent, R!PlanPayload
    <3> QED
      BY <1>1, <1>2, <2>3, <2>4, <3>3, <3>4, Described DEF R!Closed
  <2>8. R!Counts'
    BY <1>1, <1>2, <1>4, <2>3, <2>4, <2>7 DEF R!Counts
  <2>9. R!TypeOK'
    BY <1>1, <2>6 DEF RecInv, R!TypeOK
  <2>10. R!Inductive'
    BY <1>1, <2>8 DEF RecInv, R!Inductive
  <2> QED
    BY <1>3, <1>4, <2>4, <2>9, <2>10 DEF RecInv
<1> QED
  BY <1>5, <1>6

\* What the others do not touch counts as before.
LEMMA KeepsCede ==
  ASSUME RecInv, NEW x \in RecPath, R!Cede(x)
  PROVE  RecInv' /\ R!Meta' = R!Meta /\ op' = op
<1>1. /\ op = R!Idle /\ op' = op /\ op.step = "idle" /\ R!Installed /\ package.provisional
      /\ x \in DOMAIN R!Active /\ x \notin RecTrees /\ x \notin RecDirectory
      /\ files' = [files EXCEPT !.manifest = [y \in DOMAIN R!Active \ {x} |-> R!Active[y]]]
      /\ place' = [place EXCEPT ![x] = R!Heirs]
      /\ heir' = heir \cup {x} /\ package' = package /\ tree' = tree
  BY DEF R!Cede, R!Idle
<1> DEFINE less == [y \in DOMAIN R!Active \ {x} |-> R!Active[y]]
<1>2. /\ package \in RecPackage /\ tree \in Revision /\ heir \subseteq RecPath
      /\ place \in [RecPath -> R!State \cup {None}] /\ R!IsRecord(files)
      /\ heir \cap RecTrees = {} /\ heir \cap RecDirectory = {}
      /\ R!Counts /\ R!IsManifest(R!Active)
  BY <1>1, CountsFacts
<1>3. R!IsManifest(less) /\ DOMAIN less = DOMAIN R!Active \ {x}
  BY <1>2 DEF R!IsManifest
<1>4. files' = [files EXCEPT !.manifest = less]
  BY <1>1
<1> HIDE DEF less
<1>5. /\ files'.manifest = less /\ files'.base = files.base
      /\ files'.recipe = files.recipe /\ files'.recipeAt = files.recipeAt
      /\ files'.meta = files.meta
      /\ files' = [manifest |-> files'.manifest, base |-> files'.base, recipe |-> files'.recipe,
                   recipeAt |-> files'.recipeAt, meta |-> files'.meta]
  BY <1>2, <1>4 DEF R!IsRecord
<1>6. R!IsRecord(files')
  BY <1>2, <1>3, <1>5 DEF R!IsRecord
<1>7. R!Meta' = R!Meta /\ R!Baseline' = R!Baseline /\ R!Active' = less
  BY <1>5 DEF R!Meta, R!Baseline, R!Active
<1>8. R!Counts'
  <2>1. R!Closed => R!Closed'
    BY <1>1, <1>7 DEF R!Closed, R!AllWellTyped, R!WellTyped
  <2>2. package.kind # "meta"
    BY <1>1, <1>2, Described
  <2> QED
    BY <1>1, <1>2, <1>3, <1>7, <2>1, <2>2, Nones DEF R!Counts
<1>9. place' \in [RecPath -> R!State \cup {None}]
  <2>1. R!Heirs \in R!State
    BY DEF R!Heirs, R!State
  <2> QED
    BY <1>1, <1>2, <2>1
<1>10. R!TypeOK'
  BY <1>1, <1>2, <1>6, <1>9 DEF R!TypeOK
<1>11. R!Inductive'
  BY <1>1, <1>2, <1>8 DEF R!Inductive
<1> QED
  BY <1>1, <1>7, <1>10, <1>11 DEF RecInv

\* Of the rest, none touches the record.
LEMMA KeepsOutside ==
  ASSUME RecInv, files' = files, package' = package, op' = op,
         op = R!Idle \/ (tree' = tree /\ heir' = heir /\ place' = place),
         tree' \in Revision, place' \in [RecPath -> R!State \cup {None}], heir' \subseteq heir
  PROVE  RecInv' /\ R!Meta' = R!Meta
<1>1. /\ heir \subseteq RecPath /\ heir \cap RecTrees = {} /\ heir \cap RecDirectory = {}
      /\ heir # {} => package.provisional
      /\ R!Installed => R!Counts
  BY CountsFacts
<1>2. R!Meta' = R!Meta /\ R!Baseline' = R!Baseline /\ R!Active' = R!Active
  BY DEF R!Meta, R!Baseline, R!Active
<1>3. R!Installed' => R!Counts'
  <2>1. R!Closed => R!Closed'
    BY <1>2 DEF R!Closed, R!AllWellTyped, R!WellTyped
  <2>2. R!Installed' => R!Installed
    BY <1>2 DEF R!Installed
  <2> QED
    BY <1>1, <1>2, <2>1, <2>2 DEF R!Counts
<1>4. R!TypeOK'
  BY <1>1 DEF RecInv, R!TypeOK
<1>5. /\ op'.step = "written" => R!AsMade(files, place)'
      /\ op'.step = "files" => R!Torn'
  <2>1. CASE op = R!Idle
    BY <2>1 DEF R!Idle
  <2>2. CASE tree' = tree /\ heir' = heir /\ place' = place
    BY <1>2, <2>2 DEF RecInv, R!Inductive, R!AsMade, R!Made, R!Torn, R!Installed
  <2> QED
    BY <2>1, <2>2
<1>6. R!Inductive'
  BY <1>1, <1>3, <1>5 DEF R!Inductive
<1> QED
  BY <1>2, <1>4, <1>6 DEF RecInv

Mixed(a, b, f) == [a EXCEPT ![f] = b[f]]

\* The files of a record are well formed one by one.
LEMMA MixedRecord ==
  ASSUME NEW a, NEW b, R!IsRecord(a), R!IsRecord(b),
         NEW f \in {"manifest", "base", "recipe", "recipeAt", "meta"}
  PROVE  LET c == Mixed(a, b, f) IN
         /\ R!IsRecord(c)
         /\ c.manifest = IF f = "manifest" THEN b.manifest ELSE a.manifest
         /\ c.base = IF f = "base" THEN b.base ELSE a.base
         /\ c.recipe = IF f = "recipe" THEN b.recipe ELSE a.recipe
         /\ c.recipeAt = IF f = "recipeAt" THEN b.recipeAt ELSE a.recipeAt
         /\ c.meta = IF f = "meta" THEN b.meta ELSE a.meta
<1> DEFINE c == Mixed(a, b, f)
<1>0. c = [a EXCEPT ![f] = b[f]]
  BY DEF Mixed
<1> HIDE DEF c
<1>1. /\ a = [manifest |-> a.manifest, base |-> a.base, recipe |-> a.recipe,
              recipeAt |-> a.recipeAt, meta |-> a.meta]
      /\ c = [manifest |-> c.manifest, base |-> c.base, recipe |-> c.recipe,
              recipeAt |-> c.recipeAt, meta |-> c.meta]
  BY <1>0 DEF R!IsRecord
<1>2. /\ c.manifest = IF f = "manifest" THEN b.manifest ELSE a.manifest
      /\ c.base = IF f = "base" THEN b.base ELSE a.base
      /\ c.recipe = IF f = "recipe" THEN b.recipe ELSE a.recipe
      /\ c.recipeAt = IF f = "recipeAt" THEN b.recipeAt ELSE a.recipeAt
      /\ c.meta = IF f = "meta" THEN b.meta ELSE a.meta
  BY <1>0, <1>1
<1>3. /\ c.base \in [R!Version -> {c.base[v] : v \in R!Version}]
      /\ c.recipe \in Revision \cup {None}
      /\ c.recipeAt \in [R!Version -> Revision \cup {None}]
      /\ \A v \in R!Version : c.base[v] = None \/ R!IsManifest(c.base[v])
  BY <1>2 DEF R!IsRecord
<1>4. /\ c.manifest = None \/ R!IsManifest(c.manifest)
      /\ c.meta.format = None \/ R!IsMeta(c.meta)
  BY <1>2 DEF R!IsRecord
<1> QED
  BY <1>1, <1>2, <1>3, <1>4 DEF R!IsRecord, c

\* The file written, and what is left to write.
LEMMA WriteFacts ==
  ASSUME RecInv, R!WriteFile
  PROVE  /\ op.step = "files" /\ R!Torn /\ R!IsRecord(files) /\ R!IsRecord(op.new)
         /\ package' = package /\ tree' = tree /\ place' = place /\ heir' = heir
         /\ R!IsRecord(files') /\ op' # op
         /\ op.at \in 1 .. 5
         /\ files'.manifest = IF op.at = 1 THEN op.new.manifest ELSE files.manifest
         /\ files'.base = IF op.at = 2 THEN op.new.base ELSE files.base
         /\ files'.recipe = IF op.at = 3 THEN op.new.recipe ELSE files.recipe
         /\ files'.recipeAt = IF op.at = 4 THEN op.new.recipeAt ELSE files.recipeAt
         /\ files'.meta = IF op.at = 5 THEN op.new.meta ELSE files.meta
         /\ op.at = 5 => op' = [step |-> "written"]
         /\ op.at # 5 => /\ op' \in [step : {"files"}, new : {op.new}, at : 1 .. 5]
                         /\ op'.at = op.at + 1
<1>1. op.step = "files" /\ R!Torn /\ R!IsRecord(files)
      /\ package' = package /\ tree' = tree /\ place' = place /\ heir' = heir
  BY DEF RecInv, R!TypeOK, R!Inductive, R!WriteFile
<1>2. op \in [step : {"files"}, new : {op.new}, at : 1 .. Len(R!File)] /\ R!IsRecord(op.new)
  BY <1>1 DEF RecInv, R!TypeOK, R!Idle
<1>3. Len(R!File) = 5
  BY DEF R!File
<1>4. op \in [step : {"files"}, new : {op.new}, at : 1 .. 5] /\ op.at \in 1 .. 5
  BY <1>2, <1>3
<1>5. /\ op.at = 1 => R!File[op.at] = "manifest"
      /\ op.at = 2 => R!File[op.at] = "base"
      /\ op.at = 3 => R!File[op.at] = "recipe"
      /\ op.at = 4 => R!File[op.at] = "recipeAt"
      /\ op.at = 5 => R!File[op.at] = "meta"
  BY DEF R!File
<1> DEFINE f == R!File[op.at]
<1>6. files' = [files EXCEPT ![f] = op.new[f]]
      /\ op' = IF op.at = 5 THEN [step |-> "written"] ELSE [op EXCEPT !.at = op.at + 1]
  BY <1>3 DEF R!WriteFile
<1>7. f \in {"manifest", "base", "recipe", "recipeAt", "meta"}
  BY <1>4, <1>5
<1> HIDE DEF f
<1>8. /\ R!IsRecord(files')
      /\ files'.manifest = IF f = "manifest" THEN op.new.manifest ELSE files.manifest
      /\ files'.base = IF f = "base" THEN op.new.base ELSE files.base
      /\ files'.recipe = IF f = "recipe" THEN op.new.recipe ELSE files.recipe
      /\ files'.recipeAt = IF f = "recipeAt" THEN op.new.recipeAt ELSE files.recipeAt
      /\ files'.meta = IF f = "meta" THEN op.new.meta ELSE files.meta
  <2>1. files' = Mixed(files, op.new, f)
    BY <1>6 DEF Mixed
  <2> QED
    BY <1>1, <1>2, <1>7, <2>1, MixedRecord
<1>9. /\ f = "manifest" <=> op.at = 1
      /\ f = "base" <=> op.at = 2
      /\ f = "recipe" <=> op.at = 3
      /\ f = "recipeAt" <=> op.at = 4
      /\ f = "meta" <=> op.at = 5
  BY <1>4, <1>5 DEF f
<1>10. op.at # 5 => /\ op' \in [step : {"files"}, new : {op.new}, at : 1 .. 5]
                    /\ op'.at = op.at + 1
  BY <1>4, <1>6
<1>11. op' # op
  <2>1. CASE op.at = 5
    BY <1>1, <1>6, <2>1
  <2>2. CASE op.at # 5
    BY <1>4, <1>10, <2>2
  <2> QED
    BY <2>1, <2>2
<1>12. /\ files'.manifest = IF op.at = 1 THEN op.new.manifest ELSE files.manifest
       /\ files'.base = IF op.at = 2 THEN op.new.base ELSE files.base
       /\ files'.recipe = IF op.at = 3 THEN op.new.recipe ELSE files.recipe
       /\ files'.recipeAt = IF op.at = 4 THEN op.new.recipeAt ELSE files.recipeAt
       /\ files'.meta = IF op.at = 5 THEN op.new.meta ELSE files.meta
  BY <1>8, <1>9
<1> QED
  BY <1>1, <1>2, <1>4, <1>6, <1>8, <1>10, <1>11, <1>12

LEMMA KeepsWriteFile ==
  ASSUME RecInv, R!WriteFile
  PROVE  /\ RecInv' /\ op' # op
         /\ R!Installed =>
              \A x \in DOMAIN R!Baseline' \ DOMAIN R!Active' :
                x \in DOMAIN R!Baseline \ DOMAIN R!Active => R!Baseline'[x] = R!Baseline[x]
<1> DEFINE v == VersionOf[tree]
           whole == op.new.base[v]
<1>1. /\ op.step = "files" /\ R!Torn /\ op.at \in 1 .. 5 /\ R!IsRecord(op.new)
      /\ package' = package /\ tree' = tree /\ place' = place /\ heir' = heir
      /\ op' # op /\ R!IsRecord(files') /\ R!IsRecord(files)
  BY WriteFacts
<1>2. /\ package \in RecPackage /\ tree \in Revision /\ heir \subseteq RecPath
      /\ place \in [RecPath -> R!State \cup {None}]
      /\ heir \cap RecTrees = {} /\ heir \cap RecDirectory = {}
      /\ heir # {} => package.provisional
      /\ R!Installed => R!Counts /\ R!Meta.rev \in Revision
  BY CountsFacts
<1>3. /\ R!AsMade(op.new, place) /\ package.kind # "source"
      /\ \A w \in R!Version \ {v} : op.new.base[w] = files.base[w]
      /\ R!Installed => \A x \in DOMAIN whole \ DOMAIN op.new.manifest :
                          x \in DOMAIN R!Baseline /\ whole[x] = R!Baseline[x]
  BY <1>1 DEF R!Torn
<1>4. /\ op.at > 1 => files.manifest = op.new.manifest
      /\ op.at > 2 => files.base = op.new.base
      /\ op.at > 3 => files.recipe = op.new.recipe
      /\ op.at > 4 => files.recipeAt = op.new.recipeAt
  BY <1>1 DEF R!Torn
<1>5. /\ op.new.manifest # None /\ whole # None
      /\ op.new.meta.rev = tree /\ op.new.meta.format = 3
      /\ DOMAIN op.new.manifest \subseteq DOMAIN R!Made \ heir
      /\ DOMAIN whole \subseteq DOMAIN R!Made \cup heir
      /\ package.kind = "meta" => DOMAIN op.new.manifest = {} /\ DOMAIN whole = {}
      /\ DOMAIN whole \cap RecDirectory = {}
  <2>1. /\ op.new.manifest # None /\ whole # None
        /\ op.new.meta.rev = tree /\ op.new.meta.format = 3
        /\ DOMAIN op.new.manifest \subseteq DOMAIN R!Made \ heir
        /\ DOMAIN whole \ DOMAIN op.new.manifest \subseteq heir
    BY <1>3 DEF R!AsMade
  <2>2. DOMAIN R!Made \cap RecDirectory = {} /\ (package.kind = "meta" => DOMAIN R!Made = {} /\ heir = {})
    BY <1>2, <1>3, Described DEF R!Made
  <2> QED
    BY <1>2, <2>1, <2>2
<1>6. CASE op.at = 5
  <2>1. /\ op' = [step |-> "written"] /\ files'.meta = op.new.meta
        /\ files'.manifest = op.new.manifest /\ files'.base = op.new.base
        /\ files'.recipe = op.new.recipe /\ files'.recipeAt = op.new.recipeAt
    BY <1>4, <1>6, WriteFacts
  <2>2. R!AsMade(files, place)'
    BY <1>1, <1>3, <2>1 DEF R!AsMade, R!Made
  <2>3. R!Installed' /\ R!Counts'
    BY <1>1, <1>2, <2>2, MadeCountsNext
  <2>4. R!TypeOK'
    BY <1>1, <1>2, <2>1 DEF R!TypeOK
  <2>5. R!Inductive'
    BY <1>1, <1>2, <2>1, <2>2, <2>3 DEF R!Inductive
  <2>6. R!Baseline' = whole /\ R!Active' = op.new.manifest
    BY <1>5, <2>1 DEF R!Baseline, R!Meta, R!Active
  <2> QED
    BY <1>1, <1>3, <2>4, <2>5, <2>6 DEF RecInv
<1>7. CASE op.at # 5
  <2>1. /\ op' \in [step : {"files"}, new : {op.new}, at : 1 .. 5]
        /\ op'.step = "files" /\ op'.new = op.new /\ op'.at = op.at + 1
        /\ files'.meta = files.meta
        /\ files'.manifest = IF op.at = 1 THEN op.new.manifest ELSE files.manifest
        /\ files'.base = IF op.at = 2 THEN op.new.base ELSE files.base
        /\ files'.recipe = IF op.at = 3 THEN op.new.recipe ELSE files.recipe
        /\ files'.recipeAt = IF op.at = 4 THEN op.new.recipeAt ELSE files.recipeAt
    BY <1>7, WriteFacts
  <2>2. R!Meta' = R!Meta /\ (R!Installed' <=> R!Installed)
    BY <2>1 DEF R!Meta, R!Installed
  <2>3. R!Active' = R!Active \/ R!Active' = op.new.manifest
    BY <2>1 DEF R!Active
  <2>4. ASSUME R!Installed
        PROVE  \/ R!Baseline' = R!Baseline
               \/ /\ op.at = 2 /\ R!Baseline' = whole
                  /\ R!Active' = R!Active /\ R!Active = op.new.manifest
    <3> DEFINE w == VersionOf[files.meta.rev]
    <3>1. w \in R!Version /\ R!Baseline = files.base[w] /\ R!Baseline' = files'.base[w]
      BY <1>2, <2>1, <2>4, AVersion DEF R!Baseline, R!Meta
    <3>2. CASE op.at # 2
      BY <2>1, <3>1, <3>2
    <3>3. CASE op.at = 2 /\ w # v
      BY <1>3, <2>1, <3>1, <3>3
    <3>4. CASE op.at = 2 /\ w = v
      BY <1>4, <2>1, <3>1, <3>4 DEF R!Active
    <3> QED
      BY <3>2, <3>3, <3>4
  <2>5. R!Installed' => R!Counts'
    <3>1. R!Closed => R!Closed'
      BY <1>1, <2>2 DEF R!Closed, R!AllWellTyped, R!WellTyped
    <3>2. R!Installed => /\ R!Active' # None /\ DOMAIN R!Active' \cap heir = {}
                         /\ package.kind = "meta" => DOMAIN R!Active' = {}
      BY <1>2, <1>5, <2>3 DEF R!Counts
    <3>3. R!Installed => /\ R!Baseline' # None
                         /\ package.kind = "meta" => DOMAIN R!Baseline' = {}
                         /\ R!Meta.format < 3 => DOMAIN R!Baseline' \cap RecDirectory = {}
      BY <1>2, <1>5, <2>4 DEF R!Counts
    <3> QED
      BY <1>1, <1>2, <1>3, <2>2, <3>1, <3>2, <3>3 DEF R!Counts
  <2>6. R!AsMade(op.new, place)'
    BY <1>1, <1>3, <2>1 DEF R!AsMade, R!Made
  <2>7. R!Installed =>
          \A x \in DOMAIN whole \ DOMAIN op.new.manifest :
            x \in DOMAIN R!Baseline' /\ whole[x] = R!Baseline'[x]
    BY <1>3, <2>4
  <2>8. /\ op.at + 1 > 1 => files'.manifest = op.new.manifest
        /\ op.at + 1 > 2 => files'.base = op.new.base
        /\ op.at + 1 > 3 => files'.recipe = op.new.recipe
        /\ op.at + 1 > 4 => files'.recipeAt = op.new.recipeAt
    BY <1>1, <1>4, <1>7, <2>1
  <2>9. \A w \in R!Version \ {v} : op.new.base[w] = files'.base[w]
    BY <1>3, <2>1
  <2>10. R!Torn'
    BY <1>1, <1>3, <2>1, <2>2, <2>6, <2>7, <2>8, <2>9 DEF R!Torn
  <2>11. R!TypeOK'
    <3>1. Len(R!File) = 5
      BY DEF R!File
    <3> QED
      BY <1>1, <1>2, <2>1, <3>1 DEF R!TypeOK
  <2>12. R!Inductive'
    BY <1>1, <1>2, <2>1, <2>5, <2>10 DEF R!Inductive
  <2>13. R!Installed =>
           \A x \in DOMAIN R!Baseline' \ DOMAIN R!Active' :
             x \in DOMAIN R!Baseline \ DOMAIN R!Active => R!Baseline'[x] = R!Baseline[x]
    BY <1>3, <2>4
  <2> QED
    BY <1>1, <2>11, <2>12, <2>13 DEF RecInv
<1> QED
  BY <1>6, <1>7

-----------------------------------------------------------------------------
(***************************************************************************)
(* Records: the judges                                                     *)
(***************************************************************************)

LEMMA JudgesAgreeHere == RecInv => R!JudgesAgree
<1> SUFFICES ASSUME RecInv, R!Installed, R!Meta.format = 4, R!Untorn
             PROVE  /\ R!Intact(R!Meta.rev, FALSE) <=> R!Historical
                    /\ R!Historical <=> R!Clean
  BY DEF R!JudgesAgree
<1> DEFINE r == R!Meta.rev
<1>1. /\ package \in RecPackage /\ r \in Revision /\ R!Counts
      /\ R!IsManifest(R!Active) /\ R!IsManifest(R!Baseline)
  BY CountsFacts
<1>2. R!Closed /\ files.recipe = r /\ R!RecipeAt = r /\ files.recipe # None
  BY <1>1, Nones DEF R!Counts, R!Untorn
<1>3. /\ R!Meta.stamped /\ (R!Meta.licensed \/ package.kind = "meta")
      /\ R!Meta.shared = package.shared[r] /\ R!AllWellTyped(R!Meta.sealed)
      /\ package.kind = "binary" /\ ~package.provisional => R!Meta.bound.payload = R!Meta.sealed
  BY <1>2 DEF R!Closed
<1>4. R!Meta.sealed = R!Baseline => R!Meta.sealed # None
  BY <1>1, Nones
<1>5. R!MetaMatches(r) <=> R!Meta.sealed # None
  BY <1>2, <1>3 DEF R!MetaMatches
<1>6. R!Intact(r, FALSE) <=> R!Historical
  BY <1>2, <1>3, <1>4, <1>5 DEF R!Intact, R!Historical
<1>7. ASSUME R!Historical PROVE R!Clean
  <2>1. R!CleanForm
    BY <1>7 DEF R!Historical, R!CleanForm
  <2>2. R!CleanRecipe
    BY <1>1, <1>2, <1>3 DEF R!CleanRecipe, R!Counts
  <2>3. R!CleanClaims
    BY <1>1, <1>7 DEF R!CleanClaims, R!Historical, R!Counts
  <2> QED
    BY <2>1, <2>2, <2>3 DEF R!Clean
<1>8. ASSUME R!Clean PROVE R!Historical
  <2>1. R!Bound /\ R!Meta.sealed = R!Baseline
    BY <1>8 DEF R!Clean, R!CleanForm
  <2>2. R!CleanClaims
    BY <1>8 DEF R!Clean
  <2>3. R!Coherent
    <3>1. CASE package.provisional
      BY <2>2, <3>1 DEF R!CleanClaims
    <3>2. CASE ~package.provisional
      <4>1. CASE package.kind = "source"
        BY <1>1, <3>2, <4>1 DEF R!Coherent, R!Counts
      <4>2. CASE package.kind = "meta"
        BY <1>1, <3>2, <4>2, SameManifest DEF R!Coherent, R!Counts
      <4>3. CASE package.kind = "binary"
        <5>1. R!Meta.bound.payload = R!Active
          BY <2>1, <3>2, <4>3 DEF R!Bound, R!PlanPayload
        <5> QED
          BY <1>3, <2>1, <3>2, <4>3, <5>1 DEF R!Coherent
      <4> QED
        BY <1>1, <4>1, <4>2, <4>3, Described
    <3> QED
      BY <3>1, <3>2
  <2>4. R!AllWellTyped(R!Baseline)
    BY <1>3, <2>1
  <2> QED
    BY <1>2, <1>3, <1>4, <2>1, <2>2, <2>3, <2>4 DEF R!Historical, R!CleanClaims
<1> QED
  BY <1>6, <1>7, <1>8

LEMMA WrittenIsObservedHere == RecInv => R!WrittenIsObserved
<1> SUFFICES ASSUME RecInv, op.step = "written"
             PROVE  R!Intact(tree, TRUE)
                    <=> \A x \in DOMAIN R!Baseline : R!Baseline[x].form \in {"typed", "shared"}
  BY DEF R!WrittenIsObserved
<1>1. /\ package \in RecPackage /\ tree \in Revision /\ R!IsRecord(files)
      /\ heir \cap RecDirectory = {} /\ (heir # {} => package.provisional)
      /\ R!AsMade(files, place)
  BY CountsFacts DEF RecInv, R!Inductive
<1>2. R!Installed /\ R!Counts /\ R!IsManifest(R!Active) /\ R!IsManifest(R!Baseline)
  BY <1>1, MadeCounts, CountsFacts
<1>3. /\ R!Meta.format = 3 /\ R!Meta.rev = tree /\ R!Meta.sealed = R!Baseline
      /\ R!Meta.licensed = (package.kind # "meta") /\ R!Meta.shared = package.shared[tree]
      /\ files.recipe = tree /\ R!RecipeAt = tree
      /\ DOMAIN R!Active \subseteq DOMAIN R!Made \ heir
      /\ \A x \in DOMAIN R!Active :
           place[x] = R!Made[x] /\ R!Active[x] = R!Claim(R!Typed(x), R!Made[x])
      /\ R!Within(R!Active, R!Baseline)
      /\ DOMAIN R!Baseline \ DOMAIN R!Active \subseteq heir
      /\ ~package.provisional => DOMAIN R!Active = DOMAIN R!Made
  BY <1>1 DEF R!AsMade, R!Meta, R!Baseline, R!Active, R!RecipeAt
<1>4. /\ \A x \in DOMAIN R!Made : R!Made[x] \in R!State
      /\ package.shared[tree] = DOMAIN R!Made \cap RecDirectory
      /\ package.kind # "meta" => DOMAIN R!Made # {}
  BY <1>1, Described DEF R!Made
<1>5. R!MetaMatches(tree) /\ R!Bound
  <2>1. R!Meta.sealed # None /\ R!Meta.format # 2 /\ R!Meta.format # 4
    BY <1>2, <1>3, Nones
  <2>2. package.kind = "meta" \/ R!Meta.licensed
    BY <1>3
  <2> QED
    BY <1>3, <2>1, <2>2 DEF R!MetaMatches, R!Bound
<1>6. R!Coherent
  <2>1. CASE package.provisional
    BY <1>3, <2>1 DEF R!Coherent, R!Unproved, R!Ceded
  <2>2. CASE ~package.provisional
    <3>1. DOMAIN R!Baseline = DOMAIN R!Active /\ \A x \in DOMAIN R!Active : R!Active[x] = R!Baseline[x]
      BY <1>1, <1>3, <2>2 DEF R!Within
    <3> QED
      BY <1>2, <2>2, <3>1, SameManifest DEF R!Coherent
  <2> QED
    BY <2>1, <2>2
<1>7. R!AllMatch(R!Active)
  BY <1>3, <1>4, Nones DEF R!AllMatch, R!Matches, R!Claim
<1>8. R!AllWellTyped(R!Active)
  BY <1>3, <1>4 DEF R!AllWellTyped, R!WellTyped, R!Claim, R!Typed
<1>9. R!AllWellTyped(R!Baseline)
      <=> \A x \in DOMAIN R!Baseline : R!Baseline[x].form \in {"typed", "shared"}
  <2>1. ASSUME NEW x \in DOMAIN R!Baseline, R!Baseline[x].form = "shared"
        PROVE  x \in R!Meta.shared
    <3>1. x \in RecDirectory
      BY <1>2, <2>1 DEF R!IsManifest
    <3>2. x \in DOMAIN R!Active
      BY <1>1, <1>3, <3>1
    <3> QED
      BY <1>3, <1>4, <3>1, <3>2
  <2>2. R!Meta.format # 2
    BY <1>3
  <2> QED
    BY <2>1, <2>2 DEF R!AllWellTyped, R!WellTyped
<1>10. package.kind = "meta" \/ package.provisional \/ DOMAIN R!Active # {}
  BY <1>3, <1>4
<1>11. R!Meta.format \in {2, 4} \/ (R!Meta.format = 3 /\ TRUE)
  BY <1>3
<1> QED
  BY <1>2, <1>3, <1>5, <1>6, <1>7, <1>8, <1>9, <1>10, <1>11 DEF R!Intact

-----------------------------------------------------------------------------
(***************************************************************************)
(* Records: every step                                                     *)
(***************************************************************************)

\* A step that is no migration, or a migration that loses nothing.
LEMMA MigratedTyped ==
  ASSUME RecInv, R!MigrateTyped PROVE R!ProofsAreKeptStep
<1>1. /\ R!Active' = R!Active /\ R!Baseline' = R!Baseline /\ op' = op
      /\ R!AllWellTyped(R!Baseline)
  BY KeepsMigrateTyped
<1>2. \A x \in DOMAIN R!Baseline : R!Proves(R!Baseline'[x], R!Baseline[x])
  BY <1>1 DEF R!Proves, R!AllWellTyped, R!WellTyped
<1> QED
  BY <1>1, <1>2 DEF R!ProofsAreKeptStep

LEMMA MigratedLegacy ==
  ASSUME RecInv, R!MigrateLegacy PROVE R!ProofsAreKeptStep
<1>1. /\ R!Installed /\ R!Active = R!Baseline /\ op' = op
      /\ R!Meta.format <= 1 /\ R!AllMatch(R!Active)
      /\ DOMAIN R!Active' = DOMAIN R!Active /\ DOMAIN R!Baseline' = DOMAIN R!Baseline
      /\ \A x \in DOMAIN R!Active : R!Baseline'[x] = R!Claim("typed", place[x])
  BY KeepsMigrateLegacy
<1>2. R!Counts /\ R!IsManifest(R!Baseline) /\ R!IsMeta(R!Meta)
  BY <1>1, CountsFacts
<1>3. DOMAIN R!Baseline \cap RecDirectory = {}
  <2>1. R!Meta.format \in 0 .. 4
    BY <1>2 DEF R!IsMeta
  <2>2. R!Meta.format < 3
    BY <1>1, <2>1
  <2> QED
    BY <1>2, <2>2 DEF R!Counts
<1>4. ASSUME NEW x \in DOMAIN R!Baseline
      PROVE  R!Proves(R!Baseline'[x], R!Baseline[x])
  <2> DEFINE old == R!Baseline[x]
  <2>1. /\ old \in R!Line /\ old.form \in {"bare", "hash", "typed"}
    BY <1>2, <1>3, LineFacts
  <2>2. R!Baseline'[x] = [form |-> "typed", of |-> place[x]] /\ old.of = R!Shown(old.form, place[x])
    BY <1>1 DEF R!AllMatch, R!Matches, R!Claim, R!Shown
  <2>3. CASE old.form = "bare"
    BY <2>3 DEF R!Proves
  <2>4. CASE old.form = "hash"
    BY <2>2, <2>4 DEF R!Proves, R!Shown
  <2>5. CASE old.form = "typed"
    <3>1. old \in [form : {"typed"}, of : R!State]
      BY <2>1, <2>5 DEF R!Line
    <3>2. old.of = place[x]
      BY <2>2, <2>5 DEF R!Shown
    <3>3. old = [form |-> "typed", of |-> place[x]]
      BY <3>1, <3>2
    <3> QED
      BY <2>2, <2>5, <3>3 DEF R!Proves
  <2> QED
    BY <2>1, <2>3, <2>4, <2>5
<1> QED
  BY <1>1, <1>4 DEF R!ProofsAreKeptStep

LEMMA KeptWhileInstalling ==
  ASSUME RecInv, op' # op,
         R!InstallSource \/ R!InstallUnjournaled \/ R!WriteFile \/ R!Close \/ R!Stop
  PROVE  R!ProofsAreKeptStep
<1>1. ASSUME R!Installed, NEW x \in R!Ceded \cap R!Ceded'
      PROVE  R!Baseline'[x] = R!Baseline[x]
  <2>1. /\ x \in DOMAIN R!Baseline \ DOMAIN R!Active
        /\ x \in DOMAIN R!Baseline' \ DOMAIN R!Active'
    BY <1>1 DEF R!Ceded
  <2>2. CASE R!InstallSource
    BY <2>1, <2>2, KeepsInstallSource
  <2>3. CASE R!InstallUnjournaled
    BY <1>1, <2>3, KeepsInstallUnjournaled
  <2>4. CASE R!WriteFile
    BY <1>1, <2>1, <2>4, KeepsWriteFile
  <2>5. CASE R!Close
    BY <2>5, KeepsClose
  <2>6. CASE R!Stop
    BY <2>6, KeepsStop
  <2> QED
    BY <2>2, <2>3, <2>4, <2>5, <2>6
<1> QED
  BY <1>1 DEF R!ProofsAreKeptStep, R!Migrates

LEMMA KeptOtherwise ==
  ASSUME op' = op, R!Meta' = R!Meta PROVE R!ProofsAreKeptStep
<1>1. ~R!Migrates
  <2> SUFFICES ASSUME R!Meta.format < 3, R!Meta.format = 3 PROVE FALSE
    BY DEF R!Migrates, R!Meta
  <2> QED
    OBVIOUS
<1> QED
  BY <1>1 DEF R!ProofsAreKeptStep

LEMMA RecNext ==
  ASSUME RecInv, [R!Next]_ofRecords PROVE RecInv' /\ R!ProofsAreKeptStep
<1>0. /\ tree \in Revision /\ place \in [RecPath -> R!State \cup {None}]
  BY CountsFacts
<1>1. CASE R!MigrateTyped
  BY <1>1, KeepsMigrateTyped, MigratedTyped
<1>2. CASE R!MigrateLegacy
  BY <1>2, KeepsMigrateLegacy, MigratedLegacy
<1>3. CASE R!InstallSource
  <2>1. op' # op
    BY <1>3 DEF R!InstallSource, R!Builds, R!Asked, R!Idle
  <2> QED
    BY <1>3, <2>1, KeepsInstallSource, KeptWhileInstalling
<1>4. CASE R!InstallUnjournaled
  <2>1. op' # op
    BY <1>4 DEF R!InstallUnjournaled, R!Builds, R!Asked, R!Idle
  <2> QED
    BY <1>4, <2>1, KeepsInstallUnjournaled, KeptWhileInstalling
<1>5. CASE R!WriteFile
  BY <1>5, KeepsWriteFile, KeptWhileInstalling
<1>6. CASE R!Close
  <2>1. op' # op
    BY <1>6 DEF R!Close, R!Idle
  <2> QED
    BY <1>6, <2>1, KeepsClose, KeptWhileInstalling
<1>7. CASE R!Stop
  <2>1. op' # op
    BY <1>7 DEF R!Stop
  <2> QED
    BY <1>7, <2>1, KeepsStop, KeptWhileInstalling
<1>8. ASSUME NEW x \in RecPath, R!Cede(x) PROVE RecInv' /\ R!ProofsAreKeptStep
  BY <1>8, KeepsCede, KeptOtherwise
<1>9. ASSUME NEW x \in RecPath, R!Edit(x) PROVE RecInv' /\ R!ProofsAreKeptStep
  <2>1. PICK s \in {None, [place[x] EXCEPT !.mode = 1 - place[x].mode]}
                   \cup (IF x \in RecDirectory THEN {} ELSE {[place[x] EXCEPT !.content = "own"]}) :
          place' = [place EXCEPT ![x] = s]
    BY <1>9 DEF R!Edit
  <2>2. place[x] \in R!State
    BY <1>0, <1>9 DEF R!Edit
  <2>3. s \in R!State \cup {None}
    <3>1. CASE s = None
      BY <3>1
    <3>2. CASE s = [place[x] EXCEPT !.mode = 1 - place[x].mode]
      <4>1. 1 - place[x].mode \in {0, 1}
        BY <2>2 DEF R!State
      <4> QED
        BY <2>2, <3>2, <4>1 DEF R!State
    <3>3. CASE s = [place[x] EXCEPT !.content = "own"]
      BY <2>2, <3>3 DEF R!State
    <3> QED
      BY <2>1, <3>1, <3>2, <3>3
  <2>4. /\ op = R!Idle /\ op' = op /\ package' = package /\ tree' = tree /\ heir' = heir
        /\ files' = files
    BY <1>9 DEF R!Edit
  <2>5. place' \in [RecPath -> R!State \cup {None}]
    BY <1>0, <2>1, <2>3
  <2> QED
    BY <1>0, <2>4, <2>5, KeepsOutside, KeptOtherwise
<1>10. CASE R!HeirLeaves
  <2>1. /\ op = R!Idle /\ op' = op /\ package' = package /\ tree' = tree /\ heir' = {}
        /\ files' = files
        /\ place' = [x \in RecPath |-> IF x \in heir THEN None ELSE place[x]]
    BY <1>10 DEF R!HeirLeaves
  <2>2. place' \in [RecPath -> R!State \cup {None}]
    BY <1>0, <2>1
  <2> QED
    BY <1>0, <2>1, <2>2, KeepsOutside, KeptOtherwise
<1>11. CASE R!Newspeak
  <2>1. /\ op = R!Idle /\ op' = op /\ package' = package /\ tree' \in Revision /\ heir' = heir
        /\ files' = files /\ place' = place
    BY <1>11 DEF R!Newspeak
  <2> QED
    BY <1>0, <2>1, KeepsOutside, KeptOtherwise
<1>12. CASE UNCHANGED ofRecords
  <2>1. /\ op' = op /\ package' = package /\ tree' = tree /\ heir' = heir
        /\ files' = files /\ place' = place
    BY <1>12 DEF ofRecords
  <2> QED
    BY <1>0, <2>1, KeepsOutside, KeptOtherwise
<1> QED
  BY <1>1, <1>2, <1>3, <1>4, <1>5, <1>6, <1>7, <1>8, <1>9, <1>10, <1>11, <1>12 DEF R!Next

\* The composition starts and moves Records as Records alone.
LEMMA RecSteps ==
  /\ PartsInit /\ Judging => R!Init
  /\ [PartsNext]_ofAll => part' = part /\ (Judging => [R!Next]_ofRecords)
BY DEF PartsInit, PartsNext, ofAll, Removing, Judging, Providing

\* Whatever was edited, ceded, migrated or cut short between two files, those
\* who judge a record this version closed say the same of it, what an
\* installation wrote it accepts but for lines kept from formats 0 and 1, and no
\* migration loses a path or a proof: for any recipes, trees, directories and
\* successors (install.rs:7929, 8330, 9420, 9557).
THEOREM RecordsAgree == PartsSpec => RecordsHold
<1> DEFINE I == Judging => RecInv
<1>1. PartsInit => I
  BY RecInitially, RecSteps
<1>2. I /\ [PartsNext]_ofAll => I'
  <2> SUFFICES ASSUME I, [PartsNext]_ofAll, Judging' PROVE RecInv'
    OBVIOUS
  <2>1. Judging /\ [R!Next]_ofRecords
    BY RecSteps DEF Judging
  <2> QED
    BY <2>1, RecNext
<1>3. I => (Judging => R!TypeOK /\ R!JudgesAgree /\ R!WrittenIsObserved)
  BY JudgesAgreeHere, WrittenIsObservedHere DEF RecInv
<1>4. I /\ [PartsNext]_ofAll => [Judging => R!ProofsAreKeptStep]_ofAll
  <2> SUFFICES ASSUME I, Judging, [PartsNext]_ofAll PROVE R!ProofsAreKeptStep
    OBVIOUS
  <2>1. [R!Next]_ofRecords
    BY RecSteps
  <2> QED
    BY <2>1, RecNext
<1> QED
  BY <1>1, <1>2, <1>3, <1>4, PTL DEF PartsSpec, RecordsHold
=============================================================================
