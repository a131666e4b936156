----------------------------- MODULE WorldBProofs -----------------------------
(***************************************************************************)
(* World B: the journal, and the installer that writes through it.         *)
(*                                                                         *)
(* First, Journal keeps its promises for every set of packages and paths,  *)
(* every caller that keeps CallerContract, any number of transactions,     *)
(* deaths and log lines.  The inductive invariant is TypeOK together with  *)
(* Inductive.  Its durable part (one journal, its log, its backups, the    *)
(* root) is what a new process starts from; the volatile part says where   *)
(* the present process is.  A step touches the durable state in one of     *)
(* four ways, each a lemma: it appends a log line, makes or consumes a     *)
(* backup, changes the root at a path the log protects, or begins or       *)
(* retires a journal.                                                      *)
(*                                                                         *)
(* Then the installer keeps that contract, for every set of packages,      *)
(* recipes and STAGEs.  A step of WNext that touches Journal's variables   *)
(* is one of Journal's actions with an argument: what has to be shown is   *)
(* that the argument is one Journal allows, which depends on what the      *)
(* process remembers (JobInv) and on what is on disk (IInv).               *)
(***************************************************************************)
EXTENDS WorldB, TLAPS

IInv == TypeOK /\ Inductive

\* What is on disk.
Durable ==
  /\ AtMostOneJournal
  /\ \A p \in Pending : LogInv(p) /\ Undoable(p)
  /\ TxInv

-----------------------------------------------------------------------------
(***************************************************************************)
(* Log lines and backups                                                   *)
(***************************************************************************)

LEMMA NodeFacts == Absent \in Node /\ NoJournal \in JournalDir /\ NoOp \in Op
BY PathAssumption DEF Absent, Node, NoJournal, JournalDir, Entry, NoOp, Op, OpKinds

\* The log in use is a sequence of log lines.
LEMMA LogFacts ==
  ASSUME TypeOK
  PROVE  /\ Log \in Seq(Entry) /\ Len(Log) \in Nat /\ DOMAIN Log = 1..Len(Log)
         /\ journal[pkg] \in JournalDir
         /\ \A i \in DOMAIN Log : /\ Log[i] \in Entry
                                  /\ Log[i].kind \in {"N", "B"}
                                  /\ Log[i].path \in Path
                                  /\ Log[i].saved \in Node
<1>1. journal[pkg] \in JournalDir
  BY DEF TypeOK
<1>2. Log \in Seq(Entry)
  BY <1>1 DEF Log, JournalDir
<1>3. Len(Log) \in Nat /\ DOMAIN Log = 1..Len(Log)
  BY <1>2
<1>4. \A i \in DOMAIN Log : Log[i] \in Entry
  BY <1>2, <1>3
<1> QED
  BY <1>1, <1>2, <1>3, <1>4 DEF Entry

\* A new log line leaves the earlier ones, and which of them are first, alone.
LEMMA AppendedLog ==
  ASSUME NEW l \in Seq(Entry), NEW e \in Entry
  PROVE  LET m == Append(l, e) IN
         /\ m \in Seq(Entry)
         /\ Len(m) = Len(l) + 1
         /\ DOMAIN l = 1..Len(l) /\ DOMAIN m = 1..(Len(l) + 1)
         /\ \A i \in DOMAIN l : m[i] = l[i] /\ (IsFirst(m, i) <=> IsFirst(l, i))
         /\ m[Len(l) + 1] = e
         /\ IsFirst(m, Len(l) + 1) <=> ~Logged(l, e.path)
         /\ \A x \in Path : Logged(m, x) <=> Logged(l, x) \/ x = e.path
BY DEF IsFirst, Logged

LEMMA Append1Facts ==
  ASSUME TypeOK, NEW e \in Entry, Append1(e)
  PROVE  /\ journal' \in [Package -> JournalDir]
         /\ journal'[pkg].txid = journal[pkg].txid
         /\ journal'[pkg].log = Append(Log, e)
         /\ \A p \in Package \ {pkg} : journal'[p] = journal[p]
<1>1. journal \in [Package -> JournalDir] /\ pkg \in Package
  BY DEF TypeOK
<1> DEFINE m == Append(Log, e)
<1>2. m \in Seq(Entry)
  BY LogFacts
<1>3. journal' = [journal EXCEPT ![pkg] = [journal[pkg] EXCEPT !.log = m]]
  BY <1>1 DEF Append1, Log
<1> HIDE DEF m
<1>4. [journal[pkg] EXCEPT !.log = m] = [txid |-> journal[pkg].txid, log |-> m]
  BY LogFacts DEF JournalDir
<1>5. journal' \in [Package -> JournalDir] /\ journal'[pkg].log = m
  BY <1>1, <1>2, <1>3, <1>4, LogFacts DEF JournalDir
<1> QED
  BY <1>1, <1>3, <1>4, <1>5 DEF m

\* The log l once the backup of its line i holds n.
SavedIn(l, i, n) == [l EXCEPT ![i].saved = n]

LEMMA SavedLog ==
  ASSUME NEW l \in Seq(Entry), NEW n \in Node, NEW i \in DOMAIN l
  PROVE  LET m == SavedIn(l, i, n) IN
         /\ m \in Seq(Entry)
         /\ Len(m) = Len(l)
         /\ DOMAIN l = 1..Len(l) /\ DOMAIN m = 1..Len(l)
         /\ \A j \in DOMAIN l : /\ m[j].path = l[j].path
                                /\ m[j].kind = l[j].kind
                                /\ m[j].saved = IF j = i THEN n ELSE l[j].saved
                                /\ (IsFirst(m, j) <=> IsFirst(l, j))
         /\ \A x \in Path : Logged(m, x) <=> Logged(l, x)
<1> DEFINE e == [l[i] EXCEPT !.saved = n]
           m == SavedIn(l, i, n)
<1>1. DOMAIN l = 1..Len(l) /\ Len(l) \in Nat /\ l[i] \in Entry
  OBVIOUS
<1>2. e \in Entry /\ e.path = l[i].path /\ e.kind = l[i].kind /\ e.saved = n
  BY <1>1 DEF Entry
<1>0. m = [l EXCEPT ![i] = e]
  BY DEF SavedIn
<1> HIDE DEF e, m
<1>3. m \in Seq(Entry) /\ Len(m) = Len(l) /\ DOMAIN m = 1..Len(l)
  BY <1>0, <1>1, <1>2
<1>4. \A j \in DOMAIN l : m[j] = IF j = i THEN e ELSE l[j]
  BY <1>0, <1>1
<1>5. \A j \in DOMAIN l : m[j].path = l[j].path
  BY <1>2, <1>4
<1>6. \A j \in DOMAIN l : (IsFirst(m, j) <=> IsFirst(l, j))
  BY <1>1, <1>5 DEF IsFirst
<1>7. \A x \in Path : Logged(m, x) <=> Logged(l, x)
  BY <1>1, <1>3, <1>5 DEF Logged
<1>8. \A j \in DOMAIN l : /\ m[j].kind = l[j].kind
                          /\ m[j].saved = IF j = i THEN n ELSE l[j].saved
  BY <1>2, <1>4
<1> QED
  BY <1>1, <1>3, <1>5, <1>6, <1>7, <1>8 DEF m

\* Making or consuming a backup changes nothing but its own "saved".
LEMMA SetSavedFacts ==
  ASSUME TypeOK, NEW n \in Node, NEW i \in DOMAIN Log, SetSaved(i, n)
  PROVE  /\ journal' \in [Package -> JournalDir]
         /\ journal'[pkg].txid = journal[pkg].txid
         /\ journal'[pkg].log = SavedIn(Log, i, n)
         /\ \A p \in Package \ {pkg} : journal'[p] = journal[p]
<1>1. journal \in [Package -> JournalDir] /\ pkg \in Package
  BY DEF TypeOK
<1> DEFINE m == SavedIn(Log, i, n)
<1>3. journal' = [journal EXCEPT ![pkg] = [journal[pkg] EXCEPT !.log = m]]
  BY <1>1 DEF SetSaved, Log, SavedIn
<1> HIDE DEF m
<1>2. m \in Seq(Entry)
  BY LogFacts, SavedLog DEF m
<1>4. [journal[pkg] EXCEPT !.log = m] = [txid |-> journal[pkg].txid, log |-> m]
  BY LogFacts DEF JournalDir
<1>5. journal' \in [Package -> JournalDir] /\ journal'[pkg].log = m
  BY <1>1, <1>2, <1>3, <1>4, LogFacts DEF JournalDir
<1> QED
  BY <1>1, <1>3, <1>4, <1>5 DEF m

LEMMA SavedNext ==
  ASSUME TypeOK, NEW n \in Node, NEW i \in DOMAIN Log, SetSaved(i, n), pkg' = pkg
  PROVE  /\ Len(Log') = Len(Log) /\ DOMAIN Log' = DOMAIN Log
         /\ \A j \in DOMAIN Log : /\ Log'[j].path = Log[j].path
                                  /\ Log'[j].kind = Log[j].kind
                                  /\ Log'[j].saved = IF j = i THEN n ELSE Log[j].saved
                                  /\ IsFirst(Log', j) <=> IsFirst(Log, j)
         /\ \A x \in Path : Logged(Log', x) <=> Logged(Log, x)
<1> DEFINE m == SavedIn(Log, i, n)
<1>1. /\ Len(m) = Len(Log) /\ DOMAIN m = DOMAIN Log
      /\ \A j \in DOMAIN Log : /\ m[j].path = Log[j].path
                               /\ m[j].kind = Log[j].kind
                               /\ m[j].saved = IF j = i THEN n ELSE Log[j].saved
                               /\ IsFirst(m, j) <=> IsFirst(Log, j)
      /\ \A x \in Path : Logged(m, x) <=> Logged(Log, x)
  BY LogFacts, SavedLog
<1>2. Log' = m
  BY SetSavedFacts DEF Log
<1> HIDE DEF m
<1> QED
  BY <1>1, <1>2

-----------------------------------------------------------------------------
(***************************************************************************)
(* The ways a step touches what is on disk                                 *)
(***************************************************************************)

\* Only one journal counts, so the invariant speaks of that one.
LEMMA DurableOfOne ==
  ASSUME TypeOK, Live(pkg)
  PROVE  Durable <=> /\ \A p \in Package \ {pkg} : ~Live(p)
                     /\ LogInv(pkg) /\ Undoable(pkg)
                     /\ TxInv
BY DEF TypeOK, Durable, AtMostOneJournal, Pending

\* Nothing on disk changes.
LEMMA Untouched ==
  ASSUME Durable, UNCHANGED <<fs, journal, snap, txs>>
  PROVE  Durable' /\ Pending' = Pending /\ \A p \in Package : Committed(p)' <=> Committed(p)
<1>1. Pending' = Pending
  BY DEF Pending, Live
<1>2. \A p \in Package : (LogInv(p)' <=> LogInv(p)) /\ (Undoable(p)' <=> Undoable(p))
  BY DEF LogInv, Undoable, Logged, IsFirst, Before
<1>3. AtMostOneJournal' /\ TxInv'
  BY <1>1 DEF Durable, AtMostOneJournal, Live, TxInv
<1>4. Pending \subseteq Package
  BY DEF Pending
<1> QED
  BY <1>1, <1>2, <1>3, <1>4 DEF Durable, Committed

\* The path is protected: its first log line tells what it held.
Protected(x) ==
  /\ Logged(Log, x)
  /\ \A i \in DOMAIN Log : Log[i].path = x /\ IsFirst(Log, i)
       => Log[i].kind = "N" \/ Log[i].saved # Absent

\* The root changes where the log protects it.
LEMMA RootChanged ==
  ASSUME TypeOK, Durable, Live(pkg), fs' \in [Path -> Node],
         UNCHANGED <<journal, pkg, snap, txs>>,
         \A x \in Path : fs'[x] # fs[x] => Protected(x) /\ fs'[x].by <= txs
  PROVE  Durable' /\ Live(pkg)'
<1>1. \A p \in Package : Live(p)' <=> Live(p)
  BY DEF Live
<1>2. LogInv(pkg)'
  BY DurableOfOne DEF LogInv, Logged, IsFirst
<1>3. Undoable(pkg)'
  <2>1. Undoable(pkg)
    BY DurableOfOne
  <2>2. SUFFICES ASSUME NEW x \in Path
                 PROVE  /\ ~Logged(Log, x) => fs'[x] = snap[x]
                        /\ \A i \in DOMAIN Log : Log[i].path = x /\ IsFirst(Log, i)
                             => Before(fs', Log[i]) = snap[x]
    BY DEF Undoable, Log, Logged, IsFirst, Before
  <2>3. CASE fs'[x] = fs[x]
    BY <2>1, <2>3 DEF Undoable, Log, Before
  <2>4. CASE fs'[x] # fs[x]
    BY <2>1, <2>4 DEF Undoable, Log, Before, Protected
  <2> QED
    BY <2>3, <2>4
<1>4. TxInv'
  BY <1>1, DurableOfOne DEF TxInv, Pending
<1>5. Pending' = {pkg} /\ AtMostOneJournal'
  BY <1>1, DurableOfOne DEF Pending, AtMostOneJournal, TypeOK
<1>6. Live(pkg)'
  BY <1>1 DEF TypeOK, Live
<1>7. \A p \in Pending' : LogInv(p)' /\ Undoable(p)'
  BY <1>2, <1>3, <1>5
<1> QED
  BY <1>4, <1>5, <1>6, <1>7 DEF Durable

\* One more line in the log.
LEMMA Appended ==
  ASSUME TypeOK, Durable, Live(pkg), UNCHANGED <<fs, pkg, snap, txs>>,
         NEW e \in Entry, Append1(e), e.saved = Absent,
         ~Logged(Log, e.path) => e.kind = "B" \/ fs[e.path] = Absent,
         Logged(Log, e.path) => e.path = Tmp \/ e.kind = "B",
         e.path = Tmp => e.kind = "N",
         \A q \in Package : e.path = Meta[q] => q = pkg /\ ~Logged(Log, e.path)
  PROVE  Durable' /\ Live(pkg)'
<1> DEFINE m == Append(Log, e)
           k == Len(Log) + 1
<1>1. /\ journal'[pkg].log = m
      /\ \A p \in Package : Live(p)' <=> Live(p)
      /\ journal'[pkg].txid = journal[pkg].txid
      /\ Log' = m
  BY Append1Facts DEF Live, Log
<1>2. /\ Log \in Seq(Entry) /\ Len(Log) \in Nat
      /\ DOMAIN Log = 1..Len(Log) /\ DOMAIN m = 1..k
      /\ \A i \in DOMAIN Log : m[i] = Log[i] /\ (IsFirst(m, i) <=> IsFirst(Log, i))
      /\ m[k] = e
      /\ IsFirst(m, k) <=> ~Logged(Log, e.path)
      /\ \A x \in Path : Logged(m, x) <=> Logged(Log, x) \/ x = e.path
  BY LogFacts, AppendedLog
<1>3. e.path \in Path /\ LogInv(pkg) /\ Undoable(pkg) /\ TxInv /\ Pending = {pkg}
  BY DurableOfOne DEF Entry, Pending, TypeOK
<1> HIDE DEF m
<1>4. DOMAIN m = DOMAIN Log \cup {k} /\ k \notin DOMAIN Log /\ \A i \in DOMAIN Log : i < k
  BY <1>2 DEF k
<1> HIDE DEF k
<1>5. LogInv(pkg)'
  <2>1. ASSUME NEW x \in Path, Logged(m, x)
        PROVE  \E i \in DOMAIN m : m[i].path = x /\ IsFirst(m, i)
    <3>1. CASE Logged(Log, x)
      <4>1. PICK i \in DOMAIN Log : Log[i].path = x /\ IsFirst(Log, i)
        BY <1>3, <3>1 DEF LogInv, Log
      <4> QED
        BY <1>2, <1>4, <4>1
    <3>2. CASE ~Logged(Log, x)
      BY <1>2, <1>4, <2>1, <3>2
    <3> QED
      BY <3>1, <3>2
  <2>2. \A j \in DOMAIN m : IsFirst(m, j) \/ m[j].path = Tmp \/ m[j].kind = "B"
    BY <1>2, <1>3, <1>4 DEF LogInv, Log
  <2>3. \A j \in DOMAIN m : m[j].path = Tmp => m[j].kind = "N"
    BY <1>2, <1>3, <1>4 DEF LogInv, Log
  <2>4. \A i, j \in DOMAIN m :
          i < j /\ m[i].path = m[j].path /\ m[i].kind = "B" /\ m[j].saved # Absent
            => m[i].saved # Absent
    <3>1. SUFFICES ASSUME NEW i \in DOMAIN m, NEW j \in DOMAIN m, i < j,
                          m[i].path = m[j].path, m[i].kind = "B", m[j].saved # Absent
                   PROVE  m[i].saved # Absent
      OBVIOUS
    <3>2. j \in DOMAIN Log
      BY <1>2, <1>4, <3>1
    <3>3. i \in DOMAIN Log
      BY <1>2, <1>4, <3>1, <3>2
    <3> QED
      BY <1>2, <1>3, <3>1, <3>2, <3>3 DEF LogInv, Log
  <2>5. ASSUME NEW i \in DOMAIN m, NEW q \in Package, m[i].path = Meta[q]
        PROVE  q = pkg /\ IsFirst(m, i)
    <3>1. CASE i \in DOMAIN Log
      BY <1>2, <1>3, <2>5, <3>1 DEF LogInv, Log
    <3>2. CASE i = k
      BY <1>2, <2>5, <3>2
    <3> QED
      BY <1>4, <3>1, <3>2
  <2> QED
    BY <1>1, <2>1, <2>2, <2>3, <2>4, <2>5 DEF LogInv
<1>6. Undoable(pkg)'
  <2>1. \A x \in Path : ~Logged(m, x) => fs[x] = snap[x]
    BY <1>2, <1>3 DEF Undoable, Log
  <2>2. SUFFICES ASSUME NEW x \in Path, NEW i \in DOMAIN m, m[i].path = x, IsFirst(m, i)
                 PROVE  Before(fs', m[i]) = snap[x]
    BY <1>1, <2>1 DEF Undoable, Before
  <2>3. CASE i \in DOMAIN Log
    BY <1>2, <1>3, <2>2, <2>3 DEF Undoable, Log, Before
  <2>4. CASE i = k
    <3>1. ~Logged(Log, x) /\ m[i] = e
      BY <1>2, <2>2, <2>4
    <3>2. fs[x] = snap[x]
      BY <1>3, <3>1 DEF Undoable, Log
    <3> QED
      BY <2>2, <3>1, <3>2 DEF Before
  <2> QED
    BY <1>4, <2>3, <2>4
<1>7. TxInv'
  <2>1. \A i \in DOMAIN m : m[i].saved.by <= txs
    <3>1. Absent.by = 0 /\ txs \in Nat
      BY BoundAssumption DEF Absent, TypeOK
    <3>2. \A i \in DOMAIN Log : Log[i].saved.by <= txs
      BY <1>3 DEF TxInv, Log
    <3>3. m[k].saved.by = 0
      BY <1>2, <3>1
    <3>4. \A i \in DOMAIN Log : m[i].saved.by <= txs
      BY <1>2, <3>2
    <3> QED
      BY <1>4, <3>1, <3>3, <3>4
  <2>2. Pending' = {pkg} /\ journal[pkg].txid = txs
    BY <1>1, <1>3 DEF Pending, TxInv
  <2> QED
    BY <1>1, <1>3, <2>1, <2>2 DEF TxInv
<1>8. Pending' = {pkg} /\ AtMostOneJournal' /\ Live(pkg)'
  BY <1>1, <1>3, DurableOfOne DEF Pending, AtMostOneJournal, TypeOK, Live
<1>9. \A p \in Pending' : LogInv(p)' /\ Undoable(p)'
  BY <1>5, <1>6, <1>8
<1> QED
  BY <1>7, <1>8, <1>9 DEF Durable

\* A backup is made or consumed, and the path of its line with it.
LEMMA Saved ==
  ASSUME TypeOK, Durable, Live(pkg), UNCHANGED <<pkg, snap, txs>>,
         NEW i \in DOMAIN Log, NEW n \in Node, SetSaved(i, n), n.by <= txs,
         Log[i].kind = "B",
         fs' \in [Path -> Node],
         \A y \in Path \ {Log[i].path} : fs'[y] = fs[y],
         fs'[Log[i].path].by <= txs,
         \* the line gives back what it gave back before
         (IF n # Absent THEN n ELSE fs'[Log[i].path])
           = (IF Log[i].saved # Absent THEN Log[i].saved ELSE fs[Log[i].path]),
         \* and so does an earlier one for the same path
         \A j \in DOMAIN Log : j < i /\ Log[j].path = Log[i].path
           => Log[j].kind = "N" \/ Log[j].saved # Absent,
         n = Absent => \A j \in DOMAIN Log : j > i /\ Log[j].path = Log[i].path
                         => Log[j].saved = Absent
  PROVE  Durable' /\ Live(pkg)'
<1> DEFINE m == SavedIn(Log, i, n)
<1>1. /\ journal'[pkg].log = m
      /\ \A p \in Package : Live(p)' <=> Live(p)
      /\ journal'[pkg].txid = journal[pkg].txid
      /\ Log' = m
  BY SetSavedFacts DEF Live, Log
<1>2. /\ Log \in Seq(Entry) /\ Len(Log) \in Nat
      /\ DOMAIN Log = 1..Len(Log) /\ DOMAIN m = DOMAIN Log
      /\ \A j \in DOMAIN Log : /\ m[j].path = Log[j].path
                               /\ m[j].kind = Log[j].kind
                               /\ m[j].saved = IF j = i THEN n ELSE Log[j].saved
                               /\ IsFirst(m, j) <=> IsFirst(Log, j)
      /\ \A x \in Path : Logged(m, x) <=> Logged(Log, x)
  <2>1. Log \in Seq(Entry) /\ Len(Log) \in Nat
    BY LogFacts
  <2> QED
    BY <2>1, SavedLog
<1>3. LogInv(pkg) /\ Undoable(pkg) /\ TxInv /\ Pending = {pkg}
  BY DurableOfOne DEF Pending, TypeOK
<1>4. \A j \in DOMAIN Log : Log[j].path \in Path /\ Log[j].kind \in {"N", "B"}
  BY LogFacts
<1> HIDE DEF m
<1>5. LogInv(pkg)'
  <2>1. \A x \in Path : Logged(m, x) => \E j \in DOMAIN m : m[j].path = x /\ IsFirst(m, j)
    <3>1. \A x \in Path :
            Logged(Log, x) => \E j \in DOMAIN Log : Log[j].path = x /\ IsFirst(Log, j)
      BY <1>3 DEF LogInv, Log
    <3> QED
      BY <1>2, <3>1
  <2>2. \A j \in DOMAIN m : IsFirst(m, j) \/ m[j].path = Tmp \/ m[j].kind = "B"
    <3>1. \A j \in DOMAIN Log : IsFirst(Log, j) \/ Log[j].path = Tmp \/ Log[j].kind = "B"
      BY <1>3 DEF LogInv, Log
    <3> QED
      BY <1>2, <3>1
  <2>3. \A j \in DOMAIN m : m[j].path = Tmp => m[j].kind = "N"
    <3>1. \A j \in DOMAIN Log : Log[j].path = Tmp => Log[j].kind = "N"
      BY <1>3 DEF LogInv, Log
    <3> QED
      BY <1>2, <3>1
  <2>4. \A h, j \in DOMAIN m :
          h < j /\ m[h].path = m[j].path /\ m[h].kind = "B" /\ m[j].saved # Absent
            => m[h].saved # Absent
    <3>1. SUFFICES ASSUME NEW h \in DOMAIN m, NEW j \in DOMAIN m, h < j,
                          m[h].path = m[j].path, m[h].kind = "B", m[j].saved # Absent
                   PROVE  m[h].saved # Absent
      OBVIOUS
    <3>2. h \in DOMAIN Log /\ j \in DOMAIN Log /\ Log[h].path = Log[j].path /\ Log[h].kind = "B"
      BY <1>2, <3>1
    <3>3. CASE h = i
      BY <1>2, <3>1, <3>2, <3>3
    <3>4. CASE j = i
      BY <1>2, <3>1, <3>2, <3>4
    <3>5. CASE h # i /\ j # i
      <4>1. Log[j].saved # Absent
        BY <1>2, <3>1, <3>2, <3>5
      <4>2. Log[h].saved # Absent
        BY <1>3, <3>1, <3>2, <4>1 DEF LogInv, Log
      <4> QED
        BY <1>2, <3>2, <3>5, <4>2
    <3> QED
      BY <3>3, <3>4, <3>5
  <2>5. \A j \in DOMAIN m, q \in Package : m[j].path = Meta[q] => q = pkg /\ IsFirst(m, j)
    <3>1. SUFFICES ASSUME NEW j \in DOMAIN m, NEW q \in Package, m[j].path = Meta[q]
                   PROVE  q = pkg /\ IsFirst(m, j)
      OBVIOUS
    <3>2. j \in DOMAIN Log /\ Log[j].path = Meta[q] /\ (IsFirst(m, j) <=> IsFirst(Log, j))
      BY <1>2, <3>1
    <3>3. \A h \in DOMAIN Log, r \in Package : Log[h].path = Meta[r] => r = pkg /\ IsFirst(Log, h)
      BY <1>3 DEF LogInv, Log
    <3> QED
      BY <3>1, <3>2, <3>3
  <2> QED
    BY <1>1, <2>1, <2>2, <2>3, <2>4, <2>5 DEF LogInv
<1>6. Undoable(pkg)'
  <2>1. \A x \in Path : ~Logged(m, x) => fs'[x] = snap[x]
    BY <1>2, <1>3 DEF Undoable, Log, Logged
  <2>2. SUFFICES ASSUME NEW x \in Path, NEW j \in DOMAIN m, m[j].path = x, IsFirst(m, j)
                 PROVE  Before(fs', m[j]) = snap[x]
    BY <1>1, <2>1 DEF Undoable, Before
  <2>3. Before(fs, Log[j]) = snap[x] /\ Log[j].path = x /\ j \in DOMAIN Log
    BY <1>2, <1>3, <2>2 DEF Undoable, Log
  <2>4. CASE x # Log[i].path
    BY <1>2, <2>2, <2>3, <2>4 DEF Before
  <2>5. CASE j = i
    BY <1>2, <2>2, <2>3, <2>5 DEF Before
  <2>6. CASE j # i /\ x = Log[i].path
    <3>1. j < i
      BY <1>2, <2>2, <2>3, <2>6 DEF IsFirst
    <3>2. Log[j].kind = "N" \/ Log[j].saved # Absent
      BY <2>3, <2>6, <3>1
    <3> QED
      BY <1>2, <2>2, <2>3, <2>6, <3>2 DEF Before
  <2> QED
    BY <2>4, <2>5, <2>6
<1>7. TxInv'
  <2>1. \A j \in DOMAIN m : m[j].saved.by <= txs
    BY <1>2, <1>3 DEF TxInv, Log
  <2>2. Pending' = {pkg} /\ journal[pkg].txid = txs
    BY <1>1, <1>3 DEF Pending, TxInv
  <2>3. \A x \in Path : fs'[x].by <= txs
    BY <1>3 DEF TxInv
  <2> QED
    BY <1>1, <1>3, <2>1, <2>2, <2>3 DEF TxInv
<1>8. Pending' = {pkg} /\ AtMostOneJournal' /\ Live(pkg)'
  BY <1>1, <1>3, DurableOfOne DEF Pending, AtMostOneJournal, TypeOK, Live
<1>9. \A p \in Pending' : LogInv(p)' /\ Undoable(p)'
  BY <1>5, <1>6, <1>8
<1> QED
  BY <1>7, <1>8, <1>9 DEF Durable

\* The only journal is retired.
LEMMA Retired ==
  ASSUME TypeOK, Durable, NEW p \in Package, Pending = {p},
         journal' = [journal EXCEPT ![p] = NoJournal], UNCHANGED <<fs, txs>>
  PROVE  Durable' /\ Pending' = {}
<1>1. Pending' = {}
  BY DEF Pending, Live, NoJournal, TypeOK
<1> QED
  BY <1>1 DEF Durable, TxInv, AtMostOneJournal, Pending

-----------------------------------------------------------------------------
(***************************************************************************)
(* Steps that leave the disk alone                                         *)
(***************************************************************************)

LEMMA DurableOfIInv == IInv => TypeOK /\ Durable
BY DEF IInv, Inductive, Durable

\* The process stops, or has not looked at the disk yet.
LEMMA Stopped ==
  ASSUME IInv, UNCHANGED <<fs, journal, snap, txs>>, TypeOK', pc' \in {"idle", "sweep"}
  PROVE  IInv'
<1>1. Durable' /\ Pending' = Pending /\ \A p \in Package : Committed(p)' <=> Committed(p)
  BY DurableOfIInv, Untouched
<1>2. TmpInv'
  BY <1>1 DEF IInv, Inductive, TmpInv, Forward, Pending
<1> QED
  BY <1>1, <1>2 DEF IInv, Inductive, Durable, ProcessInv, ForwardInv, UndoInv, Forward, Undoing

\* A rollback starts behind the last log line.
LEMMA ReplayBegun ==
  ASSUME IInv, UNCHANGED <<fs, journal, snap, txs>>, TypeOK', pc' = "replay",
         Live(pkg)', ~Committed(pkg)', cur' = Len(Log')
  PROVE  IInv'
<1>1. Durable' /\ Pending' = Pending /\ \A p \in Package : Committed(p)' <=> Committed(p)
  BY DurableOfIInv, Untouched
<1>2. TmpInv'
  BY <1>1 DEF IInv, Inductive, TmpInv, Forward, Pending
<1>3. Log' \in Seq(Entry)
  BY DEF TypeOK, Log, JournalDir
<1>4. UndoInv'
  BY <1>3 DEF UndoInv, Undoing
<1>5. ProcessInv' /\ ForwardInv'
  BY DEF ProcessInv, ForwardInv, Forward, Undoing
<1> QED
  BY <1>1, <1>2, <1>4, <1>5 DEF IInv, Inductive, Durable

LEMMA StopSteps ==
  ASSUME IInv,
         \/ Start \/ Finish \/ Crash \/ SweepAmbiguous \/ UndoBlocked \/ UndoUnsafe
         \/ \E p \in Package : SweepSuperseded(p)
  PROVE  IInv'
<1>1. UNCHANGED <<fs, journal, snap, txs>>
  BY DEF Start, Finish, Crash, SweepAmbiguous, UndoBlocked, UndoUnsafe,
         SweepSuperseded, Refuse
<1>2. pc' \in {"idle", "sweep"}
  BY DEF Start, Finish, Crash, SweepAmbiguous, UndoBlocked, UndoUnsafe,
         SweepSuperseded, Refuse, Exit
<1>3. pkg' = pkg /\ op' \in {op, NoOp} /\ cur' \in {cur, 0} /\ how' \in {how, "abort"}
  BY DEF Start, Finish, Crash, SweepAmbiguous, UndoBlocked, UndoUnsafe,
         SweepSuperseded, Refuse, Exit
<1>4. verdict' \in Verdicts
  BY DEF IInv, TypeOK, Start, Finish, Crash, SweepAmbiguous, UndoBlocked, UndoUnsafe,
         SweepSuperseded, Refuse, Verdicts
<1>5. crashes' \in 0..MaxCrash
  BY BoundAssumption
  DEF IInv, TypeOK, Start, Finish, Crash, SweepAmbiguous, UndoBlocked, UndoUnsafe,
      SweepSuperseded, Refuse
<1>6. TypeOK'
  BY <1>1, <1>2, <1>3, <1>4, <1>5, NodeFacts DEF IInv, TypeOK, Phases
<1> QED
  BY <1>1, <1>2, <1>6, Stopped

LEMMA SweepCleanStep == ASSUME IInv, SweepClean PROVE IInv'
<1>1. TypeOK'
  BY DEF IInv, TypeOK, SweepClean, Phases
<1>2. Durable' /\ Pending' = {} /\ \A p \in Package : Committed(p)' <=> Committed(p)
  BY DurableOfIInv, Untouched DEF SweepClean
<1>3. pc' = "ready" /\ fs' = fs /\ Pending = {}
  BY DEF SweepClean
<1> QED
  BY <1>1, <1>2, <1>3
  DEF IInv, Inductive, Durable, TmpInv, ProcessInv, ForwardInv, UndoInv, Forward, Undoing

LEMMA FailStep == ASSUME IInv, Fail PROVE IInv'
<1>1. TypeOK'
  BY LogFacts, NodeFacts DEF IInv, TypeOK, Fail, Phases, Undoing
<1>2. Live(pkg)' /\ ~Committed(pkg)' /\ cur' = Len(Log')
  BY DEF IInv, Inductive, ProcessInv, Fail, Live, Committed, Log
<1> QED
  BY <1>1, <1>2, ReplayBegun DEF Fail

LEMMA SweepRollbackStep ==
  ASSUME IInv, NEW p \in Package, SweepRollback(p)
  PROVE  IInv'
<1>1. Live(p)
  BY DEF SweepRollback, Pending
<1>2. Live(pkg)' /\ ~Committed(pkg)' /\ cur' = Len(Log')
  BY <1>1 DEF SweepRollback, Live, Committed, Log
<1>3. Log' \in Seq(Entry)
  BY DEF IInv, TypeOK, SweepRollback, Log, JournalDir
<1>4. TypeOK'
  BY <1>2, <1>3 DEF IInv, TypeOK, SweepRollback, Phases, Undoing
<1> QED
  BY <1>2, <1>4, ReplayBegun DEF SweepRollback

LEMMA SkipRestoredStep == ASSUME IInv, SkipRestored PROVE IInv'
<1>1. /\ cur \in 1..Len(Log) /\ Log[cur].kind = "B" /\ Log[cur].saved = Absent
      /\ cur' = cur - 1 /\ pc = "replay" /\ pc' = "replay"
      /\ UNCHANGED <<fs, journal, pkg, snap, txs>>
  BY LogFacts DEF IInv, Inductive, UndoInv, Undoing, SkipRestored, AtEntry
<1>2. TypeOK'
  BY <1>1, LogFacts DEF IInv, TypeOK, SkipRestored
<1>3. Durable' /\ Pending' = Pending /\ \A p \in Package : Committed(p)' <=> Committed(p)
  BY <1>1, DurableOfIInv, Untouched
<1>4. TmpInv'
  BY <1>1, <1>3 DEF IInv, Inductive, TmpInv, Forward, Pending
<1>5. ProcessInv'
  BY <1>1 DEF IInv, Inductive, ProcessInv, Live, Committed, Forward, Undoing
<1>6. UndoInv'
  <2>1. Log' = Log
    BY <1>1 DEF Log
  <2>2. ASSUME NEW j \in DOMAIN Log, j > cur - 1
        PROVE  IF Log[j].kind = "B" THEN Log[j].saved = Absent
               ELSE IsFirst(Log, j) => fs[Log[j].path] = Absent
    BY <1>1, <2>2, LogFacts DEF IInv, Inductive, UndoInv, Undoing
  <2>3. cur - 1 \in 0..Len(Log)
    BY <1>1, LogFacts DEF IInv
  <2> QED
    BY <1>1, <2>1, <2>2, <2>3 DEF UndoInv, IsFirst
<1>7. ForwardInv'
  BY <1>1 DEF ForwardInv, Forward
<1> QED
  BY <1>2, <1>3, <1>4, <1>5, <1>6, <1>7 DEF IInv, Inductive, Durable

-----------------------------------------------------------------------------
(***************************************************************************)
(* A journal begins or is retired                                          *)
(***************************************************************************)

LEMMA BeginStep ==
  ASSUME IInv, NEW p \in Package, Begin(p)
  PROVE  IInv'
<1>1. /\ Pending = {} /\ fs[Tmp] = Absent
      /\ txs \in Nat /\ txs' = txs + 1 /\ txs < MaxTx
      /\ fs' = fs /\ snap' = fs /\ pkg' = p /\ pc' = "apply"
      /\ journal \in [Package -> JournalDir]
      /\ \A x \in Path : fs[x] \in Node /\ fs[x].by <= txs
  BY DEF IInv, Inductive, TypeOK, TmpInv, TxInv, Begin, Node
<1>2. /\ journal'[p] = [txid |-> txs + 1, log |-> << >>]
      /\ \A q \in Package \ {p} : journal'[q] = journal[q] /\ ~Live(q)
  BY <1>1 DEF Begin, Pending
<1>3. journal' \in [Package -> JournalDir]
  BY <1>1 DEF Begin, JournalDir
<1>4. TypeOK'
  BY <1>1, <1>3, BoundAssumption DEF IInv, TypeOK, Begin, Phases, Forward
<1>5. Live(p)' /\ Pending' = {p} /\ Log' = << >>
  BY <1>1, <1>2 DEF Live, Pending, Log
<1>6. LogInv(p)' /\ Undoable(p)'
  BY <1>1, <1>2 DEF LogInv, Undoable, Logged
<1>7. TxInv'
  <2>1. \A x \in Path : fs[x].by <= txs + 1 /\ fs[x].by < txs + 1
    BY <1>1 DEF Node
  <2> QED
    BY <1>1, <1>2, <1>5, <2>1 DEF TxInv
<1>8. AtMostOneJournal'
  BY <1>5 DEF AtMostOneJournal, Pending
<1>9. TmpInv'
  BY <1>1, <1>5, <1>8 DEF TmpInv
<1>10. ProcessInv' /\ UndoInv'
  BY <1>1, <1>5 DEF ProcessInv, UndoInv, Forward, Undoing
<1>11. ForwardInv'
  BY <1>1, <1>5 DEF ForwardInv, Forward, Logged
<1>12. \A q \in Pending' : LogInv(q)' /\ Undoable(q)'
  BY <1>5, <1>6
<1> QED
  BY <1>4, <1>7, <1>8, <1>9, <1>10, <1>11, <1>12 DEF IInv, Inductive

\* Retiring a journal leaves the root without its temporary.
LEMMA RetireStep ==
  ASSUME IInv, NEW p \in Package, Pending = {p},
         journal' = [journal EXCEPT ![p] = NoJournal], UNCHANGED <<fs, txs>>,
         fs[Tmp] = Absent, TypeOK', pc' \in {"idle", "ready", "done"}
  PROVE  IInv'
<1>1. Durable' /\ Pending' = {}
  BY DurableOfIInv, Retired
<1>2. TmpInv'
  BY <1>1 DEF TmpInv, Forward
<1> QED
  BY <1>1, <1>2 DEF IInv, Inductive, Durable, ProcessInv, ForwardInv, UndoInv, Forward, Undoing

LEMMA SweepCommittedStep ==
  ASSUME IInv, NEW p \in Package, SweepCommitted(p)
  PROVE  IInv'
<1>1. Pending = {p} /\ fs[Tmp] = Absent /\ UNCHANGED <<fs, txs>>
  BY DEF IInv, Inductive, TmpInv, SweepCommitted
<1>2. TypeOK'
  BY NodeFacts DEF IInv, TypeOK, SweepCommitted, Phases
<1> QED
  BY <1>1, <1>2, RetireStep DEF SweepCommitted

LEMMA CommitStep == ASSUME IInv, Commit PROVE IInv'
<1>1. Pending = {pkg} /\ fs[Tmp] = Absent /\ UNCHANGED <<fs, txs>> /\ pkg \in Package
  BY DEF IInv, Inductive, TypeOK, TmpInv, Commit, AtMostOneJournal, ProcessInv, Forward, Pending
<1>2. TypeOK'
  BY NodeFacts DEF IInv, TypeOK, Commit, Phases
<1> QED
  BY <1>1, <1>2, RetireStep DEF Commit

\* Behind the whole log lies the root the transaction started from.
LEMMA RolledBack ==
  ASSUME IInv, pc = "replay", cur = 0
  PROVE  Pending = {pkg} /\ fs = snap /\ snap[Tmp] = Absent
<1>1. Live(pkg) /\ pkg \in Package /\ TypeOK /\ Durable
  BY DurableOfIInv DEF IInv, Inductive, TypeOK, ProcessInv, Undoing
<1>2. Pending = {pkg} /\ LogInv(pkg) /\ Undoable(pkg)
  BY <1>1, DurableOfOne DEF Pending
<1>3. snap[Tmp] = Absent
  BY <1>2 DEF IInv, Inductive, TmpInv
<1>4. ASSUME NEW x \in Path
      PROVE  fs[x] = snap[x]
  <2>1. CASE ~Logged(Log, x)
    BY <1>2, <2>1 DEF Undoable, Log
  <2>2. CASE Logged(Log, x)
    <3>1. PICK i \in DOMAIN Log : Log[i].path = x /\ IsFirst(Log, i)
      BY <1>2, <2>2 DEF LogInv, Log
    <3>2. Before(fs, Log[i]) = snap[x]
      BY <1>2, <3>1 DEF Undoable, Log
    <3>3. IF Log[i].kind = "B" THEN Log[i].saved = Absent ELSE fs[x] = Absent
      BY <1>1, <3>1, LogFacts DEF IInv, Inductive, UndoInv, Undoing
    <3>4. Log[i].kind \in {"N", "B"}
      BY <1>1, LogFacts
    <3> QED
      BY <3>1, <3>2, <3>3, <3>4 DEF Before
  <2> QED
    BY <2>1, <2>2
<1> QED
  BY <1>1, <1>2, <1>3, <1>4 DEF TypeOK

LEMMA RetireRolledBackStep == ASSUME IInv, RetireRolledBack PROVE IInv'
<1>1. Pending = {pkg} /\ fs[Tmp] = Absent /\ UNCHANGED <<fs, txs>> /\ pkg \in Package
  BY RolledBack DEF IInv, TypeOK, RetireRolledBack
<1>2. pc' \in {"idle", "ready"} /\ op' \in {op, NoOp} /\ cur' \in {cur, 0} /\ how' \in {how, "abort"}
  BY DEF RetireRolledBack, Exit
<1>3. TypeOK'
  BY <1>1, <1>2, NodeFacts DEF IInv, TypeOK, RetireRolledBack, Phases
<1> QED
  BY <1>1, <1>2, <1>3, RetireStep DEF RetireRolledBack

-----------------------------------------------------------------------------
(***************************************************************************)
(* Going forward: log lines                                                *)
(***************************************************************************)

\* What ForwardInv says, of the process that is in it.
LEMMA ForwardFacts ==
  ASSUME IInv, pc \in Forward
  PROVE  /\ TypeOK /\ Durable /\ Live(pkg) /\ pkg \in Package
         /\ journal[pkg].txid = txs /\ txs \in Nat
         /\ LogInv(pkg) /\ Undoable(pkg)
         /\ pc # "apply" => ~Committed(pkg)
         /\ \A i \in DOMAIN Log :
              Log[i].kind = "B" /\ (i < Len(Log) \/ pc # "moving")
                => Log[i].saved # Absent
         /\ pc # "apply" => /\ op.path # Tmp
                            /\ \A q \in Package :
                                 op.path = Meta[q] => q = pkg /\ op.kind = "bytes"
                            /\ op.node.by = txs
<1>1. TypeOK /\ Durable /\ Live(pkg) /\ pkg \in Package
  BY DurableOfIInv DEF IInv, Inductive, TypeOK, ProcessInv
<1>2. LogInv(pkg) /\ Undoable(pkg) /\ journal[pkg].txid = txs /\ txs \in Nat
  BY <1>1, BoundAssumption DEF Durable, TxInv, Pending, TypeOK
<1>3. pc # "apply" => ~Committed(pkg)
  BY DEF IInv, Inductive, ProcessInv
<1> QED
  BY <1>1, <1>2, <1>3 DEF IInv, Inductive, ForwardInv

\* A log line is written: what it says of the path is true.
LEMMA LineWritten ==
  ASSUME IInv, pc \in Forward, pc # "moving", UNCHANGED <<fs, pkg, snap, txs>>,
         NEW e \in Entry, Append1(e), e.saved = Absent,
         ~Logged(Log, e.path) => e.kind = "B" \/ fs[e.path] = Absent,
         Logged(Log, e.path) => e.path = Tmp \/ e.kind = "B",
         e.path = Tmp => e.kind = "N",
         \A q \in Package : e.path = Meta[q] => q = pkg /\ ~Logged(Log, e.path),
         ~Committed(pkg), TypeOK', pc' \in Forward \ {"apply"},
         op'.kind # "bytes" => fs[Tmp] = Absent
  PROVE  /\ Durable' /\ TmpInv' /\ ProcessInv' /\ UndoInv' /\ Live(pkg)' /\ ~Committed(pkg)'
         /\ Log' = Append(Log, e) /\ Log'[Len(Log')] = e /\ Len(Log') > 0
         /\ DOMAIN Log' = 1..Len(Log')
         /\ \A x \in Path : Logged(Log, x)' <=> Logged(Log, x) \/ x = e.path
         /\ \A i \in DOMAIN Log' : i < Len(Log') => i \in DOMAIN Log /\ Log'[i] = Log[i]
         /\ \A i \in DOMAIN Log' :
              Log'[i].kind = "B" /\ i < Len(Log') => Log'[i].saved # Absent
<1>1. Durable' /\ Live(pkg)'
  BY ForwardFacts, Appended
<1>2. Log' = Append(Log, e) /\ journal'[pkg].txid = journal[pkg].txid
  BY ForwardFacts, Append1Facts DEF Log
<1>3. /\ Log'[Len(Log')] = e /\ Len(Log') > 0 /\ DOMAIN Log' = 1..Len(Log')
      /\ \A i \in DOMAIN Log' : i < Len(Log') => i \in DOMAIN Log /\ Log'[i] = Log[i]
      /\ \A x \in Path : Logged(Log', x) <=> Logged(Log, x) \/ x = e.path
  BY <1>2, ForwardFacts, LogFacts, AppendedLog
<1>4. \A i \in DOMAIN Log' : Log'[i].kind = "B" /\ i < Len(Log') => Log'[i].saved # Absent
  BY <1>3, ForwardFacts
<1>5. ~Committed(pkg)'
  BY <1>2 DEF Committed
<1>6. \A p \in Package : Live(p)' => p = pkg
  BY <1>1, ForwardFacts, DurableOfOne DEF Durable, AtMostOneJournal
<1>7. TmpInv'
  <2>1. Pending' = {pkg}
    BY <1>1, <1>6, ForwardFacts DEF Pending
  <2>2. snap[Tmp] = Absent
    BY ForwardFacts DEF IInv, Inductive, TmpInv, Pending
  <2> QED
    BY <1>5, <2>1, <2>2 DEF TmpInv
<1>8. ProcessInv' /\ UndoInv'
  BY <1>1, <1>5 DEF ProcessInv, UndoInv, Forward, Undoing
<1> QED
  BY <1>1, <1>2, <1>3, <1>4, <1>5, <1>7, <1>8 DEF Logged

LEMMA IntendStep ==
  ASSUME IInv, NEW k \in OpKinds, NEW x \in Path, NEW c \in ClaimSets, Intend(k, x, c)
  PROVE  IInv'
<1> USE DEF Forward
<1>1. /\ pc = "apply" /\ ~Committed(pkg) /\ x # Tmp /\ fs[Tmp] = Absent
      /\ \A q \in Package : x = Meta[q] => q = pkg /\ k = "bytes"
      /\ Logged(Log, x) => fs[x] # Absent
      /\ UNCHANGED <<fs, pkg, cur, how, verdict, snap, txs, crashes>>
      /\ op' = [kind |-> k, path |-> x, node |-> NewNode(k, c)]
  BY DEF Intend, CallerContract, IInv, Inductive, TmpInv
<1>2. ~Logged(Log, Meta[pkg])
  BY <1>1 DEF IInv, Inductive, ForwardInv
<1>3. /\ NewNode(k, c) \in Node /\ NewNode(k, c).by = txs
      /\ k = "bytes" => NewNode(k, c).kind = "file"
  BY <1>1, ForwardFacts, PathAssumption DEF NewNode, Node
<1>4. op' \in Op
  BY <1>1, <1>3 DEF Op
<1>5. PICK e \in Entry :
        /\ Append1(e) /\ e.saved = Absent
        /\ \/ e.kind = "N" /\ e.path = Tmp /\ k = "bytes" /\ pc' = "tmp"
           \/ e.kind = "N" /\ e.path = x /\ k # "bytes" /\ fs[x] = Absent /\ pc' = "writing"
           \/ e.kind = "B" /\ e.path = x /\ k # "bytes" /\ fs[x] # Absent /\ pc' = "moving"
  <2>1. NewEntry(Tmp) \in Entry /\ NewEntry(x) \in Entry /\ BackupEntry(x) \in Entry
    BY NodeFacts, PathAssumption DEF NewEntry, BackupEntry, Entry
  <2>2. CASE k = "bytes"
    BY <2>1, <2>2 DEF Intend, NewEntry
  <2>3. CASE k # "bytes"
    BY <2>1, <2>3 DEF Intend, Stash, NewEntry, BackupEntry
  <2> QED
    BY <2>2, <2>3
<1>6. TypeOK'
  BY <1>1, <1>4, <1>5, Append1Facts DEF IInv, TypeOK, Phases
<1>7. \A q \in Package : Meta[q] # Tmp
  BY MetaAssumption
<1>8. /\ Durable' /\ TmpInv' /\ ProcessInv' /\ UndoInv'
      /\ Log'[Len(Log')] = e /\ Len(Log') > 0 /\ DOMAIN Log' = 1..Len(Log')
      /\ \A y \in Path : Logged(Log, y)' <=> Logged(Log, y) \/ y = e.path
      /\ \A i \in DOMAIN Log' : Log'[i].kind = "B" /\ i < Len(Log') => Log'[i].saved # Absent
  BY <1>1, <1>5, <1>6, <1>7, LineWritten
<1>9. ForwardInv'
  <2>1. ~Logged(Log, Meta[pkg])'
    <3>1. Meta[pkg] \in Path /\ e.path # Meta[pkg]
      BY <1>1, <1>5, <1>7, PathAssumption DEF IInv, TypeOK
    <3> QED
      BY <1>1, <1>2, <1>8, <3>1 DEF Logged
  <2>2. CASE pc' = "tmp"
    <3>1. Tmp \in Path /\ e.path = Tmp /\ k = "bytes" /\ e.kind = "N"
      BY <1>5, <2>2, PathAssumption
    <3>2. Logged(Log, Tmp)' /\ (Logged(Log, x)' <=> Logged(Log, x))
      BY <1>1, <1>8, <3>1
    <3>3. \A i \in DOMAIN Log' : Log'[i].kind = "B" => Log'[i].saved # Absent
      BY <1>8, <3>1
    <3> QED
      BY <1>1, <1>3, <2>1, <2>2, <3>1, <3>2, <3>3 DEF ForwardInv, Logged
  <2>3. CASE pc' \in {"writing", "moving"}
    <3>1. /\ e.path = x /\ k # "bytes"
          /\ pc' = "moving" <=> e.kind = "B"
          /\ pc' = "moving" => fs[x] # Absent
      BY <1>5, <2>3
    <3>2. \A i \in DOMAIN Log' : Log'[i].kind = "B" /\ (i < Len(Log') \/ pc' # "moving")
                                   => Log'[i].saved # Absent
      BY <1>8, <3>1
    <3> QED
      BY <1>1, <1>3, <1>5, <1>8, <2>1, <2>3, <3>1, <3>2 DEF ForwardInv, Logged
  <2> QED
    BY <1>5, <2>2, <2>3
<1> QED
  BY <1>6, <1>8, <1>9 DEF IInv, Inductive, Durable

LEMMA IntendSwapStep == ASSUME IInv, IntendSwap PROVE IInv'
<1> USE DEF Forward
<1>1. /\ pc = "intent" /\ ~Committed(pkg) /\ op.path # Tmp /\ op.kind = "bytes"
      /\ \A q \in Package : op.path = Meta[q] => q = pkg
      /\ Logged(Log, op.path) => fs[op.path] # Absent
      /\ ~Logged(Log, Meta[pkg]) /\ Logged(Log, Tmp)
      /\ op.node.kind = "file" /\ op.node.by = txs
      /\ UNCHANGED <<fs, pkg, op, cur, how, verdict, snap, txs, crashes>>
  BY ForwardFacts DEF IntendSwap, IInv, Inductive, ForwardInv
<1>2. op.path \in Path /\ pkg \in Package
  BY DEF IInv, TypeOK, Op
<1>3. PICK e \in Entry :
        /\ Append1(e) /\ e.saved = Absent /\ e.path = op.path
        /\ \/ e.kind = "N" /\ fs[op.path] = Absent /\ pc' = "swapping"
           \/ e.kind = "B" /\ fs[op.path] # Absent /\ pc' = "moving"
  <2>1. NewEntry(op.path) \in Entry /\ BackupEntry(op.path) \in Entry
    BY <1>2, NodeFacts DEF NewEntry, BackupEntry, Entry
  <2> QED
    BY <2>1 DEF IntendSwap, Stash, NewEntry, BackupEntry
<1>4. TypeOK'
  BY <1>1, <1>3, Append1Facts DEF IInv, TypeOK, Phases
<1>5. /\ Durable' /\ TmpInv' /\ ProcessInv' /\ UndoInv'
      /\ Log'[Len(Log')] = e /\ Len(Log') > 0 /\ DOMAIN Log' = 1..Len(Log')
      /\ \A y \in Path : Logged(Log, y)' <=> Logged(Log, y) \/ y = e.path
      /\ \A i \in DOMAIN Log' : Log'[i].kind = "B" /\ i < Len(Log') => Log'[i].saved # Absent
  <2>1. \A q \in Package : e.path = Meta[q] => q = pkg /\ ~Logged(Log, e.path)
    BY <1>1, <1>3
  <2> QED
    BY <1>1, <1>3, <1>4, <2>1, LineWritten
<1>6. ForwardInv'
  <2>1. Logged(Log, Meta[pkg])' => op.path = Meta[pkg]
    BY <1>1, <1>2, <1>3, <1>5, PathAssumption DEF Logged
  <2>2. Logged(Log, Tmp)'
    BY <1>1, <1>5, PathAssumption
  <2>3. \A i \in DOMAIN Log' : Log'[i].kind = "B" /\ (i < Len(Log') \/ pc' # "moving")
                                 => Log'[i].saved # Absent
    BY <1>3, <1>5
  <2> QED
    BY <1>1, <1>3, <1>5, <2>1, <2>2, <2>3 DEF ForwardInv
<1> QED
  BY <1>4, <1>5, <1>6 DEF IInv, Inductive, Durable

-----------------------------------------------------------------------------
(***************************************************************************)
(* Going forward: backups and the root                                     *)
(***************************************************************************)

\* The parts of the invariant that follow once the disk is in order.
LEMMA RestFollows ==
  ASSUME IInv, pc \in Forward \cup Undoing, Durable', Live(pkg)',
         UNCHANGED <<pkg, snap>>, pc' \in Forward \cup Undoing,
         \A p \in Package : Live(p)' => Live(p),
         pc' # "apply" => ~Committed(pkg)',
         pc' = "apply" \/ (pc' \in Forward /\ op'.kind # "bytes") => fs'[Tmp] = Absent
  PROVE  TmpInv' /\ ProcessInv'
<1>1. Live(pkg) /\ pkg \in Package
  BY DEF IInv, Inductive, ProcessInv, TypeOK
<1>2. Pending' = {pkg}
  BY <1>1 DEF Durable, AtMostOneJournal, Pending
<1>3. snap[Tmp] = Absent
  BY <1>1 DEF IInv, Inductive, TmpInv, Pending
<1>4. TmpInv'
  BY <1>2, <1>3 DEF TmpInv
<1>5. ProcessInv'
  BY <1>2 DEF ProcessInv, Forward, Undoing
<1> QED
  BY <1>4, <1>5

\* A path a forward step touches is protected, if its backup was made.
LEMMA ForwardProtects ==
  ASSUME IInv, pc \in Forward, pc # "moving", NEW x \in Path, Logged(Log, x)
  PROVE  Protected(x)
BY ForwardFacts, LogFacts DEF Protected, IsFirst

\* What making the backup of the last line does to the disk and the log.
LEMMA BackupMade ==
  ASSUME IInv, pc = "moving", SetSaved(Len(Log), fs[op.path]),
         fs' \in {fs, [fs EXCEPT ![op.path] = Absent]},
         UNCHANGED <<pkg, snap, txs>>
  PROVE  /\ Durable' /\ Live(pkg)' /\ ~Committed(pkg)'
         /\ journal' \in [Package -> JournalDir]
         /\ \A p \in Package : Live(p)' => Live(p)
         /\ Len(Log') = Len(Log) /\ DOMAIN Log' = DOMAIN Log
         /\ \A j \in DOMAIN Log : Log'[j].path = Log[j].path
         /\ \A j \in DOMAIN Log : Log'[j].kind = "B" => Log'[j].saved # Absent
         /\ Log'[Len(Log)].kind = "B" /\ Log'[Len(Log)].saved = fs[op.path]
         /\ \A x \in Path : Logged(Log, x)' <=> Logged(Log, x)
<1> USE DEF Forward
<1>1. /\ Len(Log) > 0 /\ Log[Len(Log)].path = op.path /\ Log[Len(Log)].kind = "B"
      /\ Log[Len(Log)].saved = Absent /\ fs[op.path] # Absent
      /\ op.path \in Path
  BY DEF IInv, Inductive, ForwardInv, TypeOK, Op
<1>2. TypeOK /\ Len(Log) \in DOMAIN Log /\ fs[op.path] \in Node /\ pkg \in Package
  BY <1>1, LogFacts DEF IInv, TypeOK
<1>3. /\ fs' \in [Path -> Node]
      /\ \A y \in Path \ {op.path} : fs'[y] = fs[y]
      /\ fs'[op.path] \in {fs[op.path], Absent}
  BY <1>1, <1>2, NodeFacts DEF TypeOK
<1>4. fs[op.path].by <= txs /\ fs'[op.path].by <= txs
  BY <1>1, <1>3, ForwardFacts DEF IInv, Inductive, TxInv, Absent
<1>5. Durable' /\ Live(pkg)'
  <2>1. \A j \in DOMAIN Log : j < Len(Log) /\ Log[j].path = op.path
          => Log[j].kind = "N" \/ Log[j].saved # Absent
    BY <1>2, ForwardFacts, LogFacts
  <2> QED
    BY <1>1, <1>2, <1>3, <1>4, <2>1, ForwardFacts, Saved
<1>6. /\ journal' \in [Package -> JournalDir]
      /\ journal'[pkg].txid = journal[pkg].txid
      /\ Log' = SavedIn(Log, Len(Log), fs[op.path])
      /\ \A p \in Package : Live(p)' => Live(p)
  BY <1>2, SetSavedFacts DEF Log, Live
<1>7. ~Committed(pkg)'
  <2>1. Meta[pkg] \in Path /\ Absent.kind # "file"
    BY <1>2, PathAssumption DEF Absent
  <2> QED
    BY <1>1, <1>3, <1>6, <2>1, ForwardFacts DEF Committed
<1>8. /\ Len(Log') = Len(Log) /\ DOMAIN Log' = DOMAIN Log
      /\ \A j \in DOMAIN Log : /\ Log'[j].path = Log[j].path
                               /\ Log'[j].kind = Log[j].kind
                               /\ Log'[j].saved = IF j = Len(Log) THEN fs[op.path]
                                                  ELSE Log[j].saved
      /\ \A x \in Path : Logged(Log', x) <=> Logged(Log, x)
  BY <1>1, <1>2, SavedNext
<1>9. \A j \in DOMAIN Log : Log'[j].kind = "B" => Log'[j].saved # Absent
  BY <1>1, <1>8, <1>2, ForwardFacts, LogFacts
<1> QED
  BY <1>1, <1>2, <1>5, <1>6, <1>7, <1>8, <1>9 DEF Logged

LEMMA MoveAsideStep == ASSUME IInv, MoveAside PROVE IInv'
<1> USE DEF Forward
<1>1. /\ pc = "moving" /\ SetSaved(Len(Log), fs[op.path])
      /\ fs' = [fs EXCEPT ![op.path] = Absent]
      /\ UNCHANGED <<pkg, cur, how, verdict, snap, txs, crashes>>
  BY DEF MoveAside
<1>2. /\ op.path \in Path /\ op.path # Tmp /\ pkg \in Package
      /\ \A q \in Package : op.path = Meta[q] => q = pkg /\ op.kind = "bytes"
      /\ op.kind = "bytes" => op.node.kind = "file" /\ Logged(Log, Tmp)
      /\ op.kind # "bytes" => fs[Tmp] = Absent
      /\ Len(Log) > 0 /\ Log[Len(Log)].path = op.path
      /\ Logged(Log, Meta[pkg]) => op.path = Meta[pkg]
      /\ op.node.by = txs
      /\ Len(Log) \in DOMAIN Log /\ DOMAIN Log = 1..Len(Log)
  BY <1>1, LogFacts DEF IInv, Inductive, ForwardInv, TmpInv, TypeOK, Op
<1>3. \/ op.kind = "drop" /\ pc' = "apply" /\ op' = NoOp
      \/ op.kind = "bytes" /\ pc' = "swapping" /\ op' = op
      \/ op.kind \notin {"drop", "bytes"} /\ pc' = "writing" /\ op' = op
  BY DEF MoveAside, Onward, OpDone
<1>4. /\ Durable' /\ Live(pkg)' /\ ~Committed(pkg)'
      /\ journal' \in [Package -> JournalDir]
      /\ \A p \in Package : Live(p)' => Live(p)
      /\ Len(Log') = Len(Log) /\ DOMAIN Log' = DOMAIN Log
      /\ \A j \in DOMAIN Log : Log'[j].path = Log[j].path
      /\ \A j \in DOMAIN Log : Log'[j].kind = "B" => Log'[j].saved # Absent
      /\ \A x \in Path : Logged(Log, x)' <=> Logged(Log, x)
  BY <1>1, BackupMade
<1>5. TypeOK'
  BY <1>1, <1>2, <1>3, <1>4, NodeFacts DEF IInv, TypeOK, Phases
<1>6. TmpInv' /\ ProcessInv'
  <2>1. op.kind # "bytes" => fs'[Tmp] = Absent
    BY <1>1, <1>2, PathAssumption DEF IInv, TypeOK
  <2>2. pc' = "apply" \/ (pc' \in Forward /\ op'.kind # "bytes") => fs'[Tmp] = Absent
    BY <1>3, <2>1
  <2> QED
    BY <1>1, <1>3, <1>4, <2>2, RestFollows
<1>7. ForwardInv'
  <2>1. Meta[pkg] \in Path /\ Tmp \in Path
    BY <1>2, PathAssumption
  <2>2. (Logged(Log, Meta[pkg])' => op.path = Meta[pkg]) /\ (Logged(Log, Tmp) => Logged(Log, Tmp)')
    BY <1>1, <1>2, <1>4, <2>1 DEF Logged
  <2> QED
    BY <1>1, <1>2, <1>3, <1>4, <2>1, <2>2 DEF ForwardInv
<1>8. UndoInv'
  BY <1>3 DEF UndoInv, Undoing
<1> QED
  BY <1>4, <1>5, <1>6, <1>7, <1>8 DEF IInv, Inductive, Durable

LEMMA CopyAsideStep == ASSUME IInv, CopyAside PROVE IInv'
<1> USE DEF Forward
<1>1. /\ pc = "moving" /\ pc' = "unlinking" /\ SetSaved(Len(Log), fs[op.path])
      /\ UNCHANGED <<fs, pkg, op, cur, how, verdict, snap, txs, crashes>>
  BY DEF CopyAside
<1>2. /\ op.path \in Path /\ op.path # Tmp /\ pkg \in Package
      /\ \A q \in Package : op.path = Meta[q] => q = pkg /\ op.kind = "bytes"
      /\ op.kind = "bytes" => op.node.kind = "file" /\ Logged(Log, Tmp)
      /\ op.kind # "bytes" => fs[Tmp] = Absent
      /\ Len(Log) > 0 /\ Log[Len(Log)].path = op.path
      /\ Logged(Log, Meta[pkg]) => op.path = Meta[pkg]
      /\ op.node.by = txs
      /\ Len(Log) \in DOMAIN Log /\ DOMAIN Log = 1..Len(Log)
  BY <1>1, LogFacts DEF IInv, Inductive, ForwardInv, TmpInv, TypeOK, Op
<1>4. /\ Durable' /\ Live(pkg)' /\ ~Committed(pkg)'
      /\ journal' \in [Package -> JournalDir]
      /\ \A p \in Package : Live(p)' => Live(p)
      /\ Len(Log') = Len(Log) /\ DOMAIN Log' = DOMAIN Log
      /\ \A j \in DOMAIN Log : Log'[j].path = Log[j].path
      /\ \A j \in DOMAIN Log : Log'[j].kind = "B" => Log'[j].saved # Absent
      /\ Log'[Len(Log)].kind = "B" /\ Log'[Len(Log)].saved = fs[op.path]
      /\ \A x \in Path : Logged(Log, x)' <=> Logged(Log, x)
  BY <1>1, BackupMade
<1>5. TypeOK'
  BY <1>1, <1>4 DEF IInv, TypeOK, Phases
<1>6. TmpInv' /\ ProcessInv'
  BY <1>1, <1>2, <1>4, RestFollows
<1>7. ForwardInv'
  <2>1. Meta[pkg] \in Path /\ Tmp \in Path
    BY <1>2, PathAssumption
  <2>2. (Logged(Log, Meta[pkg])' => op.path = Meta[pkg]) /\ (Logged(Log, Tmp) => Logged(Log, Tmp)')
    BY <1>1, <1>2, <1>4, <2>1 DEF Logged
  <2> QED
    BY <1>1, <1>2, <1>4, <2>1, <2>2 DEF ForwardInv
<1>8. UndoInv'
  BY <1>1 DEF UndoInv, Undoing
<1> QED
  BY <1>4, <1>5, <1>6, <1>7, <1>8 DEF IInv, Inductive, Durable

\* A forward step changes the root at logged paths only.
LEMMA RootStep ==
  ASSUME IInv, pc \in Forward \ {"apply", "moving"},
         UNCHANGED <<journal, pkg, snap, txs>>, fs' \in [Path -> Node],
         \A y \in Path : fs'[y] # fs[y] => Logged(Log, y) /\ fs'[y].by <= txs
  PROVE  /\ Durable' /\ Live(pkg)' /\ Log' = Log
         /\ \A p \in Package : Live(p)' => Live(p)
<1>1. Durable' /\ Live(pkg)'
  BY ForwardFacts, ForwardProtects, RootChanged
<1> QED
  BY <1>1 DEF Log, Live

LEMMA UnlinkOriginalStep == ASSUME IInv, UnlinkOriginal PROVE IInv'
<1> USE DEF Forward
<1>1. /\ pc = "unlinking" /\ fs' = [fs EXCEPT ![op.path] = Absent]
      /\ UNCHANGED <<journal, pkg, cur, how, verdict, snap, txs, crashes>>
  BY DEF UnlinkOriginal
<1>2. /\ op.path \in Path /\ op.path # Tmp /\ pkg \in Package /\ fs \in [Path -> Node]
      /\ \A q \in Package : op.path = Meta[q] => q = pkg /\ op.kind = "bytes"
      /\ op.kind = "bytes" => op.node.kind = "file" /\ Logged(Log, Tmp)
      /\ op.kind # "bytes" => fs[Tmp] = Absent
      /\ Len(Log) > 0 /\ Log[Len(Log)].path = op.path
      /\ Logged(Log, Meta[pkg]) => op.path = Meta[pkg]
      /\ op.node.by = txs /\ txs \in Nat
      /\ Len(Log) \in DOMAIN Log
      /\ \A i \in DOMAIN Log : Log[i].kind = "B" => Log[i].saved # Absent
      /\ ~Committed(pkg)
  BY <1>1, LogFacts, ForwardFacts DEF IInv, Inductive, ForwardInv, TmpInv, TypeOK, Op
<1>3. \/ op.kind = "drop" /\ pc' = "apply" /\ op' = NoOp
      \/ op.kind = "bytes" /\ pc' = "swapping" /\ op' = op
      \/ op.kind \notin {"drop", "bytes"} /\ pc' = "writing" /\ op' = op
  BY DEF UnlinkOriginal, Onward, OpDone
<1>4. /\ fs' \in [Path -> Node] /\ Absent.by = 0
      /\ \A y \in Path \ {op.path} : fs'[y] = fs[y]
      /\ fs'[op.path] = Absent
  BY <1>1, <1>2, NodeFacts DEF Absent
<1>5. Durable' /\ Live(pkg)' /\ Log' = Log /\ \A p \in Package : Live(p)' => Live(p)
  <2>1. \A y \in Path : fs'[y] # fs[y] => Logged(Log, y) /\ fs'[y].by <= txs
    BY <1>2, <1>4 DEF Logged
  <2> QED
    BY <1>1, <1>4, <2>1, RootStep
<1>6. TypeOK'
  BY <1>1, <1>3, <1>4, NodeFacts DEF IInv, TypeOK, Phases
<1>7. ~Committed(pkg)'
  <2>1. Meta[pkg] \in Path /\ Absent.kind # "file"
    BY <1>2, PathAssumption DEF Absent
  <2> QED
    BY <1>1, <1>2, <1>4, <2>1 DEF Committed
<1>8. TmpInv' /\ ProcessInv'
  <2>1. op.kind # "bytes" => fs'[Tmp] = Absent
    BY <1>2, <1>4, PathAssumption
  <2>2. pc' = "apply" \/ (pc' \in Forward /\ op'.kind # "bytes") => fs'[Tmp] = Absent
    BY <1>3, <2>1
  <2> QED
    BY <1>1, <1>3, <1>5, <1>7, <2>2, RestFollows
<1>9. ForwardInv'
  BY <1>1, <1>2, <1>3, <1>5 DEF ForwardInv, Logged
<1>10. UndoInv'
  BY <1>3 DEF UndoInv, Undoing
<1> QED
  BY <1>5, <1>6, <1>8, <1>9, <1>10 DEF IInv, Inductive, Durable

LEMMA CreateOrFillStep == ASSUME IInv, Create \/ Fill PROVE IInv'
<1> USE DEF Forward
<1>1. /\ pc \in {"writing", "filling"}
      /\ \/ pc' = "apply" /\ op' = NoOp /\ fs' = [fs EXCEPT ![op.path] = op.node]
         \/ /\ pc' = "filling" /\ op' = op
            /\ fs' = [fs EXCEPT ![op.path] = [op.node EXCEPT !.kind = "partial"]]
      /\ UNCHANGED <<journal, pkg, cur, how, verdict, snap, txs, crashes>>
  BY DEF Create, Fill, OpDone
<1>2. /\ op.path \in Path /\ op.path # Tmp /\ pkg \in Package /\ fs \in [Path -> Node]
      /\ \A q \in Package : op.path # Meta[q]
      /\ op.kind # "bytes"
      /\ fs[Tmp] = Absent
      /\ Len(Log) > 0 /\ Log[Len(Log)].path = op.path
      /\ ~Logged(Log, Meta[pkg])
      /\ op.node \in Node /\ op.node.by = txs /\ txs \in Nat
      /\ Len(Log) \in DOMAIN Log
      /\ \A i \in DOMAIN Log : Log[i].kind = "B" => Log[i].saved # Absent
      /\ ~Committed(pkg)
  BY <1>1, LogFacts, ForwardFacts DEF IInv, Inductive, ForwardInv, TmpInv, TypeOK, Op
<1>3. /\ [op.node EXCEPT !.kind = "partial"] \in Node
      /\ [op.node EXCEPT !.kind = "partial"].by = txs
  BY <1>2 DEF Node
<1>4. /\ fs' \in [Path -> Node]
      /\ \A y \in Path \ {op.path} : fs'[y] = fs[y]
      /\ fs'[op.path].by = txs
  BY <1>1, <1>2, <1>3
<1>5. Durable' /\ Live(pkg)' /\ Log' = Log /\ \A p \in Package : Live(p)' => Live(p)
  <2>1. \A y \in Path : fs'[y] # fs[y] => Logged(Log, y) /\ fs'[y].by <= txs
    BY <1>2, <1>4 DEF Logged
  <2> QED
    BY <1>1, <1>4, <2>1, RootStep
<1>6. TypeOK'
  BY <1>1, <1>4, NodeFacts DEF IInv, TypeOK, Phases
<1>7. ~Committed(pkg)'
  BY <1>1, <1>2, <1>4, PathAssumption DEF Committed
<1>8. TmpInv' /\ ProcessInv'
  BY <1>1, <1>2, <1>4, <1>5, <1>7, PathAssumption, RestFollows
<1>9. ForwardInv'
  BY <1>1, <1>2, <1>5 DEF ForwardInv, Logged
<1>10. UndoInv'
  BY <1>1 DEF UndoInv, Undoing
<1> QED
  BY <1>5, <1>6, <1>8, <1>9, <1>10 DEF IInv, Inductive, Durable

LEMMA WriteTmpStep == ASSUME IInv, WriteTmp PROVE IInv'
<1> USE DEF Forward
<1>1. /\ pc = "tmp" /\ pc' = "intent" /\ fs' = [fs EXCEPT ![Tmp] = op.node]
      /\ UNCHANGED <<journal, pkg, op, cur, how, verdict, snap, txs, crashes>>
  BY DEF WriteTmp
<1>2. /\ op.path \in Path /\ op.path # Tmp /\ pkg \in Package /\ fs \in [Path -> Node]
      /\ \A q \in Package : op.path = Meta[q] => q = pkg /\ op.kind = "bytes"
      /\ op.kind = "bytes" /\ op.node.kind = "file" /\ Logged(Log, Tmp)
      /\ Logged(Log, op.path) => fs[op.path] # Absent
      /\ ~Logged(Log, Meta[pkg])
      /\ op.node \in Node /\ op.node.by = txs /\ txs \in Nat
      /\ \A i \in DOMAIN Log : Log[i].kind = "B" => Log[i].saved # Absent
      /\ ~Committed(pkg)
  BY <1>1, LogFacts, ForwardFacts DEF IInv, Inductive, ForwardInv, TypeOK, Op
<1>4. /\ fs' \in [Path -> Node]
      /\ \A y \in Path \ {Tmp} : fs'[y] = fs[y]
      /\ fs'[Tmp].by = txs
  BY <1>1, <1>2, PathAssumption
<1>5. Durable' /\ Live(pkg)' /\ Log' = Log /\ \A p \in Package : Live(p)' => Live(p)
  <2>1. \A y \in Path : fs'[y] # fs[y] => Logged(Log, y) /\ fs'[y].by <= txs
    BY <1>2, <1>4
  <2> QED
    BY <1>1, <1>4, <2>1, RootStep
<1>6. TypeOK'
  BY <1>1, <1>4 DEF IInv, TypeOK, Phases
<1>7. ~Committed(pkg)'
  BY <1>1, <1>2, <1>4, PathAssumption, MetaAssumption DEF Committed
<1>8. TmpInv' /\ ProcessInv'
  BY <1>1, <1>2, <1>5, <1>7, RestFollows
<1>9. ForwardInv'
  BY <1>1, <1>2, <1>4, <1>5 DEF ForwardInv, Logged
<1>10. UndoInv'
  BY <1>1 DEF UndoInv, Undoing
<1> QED
  BY <1>5, <1>6, <1>8, <1>9, <1>10 DEF IInv, Inductive, Durable

LEMMA SwapStep == ASSUME IInv, Swap PROVE IInv'
<1> USE DEF Forward
<1>1. /\ pc = "swapping" /\ pc' = "apply" /\ op' = NoOp
      /\ fs' = [fs EXCEPT ![op.path] = op.node, ![Tmp] = Absent]
      /\ UNCHANGED <<journal, pkg, cur, how, verdict, snap, txs, crashes>>
  BY DEF Swap, OpDone
<1>2. /\ op.path \in Path /\ op.path # Tmp /\ pkg \in Package /\ fs \in [Path -> Node]
      /\ op.kind = "bytes" /\ op.node.kind = "file" /\ Logged(Log, Tmp)
      /\ Len(Log) > 0 /\ Log[Len(Log)].path = op.path
      /\ Logged(Log, Meta[pkg]) => op.path = Meta[pkg]
      /\ op.node \in Node /\ op.node.by = txs /\ txs \in Nat
      /\ journal[pkg].txid = txs
      /\ Len(Log) \in DOMAIN Log
      /\ \A i \in DOMAIN Log : Log[i].kind = "B" => Log[i].saved # Absent
  BY <1>1, LogFacts, ForwardFacts DEF IInv, Inductive, ForwardInv, TypeOK, Op
<1>4. /\ fs' \in [Path -> Node] /\ Absent.by = 0
      /\ \A y \in Path \ {op.path, Tmp} : fs'[y] = fs[y]
      /\ fs'[Tmp] = Absent /\ fs'[op.path] = op.node
  BY <1>1, <1>2, PathAssumption, NodeFacts DEF Absent
<1>5. Durable' /\ Live(pkg)' /\ Log' = Log /\ \A p \in Package : Live(p)' => Live(p)
  <2>1. \A y \in Path : fs'[y] # fs[y] => Logged(Log, y) /\ fs'[y].by <= txs
    BY <1>2, <1>4 DEF Logged
  <2> QED
    BY <1>1, <1>4, <2>1, RootStep
<1>6. TypeOK'
  BY <1>1, <1>4, NodeFacts DEF IInv, TypeOK, Phases
<1>7. Logged(Log, Meta[pkg]) => Committed(pkg)'
  BY <1>1, <1>2, <1>4 DEF Committed
<1>8. TmpInv' /\ ProcessInv'
  BY <1>1, <1>4, <1>5, RestFollows
<1>9. ForwardInv'
  <2>1. Logged(Log, Meta[pkg])' => Committed(pkg)'
    BY <1>1, <1>5, <1>7 DEF Logged
  <2> QED
    BY <1>1, <1>2, <1>5, <2>1 DEF ForwardInv
<1>10. UndoInv'
  BY <1>1 DEF UndoInv, Undoing
<1> QED
  BY <1>5, <1>6, <1>8, <1>9, <1>10 DEF IInv, Inductive, Durable

-----------------------------------------------------------------------------
(***************************************************************************)
(* Going back                                                              *)
(***************************************************************************)

\* What UndoInv says, of the process that is in it.
LEMMA UndoFacts ==
  ASSUME IInv, pc \in Undoing, cur > 0
  PROVE  /\ TypeOK /\ Durable /\ Live(pkg) /\ ~Committed(pkg) /\ pkg \in Package
         /\ journal[pkg].txid = txs /\ txs \in Nat
         /\ LogInv(pkg) /\ Undoable(pkg)
         /\ fs \in [Path -> Node] /\ \A x \in Path : fs[x].by <= txs /\ snap[x].by < txs
         /\ cur \in DOMAIN Log /\ cur - 1 \in 0..Len(Log) /\ cur - 1 \in Nat
         /\ Log[cur].path \in Path /\ Log[cur].saved \in Node /\ Log[cur].saved.by <= txs
<1>1. TypeOK /\ Durable /\ Live(pkg) /\ pkg \in Package /\ ~Committed(pkg)
  BY DurableOfIInv DEF IInv, Inductive, TypeOK, ProcessInv
<1>2. LogInv(pkg) /\ Undoable(pkg) /\ journal[pkg].txid = txs /\ txs \in Nat
  BY <1>1, BoundAssumption DEF Durable, TxInv, Pending, TypeOK
<1>3. fs \in [Path -> Node] /\ \A x \in Path : fs[x].by <= txs /\ snap[x].by < txs
  BY <1>1 DEF Durable, TxInv, Pending, TypeOK
<1>4. cur \in DOMAIN Log /\ cur - 1 \in 0..Len(Log) /\ cur - 1 \in Nat
  BY <1>1, LogFacts DEF IInv, Inductive, UndoInv
<1>5. Log[cur].saved.by <= txs
  BY <1>1, <1>4 DEF Durable, TxInv, Pending, Log
<1> QED
  BY <1>1, <1>2, <1>3, <1>4, <1>5, LogFacts

\* The path of the entry being undone is protected.
LEMMA UndoProtects ==
  ASSUME IInv, pc \in Undoing, cur > 0, Log[cur].kind = "B" => Log[cur].saved # Absent
  PROVE  Protected(Log[cur].path)
<1>1. Logged(Log, Log[cur].path)
  BY UndoFacts DEF Logged
<1>2. SUFFICES ASSUME NEW i \in DOMAIN Log, Log[i].path = Log[cur].path, IsFirst(Log, i),
                      Log[i].kind # "N"
               PROVE  Log[i].saved # Absent
  BY <1>1 DEF Protected
<1>3. Log[i].kind = "B" /\ i \in Nat /\ cur \in Nat /\ DOMAIN Log = 1..Len(Log)
      /\ Log[cur].kind \in {"N", "B"}
  BY <1>2, UndoFacts, LogFacts
<1>4. i <= cur
  BY <1>2, <1>3, UndoFacts DEF IsFirst
<1>5. CASE i = cur
  BY <1>3, <1>5
<1>6. CASE i < cur /\ Log[cur].kind = "B"
  BY <1>2, <1>3, <1>6, UndoFacts DEF LogInv, Log
<1>7. CASE i < cur /\ Log[cur].kind = "N"
  <2>1. ~IsFirst(Log, cur)
    BY <1>2, <1>3, <1>7 DEF IsFirst
  <2>2. Log[cur].path = Tmp
    BY <1>7, <2>1, UndoFacts DEF LogInv, Log
  <2>3. Log[i].kind = "N"
    BY <1>2, <2>2, UndoFacts DEF LogInv, Log
  <2> QED
    BY <1>2, <2>3
<1> QED
  BY <1>3, <1>4, <1>5, <1>6, <1>7

LEMMA UndoNewStep == ASSUME IInv, UndoNew PROVE IInv'
<1> USE DEF Undoing
<1>1. /\ pc = "replay" /\ pc' = "replay" /\ cur > 0 /\ Log[cur].kind = "N"
      /\ fs' = [fs EXCEPT ![Log[cur].path] = Absent] /\ cur' = cur - 1
      /\ UNCHANGED <<journal, pkg, op, how, verdict, snap, txs, crashes>>
  BY DEF UndoNew, AtEntry
<1>2. /\ fs' \in [Path -> Node] /\ Absent.by = 0
      /\ \A y \in Path \ {Log[cur].path} : fs'[y] = fs[y]
      /\ fs'[Log[cur].path] = Absent
  BY <1>1, UndoFacts, NodeFacts DEF Absent
<1>3. Durable' /\ Live(pkg)' /\ Log' = Log /\ \A p \in Package : Live(p)' => Live(p)
  <2>1. \A y \in Path : fs'[y] # fs[y] => Protected(y) /\ fs'[y].by <= txs
    BY <1>1, <1>2, UndoFacts, UndoProtects
  <2> QED
    BY <1>1, <1>2, <2>1, UndoFacts, RootChanged DEF Log, Live
<1>4. TypeOK'
  BY <1>1, <1>2, UndoFacts DEF TypeOK
<1>5. ~Committed(pkg)'
  <2>1. Meta[pkg] \in Path /\ Absent.kind # "file"
    BY <1>1, UndoFacts, PathAssumption DEF Absent
  <2> QED
    BY <1>1, <1>2, <2>1, UndoFacts DEF Committed
<1>6. TmpInv' /\ ProcessInv'
  BY <1>1, <1>3, <1>5, RestFollows DEF Forward
<1>7. UndoInv'
  <2>1. ASSUME NEW j \in DOMAIN Log, j > cur - 1
        PROVE  IF Log[j].kind = "B" THEN Log[j].saved = Absent
               ELSE IsFirst(Log, j) => fs'[Log[j].path] = Absent
    <3>1. Log[j].path \in Path /\ j \in Nat
      BY <1>1, UndoFacts, LogFacts
    <3>2. CASE j = cur
      BY <1>1, <1>2, <3>2
    <3>3. CASE j > cur
      BY <1>1, <1>2, <3>1, <3>3 DEF IInv, Inductive, UndoInv
    <3> QED
      BY <1>1, <2>1, <3>1, <3>2, <3>3, UndoFacts
  <2> QED
    BY <1>1, <1>3, <2>1, UndoFacts DEF UndoInv, IsFirst
<1>8. ForwardInv'
  BY <1>1 DEF ForwardInv, Forward
<1> QED
  BY <1>3, <1>4, <1>6, <1>7, <1>8 DEF IInv, Inductive, Durable

LEMMA ClearForRestoreStep == ASSUME IInv, ClearForRestore PROVE IInv'
<1> USE DEF Undoing
<1>1. /\ pc = "replay" /\ pc' = "restoring" /\ cur > 0
      /\ Log[cur].kind = "B" /\ Log[cur].saved # Absent
      /\ fs' = [fs EXCEPT ![Log[cur].path] = Absent]
      /\ UNCHANGED <<journal, pkg, op, cur, how, verdict, snap, txs, crashes>>
  BY DEF ClearForRestore, AtEntry
<1>2. /\ fs' \in [Path -> Node] /\ Absent.by = 0
      /\ \A y \in Path \ {Log[cur].path} : fs'[y] = fs[y]
      /\ fs'[Log[cur].path] = Absent
  BY <1>1, UndoFacts, NodeFacts DEF Absent
<1>3. Durable' /\ Live(pkg)' /\ Log' = Log /\ \A p \in Package : Live(p)' => Live(p)
  <2>1. \A y \in Path : fs'[y] # fs[y] => Protected(y) /\ fs'[y].by <= txs
    BY <1>1, <1>2, UndoFacts, UndoProtects
  <2> QED
    BY <1>1, <1>2, <2>1, UndoFacts, RootChanged DEF Log, Live
<1>4. TypeOK'
  BY <1>1, <1>2, UndoFacts DEF TypeOK, Phases
<1>5. ~Committed(pkg)'
  <2>1. Meta[pkg] \in Path /\ Absent.kind # "file"
    BY <1>1, UndoFacts, PathAssumption DEF Absent
  <2> QED
    BY <1>1, <1>2, <2>1, UndoFacts DEF Committed
<1>6. TmpInv' /\ ProcessInv'
  BY <1>1, <1>3, <1>5, RestFollows DEF Forward
<1>7. UndoInv'
  <2>1. ASSUME NEW j \in DOMAIN Log, j > cur
        PROVE  IF Log[j].kind = "B" THEN Log[j].saved = Absent
               ELSE IsFirst(Log, j) => fs'[Log[j].path] = Absent
    <3>1. Log[j].path \in Path
      BY <1>1, UndoFacts, LogFacts
    <3> QED
      BY <1>1, <1>2, <2>1, <3>1 DEF IInv, Inductive, UndoInv
  <2>2. cur \in 0..Len(Log)
    BY <1>1 DEF IInv, Inductive, UndoInv
  <2> QED
    BY <1>1, <1>3, <2>1, <2>2 DEF UndoInv, IsFirst
<1>8. ForwardInv'
  BY <1>1 DEF ForwardInv, Forward
<1> QED
  BY <1>3, <1>4, <1>6, <1>7, <1>8 DEF IInv, Inductive, Durable

\* What a backup gives back is older than its transaction, or not a meta file.
LEMMA RestoredIsUncommitted ==
  ASSUME IInv, pc \in Undoing, cur > 0, Log[cur].kind = "B", Log[cur].saved # Absent,
         UNCHANGED pkg, journal'[pkg].txid = journal[pkg].txid,
         \A y \in Path \ {Log[cur].path} : fs'[y] = fs[y],
         fs'[Log[cur].path] = Log[cur].saved
  PROVE  ~Committed(pkg)'
<1>1. Meta[pkg] \in Path
  BY UndoFacts, PathAssumption
<1>2. CASE Log[cur].path # Meta[pkg]
  BY <1>1, <1>2, UndoFacts DEF Committed
<1>3. CASE Log[cur].path = Meta[pkg]
  <2>1. IsFirst(Log, cur)
    BY <1>3, UndoFacts DEF LogInv, Log
  <2>2. Log[cur].saved = snap[Meta[pkg]]
    BY <1>1, <1>3, <2>1, UndoFacts DEF Undoable, Log, Before
  <2>3. Log[cur].saved.by < txs
    BY <1>1, <2>2, UndoFacts
  <2>4. Log[cur].saved.by # txs
    BY <2>3, UndoFacts DEF Node
  <2> QED
    BY <1>3, <2>4, UndoFacts DEF Committed
<1> QED
  BY <1>2, <1>3

LEMMA RestoreStep == ASSUME IInv, Restore \/ UnlinkBackup PROVE IInv'
<1> USE DEF Undoing
<1>1. /\ pc \in {"restoring", "unbacking"} /\ pc' = "replay"
      /\ SetSaved(cur, Absent) /\ cur' = cur - 1
      /\ UNCHANGED <<pkg, op, how, verdict, snap, txs, crashes>>
  BY DEF Restore, UnlinkBackup
<1>2. cur > 0 /\ Log[cur].kind = "B" /\ Log[cur].saved # Absent
  BY <1>1 DEF IInv, Inductive, UndoInv
<1>3. /\ fs' \in [Path -> Node] /\ Absent.by = 0
      /\ \A y \in Path \ {Log[cur].path} : fs'[y] = fs[y]
      /\ fs'[Log[cur].path] = Log[cur].saved
  <2>1. CASE Restore
    BY <1>1, <1>2, <2>1, UndoFacts DEF Restore, Absent
  <2>2. CASE UnlinkBackup
    BY <1>1, <1>2, <2>2, UndoFacts DEF UnlinkBackup, Absent, IInv, Inductive, UndoInv
  <2> QED
    BY <2>1, <2>2
<1>4. /\ journal' \in [Package -> JournalDir]
      /\ journal'[pkg].txid = journal[pkg].txid
      /\ \A p \in Package : Live(p)' => Live(p)
      /\ Len(Log') = Len(Log) /\ DOMAIN Log' = DOMAIN Log
      /\ \A j \in DOMAIN Log : /\ Log'[j].path = Log[j].path
                               /\ Log'[j].kind = Log[j].kind
                               /\ Log'[j].saved = IF j = cur THEN Absent ELSE Log[j].saved
                               /\ IsFirst(Log', j) <=> IsFirst(Log, j)
  BY <1>1, <1>2, UndoFacts, NodeFacts, SetSavedFacts, SavedNext DEF Live
<1>5. Durable' /\ Live(pkg)'
  <2>1. \A j \in DOMAIN Log : j < cur /\ Log[j].path = Log[cur].path
          => Log[j].kind = "N" \/ Log[j].saved # Absent
    <3>1. \A j \in DOMAIN Log : Log[j].kind \in {"N", "B"}
      BY <1>1, <1>2, UndoFacts, LogFacts
    <3> QED
      BY <1>1, <1>2, <3>1, UndoFacts DEF LogInv, Log
  <2>2. \A j \in DOMAIN Log : j > cur /\ Log[j].path = Log[cur].path => Log[j].saved = Absent
    <3>1. SUFFICES ASSUME NEW j \in DOMAIN Log, j > cur, Log[j].path = Log[cur].path
                   PROVE  Log[j].saved = Absent
      OBVIOUS
    <3>2. CASE Log[j].kind = "B"
      BY <1>1, <3>1, <3>2 DEF IInv, Inductive, UndoInv
    <3>3. CASE Log[j].kind # "B"
      <4>1. ~IsFirst(Log, j)
        BY <1>1, <1>2, <3>1, UndoFacts, LogFacts DEF IsFirst
      <4>2. Log[j].path = Tmp
        BY <1>1, <1>2, <3>3, <4>1, UndoFacts DEF LogInv, Log
      <4>3. Log[cur].kind = "N"
        BY <1>1, <1>2, <3>1, <4>2, UndoFacts DEF LogInv, Log
      <4> QED
        BY <1>2, <4>3
    <3> QED
      BY <3>2, <3>3
  <2> QED
    BY <1>1, <1>2, <1>3, <2>1, <2>2, UndoFacts, NodeFacts, Saved
<1>6. TypeOK'
  BY <1>1, <1>2, <1>3, <1>4, UndoFacts DEF TypeOK, Phases
<1>7. ~Committed(pkg)'
  BY <1>1, <1>2, <1>3, <1>4, RestoredIsUncommitted
<1>8. TmpInv' /\ ProcessInv'
  BY <1>1, <1>4, <1>5, <1>7, RestFollows DEF Forward
<1>9. UndoInv'
  <2>1. ASSUME NEW j \in DOMAIN Log, j > cur - 1
        PROVE  IF Log'[j].kind = "B" THEN Log'[j].saved = Absent
               ELSE IsFirst(Log', j) => fs'[Log'[j].path] = Absent
    <3>1. Log[j].path \in Path /\ j \in Nat /\ Log[j].kind \in {"N", "B"}
      BY <1>1, <1>2, UndoFacts, LogFacts
    <3>2. CASE j = cur
      BY <1>2, <1>4, <3>2
    <3>3. CASE j > cur
      <4>1. IF Log[j].kind = "B" THEN Log[j].saved = Absent
            ELSE IsFirst(Log, j) => fs[Log[j].path] = Absent
        BY <1>1, <3>3 DEF IInv, Inductive, UndoInv
      <4>2. cur \in 1..(j - 1)
        BY <1>1, <1>2, <3>1, <3>3, UndoFacts, LogFacts
      <4>3. (IsFirst(Log, j) => Log[j].path # Log[cur].path) /\ j # cur
        BY <3>1, <4>2 DEF IsFirst
      <4> QED
        BY <1>3, <1>4, <3>1, <4>1, <4>2, <4>3
    <3> QED
      BY <1>1, <1>2, <2>1, <3>1, <3>2, <3>3, UndoFacts, LogFacts
  <2> QED
    BY <1>1, <1>2, <1>4, <2>1, UndoFacts DEF UndoInv
<1>10. ForwardInv'
  BY <1>1 DEF ForwardInv, Forward
<1> QED
  BY <1>5, <1>6, <1>8, <1>9, <1>10 DEF IInv, Inductive, Durable

LEMMA RestoreByCopyStep == ASSUME IInv, RestoreByCopy PROVE IInv'
<1> USE DEF Undoing
<1>1. /\ pc = "restoring" /\ pc' = "unbacking"
      /\ fs' = [fs EXCEPT ![Log[cur].path] = Log[cur].saved]
      /\ UNCHANGED <<journal, pkg, op, cur, how, verdict, snap, txs, crashes>>
  BY DEF RestoreByCopy
<1>2. cur > 0 /\ Log[cur].kind = "B" /\ Log[cur].saved # Absent
  BY <1>1 DEF IInv, Inductive, UndoInv
<1>3. /\ fs' \in [Path -> Node]
      /\ \A y \in Path \ {Log[cur].path} : fs'[y] = fs[y]
      /\ fs'[Log[cur].path] = Log[cur].saved
  BY <1>1, <1>2, UndoFacts
<1>4. Durable' /\ Live(pkg)' /\ Log' = Log /\ \A p \in Package : Live(p)' => Live(p)
  <2>1. \A y \in Path : fs'[y] # fs[y] => Protected(y) /\ fs'[y].by <= txs
    BY <1>1, <1>2, <1>3, UndoFacts, UndoProtects
  <2> QED
    BY <1>1, <1>2, <1>3, <2>1, UndoFacts, RootChanged DEF Log, Live
<1>5. TypeOK'
  BY <1>1, <1>2, <1>3, UndoFacts DEF TypeOK, Phases
<1>6. ~Committed(pkg)'
  BY <1>1, <1>2, <1>3, RestoredIsUncommitted
<1>7. TmpInv' /\ ProcessInv'
  BY <1>1, <1>4, <1>6, RestFollows DEF Forward
<1>8. UndoInv'
  <2>1. ASSUME NEW j \in DOMAIN Log, j > cur
        PROVE  IF Log[j].kind = "B" THEN Log[j].saved = Absent
               ELSE IsFirst(Log, j) => fs'[Log[j].path] = Absent
    <3>1. Log[j].path \in Path
      BY <1>1, <1>2, UndoFacts, LogFacts
    <3>2. cur \in 1..(j - 1)
      BY <1>1, <1>2, <2>1, UndoFacts, LogFacts
    <3>3. IsFirst(Log, j) => Log[j].path # Log[cur].path
      BY <3>2 DEF IsFirst
    <3> QED
      BY <1>1, <1>3, <2>1, <3>1, <3>3 DEF IInv, Inductive, UndoInv
  <2>2. cur \in 0..Len(Log)
    BY <1>1 DEF IInv, Inductive, UndoInv
  <2> QED
    BY <1>1, <1>2, <1>3, <1>4, <2>1, <2>2 DEF UndoInv, IsFirst
<1>9. ForwardInv'
  BY <1>1 DEF ForwardInv, Forward
<1> QED
  BY <1>4, <1>5, <1>7, <1>8, <1>9 DEF IInv, Inductive, Durable

-----------------------------------------------------------------------------
(***************************************************************************)
(* The theorems                                                            *)
(***************************************************************************)

LEMMA InitIInv == Init => IInv
<1>1. SUFFICES ASSUME Init PROVE IInv
  OBVIOUS
<1>2. fs \in [Path -> Node] /\ fs[Tmp] = Absent /\ \A x \in Path : fs[x].by = 0
  BY <1>1, RootAssumption DEF Init
<1>3. TypeOK
  BY <1>1, <1>2, NodeFacts, BoundAssumption DEF Init, TypeOK, Phases, Verdicts
<1>4. Pending = {}
  BY <1>1 DEF Init, Pending, Live, NoJournal
<1>5. TxInv
  BY <1>1, <1>2, <1>4 DEF Init, TxInv
<1> QED
  BY <1>1, <1>2, <1>3, <1>4, <1>5
  DEF Init, IInv, Inductive, AtMostOneJournal, Pending, TmpInv, ProcessInv, ForwardInv,
      UndoInv, Forward, Undoing

LEMMA NextIInv == IInv /\ [Next]_vars => IInv'
<1>1. SUFFICES ASSUME IInv, [Next]_vars PROVE IInv'
  OBVIOUS
<1>2. CASE Start \/ Finish \/ Crash
  BY <1>1, <1>2, StopSteps
<1>3. CASE Sweep
  BY <1>1, <1>3, StopSteps, SweepCleanStep, SweepCommittedStep, SweepRollbackStep DEF Sweep
<1>4. CASE \E p \in Package : Begin(p)
  BY <1>1, <1>4, BeginStep
<1>5. CASE \E k \in OpKinds, x \in Path, c \in ClaimSets : Intend(k, x, c)
  BY <1>1, <1>5, IntendStep
<1>6. CASE Primitive
  BY <1>1, <1>6, MoveAsideStep, CopyAsideStep, UnlinkOriginalStep, CreateOrFillStep,
     WriteTmpStep, IntendSwapStep, SwapStep DEF Primitive
<1>7. CASE Commit
  BY <1>1, <1>7, CommitStep
<1>8. CASE Fail
  BY <1>1, <1>8, FailStep
<1>9. CASE Replay
  BY <1>1, <1>9, UndoNewStep, ClearForRestoreStep, StopSteps, RestoreStep,
     RestoreByCopyStep, SkipRestoredStep, RetireRolledBackStep DEF Replay
<1>10. CASE UNCHANGED vars
  <2>1. UNCHANGED <<fs, journal, pc, pkg, op, cur, how, verdict, snap, txs, crashes>>
    BY <1>10 DEF vars
  <2>2. TypeOK' /\ Pending' = Pending /\ Log' = Log
    BY <1>1, <2>1 DEF IInv, TypeOK, Pending, Live, Log
  <2>3. Durable'
    BY <1>1, <2>1, <2>2
    DEF IInv, Inductive, Durable, AtMostOneJournal, LogInv, Undoable, TxInv, Live, Logged, IsFirst,
        Before, Committed
  <2>4. TmpInv' /\ ProcessInv'
    BY <1>1, <2>1, <2>2 DEF IInv, Inductive, TmpInv, ProcessInv, Live, Committed
  <2>5. ForwardInv' /\ UndoInv'
    BY <1>1, <2>1, <2>2
    DEF IInv, Inductive, ForwardInv, UndoInv, Logged, IsFirst, Before, Committed
  <2> QED
    BY <2>2, <2>3, <2>4, <2>5 DEF IInv, Inductive, Durable
<1> QED
  BY <1>1, <1>2, <1>3, <1>4, <1>5, <1>6, <1>7, <1>8, <1>9, <1>10 DEF Next

LEMMA SpecIInv == Spec => []IInv
BY InitIInv, NextIInv, PTL DEF Spec

\* Every variable keeps its type, for every number of transactions and deaths.
THEOREM TypeCorrect == Spec => []TypeOK
<1>1. IInv => TypeOK
  BY DEF IInv
<1> QED
  BY <1>1, SpecIInv, PTL

\* Whatever packages are installed and wherever processes die, there are never
\* two active journals (install.rs:5356): recovery never meets the case it
\* refuses for want of an order.
THEOREM OneJournal == Spec => []AtMostOneJournal
<1>1. IInv => AtMostOneJournal
  BY DEF IInv, Inductive
<1> QED
  BY <1>1, SpecIInv, PTL

\* Write-ahead (install.rs:5612-5636 and 5898-5947): at every system call the
\* log, the backups and the root together still hold what an unfinished
\* transaction found, and what it did not log it did not change.
THEOREM WriteAhead == Spec => []NothingLost
<1>1. IInv => NothingLost
  BY DEF IInv, Inductive, NothingLost, Undoable
<1> QED
  BY <1>1, SpecIInv, PTL

\* A journal without commit mark is retired only over the root its transaction
\* found (install.rs:5886 and 5952), whatever was cut, and however often.
THEOREM RollbackExact == Spec => RollbackRestores
<1>1. ASSUME IInv, Next, NEW p \in Package, Live(p), ~Committed(p), journal'[p] = NoJournal
      PROVE  fs' = snap
  <2>1. Pending # {} /\ journal[p] # NoJournal
    BY <1>1 DEF Pending, Live, NoJournal
  <2>2. journal' # journal
    BY <1>1, <2>1
  <2>3. pkg \in Package /\ TypeOK /\ journal \in [Package -> JournalDir]
    BY <1>1 DEF IInv, TypeOK
  <2>4. ASSUME NEW e \in Entry, Append1(e)
        PROVE  FALSE
    BY <1>1, <2>3, <2>4, Append1Facts DEF Live, NoJournal
  <2>5. ASSUME NEW i \in DOMAIN Log, NEW n \in Node, SetSaved(i, n)
        PROVE  FALSE
    BY <1>1, <2>3, <2>5, SetSavedFacts DEF Live, NoJournal
  <2>6. CASE RetireRolledBack
    BY <1>1, <2>6, RolledBack DEF RetireRolledBack
  <2>7. CASE \E q \in Package : SweepCommitted(q)
    BY <1>1, <2>1, <2>3, <2>7 DEF SweepCommitted, Pending
  <2>8. CASE Commit
    BY <1>1, <2>1, <2>3, <2>8 DEF Commit
  <2>9. CASE \E q \in Package : Begin(q)
    BY <2>1, <2>9 DEF Begin
  <2>10. CASE \E k \in OpKinds, x \in Path, c \in ClaimSets : Intend(k, x, c)
    <3>1. PICK k \in OpKinds, x \in Path : /\ \/ Append1(NewEntry(Tmp))
                                              \/ Append1(NewEntry(x))
                                              \/ Append1(BackupEntry(x))
      BY <2>10 DEF Intend, Stash
    <3>2. NewEntry(Tmp) \in Entry /\ NewEntry(x) \in Entry /\ BackupEntry(x) \in Entry
      BY NodeFacts, PathAssumption DEF NewEntry, BackupEntry, Entry
    <3> QED
      BY <2>4, <3>1, <3>2
  <2>11. CASE IntendSwap
    <3>1. op.path \in Path
      BY <2>3 DEF TypeOK, Op
    <3>2. Append1(NewEntry(op.path)) \/ Append1(BackupEntry(op.path))
      BY <2>11 DEF IntendSwap, Stash
    <3>3. NewEntry(op.path) \in Entry /\ BackupEntry(op.path) \in Entry
      BY <3>1, NodeFacts DEF NewEntry, BackupEntry, Entry
    <3> QED
      BY <2>4, <3>2, <3>3
  <2>12. CASE MoveAside \/ CopyAside
    <3>1. pc = "moving" /\ SetSaved(Len(Log), fs[op.path])
      BY <2>12 DEF MoveAside, CopyAside
    <3>2. Len(Log) \in DOMAIN Log /\ fs[op.path] \in Node
      BY <1>1, <2>3, <3>1, LogFacts DEF IInv, Inductive, ForwardInv, Forward, TypeOK, Op
    <3> QED
      BY <2>5, <3>1, <3>2
  <2>13. CASE Restore \/ UnlinkBackup
    <3>1. pc \in {"restoring", "unbacking"} /\ SetSaved(cur, Absent)
      BY <2>13 DEF Restore, UnlinkBackup
    <3>2. cur > 0
      BY <1>1, <3>1 DEF IInv, Inductive, UndoInv, Undoing
    <3>3. cur \in DOMAIN Log
      BY <1>1, <3>1, <3>2, UndoFacts DEF Undoing
    <3> QED
      BY <2>5, <3>1, <3>3, NodeFacts
  <2>14. CASE UNCHANGED journal
    BY <2>2, <2>14
  <2> QED
    BY <1>1, <2>6, <2>7, <2>8, <2>9, <2>10, <2>11, <2>12, <2>13, <2>14
    DEF Next, Start, Sweep, SweepClean, SweepAmbiguous, SweepSuperseded, SweepRollback,
        Refuse, Finish, Primitive, UnlinkOriginal, Create, Fill, WriteTmp, Swap, Fail,
        Replay, UndoNew, ClearForRestore, UndoBlocked, RestoreByCopy, SkipRestored,
        UndoUnsafe, Crash
<1>2. IInv /\ [Next]_vars
        => [\A p \in Package :
              Live(p) /\ ~Committed(p) /\ journal'[p] = NoJournal => fs' = snap]_vars
  BY <1>1
<1> QED
  BY <1>2, SpecIInv, PTL DEF Spec, RollbackRestores

\* Once the meta file carries the id, nothing takes the transaction back
\* (install.rs:5439): the commit is final in the process and after its death.
THEOREM CommitFinal == Spec => CommitIsFinal
<1>1. ASSUME IInv, Next, NEW p \in Package, Live(p), Committed(p)
      PROVE  fs' = fs
  <2>1. p = pkg => pc \notin (Forward \ {"apply"}) \cup Undoing
    BY <1>1 DEF IInv, Inductive, ProcessInv
  <2>2. pc \in Forward \cup Undoing => p = pkg
    BY <1>1 DEF IInv, Inductive, TypeOK, ProcessInv, AtMostOneJournal
  <2>3. pc \notin (Forward \ {"apply"}) \cup Undoing
    BY <2>1, <2>2
  <2> QED
    BY <1>1, <2>3
    DEF Next, Start, Sweep, SweepClean, SweepAmbiguous, SweepCommitted, SweepSuperseded,
        SweepRollback, Refuse, Finish, Begin, Intend, Primitive, MoveAside, CopyAside,
        UnlinkOriginal, Create, Fill, WriteTmp, IntendSwap, Swap, Commit, Fail, Replay,
        AtEntry, UndoNew, ClearForRestore, UndoBlocked, Restore, RestoreByCopy,
        UnlinkBackup, SkipRestored, UndoUnsafe, RetireRolledBack, Crash, Forward, Undoing
<1>2. IInv /\ [Next]_vars => [\A p \in Package : Live(p) /\ Committed(p) => fs' = fs]_vars
  BY <1>1
<1> QED
  BY <1>2, SpecIInv, PTL DEF Spec, CommitIsFinal

-----------------------------------------------------------------------------
(***************************************************************************)
(* What whoever waits for recovery sees: the caller's proofs start here    *)
(***************************************************************************)

\* The root as the last finished transaction left it, without the log's help.
Rest == IF \E p \in Pending : ~Committed(p) THEN snap ELSE fs

\* The root as the primitive in progress will leave it.
After ==
  IF pc \in Forward \ {"apply"}
  THEN [fs EXCEPT ![op.path] = IF op.kind = "drop" THEN Absent ELSE op.node,
                  ![Tmp] = Absent]
  ELSE fs

\* A dropped path was moved aside, and nothing is written over it.
DropsMove == pc \in {"writing", "filling"} => op.kind # "drop"

\* The view the log gives is the root the transaction found.
LEMMA ViewIsRest == IInv => View = Rest
<1> SUFFICES ASSUME IInv PROVE View = Rest
  OBVIOUS
<1> DEFINE undone == {p \in Pending : ~Committed(p)}
<1>1. CASE undone = {}
  BY <1>1 DEF View, Rest
<1>2. CASE undone # {}
  <2> DEFINE l == journal[CHOOSE p \in undone : TRUE].log
  <2>1. (CHOOSE p \in undone : TRUE) \in undone
    BY <1>2
  <2>2. PICK p \in undone : p = CHOOSE q \in undone : TRUE
    BY <2>1
  <2>3. LogInv(p) /\ Undoable(p)
    BY <2>2 DEF IInv, Inductive
  <2>4. ASSUME NEW x \in Path
        PROVE  (IF Logged(l, x)
                THEN Before(fs, l[CHOOSE i \in DOMAIN l : l[i].path = x /\ IsFirst(l, i)])
                ELSE fs[x]) = snap[x]
    <3>1. CASE ~Logged(l, x)
      BY <2>2, <2>3, <3>1 DEF Undoable
    <3>2. CASE Logged(l, x)
      <4>1. \E i \in DOMAIN l : l[i].path = x /\ IsFirst(l, i)
        BY <2>2, <2>3, <3>2 DEF LogInv
      <4>2. PICK i : /\ i = CHOOSE j \in DOMAIN l : l[j].path = x /\ IsFirst(l, j)
                     /\ i \in DOMAIN l /\ l[i].path = x /\ IsFirst(l, i)
        BY <4>1
      <4>3. Before(fs, l[i]) = snap[x]
        BY <2>2, <2>3, <4>2 DEF Undoable
      <4> QED
        BY <3>2, <4>2, <4>3
    <3> QED
      BY <3>1, <3>2
  <2>5. Rest = snap /\ snap \in [Path -> Node]
    BY <1>2 DEF Rest, IInv, TypeOK
  <2> QED
    BY <1>2, <2>4, <2>5 DEF View
<1> QED
  BY <1>1, <1>2

\* A transaction that goes on without its mark shows the root it found.
LEMMA StillOpen ==
  ASSUME IInv, IInv', Live(pkg), ~Committed(pkg), UNCHANGED <<pkg, snap, txs>>,
         pc' \in Forward \cup Undoing,
         pc' = "apply" => fs'[Meta[pkg]] = fs[Meta[pkg]]
  PROVE  Rest = snap /\ Rest' = snap
<1>1. pkg \in Package /\ pkg \in Pending
  BY DEF IInv, TypeOK, Pending
<1>2. pkg \in Pending'
  BY <1>1 DEF IInv, Inductive, ProcessInv, Pending
<1>3. journal[pkg].txid = txs /\ journal'[pkg].txid = txs
  BY <1>1, <1>2 DEF IInv, Inductive, TxInv
<1>4. ~Committed(pkg)'
  <2>1. CASE pc' = "apply"
    BY <1>3, <2>1 DEF Committed
  <2>2. CASE pc' # "apply"
    BY <2>2 DEF IInv, Inductive, ProcessInv
  <2> QED
    BY <2>1, <2>2
<1> QED
  BY <1>1, <1>2, <1>4 DEF Rest

\* The last line of a finished transaction changes nothing that is seen.
LEMMA NothingPending ==
  ASSUME TypeOK, NEW p \in Package, Pending = {p}, fs' = fs,
         journal' = [journal EXCEPT ![p] = NoJournal]
  PROVE  Rest' = fs
<1>1. Pending' = {}
  BY DEF TypeOK, Pending, Live, NoJournal
<1> QED
  BY <1>1 DEF Rest

\* What is seen changes in one place: the rename over the meta file.
LEMMA RestSteps ==
  ASSUME IInv, IInv', Next
  PROVE  \/ Rest' = Rest
         \/ /\ Swap /\ op.path = Meta[pkg] /\ ~Committed(pkg)
            /\ Rest = snap /\ Rest' \in {snap, After'}
<1>1. TypeOK /\ pkg \in Package /\ Pending \subseteq Package
  BY DEF IInv, TypeOK, Pending
<1>2. ASSUME UNCHANGED <<fs, journal, snap>>
      PROVE  Rest' = Rest
  BY <1>2 DEF Rest, Pending, Live, Committed
<1>3. CASE Start \/ Finish \/ Fail \/ Crash \/ SkipRestored \/ UndoBlocked \/ UndoUnsafe
  BY <1>2, <1>3 DEF Start, Finish, Fail, Crash, SkipRestored, UndoBlocked, UndoUnsafe, Refuse
<1>4. CASE Sweep
  <2>1. CASE SweepClean \/ SweepAmbiguous
             \/ \E p \in Package : SweepSuperseded(p) \/ SweepRollback(p)
    BY <1>2, <2>1 DEF SweepClean, SweepAmbiguous, SweepSuperseded, SweepRollback, Refuse
  <2>2. CASE \E p \in Package : SweepCommitted(p)
    BY <1>1, <2>2, NothingPending DEF SweepCommitted, Rest
  <2> QED
    BY <1>4, <2>1, <2>2 DEF Sweep
<1>5. CASE \E p \in Package : Begin(p)
  BY <1>5 DEF Begin, Rest
<1>6. CASE Commit
  <2>1. Pending = {pkg}
    BY <1>1, <1>6 DEF Commit, IInv, Inductive, ProcessInv, AtMostOneJournal, Pending, Forward
  <2> QED
    BY <1>1, <1>6, <2>1, NothingPending DEF Commit, Rest
<1>7. CASE RetireRolledBack
  <2>1. fs = snap
    BY <1>7, RolledBack DEF RetireRolledBack
  <2> QED
    BY <1>7, <2>1 DEF RetireRolledBack, Rest
<1>8. CASE \/ \E k \in OpKinds, x \in Path, c \in ClaimSets : Intend(k, x, c)
           \/ UndoNew \/ ClearForRestore \/ Restore \/ RestoreByCopy \/ UnlinkBackup
  <2>1. /\ UNCHANGED <<pkg, snap, txs>> /\ pc' \in (Forward \ {"apply"}) \cup Undoing
        /\ pc = "apply" \/ pc \in Undoing
        /\ pc = "apply" => ~Committed(pkg)
    BY <1>8 DEF Intend, CallerContract, Stash, UndoNew, ClearForRestore, Restore, RestoreByCopy,
                UnlinkBackup, AtEntry, Forward, Undoing
  <2>2. Live(pkg) /\ ~Committed(pkg)
    BY <2>1 DEF IInv, Inductive, ProcessInv, Forward
  <2> QED
    BY <2>1, <2>2, StillOpen DEF Undoing
<1>9. CASE Primitive
  <2>1. /\ pc \in Forward \ {"apply"} /\ pc' \in Forward
        /\ UNCHANGED <<pkg, snap, txs>>
    BY <1>9 DEF Primitive, MoveAside, CopyAside, UnlinkOriginal, Create, Fill, WriteTmp,
                IntendSwap, Swap, Onward, OpDone, Stash, Forward
  <2>2. Live(pkg) /\ ~Committed(pkg)
    BY <2>1 DEF IInv, Inductive, ProcessInv
  <2>3. CASE pc' = "apply" => fs'[Meta[pkg]] = fs[Meta[pkg]]
    BY <2>1, <2>2, <2>3, StillOpen
  <2>4. CASE pc' = "apply" /\ fs'[Meta[pkg]] # fs[Meta[pkg]]
    <3>1. Rest = snap /\ Rest' \in {snap, fs'} /\ After' = fs'
      BY <1>1, <2>1, <2>2, <2>4 DEF Rest, Pending, After
    <3>2. Swap /\ op.path = Meta[pkg]
      <4>1. Meta[pkg] # Tmp /\ Meta[pkg] \in Path
        BY <1>1, PathAssumption, MetaAssumption
      <4>2. op.path = Meta[pkg]
        BY <1>1, <1>9, <2>4, <4>1 DEF Primitive, MoveAside, CopyAside, UnlinkOriginal, Create, Fill,
           WriteTmp, IntendSwap, Swap, TypeOK
      <4>3. op.kind = "bytes"
        BY <1>1, <2>1, <4>2, ForwardFacts
      <4> QED
        BY <1>9, <2>4, <4>2, <4>3 DEF Primitive, MoveAside, CopyAside, UnlinkOriginal, Create, Fill,
           WriteTmp, IntendSwap, Onward, OpDone, Stash, IInv, Inductive, ForwardInv, Forward
    <3> QED
      BY <2>2, <3>1, <3>2
  <2> QED
    BY <2>3, <2>4
<1> QED
  BY <1>3, <1>4, <1>5, <1>6, <1>7, <1>8, <1>9 DEF Next, Replay

-----------------------------------------------------------------------------
\* A primitive begun has its effect from the caller's point of view.
LEMMA IntendAhead ==
  ASSUME IInv, NEW k \in OpKinds, NEW x \in Path, NEW c \in ClaimSets, Intend(k, x, c)
  PROVE  /\ After = fs
         /\ After' = [fs EXCEPT ![x] = IF k = "drop" THEN Absent ELSE NewNode(k, c)]
         /\ DropsMove' /\ pc' \in Forward /\ UNCHANGED <<pkg, snap, txs>>
<1>1. pc = "apply" /\ x # Tmp /\ fs[Tmp] = Absent /\ fs \in [Path -> Node]
      /\ pc' \in Forward \ {"apply"} /\ fs' = fs /\ UNCHANGED <<pkg, snap, txs>>
      /\ op' = [kind |-> k, path |-> x, node |-> NewNode(k, c)]
  BY DEF Intend, CallerContract, Stash, IInv, TypeOK, Inductive, TmpInv, Forward
<1>2. After' = [fs EXCEPT ![x] = IF k = "drop" THEN Absent ELSE NewNode(k, c), ![Tmp] = Absent]
  BY <1>1 DEF After
<1>3. After' = [fs EXCEPT ![x] = IF k = "drop" THEN Absent ELSE NewNode(k, c)]
  BY <1>1, <1>2
<1>4. DropsMove'
  BY <1>1 DEF DropsMove, Intend, Suits, Stash
<1> QED
  BY <1>1, <1>3, <1>4 DEF After

\* ... and its steps only bring it about.
LEMMA PrimitiveAhead ==
  ASSUME IInv, IInv', DropsMove, Primitive
  PROVE  After' = After /\ DropsMove' /\ pc \in Forward /\ pc' \in Forward
         /\ UNCHANGED <<pkg, snap, txs>>
<1>1. /\ pc \in Forward \ {"apply"} /\ pc' \in Forward
      /\ UNCHANGED <<pkg, snap, txs>>
      /\ pc' # "apply" => op' = op
      /\ pc' = "apply" \/ pc' \in Forward \ {"apply"}
  BY DEF Primitive, MoveAside, CopyAside, UnlinkOriginal, Create, Fill, WriteTmp,
         IntendSwap, Swap, Onward, OpDone, Stash, Forward
<1>2. /\ fs \in [Path -> Node] /\ fs' \in [Path -> Node] /\ op.path \in Path /\ Tmp \in Path
      /\ op.path # Tmp
      /\ pc' = "apply" => fs'[Tmp] = Absent
  BY <1>1, ForwardFacts, PathAssumption DEF IInv, TypeOK, Op, Inductive, TmpInv
<1>3. /\ \A y \in Path \ {op.path, Tmp} : fs'[y] = fs[y]
  BY <1>2 DEF Primitive, MoveAside, CopyAside, UnlinkOriginal, Create, Fill, WriteTmp,
     IntendSwap, Swap
<1>4. pc' = "apply" => fs'[op.path] = IF op.kind = "drop" THEN Absent ELSE op.node
  BY <1>2 DEF Primitive, MoveAside, CopyAside, UnlinkOriginal, Create, Fill, WriteTmp,
     IntendSwap, Swap, Onward, OpDone, Stash, DropsMove, IInv, Inductive, ForwardInv, Forward
<1>5. CASE pc' = "apply"
  <2>1. After' = fs'
    BY <1>5 DEF After
  <2> QED
    BY <1>1, <1>2, <1>3, <1>4, <1>5, <2>1 DEF After, DropsMove
<1>6. CASE pc' # "apply"
  <2>1. After' = [fs' EXCEPT ![op.path] = IF op.kind = "drop" THEN Absent ELSE op.node,
                             ![Tmp] = Absent]
    BY <1>1, <1>6 DEF After
  <2>2. After' = After
    <3>1. PICK n : n = IF op.kind = "drop" THEN Absent ELSE op.node
      OBVIOUS
    <3>2. After = [fs EXCEPT ![op.path] = n, ![Tmp] = Absent]
      BY <1>1, <3>1 DEF After
    <3>3. After' = [fs' EXCEPT ![op.path] = n, ![Tmp] = Absent]
      BY <2>1, <3>1
    <3> QED
      BY <1>2, <1>3, <3>2, <3>3
  <2>3. DropsMove'
    BY <1>1, <1>6 DEF DropsMove, Primitive, MoveAside, CopyAside, UnlinkOriginal, Create, Fill,
       WriteTmp, IntendSwap, Swap, Onward, OpDone, Stash
  <2> QED
    BY <1>1, <2>2, <2>3
<1> QED
  BY <1>5, <1>6


-----------------------------------------------------------------------------
(***************************************************************************)
(* The installer over the journal                                          *)
(***************************************************************************)

JobInv == WTypeOK /\ (pc = "done" => job.next \in {"none", "world"})

-----------------------------------------------------------------------------
\* What a manifest may list is closed under what the code does to it.
LEMMA ClaimSetFacts ==
  /\ {} \in ClaimSets /\ NoJob \in Job /\ Claimable \subseteq Path
  /\ \A c, d \in ClaimSets : c \cup d \in ClaimSets /\ c \cap d \in ClaimSets
  /\ \A c \in ClaimSets : \A d : c \ d \in ClaimSets
  /\ \A c \in ClaimSets, x \in Claimable : c \cup {x} \in ClaimSets
<1>1. {} \in ClaimSets /\ ClaimSets = SUBSET Claimable /\ ClaimSets \subseteq SUBSET Path
  BY PathAssumption, ClaimAssumption
<1>2. Claimable \subseteq Path
  BY <1>1 DEF Claimable
<1>3. NoJob \in Job
  BY <1>1 DEF NoJob, Job
<1> QED
  BY <1>1, <1>2, <1>3

\* The claims on disk are claims a manifest may list.
LEMMA ClaimsTyped ==
  ASSUME TypeOK, NEW q \in Package
  PROVE  /\ Claims(fs, q) \in ClaimSets
         /\ fs[Manifest[q]].claims \in ClaimSets
         /\ CededBy(fs, q) \in ClaimSets
         /\ Manifest[q] \in Path /\ Meta[q] \in Path
<1>1. Manifest[q] \in Path /\ Meta[q] \in Path
  BY PathAssumption
<1>2. fs[Manifest[q]].claims \in ClaimSets /\ fs[Meta[q]].claims \in ClaimSets
  BY <1>1 DEF TypeOK, Node
<1> QED
  BY <1>1, <1>2, ClaimSetFacts DEF Claims, CededBy

\* Where the journal's actions lead the process.
LEMMA IntendLeads ==
  ASSUME NEW k, NEW x, NEW c, Intend(k, x, c)
  PROVE  pc = "apply" /\ pc' \in Forward
BY DEF Intend, Stash, Forward

\* ... and where its other steps do.
LEMMA UnderneathLeads ==
  ASSUME Start \/ Sweep \/ Primitive \/ Replay \/ Finish
  PROVE  /\ pc' # "done"
         /\ \/ pc \in {"idle", "sweep", "ready", "done"} \cup Undoing
            \/ pc \in Forward /\ pc' \in Forward
         /\ pc = "done" => Finish
<1>1. CASE Start \/ Finish
  BY <1>1 DEF Start, Finish, Exit
<1>2. CASE Sweep
  BY <1>2 DEF Sweep, SweepClean, SweepAmbiguous, SweepCommitted, SweepSuperseded,
              SweepRollback, Refuse, Exit
<1>3. CASE Primitive
  BY <1>3 DEF Primitive, MoveAside, CopyAside, UnlinkOriginal, Create, Fill, WriteTmp,
              IntendSwap, Swap, Onward, OpDone, Stash, Forward
<1>4. CASE Replay
  BY <1>4 DEF Replay, AtEntry, UndoNew, ClearForRestore, UndoBlocked, Restore,
              RestoreByCopy, UnlinkBackup, SkipRestored, UndoUnsafe, RetireRolledBack,
              Refuse, Exit, Undoing
<1> QED
  BY <1>1, <1>2, <1>3, <1>4

-----------------------------------------------------------------------------
\* One step of the installer is one step of the journal, or none.
LEMMA StepKeepsContract ==
  ASSUME TypeOK, JobInv, [WNext]_wvars
  PROVE  [Next]_vars
<1>1. job \in Job
  BY DEF JobInv, WTypeOK
<1>2. \A x \in Path, k \in OpKinds, c \in ClaimSets : Intend(k, x, c) => Next
  BY DEF Next
<1>3. pkg \in Package
  BY DEF TypeOK
<1>4. job.left # << >> => Entry1 \in Path
  BY <1>1, ClaimSetFacts DEF Entry1, Job
<1>5. CASE \E p \in Package : \E stage \in Stages[p] : InstallBegin(p, stage)
  BY <1>5 DEF InstallBegin, Next
<1>6. CASE SkipCeded \/ KeepDir \/ StageDone \/ WorldAdd
  BY <1>6 DEF SkipCeded, KeepDir, StageDone, WorldAdd
<1>7. CASE \E q \in Package : Cede(q)
  <2>1. PICK q \in Package : Cede(q)
    BY <1>7
  <2>2. Intend("bytes", Manifest[q], fs[Manifest[q]].claims \ {Entry1})
    BY <2>1 DEF Cede
  <2>3. fs[Manifest[q]].claims \ {Entry1} \in ClaimSets
    BY ClaimsTyped, ClaimSetFacts
  <2> QED
    BY <1>2, <2>2, <2>3, ClaimsTyped DEF OpKinds
<1>8. CASE PlaceLeaf
  <2>1. Intend("place", Entry1, {}) /\ job.left # << >>
    BY <1>8 DEF PlaceLeaf, Settled, AtStage
  <2> QED
    BY <1>2, <1>4, <2>1, ClaimSetFacts DEF OpKinds
<1>9. CASE MakeDir
  <2>1. Intend("mkdir", Entry1, {}) /\ job.left # << >>
    BY <1>9 DEF MakeDir, Settled, AtStage
  <2> QED
    BY <1>2, <1>4, <2>1, ClaimSetFacts DEF OpKinds
<1>10. CASE \E x \in Path : DropOld(x)
  <2>1. PICK x \in Path : UNCHANGED vars \/ Intend("drop", x, {})
    BY <1>10 DEF DropOld
  <2> QED
    BY <1>2, <2>1, ClaimSetFacts DEF OpKinds
<1>11. CASE RecordManifest
  <2>1. Intend("bytes", Manifest[pkg], job.new) /\ job.new \in ClaimSets
    BY <1>1, <1>11 DEF RecordManifest, Job
  <2> QED
    BY <1>2, <1>3, <2>1, ClaimsTyped DEF OpKinds
<1>12. CASE RecordMeta
  <2>1. Intend("bytes", Meta[pkg], job.new \cup job.ceded)
    BY <1>12 DEF RecordMeta
  <2>2. job.new \cup job.ceded \in ClaimSets
    BY <1>1, ClaimSetFacts DEF Job
  <2> QED
    BY <1>2, <1>3, <2>1, <2>2, ClaimsTyped DEF OpKinds
<1>13. CASE (\E explicit \in BOOLEAN : InstallCommit(explicit)) \/ Abandon \/ Underneath
  BY <1>13 DEF InstallCommit, Abandon, Underneath, Next
<1>14. CASE UNCHANGED wvars
  BY <1>14 DEF wvars
<1> QED
  BY <1>5, <1>6, <1>7, <1>8, <1>9, <1>10, <1>11, <1>12, <1>13, <1>14 DEF WNext

\* What a step of an installation does to its memory.
LEMMA StepKeepsJob ==
  ASSUME TypeOK, JobInv, [WNext]_wvars
  PROVE  JobInv'
<1>1. /\ job \in Job /\ job.new \cap job.ceded = {} /\ world \subseteq Package
      /\ job.next # "none" => pc \in Forward \cup {"done"}
      /\ pc = "done" => job.next \in {"none", "world"}
  BY DEF JobInv, WTypeOK
<1>2. pkg \in Package
  BY DEF TypeOK
<1>3. ASSUME NEW p \in Package, NEW stage \in Stages[p], InstallBegin(p, stage)
      PROVE  JobInv'
  <2> DEFINE all == {stage[i] : i \in DOMAIN stage}
  <2>1. stage \in Seq(Claimable) /\ all \in ClaimSets
    <3>1. stage \in Seq(Claimable)
      BY ClaimAssumption
    <3>2. all \subseteq Claimable
      BY <3>1
    <3> QED
      BY <3>1, <3>2, ClaimAssumption
  <2>2. Claims(fs, p) \in ClaimSets /\ CededBy(fs, p) \ Unproved(fs, p) \in ClaimSets
    BY ClaimsTyped, ClaimSetFacts
  <2>3. /\ job' = [NoJob EXCEPT !.left = stage, !.all = all,
                                !.ceded = CededBy(fs, p) \ Unproved(fs, p),
                                !.old = Claims(fs, p), !.next = "stage"]
        /\ world' = world /\ pc' = "apply"
    BY <1>3 DEF InstallBegin, Begin
  <2> HIDE DEF all
  <2>4. job' \in Job /\ job'.new = {} /\ job'.next = "stage"
    BY <2>1, <2>2, <2>3, ClaimSetFacts DEF NoJob, Job
  <2> QED
    BY <1>1, <2>3, <2>4 DEF JobInv, WTypeOK, Forward
<1>4. ASSUME SkipCeded \/ (\E q \in Package : Cede(q))
             \/ PlaceLeaf \/ MakeDir \/ KeepDir
      PROVE  JobInv'
  <2>1. /\ pc = "apply" /\ job.next = "stage" /\ job.left # << >> /\ world' = world
        /\ pc' \in Forward
    BY <1>4, IntendLeads DEF SkipCeded, Cede, PlaceLeaf, MakeDir, KeepDir, Settled,
                             AtStage, At, Forward, vars
  <2>2. Entry1 \in Claimable /\ Tail(job.left) \in Seq(Claimable)
    BY <1>1, <2>1 DEF Job, Entry1
  <2>3. /\ job' \in Job /\ job'.next = "stage" /\ job'.ceded = job.ceded
        /\ job'.new = job.new \/ (job'.new = job.new \cup {Entry1} /\ Entry1 \notin job.ceded)
    <3>1. CASE SkipCeded
      BY <1>1, <2>1, <2>2, <3>1 DEF SkipCeded, Job
    <3>2. CASE \E q \in Package : Cede(q)
      BY <1>1, <2>1, <3>2 DEF Cede, Job
    <3>3. CASE PlaceLeaf \/ MakeDir \/ KeepDir
      <4>1. PICK claimed \in BOOLEAN : Advance(claimed) /\ Entry1 \notin job.ceded
        BY <3>3 DEF PlaceLeaf, MakeDir, KeepDir, Settled, Declared, Childless, Reused
      <4>2. job.new \cup {Entry1} \in ClaimSets
        BY <1>1, <2>2, ClaimSetFacts DEF Job
      <4> QED
        BY <1>1, <2>1, <2>2, <4>1, <4>2 DEF Advance, Job
    <3> QED
      BY <1>4, <3>1, <3>2, <3>3
  <2> QED
    BY <1>1, <2>1, <2>3 DEF JobInv, WTypeOK, Forward
<1>5. ASSUME StageDone \/ (\E x \in Path : DropOld(x)) \/ RecordManifest \/ RecordMeta
      PROVE  JobInv'
  <2>1. pc = "apply" /\ pc' \in Forward /\ world' = world
    BY <1>5, IntendLeads DEF StageDone, DropOld, RecordManifest, RecordMeta, At, Forward, vars
  <2>2. /\ job' \in Job /\ job'.new = job.new /\ job'.ceded = job.ceded
    <3>1. \A d : job.old \ d \in ClaimSets
      BY <1>1, ClaimSetFacts DEF Job
    <3>2. CASE StageDone
      <4>1. PICK kept \in ClaimSets : job' = [job EXCEPT !.next = "drop", !.old = kept]
        BY <3>1, <3>2 DEF StageDone
      <4> QED
        BY <1>1, <4>1 DEF Job
    <3>3. CASE \E x \in Path : DropOld(x)
      <4>1. PICK kept \in ClaimSets : job' = [job EXCEPT !.old = kept]
        BY <3>1, <3>3 DEF DropOld
      <4> QED
        BY <1>1, <4>1 DEF Job
    <3>4. CASE RecordManifest \/ RecordMeta
      BY <1>1, <3>4 DEF RecordManifest, RecordMeta, Job
    <3> QED
      BY <1>5, <3>2, <3>3, <3>4
  <2> QED
    BY <1>1, <2>1, <2>2 DEF JobInv, WTypeOK, Forward
<1>6. ASSUME NEW explicit \in BOOLEAN, InstallCommit(explicit)
      PROVE  JobInv'
  <2>1. pc' = "done" /\ world' = world
        /\ job' \in {NoJob, [NoJob EXCEPT !.next = "world"]}
    BY <1>6 DEF InstallCommit, Commit
  <2>2. job' \in Job /\ job'.new = {} /\ job'.next \in {"none", "world"}
    <3>1. NoJob \in Job /\ NoJob.new = {} /\ NoJob.next = "none"
      BY ClaimSetFacts DEF NoJob
    <3>2. [NoJob EXCEPT !.next = "world"] \in Job
      BY <3>1 DEF Job
    <3>3. /\ [NoJob EXCEPT !.next = "world"].new = {}
          /\ [NoJob EXCEPT !.next = "world"].next = "world"
      BY DEF NoJob
    <3> QED
      BY <2>1, <3>1, <3>2, <3>3
  <2> QED
    BY <1>1, <2>1, <2>2 DEF JobInv, WTypeOK
<1>7. ASSUME WorldAdd \/ Abandon
      PROVE  JobInv'
  <2>1. job' = NoJob /\ world' \subseteq Package
    BY <1>1, <1>2, <1>7 DEF WorldAdd, Abandon
  <2>2. NoJob \in Job /\ NoJob.new = {} /\ NoJob.next = "none"
    BY ClaimSetFacts DEF NoJob
  <2> QED
    BY <2>1, <2>2 DEF JobInv, WTypeOK
<1>8. ASSUME Underneath
      PROVE  JobInv'
  <2>1. /\ job' = job /\ world' = world /\ pc' # "done"
        /\ \/ pc \in {"idle", "sweep", "ready", "done"} \cup Undoing
           \/ pc \in Forward /\ pc' \in Forward
        /\ pc = "done" => job.next # "world"
    <3>1. (pc = "done" => Finish) /\ pc' # "done"
          /\ \/ pc \in {"idle", "sweep", "ready", "done"} \cup Undoing
             \/ pc \in Forward /\ pc' \in Forward
      BY <1>8, UnderneathLeads DEF Underneath
    <3>2. pc = "done" => job.next # "world"
      BY <1>8, UnderneathLeads DEF Underneath, Start, Sweep, SweepClean, SweepAmbiguous,
         SweepCommitted, SweepSuperseded, SweepRollback, Primitive, MoveAside, CopyAside,
         UnlinkOriginal, Create, Fill, WriteTmp, IntendSwap, Swap, Replay, AtEntry, UndoNew,
         ClearForRestore, UndoBlocked, Restore, RestoreByCopy, UnlinkBackup, SkipRestored,
         UndoUnsafe, RetireRolledBack
    <3> QED
      BY <1>8, <3>1, <3>2 DEF Underneath
  <2>2. job.next # "none" => pc' \in Forward
    BY <1>1, <2>1 DEF Forward, Undoing
  <2> QED
    BY <1>1, <2>1, <2>2 DEF JobInv, WTypeOK
<1>9. CASE UNCHANGED wvars
  BY <1>1, <1>9 DEF wvars, vars, JobInv, WTypeOK
<1> QED
  BY <1>3, <1>4, <1>5, <1>6, <1>7, <1>8, <1>9 DEF WNext

-----------------------------------------------------------------------------
\* The first state keeps the contract, and every step does.
LEMMA InitBoth == WInit => Init /\ IInv /\ JobInv
<1>1. WInit => Init /\ IInv
  BY InitIInv DEF WInit
<1>2. WInit => JobInv
  BY ClaimSetFacts DEF WInit, Init, JobInv, WTypeOK, NoJob
<1> QED
  BY <1>1, <1>2

LEMMA NextBoth == IInv /\ JobInv /\ [WNext]_wvars => [Next]_vars /\ IInv' /\ JobInv'
BY StepKeepsContract, StepKeepsJob, NextIInv DEF IInv

LEMMA BothInvariant == WSpec => [](IInv /\ JobInv)
BY InitBoth, NextBoth, PTL DEF WSpec

\* The installer implements the journal under any lawful caller: whatever the
\* recipes and STAGEs, apply_stage, write_record and the recovery around them
\* (install.rs:6223-6578) keep the contract Journal's theorems assume.
THEOREM ContractKept == WSpec => JournalSpec
<1>1. WSpec => Spec
  BY InitBoth, NextBoth, BothInvariant, PTL DEF WSpec, Spec
<1> QED
  BY <1>1 DEF JournalSpec

\* The memory of an installation is well formed and dies with its process.
THEOREM JobTyped == WSpec => []WTypeOK
<1>1. IInv /\ JobInv => WTypeOK
  BY DEF JobInv
<1> QED
  BY <1>1, BothInvariant, PTL

\* So the installer loses nothing, rolls back exactly, commits once and for all
\* and never leaves two journals (install.rs:5346-5960).
THEOREM InstallerIsSafe ==
  WSpec => []NothingLost /\ []AtMostOneJournal /\ RollbackRestores /\ CommitIsFinal
BY ContractKept, WriteAhead, OneJournal, RollbackExact, CommitFinal DEF JournalSpec

-----------------------------------------------------------------------------
(***************************************************************************)
(* The inductive invariant of ownership                                    *)
(***************************************************************************)

\* A package whose claims the present one may take, if it is installed.
Yields(q) == q # pkg /\ q \in Supersedes[pkg] \cap Provisional

\* The records of the others only shrink.
Framed(root) ==
  \A q \in Package \ {pkg} :
    /\ root[Meta[q]] = snap[Meta[q]]
    /\ root[Manifest[q]].claims \subseteq snap[Manifest[q]].claims

\* What the preflight found, of the root it looked at.
Checked ==
  /\ \A i \in DOMAIN job.left : job.left[i] \in job.all
  /\ job.new \subseteq job.all \ job.ceded
  /\ \A x \in job.all \ job.ceded, q \in Package \ {pkg} :
       /\ Exclusive(snap, q) \cap AtOrAbove(x) # {} => Yields(q)
       /\ x \in SharedClaims(snap, q) => q \in Deps[pkg] /\ ~IsShared(x, Shared[pkg])
  /\ \A x \in job.all \ job.ceded :
       \A pr \in Nearest(SharedOver(snap, pkg, x)) : pr[1] \in Deps[pkg]

\* No new claim collides with one the others still have.
Apart(root) ==
  \A c \in job.new, q \in Package \ {pkg} :
    /\ c \notin Claims(root, q)
    /\ Above[c] \cap Exclusive(root, q) = {}
    /\ ~IsShared(c, Shared[pkg]) => \A d \in Claims(root, q) : c \notin Above[d]

\* No cedent claims it any more but as a shared directory.
Free(root, d) == \A q \in Package : Yields(q) => d \notin Exclusive(root, q)

\* What is above an entry comes before it, or was taken from its cedents.
ParentsFree(root) ==
  /\ \A d \in job.ceded : Free(root, d)
  /\ \A i \in DOMAIN job.left : \A d \in Above[job.left[i]] :
       (\E j \in 1..(i - 1) : job.left[j] = d) \/ Free(root, d)

\* The entry at hand, once adopted, is nobody's.
AdoptedFree(root) ==
  job.adopted =>
    /\ job.next = "stage" /\ job.left # << >> /\ Entry1 \notin job.ceded
    /\ \A q \in Package : Yields(q) => Entry1 \notin Claims(root, q)

\* The claims of the others, and the new ones, describe the root.
StillIntact(root) ==
  /\ \A q \in Package \ {pkg} : \A c \in Claims(root, q) : Describes(root, q, c)
  /\ \A c \in job.new : IF c \in Dir THEN root[c].kind = "dir"
                        ELSE root[c].kind = "file" /\ root[c].by = txs

\* Every file is in a record, in the old manifest or in the new one, or at hand.
StillAccounted(root) ==
  \A x \in Path \ (Dir \cup {Tmp}) :
    \/ root[x].kind = "absent"
    \/ \E q \in Package : x \in {Meta[q], Manifest[q]}
    \/ \E q \in Package \ {pkg} : x \in Claims(root, q)
    \/ x \in job.old \cup job.new
    \/ job.adopted /\ x = Entry1

\* The old manifest is dropped before the new one is written.
StagesInOrder(root) ==
  /\ job.next \in {"stage", "drop", "meta"}
  /\ root[Meta[pkg]] = snap[Meta[pkg]]
  /\ job.old \subseteq Claims(snap, pkg)
  /\ job.next # "stage" => job.left = << >> /\ job.old \cap job.new = {}
  /\ job.next = "meta" => job.old = {} /\ root[Manifest[pkg]].claims = job.new

Underway(root) ==
  /\ Apart(root) /\ ParentsFree(root) /\ AdoptedFree(root)
  /\ StillIntact(root) /\ StillAccounted(root) /\ Tree(root)
  /\ StagesInOrder(root)

\* No two provisionals may take from each other.
NoMutualSuccession ==
  \A p, q \in Provisional : p # q /\ p \in Supersedes[q] => q \notin Supersedes[p]

\* The last root is sound, and so is the next one as soon as the meta is on its
\* way; until then the installation is underway to one.
Going ==
  /\ Framed(After) /\ Checked
  /\ IF job.next = "commit" THEN Sound(After) /\ Claims(After, pkg) = job.new
     ELSE Underway(After)

OwnershipInv ==
  /\ Sound(Rest)
  /\ pc \in Forward /\ ~Committed(pkg) => Going
  /\ DropsMove

\* Where things are.
LEMMA Places ==
  /\ Dir \subseteq Path /\ Claimable \subseteq Path
  /\ Tmp \in Path \ (Dir \cup Claimable)
  /\ \A x \in Path : Above[x] \subseteq Dir
  /\ \A x \in Path : \A d \in Above[x] : Rank[d] < Rank[x]
  /\ \A x \in Path : Rank[x] \in Nat
  /\ \A q \in Package :
       /\ Meta[q] \in Path \ (Dir \cup Claimable \cup {Tmp})
       /\ Manifest[q] \in Path \ (Dir \cup Claimable \cup {Tmp})
  /\ \A p, q \in Package : /\ Meta[p] # Manifest[q]
                           /\ Meta[p] = Meta[q] => p = q
                           /\ Manifest[p] = Manifest[q] => p = q
<1>1. Claimable \subseteq Path /\ Dir \subseteq Path /\ Tmp \in Path \ Dir
  BY ClaimSetFacts, PathAssumption
<1>2. \A x \in Path : Above[x] \subseteq Dir
  BY PlaceAssumption
<1>3. \A q \in Package : Meta[q] \in Path /\ Manifest[q] \in Path
  BY PathAssumption
<1>4. \A q \in Package : {Meta[q], Manifest[q]} \cap (Dir \cup {Tmp}) = {}
  BY MetaAssumption
<1>5. \A q \in Package : {Meta[q], Manifest[q]} \cap Claimable = {}
  BY PlaceAssumption
<1>6. \A x \in Path : \A d \in Above[x] : Rank[d] < Rank[x]
  BY PlaceAssumption
<1>7. \A x \in Path : Rank[x] \in Nat
  BY RecipeAssumption
<1>8. Tmp \notin Claimable
  BY PlaceAssumption
<1>9. \A p, q \in Package : /\ Meta[p] # Manifest[q]
                            /\ Meta[p] = Meta[q] => p = q
                            /\ Manifest[p] = Manifest[q] => p = q
  BY MetaAssumption, PlaceAssumption
<1> QED
  BY <1>1, <1>2, <1>3, <1>4, <1>5, <1>6, <1>7, <1>8, <1>9

\* What a record claims is payload, shared or exclusive.
LEMMA ClaimKinds ==
  ASSUME NEW root \in [Path -> Node], NEW q \in Package
  PROVE  /\ Claims(root, q) \in ClaimSets /\ Claims(root, q) \subseteq Claimable
         /\ SharedClaims(root, q) \subseteq Claims(root, q) \cap Dir
         /\ Exclusive(root, q) \subseteq Claims(root, q)
         /\ Claims(root, q) \subseteq Exclusive(root, q) \cup SharedClaims(root, q)
<1>1. root[Manifest[q]].claims \in ClaimSets
  BY Places DEF Node
<1>2. Claims(root, q) \in ClaimSets /\ Claims(root, q) \subseteq Claimable
  BY <1>1, ClaimSetFacts, ClaimAssumption DEF Claims
<1> QED
  BY <1>2 DEF SharedClaims, Exclusive

\* A record that only loses lines loses claims of each kind.
LEMMA FewerClaims ==
  ASSUME NEW was, NEW now, NEW q \in Package,
         now[Meta[q]] = was[Meta[q]],
         now[Manifest[q]].claims \subseteq was[Manifest[q]].claims
  PROVE  /\ Claims(now, q) \subseteq Claims(was, q)
         /\ Exclusive(now, q) \subseteq Exclusive(was, q)
         /\ SharedClaims(now, q) \subseteq SharedClaims(was, q)
BY DEF Claims, Exclusive, SharedClaims

\* A record that is the same claims the same.
LEMMA SameClaims ==
  ASSUME NEW was, NEW now, NEW q \in Package,
         now[Meta[q]] = was[Meta[q]], now[Manifest[q]] = was[Manifest[q]]
  PROVE  /\ Claims(now, q) = Claims(was, q)
         /\ Exclusive(now, q) = Exclusive(was, q)
         /\ SharedClaims(now, q) = SharedClaims(was, q)
BY DEF Claims, Exclusive, SharedClaims

\* The rest of a STAGE keeps its order.
LEMMA TailLines ==
  ASSUME NEW s \in Seq(Claimable), s # << >>
  PROVE  /\ Tail(s) \in Seq(Claimable) /\ Head(s) = s[1] /\ 1 \in DOMAIN s
         /\ Head(s) \in Claimable /\ DOMAIN Tail(s) \subseteq Nat
         /\ \A i \in DOMAIN Tail(s) : i + 1 \in DOMAIN s /\ Tail(s)[i] = s[i + 1]
         /\ \A i \in DOMAIN Tail(s) : \A d :
              (\E j \in 1..i : s[j] = d) =>
                d = Head(s) \/ \E j \in 1..(i - 1) : Tail(s)[j] = d
<1>1. /\ Tail(s) \in Seq(Claimable) /\ Head(s) = s[1] /\ Head(s) \in Claimable
      /\ Len(s) \in Nat \ {0} /\ Len(Tail(s)) = Len(s) - 1
      /\ DOMAIN s = 1..Len(s) /\ DOMAIN Tail(s) = 1..(Len(s) - 1)
      /\ \A i \in 1..(Len(s) - 1) : Tail(s)[i] = s[i + 1]
  OBVIOUS
<1>2. ASSUME NEW i \in DOMAIN Tail(s), NEW d, NEW j \in 1..i, s[j] = d
      PROVE  d = Head(s) \/ \E k \in 1..(i - 1) : Tail(s)[k] = d
  <2>1. CASE j = 1
    BY <1>1, <1>2, <2>1
  <2>2. CASE j # 1
    <3>1. j - 1 \in 1..(i - 1) /\ j - 1 \in 1..(Len(s) - 1) /\ (j - 1) + 1 = j
      BY <1>1, <2>2
    <3> QED
      BY <1>1, <1>2, <3>1
  <2> QED
    BY <2>1, <2>2
<1> QED
  BY <1>1, <1>2

-----------------------------------------------------------------------------
\* The memory and the root of an installation that goes on.
LEMMA UnderwayFacts ==
  ASSUME IInv, JobInv, OwnershipInv, pc = "apply", ~Committed(pkg), job.next # "commit"
  PROVE  /\ After = fs /\ fs \in [Path -> Node] /\ snap \in [Path -> Node]
         /\ pkg \in Package /\ job \in Job /\ txs \in Nat
         /\ Framed(fs) /\ Checked /\ Underway(fs) /\ Sound(snap)
         /\ Live(pkg) /\ journal[pkg].txid = txs
<1>1. pc \in Forward /\ After = fs
  BY DEF Forward, After
<1>2. Framed(fs) /\ Checked /\ Underway(fs)
  BY <1>1 DEF OwnershipInv, Going
<1>3. Live(pkg) /\ journal[pkg].txid = txs /\ txs \in Nat /\ pkg \in Package
  BY <1>1, ForwardFacts
<1>4. Rest = snap
  BY <1>3 DEF Rest, Pending
<1> QED
  BY <1>1, <1>2, <1>3, <1>4 DEF OwnershipInv, IInv, TypeOK, JobInv, WTypeOK

\* The others' claims are among those the preflight looked at.
LEMMA FramedClaims ==
  ASSUME NEW root, Framed(root), NEW q \in Package \ {pkg}
  PROVE  /\ Claims(root, q) \subseteq Claims(snap, q)
         /\ Exclusive(root, q) \subseteq Exclusive(snap, q)
         /\ SharedClaims(root, q) \subseteq SharedClaims(snap, q)
         /\ Installed(root, q) <=> Installed(snap, q)
BY FewerClaims DEF Framed, Installed

\* What the preflight and the cessions leave of other claims on the entry at hand.
LEMMA EntryFacts ==
  ASSUME IInv, JobInv, OwnershipInv, ~Committed(pkg), Settled
  PROVE  /\ Entry1 \in (job.all \ job.ceded) \cap Claimable
         /\ Free(fs, Entry1)
         /\ \A q \in Package \ {pkg} :
              /\ Above[Entry1] \cap Exclusive(fs, q) = {}
              /\ Entry1 \in Claims(fs, q) =>
                   /\ Entry1 \in SharedClaims(fs, q)
                   /\ q \in Deps[pkg] /\ ~Declared
<1>1. pc = "apply" /\ job.next = "stage" /\ job.left # << >> /\ Entry1 \notin job.ceded
  BY DEF Settled, AtStage, At
<1>2. /\ fs \in [Path -> Node] /\ snap \in [Path -> Node] /\ pkg \in Package /\ job \in Job
      /\ Framed(fs) /\ Checked /\ Underway(fs)
  BY <1>1, UnderwayFacts
<1>3. /\ job.left \in Seq(Claimable) /\ Entry1 = job.left[1] /\ 1 \in DOMAIN job.left
      /\ Entry1 \in Claimable
  BY <1>1, <1>2, TailLines DEF Job, Entry1
<1>4. Entry1 \in (job.all \ job.ceded) \cap Claimable /\ Entry1 \in Path
  BY <1>1, <1>2, <1>3, Places DEF Checked
<1>5. ASSUME NEW q \in Package, Yields(q)
      PROVE  Entry1 \notin Claims(fs, q)
  <2>1. CASE job.adopted
    BY <1>2, <1>5, <2>1 DEF Underway, AdoptedFree
  <2>2. CASE ~job.adopted
    <3>1. Cedents = {}
      BY <2>2 DEF Settled
    <3>2. Entry1 \in Claims(fs, q) => q \in Cedents
      BY <1>5 DEF Cedents, Ceding, Yields, Claims, Installed
    <3> QED
      BY <3>1, <3>2
  <2> QED
    BY <2>1, <2>2
<1>6. Free(fs, Entry1)
  BY <1>5 DEF Free, Exclusive
<1>7. ASSUME NEW q \in Package \ {pkg}, NEW d \in Exclusive(fs, q), d \in AtOrAbove(Entry1)
      PROVE  Yields(q)
  <2>1. d \in Exclusive(snap, q)
    BY <1>2, <1>7, FramedClaims
  <2> QED
    BY <1>2, <1>4, <1>7, <2>1 DEF Checked
<1>8. ASSUME NEW q \in Package \ {pkg}, NEW d \in Above[Entry1], d \in Exclusive(fs, q)
      PROVE  FALSE
  <2>1. Yields(q)
    BY <1>7, <1>8 DEF AtOrAbove
  <2>2. Free(fs, d)
    BY <1>2, <1>3 DEF Underway, ParentsFree
  <2> QED
    BY <1>8, <2>1, <2>2 DEF Free
<1>9. ASSUME NEW q \in Package \ {pkg}, Entry1 \in Claims(fs, q)
      PROVE  Entry1 \in SharedClaims(fs, q) /\ q \in Deps[pkg] /\ ~Declared
  <2>1. Entry1 \notin Exclusive(fs, q)
    BY <1>5, <1>7, <1>9 DEF AtOrAbove
  <2>2. Entry1 \in SharedClaims(fs, q)
    BY <1>2, <1>9, <2>1, ClaimKinds
  <2>3. Entry1 \in SharedClaims(snap, q)
    BY <1>2, <2>2, FramedClaims
  <2>4. q \in Deps[pkg] /\ ~IsShared(Entry1, Shared[pkg])
    BY <1>2, <1>4, <2>3 DEF Checked
  <2> QED
    BY <2>2, <2>4 DEF Declared
<1> QED
  BY <1>4, <1>6, <1>8, <1>9

\* Whatever is present lies in directories, so nothing is claimed inside what is
\* absent or empty.
LEMMA NothingInside ==
  ASSUME IInv, JobInv, OwnershipInv, ~Committed(pkg), pc = "apply", job.next # "commit",
         NEW x \in Dir, fs[x] = Absent \/ Removable(x),
         NEW q \in Package \ {pkg}, NEW c \in Claims(fs, q)
  PROVE  x \notin Above[c]
<1>1. /\ fs \in [Path -> Node] /\ Underway(fs)
  BY UnderwayFacts
<1>2. c \in Path
  BY <1>1, ClaimKinds, Places
<1>3. Describes(fs, q, c) /\ Tree(fs)
  BY <1>1 DEF Underway, StillIntact
<1>4. fs[c] # Absent
  BY <1>3 DEF Describes, Absent
<1>5. SUFFICES ASSUME x \in Above[c] PROVE FALSE
  OBVIOUS
<1>6. fs[x].kind = "dir"
  BY <1>2, <1>3, <1>4, <1>5 DEF Tree
<1> QED
  BY <1>2, <1>4, <1>5, <1>6 DEF Removable, Absent

-----------------------------------------------------------------------------
\* The memory after an entry.
LEMMA AdvanceFacts ==
  ASSUME job \in Job, job.left # << >>, NEW claimed \in BOOLEAN, Advance(claimed)
  PROVE  /\ job'.left = Tail(job.left) /\ job'.adopted = FALSE
         /\ job'.new = IF claimed THEN job.new \cup {Entry1} ELSE job.new
         /\ job'.next = job.next /\ job'.all = job.all /\ job'.old = job.old
         /\ job'.ceded = job.ceded
BY DEF Advance, Job

\* The entry at hand is done; what it claims is nobody's and describes the root.
LEMMA Advanced ==
  ASSUME IInv, JobInv, OwnershipInv, ~Committed(pkg), Settled,
         NEW claimed \in BOOLEAN, Advance(claimed), UNCHANGED <<pkg, snap, txs>>,
         After' \in [Path -> Node], Tree(After'),
         \A x \in Path \ {Entry1} : After'[x] = fs[x],
         Entry1 \in Dir => After'[Entry1] = fs[Entry1] \/ After'[Entry1].kind = "dir",
         Entry1 \notin Dir => claimed,
         claimed =>
           /\ IF Entry1 \in Dir THEN After'[Entry1].kind = "dir"
              ELSE After'[Entry1].kind = "file" /\ After'[Entry1].by = txs
           /\ \A q \in Package \ {pkg} :
                /\ Entry1 \notin Claims(fs, q)
                /\ ~Declared => \A d \in Claims(fs, q) : Entry1 \notin Above[d]
  PROVE  Framed(After)' /\ Checked' /\ Underway(After)' /\ job'.next = "stage"
<1>1. pc = "apply" /\ job.next = "stage" /\ job.left # << >> /\ Entry1 \notin job.ceded
  BY DEF Settled, AtStage, At
<1>2. /\ fs \in [Path -> Node] /\ snap \in [Path -> Node] /\ pkg \in Package /\ job \in Job
      /\ Framed(fs) /\ Checked /\ Underway(fs) /\ pkg' = pkg /\ snap' = snap /\ txs' = txs
  BY <1>1, UnderwayFacts
<1>3. /\ Entry1 \in (job.all \ job.ceded) \cap Claimable
      /\ Free(fs, Entry1)
      /\ \A q \in Package \ {pkg} : Above[Entry1] \cap Exclusive(fs, q) = {}
  BY EntryFacts
<1>4. /\ job'.left = Tail(job.left) /\ job'.adopted = FALSE
      /\ job'.new = IF claimed THEN job.new \cup {Entry1} ELSE job.new
      /\ job'.next = "stage" /\ job'.all = job.all /\ job'.old = job.old
      /\ job'.ceded = job.ceded
  BY <1>1, <1>2, AdvanceFacts
<1>5. PICK r \in [Path -> Node] : r = After'
  OBVIOUS
<1>6. \A q \in Package : r[Meta[q]] = fs[Meta[q]] /\ r[Manifest[q]] = fs[Manifest[q]]
  BY <1>3, <1>5, Places
<1>7. \A q \in Package : /\ Claims(r, q) = Claims(fs, q)
                         /\ Exclusive(r, q) = Exclusive(fs, q)
  BY <1>6, SameClaims
<1>8. /\ job.left \in Seq(Claimable) /\ Entry1 = Head(job.left)
      /\ \A i \in DOMAIN Tail(job.left) : i + 1 \in DOMAIN job.left
                                          /\ Tail(job.left)[i] = job.left[i + 1]
      /\ \A i \in DOMAIN Tail(job.left) : \A d :
           (\E j \in 1..i : job.left[j] = d) =>
             d = Entry1 \/ \E j \in 1..(i - 1) : Tail(job.left)[j] = d
  BY <1>1, <1>2, TailLines DEF Job, Entry1
<1>9. Framed(r)'
  BY <1>2, <1>6 DEF Framed
<1>10. Checked'
  <2>1. \A i \in DOMAIN job'.left : job'.left[i] \in job'.all
    BY <1>2, <1>4, <1>8 DEF Checked
  <2>2. job'.new \subseteq job'.all \ job'.ceded
    BY <1>2, <1>3, <1>4 DEF Checked
  <2> QED
    BY <1>2, <1>4, <2>1, <2>2 DEF Checked, Yields
<1>11. Apart(r)'
  <2>1. ASSUME NEW c \in job'.new, NEW q \in Package \ {pkg}
        PROVE  /\ c \notin Claims(r, q)
               /\ Above[c] \cap Exclusive(r, q) = {}
               /\ ~IsShared(c, Shared[pkg]) => \A d \in Claims(r, q) : c \notin Above[d]
    <3>1. CASE c \in job.new
      BY <1>2, <1>7, <3>1 DEF Underway, Apart
    <3>2. CASE c = Entry1 /\ claimed
      BY <1>3, <1>7, <3>2 DEF Declared
    <3> QED
      BY <1>4, <2>1, <3>1, <3>2
  <2> QED
    BY <1>2, <2>1 DEF Apart
<1>12. ParentsFree(r)'
  <2>1. \A d : Free(fs, d) => Free(r, d)'
    BY <1>2, <1>7 DEF Free, Yields
  <2>2. \A d \in job'.ceded : Free(r, d)'
    BY <1>2, <1>4, <2>1 DEF Underway, ParentsFree
  <2>3. ASSUME NEW i \in DOMAIN job'.left, NEW d \in Above[job'.left[i]]
        PROVE  (\E j \in 1..(i - 1) : job'.left[j] = d) \/ Free(r, d)'
    <3>1. i \in Nat /\ i + 1 \in DOMAIN job.left /\ d \in Above[job.left[i + 1]] /\ (i + 1) - 1 = i
      BY <1>2, <1>4, <1>8 DEF Job
    <3>2. (\E j \in 1..i : job.left[j] = d) \/ Free(fs, d)
      BY <1>2, <3>1 DEF Underway, ParentsFree
    <3>3. CASE Free(fs, d)
      BY <2>1, <3>3
    <3>4. CASE \E j \in 1..i : job.left[j] = d
      <4>1. i \in DOMAIN Tail(job.left)
        BY <1>4
      <4>2. d = Entry1 \/ \E j \in 1..(i - 1) : Tail(job.left)[j] = d
        BY <1>8, <3>4, <4>1
      <4> QED
        BY <1>3, <1>4, <2>1, <4>2
    <3> QED
      BY <3>2, <3>3, <3>4
  <2> QED
    BY <2>2, <2>3 DEF ParentsFree
<1>13. AdoptedFree(r)'
  BY <1>4 DEF AdoptedFree
<1>14. StillIntact(r)'
  <2>1. ASSUME NEW q \in Package \ {pkg}, NEW c \in Claims(r, q)
        PROVE  Describes(r, q, c)
    <3>1. Describes(fs, q, c) /\ c \in Path /\ c \in Claims(fs, q)
      BY <1>2, <1>5, <1>7, ClaimKinds, Places DEF Underway, StillIntact
    <3>2. CASE c # Entry1
      BY <1>5, <1>6, <3>1, <3>2 DEF Describes
    <3>3. CASE c = Entry1
      BY <1>5, <1>6, <3>1, <3>3 DEF Describes
    <3> QED
      BY <3>2, <3>3
  <2>2. ASSUME NEW c \in job'.new
        PROVE  IF c \in Dir THEN r[c].kind = "dir" ELSE r[c].kind = "file" /\ r[c].by = txs
    <3>1. CASE c = Entry1 /\ claimed
      BY <1>5, <3>1
    <3>2. CASE c \in job.new
      <4>1. IF c \in Dir THEN fs[c].kind = "dir" ELSE fs[c].kind = "file" /\ fs[c].by = txs
        BY <1>2, <3>2 DEF Underway, StillIntact
      <4>2. CASE c = Entry1
        BY <1>5, <4>1, <4>2
      <4>3. CASE c # Entry1
        <5>1. c \in Path
          BY <1>2, <3>2, Places, ClaimAssumption DEF Job
        <5> QED
          BY <1>5, <4>1, <4>3, <5>1
      <4> QED
        BY <4>2, <4>3
    <3> QED
      BY <1>4, <3>1, <3>2
  <2> QED
    BY <1>2, <2>1, <2>2 DEF StillIntact
<1>15. StillAccounted(r)'
  <2>1. ASSUME NEW x \in Path \ (Dir \cup {Tmp})
        PROVE  \/ r[x].kind = "absent"
               \/ \E q \in Package : x \in {Meta[q], Manifest[q]}
               \/ \E q \in Package \ {pkg} : x \in Claims(r, q)
               \/ x \in job'.old \cup job'.new
    <3>1. CASE x = Entry1
      BY <1>4, <3>1
    <3>2. CASE x # Entry1
      <4>1. r[x] = fs[x]
        BY <1>5, <3>2
      <4>2. \/ fs[x].kind = "absent"
            \/ \E q \in Package : x \in {Meta[q], Manifest[q]}
            \/ \E q \in Package \ {pkg} : x \in Claims(fs, q)
            \/ x \in job.old \cup job.new
        BY <1>2, <3>2 DEF Underway, StillAccounted
      <4> QED
        BY <1>4, <1>7, <4>1, <4>2
    <3> QED
      BY <3>1, <3>2
  <2> QED
    BY <1>2, <2>1 DEF StillAccounted
<1>16. Tree(r)'
  BY <1>5
<1>17. StagesInOrder(r)'
  BY <1>1, <1>2, <1>4, <1>6 DEF Underway, StagesInOrder
<1>18. Underway(r)'
  BY <1>11, <1>12, <1>13, <1>14, <1>15, <1>16, <1>17 DEF Underway
<1> QED
  BY <1>4, <1>5, <1>9, <1>10, <1>18

\* A tree with one more path inside directories, or one less that is empty.
LEMMA TreeGrows ==
  ASSUME NEW root \in [Path -> Node], Tree(root), NEW x \in Path, NEW n \in Node,
         n.kind = IF x \in Dir THEN "dir" ELSE "file",
         \A d \in Above[x] : root[d].kind = "dir"
  PROVE  Tree([root EXCEPT ![x] = n])
<1> DEFINE r == [root EXCEPT ![x] = n]
<1>1. SUFFICES ASSUME NEW y \in Path, r[y] # Absent
               PROVE  /\ r[y].kind = IF y \in Dir THEN "dir" ELSE "file"
                      /\ \A d \in Above[y] : r[d].kind = "dir"
  BY DEF Tree
<1>2. Above[y] \subseteq Dir /\ Above[y] \subseteq Path
  BY Places
<1>3. CASE y = x
  BY <1>2, <1>3
<1>4. CASE y # x
  BY <1>1, <1>2, <1>4 DEF Tree
<1> QED
  BY <1>3, <1>4

\* What nothing is below may go.
LEMMA TreeShrinks ==
  ASSUME fs \in [Path -> Node], Tree(fs), NEW x \in Path, Removable(x)
  PROVE  Tree([fs EXCEPT ![x] = Absent])
<1> DEFINE r == [fs EXCEPT ![x] = Absent]
<1>1. SUFFICES ASSUME NEW y \in Path, r[y] # Absent
               PROVE  /\ r[y].kind = IF y \in Dir THEN "dir" ELSE "file"
                      /\ \A d \in Above[y] : r[d].kind = "dir"
  BY DEF Tree
<1>2. y # x /\ fs[y] # Absent
  BY <1>1
<1>3. x \notin Above[y]
  BY <1>2 DEF Tree, Removable
<1> QED
  BY <1>2, <1>3, Places DEF Tree

\* apply_stage places a leaf or a directory, or finds one (install.rs:6679-6822).
LEMMA EntryDone ==
  ASSUME IInv, IInv', JobInv, OwnershipInv, ~Committed(pkg), PlaceLeaf \/ MakeDir \/ KeepDir
  PROVE  Going'
<1>1. Settled /\ pc = "apply" /\ job.next = "stage"
  BY DEF PlaceLeaf, MakeDir, KeepDir, Settled, AtStage, At
<1>2. /\ After = fs /\ fs \in [Path -> Node] /\ pkg \in Package /\ txs \in Nat
      /\ Framed(fs) /\ Checked /\ Underway(fs) /\ journal[pkg].txid = txs
  BY <1>1, UnderwayFacts
<1>3. /\ Entry1 \in Claimable /\ Entry1 \in Path
      /\ \A q \in Package \ {pkg} : Entry1 \in Claims(fs, q) =>
           /\ Entry1 \in SharedClaims(fs, q)
           /\ q \in Deps[pkg] /\ ~Declared
  BY <1>1, EntryFacts, Places
<1>4. Tree(fs)
  BY <1>2 DEF Underway
<1>5. SUFFICES Framed(After)' /\ Checked' /\ Underway(After)' /\ job'.next = "stage"
  BY DEF Going
<1>6. CASE PlaceLeaf
  <2>1. Intend("place", Entry1, {}) /\ Entry1 \notin Dir /\ Advance(TRUE)
    BY <1>6 DEF PlaceLeaf
  <2>2. /\ After' = [fs EXCEPT ![Entry1] = NewNode("place", {})]
        /\ UNCHANGED <<pkg, snap, txs>>
    BY <1>3, <2>1, IntendAhead, ClaimSetFacts DEF OpKinds
  <2>3. /\ NewNode("place", {}) \in Node /\ NewNode("place", {}).kind = "file"
        /\ NewNode("place", {}).by = txs
    BY <1>2, ClaimSetFacts DEF NewNode, Node
  <2>4. \A d \in Above[Entry1] : fs[d].kind = "dir"
    BY <2>1 DEF Intend, Suits
  <2>5. Tree(After') /\ After' \in [Path -> Node] /\ After'[Entry1] = NewNode("place", {})
        /\ \A x \in Path \ {Entry1} : After'[x] = fs[x]
    BY <1>2, <1>3, <1>4, <2>1, <2>2, <2>3, <2>4, TreeGrows
  <2>6. ASSUME NEW q \in Package \ {pkg}
        PROVE  /\ Entry1 \notin Claims(fs, q)
               /\ \A d \in Claims(fs, q) : Entry1 \notin Above[d]
    <3>1. SharedClaims(fs, q) \subseteq Dir /\ Claims(fs, q) \subseteq Path
      BY <1>2, ClaimKinds, Places
    <3> QED
      BY <1>3, <2>1, <3>1, Places
  <2> QED
    BY <1>1, <2>1, <2>2, <2>3, <2>5, <2>6, Advanced
<1>7. CASE MakeDir
  <2>1. PICK claimed \in BOOLEAN :
          /\ Intend("mkdir", Entry1, {}) /\ Entry1 \in Dir /\ Advance(claimed)
          /\ fs[Entry1] = Absent
    BY <1>7 DEF MakeDir, Declared, Childless, Reused
  <2>2. /\ After' = [fs EXCEPT ![Entry1] = NewNode("mkdir", {})]
        /\ UNCHANGED <<pkg, snap, txs>>
    BY <1>3, <2>1, IntendAhead, ClaimSetFacts DEF OpKinds
  <2>3. /\ NewNode("mkdir", {}) \in Node /\ NewNode("mkdir", {}).kind = "dir"
    BY <1>2, ClaimSetFacts DEF NewNode, Node
  <2>4. \A d \in Above[Entry1] : fs[d].kind = "dir"
    BY <2>1 DEF Intend, Suits
  <2>5. Tree(After') /\ After' \in [Path -> Node] /\ After'[Entry1].kind = "dir"
        /\ \A x \in Path \ {Entry1} : After'[x] = fs[x]
    BY <1>2, <1>3, <1>4, <2>1, <2>2, <2>3, <2>4, TreeGrows
  <2>6. ASSUME NEW q \in Package \ {pkg}
        PROVE  /\ Entry1 \notin Claims(fs, q)
               /\ \A d \in Claims(fs, q) : Entry1 \notin Above[d]
    <3>1. Entry1 \notin Claims(fs, q)
      BY <1>2, <2>1 DEF Underway, StillIntact, Describes, Absent
    <3> QED
      BY <1>1, <2>1, <3>1, NothingInside
  <2> QED
    BY <1>1, <2>1, <2>2, <2>5, <2>6, Advanced
<1>8. CASE KeepDir
  <2> DEFINE exclusive == Childless /\ ~Declared /\ ~Reused
  <2>1. PICK claimed \in BOOLEAN :
          /\ UNCHANGED vars /\ Entry1 \in Dir /\ Advance(claimed)
          /\ exclusive => Removable(Entry1)
          /\ claimed => Declared \/ exclusive
    BY <1>8 DEF KeepDir, Declared, Childless, Reused
  <2>2. After' = fs /\ UNCHANGED <<pkg, snap, txs>>
    BY <1>2, <2>1 DEF vars, After
  <2>3. ASSUME claimed, NEW q \in Package \ {pkg}
        PROVE  /\ Entry1 \notin Claims(fs, q)
               /\ ~Declared => \A d \in Claims(fs, q) : Entry1 \notin Above[d]
    <3>1. ~Declared => exclusive
      BY <2>1, <2>3
    <3>2. ASSUME Entry1 \in Claims(fs, q)
          PROVE  FALSE
      <4>1. Entry1 \in SharedClaims(fs, q) /\ q \in Deps[pkg] /\ ~Declared
        BY <1>3, <3>2
      <4>2. q \in Others(pkg)
        BY <3>2 DEF Others, Installed, Claims
      <4>3. Reused
        BY <4>1, <4>2 DEF Reused, IsShared
      <4> QED
        BY <3>1, <4>1, <4>3
    <3>3. ~Declared => \A d \in Claims(fs, q) : Entry1 \notin Above[d]
      BY <1>1, <2>1, <3>1, NothingInside
    <3> QED
      BY <3>2, <3>3
  <2>4. claimed => After'[Entry1].kind = "dir"
    BY <1>3, <1>4, <1>8, <2>1, <2>2 DEF KeepDir, Tree
  <2>5. After' \in [Path -> Node] /\ Tree(After')
        /\ \A x \in Path \ {Entry1} : After'[x] = fs[x]
        /\ After'[Entry1] = fs[Entry1]
    BY <1>2, <1>4, <2>2
  <2> QED
    BY <1>1, <2>1, <2>2, <2>3, <2>4, <2>5, Advanced
<1> QED
  BY <1>6, <1>7, <1>8

\* An entry its provisional has ceded is left to its new owner (install.rs:6661).
LEMMA SkipDone ==
  ASSUME IInv, JobInv, OwnershipInv, ~Committed(pkg), SkipCeded
  PROVE  Going'
<1>1. /\ pc = "apply" /\ job.next = "stage" /\ job.left # << >> /\ Entry1 \in job.ceded
      /\ UNCHANGED vars
  BY DEF SkipCeded, AtStage, At
<1>2. /\ After = fs /\ Framed(fs) /\ Checked /\ Underway(fs) /\ job \in Job
  BY <1>1, UnderwayFacts
<1>3. After' = fs /\ UNCHANGED <<pkg, snap, txs>>
  BY <1>1, <1>2 DEF After, vars
<1>4. ~job.adopted
  BY <1>1, <1>2 DEF Underway, AdoptedFree
<1>5. /\ job'.left = Tail(job.left) /\ job'.adopted = job.adopted /\ job'.new = job.new
      /\ job'.next = job.next /\ job'.all = job.all /\ job'.old = job.old
      /\ job'.ceded = job.ceded
  BY <1>2 DEF SkipCeded, Job
<1>6. /\ \A i \in DOMAIN Tail(job.left) : i + 1 \in DOMAIN job.left
                                          /\ Tail(job.left)[i] = job.left[i + 1]
      /\ \A i \in DOMAIN Tail(job.left) : \A d :
           (\E j \in 1..i : job.left[j] = d) =>
             d = Entry1 \/ \E j \in 1..(i - 1) : Tail(job.left)[j] = d
      /\ DOMAIN Tail(job.left) \subseteq Nat
  BY <1>1, <1>2, TailLines DEF Job, Entry1
<1>7. Framed(fs)' /\ Checked'
  BY <1>2, <1>3, <1>5, <1>6, <1>1 DEF Framed, Checked, Yields, vars
<1>8. ParentsFree(fs)'
  <2>1. \A d : Free(fs, d)' <=> Free(fs, d)
    BY <1>1 DEF Free, Yields, vars
  <2>2. ASSUME NEW i \in DOMAIN job'.left, NEW d \in Above[job'.left[i]]
        PROVE  (\E j \in 1..(i - 1) : job'.left[j] = d) \/ Free(fs, d)
    <3>1. i \in DOMAIN Tail(job.left) /\ i \in Nat
      BY <1>5, <1>6
    <3>2. i + 1 \in DOMAIN job.left /\ d \in Above[job.left[i + 1]] /\ (i + 1) - 1 = i
      BY <1>5, <1>6, <3>1
    <3>3. (\E j \in 1..i : job.left[j] = d) \/ Free(fs, d)
      BY <1>2, <3>2 DEF Underway, ParentsFree
    <3>4. Free(fs, Entry1)
      BY <1>1, <1>2 DEF Underway, ParentsFree
    <3>5. CASE \E j \in 1..i : job.left[j] = d
      <4>1. d = Entry1 \/ \E j \in 1..(i - 1) : Tail(job.left)[j] = d
        BY <1>6, <3>1, <3>5
      <4> QED
        BY <1>5, <3>4, <4>1
    <3> QED
      BY <3>3, <3>5
  <2> QED
    BY <1>2, <1>5, <2>1, <2>2 DEF Underway, ParentsFree
<1>9. Underway(fs)'
  BY <1>1, <1>2, <1>3, <1>4, <1>5, <1>8
  DEF Underway, Apart, AdoptedFree, StillIntact, StillAccounted, StagesInOrder, vars
<1>10. job'.next = "stage" /\ After' = fs'
  BY <1>1, <1>3, <1>5 DEF vars
<1> QED
  BY <1>1, <1>3, <1>7, <1>9, <1>10 DEF Going

\* A record file written by the transaction.
LEMMA RecordWritten ==
  ASSUME IInv, JobInv, OwnershipInv, pc = "apply", job.next # "commit",
         NEW q \in Package, NEW x \in {Meta[q], Manifest[q]}, NEW c \in ClaimSets,
         Intend("bytes", x, c)
  PROVE  /\ ~Committed(pkg)
         /\ After' = [fs EXCEPT ![x] = NewNode("bytes", c)]
         /\ UNCHANGED <<pkg, snap, txs>>
         /\ After' \in [Path -> Node] /\ Tree(After')
         /\ \A y \in Path \ {x} : After'[y] = fs[y]
         /\ After'[x].claims = c /\ After'[x].by = txs /\ After'[x].kind = "file"
<1>1. ~Committed(pkg) /\ \A d \in Above[x] : fs[d].kind = "dir"
  BY DEF Intend, CallerContract, Suits
<1>2. /\ fs \in [Path -> Node] /\ Underway(fs) /\ journal[pkg].txid = txs /\ txs \in Nat
  BY <1>1, UnderwayFacts
<1>3. x \in Path \ Dir
  BY Places
<1>4. /\ NewNode("bytes", c) \in Node /\ NewNode("bytes", c).kind = "file"
      /\ NewNode("bytes", c).by = txs /\ NewNode("bytes", c).claims = c
  BY <1>2 DEF NewNode, Node
<1>5. After' = [fs EXCEPT ![x] = NewNode("bytes", c)] /\ UNCHANGED <<pkg, snap, txs>>
  BY <1>3, IntendAhead DEF OpKinds
<1>6. Tree(After')
  BY <1>1, <1>2, <1>3, <1>4, <1>5, TreeGrows DEF Underway
<1> QED
  BY <1>1, <1>2, <1>3, <1>4, <1>5, <1>6

\* adopt_provisional_path: the cedent's manifest loses one line (install.rs:6083).
LEMMA CedeDone ==
  ASSUME IInv, IInv', JobInv, OwnershipInv, ~Committed(pkg), NEW q \in Package, Cede(q)
  PROVE  Going'
<1> DEFINE left == fs[Manifest[q]].claims \ {Entry1}
<1>1. /\ pc = "apply" /\ job.next = "stage" /\ job.left # << >> /\ Entry1 \notin job.ceded
      /\ q \in Cedents /\ Intend("bytes", Manifest[q], left)
  BY DEF Cede, AtStage, At
<1>2. /\ After = fs /\ fs \in [Path -> Node] /\ snap \in [Path -> Node] /\ job \in Job
      /\ pkg \in Package /\ Framed(fs) /\ Checked /\ Underway(fs) /\ Sound(snap)
  BY <1>1, UnderwayFacts
<1>3. job' = [job EXCEPT !.adopted = TRUE]
  BY DEF Cede
<1>4. /\ job'.left = job.left /\ job'.adopted = TRUE /\ job'.new = job.new
      /\ job'.next = "stage" /\ job'.all = job.all /\ job'.old = job.old
      /\ job'.ceded = job.ceded
  BY <1>1, <1>2, <1>3 DEF Job
<1>5. /\ q # pkg /\ Yields(q) /\ Entry1 \in Claims(fs, q)
  BY <1>1 DEF Cedents, Ceding, Yields, Claims, Installed
<1>6. left \in ClaimSets
  BY <1>2, ClaimsTyped, ClaimSetFacts DEF IInv
<1>7. PICK r \in [Path -> Node] :
        /\ r = After' /\ Tree(r)
        /\ \A y \in Path \ {Manifest[q]} : r[y] = fs[y]
        /\ r[Manifest[q]].claims = left
        /\ UNCHANGED <<pkg, snap, txs>>
  BY <1>1, <1>6, RecordWritten
<1>8. \A p \in Package : /\ r[Meta[p]] = fs[Meta[p]]
                         /\ p # q => r[Manifest[p]] = fs[Manifest[p]]
                         /\ r[Manifest[p]].claims \subseteq fs[Manifest[p]].claims
  BY <1>7, Places
<1>9. \A p \in Package : /\ Claims(r, p) \subseteq Claims(fs, p)
                         /\ Exclusive(r, p) \subseteq Exclusive(fs, p)
                         /\ p # q => Claims(r, p) = Claims(fs, p)
  BY <1>8, FewerClaims, SameClaims
<1>10. Claims(r, q) = Claims(fs, q) \ {Entry1}
  BY <1>5, <1>7, <1>8 DEF Claims
<1>11. Framed(r)'
  BY <1>2, <1>7, <1>8 DEF Framed
<1>12. Checked'
  BY <1>2, <1>4, <1>7 DEF Checked, Yields
<1>13. Apart(r)'
  BY <1>2, <1>4, <1>7, <1>9 DEF Underway, Apart
<1>14. ParentsFree(r)'
  <2>1. \A d : Free(fs, d) => Free(r, d)'
    BY <1>7, <1>9 DEF Free, Yields
  <2> QED
    BY <1>2, <1>4, <2>1 DEF Underway, ParentsFree
<1>15. AdoptedFree(r)'
  <2>1. ASSUME NEW p \in Package, Yields(p)
        PROVE  Entry1 \notin Claims(r, p)
    <3>1. CASE p = q
      BY <1>10, <3>1
    <3>2. CASE p # q
      <4>1. Claims(fs, p) \subseteq Claims(snap, p) /\ Claims(fs, q) \subseteq Claims(snap, q)
        BY <1>2, <1>5, <2>1, FramedClaims DEF Yields
      <4>2. Entry1 \notin Claims(fs, p)
        BY <1>2, <1>5, <3>2, <4>1 DEF Sound, Disjoint
      <4> QED
        BY <1>9, <4>2
    <3> QED
      BY <3>1, <3>2
  <2>2. Entry1' = Entry1
    BY <1>4 DEF Entry1
  <2> QED
    BY <1>1, <1>4, <1>7, <2>1, <2>2 DEF AdoptedFree, Yields
<1>16. StillIntact(r)'
  <2>1. \A p \in Package : Claims(fs, p) \subseteq Path \ {Manifest[q]}
    BY <1>2, ClaimKinds, Places
  <2>2. job.new \subseteq Path \ {Manifest[q]}
    BY <1>2, Places, ClaimAssumption DEF Job
  <2> QED
    BY <1>2, <1>4, <1>7, <1>8, <1>9, <2>1, <2>2 DEF Underway, StillIntact, Describes
<1>17. StillAccounted(r)'
  <2>1. ASSUME NEW x \in Path \ (Dir \cup {Tmp}), x # Manifest[q]
        PROVE  \/ r[x].kind = "absent"
               \/ \E p \in Package : x \in {Meta[p], Manifest[p]}
               \/ \E p \in Package \ {pkg} : x \in Claims(r, p)
               \/ x \in job.old \cup job.new
               \/ x = Entry1
    <3>1. \/ fs[x].kind = "absent"
          \/ \E p \in Package : x \in {Meta[p], Manifest[p]}
          \/ \E p \in Package \ {pkg} : x \in Claims(fs, p)
          \/ x \in job.old \cup job.new
          \/ x = Entry1
      BY <1>2 DEF Underway, StillAccounted
    <3> QED
      BY <1>7, <1>9, <1>10, <2>1, <3>1
  <2>2. Entry1' = Entry1
    BY <1>4 DEF Entry1
  <2> QED
    BY <1>4, <1>7, <2>1, <2>2 DEF StillAccounted
<1>18. StagesInOrder(r)'
  BY <1>1, <1>2, <1>4, <1>7, <1>8 DEF Underway, StagesInOrder
<1>19. Underway(r)'
  BY <1>7, <1>13, <1>14, <1>15, <1>16, <1>17, <1>18 DEF Underway
<1> QED
  BY <1>4, <1>7, <1>11, <1>12, <1>19 DEF Going

\* The STAGE is applied; what of the old manifest it did not bring is left
\* (install.rs:6823).
LEMMA StageDoneStep ==
  ASSUME IInv, JobInv, OwnershipInv, ~Committed(pkg), StageDone
  PROVE  Going'
<1>1. pc = "apply" /\ job.next = "stage" /\ job.left = << >> /\ UNCHANGED vars
  BY DEF StageDone, At
<1>2. After = fs /\ Framed(fs) /\ Checked /\ Underway(fs) /\ job \in Job
  BY <1>1, UnderwayFacts
<1>3. /\ job'.left = << >> /\ job'.adopted = job.adopted /\ job'.new = job.new
      /\ job'.next = "drop" /\ job'.all = job.all /\ job'.ceded = job.ceded
      /\ job'.old = job.old \ (job.new \cup (job.all \cap Dir))
  BY <1>1, <1>2 DEF StageDone, Job
<1>4. ~job.adopted
  BY <1>1, <1>2 DEF Underway, AdoptedFree
<1>5. Framed(fs)' /\ Checked'
  BY <1>1, <1>2, <1>3 DEF Framed, Checked, Yields, vars
<1>6. Apart(fs)' /\ ParentsFree(fs)' /\ AdoptedFree(fs)' /\ StillIntact(fs)'
  BY <1>1, <1>2, <1>3, <1>4
  DEF Underway, Apart, ParentsFree, Free, Yields, AdoptedFree, StillIntact, vars
<1>7. StillAccounted(fs)'
  <2>1. ASSUME NEW x \in Path \ (Dir \cup {Tmp}), x \in job.old \cup job.new
        PROVE  x \in job'.old \cup job'.new
    BY <1>3, <2>1
  <2> QED
    BY <1>1, <1>2, <1>3, <1>4, <2>1 DEF Underway, StillAccounted, vars
<1>8. Tree(fs)' /\ StagesInOrder(fs)'
  BY <1>1, <1>2, <1>3 DEF Underway, StagesInOrder, vars
<1>9. After' = fs'
  BY <1>1 DEF After, vars
<1> QED
  BY <1>3, <1>5, <1>6, <1>7, <1>8, <1>9 DEF Going, Underway

\* What the old manifest alone listed goes, or is preserved (install.rs:6847).
LEMMA DropDone ==
  ASSUME IInv, IInv', JobInv, OwnershipInv, ~Committed(pkg), NEW x \in Path, DropOld(x)
  PROVE  Going'
<1>1. pc = "apply" /\ job.next = "drop" /\ x \in job.old
      /\ \/ UNCHANGED vars /\ (fs[x] = Absent \/ ~Removable(x))
         \/ Intend("drop", x, {})
  BY DEF DropOld, At
<1>2. /\ After = fs /\ fs \in [Path -> Node] /\ snap \in [Path -> Node] /\ job \in Job
      /\ pkg \in Package /\ Framed(fs) /\ Checked /\ Underway(fs) /\ Sound(snap)
  BY <1>1, UnderwayFacts
<1>3. job' = [job EXCEPT !.old = @ \ {x}]
  BY DEF DropOld
<1>4. /\ job'.left = job.left /\ job'.adopted = job.adopted /\ job'.new = job.new
      /\ job'.next = "drop" /\ job'.all = job.all /\ job'.old = job.old \ {x}
      /\ job'.ceded = job.ceded
  BY <1>1, <1>2, <1>3 DEF Job
<1>5. /\ x \in Claims(snap, pkg) /\ x \notin job.new /\ x \in Claimable /\ ~job.adopted
  <2>1. x \in Claims(snap, pkg) /\ x \notin job.new /\ ~job.adopted
    BY <1>1, <1>2 DEF Underway, StagesInOrder, AdoptedFree
  <2> QED
    BY <1>2, <2>1, ClaimKinds
<1>6. PICK r \in [Path -> Node] :
        /\ r = After' /\ Tree(r)
        /\ \A y \in Path \ {x} : r[y] = fs[y]
        /\ \/ r[x].kind = "absent"
           \/ r[x] = fs[x] /\ (fs[x] = Absent \/ ~Removable(x))
        /\ UNCHANGED <<pkg, snap, txs>>
  <2>1. CASE UNCHANGED vars /\ (fs[x] = Absent \/ ~Removable(x))
    <3>1. After' = fs /\ UNCHANGED <<pkg, snap, txs>>
      BY <1>2, <2>1 DEF After, vars
    <3> QED
      BY <1>2, <2>1, <3>1 DEF Underway
  <2>2. CASE Intend("drop", x, {})
    <3>1. After' = [fs EXCEPT ![x] = Absent] /\ UNCHANGED <<pkg, snap, txs>>
      BY <2>2, IntendAhead, ClaimSetFacts DEF OpKinds
    <3>2. Removable(x)
      BY <2>2 DEF Intend, Suits
    <3>3. Tree(After')
      BY <1>2, <3>1, <3>2, TreeShrinks DEF Underway
    <3>4. Absent.kind = "absent" /\ Absent \in Node
      BY NodeFacts DEF Absent
    <3>5. After' \in [Path -> Node] /\ After'[x] = Absent /\ \A y \in Path \ {x} : After'[y] = fs[y]
      BY <1>2, <3>1, <3>4
    <3>6. After'[x].kind = "absent"
      BY <3>4, <3>5
    <3> QED
      BY <3>1, <3>3, <3>5, <3>6
  <2> QED
    BY <1>1, <2>1, <2>2
<1>7. \A p \in Package : r[Meta[p]] = fs[Meta[p]] /\ r[Manifest[p]] = fs[Manifest[p]]
  BY <1>5, <1>6, Places
<1>8. \A p \in Package : /\ Claims(r, p) = Claims(fs, p)
                         /\ Exclusive(r, p) = Exclusive(fs, p)
  BY <1>7, SameClaims
<1>9. \A p \in Package \ {pkg} : Claims(fs, p) \subseteq Path \ {x}
  <2>1. ASSUME NEW p \in Package \ {pkg}
        PROVE  x \notin Claims(fs, p)
    <3>1. Claims(fs, p) \subseteq Claims(snap, p)
      BY <1>2, FramedClaims
    <3> QED
      BY <1>2, <1>5, <3>1 DEF Sound, Disjoint
  <2> QED
    BY <1>2, <2>1, ClaimKinds, Places
<1>10. Framed(r)' /\ Checked'
  BY <1>2, <1>4, <1>6, <1>7 DEF Framed, Checked, Yields
<1>11. Apart(r)' /\ AdoptedFree(r)'
  BY <1>2, <1>4, <1>5, <1>6, <1>8 DEF Underway, Apart, AdoptedFree
<1>12. ParentsFree(r)'
  <2>1. \A d : Free(fs, d) => Free(r, d)'
    BY <1>6, <1>8 DEF Free, Yields
  <2> QED
    BY <1>2, <1>4, <2>1 DEF Underway, ParentsFree
<1>13. StillIntact(r)'
  <2>1. job.new \subseteq Path \ {x}
    BY <1>2, <1>5, Places, ClaimAssumption DEF Job
  <2> QED
    BY <1>2, <1>4, <1>6, <1>7, <1>8, <1>9, <2>1 DEF Underway, StillIntact, Describes
<1>14. StillAccounted(r)'
  <2>1. ASSUME NEW y \in Path \ (Dir \cup {Tmp})
        PROVE  \/ r[y].kind = "absent"
               \/ \E p \in Package : y \in {Meta[p], Manifest[p]}
               \/ \E p \in Package \ {pkg} : y \in Claims(r, p)
               \/ y \in job'.old \cup job'.new
    <3>1. \/ fs[y].kind = "absent"
          \/ \E p \in Package : y \in {Meta[p], Manifest[p]}
          \/ \E p \in Package \ {pkg} : y \in Claims(fs, p)
          \/ y \in job.old \cup job.new
      BY <1>2, <1>5 DEF Underway, StillAccounted
    <3>2. CASE y # x
      BY <1>4, <1>6, <1>8, <3>1, <3>2
    <3>3. CASE y = x
      <4>1. fs[x].kind # "dir"
        BY <1>2, <2>1, <3>3 DEF Underway, Tree, Absent
      <4>2. Removable(x)
        BY <4>1 DEF Removable
      <4> QED
        BY <1>6, <3>3, <4>2 DEF Absent
    <3> QED
      BY <3>2, <3>3
  <2> QED
    BY <1>6, <2>1 DEF StillAccounted
<1>15. StagesInOrder(r)'
  BY <1>2, <1>4, <1>6, <1>7, <1>1 DEF Underway, StagesInOrder
<1> QED
  BY <1>4, <1>6, <1>10, <1>11, <1>12, <1>13, <1>14, <1>15 DEF Going, Underway

\* write_record: the manifest, while the old meta still stands (install.rs:9180).
LEMMA ManifestDone ==
  ASSUME IInv, IInv', JobInv, OwnershipInv, ~Committed(pkg), RecordManifest
  PROVE  Going'
<1>1. pc = "apply" /\ job.next = "drop" /\ job.old = {} /\ Intend("bytes", Manifest[pkg], job.new)
  BY DEF RecordManifest, At
<1>2. /\ After = fs /\ fs \in [Path -> Node] /\ snap \in [Path -> Node] /\ job \in Job
      /\ pkg \in Package /\ Framed(fs) /\ Checked /\ Underway(fs)
  BY <1>1, UnderwayFacts
<1>3. /\ job'.left = job.left /\ job'.adopted = job.adopted /\ job'.new = job.new
      /\ job'.next = "meta" /\ job'.all = job.all /\ job'.old = job.old
      /\ job'.ceded = job.ceded
  BY <1>2 DEF RecordManifest, Job
<1>4. job.new \in ClaimSets
  BY <1>2 DEF Job
<1>5. PICK r \in [Path -> Node] :
        /\ r = After' /\ Tree(r)
        /\ \A y \in Path \ {Manifest[pkg]} : r[y] = fs[y]
        /\ r[Manifest[pkg]].claims = job.new
        /\ UNCHANGED <<pkg, snap, txs>>
  BY <1>1, <1>2, <1>4, RecordWritten
<1>6. /\ \A p \in Package : r[Meta[p]] = fs[Meta[p]]
      /\ \A p \in Package \ {pkg} : r[Manifest[p]] = fs[Manifest[p]]
      /\ \A y \in Claimable : r[y] = fs[y]
  BY <1>2, <1>5, Places
<1>7. \A p \in Package \ {pkg} : /\ Claims(r, p) = Claims(fs, p)
                                 /\ Exclusive(r, p) = Exclusive(fs, p)
                                 /\ Claims(fs, p) \subseteq Claimable
  BY <1>2, <1>6, SameClaims, ClaimKinds
<1>8. ~job.adopted
  BY <1>1, <1>2 DEF Underway, AdoptedFree
<1>9. Framed(r)' /\ Checked'
  BY <1>2, <1>3, <1>5, <1>6 DEF Framed, Checked, Yields
<1>10. Apart(r)' /\ AdoptedFree(r)' /\ StagesInOrder(r)'
  BY <1>1, <1>2, <1>3, <1>5, <1>6, <1>7, <1>8 DEF Underway, Apart, AdoptedFree, StagesInOrder
<1>11. ParentsFree(r)'
  <2>1. \A d : Free(fs, d) => Free(r, d)'
    BY <1>5, <1>7 DEF Free, Yields
  <2> QED
    BY <1>2, <1>3, <2>1 DEF Underway, ParentsFree
<1>12. StillIntact(r)'
  BY <1>2, <1>3, <1>4, <1>5, <1>6, <1>7, ClaimAssumption DEF Underway, StillIntact, Describes
<1>13. StillAccounted(r)'
  BY <1>2, <1>3, <1>5, <1>7, <1>8 DEF Underway, StillAccounted
<1> QED
  BY <1>3, <1>5, <1>9, <1>10, <1>11, <1>12, <1>13 DEF Going, Underway

\* write_record: the meta, which makes the new record count (install.rs:9196).
LEMMA MetaDone ==
  ASSUME IInv, IInv', JobInv, OwnershipInv, ~Committed(pkg), RecordMeta
  PROVE  Going'
<1>1. pc = "apply" /\ job.next = "meta" /\ Intend("bytes", Meta[pkg], job.new \cup job.ceded)
  BY DEF RecordMeta, At
<1>2. /\ After = fs /\ fs \in [Path -> Node] /\ snap \in [Path -> Node] /\ job \in Job
      /\ pkg \in Package /\ Framed(fs) /\ Checked /\ Underway(fs) /\ Sound(snap)
  BY <1>1, UnderwayFacts
<1>3. /\ job'.left = job.left /\ job'.new = job.new /\ job'.next = "commit"
      /\ job'.all = job.all /\ job'.ceded = job.ceded
  BY <1>2 DEF RecordMeta, Job
<1>4. job.new \cup job.ceded \in ClaimSets /\ job.new \subseteq Claimable
  BY <1>2, ClaimSetFacts, ClaimAssumption DEF Job
<1>5. PICK r \in [Path -> Node] :
        /\ r = After' /\ Tree(r)
        /\ \A y \in Path \ {Meta[pkg]} : r[y] = fs[y]
        /\ r[Meta[pkg]].by = txs /\ r[Meta[pkg]].kind = "file"
        /\ UNCHANGED <<pkg, snap, txs>>
  BY <1>1, <1>2, <1>4, RecordWritten
<1>6. /\ \A p \in Package \ {pkg} : r[Meta[p]] = fs[Meta[p]]
      /\ \A p \in Package : r[Manifest[p]] = fs[Manifest[p]]
      /\ \A y \in Claimable : r[y] = fs[y]
  BY <1>2, <1>5, Places
<1>7. \A p \in Package \ {pkg} : /\ Claims(r, p) = Claims(fs, p)
                                 /\ Exclusive(r, p) = Exclusive(fs, p)
                                 /\ SharedClaims(r, p) = SharedClaims(fs, p)
                                 /\ Claims(fs, p) \subseteq Claimable
                                 /\ Claims(fs, p) \subseteq Claims(snap, p)
  BY <1>2, <1>6, SameClaims, ClaimKinds, FramedClaims
<1>8. Claims(r, pkg) = job.new
  <2>1. r[Manifest[pkg]].claims = job.new
    BY <1>1, <1>2, <1>6 DEF Underway, StagesInOrder
  <2>2. r[Meta[pkg]] # Absent
    BY <1>5 DEF Absent
  <2> QED
    BY <2>1, <2>2 DEF Claims
<1>9. ~job.adopted /\ job.old = {}
  BY <1>1, <1>2 DEF Underway, AdoptedFree, StagesInOrder
<1>10. Framed(r)' /\ Checked'
  BY <1>2, <1>3, <1>5, <1>6 DEF Framed, Checked, Yields
<1>11. Disjoint(r)
  <2>1. SUFFICES ASSUME NEW p \in Package, NEW q \in Package, p # q,
                        NEW c \in Claims(r, p), NEW d \in Claims(r, q)
                 PROVE  c # d /\ (d \in Above[c] => d \in SharedClaims(r, q))
    BY DEF Disjoint
  <2>2. CASE p = pkg
    <3>1. c \notin Claims(r, q) /\ Above[c] \cap Exclusive(r, q) = {}
      BY <1>2, <1>7, <1>8, <2>1, <2>2 DEF Underway, Apart
    <3> QED
      BY <2>1, <3>1, ClaimKinds
  <2>3. CASE q = pkg
    <3>1. /\ d \notin Claims(r, p)
          /\ d \in Above[c] => IsShared(d, Shared[pkg])
      BY <1>2, <1>7, <1>8, <2>1, <2>3 DEF Underway, Apart
    <3>2. c \in Path
      BY ClaimKinds, Places
    <3>3. d \in Above[c] => d \in Dir
      BY <3>2, Places
    <3> QED
      BY <2>1, <2>3, <3>1, <3>3 DEF SharedClaims
  <2>4. CASE p # pkg /\ q # pkg
    <3>1. c \in Claims(snap, p) /\ d \in Claims(snap, q)
      BY <1>7, <2>1, <2>4
    <3>2. c # d /\ (d \in Above[c] => d \in SharedClaims(snap, q))
      BY <1>2, <2>1, <3>1 DEF Sound, Disjoint
    <3> QED
      BY <2>1, <3>2 DEF SharedClaims
  <2> QED
    BY <2>2, <2>3, <2>4
<1>12. Intact(r)
  <2>1. ASSUME NEW q \in Package, NEW c \in Claims(r, q)
        PROVE  Describes(r, q, c)
    <3>1. CASE q # pkg
      <4>1. Describes(fs, q, c) /\ c \in Claimable
        BY <1>2, <1>7, <2>1, <3>1 DEF Underway, StillIntact
      <4> QED
        BY <1>6, <3>1, <4>1 DEF Describes
    <3>2. CASE q = pkg
      <4>1. IF c \in Dir THEN fs[c].kind = "dir" ELSE fs[c].kind = "file" /\ fs[c].by = txs
        BY <1>2, <1>8, <2>1, <3>2 DEF Underway, StillIntact
      <4>2. c \in Claimable
        BY <1>4, <1>8, <2>1, <3>2
      <4> QED
        BY <1>5, <1>6, <3>2, <4>1, <4>2 DEF Describes
    <3> QED
      BY <3>1, <3>2
  <2> QED
    BY <2>1 DEF Intact
<1>13. Accounted(r)
  <2>1. ASSUME NEW x \in Path \ (Dir \cup {Tmp}), x # Meta[pkg]
        PROVE  \/ r[x].kind = "absent"
               \/ \E q \in Package : x \in {Meta[q], Manifest[q]} \cup Claims(r, q)
    <3>1. \/ fs[x].kind = "absent"
          \/ \E q \in Package : x \in {Meta[q], Manifest[q]}
          \/ \E q \in Package \ {pkg} : x \in Claims(fs, q)
          \/ x \in job.new
      BY <1>2, <1>9 DEF Underway, StillAccounted
    <3> QED
      BY <1>2, <1>5, <1>7, <1>8, <2>1, <3>1
  <2> QED
    BY <1>2, <2>1 DEF Accounted
<1> QED
  BY <1>3, <1>5, <1>8, <1>10, <1>11, <1>12, <1>13 DEF Going, Sound

-----------------------------------------------------------------------------
\* What the preflight tells of one entry (install.rs:6308-6480).
LEMMA PreflightFacts ==
  ASSUME fs \in [Path -> Node], NEW p \in Package, NEW stage \in SUBSET Claimable,
         NEW ceded, Preflight(p, stage, ceded), NEW x \in stage \ ceded
  PROVE  /\ \A q \in Package \ {p} :
              /\ Exclusive(fs, q) \cap AtOrAbove(x) # {} =>
                   q \in Supersedes[p] \cap Provisional
              /\ x \in SharedClaims(fs, q) => q \in Deps[p] /\ ~IsShared(x, Shared[p])
         /\ \A pr \in Nearest(SharedOver(fs, p, x)) : pr[1] \in Deps[p]
<1>1. x \in Path /\ Above[x] \subseteq Dir /\ Above[x] \subseteq Path
  BY Places
<1>2. \A q \in Package \ {p} : Claims(fs, q) # {} => q \in Others(p)
  BY DEF Others, Installed, Claims
<1>3. /\ \A q \in Others(p) \ Ceding(p) : Exclusive(fs, q) \cap Dir \cap AtOrAbove(x) = {}
      /\ SharedAllows(p, stage, x)
      /\ x \notin Dir => LeafAllows(p, x)
  BY DEF Preflight
<1>4. ASSUME NEW q \in Package \ {p}, NEW d \in Exclusive(fs, q), d \in AtOrAbove(x)
      PROVE  q \in Ceding(p)
  <2>1. q \in Others(p)
    BY <1>2, <1>4, ClaimKinds
  <2>2. CASE d \in Dir
    BY <1>3, <1>4, <2>1, <2>2
  <2>3. CASE d \notin Dir
    <3>1. d = x /\ LeafAllows(p, x)
      BY <1>1, <1>3, <1>4, <2>3 DEF AtOrAbove
    <3>2. q \in {o \in Others(p) : x \in Exclusive(fs, o)}
      BY <1>4, <2>1, <3>1
    <3> QED
      BY <3>1, <3>2 DEF LeafAllows
  <2> QED
    BY <2>2, <2>3
<1>5. Covering(SharedOf(Others(p)), x) = SharedOver(fs, p, x)
  <2>1. ASSUME NEW q, NEW d
        PROVE  <<q, d>> \in Covering(SharedOf(Others(p)), x)
                 <=> <<q, d>> \in SharedOver(fs, p, x)
    <3>1. AtOrAbove(x) \subseteq Path
      BY <1>1 DEF AtOrAbove
    <3>2. q \in Package \ {p} /\ d \in SharedClaims(fs, q) => q \in Others(p)
      BY <1>2, ClaimKinds
    <3>3. Others(p) \subseteq Package \ {p}
      BY DEF Others
    <3> QED
      BY <3>1, <3>2, <3>3 DEF Covering, SharedOf, SharedOver
  <2>2. /\ \A pr \in Covering(SharedOf(Others(p)), x) : \E q, d : pr = <<q, d>>
        /\ \A pr \in SharedOver(fs, p, x) : \E q, d : pr = <<q, d>>
    BY DEF Covering, SharedOf, SharedOver
  <2> QED
    BY <2>1, <2>2
<1>6. \A pr \in Nearest(SharedOver(fs, p, x)) :
        /\ pr[1] \in Deps[p]
        /\ ~(pr[2] = x /\ IsShared(x, Shared[p]))
  BY <1>3, <1>5 DEF SharedAllows
<1>7. ASSUME NEW q \in Package \ {p}, x \in SharedClaims(fs, q)
      PROVE  q \in Deps[p] /\ ~IsShared(x, Shared[p])
  <2>1. <<q, x>> \in SharedOver(fs, p, x)
    BY <1>7 DEF SharedOver, AtOrAbove
  <2>2. \A o \in SharedOver(fs, p, x) : Rank[o[2]] <= Rank[x]
    <3>1. ASSUME NEW o \in SharedOver(fs, p, x)
          PROVE  Rank[o[2]] <= Rank[x]
      <4>1. o[2] = x \/ o[2] \in Above[x]
        BY <3>1 DEF SharedOver, AtOrAbove
      <4>2. o[2] \in Path
        BY <1>1, <4>1
      <4> QED
        BY <1>1, <4>1, <4>2, Places
    <3> QED
      BY <3>1
  <2>3. <<q, x>> \in Nearest(SharedOver(fs, p, x))
    BY <2>1, <2>2 DEF Nearest
  <2> QED
    BY <1>6, <2>3
<1> QED
  BY <1>4, <1>6, <1>7 DEF Ceding

\* A directory a provisional ceded is not another cedent's: it would have ceded
\* to the one that cedes to it.
LEMMA CededAreFree ==
  ASSUME NoMutualSuccession, fs \in [Path -> Node], Disjoint(fs),
         NEW p \in Package, NEW d \in CededBy(fs, p) \ Unproved(fs, p),
         NEW q \in Package \ {p}, q \in Supersedes[p] \cap Provisional
  PROVE  d \notin Exclusive(fs, q)
<1>1. p \in Provisional
  BY DEF CededBy
<1>2. PICK s \in Package \ {p} :
        /\ Authorizes(s, p)
        /\ \E c \in Claims(fs, s) : c = d \/ (d \in Dir /\ d \in Above[c])
  BY DEF Unproved
<1>3. SUFFICES ASSUME d \in Exclusive(fs, q)
               PROVE  FALSE
  OBVIOUS
<1>4. d \in Claims(fs, q) /\ d \notin SharedClaims(fs, q)
  BY <1>3 DEF Exclusive
<1>5. s = q
  BY <1>2, <1>4 DEF Disjoint
<1>6. p \in Supersedes[q]
  BY <1>2, <1>5 DEF Authorizes
<1> QED
  BY <1>1, <1>6 DEF NoMutualSuccession

\* The preflight passed, over a sound root (install.rs:6308).
LEMMA BeginDone ==
  ASSUME NoMutualSuccession, IInv, JobInv, OwnershipInv,
         NEW p \in Package, NEW stage \in Stages[p], InstallBegin(p, stage)
  PROVE  Going'
<1> DEFINE all   == {stage[i] : i \in DOMAIN stage}
           ceded == CededBy(fs, p) \ Unproved(fs, p)
<1>1. /\ Begin(p) /\ Preflight(p, all, ceded)
      /\ job' = [NoJob EXCEPT !.left = stage, !.all = all, !.ceded = ceded,
                              !.old = Claims(fs, p), !.next = "stage"]
  BY DEF InstallBegin
<1>2. fs' = fs /\ snap' = fs /\ pkg' = p /\ pc' = "apply" /\ txs' = txs + 1 /\ Pending = {}
  BY <1>1 DEF Begin
<1>3. fs \in [Path -> Node] /\ Sound(fs)
  BY <1>2 DEF IInv, TypeOK, OwnershipInv, Rest
<1>4. After' = fs
  BY <1>2 DEF After
<1>5. stage \in Seq(Claimable) /\ all \subseteq Claimable
  <2>1. stage \in Seq(Claimable)
    BY ClaimAssumption
  <2> QED
    BY <2>1
<1> HIDE DEF all, ceded
<1>6. /\ job'.left = stage /\ job'.all = all /\ job'.ceded = ceded /\ job'.adopted = FALSE
      /\ job'.new = {} /\ job'.old = Claims(fs, p) /\ job'.next = "stage"
  BY <1>1 DEF NoJob
<1>7. Framed(fs)'
  BY <1>2 DEF Framed
<1>8. Checked'
  <2>1. \A i \in DOMAIN stage : stage[i] \in all
    BY DEF all
  <2>2. ASSUME NEW x \in all \ ceded
        PROVE  /\ \A q \in Package \ {p} :
                    /\ Exclusive(fs, q) \cap AtOrAbove(x) # {} =>
                         q # p /\ q \in Supersedes[p] \cap Provisional
                    /\ x \in SharedClaims(fs, q) => q \in Deps[p] /\ ~IsShared(x, Shared[p])
               /\ \A pr \in Nearest(SharedOver(fs, p, x)) : pr[1] \in Deps[p]
    BY <1>1, <1>3, <1>5, PreflightFacts
  <2> QED
    BY <1>2, <1>6, <2>1, <2>2 DEF Checked, Yields
<1>9. ParentsFree(fs)'
  <2>1. \A d \in ceded : Free(fs, d)'
    BY <1>2, <1>3, CededAreFree DEF Free, Yields, ceded, Sound
  <2> QED
    BY <1>6, <2>1, StageAssumption DEF ParentsFree
<1>10. Apart(fs)' /\ AdoptedFree(fs)' /\ Tree(fs)'
  BY <1>2, <1>3, <1>6 DEF Apart, AdoptedFree, Sound
<1>11. StillIntact(fs)'
  BY <1>2, <1>3, <1>6 DEF StillIntact, Sound, Intact
<1>12. StillAccounted(fs)'
  BY <1>2, <1>3, <1>6 DEF StillAccounted, Sound, Accounted
<1>13. StagesInOrder(fs)'
  BY <1>2, <1>6 DEF StagesInOrder
<1> QED
  BY <1>2, <1>4, <1>6, <1>7, <1>8, <1>9, <1>10, <1>11, <1>12, <1>13 DEF Going, Underway

-----------------------------------------------------------------------------
\* The first root is sound and no installation is underway.
LEMMA InitOwnership == WInit => OwnershipInv
<1> SUFFICES ASSUME WInit PROVE OwnershipInv
  OBVIOUS
<1>1. Pending = {} /\ fs \in Roots /\ pc = "idle"
  BY DEF WInit, Init, Pending, Live, NoJournal
<1> QED
  BY <1>1, SoundRoots DEF OwnershipInv, Rest, DropsMove, Forward

\* No primitive drops and writes.
LEMMA DropsMoveKept ==
  ASSUME IInv, IInv', DropsMove, [Next]_vars
  PROVE  DropsMove'
<1>1. CASE Primitive
  BY <1>1, PrimitiveAhead
<1>2. CASE \E k \in OpKinds, x \in Path, c \in ClaimSets : Intend(k, x, c)
  BY <1>2, IntendAhead
<1>3. CASE \E p \in Package : Begin(p)
  BY <1>3 DEF Begin, DropsMove
<1>4. CASE Start \/ Sweep \/ Finish \/ Commit \/ Fail \/ Replay \/ Crash
  BY <1>4 DEF Start, Sweep, SweepClean, SweepAmbiguous, SweepCommitted, SweepSuperseded,
     SweepRollback, Finish, Commit, Fail, Crash, Refuse, Exit, DropsMove,
     Replay, AtEntry, UndoNew, ClearForRestore, UndoBlocked, Restore, RestoreByCopy,
     UnlinkBackup, SkipRestored, UndoUnsafe, RetireRolledBack
<1>5. CASE UNCHANGED vars
  BY <1>5 DEF vars, DropsMove
<1> QED
  BY <1>1, <1>2, <1>3, <1>4, <1>5 DEF Next

\* An installation goes on to a sound root, or ends.
LEMMA GoingKept ==
  ASSUME NoMutualSuccession, IInv, IInv', JobInv, OwnershipInv, WNext,
         pc' \in Forward, ~Committed(pkg)'
  PROVE  Going'
<1>1. CASE \E p \in Package : \E stage \in Stages[p] : InstallBegin(p, stage)
  BY <1>1, BeginDone
<1>2. CASE \/ SkipCeded \/ (\E q \in Package : Cede(q)) \/ PlaceLeaf \/ MakeDir \/ KeepDir
           \/ StageDone \/ (\E x \in Path : DropOld(x)) \/ RecordManifest \/ RecordMeta
  <2>1. ~Committed(pkg)
    BY <1>2 DEF SkipCeded, Cede, PlaceLeaf, MakeDir, KeepDir, StageDone, DropOld,
       RecordManifest, RecordMeta, Intend, CallerContract, vars, Committed
  <2> QED
    BY <1>2, <2>1, SkipDone, CedeDone, EntryDone, StageDoneStep, DropDone, ManifestDone, MetaDone
<1>3. CASE WorldAdd \/ (\E explicit \in BOOLEAN : InstallCommit(explicit)) \/ Abandon
  BY <1>3 DEF WorldAdd, InstallCommit, Commit, Abandon, Fail, Crash, Exit, Forward, vars
<1>4. CASE Underneath
  <2>1. CASE Primitive
    <3>1. /\ After' = After /\ pc \in Forward /\ UNCHANGED <<pkg, snap, txs>>
      BY <2>1, PrimitiveAhead DEF OwnershipInv
    <3>2. ~Committed(pkg)
      BY <2>1, <3>1, ForwardFacts DEF Primitive, MoveAside, CopyAside, UnlinkOriginal,
         Create, Fill, WriteTmp, IntendSwap, Swap
    <3>3. Going /\ job' = job
      BY <1>4, <3>1, <3>2 DEF OwnershipInv, Underneath
    <3> QED
      BY <3>1, <3>3 DEF Going, Framed, Checked, Yields, Underway, Apart, ParentsFree, Free,
         AdoptedFree, Entry1, StillIntact, StillAccounted, StagesInOrder
  <2>2. CASE Start \/ Sweep \/ Replay \/ Finish
    BY <2>2 DEF Start, Sweep, SweepClean, SweepAmbiguous, SweepCommitted, SweepSuperseded,
       SweepRollback, Finish, Refuse, Exit, Forward,
       Replay, AtEntry, UndoNew, ClearForRestore, UndoBlocked, Restore, RestoreByCopy,
       UnlinkBackup, SkipRestored, UndoUnsafe, RetireRolledBack
  <2> QED
    BY <1>4, <2>1, <2>2 DEF Underneath
<1> QED
  BY <1>1, <1>2, <1>3, <1>4 DEF WNext

\* Where what is seen changes, an installation is complete, with its meta.
LEMMA SeenSteps ==
  ASSUME IInv, IInv', JobInv, OwnershipInv, [WNext]_wvars, Rest' # Rest
  PROVE  /\ Rest = snap /\ Rest' = After /\ pkg \in Package
         /\ Framed(After) /\ Checked /\ Sound(After) /\ Claims(After, pkg) = job.new
<1>1. [Next]_vars
  BY StepKeepsContract DEF IInv
<1>2. Next
  BY <1>1 DEF vars, Rest, Pending, Live, Committed
<1>3. /\ Swap /\ op.path = Meta[pkg] /\ ~Committed(pkg)
      /\ Rest = snap /\ Rest' \in {snap, After'}
  BY <1>2, RestSteps
<1>4. pc = "swapping" /\ pc \in Forward /\ Primitive
  BY <1>3 DEF Swap, Forward, Primitive
<1>5. After' = After /\ Rest' = After
  BY <1>3, <1>4, PrimitiveAhead DEF OwnershipInv
<1>6. Going
  BY <1>3, <1>4 DEF OwnershipInv
<1>7. job.next = "commit"
  <2>1. /\ fs \in [Path -> Node] /\ pkg \in Package /\ Live(pkg) /\ op.node.by = txs
        /\ op.kind = "bytes" /\ Meta[pkg] \in Path /\ Meta[pkg] # Tmp
    BY <1>3, <1>4, ForwardFacts, Places DEF TypeOK
  <2>2. After[Meta[pkg]].by = txs
    BY <1>3, <1>4, <2>1 DEF After
  <2>3. snap[Meta[pkg]].by < txs
    BY <2>1 DEF IInv, Inductive, TxInv, Pending
  <2>4. txs \in Nat
    BY <1>4, ForwardFacts
  <2>5. After[Meta[pkg]] # snap[Meta[pkg]]
    BY <2>2, <2>3, <2>4
  <2> QED
    BY <1>6, <2>5 DEF Going, Underway, StagesInOrder
<1>8. pkg \in Package
  BY <1>4, ForwardFacts
<1> QED
  BY <1>3, <1>5, <1>6, <1>7, <1>8 DEF Going

\* Every step keeps the invariant.
LEMMA OwnershipKept ==
  ASSUME NoMutualSuccession, IInv, IInv', JobInv, OwnershipInv, [WNext]_wvars
  PROVE  OwnershipInv'
<1>1. DropsMove'
  <2>1. [Next]_vars
    BY StepKeepsContract DEF IInv
  <2> QED
    BY <2>1, DropsMoveKept DEF OwnershipInv
<1>2. Sound(Rest')
  BY SeenSteps DEF OwnershipInv
<1>3. CASE WNext
  BY <1>1, <1>2, <1>3, GoingKept DEF OwnershipInv
<1>4. CASE UNCHANGED wvars
  <2>1. After' = After /\ pc' = pc /\ (Committed(pkg)' <=> Committed(pkg))
        /\ UNCHANGED <<pkg, snap, txs, job>>
    BY <1>4 DEF wvars, vars, After, Committed
  <2>2. Going => Going'
    BY <2>1 DEF Going, Framed, Checked, Yields, Underway, Apart, ParentsFree, Free,
         AdoptedFree, Entry1, StillIntact, StillAccounted, StagesInOrder
  <2> QED
    BY <1>1, <1>2, <2>1, <2>2 DEF OwnershipInv
<1> QED
  BY <1>3, <1>4

\* What is seen after a step, likewise.
LEMMA NextViewIsRest == IInv' => View' = Rest'
<1>1. (IInv => View = Rest)'
  BY ViewIsRest, PTL
<1> QED
  BY <1>1

\* Ownership holds at every step of an installation and between them.
LEMMA OwnershipInvariant ==
  NoMutualSuccession => (WSpec => [](IInv /\ JobInv /\ OwnershipInv))
<1> SUFFICES ASSUME NoMutualSuccession PROVE WSpec => [](IInv /\ JobInv /\ OwnershipInv)
  OBVIOUS
<1>1. WInit => IInv /\ JobInv /\ OwnershipInv
  BY InitBoth, InitOwnership
<1>2. (IInv /\ JobInv /\ OwnershipInv) /\ [WNext]_wvars => (IInv /\ JobInv /\ OwnershipInv)'
  BY NextBoth, OwnershipKept
<1> QED
  BY <1>1, <1>2, PTL DEF WSpec

\* Whatever is installed in whatever order, with cessions, upgrades, rollbacks
\* and deaths: as anyone who waits for recovery sees it, no path has two owners
\* or lies inside another package's exclusive directory, every claim describes
\* the root and every file has an owner (install.rs:6308-6480, 6640-6870).
THEOREM OwnershipIsKept == NoMutualSuccession => (WSpec => []OwnershipHolds)
<1> SUFFICES ASSUME NoMutualSuccession PROVE WSpec => []OwnershipHolds
  OBVIOUS
<1>1. IInv /\ OwnershipInv => OwnershipHolds
  <2> SUFFICES ASSUME IInv, OwnershipInv PROVE OwnershipHolds
    OBVIOUS
  <2>1. View = Rest
    BY ViewIsRest
  <2> QED
    BY <2>1 DEF OwnershipInv, Sound, OwnershipHolds, NoDoublethink, ClaimsIntact, NoOrphanFile
<1> QED
  BY <1>1, OwnershipInvariant, PTL

\* A transaction adds to a shared directory only what its preflight allowed: a
\* package that depends on the owner of the deepest one (install.rs:6357).
THEOREM OnlyDependentsDeposit == NoMutualSuccession => (WSpec => DepositsAreDeclared)
<1> SUFFICES ASSUME NoMutualSuccession PROVE WSpec => DepositsAreDeclared
  OBVIOUS
<1>1. ASSUME IInv, IInv', JobInv, OwnershipInv, [WNext]_wvars,
             NEW p \in Package, NEW c \in Claims(View', p) \ Claims(View, p),
             NEW pr \in Nearest(SharedOver(View, p, c))
      PROVE  pr[1] \in Deps[p]
  <2>1. View = Rest /\ View' = Rest'
    BY <1>1, ViewIsRest, NextViewIsRest
  <2>2. /\ View = snap /\ View' = After /\ Framed(After) /\ Checked
        /\ Claims(After, pkg) = job.new
    BY <1>1, <2>1, SeenSteps
  <2>3. p = pkg
    BY <1>1, <2>2, FramedClaims
  <2>4. c \in job.all \ job.ceded
    BY <1>1, <2>2, <2>3 DEF Checked
  <2> QED
    BY <1>1, <2>2, <2>3, <2>4 DEF Checked
<1>2. (IInv /\ JobInv /\ OwnershipInv) /\ (IInv /\ JobInv /\ OwnershipInv)' /\ [WNext]_wvars
        => [\A p \in Package : \A c \in Claims(View', p) \ Claims(View, p) :
              \A pr \in Nearest(SharedOver(View, p, c)) : pr[1] \in Deps[p]]_wvars
  BY <1>1
<1> QED
  BY <1>2, OwnershipInvariant, PTL DEF WSpec, DepositsAreDeclared

-----------------------------------------------------------------------------
(***************************************************************************)
(* The whole effect of an installation: what InstallsAtomically promises   *)
(***************************************************************************)

RecordFiles == {Meta[q] : q \in Package} \cup {Manifest[q] : q \in Package}

\* The others' records lose what the present package takes, and nothing else.
OnlyCessions(root) ==
  \A q \in Package \ {pkg} :
    /\ root[Manifest[q]] # snap[Manifest[q]] => Yields(q) /\ Installed(snap, q)
    /\ \A x \in snap[Manifest[q]].claims \ root[Manifest[q]].claims :
         x \in job.new \cup Dir \/ (job.adopted /\ x = Entry1)

\* A path of the root is as it was, a new leaf, a directory that was missing, or
\* what the old manifest alone listed and is gone.
OnlyPayload(root) ==
  \A x \in Path \ RecordFiles :
    \/ root[x] = snap[x]
    \/ x \in job.new \ Dir
    \/ x \in Dir /\ snap[x] = Absent /\ root[x].kind = "dir"
    \/ /\ job.next # "stage" /\ x \in Claims(snap, pkg) \ job.new
       /\ root[x] = Absent

\* The baseline is what the package claims and what it has ceded.
BaselineKept(root) ==
  /\ job.ceded = CededBy(snap, pkg) \ Unproved(snap, pkg)
  /\ job.next = "commit" =>
       /\ ~job.adopted
       /\ root[Meta[pkg]].kind = "file" /\ root[Meta[pkg]].by = txs
       /\ root[Meta[pkg]].claims = job.new \cup job.ceded

Effects(root) == OnlyCessions(root) /\ OnlyPayload(root) /\ BaselineKept(root)

EffectsInv == pc \in Forward /\ ~Committed(pkg) => Effects(After)

\* A path of the payload is no record.
LEMMA PayloadApart == Claimable \cap RecordFiles = {}
BY Places DEF RecordFiles

\* ... at the first step, where nothing has been done yet.
LEMMA BeginEffects ==
  ASSUME NEW p \in Package, NEW stage \in Stages[p], InstallBegin(p, stage)
  PROVE  Effects(After)'
<1>1. /\ fs' = fs /\ snap' = fs /\ pkg' = p /\ pc' = "apply"
  BY DEF InstallBegin, Begin
<1>2. After' = fs
  BY <1>1 DEF After
<1>3. job'.ceded = CededBy(fs, p) \ Unproved(fs, p) /\ job'.next = "stage"
  BY DEF InstallBegin, NoJob
<1> QED
  BY <1>1, <1>2, <1>3 DEF Effects, OnlyCessions, OnlyPayload, BaselineKept

\* ... of an entry: the leaf is a new one, the directory was missing, and what a
\* provisional lost is claimed by its successor or is a directory.
LEMMA EntryEffects ==
  ASSUME IInv, IInv', JobInv, OwnershipInv, Effects(fs), ~Committed(pkg),
         PlaceLeaf \/ MakeDir \/ KeepDir
  PROVE  Effects(After)'
<1>1. /\ pc = "apply" /\ job.next = "stage" /\ job.left # << >>
  BY DEF PlaceLeaf, MakeDir, KeepDir, Settled, AtStage, At
<1>2. /\ After = fs /\ fs \in [Path -> Node] /\ pkg \in Package /\ txs \in Nat /\ job \in Job
      /\ journal[pkg].txid = txs
  BY <1>1, UnderwayFacts
<1>3. Entry1 \in Claimable /\ Entry1 \in Path
  BY EntryFacts, Places DEF PlaceLeaf, MakeDir, KeepDir
<1>4. Entry1 \in Path \ RecordFiles
  BY <1>3, PayloadApart
<1>5. PICK claimed \in BOOLEAN : Advance(claimed) /\ (Entry1 \notin Dir => claimed)
  BY DEF PlaceLeaf, MakeDir, KeepDir, Declared, Childless, Reused
<1>6. /\ job'.adopted = FALSE /\ job'.next = "stage" /\ job'.ceded = job.ceded
      /\ job'.new = IF claimed THEN job.new \cup {Entry1} ELSE job.new
  BY <1>1, <1>2, <1>5, AdvanceFacts
<1>7. PICK r \in [Path -> Node] :
        /\ r = After'
        /\ \A y \in Path \ {Entry1} : r[y] = fs[y]
        /\ \/ Entry1 \notin Dir
           \/ r[Entry1] = fs[Entry1]
           \/ Entry1 \in Dir /\ fs[Entry1] = Absent /\ r[Entry1].kind = "dir"
        /\ UNCHANGED <<pkg, snap, txs>>
  <2>1. ASSUME NEW k \in {"place", "mkdir"}
        PROVE  /\ NewNode(k, {}) \in Node
               /\ NewNode("mkdir", {}).kind = "dir"
    BY <1>2, ClaimSetFacts DEF NewNode, Node
  <2>2. CASE PlaceLeaf
    <3>1. Intend("place", Entry1, {}) /\ Entry1 \notin Dir
      BY <2>2 DEF PlaceLeaf
    <3>2. /\ After' = [fs EXCEPT ![Entry1] = NewNode("place", {})]
          /\ UNCHANGED <<pkg, snap, txs>>
      BY <1>3, <3>1, IntendAhead, ClaimSetFacts DEF OpKinds
    <3> QED
      BY <1>2, <1>3, <2>1, <3>1, <3>2
  <2>3. CASE MakeDir
    <3>1. Intend("mkdir", Entry1, {}) /\ Entry1 \in Dir /\ fs[Entry1] = Absent
      BY <2>3 DEF MakeDir
    <3>2. /\ After' = [fs EXCEPT ![Entry1] = NewNode("mkdir", {})]
          /\ UNCHANGED <<pkg, snap, txs>>
      BY <1>3, <3>1, IntendAhead, ClaimSetFacts DEF OpKinds
    <3> QED
      BY <1>2, <1>3, <2>1, <3>1, <3>2
  <2>4. CASE KeepDir
    <3>1. UNCHANGED vars
      BY <2>4 DEF KeepDir
    <3>2. After' = fs /\ UNCHANGED <<pkg, snap, txs>>
      BY <1>2, <3>1 DEF vars, After
    <3> QED
      BY <1>2, <3>2
  <2> QED
    BY <2>2, <2>3, <2>4
<1>8. \A q \in Package : r[Manifest[q]] = fs[Manifest[q]]
  BY <1>4, <1>7, Places DEF RecordFiles
<1>9. OnlyCessions(r)'
  <2>1. ASSUME NEW q \in Package \ {pkg}
        PROVE  /\ r[Manifest[q]] # snap[Manifest[q]] => Yields(q) /\ Installed(snap, q)
               /\ \A x \in snap[Manifest[q]].claims \ r[Manifest[q]].claims :
                    x \in job'.new \cup Dir
    BY <1>5, <1>6, <1>8 DEF Effects, OnlyCessions
  <2> QED
    BY <1>7, <2>1 DEF OnlyCessions, Yields
<1>10. OnlyPayload(r)'
  <2>1. ASSUME NEW x \in Path \ RecordFiles
        PROVE  \/ r[x] = snap[x]
               \/ x \in job'.new \ Dir
               \/ x \in Dir /\ snap[x] = Absent /\ r[x].kind = "dir"
    <3>1. \/ fs[x] = snap[x]
          \/ x \in job.new \ Dir
          \/ x \in Dir /\ snap[x] = Absent /\ fs[x].kind = "dir"
      BY <1>1 DEF Effects, OnlyPayload
    <3>2. Absent.kind # "dir"
      BY DEF Absent
    <3> QED
      BY <1>5, <1>6, <1>7, <2>1, <3>1, <3>2
  <2> QED
    BY <1>6, <1>7, <2>1 DEF OnlyPayload
<1>11. BaselineKept(r)'
  BY <1>1, <1>6, <1>7 DEF Effects, BaselineKept
<1> QED
  BY <1>7, <1>9, <1>10, <1>11 DEF Effects

\* ... of the other steps of an installation.
LEMMA OtherEffects ==
  ASSUME IInv, IInv', JobInv, OwnershipInv, Effects(fs), ~Committed(pkg),
         SkipCeded \/ StageDone
  PROVE  Effects(After)'
<1>1. pc = "apply" /\ job.next = "stage" /\ UNCHANGED vars
  BY DEF SkipCeded, StageDone, AtStage, At
<1>2. After = fs /\ Underway(fs) /\ job \in Job
  BY <1>1, UnderwayFacts
<1>3. ~job.adopted
  BY <1>2 DEF Underway, AdoptedFree, SkipCeded, StageDone
<1>4. /\ job'.adopted = FALSE /\ job'.new = job.new /\ job'.ceded = job.ceded
      /\ job'.next # "commit"
  BY <1>1, <1>2, <1>3 DEF SkipCeded, StageDone, Job
<1>5. After' = fs
  BY <1>1, <1>2 DEF After, vars
<1> QED
  BY <1>1, <1>3, <1>4, <1>5
  DEF Effects, OnlyCessions, OnlyPayload, BaselineKept, Yields, vars

\* ... of a cession: one record of a provisional the recipe supersedes.
LEMMA CedeEffects ==
  ASSUME IInv, IInv', JobInv, OwnershipInv, Effects(fs), ~Committed(pkg),
         NEW q \in Package, Cede(q)
  PROVE  Effects(After)'
<1> DEFINE left == fs[Manifest[q]].claims \ {Entry1}
<1>1. /\ pc = "apply" /\ job.next = "stage" /\ Entry1 \notin job.ceded /\ ~job.adopted
      /\ q \in Cedents /\ Intend("bytes", Manifest[q], left)
  BY DEF Cede, AtStage, At
<1>2. /\ After = fs /\ fs \in [Path -> Node] /\ job \in Job /\ pkg \in Package /\ Framed(fs)
  BY <1>1, UnderwayFacts
<1>3. /\ job'.left = job.left /\ job'.adopted = TRUE /\ job'.new = job.new
      /\ job'.next = "stage" /\ job'.ceded = job.ceded /\ Entry1' = Entry1
  BY <1>1, <1>2 DEF Cede, Job, Entry1
<1>4. q # pkg /\ Yields(q) /\ Installed(fs, q)
  BY <1>1 DEF Cedents, Ceding, Yields
<1>5. left \in ClaimSets
  BY ClaimsTyped, ClaimSetFacts DEF IInv
<1>6. PICK r \in [Path -> Node] :
        /\ r = After'
        /\ \A y \in Path \ {Manifest[q]} : r[y] = fs[y]
        /\ r[Manifest[q]].claims = left
        /\ UNCHANGED <<pkg, snap, txs>>
  BY <1>1, <1>5, RecordWritten
<1>7. \A p \in Package : p # q => r[Manifest[p]] = fs[Manifest[p]]
  BY <1>6, Places
<1>8. OnlyCessions(r)'
  <2>1. ASSUME NEW p \in Package \ {pkg}, r[Manifest[p]] # snap[Manifest[p]]
        PROVE  Yields(p) /\ Installed(snap, p)
    <3>1. CASE p # q
      BY <1>7, <2>1, <3>1 DEF Effects, OnlyCessions
    <3>2. CASE p = q
      BY <1>2, <1>4, <3>2, FramedClaims
    <3> QED
      BY <3>1, <3>2
  <2>2. ASSUME NEW p \in Package \ {pkg},
               NEW x \in snap[Manifest[p]].claims \ r[Manifest[p]].claims
        PROVE  x \in job.new \cup Dir \/ x = Entry1
    <3>1. CASE p # q
      BY <1>1, <1>7, <2>2, <3>1 DEF Effects, OnlyCessions
    <3>2. CASE p = q
      BY <1>1, <1>6, <2>2, <3>2 DEF Effects, OnlyCessions
    <3> QED
      BY <3>1, <3>2
  <2> QED
    BY <1>3, <1>6, <2>1, <2>2 DEF OnlyCessions, Yields
<1>9. OnlyPayload(r)'
  <2>1. \A x \in Path \ RecordFiles : r[x] = fs[x]
    BY <1>6 DEF RecordFiles
  <2> QED
    BY <1>1, <1>3, <1>6, <2>1 DEF Effects, OnlyPayload
<1>10. BaselineKept(r)'
  BY <1>1, <1>3, <1>6 DEF Effects, BaselineKept
<1> QED
  BY <1>6, <1>8, <1>9, <1>10 DEF Effects

\* ... of a removal: something the old record of the package listed.
LEMMA DropEffects ==
  ASSUME IInv, IInv', JobInv, OwnershipInv, Effects(fs), ~Committed(pkg),
         NEW x \in Path, DropOld(x)
  PROVE  Effects(After)'
<1>1. /\ pc = "apply" /\ job.next = "drop" /\ x \in job.old
      /\ UNCHANGED vars \/ Intend("drop", x, {})
  BY DEF DropOld, At
<1>2. /\ After = fs /\ fs \in [Path -> Node] /\ snap \in [Path -> Node] /\ job \in Job
      /\ pkg \in Package /\ Underway(fs)
  BY <1>1, UnderwayFacts
<1>3. /\ job'.left = job.left /\ job'.adopted = job.adopted /\ job'.new = job.new
      /\ job'.next = "drop" /\ job'.ceded = job.ceded
  BY <1>1, <1>2 DEF DropOld, Job
<1>4. x \in Claims(snap, pkg) \ job.new /\ x \in Claimable /\ ~job.adopted
  <2>1. x \in Claims(snap, pkg) /\ x \notin job.new /\ ~job.adopted
    BY <1>1, <1>2 DEF Underway, StagesInOrder, AdoptedFree
  <2> QED
    BY <1>2, <2>1, ClaimKinds
<1>5. PICK r \in [Path -> Node] :
        /\ r = After'
        /\ \A y \in Path \ {x} : r[y] = fs[y]
        /\ r[x] = fs[x] \/ r[x] = Absent
        /\ UNCHANGED <<pkg, snap, txs>>
  <2>1. CASE UNCHANGED vars
    <3>1. After' = fs /\ UNCHANGED <<pkg, snap, txs>>
      BY <1>2, <2>1 DEF After, vars
    <3> QED
      BY <1>2, <3>1
  <2>2. CASE Intend("drop", x, {})
    <3>1. After' = [fs EXCEPT ![x] = Absent] /\ UNCHANGED <<pkg, snap, txs>>
      BY <2>2, IntendAhead, ClaimSetFacts DEF OpKinds
    <3>2. Absent \in Node
      BY NodeFacts
    <3> QED
      BY <1>2, <3>1, <3>2
  <2> QED
    BY <1>1, <2>1, <2>2
<1>6. \A q \in Package : r[Manifest[q]] = fs[Manifest[q]]
  BY <1>4, <1>5, Places
<1>7. OnlyCessions(r)'
  BY <1>3, <1>4, <1>5, <1>6 DEF Effects, OnlyCessions, Yields
<1>8. OnlyPayload(r)'
  <2>1. ASSUME NEW y \in Path \ RecordFiles
        PROVE  \/ r[y] = snap[y]
               \/ y \in job.new \ Dir
               \/ y \in Dir /\ snap[y] = Absent /\ r[y].kind = "dir"
               \/ y \in Claims(snap, pkg) \ job.new /\ r[y] = Absent
    <3>1. CASE r[y] = fs[y]
      BY <2>1, <3>1 DEF Effects, OnlyPayload
    <3>2. CASE y = x /\ r[y] = Absent
      BY <1>4, <3>2
    <3> QED
      BY <1>5, <3>1, <3>2
  <2> QED
    BY <1>3, <1>5, <2>1 DEF OnlyPayload
<1>9. BaselineKept(r)'
  BY <1>1, <1>3, <1>5 DEF Effects, BaselineKept
<1> QED
  BY <1>5, <1>7, <1>8, <1>9 DEF Effects

\* ... of the record: nothing but the package's own two files.
LEMMA RecordEffects ==
  ASSUME IInv, IInv', JobInv, OwnershipInv, Effects(fs), ~Committed(pkg),
         RecordManifest \/ RecordMeta
  PROVE  Effects(After)'
<1>1. pc = "apply" /\ job.next \in {"drop", "meta"}
  BY DEF RecordManifest, RecordMeta, At
<1>2. /\ fs \in [Path -> Node] /\ snap \in [Path -> Node] /\ job \in Job
      /\ pkg \in Package /\ Underway(fs)
  BY <1>1, UnderwayFacts
<1>3. ~job.adopted
  BY <1>1, <1>2 DEF Underway, AdoptedFree
<1>4. /\ job'.adopted = job.adopted /\ job'.new = job.new /\ job'.ceded = job.ceded
      /\ job'.next = IF RecordMeta THEN "commit" ELSE "meta"
  <2>1. CASE RecordMeta
    BY <1>2, <2>1 DEF RecordMeta, Job
  <2>2. CASE ~RecordMeta
    BY <1>2, <2>2 DEF RecordManifest, Job
  <2> QED
    BY <2>1, <2>2
<1>5. PICK x \in {Meta[pkg], Manifest[pkg]}, c \in ClaimSets :
        /\ Intend("bytes", x, c)
        /\ RecordMeta => x = Meta[pkg] /\ c = job.new \cup job.ceded
  <2>1. job.new \in ClaimSets /\ job.new \cup job.ceded \in ClaimSets
    BY <1>2, ClaimSetFacts DEF Job
  <2>2. CASE RecordMeta
    BY <2>1, <2>2 DEF RecordMeta
  <2>3. CASE ~RecordMeta
    BY <2>1, <2>3 DEF RecordManifest
  <2> QED
    BY <2>2, <2>3
<1>6. PICK r \in [Path -> Node] :
        /\ r = After'
        /\ \A y \in Path \ {x} : r[y] = fs[y]
        /\ r[x].claims = c /\ r[x].by = txs /\ r[x].kind = "file"
        /\ UNCHANGED <<pkg, snap, txs>>
  BY <1>1, <1>2, <1>5, RecordWritten
<1>7. x \in RecordFiles /\ \A q \in Package \ {pkg} : r[Manifest[q]] = fs[Manifest[q]]
  BY <1>2, <1>5, <1>6, Places DEF RecordFiles
<1>8. OnlyCessions(r)'
  BY <1>3, <1>4, <1>6, <1>7 DEF Effects, OnlyCessions, Yields
<1>9. OnlyPayload(r)'
  <2>1. \A y \in Path \ RecordFiles : r[y] = fs[y]
    BY <1>6, <1>7
  <2>2. job'.next # "stage" /\ job.next # "stage"
    BY <1>1, <1>4
  <2> QED
    BY <1>4, <1>6, <2>1, <2>2 DEF Effects, OnlyPayload
<1>10. BaselineKept(r)'
  BY <1>3, <1>4, <1>5, <1>6 DEF Effects, BaselineKept
<1> QED
  BY <1>6, <1>8, <1>9, <1>10 DEF Effects

\* The effect of an installation so far, until it ends.
LEMMA EffectsKept ==
  ASSUME IInv, IInv', JobInv, OwnershipInv, EffectsInv, [WNext]_wvars
  PROVE  EffectsInv'
<1> SUFFICES ASSUME pc' \in Forward, ~Committed(pkg)' PROVE Effects(After)'
  BY DEF EffectsInv
<1>1. CASE \E p \in Package : \E stage \in Stages[p] : InstallBegin(p, stage)
  BY <1>1, BeginEffects
<1>2. CASE \/ SkipCeded \/ (\E q \in Package : Cede(q)) \/ PlaceLeaf \/ MakeDir \/ KeepDir
           \/ StageDone \/ (\E x \in Path : DropOld(x)) \/ RecordManifest \/ RecordMeta
  <2>1. ~Committed(pkg)
    BY <1>2 DEF SkipCeded, Cede, PlaceLeaf, MakeDir, KeepDir, StageDone, DropOld,
       RecordManifest, RecordMeta, Intend, CallerContract, vars, Committed
  <2>2. pc = "apply"
    BY <1>2 DEF SkipCeded, Cede, PlaceLeaf, MakeDir, KeepDir, StageDone, DropOld,
       RecordManifest, RecordMeta, Settled, AtStage, At
  <2>3. Effects(fs)
    <3>1. Effects(After) /\ After = fs
      BY <2>1, <2>2 DEF EffectsInv, After, Forward
    <3> QED
      BY <3>1
  <2> QED
    BY <1>2, <2>1, <2>3, EntryEffects, OtherEffects, CedeEffects, DropEffects, RecordEffects
<1>3. CASE WorldAdd \/ (\E explicit \in BOOLEAN : InstallCommit(explicit)) \/ Abandon
  BY <1>3 DEF WorldAdd, InstallCommit, Commit, Abandon, Fail, Crash, Exit, Forward, vars,
              JobInv
<1>4. CASE Underneath /\ Primitive
  <2>1. /\ After' = After /\ pc \in Forward /\ UNCHANGED <<pkg, snap, txs>>
    BY <1>4, PrimitiveAhead DEF OwnershipInv
  <2>2. ~Committed(pkg)
    BY <1>4, <2>1, ForwardFacts DEF Primitive, MoveAside, CopyAside, UnlinkOriginal,
       Create, Fill, WriteTmp, IntendSwap, Swap
  <2>3. Effects(After) /\ job' = job
    BY <1>4, <2>1, <2>2 DEF EffectsInv, Underneath
  <2> QED
    BY <2>1, <2>3 DEF Effects, OnlyCessions, Yields, OnlyPayload, BaselineKept, Entry1
<1>5. CASE Underneath /\ (Start \/ Sweep \/ Replay \/ Finish)
  BY <1>5 DEF Start, Sweep, SweepClean, SweepAmbiguous, SweepCommitted, SweepSuperseded,
     SweepRollback, Finish, Refuse, Exit, Forward,
     Replay, AtEntry, UndoNew, ClearForRestore, UndoBlocked, Restore, RestoreByCopy,
     UnlinkBackup, SkipRestored, UndoUnsafe, RetireRolledBack
<1>6. CASE UNCHANGED wvars
  <2>1. After' = After /\ pc' = pc /\ (Committed(pkg)' <=> Committed(pkg))
        /\ UNCHANGED <<pkg, snap, txs, job>>
    BY <1>6 DEF wvars, vars, After, Committed
  <2> QED
    BY <2>1 DEF EffectsInv, Effects, OnlyCessions, Yields, OnlyPayload, BaselineKept, Entry1
<1> QED
  BY <1>1, <1>2, <1>3, <1>4, <1>5, <1>6 DEF WNext, Underneath

-----------------------------------------------------------------------------
\* ... and so does the account of its effects.
LEMMA EffectsInvariant ==
  NoMutualSuccession => (WSpec => [](IInv /\ JobInv /\ OwnershipInv /\ EffectsInv))
<1> SUFFICES ASSUME NoMutualSuccession
             PROVE  WSpec => [](IInv /\ JobInv /\ OwnershipInv /\ EffectsInv)
  OBVIOUS
<1>1. WInit => IInv /\ JobInv /\ OwnershipInv /\ EffectsInv
  <2>1. WInit => EffectsInv
    BY DEF WInit, Init, EffectsInv, Forward
  <2> QED
    BY <2>1, InitBoth, InitOwnership
<1>2. (IInv /\ JobInv /\ OwnershipInv /\ EffectsInv) /\ [WNext]_wvars
        => (IInv /\ JobInv /\ OwnershipInv /\ EffectsInv)'
  BY NextBoth, OwnershipKept, EffectsKept
<1> QED
  BY <1>1, <1>2, PTL DEF WSpec

\* What was there before the transaction is older than it.
LEMMA SeenEffects ==
  ASSUME IInv, IInv', JobInv, OwnershipInv, EffectsInv, [WNext]_wvars, Rest' # Rest
  PROVE  /\ OnlyCessions(After) /\ OnlyPayload(After)
         /\ job.ceded = CededBy(snap, pkg) \ Unproved(snap, pkg)
         /\ ~job.adopted
         /\ After[Meta[pkg]].kind = "file" /\ After[Meta[pkg]].by = txs
         /\ After[Meta[pkg]].claims = job.new \cup job.ceded
         /\ \A x \in Path : snap[x].by < txs
         /\ txs \in Nat /\ After \in [Path -> Node] /\ snap \in [Path -> Node]
<1>1. [Next]_vars
  BY StepKeepsContract DEF IInv
<1>2. Next
  BY <1>1 DEF vars, Rest, Pending, Live, Committed
<1>3. /\ Swap /\ op.path = Meta[pkg] /\ ~Committed(pkg)
      /\ Rest = snap /\ Rest' = After
  BY <1>2, RestSteps, SeenSteps
<1>4. pc = "swapping" /\ pc \in Forward
  BY <1>3 DEF Swap, Forward
<1>5. Effects(After) /\ Going
  BY <1>3, <1>4 DEF OwnershipInv, EffectsInv
<1>6. /\ Live(pkg) /\ txs \in Nat /\ pkg \in Package /\ \A x \in Path : snap[x].by < txs
  <2>1. Live(pkg) /\ txs \in Nat /\ pkg \in Package
    BY <1>4, ForwardFacts
  <2> QED
    BY <2>1 DEF IInv, Inductive, TxInv, Pending
<1>7. After \in [Path -> Node] /\ snap \in [Path -> Node]
  <2>1. Rest' \in [Path -> Node] /\ Rest \in [Path -> Node]
    BY DEF Rest, IInv, TypeOK
  <2> QED
    BY <1>3, <2>1
<1>8. job.next = "commit"
  <2>1. Meta[pkg] \in Path /\ After[Meta[pkg]].by = txs
    <3>1. /\ fs \in [Path -> Node] /\ op.node.by = txs /\ op.kind = "bytes"
          /\ Meta[pkg] \in Path /\ Meta[pkg] # Tmp
      BY <1>3, <1>4, <1>6, ForwardFacts, Places DEF IInv, TypeOK
    <3> QED
      BY <1>3, <1>4, <3>1 DEF After
  <2>2. After[Meta[pkg]] # snap[Meta[pkg]]
    BY <1>6, <2>1
  <2> QED
    BY <1>5, <2>2 DEF Going, Underway, StagesInOrder
<1> QED
  BY <1>5, <1>6, <1>7, <1>8 DEF Effects, BaselineKept

\* The step that makes the new record count is the whole of the installation.
LEMMA SeenInstall ==
  ASSUME IInv, IInv', JobInv, OwnershipInv, EffectsInv, [WNext]_wvars, View' # View
  PROVE  Atomic!Install(pkg)
<1>1. View = Rest /\ View' = Rest'
  BY ViewIsRest, NextViewIsRest
<1>2. /\ View = snap /\ View' = After /\ pkg \in Package
      /\ Framed(After) /\ Sound(After) /\ Claims(After, pkg) = job.new
  BY <1>1, SeenSteps
<1>3. /\ OnlyCessions(After) /\ OnlyPayload(After) /\ ~job.adopted
      /\ After[Meta[pkg]].kind = "file" /\ After[Meta[pkg]].by = txs
      /\ After[Meta[pkg]].claims = job.new \cup job.ceded
      /\ \A x \in Path : snap[x].by < txs
      /\ txs \in Nat /\ After \in [Path -> Node] /\ snap \in [Path -> Node]
  BY <1>1, SeenEffects
<1>4. /\ Sound(snap) /\ Meta[pkg] \in Path
  BY <1>1, <1>2, Places DEF OwnershipInv
<1> DEFINE mine == View'[Manifest[pkg]].claims
<1>5. /\ After[Manifest[pkg]].claims = job.new /\ mine = job.new
  BY <1>2, <1>3 DEF Claims, Absent
<1>6. job.new \subseteq Claimable /\ job.new \subseteq Path
  BY <1>2, <1>3, ClaimKinds, Places
<1>7. \A q \in Package : Atomic!Holds(View, q) = Claims(snap, q)
  <2>1. ASSUME NEW q \in Package
        PROVE  snap[Meta[q]].kind = "absent" <=> snap[Meta[q]] = Absent
    BY <1>4, Places DEF Sound, Tree, Absent
  <2> QED
    BY <1>2, <2>1 DEF Atomic!Holds, Claims
<1>8. View'[Meta[pkg]] # View[Meta[pkg]] /\ View'[Meta[pkg]].by = txs
  <2>1. snap[Meta[pkg]].by # txs
    BY <1>3, <1>4
  <2> QED
    BY <1>2, <1>3, <2>1
<1>9. /\ \A x \in job.new : After[x].kind = IF x \in Dir THEN "dir" ELSE "file"
      /\ \A x \in job.new \ Dir : After[x].by = txs
  BY <1>2, <1>3 DEF Sound, Intact, Describes
<1>10. ASSUME NEW q \in Package \ {pkg}
       PROVE  /\ After[Meta[q]] = snap[Meta[q]]
              /\ After[Manifest[q]] # snap[Manifest[q]] =>
                   /\ q \in Provisional \cap Supersedes[pkg]
                   /\ After[Manifest[q]].claims \subseteq Claims(snap, q)
                   /\ Claims(snap, q) \ After[Manifest[q]].claims \subseteq job.new \cup Dir
  BY <1>2, <1>3 DEF Framed, OnlyCessions, Yields, Installed, Claims
<1>11. ASSUME NEW x \in Path \ (RecordFiles \cup job.new)
       PROVE  \/ After[x] = snap[x]
              \/ x \in Claims(snap, pkg) /\ After[x].kind = "absent"
              \/ x \in Dir /\ snap[x].kind = "absent" /\ After[x].kind = "dir"
  BY <1>3 DEF OnlyPayload, Absent
<1>12. ASSUME NEW x \in job.new \cap Dir, snap[x].kind = "dir"
       PROVE  After[x] = snap[x]
  <2>1. x \in Path \ RecordFiles
    BY <1>6, PayloadApart
  <2> QED
    BY <1>3, <1>12, <2>1 DEF OnlyPayload, Absent
<1>13. Atomic!Records = RecordFiles
  BY DEF Atomic!Records, RecordFiles
<1> QED
  BY <1>2, <1>3, <1>5, <1>7, <1>8, <1>9, <1>10, <1>11, <1>12, <1>13 DEF Atomic!Install

\* The detailed installer implements the promise: whoever waits for recovery
\* sees the whole of an installation in one step, cessions and removals
\* included, or nothing of it (install.rs:5404-5510, 6640-6870, 9180).
THEOREM InstallerIsAtomic == NoMutualSuccession => (WSpec => InstallsAtomically)
<1> SUFFICES ASSUME NoMutualSuccession PROVE WSpec => InstallsAtomically
  OBVIOUS
<1>1. WInit => View \in Roots
  <2>1. WInit => IInv /\ Rest = fs /\ fs \in Roots
    BY InitBoth DEF WInit, Init, Rest, Pending, Live, NoJournal
  <2> QED
    BY <2>1, ViewIsRest
<1>2. (IInv /\ JobInv /\ OwnershipInv /\ EffectsInv)
        /\ (IInv /\ JobInv /\ OwnershipInv /\ EffectsInv)' /\ [WNext]_wvars
        => [Atomic!Next]_View
  <2> SUFFICES ASSUME IInv, IInv', JobInv, OwnershipInv, EffectsInv, [WNext]_wvars,
                      View' # View
               PROVE  Atomic!Next
    OBVIOUS
  <2>1. pkg \in Package
    BY DEF IInv, TypeOK
  <2> QED
    BY <2>1, SeenInstall DEF Atomic!Next
<1> QED
  BY <1>1, <1>2, EffectsInvariant, PTL DEF WSpec, InstallsAtomically, Atomic!Spec

\* What makes a cession of a leaf proved: an authorized successor claims it.
LEMMA ProvedLeaf ==
  ASSUME NEW root, NEW q \in Package, NEW x \in CededBy(root, q) \ Dir
  PROVE  x \notin Unproved(root, q) <=>
           \E p \in Package \ {q} : Authorizes(p, q) /\ x \in Claims(root, p)
BY DEF Unproved

\* A step that is seen leaves a provisional's cession without a successor only
\* where a successor gave the path up.
LEMMA SeenCessions ==
  ASSUME IInv, IInv', JobInv, OwnershipInv, EffectsInv, [WNext]_wvars, View' # View,
         NEW q \in Provisional
  PROVE  Unproved(View', q) \subseteq
           Unproved(View, q) \cup Dir
           \cup UNION {Claims(View, p) \ Claims(View', p) : p \in Package \ {q}}
<1>1. View = Rest /\ View' = Rest'
  BY ViewIsRest, NextViewIsRest
<1>2. /\ View = snap /\ View' = After /\ pkg \in Package
      /\ Framed(After) /\ Claims(After, pkg) = job.new
  BY <1>1, SeenSteps
<1>3. /\ OnlyCessions(After) /\ ~job.adopted
      /\ job.ceded = CededBy(snap, pkg) \ Unproved(snap, pkg)
      /\ After[Meta[pkg]].kind = "file"
      /\ After[Meta[pkg]].claims = job.new \cup job.ceded
  BY <1>1, SeenEffects
<1>4. q \in Package
  BY RecipeAssumption
<1>5. After[Manifest[pkg]].claims = job.new
  BY <1>2, <1>3 DEF Claims, Absent
<1>6. ASSUME NEW x \in Unproved(After, q), x \notin Dir,
             \A p \in Package \ {q} : x \in Claims(snap, p) => x \in Claims(After, p)
      PROVE  x \in Unproved(snap, q)
  <2>1. x \in CededBy(After, q) \ Dir
    BY <1>6 DEF Unproved
  <2>2. \A p \in Package \ {q} : Authorizes(p, q) => x \notin Claims(After, p)
    BY <1>4, <1>6, <2>1, ProvedLeaf
  <2>3. \A p \in Package \ {q} : Authorizes(p, q) => x \notin Claims(snap, p)
    BY <1>6, <2>2
  <2>4. SUFFICES x \in CededBy(snap, q)
    BY <1>4, <2>1, <2>3, ProvedLeaf
  <2>5. CASE q = pkg
    BY <1>3, <1>5, <2>1, <2>5 DEF CededBy
  <2>6. CASE q # pkg
    <3>1. After[Meta[q]] = snap[Meta[q]]
      BY <1>2, <1>4, <2>6 DEF Framed
    <3>2. CASE x \notin snap[Manifest[q]].claims
      BY <2>1, <3>1, <3>2 DEF CededBy, Installed
    <3>3. CASE x \in snap[Manifest[q]].claims
      <4>1. x \in snap[Manifest[q]].claims \ After[Manifest[q]].claims
        BY <2>1, <3>3 DEF CededBy
      <4>2. x \in Claims(After, pkg) /\ Yields(q)
        BY <1>2, <1>3, <1>4, <1>6, <2>6, <4>1 DEF OnlyCessions
      <4>3. Authorizes(pkg, q)
        BY <4>2 DEF Authorizes, Yields
      <4> QED
        BY <1>2, <2>2, <2>6, <4>2, <4>3
    <3> QED
      BY <3>2, <3>3
  <2> QED
    BY <2>5, <2>6
<1> QED
  BY <1>2, <1>6

\* A provisional's leaf is lost only to a successor that owns it, or when one
\* gives it up (install.rs:5704, 6083).
THEOREM CessionsStayProved == NoMutualSuccession => (WSpec => CessionsAreProved)
<1> SUFFICES ASSUME NoMutualSuccession PROVE WSpec => CessionsAreProved
  OBVIOUS
<1>1. ASSUME IInv, IInv', JobInv, OwnershipInv, EffectsInv, [WNext]_wvars, View' # View,
             NEW q \in Provisional
      PROVE  Unproved(View, q)' \subseteq
               Unproved(View, q) \cup Dir
               \cup UNION {Claims(View, p) \ Claims(View', p) : p \in Package \ {q}}
  <2>1. Unproved(View, q)' = Unproved(View', q)
    BY DEF Unproved, CededBy, Claims, Installed
  <2> QED
    BY <1>1, <2>1, SeenCessions
<1>2. (IInv /\ JobInv /\ OwnershipInv /\ EffectsInv)
        /\ (IInv /\ JobInv /\ OwnershipInv /\ EffectsInv)' /\ [WNext]_wvars
        => [View' # View =>
              \A q \in Provisional :
                Unproved(View, q)' \subseteq
                  Unproved(View, q) \cup Dir
                  \cup UNION {Claims(View, p) \ Claims(View', p) :
                                p \in Package \ {q}}]_wvars
  BY <1>1
<1> QED
  BY <1>2, EffectsInvariant, PTL DEF WSpec, CessionsAreProved

=============================================================================
