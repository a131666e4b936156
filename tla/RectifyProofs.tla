--------------------------- MODULE RectifyProofs ----------------------------
(***************************************************************************)
(* ReceiptsAreTrue and FailureKeepsWork, for any packages, recipes, bounds *)
(* and deaths: what a command has installed is complete of what it needs   *)
(* (Installing), what it binds is backed by a lock and a slice (Binding),  *)
(* and what it seals is the world as it is (Sealing).                      *)
(***************************************************************************)
EXTENDS Rectify, TLAPS

InstallPcs == {"install", "installed"}

\* A package is at hand.
HandPcs == {"slice", "slice written", "meta", "meta written"}

BindPcs == {"lock", "lock written", "bind"} \cup HandPcs

SealPcs == {"receipt", "receipt written", "current", "current written"}

Pcs == {"idle", "plan", "close", "unworld", "reclose"} \cup InstallPcs \cup BindPcs \cup SealPcs

Types ==
  /\ TypeOK
  /\ proc \in [pc : Pcs, kind : {proc.kind}, names : SUBSET Package, todo : SUBSET Package,
               written : SUBSET Package, partial : BOOLEAN, plan : PlanLock, at : {proc.at},
               receipt : {proc.receipt}]
  /\ kills \in Nat

\* What the command has still to install, to the end of its step, and to bind.
Open == proc.todo \cup IF At("installed") THEN {proc.at} ELSE {}

Left == proc.todo \cup IF proc.pc \in HandPcs THEN {proc.at} ELSE {}

Nodes == Closure(tree, proc.names)

UpToDate(p) == record[p].format \in {3, 4} /\ record[p].print = Fingerprint[tree][p]

\* A command has written nothing, and no failure is known, until it installs.
Starting ==
  proc.pc \in {"plan", "unworld", "reclose"} => proc.written = {} /\ ~proc.partial

\* Nothing written needs what is still open: its closure is kept.
Installing ==
  proc.pc \in InstallPcs =>
    /\ ~proc.partial
    /\ Open \subseteq Nodes /\ proc.written \subseteq Nodes \ Open
    /\ \A q \in Nodes \ Open : Keep(q, proc.written)
    /\ \A p \in proc.written : Closure(tree, {p}) \cap Open = {}
    /\ At("installed") =>
         /\ proc.at \notin proc.todo /\ Closure(tree, {proc.at}) \cap proc.todo = {}
         /\ record[proc.at].format = 3
         /\ record[proc.at].print = Fingerprint[tree][proc.at]

\* A failed command closes what it finished: it can.
Closing == At("close") /\ proc.partial => AllKept

Binding ==
  proc.pc \in BindPcs =>
    /\ proc.plan = [tree |-> tree, roots |-> Roots]
    /\ \A p \in Closure(tree, Roots) : UpToDate(p)
    /\ Left \subseteq Closure(tree, Roots)
    /\ proc.partial => \A p \in proc.written \ Left : record[p].format = 4
    /\ proc.pc \notin {"lock", "lock written"} => proc.plan \in locks
    /\ proc.pc \in {"meta", "meta written"} => proc.plan \in slices[proc.at]

Sealing ==
  proc.pc \in SealPcs =>
    /\ ~proc.partial
    /\ proc.plan = [tree |-> tree, roots |-> world] /\ proc.plan \in locks
    /\ \A p \in Closure(tree, world) : UpToDate(p)
    /\ proc.pc # "receipt" =>
         proc.receipt = Receipt /\ \A p \in Closure(tree, world) : record[p].format = 4
    /\ proc.pc \in {"current", "current written"} => proc.receipt \in receipts

IInv == Types /\ BoundIsBacked /\ Starting /\ Installing /\ Closing /\ Binding /\ Sealing

-----------------------------------------------------------------------------
(***************************************************************************)
(* Closures, and what the steps share                                      *)
(***************************************************************************)

\* A closure has its roots and the dependencies of whatever it has.
LEMMA ClosureGrows ==
  ASSUME NEW t \in Tree, NEW roots \in SUBSET Package
  PROVE  /\ roots \subseteq Closure(t, roots) /\ Closure(t, roots) \subseteq Package
         /\ \A q \in Closure(t, roots) : Deps[t][q] \subseteq Closure(t, roots)
<1>1. roots \subseteq Closure(t, roots) /\ Closure(t, roots) \subseteq Package
  BY DEF Closure
<1>2. ASSUME NEW q \in Closure(t, roots), NEW r \in Deps[t][q] PROVE r \in Closure(t, roots)
  <2>1. r \in Package /\ q \in Package
    BY <1>1, <1>2, RectifyAssumption
  <2>2. ASSUME NEW s \in SUBSET Package, roots \subseteq s, \A x \in s : Deps[t][x] \subseteq s
        PROVE  r \in s
    <3>1. q \in s
      BY <2>2, <1>2 DEF Closure
    <3> QED
      BY <1>2, <2>2, <3>1
  <2> QED
    BY <2>1, <2>2 DEF Closure
<1> QED
  BY <1>1, <1>2

\* It is the least such set.
LEMMA ClosureLeast ==
  ASSUME NEW t \in Tree, NEW roots, NEW s \in SUBSET Package,
         roots \subseteq s, \A q \in s : Deps[t][q] \subseteq s
  PROVE  Closure(t, roots) \subseteq s
BY DEF Closure

\* So a closure has that of each of its packages.
LEMMA ClosureWithin ==
  ASSUME NEW t \in Tree, NEW roots \in SUBSET Package, NEW q \in Closure(t, roots)
  PROVE  Closure(t, {q}) \subseteq Closure(t, roots)
BY ClosureGrows, ClosureLeast

LEMMA PlanType ==
  /\ NoPlan \in PlanLock
  /\ \A t \in Tree, roots \in SUBSET Package : [tree |-> t, roots |-> roots] \in PlanLock
BY RectifyAssumption DEF NoPlan, PlanLock

LEMMA IdleType ==
  /\ Idle \in [pc : {"idle"}, kind : {"none"}, names : {{}}, todo : {{}}, written : {{}},
               partial : {FALSE}, plan : PlanLock, at : {"none"}, receipt : {NoReceipt}]
  /\ Idle \in [pc : Pcs, kind : {Idle.kind}, names : SUBSET Package, todo : SUBSET Package,
               written : SUBSET Package, partial : BOOLEAN, plan : PlanLock, at : {Idle.at},
               receipt : {Idle.receipt}]
BY PlanType DEF Idle, Pcs

\* What the end of a command leaves alone stays true.
LEMMA EndKeeps ==
  ASSUME IInv, proc' = Idle, UNCHANGED <<tree, record, slices, draft, locks>>,
         world' \in SUBSET Package, temps' \in SUBSET {"lock", "receipt", "current"},
         kills' \in Nat
  PROVE  IInv'
<1>1. proc'.pc = "idle"
  BY IdleType
<1>2. Types'
  BY IdleType DEF IInv, Types, TypeOK, Present
<1>3. BoundIsBacked'
  BY DEF IInv, BoundIsBacked, Present
<1>4. Starting' /\ Installing' /\ Closing' /\ Binding' /\ Sealing'
  BY <1>1 DEF Starting, Installing, Closing, Binding, Sealing, At, InstallPcs, BindPcs, HandPcs, SealPcs
<1> QED
  BY <1>2, <1>3, <1>4 DEF IInv

LEMMA StartKeeps ==
  ASSUME IInv, NEW names \in SUBSET Package, NEW kind,
         proc' = [Idle EXCEPT !.pc = "plan", !.kind = kind, !.names = names],
         UNCHANGED <<tree, world, record, published, counters>>
  PROVE  IInv'
<1>1. /\ proc'.pc = "plan" /\ proc'.written = {} /\ ~proc'.partial
      /\ proc' \in [pc : Pcs, kind : {kind}, names : SUBSET Package, todo : SUBSET Package,
               written : SUBSET Package, partial : BOOLEAN, plan : PlanLock, at : {"none"},
               receipt : {NoReceipt}]
  BY IdleType DEF Pcs
<1>2. Types'
  BY <1>1 DEF IInv, Types, TypeOK, Present, published, counters
<1>3. BoundIsBacked'
  BY DEF IInv, BoundIsBacked, Present, published
<1>4. Starting' /\ Installing' /\ Closing' /\ Binding' /\ Sealing'
  BY <1>1 DEF Starting, Installing, Closing, Binding, Sealing, At, InstallPcs, BindPcs, HandPcs, SealPcs
<1> QED
  BY <1>2, <1>3, <1>4 DEF IInv

LEMMA KeepsNewspeak == ASSUME IInv, Newspeak PROVE IInv'
<1>1. /\ proc' = proc /\ proc.pc = "idle" /\ tree' \in Tree
      /\ UNCHANGED <<world, record, published, kills>>
  BY DEF Newspeak, At
<1>2. Types'
  BY <1>1 DEF IInv, Types, TypeOK, Present, published
<1>3. BoundIsBacked'
  BY <1>1 DEF IInv, BoundIsBacked, Present, published
<1>4. Starting' /\ Installing' /\ Closing' /\ Binding' /\ Sealing'
  BY <1>1 DEF Starting, Installing, Closing, Binding, Sealing, At, InstallPcs, BindPcs, HandPcs, SealPcs
<1> QED
  BY <1>2, <1>3, <1>4 DEF IInv

-----------------------------------------------------------------------------
(***************************************************************************)
(* The installations of a command                                          *)
(***************************************************************************)

LEMMA KeepsPlan == ASSUME IInv, Plan PROVE IInv'
<1>1. /\ proc.pc = "plan" /\ proc.written = {} /\ ~proc.partial
      /\ proc.names \in SUBSET Package /\ tree \in Tree
  BY DEF Plan, At, IInv, Starting, Types, TypeOK
<1>2. /\ proc' = [proc EXCEPT !.pc = "install", !.todo = {p \in Nodes : ~Keep(p, {})}]
      /\ temps' \subseteq temps /\ draft' \subseteq draft
      /\ UNCHANGED <<tree, world, record, slices, locks, receipts, current, counters>>
  BY DEF Plan, Recover, Nodes
<1>3. Nodes \subseteq Package
  BY <1>1, ClosureGrows DEF Nodes
<1>4. /\ proc'.pc = "install" /\ proc'.todo = {p \in Nodes : ~Keep(p, {})}
      /\ proc'.written = {} /\ ~proc'.partial /\ proc'.names = proc.names
      /\ proc' \in [pc : Pcs, kind : {proc'.kind}, names : SUBSET Package, todo : SUBSET Package,
               written : SUBSET Package, partial : BOOLEAN, plan : PlanLock, at : {proc'.at},
               receipt : {proc'.receipt}]
  BY <1>1, <1>2, <1>3 DEF IInv, Types, Pcs, InstallPcs
<1>5. Types'
  BY <1>2, <1>4 DEF IInv, Types, TypeOK, Present, counters
<1>6. BoundIsBacked'
  BY <1>2 DEF IInv, BoundIsBacked, Present
<1>7. Installing'
  <2>1. Open' = proc'.todo /\ Nodes' = Nodes
    BY <1>2, <1>4 DEF Open, Nodes, At
  <2>2. \A q \in Nodes' \ Open' : Keep(q, proc.written)'
    BY <1>1, <1>2, <1>4, <2>1 DEF Keep
  <2> QED
    BY <1>4, <2>1, <2>2 DEF Installing, At
<1>8. Starting' /\ Closing' /\ Binding' /\ Sealing'
  BY <1>4 DEF Starting, Closing, Binding, Sealing, At, BindPcs, HandPcs, SealPcs
<1> QED
  BY <1>5, <1>6, <1>7, <1>8 DEF IInv

LEMMA KeepsInstall == ASSUME IInv, NEW p \in Package, Install(p) PROVE IInv'
<1>1. /\ proc.pc = "install" /\ Closure(tree, {p}) \cap proc.todo = {p}
      /\ record' = [record EXCEPT ![p] =
           [format |-> 3, print |-> Fingerprint[tree][p], deps |-> Deps[tree][p],
            stamp |-> (record[p].stamp + 1) % Stamps, plan |-> NoPlan]]
      /\ proc' = [proc EXCEPT !.pc = "installed", !.at = p, !.todo = proc.todo \ {p}]
      /\ UNCHANGED <<tree, world, published, counters>>
  BY DEF Install, At
<1>2. /\ ~proc.partial /\ Open = proc.todo /\ p \in proc.todo
      /\ proc.todo \subseteq Nodes /\ proc.written \subseteq Nodes \ proc.todo
      /\ \A q \in Nodes \ proc.todo : Keep(q, proc.written)
      /\ \A q \in proc.written : Closure(tree, {q}) \cap proc.todo = {}
  BY <1>1 DEF IInv, Installing, Open, At, InstallPcs
<1>3. /\ proc'.pc = "installed" /\ proc'.at = p /\ proc'.todo = proc.todo \ {p}
      /\ proc'.written = proc.written /\ ~proc'.partial /\ proc'.names = proc.names
      /\ proc' \in [pc : Pcs, kind : {proc'.kind}, names : SUBSET Package, todo : SUBSET Package,
               written : SUBSET Package, partial : BOOLEAN, plan : PlanLock, at : {proc'.at},
               receipt : {proc'.receipt}]
  BY <1>1, <1>2 DEF IInv, Types, Pcs, InstallPcs
<1>4. record' \in [Package -> Record] /\ record'[p].format = 3
      /\ record'[p].print = Fingerprint[tree][p]
      /\ \A q \in Package \ {p} : record'[q] = record[q]
  <2>1. record \in [Package -> Record] /\ tree \in Tree
    BY DEF IInv, Types, TypeOK
  <2>2. record[p].stamp \in Nat
    BY <2>1, RectifyAssumption DEF Record, Absent
  <2>3. (record[p].stamp + 1) % Stamps \in 0 .. Stamps - 1
    BY <2>2, RectifyAssumption
  <2>4. [format |-> 3, print |-> Fingerprint[tree][p], deps |-> Deps[tree][p],
         stamp |-> (record[p].stamp + 1) % Stamps, plan |-> NoPlan] \in Record
    BY <2>1, <2>3, PlanType, RectifyAssumption DEF Record
  <2> QED
    BY <1>1, <2>1, <2>4
<1>5. Types'
  BY <1>1, <1>3, <1>4 DEF IInv, Types, TypeOK, Present, published, counters
<1>6. BoundIsBacked'
  BY <1>1, <1>4 DEF IInv, BoundIsBacked, Present, published
<1>7. Installing'
  <2>1. Open' = proc.todo /\ Nodes' = Nodes
    BY <1>1, <1>2, <1>3 DEF Open, Nodes, At
  <2>2. ASSUME NEW q \in Nodes \ proc.todo PROVE Keep(q, proc.written)'
    <3>1. Keep(q, proc.written) /\ q # p /\ q \in Package
      BY <1>2 DEF Nodes, Closure
    <3> QED
      BY <1>1, <1>3, <1>4, <3>1 DEF Keep
  <2>3. \A q \in proc'.written : Closure(tree, {q})' \cap Open' = {}
    BY <1>1, <1>2, <1>3, <2>1
  <2>4. p \notin proc'.todo /\ Closure(tree, {p})' \cap proc'.todo = {}
    BY <1>1, <1>3
  <2> QED
    BY <1>1, <1>2, <1>3, <1>4, <2>1, <2>2, <2>3, <2>4 DEF Installing, At
<1>8. Starting' /\ Closing' /\ Binding' /\ Sealing'
  BY <1>3 DEF Starting, Closing, Binding, Sealing, At, BindPcs, HandPcs, SealPcs
<1> QED
  BY <1>5, <1>6, <1>7, <1>8 DEF IInv

LEMMA KeepsInstalled == ASSUME IInv, Installed PROVE IInv'
<1>1. /\ proc.pc = "installed"
      /\ world' = IF proc.kind = "rectify" THEN world \cup ({proc.at} \cap proc.names) ELSE world
      /\ proc' = [proc EXCEPT !.pc = "install", !.written = proc.written \cup {proc.at}]
      /\ UNCHANGED <<tree, record, published, counters>>
  BY DEF Installed, At
<1>2. /\ ~proc.partial /\ Open = proc.todo \cup {proc.at}
      /\ Open \subseteq Nodes /\ proc.written \subseteq Nodes \ Open
      /\ \A q \in Nodes \ Open : Keep(q, proc.written)
      /\ \A q \in proc.written : Closure(tree, {q}) \cap Open = {}
      /\ proc.at \notin proc.todo /\ Closure(tree, {proc.at}) \cap proc.todo = {}
      /\ record[proc.at].format = 3 /\ record[proc.at].print = Fingerprint[tree][proc.at]
  BY <1>1 DEF IInv, Installing, Open, At, InstallPcs
<1>3. proc.at \in Package /\ world' \subseteq Package
  BY <1>1, <1>2 DEF Nodes, Closure, IInv, Types, TypeOK
<1>4. /\ proc'.pc = "install" /\ proc'.todo = proc.todo
      /\ proc'.written = proc.written \cup {proc.at} /\ ~proc'.partial /\ proc'.names = proc.names
      /\ proc' \in [pc : Pcs, kind : {proc'.kind}, names : SUBSET Package, todo : SUBSET Package,
               written : SUBSET Package, partial : BOOLEAN, plan : PlanLock, at : {proc'.at},
               receipt : {proc'.receipt}]
  BY <1>1, <1>2, <1>3 DEF IInv, Types, Pcs, InstallPcs
<1>5. Types'
  BY <1>1, <1>3, <1>4 DEF IInv, Types, TypeOK, Present, published, counters
<1>6. BoundIsBacked'
  BY <1>1 DEF IInv, BoundIsBacked, Present, published
<1>7. Installing'
  <2>1. Open' = proc.todo /\ Nodes' = Nodes
    BY <1>1, <1>4 DEF Open, Nodes, At
  <2>2. ASSUME NEW q \in Nodes \ proc.todo PROVE Keep(q, proc.written)'
    BY <1>1, <1>2, <1>4 DEF Keep
  <2>3. \A q \in proc'.written : Closure(tree, {q})' \cap Open' = {}
    BY <1>1, <1>2, <1>4, <2>1
  <2> QED
    BY <1>2, <1>4, <2>1, <2>2, <2>3 DEF Installing, At
<1>8. Starting' /\ Closing' /\ Binding' /\ Sealing'
  BY <1>4 DEF Starting, Closing, Binding, Sealing, At, BindPcs, HandPcs, SealPcs
<1> QED
  BY <1>5, <1>6, <1>7, <1>8 DEF IInv

\* What was finished is kept, and so is all it needs.
LEMMA FinishedIsKept ==
  ASSUME IInv, proc.pc \in InstallPcs
  PROVE  \A q \in Closure(tree, proc.written) : Keep(q, proc.written)
<1>1. /\ tree \in Tree /\ proc.names \in SUBSET Package /\ proc.written \in SUBSET Package
      /\ proc.written \subseteq Nodes
      /\ \A q \in Nodes \ Open : Keep(q, proc.written)
      /\ \A p \in proc.written : Closure(tree, {p}) \cap Open = {}
  BY DEF IInv, Types, TypeOK, Installing
<1> DEFINE needed == {q \in Package : \E p \in proc.written : q \in Closure(tree, {p})}
<1>2. proc.written \subseteq needed
  BY <1>1, ClosureGrows
<1>3. \A q \in needed : Deps[tree][q] \subseteq needed
  <2> SUFFICES ASSUME NEW q \in needed, NEW p \in proc.written, q \in Closure(tree, {p}),
                      NEW r \in Deps[tree][q]
               PROVE  r \in needed
    OBVIOUS
  <2>1. r \in Closure(tree, {p}) /\ r \in Package
    BY <1>1, ClosureGrows
  <2> QED
    BY <2>1
<1>4. Closure(tree, proc.written) \subseteq needed
  <2> HIDE DEF needed
  <2>1. needed \in SUBSET Package
    BY DEF needed
  <2> QED
    BY <1>1, <1>2, <1>3, <2>1, ClosureLeast
<1>5. ASSUME NEW q \in needed PROVE q \in Nodes \ Open
  <2>1. PICK p \in proc.written : q \in Closure(tree, {p})
    BY <1>5
  <2>2. Closure(tree, {p}) \subseteq Nodes
    BY <1>1, <2>1, ClosureWithin DEF Nodes
  <2> QED
    BY <1>1, <2>1, <2>2
<1> QED
  BY <1>1, <1>4, <1>5

LEMMA KeepsFailInstall == ASSUME IInv, FailInstall PROVE IInv'
<1>1. /\ proc.pc \in InstallPcs
      /\ UNCHANGED <<tree, world, record, published>> /\ kills' = kills
  BY DEF FailInstall, At, InstallPcs
<1>2. CASE proc.written = {}
  <2>1. proc' = Idle
    BY <1>2 DEF FailInstall, Stop
  <2> QED
    BY <1>1, <2>1, EndKeeps DEF IInv, Types, TypeOK, published
<1>3. CASE proc.written # {}
  <2>1. proc' = [proc EXCEPT !.pc = "close", !.partial = TRUE]
    BY <1>3 DEF FailInstall
  <2>2. /\ proc'.pc = "close" /\ proc'.written = proc.written /\ proc'.partial = TRUE
        /\ proc' \in [pc : Pcs, kind : {proc'.kind}, names : SUBSET Package, todo : SUBSET Package,
               written : SUBSET Package, partial : BOOLEAN, plan : PlanLock, at : {proc'.at},
               receipt : {proc'.receipt}]
    BY <2>1 DEF IInv, Types, Pcs
  <2>3. Types'
    BY <1>1, <2>2 DEF IInv, Types, TypeOK, Present, published
  <2>4. BoundIsBacked'
    BY <1>1 DEF IInv, BoundIsBacked, Present, published
  <2>5. Closing'
    <3>1. Roots' = proc.written
      BY <2>2 DEF Roots
    <3>2. \A q \in Closure(tree, proc.written) : Keep(q, proc.written)'
      BY <1>1, <2>2, FinishedIsKept DEF Keep
    <3> QED
      BY <1>1, <1>3, <2>2, <3>1, <3>2 DEF Closing, AllKept
  <2>6. Starting' /\ Installing' /\ Binding' /\ Sealing'
    BY <2>2 DEF Starting, Installing, Binding, Sealing, At, InstallPcs, BindPcs, HandPcs, SealPcs
  <2> QED
    BY <2>3, <2>4, <2>5, <2>6 DEF IInv
<1> QED
  BY <1>2, <1>3

LEMMA KeepsApplied == ASSUME IInv, Applied PROVE IInv'
<1>1. /\ proc.pc = "install" /\ ~proc.partial
      /\ proc' = [proc EXCEPT !.pc = "close"]
      /\ UNCHANGED <<tree, world, record, published, counters>>
  BY DEF Applied, Goto, At, IInv, Installing, InstallPcs
<1>2. /\ proc'.pc = "close" /\ ~proc'.partial
      /\ proc' \in [pc : Pcs, kind : {proc'.kind}, names : SUBSET Package, todo : SUBSET Package,
               written : SUBSET Package, partial : BOOLEAN, plan : PlanLock, at : {proc'.at},
               receipt : {proc'.receipt}]
  BY <1>1 DEF IInv, Types, Pcs
<1>3. Types'
  BY <1>1, <1>2 DEF IInv, Types, TypeOK, Present, published, counters
<1>4. BoundIsBacked'
  BY <1>1 DEF IInv, BoundIsBacked, Present, published
<1>5. Starting' /\ Installing' /\ Closing' /\ Binding' /\ Sealing'
  BY <1>2 DEF Starting, Installing, Closing, Binding, Sealing, At, InstallPcs, BindPcs, HandPcs, SealPcs
<1> QED
  BY <1>3, <1>4, <1>5 DEF IInv

-----------------------------------------------------------------------------
(***************************************************************************)
(* The closing of a command                                                *)
(***************************************************************************)

LEMMA RootsType ==
  ASSUME IInv
  PROVE  /\ tree \in Tree /\ Roots \in SUBSET Package
         /\ Roots \subseteq Closure(tree, Roots) /\ Closure(tree, Roots) \subseteq Package
<1>1. tree \in Tree /\ Roots \in SUBSET Package
  BY DEF IInv, Types, TypeOK, Roots
<1> QED
  BY <1>1, ClosureGrows

LEMMA KeepsClose == ASSUME IInv, Close PROVE IInv'
<1> DEFINE nodes == Closure(tree, Roots)
           plan == [tree |-> tree, roots |-> Roots]
<1>1. /\ proc.pc = "close" /\ AllKept
      /\ temps' \subseteq temps /\ draft' \subseteq draft
      /\ proc' = [proc EXCEPT !.pc = IF plan \in locks THEN "bind" ELSE "lock", !.plan = plan,
                              !.todo = proc.written \cap nodes]
      /\ UNCHANGED <<tree, world, record, slices, locks, receipts, current, counters>>
  BY DEF Close, Recover, At
<1>2. tree \in Tree /\ Roots \in SUBSET Package /\ Roots \subseteq nodes /\ nodes \subseteq Package
  BY RootsType
<1>3. plan \in PlanLock
  BY <1>2, PlanType
<1>4. \A p \in nodes : UpToDate(p)
  BY <1>1 DEF AllKept, Keep, UpToDate
<1> HIDE DEF nodes, plan
<1>5. /\ proc'.pc = (IF plan \in locks THEN "bind" ELSE "lock") /\ proc'.plan = plan
      /\ proc'.todo = proc.written \cap nodes /\ proc'.written = proc.written
      /\ proc'.partial = proc.partial
      /\ proc' \in [pc : Pcs, kind : {proc'.kind}, names : SUBSET Package, todo : SUBSET Package,
               written : SUBSET Package, partial : BOOLEAN, plan : PlanLock, at : {proc'.at},
               receipt : {proc'.receipt}]
  BY <1>1, <1>3 DEF IInv, Types, Pcs, BindPcs
<1>6. Types'
  BY <1>1, <1>5 DEF IInv, Types, TypeOK, Present, counters
<1>7. BoundIsBacked'
  BY <1>1 DEF IInv, BoundIsBacked, Present
<1>8. Binding'
  <2>1. Roots' = Roots
    BY <1>1, <1>5 DEF Roots
  <2>2. Left' = proc.written \cap nodes
    BY <1>5 DEF Left, HandPcs
  <2>3. proc.partial => proc.written \subseteq Left'
    BY <1>2, <2>2 DEF Roots
  <2>4. \A p \in nodes : UpToDate(p)'
    BY <1>1, <1>4 DEF UpToDate
  <2>5. proc'.plan = [tree |-> tree', roots |-> Roots'] /\ Closure(tree, Roots)' = nodes
    BY <1>1, <1>5, <2>1 DEF plan, nodes
  <2>6. proc'.pc \in {"lock", "bind"} /\ (proc'.pc = "bind" => proc'.plan \in locks')
    BY <1>1, <1>5
  <2> QED
    BY <1>5, <2>2, <2>3, <2>4, <2>5, <2>6 DEF Binding
<1>9. Starting' /\ Installing' /\ Closing' /\ Sealing'
  BY <1>5 DEF Starting, Installing, Closing, Sealing, At, InstallPcs, SealPcs
<1> QED
  BY <1>6, <1>7, <1>8, <1>9 DEF IInv

\* What most of the steps that bind leave as it is.
LEMMA BindFacts ==
  ASSUME IInv, proc.pc \in BindPcs
  PROVE  /\ proc.plan = [tree |-> tree, roots |-> Roots]
         /\ \A p \in Closure(tree, Roots) : UpToDate(p)
         /\ Left \subseteq Closure(tree, Roots) /\ Closure(tree, Roots) \subseteq Package
         /\ proc.partial => \A p \in proc.written \ Left : record[p].format = 4
         /\ \A p \in Left : p \in Package /\ p \in Present
<1>1. /\ proc.plan = [tree |-> tree, roots |-> Roots]
      /\ \A p \in Closure(tree, Roots) : UpToDate(p)
      /\ Left \subseteq Closure(tree, Roots)
      /\ proc.partial => \A p \in proc.written \ Left : record[p].format = 4
  BY DEF IInv, Binding
<1>2. Closure(tree, Roots) \subseteq Package
  BY RootsType
<1>3. \A p \in Left : p \in Package /\ p \in Present
  BY <1>1, <1>2 DEF UpToDate, Present
<1> QED
  BY <1>1, <1>2, <1>3

\* A step from one of them to the next that publishes nothing.
LEMMA BindKeeps ==
  ASSUME IInv, proc.pc \in BindPcs, proc'.pc \in BindPcs,
         proc' \in [pc : Pcs, kind : {proc.kind}, names : SUBSET Package, todo : SUBSET Package,
               written : {proc.written}, partial : {proc.partial}, plan : {proc.plan},
               at : {proc'.at}, receipt : {proc.receipt}],
         UNCHANGED <<tree, world, record, counters>>, Left' = Left,
         locks \subseteq locks', locks' \subseteq PlanLock,
         slices' \in [Package -> SUBSET PlanLock], \A p \in Package : slices[p] \subseteq slices'[p],
         \A p \in Package \ Present : slices'[p] = {},
         draft' \subseteq Present, temps' \subseteq {"lock", "receipt", "current"},
         proc'.pc \notin {"lock", "lock written"} => proc.plan \in locks',
         proc'.pc \in {"meta", "meta written"} => proc.plan \in slices'[proc'.at]
  PROVE  IInv'
<1>1. /\ proc'.written = proc.written /\ proc'.partial = proc.partial /\ proc'.plan = proc.plan
  OBVIOUS
<1>2. Present' = Present /\ Present \subseteq Package
  BY DEF Present
<1>3. Types'
  BY <1>1, <1>2 DEF IInv, Types, TypeOK, counters
<1>4. BoundIsBacked'
  BY <1>2 DEF IInv, BoundIsBacked, Types, TypeOK
<1>5. Binding'
  <2>1. Roots' = Roots
    BY <1>1 DEF Roots
  <2>2. \A p \in Closure(tree, Roots) : UpToDate(p)'
    BY BindFacts DEF UpToDate
  <2>3. /\ proc'.plan = [tree |-> tree', roots |-> Roots'] /\ Left' \subseteq Closure(tree', Roots')
        /\ proc'.partial => \A p \in proc'.written \ Left' : record'[p].format = 4
    BY <1>1, <2>1, BindFacts
  <2> QED
    BY <1>1, <2>1, <2>2, <2>3 DEF Binding
<1>6. Starting' /\ Installing' /\ Closing' /\ Sealing'
  BY DEF Starting, Installing, Closing, Sealing, At, InstallPcs, SealPcs, BindPcs, HandPcs
<1> QED
  BY <1>3, <1>4, <1>5, <1>6 DEF IInv

LEMMA KeepsWriteLock == ASSUME IInv, WriteLock PROVE IInv'
<1>1. /\ proc.pc = "lock" /\ proc' = [proc EXCEPT !.pc = "lock written"]
      /\ temps' = temps \cup {"lock"}
      /\ UNCHANGED <<tree, world, record, counters>> /\ UNCHANGED <<slices, draft, locks>>
  BY DEF WriteLock, Goto, At
<1>2. /\ proc'.pc = "lock written" /\ proc'.todo = proc.todo /\ proc'.at = proc.at
      /\ proc' \in [pc : Pcs, kind : {proc.kind}, names : SUBSET Package, todo : SUBSET Package,
               written : {proc.written}, partial : {proc.partial}, plan : {proc.plan},
               at : {proc'.at}, receipt : {proc.receipt}]
  BY <1>1 DEF IInv, Types, Pcs, BindPcs, HandPcs
<1>3. proc.pc \in BindPcs /\ proc'.pc \in BindPcs /\ Left' = Left
  BY <1>1, <1>2 DEF BindPcs, HandPcs, Left
<1>4. /\ locks \subseteq PlanLock /\ slices \in [Package -> SUBSET PlanLock] /\ proc.plan \in PlanLock
      /\ draft \subseteq Present /\ temps \subseteq {"lock", "receipt", "current"}
      /\ \A p \in Package \ Present : slices[p] = {}
  BY DEF IInv, Types, TypeOK, Present
<1>5. proc.pc \notin {"lock", "lock written"} => proc.plan \in locks
  BY <1>3 DEF IInv, Binding
<1> QED
  BY <1>1, <1>2, <1>3, <1>4, BindKeeps

LEMMA KeepsPublishLock == ASSUME IInv, PublishLock PROVE IInv'
<1>1. /\ proc.pc = "lock written" /\ proc' = [proc EXCEPT !.pc = "bind"]
      /\ locks' = locks \cup {proc.plan} /\ temps' = temps \ {"lock"}
      /\ UNCHANGED <<tree, world, record, counters>> /\ UNCHANGED <<slices, draft>>
  BY DEF PublishLock, Goto, At
<1>2. /\ proc'.pc = "bind" /\ proc'.todo = proc.todo /\ proc'.at = proc.at
      /\ proc' \in [pc : Pcs, kind : {proc.kind}, names : SUBSET Package, todo : SUBSET Package,
               written : {proc.written}, partial : {proc.partial}, plan : {proc.plan},
               at : {proc'.at}, receipt : {proc.receipt}]
  BY <1>1 DEF IInv, Types, Pcs, BindPcs, HandPcs
<1>3. proc.pc \in BindPcs /\ proc'.pc \in BindPcs /\ Left' = Left
  BY <1>1, <1>2 DEF BindPcs, HandPcs, Left
<1>4. /\ locks \subseteq PlanLock /\ slices \in [Package -> SUBSET PlanLock] /\ proc.plan \in PlanLock
      /\ draft \subseteq Present /\ temps \subseteq {"lock", "receipt", "current"}
      /\ \A p \in Package \ Present : slices[p] = {}
  BY DEF IInv, Types, TypeOK, Present
<1>5. proc.pc \notin {"lock", "lock written"} => proc.plan \in locks
  BY <1>3 DEF IInv, Binding
<1> QED
  BY <1>1, <1>2, <1>3, <1>4, BindKeeps

LEMMA KeepsWriteSlice == ASSUME IInv, WriteSlice PROVE IInv'
<1>1. /\ proc.pc = "slice" /\ proc' = [proc EXCEPT !.pc = "slice written"]
      /\ draft' = draft \cup {proc.at}
      /\ UNCHANGED <<tree, world, record, counters>> /\ UNCHANGED <<slices, locks, temps>>
  BY DEF WriteSlice, Goto, At
<1>2. /\ proc'.pc = "slice written" /\ proc'.todo = proc.todo /\ proc'.at = proc.at
      /\ proc' \in [pc : Pcs, kind : {proc.kind}, names : SUBSET Package, todo : SUBSET Package,
               written : {proc.written}, partial : {proc.partial}, plan : {proc.plan},
               at : {proc'.at}, receipt : {proc.receipt}]
  BY <1>1 DEF IInv, Types, Pcs, BindPcs, HandPcs
<1>3. proc.pc \in BindPcs /\ proc'.pc \in BindPcs /\ Left' = Left
  BY <1>1, <1>2 DEF BindPcs, HandPcs, Left
<1>4. /\ locks \subseteq PlanLock /\ slices \in [Package -> SUBSET PlanLock] /\ proc.plan \in PlanLock
      /\ draft \subseteq Present /\ temps \subseteq {"lock", "receipt", "current"}
      /\ \A p \in Package \ Present : slices[p] = {}
  BY DEF IInv, Types, TypeOK, Present
<1>5. proc.pc \notin {"lock", "lock written"} => proc.plan \in locks
  BY <1>3 DEF IInv, Binding
<1>6. proc.at \in Present
  BY <1>1, <1>3, BindFacts DEF Left, HandPcs
<1> QED
  BY <1>1, <1>2, <1>3, <1>4, <1>5, <1>6, BindKeeps

LEMMA KeepsPublishSlice == ASSUME IInv, PublishSlice PROVE IInv'
<1>1. /\ proc.pc = "slice written" /\ proc' = [proc EXCEPT !.pc = "meta"]
      /\ slices' = [slices EXCEPT ![proc.at] = slices[proc.at] \cup {proc.plan}] /\ draft' = draft \ {proc.at}
      /\ UNCHANGED <<tree, world, record, counters>> /\ UNCHANGED <<locks, temps>>
  BY DEF PublishSlice, Goto, At
<1>2. /\ proc'.pc = "meta" /\ proc'.todo = proc.todo /\ proc'.at = proc.at
      /\ proc' \in [pc : Pcs, kind : {proc.kind}, names : SUBSET Package, todo : SUBSET Package,
               written : {proc.written}, partial : {proc.partial}, plan : {proc.plan},
               at : {proc'.at}, receipt : {proc.receipt}]
  BY <1>1 DEF IInv, Types, Pcs, BindPcs, HandPcs
<1>3. proc.pc \in BindPcs /\ proc'.pc \in BindPcs /\ Left' = Left
  BY <1>1, <1>2 DEF BindPcs, HandPcs, Left
<1>4. /\ locks \subseteq PlanLock /\ slices \in [Package -> SUBSET PlanLock] /\ proc.plan \in PlanLock
      /\ draft \subseteq Present /\ temps \subseteq {"lock", "receipt", "current"}
      /\ \A p \in Package \ Present : slices[p] = {}
  BY DEF IInv, Types, TypeOK, Present
<1>5. proc.pc \notin {"lock", "lock written"} => proc.plan \in locks
  BY <1>3 DEF IInv, Binding
<1>6. proc.at \in Present /\ proc.at \in Package
  BY <1>1, <1>3, BindFacts DEF Left, HandPcs
<1>7. /\ slices' \in [Package -> SUBSET PlanLock] /\ \A p \in Package : slices[p] \subseteq slices'[p]
      /\ \A p \in Package \ Present : slices'[p] = {}
      /\ proc.plan \in slices'[proc.at]
  BY <1>1, <1>4, <1>6
<1> QED
  BY <1>1, <1>2, <1>3, <1>4, <1>5, <1>7, BindKeeps

LEMMA KeepsWriteMeta == ASSUME IInv, WriteMeta PROVE IInv'
<1>1. /\ proc.pc = "meta" /\ proc' = [proc EXCEPT !.pc = "meta written"]
      /\ draft' = draft \cup {proc.at}
      /\ UNCHANGED <<tree, world, record, counters>> /\ UNCHANGED <<slices, locks, temps>>
  BY DEF WriteMeta, Goto, At
<1>2. /\ proc'.pc = "meta written" /\ proc'.todo = proc.todo /\ proc'.at = proc.at
      /\ proc' \in [pc : Pcs, kind : {proc.kind}, names : SUBSET Package, todo : SUBSET Package,
               written : {proc.written}, partial : {proc.partial}, plan : {proc.plan},
               at : {proc'.at}, receipt : {proc.receipt}]
  BY <1>1 DEF IInv, Types, Pcs, BindPcs, HandPcs
<1>3. proc.pc \in BindPcs /\ proc'.pc \in BindPcs /\ Left' = Left
  BY <1>1, <1>2 DEF BindPcs, HandPcs, Left
<1>4. /\ locks \subseteq PlanLock /\ slices \in [Package -> SUBSET PlanLock] /\ proc.plan \in PlanLock
      /\ draft \subseteq Present /\ temps \subseteq {"lock", "receipt", "current"}
      /\ \A p \in Package \ Present : slices[p] = {}
  BY DEF IInv, Types, TypeOK, Present
<1>5. proc.pc \notin {"lock", "lock written"} => proc.plan \in locks
  BY <1>3 DEF IInv, Binding
<1>6. proc.at \in Present /\ proc.plan \in slices[proc.at]
  BY <1>1, <1>3, BindFacts DEF Left, HandPcs, IInv, Binding
<1> QED
  BY <1>1, <1>2, <1>3, <1>4, <1>5, <1>6, BindKeeps

LEMMA KeepsBind == ASSUME IInv, NEW q \in Package, Bind(q) PROVE IInv'
<1>1. /\ proc.pc = "bind" /\ q \in proc.todo
      /\ proc' = [proc EXCEPT !.pc = IF proc.plan \in slices[q] THEN "meta" ELSE "slice",
                              !.at = q, !.todo = proc.todo \ {q}]
      /\ UNCHANGED <<tree, world, record, counters>> /\ UNCHANGED <<slices, draft, locks, temps>>
  BY DEF Bind, At, published
<1>2. /\ proc'.pc = (IF proc.plan \in slices[q] THEN "meta" ELSE "slice")
      /\ proc'.todo = proc.todo \ {q} /\ proc'.at = q
      /\ proc' \in [pc : Pcs, kind : {proc.kind}, names : SUBSET Package, todo : SUBSET Package,
               written : {proc.written}, partial : {proc.partial}, plan : {proc.plan},
               at : {proc'.at}, receipt : {proc.receipt}]
  BY <1>1 DEF IInv, Types, Pcs, BindPcs, HandPcs
<1>3. proc.pc \in BindPcs /\ proc'.pc \in BindPcs /\ Left' = Left
  BY <1>1, <1>2 DEF BindPcs, HandPcs, Left
<1>4. /\ locks \subseteq PlanLock /\ slices \in [Package -> SUBSET PlanLock] /\ proc.plan \in PlanLock
      /\ draft \subseteq Present /\ temps \subseteq {"lock", "receipt", "current"}
      /\ \A p \in Package \ Present : slices[p] = {}
  BY DEF IInv, Types, TypeOK, Present
<1>5. proc.pc \notin {"lock", "lock written"} => proc.plan \in locks
  BY <1>3 DEF IInv, Binding
<1>6. proc.plan \in locks /\ (proc'.pc \in {"meta", "meta written"} => proc.plan \in slices[q])
  BY <1>1, <1>2, <1>5
<1> QED
  BY <1>1, <1>2, <1>3, <1>4, <1>6, BindKeeps

LEMMA KeepsPublishMeta == ASSUME IInv, PublishMeta PROVE IInv'
<1> DEFINE p == proc.at
<1>1. /\ proc.pc = "meta written" /\ proc' = [proc EXCEPT !.pc = "bind"]
      /\ record' = [record EXCEPT ![p].format = 4, ![p].plan = proc.plan]
      /\ draft' = draft \ {p}
      /\ UNCHANGED <<tree, world, slices, locks, receipts, current, temps, counters>>
  BY DEF PublishMeta, Goto, At
<1>2. proc.pc \in BindPcs /\ p \in Left /\ Left = proc.todo \cup {p}
  BY <1>1 DEF BindPcs, HandPcs, Left
<1>3. /\ p \in Package /\ record[p] \in Record /\ UpToDate(p) /\ proc.plan \in PlanLock
      /\ record \in [Package -> Record]
  BY <1>2, BindFacts DEF IInv, Types, TypeOK
<1>4. /\ proc.plan \in locks /\ proc.plan \in slices[p]
  BY <1>1, <1>2 DEF IInv, Binding
<1>5. /\ proc'.pc = "bind" /\ proc'.todo = proc.todo /\ proc'.written = proc.written
      /\ proc'.partial = proc.partial /\ proc'.plan = proc.plan
      /\ proc' \in [pc : Pcs, kind : {proc'.kind}, names : SUBSET Package, todo : SUBSET Package,
               written : SUBSET Package, partial : BOOLEAN, plan : PlanLock, at : {proc'.at},
               receipt : {proc'.receipt}]
  BY <1>1 DEF IInv, Types, Pcs, BindPcs
<1>6. /\ record' \in [Package -> Record] /\ record'[p].format = 4 /\ record'[p].plan = proc.plan
      /\ record'[p].print = record[p].print
      /\ \A q \in Package \ {p} : record'[q] = record[q]
  <2>1. record[p] \in [format : {3, 4}, print : Nat, deps : SUBSET Package,
                       stamp : 0 .. Stamps - 1, plan : PlanLock]
    BY <1>3 DEF Record, Absent, UpToDate
  <2>2. /\ [record[p] EXCEPT !.format = 4, !.plan = proc.plan] \in Record
        /\ [record[p] EXCEPT !.format = 4, !.plan = proc.plan].format = 4
        /\ [record[p] EXCEPT !.format = 4, !.plan = proc.plan].plan = proc.plan
        /\ [record[p] EXCEPT !.format = 4, !.plan = proc.plan].print = record[p].print
    BY <1>3, <2>1 DEF Record
  <2>3. record' = [record EXCEPT ![p] = [record[p] EXCEPT !.format = 4, !.plan = proc.plan]]
    BY <1>1, <1>3
  <2> QED
    BY <1>3, <2>2, <2>3
<1>7. Present' = Present
  BY <1>3, <1>6 DEF Present, UpToDate
<1>8. Types'
  BY <1>1, <1>5, <1>6, <1>7 DEF IInv, Types, TypeOK, counters
<1>9. BoundIsBacked'
  <2>1. BoundIsBacked /\ locks' = locks /\ slices' = slices
    BY <1>1 DEF IInv
  <2> HIDE DEF p
  <2>2. record'[p].plan \in locks' /\ record'[p].plan \in slices'[p]
    BY <1>4, <1>6, <2>1
  <2>3. ASSUME NEW q \in Present', record'[q].format = 4
        PROVE  record'[q].plan \in locks' /\ record'[q].plan \in slices'[q]
    <3>1. CASE q = p
      BY <2>2, <3>1
    <3>2. CASE q # p
      <4>1. q \in Package /\ q \in Present
        BY <1>7, <2>3 DEF Present
      <4>2. record'[q] = record[q]
        BY <1>6, <3>2, <4>1
      <4> QED
        BY <2>1, <2>3, <4>1, <4>2 DEF BoundIsBacked
    <3> QED
      BY <3>1, <3>2
  <2> QED
    BY <2>3 DEF BoundIsBacked
<1>10. Binding'
  <2>1. Roots' = Roots /\ Left' = proc.todo
    BY <1>1, <1>5 DEF Roots, Left, HandPcs
  <2>2. \A q \in Closure(tree, Roots) : UpToDate(q)'
    BY <1>1, <1>2, <1>3, <1>6, BindFacts DEF UpToDate
  <2>3. proc.partial => \A q \in proc.written \ Left' : record'[q].format = 4
    <3>1. proc.written \subseteq Package
      BY DEF IInv, Types, TypeOK
    <3> QED
      BY <1>2, <1>6, <2>1, <3>1, BindFacts
  <2>4. proc'.plan = [tree |-> tree', roots |-> Roots'] /\ Left' \subseteq Closure(tree', Roots')
    BY <1>1, <1>2, <1>5, <2>1, BindFacts
  <2> QED
    BY <1>1, <1>4, <1>5, <2>1, <2>2, <2>3, <2>4 DEF Binding
<1>11. Starting' /\ Installing' /\ Closing' /\ Sealing'
  BY <1>5 DEF Starting, Installing, Closing, Sealing, At, InstallPcs, SealPcs
<1> QED
  BY <1>8, <1>9, <1>10, <1>11 DEF IInv

\* A command that failed ends here; another one seals.
LEMMA KeepsBound == ASSUME IInv, Bound PROVE IInv'
<1>1. /\ proc.pc = "bind" /\ proc.todo = {}
      /\ UNCHANGED <<tree, world, record, published, counters>>
  BY DEF Bound, At
<1>2. CASE proc.partial
  <2>1. proc' = Idle
    BY <1>2 DEF Bound, Stop
  <2> QED
    BY <1>1, <2>1, EndKeeps DEF IInv, Types, TypeOK, published, counters
<1>3. CASE ~proc.partial
  <2>1. proc' = [proc EXCEPT !.pc = "receipt"]
    BY <1>3 DEF Bound, Goto
  <2>2. /\ proc'.pc = "receipt" /\ ~proc'.partial /\ proc'.plan = proc.plan
        /\ proc' \in [pc : Pcs, kind : {proc'.kind}, names : SUBSET Package, todo : SUBSET Package,
               written : SUBSET Package, partial : BOOLEAN, plan : PlanLock, at : {proc'.at},
               receipt : {proc'.receipt}]
    BY <1>3, <2>1 DEF IInv, Types, Pcs, SealPcs
  <2>3. Types'
    BY <1>1, <2>2 DEF IInv, Types, TypeOK, Present, published, counters
  <2>4. BoundIsBacked'
    BY <1>1 DEF IInv, BoundIsBacked, Present, published
  <2>5. Sealing'
    <3>1. Roots = world /\ proc.pc \in BindPcs
      BY <1>1, <1>3 DEF Roots, BindPcs
    <3>2. proc.plan = [tree |-> tree, roots |-> world] /\ proc.plan \in locks
      BY <1>1, <3>1 DEF IInv, Binding
    <3>3. \A p \in Closure(tree, world) : UpToDate(p)'
      BY <1>1, <3>1, BindFacts DEF UpToDate
    <3> QED
      BY <1>1, <2>2, <3>2, <3>3 DEF Sealing, published
  <2>6. Starting' /\ Installing' /\ Closing' /\ Binding'
    BY <2>2 DEF Starting, Installing, Closing, Binding, At, InstallPcs, BindPcs, HandPcs
  <2> QED
    BY <2>3, <2>4, <2>5, <2>6 DEF IInv
<1> QED
  BY <1>2, <1>3

\* What the steps that seal leave as it is.
LEMMA SealKeeps ==
  ASSUME IInv, proc.pc \in SealPcs, proc'.pc \in SealPcs \ {"receipt"},
         proc' \in [pc : Pcs, kind : {proc.kind}, names : {proc.names}, todo : {proc.todo},
               written : {proc.written}, partial : {proc.partial}, plan : {proc.plan},
               at : {proc.at}, receipt : {proc'.receipt}],
         UNCHANGED <<tree, world, record, slices, draft, locks, counters>>,
         receipts \subseteq receipts', temps' \subseteq {"lock", "receipt", "current"},
         proc'.receipt = Receipt, \A p \in Closure(tree, world) : record[p].format = 4,
         proc'.pc \in {"current", "current written"} => proc'.receipt \in receipts'
  PROVE  IInv'
<1>1. /\ proc'.partial = proc.partial /\ proc'.plan = proc.plan
      /\ proc' \in [pc : Pcs, kind : {proc'.kind}, names : SUBSET Package, todo : SUBSET Package,
               written : SUBSET Package, partial : BOOLEAN, plan : PlanLock, at : {proc'.at},
               receipt : {proc'.receipt}]
  BY DEF IInv, Types, TypeOK
<1>2. Types'
  BY <1>1 DEF IInv, Types, TypeOK, Present, counters
<1>3. BoundIsBacked'
  BY DEF IInv, BoundIsBacked, Present
<1>4. Sealing'
  <2>1. Receipt' = Receipt
    BY <1>1 DEF Receipt, Facts, Present
  <2>2. /\ ~proc.partial /\ proc.plan = [tree |-> tree, roots |-> world] /\ proc.plan \in locks
        /\ \A p \in Closure(tree, world) : UpToDate(p)
    BY DEF IInv, Sealing
  <2>3. \A p \in Closure(tree, world) : UpToDate(p)'
    BY <2>2 DEF UpToDate
  <2> QED
    BY <1>1, <2>1, <2>2, <2>3 DEF Sealing
<1>5. Starting' /\ Installing' /\ Closing' /\ Binding'
  BY DEF Starting, Installing, Closing, Binding, At, InstallPcs, BindPcs, HandPcs, SealPcs
<1> QED
  BY <1>2, <1>3, <1>4, <1>5 DEF IInv

LEMMA KeepsWriteReceipt == ASSUME IInv, WriteReceipt PROVE IInv'
<1>1. /\ proc.pc = "receipt" /\ \A p \in Closure(tree, world) : record[p].format = 4
      /\ proc' = [proc EXCEPT !.receipt = Receipt,
                    !.pc = IF Receipt \in receipts THEN "current" ELSE "receipt written"]
      /\ temps' = (IF Receipt \in receipts THEN temps ELSE temps \cup {"receipt"})
      /\ UNCHANGED <<tree, world, record, slices, draft, locks, receipts, counters>>
  BY DEF WriteReceipt, At
<1>2. /\ proc'.pc = (IF Receipt \in receipts THEN "current" ELSE "receipt written")
      /\ proc'.receipt = Receipt
      /\ proc' \in [pc : Pcs, kind : {proc.kind}, names : {proc.names}, todo : {proc.todo},
               written : {proc.written}, partial : {proc.partial}, plan : {proc.plan},
               at : {proc.at}, receipt : {proc'.receipt}]
  <2> DEFINE receipt == Receipt
  <2> HIDE DEF receipt
  <2>1. proc' = [proc EXCEPT !.receipt = receipt,
                   !.pc = IF receipt \in receipts THEN "current" ELSE "receipt written"]
    BY <1>1 DEF receipt
  <2>2. /\ proc'.pc = (IF receipt \in receipts THEN "current" ELSE "receipt written")
        /\ proc'.receipt = receipt
        /\ proc' \in [pc : Pcs, kind : {proc.kind}, names : {proc.names}, todo : {proc.todo},
               written : {proc.written}, partial : {proc.partial}, plan : {proc.plan},
               at : {proc.at}, receipt : {receipt}]
    BY <2>1 DEF IInv, Types, Pcs, SealPcs
  <2> QED
    BY <2>2 DEF receipt
<1>3. proc.pc \in SealPcs /\ proc'.pc \in SealPcs \ {"receipt"}
  BY <1>1, <1>2 DEF SealPcs
<1>4. temps' \subseteq {"lock", "receipt", "current"}
  BY <1>1 DEF IInv, Types, TypeOK
<1>5. proc'.pc \in {"current", "current written"} => proc'.receipt \in receipts'
  BY <1>1, <1>2
<1> QED
  BY <1>1, <1>2, <1>3, <1>4, <1>5, SealKeeps

\* What is known of a receipt once it is written.
LEMMA ReceiptFacts ==
  ASSUME IInv, proc.pc \in SealPcs \ {"receipt"}
  PROVE  /\ proc.receipt = Receipt /\ \A p \in Closure(tree, world) : record[p].format = 4
         /\ temps \subseteq {"lock", "receipt", "current"}
BY DEF IInv, Sealing, Types, TypeOK

LEMMA KeepsPublishReceipt == ASSUME IInv, PublishReceipt PROVE IInv'
<1>1. /\ proc.pc = "receipt written" /\ proc' = [proc EXCEPT !.pc = "current"]
      /\ receipts' = receipts \cup {proc.receipt} /\ temps' = temps \ {"receipt"}
      /\ UNCHANGED <<tree, world, record, slices, draft, locks, counters>>
  BY DEF PublishReceipt, Goto, At
<1>2. /\ proc'.pc = "current" /\ proc'.receipt = proc.receipt
      /\ proc' \in [pc : Pcs, kind : {proc.kind}, names : {proc.names}, todo : {proc.todo},
               written : {proc.written}, partial : {proc.partial}, plan : {proc.plan},
               at : {proc.at}, receipt : {proc'.receipt}]
  BY <1>1 DEF IInv, Types, Pcs, SealPcs
<1>3. proc.pc \in SealPcs \ {"receipt"} /\ proc'.pc \in SealPcs \ {"receipt"}
  BY <1>1, <1>2 DEF SealPcs
<1> QED
  BY <1>1, <1>2, <1>3, ReceiptFacts, SealKeeps

LEMMA KeepsWriteCurrent == ASSUME IInv, WriteCurrent PROVE IInv'
<1>1. /\ proc.pc = "current" /\ proc' = [proc EXCEPT !.pc = "current written"]
      /\ temps' = temps \cup {"current"}
      /\ UNCHANGED <<tree, world, record, slices, draft, locks, receipts, counters>>
  BY DEF WriteCurrent, Goto, At
<1>2. /\ proc'.pc = "current written" /\ proc'.receipt = proc.receipt
      /\ proc' \in [pc : Pcs, kind : {proc.kind}, names : {proc.names}, todo : {proc.todo},
               written : {proc.written}, partial : {proc.partial}, plan : {proc.plan},
               at : {proc.at}, receipt : {proc'.receipt}]
  BY <1>1 DEF IInv, Types, Pcs, SealPcs
<1>3. proc.pc \in SealPcs \ {"receipt"} /\ proc'.pc \in SealPcs \ {"receipt"}
  BY <1>1, <1>2 DEF SealPcs
<1>4. proc.receipt \in receipts
  BY <1>1 DEF IInv, Sealing, SealPcs
<1> QED
  BY <1>1, <1>2, <1>3, <1>4, ReceiptFacts, SealKeeps

\* The ends of a command.
LEMMA KeepsEnds ==
  ASSUME IInv, Kill \/ PlanRefused \/ CloseRefused \/ PublishCurrent
  PROVE  IInv'
<1>1. /\ proc' = Idle /\ UNCHANGED <<tree, world, record, slices, draft, locks>>
      /\ temps' \in SUBSET {"lock", "receipt", "current"} /\ kills' \in Nat
  <2>1. temps \subseteq {"lock", "receipt", "current"} /\ kills \in Nat
    BY DEF IInv, Types, TypeOK
  <2>2. CASE Kill
    BY <2>1, <2>2 DEF Kill, Stop, published
  <2>3. CASE PlanRefused
    BY <2>1, <2>3 DEF PlanRefused, FailPreflight, Stop, counters
  <2>4. CASE CloseRefused
    BY <2>1, <2>4 DEF CloseRefused, FailPreflight, Stop, published, counters
  <2>5. CASE PublishCurrent
    BY <2>1, <2>5 DEF PublishCurrent, Stop, counters
  <2> QED
    BY <2>2, <2>3, <2>4, <2>5
<1>2. world' \in SUBSET Package
  BY <1>1 DEF IInv, Types, TypeOK
<1> QED
  BY <1>1, <1>2, EndKeeps

-----------------------------------------------------------------------------
(***************************************************************************)
(* The removal of a package                                                *)
(***************************************************************************)

LEMMA KeepsErase == ASSUME IInv, NEW p \in Package, Erase(p) PROVE IInv'
<1>1. /\ record' = [record EXCEPT ![p] = Absent] /\ slices' = [slices EXCEPT ![p] = {}]
      /\ draft' = draft \ {p}
      /\ proc' = [Idle EXCEPT !.pc = "unworld", !.kind = "remove", !.at = p]
      /\ UNCHANGED <<tree, world, locks, temps, kills>>
  BY DEF Erase, EraseRecord
<1>2. /\ proc'.pc = "unworld" /\ proc'.written = {} /\ ~proc'.partial
      /\ proc' \in [pc : Pcs, kind : {proc'.kind}, names : SUBSET Package, todo : SUBSET Package,
               written : SUBSET Package, partial : BOOLEAN, plan : PlanLock, at : {proc'.at},
               receipt : {proc'.receipt}]
  BY <1>1, IdleType DEF Pcs
<1>3. /\ record' \in [Package -> Record] /\ slices' \in [Package -> SUBSET PlanLock]
      /\ record'[p].format = 0 /\ slices'[p] = {}
      /\ \A q \in Package \ {p} : record'[q] = record[q] /\ slices'[q] = slices[q]
  BY <1>1 DEF IInv, Types, TypeOK, Record, Absent
<1>4. Present' = Present \ {p}
  BY <1>3 DEF Present
<1>5. Types'
  <2>1. TypeOK /\ kills \in Nat
    BY DEF IInv, Types
  <2>2. \A q \in Package \ Present' : slices'[q] = {} /\ q \notin draft'
    BY <1>1, <1>3, <1>4, <2>1 DEF TypeOK
  <2> QED
    BY <1>1, <1>2, <1>3, <2>1, <2>2 DEF Types, TypeOK
<1>6. BoundIsBacked'
  <2>1. ASSUME NEW q \in Present', record'[q].format = 4
        PROVE  record'[q].plan \in locks' /\ record'[q].plan \in slices'[q]
    <3>1. q \in Present /\ record'[q] = record[q] /\ slices'[q] = slices[q]
      BY <1>3, <1>4 DEF Present
    <3> QED
      BY <1>1, <2>1, <3>1 DEF IInv, BoundIsBacked
  <2> QED
    BY <2>1 DEF BoundIsBacked
<1>7. Starting' /\ Installing' /\ Closing' /\ Binding' /\ Sealing'
  BY <1>2 DEF Starting, Installing, Closing, Binding, Sealing, At, InstallPcs, BindPcs, HandPcs, SealPcs
<1> QED
  BY <1>5, <1>6, <1>7 DEF IInv

LEMMA KeepsUnworld == ASSUME IInv, Unworld PROVE IInv'
<1>1. /\ proc.pc = "unworld" /\ proc.written = {} /\ ~proc.partial
      /\ proc' = [proc EXCEPT !.pc = "reclose"] /\ world' = world \ {proc.at}
      /\ UNCHANGED <<tree, record, published, counters>>
  BY DEF Unworld, Goto, At, IInv, Starting
<1>2. /\ proc'.pc = "reclose" /\ proc'.written = {} /\ ~proc'.partial
      /\ proc' \in [pc : Pcs, kind : {proc'.kind}, names : SUBSET Package, todo : SUBSET Package,
               written : SUBSET Package, partial : BOOLEAN, plan : PlanLock, at : {proc'.at},
               receipt : {proc'.receipt}]
  BY <1>1 DEF IInv, Types, Pcs
<1>3. Types'
  BY <1>1, <1>2 DEF IInv, Types, TypeOK, Present, published, counters
<1>4. BoundIsBacked'
  BY <1>1 DEF IInv, BoundIsBacked, Present, published
<1>5. Starting' /\ Installing' /\ Closing' /\ Binding' /\ Sealing'
  BY <1>2 DEF Starting, Installing, Closing, Binding, Sealing, At, InstallPcs, BindPcs, HandPcs, SealPcs
<1> QED
  BY <1>3, <1>4, <1>5 DEF IInv

LEMMA KeepsReclose == ASSUME IInv, Reclose PROVE IInv'
<1>1. /\ proc.pc = "reclose" /\ ~proc.partial
      /\ UNCHANGED <<tree, world, record, slices, draft, locks, receipts, temps, counters>>
  BY DEF Reclose, At, IInv, Starting
<1>2. CASE proc' = Idle
  BY <1>1, <1>2, EndKeeps DEF IInv, Types, TypeOK, counters
<1>3. CASE proc' = [proc EXCEPT !.pc = "close"]
  <2>1. /\ proc'.pc = "close" /\ ~proc'.partial
        /\ proc' \in [pc : Pcs, kind : {proc'.kind}, names : SUBSET Package, todo : SUBSET Package,
               written : SUBSET Package, partial : BOOLEAN, plan : PlanLock, at : {proc'.at},
               receipt : {proc'.receipt}]
    BY <1>1, <1>3 DEF IInv, Types, Pcs
  <2>2. Types'
    BY <1>1, <2>1 DEF IInv, Types, TypeOK, Present, counters
  <2>3. BoundIsBacked'
    BY <1>1 DEF IInv, BoundIsBacked, Present
  <2>4. Starting' /\ Installing' /\ Closing' /\ Binding' /\ Sealing'
    BY <2>1 DEF Starting, Installing, Closing, Binding, Sealing, At, InstallPcs, BindPcs, HandPcs, SealPcs
  <2> QED
    BY <2>2, <2>3, <2>4 DEF IInv
<1> QED
  BY <1>2, <1>3 DEF Reclose, Goto, Stop

-----------------------------------------------------------------------------
(***************************************************************************)
(* The theorems                                                            *)
(***************************************************************************)

LEMMA InitHolds == Init => IInv
<1> SUFFICES ASSUME Init PROVE IInv
  OBVIOUS
<1>1. proc = Idle /\ proc.pc = "idle"
  BY IdleType DEF Init
<1>2. Present = {}
  BY DEF Init, Present, Absent
<1>3. Types
  BY <1>1, <1>2, IdleType, RectifyAssumption DEF Init, Types, TypeOK, Record
<1>4. BoundIsBacked
  BY <1>2 DEF BoundIsBacked
<1>5. Starting /\ Installing /\ Closing /\ Binding /\ Sealing
  BY <1>1 DEF Starting, Installing, Closing, Binding, Sealing, At, InstallPcs, BindPcs, HandPcs, SealPcs
<1> QED
  BY <1>3, <1>4, <1>5 DEF IInv

LEMMA NextKeeps == IInv /\ [Next]_vars => IInv'
<1> SUFFICES ASSUME IInv, [Next]_vars PROVE IInv'
  OBVIOUS
<1>1. CASE Kill \/ PlanRefused \/ CloseRefused \/ PublishCurrent
  BY <1>1, KeepsEnds
<1>2. CASE Newspeak
  BY <1>2, KeepsNewspeak
<1>3. CASE StartSync
  <2>1. world \in SUBSET Package
    BY DEF IInv, Types, TypeOK
  <2> QED
    BY <1>3, <2>1, StartKeeps DEF StartSync
<1>4. CASE FailInstall
  BY <1>4, KeepsFailInstall
<1>5. CASE Plan \/ Installed \/ Applied
  BY <1>5, KeepsPlan, KeepsInstalled, KeepsApplied
<1>6. ASSUME NEW p \in Package, Install(p) \/ Bind(p) PROVE IInv'
  BY <1>6, KeepsInstall, KeepsBind
<1>7. CASE Close \/ WriteLock \/ PublishLock
  BY <1>7, KeepsClose, KeepsWriteLock, KeepsPublishLock
<1>8. CASE WriteSlice \/ PublishSlice \/ WriteMeta \/ PublishMeta \/ Bound
  BY <1>8, KeepsWriteSlice, KeepsPublishSlice, KeepsWriteMeta, KeepsPublishMeta, KeepsBound
<1>9. CASE WriteReceipt \/ PublishReceipt \/ WriteCurrent
  BY <1>9, KeepsWriteReceipt, KeepsPublishReceipt, KeepsWriteCurrent
<1>10. CASE Unworld \/ Reclose
  BY <1>10, KeepsUnworld, KeepsReclose
<1>11. ASSUME NEW p \in Package, StartRectify(p) PROVE IInv'
  <2>1. {p} \in SUBSET Package
    OBVIOUS
  <2> QED
    BY <1>11, <2>1, StartKeeps DEF StartRectify
<1>12. ASSUME NEW p \in Package, Erase(p) PROVE IInv'
  BY <1>12, KeepsErase
<1>13. CASE UNCHANGED vars
  <2>1. UNCHANGED <<tree, world, record, slices, draft, locks, receipts, temps, proc, kills>>
    BY <1>13 DEF vars, published, counters
  <2>2. (Types /\ BoundIsBacked /\ Starting)'
    BY <2>1 DEF IInv, Types, TypeOK, Present, BoundIsBacked, Starting
  <2>3. (Installing /\ Closing)'
    BY <2>1 DEF IInv, Installing, Open, Nodes, Keep, At, Closing, AllKept, Roots
  <2>4. (Binding /\ Sealing)'
    BY <2>1 DEF IInv, Binding, Roots, Left, UpToDate, Sealing, Receipt, Facts, Present
  <2> QED
    BY <2>2, <2>3, <2>4 DEF IInv
<1> QED
  BY <1>1, <1>2, <1>3, <1>4, <1>5, <1>6, <1>7, <1>8, <1>9, <1>10, <1>11, <1>12, <1>13 DEF Next, Step

\* Only two steps move the pointer, and one of them to nothing.
LEMMA PointerMoves ==
  ASSUME IInv, [Next]_vars, current' # current, current' # NoReceipt
  PROVE  PublishCurrent
BY DEF Next, Step, vars, published, counters, Kill, Newspeak, StartSync, StartRectify, Erase,
   FailInstall, Plan, Recover, PlanRefused, FailPreflight, Install, Bind, Installed, Applied, Close,
   CloseRefused, WriteLock, PublishLock, WriteSlice, PublishSlice, WriteMeta, PublishMeta, Bound,
   WriteReceipt, PublishReceipt, WriteCurrent, Unworld, Reclose

LEMMA PointsAtTruth ==
  IInv /\ [Next]_vars => (current' # current /\ current' # NoReceipt => Verified')
<1> SUFFICES ASSUME IInv, [Next]_vars, current' # current, current' # NoReceipt
             PROVE  Verified'
  OBVIOUS
<1>1. PublishCurrent
  BY PointerMoves
<1>2. /\ proc.pc = "current written" /\ current' = proc.receipt
      /\ UNCHANGED <<tree, world, record, locks, receipts>>
  BY <1>1 DEF PublishCurrent, At
<1>3. /\ proc.plan = [tree |-> tree, roots |-> world] /\ proc.plan \in locks
      /\ \A p \in Closure(tree, world) : UpToDate(p) /\ record[p].format = 4
      /\ proc.receipt = Receipt /\ proc.receipt \in receipts
  BY <1>2 DEF IInv, Sealing, SealPcs
<1> DEFINE nodes == Closure(tree, world)
<1>4. /\ current'.plan = proc.plan /\ current'.records = Facts(nodes)
      /\ current'.orphans = Facts(Present \ nodes)
  <2>1. /\ Receipt.plan = proc.plan /\ Receipt.records = Facts(nodes)
        /\ Receipt.orphans = Facts(Present \ nodes)
    BY DEF Receipt
  <2> QED
    BY <1>2, <1>3, <2>1
<1>5. current'.plan.tree = tree /\ current'.plan.roots = world
  BY <1>3, <1>4
<1>6. /\ Facts(nodes)' = Facts(nodes) /\ Facts(Present \ nodes)' = Facts(Present \ nodes)
      /\ nodes' = nodes
  BY <1>2 DEF Facts, Present
<1>7. Closure(current'.plan.tree, current'.plan.roots) = nodes
  BY <1>5
<1> HIDE DEF nodes
<1>8. \A p \in nodes : record'[p].format = 4 /\ record'[p].print = Fingerprint[tree'][p]
  BY <1>2, <1>3 DEF UpToDate, nodes
<1> QED
  BY <1>2, <1>3, <1>4, <1>5, <1>6, <1>7, <1>8 DEF Verified

LEMMA EndsKeepWork ==
  IInv /\ [Next]_vars =>
    ((proc.partial /\ kills' = kills /\ proc' = Idle /\ ~Foreign)
       => \A p \in proc.written : record'[p].format = 4)
<1> SUFFICES ASSUME IInv, [Next]_vars, proc.partial, kills' = kills, proc' = Idle, ~Foreign
             PROVE  \A p \in proc.written : record'[p].format = 4
  OBVIOUS
<1>1. /\ proc'.pc = "idle" /\ ~proc'.partial /\ kills \in Nat
      /\ proc \in [pc : Pcs, kind : {proc.kind}, names : SUBSET Package, todo : SUBSET Package,
               written : SUBSET Package, partial : BOOLEAN, plan : PlanLock, at : {proc.at},
               receipt : {proc.receipt}]
  BY IdleType DEF IInv, Types
\* Before it installs and when it seals, no failure is known.
<1>2. proc.pc \notin {"plan", "unworld", "reclose"} \cup InstallPcs \cup SealPcs
  BY DEF IInv, Starting, Installing, Sealing
<1>3. ~UNCHANGED vars
  BY <1>1 DEF vars
<1>4. ~(Kill \/ Newspeak \/ StartSync \/ FailInstall \/ \E p \in Package : StartRectify(p) \/ Erase(p))
  <2>1. ~Kill /\ ~Newspeak /\ ~FailInstall
    BY <1>1, <1>2 DEF At, InstallPcs, Kill, Newspeak, FailInstall
  <2>2. ~StartSync
    BY <1>1, IdleType DEF StartSync
  <2>3. ASSUME NEW p \in Package PROVE ~StartRectify(p) /\ ~Erase(p)
    BY <1>1, IdleType DEF StartRectify, Erase
  <2> QED
    BY <2>1, <2>2, <2>3
<1>5. ~(\/ Plan \/ PlanRefused \/ Installed \/ Applied \/ Unworld \/ Reclose
        \/ \E p \in Package : Install(p))
  BY <1>2 DEF At, InstallPcs, Plan, PlanRefused, Install, Installed, Applied, Unworld, Reclose
<1>6. ~(WriteReceipt \/ PublishReceipt \/ WriteCurrent \/ PublishCurrent)
  BY <1>2 DEF At, SealPcs, WriteReceipt, PublishReceipt, WriteCurrent, PublishCurrent
<1>7. ~(Close \/ WriteLock \/ PublishLock \/ \E p \in Package : Bind(p))
  BY <1>1 DEF Goto, Close, WriteLock, PublishLock, Bind
<1>8. ~(WriteSlice \/ PublishSlice \/ WriteMeta \/ PublishMeta)
  BY <1>1 DEF Goto, WriteSlice, PublishSlice, WriteMeta, PublishMeta
<1>9. CloseRefused \/ Bound
  BY <1>3, <1>4, <1>5, <1>6, <1>7, <1>8 DEF Next, Step
<1>10. CASE CloseRefused
  BY <1>10 DEF CloseRefused, FailPreflight, IInv, Closing
<1>11. CASE Bound
  <2>1. /\ proc.pc \in BindPcs /\ Left = {} /\ record' = record
    BY <1>11 DEF Bound, At, BindPcs, HandPcs, Left
  <2> QED
    BY <2>1, BindFacts
<1> QED
  BY <1>9, <1>10, <1>11

\* At any time the records of format 4 have their lock and their slice, and
\* whenever the pointer moves it is to a receipt of the whole installed world
\* (finalize_applied, bind_record, verify_applied_receipt).
THEOREM ReceiptsTrue == Spec => ReceiptsAreTrue
<1>1. IInv => BoundIsBacked
  BY DEF IInv
<1>2. IInv /\ [Next]_vars => (current' # current /\ current' # NoReceipt => Verified')
  BY PointsAtTruth
<1> QED
  BY <1>1, <1>2, InitHolds, NextKeeps, PTL DEF Spec, ReceiptsAreTrue, CurrentIsTrue

\* A command that fails and is not killed has bound all it finished
\* (the failure branch of the loop of install.rs).
THEOREM WorkIsKept == Spec => FailureKeepsWork
BY InitHolds, NextKeeps, EndsKeepWork, PTL DEF Spec, FailureKeepsWork
=============================================================================
