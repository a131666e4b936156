------------------------------ MODULE Rectify -------------------------------
(***************************************************************************)
(* rectify, rectify --sync and the authority over the installed world      *)
(* (src/minitrue/src/plan.rs, the loop of install.rs).                     *)
(*                                                                         *)
(* A command installs what its plan lacks, one transaction per package,    *)
(* which leaves records of format 3.  Only when the whole world is as the  *)
(* tree asks does it close: it publishes the plan lock, binds the records  *)
(* it wrote to it (format 4), publishes a receipt of every record and      *)
(* renames the pointer current to it.  A command that fails in the middle  *)
(* closes what it finished, without a receipt.                             *)
(*                                                                         *)
(* One transaction is one step here (its own steps are those of Journal    *)
(* and WorldB).  Every publication is written to a temporary, synced,      *)
(* renamed and its directory synced before the next, so a power cut leaves *)
(* what a kill before or after the rename would.  The root lock admits one *)
(* command at a time.                                                      *)
(***************************************************************************)
EXTENDS Naturals, FiniteSets

CONSTANTS
  Package,
  Tree,        \* versions of the recipes
  Fingerprint,       \* Fingerprint[t][p]: the fingerprint of p in t, and
  Deps,        \* Deps[t][p]: its runtime dependencies
  FirstTree,
  Stamps,      \* BOUND: installations of one package are told apart modulo this
  MaxKill, MaxFail, MaxNews, MaxRemove  \* BOUND

ASSUME RectifyAssumption ==
  /\ FirstTree \in Tree
  /\ Fingerprint \in [Tree -> [Package -> Nat]]
  /\ Deps \in [Tree -> [Package -> SUBSET Package]]
  /\ Stamps \in Nat \ {0}

\* A plan lock is named by its content, which follows from these.  Its purpose,
\* rectify or sync, is left out: both are authorities of the world.
PlanLock == [tree : Tree, roots : SUBSET Package]

NoPlan == [tree |-> FirstTree, roots |-> {}]

Absent == [format |-> 0, print |-> 0, deps |-> {}, stamp |-> 0, plan |-> NoPlan]

Record == {Absent} \cup
  [format : {3, 4}, print : Nat, deps : SUBSET Package, stamp : 0 .. Stamps - 1,
   plan : PlanLock]

NoReceipt == [plan |-> NoPlan, records |-> << >>, orphans |-> << >>]

VARIABLES
  tree,      \* the recipes
  world,     \* /etc/minitrue/world
  record,    \* record[p]: the record of p, and
  slices,    \* slices[p]: the slices of plans published in it, and
  draft,     \* the records with a temporary left in them
  locks,     \* plan-locks
  receipts,  \* applied-plans, and
  current,   \* its pointer
  temps,     \* the temporaries left in the two directories
  proc,      \* the command that holds the root lock
  kills, fails, news, removes

counters == <<kills, fails, news, removes>>

published == <<slices, draft, locks, receipts, current, temps>>

vars == <<tree, world, record, published, proc, counters>>

Idle == [pc |-> "idle", kind |-> "none", names |-> {}, todo |-> {}, written |-> {},
         partial |-> FALSE, plan |-> NoPlan, at |-> "none", receipt |-> NoReceipt]

At(step) == proc.pc = step

Goto(step) == proc' = [proc EXCEPT !.pc = step]

Present == {p \in Package : record[p].format # 0}

\* The roots and all their runtime dependencies.
Closure(t, roots) ==
  {p \in Package : \A s \in SUBSET Package :
     (roots \subseteq s /\ \A q \in s : Deps[t][q] \subseteq s) => p \in s}

\* Nothing to do for p: format 3 counts only for the command that wrote it.
Keep(p, written) ==
  /\ record[p].print = Fingerprint[tree][p]
  /\ \/ record[p].format = 4
     \/ record[p].format = 3 /\ p \in written

Facts(ps) == [p \in ps |-> record[p]]

\* What verify_applied_receipt accepts.
Verified ==
  IF current = NoReceipt
  THEN receipts = {} /\ temps \cap {"receipt", "current"} = {} /\ world = {} /\ Present = {}
  ELSE LET nodes == Closure(current.plan.tree, current.plan.roots) IN
       /\ current \in receipts /\ current.plan \in locks
       /\ current.plan.roots = world /\ current.plan.tree = tree
       /\ current.records = Facts(nodes)
       /\ current.orphans = Facts(Present \ nodes)
       /\ \A p \in nodes : record[p].format = 4 /\ record[p].print = Fingerprint[tree][p]

-----------------------------------------------------------------------------
Init ==
  /\ tree = FirstTree /\ world = {}
  /\ record = [p \in Package |-> Absent]
  /\ slices = [p \in Package |-> {}] /\ draft = {}
  /\ locks = {} /\ receipts = {} /\ current = NoReceipt /\ temps = {}
  /\ proc = Idle
  /\ kills = 0 /\ fails = 0 /\ news = 0 /\ removes = 0

\* A command ends, with or without an error.
Stop == proc' = Idle

Kill ==
  /\ ~At("idle")
  /\ kills < MaxKill
  /\ kills' = kills + 1
  /\ Stop
  /\ UNCHANGED <<tree, world, record, published, fails, news, removes>>

\* rectify newspeak.
Newspeak ==
  /\ At("idle")
  /\ news < MaxNews
  /\ \E t \in Tree \ {tree} : tree' = t
  /\ news' = news + 1
  /\ UNCHANGED <<world, record, published, proc, kills, fails, removes>>

StartRectify(p) ==
  /\ At("idle")
  /\ proc' = [Idle EXCEPT !.pc = "plan", !.kind = "rectify", !.names = {p}]
  /\ UNCHANGED <<tree, world, record, published, counters>>

\* The roots are read under the lock; an empty world is an error.
StartSync ==
  /\ At("idle")
  /\ world # {}
  /\ proc' = [Idle EXCEPT !.pc = "plan", !.kind = "sync", !.names = world]
  /\ UNCHANGED <<tree, world, record, published, counters>>

\* Of the temporaries in applied-plans only the pointer's are known; another
\* one is a foreign entry.
Foreign == "receipt" \in temps

\* Mutant: no temporary of a publication is recovered.
RecoverNothing(nodes) ==
  /\ temps = {} /\ draft \cap nodes = {}
  /\ UNCHANGED <<temps, draft>>

\* preflight_publication: what a kill left is removed.
Recover(nodes) ==
  /\ ~Foreign
  /\ temps' = temps \ {"lock", "current"}
  /\ draft' = draft \ nodes

\* The names are read in order, the foreign one after some of the others.
FailPreflight ==
  /\ Foreign
  /\ \E kept \in SUBSET (temps \cap {"current"}) : temps' = {"receipt"} \cup kept
  /\ Stop
  /\ UNCHANGED <<tree, world, record, slices, draft, locks, receipts, current, counters>>

Plan ==
  /\ At("plan")
  /\ LET nodes == Closure(tree, proc.names) IN
     /\ Recover(nodes)
     /\ proc' = [proc EXCEPT !.pc = "install", !.todo = {p \in nodes : ~Keep(p, {})}]
  /\ UNCHANGED <<tree, world, record, slices, locks, receipts, current, counters>>

PlanRefused == At("plan") /\ FailPreflight

\* The payload and the record of p, after all it needs, however far
\* (material_order, which refuses a cycle: no tree of a run has one).
Install(p) ==
  /\ At("install")
  /\ Closure(tree, {p}) \cap proc.todo = {p}
  /\ record' = [record EXCEPT ![p] =
       [format |-> 3, print |-> Fingerprint[tree][p], deps |-> Deps[tree][p],
        stamp |-> (record[p].stamp + 1) % Stamps, plan |-> NoPlan]]
  /\ proc' = [proc EXCEPT !.pc = "installed", !.at = p, !.todo = @ \ {p}]
  /\ UNCHANGED <<tree, world, published, counters>>

\* Only the names of the command line enter the world.
Installed ==
  /\ At("installed")
  /\ world' = IF proc.kind = "rectify" THEN world \cup ({proc.at} \cap proc.names) ELSE world
  /\ proc' = [proc EXCEPT !.pc = "install", !.written = @ \cup {proc.at}]
  /\ UNCHANGED <<tree, record, published, counters>>

\* A build or a download fails: what was finished is closed by itself.
FailInstall ==
  /\ \/ At("install") /\ proc.todo # {}
     \/ At("installed")
  /\ fails < MaxFail
  /\ fails' = fails + 1
  /\ IF proc.written = {} THEN Stop
     ELSE proc' = [proc EXCEPT !.pc = "close", !.partial = TRUE]
  /\ UNCHANGED <<tree, world, record, published, kills, news, removes>>

Applied ==
  /\ At("install")
  /\ proc.todo = {}
  /\ Goto("close")
  /\ UNCHANGED <<tree, world, record, published, counters>>

-----------------------------------------------------------------------------
(***************************************************************************)
(* finalize_applied                                                        *)
(***************************************************************************)

\* Mutant: a failed command closes the names it was asked for.
AskedRoots == IF proc.partial THEN proc.names ELSE world

Roots == IF proc.partial THEN proc.written ELSE world

AllKept == Roots # {} /\ \A p \in Closure(tree, Roots) : Keep(p, proc.written)

Close ==
  /\ At("close")
  /\ AllKept
  /\ Recover(Closure(tree, Roots))
  /\ LET plan == [tree |-> tree, roots |-> Roots] IN
     proc' = [proc EXCEPT !.pc = IF plan \in locks THEN "bind" ELSE "lock", !.plan = plan,
                          !.todo = proc.written \cap Closure(tree, Roots)]
  /\ UNCHANGED <<tree, world, record, slices, locks, receipts, current, counters>>

CloseRefused ==
  /\ At("close")
  /\ \/ AllKept /\ FailPreflight
     \/ /\ ~AllKept
        /\ Stop
        /\ UNCHANGED <<tree, world, record, published, counters>>

WriteLock ==
  /\ At("lock")
  /\ temps' = temps \cup {"lock"}
  /\ Goto("lock written")
  /\ UNCHANGED <<tree, world, record, slices, draft, locks, receipts, current, counters>>

PublishLock ==
  /\ At("lock written")
  /\ locks' = locks \cup {proc.plan}
  /\ temps' = temps \ {"lock"}
  /\ Goto("bind")
  /\ UNCHANGED <<tree, world, record, slices, draft, receipts, current, counters>>

\* bind_record, of one package after the other.
Bind(p) ==
  /\ At("bind")
  /\ p \in proc.todo
  /\ proc' = [proc EXCEPT !.pc = IF proc.plan \in slices[p] THEN "meta" ELSE "slice",
                          !.at = p, !.todo = @ \ {p}]
  /\ UNCHANGED <<tree, world, record, published, counters>>

WriteSlice ==
  /\ At("slice")
  /\ draft' = draft \cup {proc.at}
  /\ Goto("slice written")
  /\ UNCHANGED <<tree, world, record, slices, locks, receipts, current, temps, counters>>

PublishSlice ==
  /\ At("slice written")
  /\ slices' = [slices EXCEPT ![proc.at] = @ \cup {proc.plan}]
  /\ draft' = draft \ {proc.at}
  /\ Goto("meta")
  /\ UNCHANGED <<tree, world, record, locks, receipts, current, temps, counters>>

WriteMeta ==
  /\ At("meta")
  /\ draft' = draft \cup {proc.at}
  /\ Goto("meta written")
  /\ UNCHANGED <<tree, world, record, slices, locks, receipts, current, temps, counters>>

PublishMeta ==
  /\ At("meta written")
  /\ record' = [record EXCEPT ![proc.at].format = 4, ![proc.at].plan = proc.plan]
  /\ draft' = draft \ {proc.at}
  /\ Goto("bind")
  /\ UNCHANGED <<tree, world, slices, locks, receipts, current, temps, counters>>

Bound ==
  /\ At("bind")
  /\ proc.todo = {}
  /\ IF proc.partial THEN Stop ELSE Goto("receipt")
  /\ UNCHANGED <<tree, world, record, published, counters>>

\* Mutant: what lies outside the plan is not declared.
ReceiptOfPlan ==
  LET nodes == Closure(tree, world) IN
  [plan |-> proc.plan, records |-> Facts(nodes), orphans |-> << >>]

\* The facts of every record, those outside the plan as orphans.
Receipt ==
  LET nodes == Closure(tree, world) IN
  [plan |-> proc.plan, records |-> Facts(nodes), orphans |-> Facts(Present \ nodes)]

WriteReceipt ==
  /\ At("receipt")
  /\ \A p \in Closure(tree, world) : record[p].format = 4
  /\ proc' = [proc EXCEPT !.receipt = Receipt,
                          !.pc = IF Receipt \in receipts THEN "current" ELSE "receipt written"]
  /\ temps' = IF Receipt \in receipts THEN temps ELSE temps \cup {"receipt"}
  /\ UNCHANGED <<tree, world, record, slices, draft, locks, receipts, current, counters>>

PublishReceipt ==
  /\ At("receipt written")
  /\ receipts' = receipts \cup {proc.receipt}
  /\ temps' = temps \ {"receipt"}
  /\ Goto("current")
  /\ UNCHANGED <<tree, world, record, slices, draft, locks, current, counters>>

WriteCurrent ==
  /\ At("current")
  /\ temps' = temps \cup {"current"}
  /\ Goto("current written")
  /\ UNCHANGED <<tree, world, record, slices, draft, locks, receipts, current, counters>>

PublishCurrent ==
  /\ At("current written")
  /\ current' = proc.receipt
  /\ temps' = temps \ {"current"}
  /\ Stop
  /\ UNCHANGED <<tree, world, record, slices, draft, locks, receipts, counters>>

-----------------------------------------------------------------------------
(***************************************************************************)
(* memoryhole, as far as the receipt is concerned                          *)
(***************************************************************************)

EraseRecord(p) ==
  /\ record' = [record EXCEPT ![p] = Absent]
  /\ slices' = [slices EXCEPT ![p] = {}]
  /\ draft' = draft \ {p}

Erase(p) ==
  /\ At("idle")
  /\ removes < MaxRemove
  /\ p \in Present
  /\ \A q \in Present \ {p} : p \notin record[q].deps
  /\ EraseRecord(p)
  /\ removes' = removes + 1
  /\ proc' = [Idle EXCEPT !.pc = "unworld", !.kind = "remove", !.at = p]
  /\ UNCHANGED <<tree, world, locks, receipts, current, temps, kills, fails, news>>

Unworld ==
  /\ At("unworld")
  /\ world' = world \ {proc.at}
  /\ Goto("reclose")
  /\ UNCHANGED <<tree, record, published, counters>>

\* The receipt follows the removal, by the same closing; without roots there is
\* only the pointer to remove, when nothing is installed.
Reclose ==
  /\ At("reclose")
  /\ IF current # NoReceipt /\ world # {} THEN Goto("close") ELSE Stop
  /\ current' = IF world = {} /\ Present = {} THEN NoReceipt ELSE current
  /\ UNCHANGED <<tree, world, record, slices, draft, locks, receipts, temps, counters>>

-----------------------------------------------------------------------------
\* The steps of a command under way.
Step ==
  \/ Plan \/ PlanRefused
  \/ \E p \in Package : Install(p) \/ Bind(p)
  \/ Installed \/ Applied
  \/ Close \/ CloseRefused \/ WriteLock \/ PublishLock
  \/ WriteSlice \/ PublishSlice \/ WriteMeta \/ PublishMeta \/ Bound
  \/ WriteReceipt \/ PublishReceipt \/ WriteCurrent \/ PublishCurrent
  \/ Unworld \/ Reclose

Next ==
  \/ Kill \/ Newspeak \/ StartSync \/ FailInstall \/ Step
  \/ \E p \in Package : StartRectify(p) \/ Erase(p)

Spec == Init /\ [][Next]_vars

\* A command that runs goes on, and the operator asks for --sync again.
FairSpec == Spec /\ WF_vars(Step) /\ SF_vars(StartSync)

-----------------------------------------------------------------------------
(***************************************************************************)
(* Properties                                                              *)
(***************************************************************************)

TypeOK ==
  /\ tree \in Tree /\ world \subseteq Package
  /\ record \in [Package -> Record]
  /\ slices \in [Package -> SUBSET PlanLock] /\ draft \subseteq Package
  /\ locks \subseteq PlanLock
  /\ temps \subseteq {"lock", "receipt", "current"}
  /\ proc.names \subseteq Package /\ proc.todo \subseteq Package
  /\ proc.written \subseteq Package /\ proc.plan \in PlanLock
  /\ proc.partial \in BOOLEAN
  \* A record that is gone left nothing behind.
  /\ \A p \in Package \ Present : slices[p] = {} /\ p \notin draft

\* A record of format 4 always finds the plan it is bound to: the lock and the
\* slice are published first, and nothing takes them away (plan.rs:4664-4667).
BoundIsBacked ==
  \A p \in Present : record[p].format = 4 =>
    record[p].plan \in locks /\ record[p].plan \in slices[p]

\* The pointer only ever moves to a receipt that describes the whole installed
\* world at that moment, as verify would judge it (plan.rs:3306, SPEC-0013:336).
CurrentIsTrue == [][current' # current /\ current' # NoReceipt => Verified']_vars

\* Both: what is cited exists, and what is pointed at is so.
ReceiptsAreTrue == []BoundIsBacked /\ CurrentIsTrue

\* A command that fails in the middle and is not killed leaves every package it
\* finished at format 4, so that the next one does not build it again
\* (install.rs:1429-1440).
FailureKeepsWork ==
  [][(proc.partial /\ kills' = kills /\ proc' = Idle /\ ~Foreign)
     => \A p \in proc.written : record'[p].format = 4]_vars

\* Once nobody kills it, --sync brings the authority back for whatever world was
\* asked for; except after a kill between the receipt's temporary and its name.
Converges == []<>(Verified \/ world = {} \/ Foreign)

\* The same for every kill, as plan_faultpoints.rs:153 says.
RetryCloses == []<>(Verified \/ world = {})

\* A name given to rectify enters the world (SPEC-0003:133).
RequestedIsWanted ==
  [][proc.pc = "current written" /\ proc' = Idle /\ current' = proc.receipt
     => (proc.kind = "rectify" => proc.names \subseteq world)]_vars

\* Without world and records, no authority is what verify accepts
\* (install.rs:7750).
EmptyIsVerified ==
  [][current' = NoReceipt /\ current # NoReceipt => Verified']_vars
=============================================================================
