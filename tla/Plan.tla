-------------------------------- MODULE Plan --------------------------------
(***************************************************************************)
(* The plans of minitrue (plan.rs): what a command decides from recipes,   *)
(* records and a channel (Resolve), what a document has to satisfy to be   *)
(* a plan (Accepted), and the life of a machine on which plans are         *)
(* applied, interrupted, closed, published, and emitted as a channel.      *)
(*                                                                         *)
(* A recipe is the generation `tree` gives it; a fingerprint is the        *)
(* generations of all a recipe is built from.  A payload is the number of  *)
(* a build: two builds of one fingerprint may differ.  A library is found  *)
(* in the first directory that has it, and charged to the package whose    *)
(* record claims the file.                                                 *)
(***************************************************************************)
EXTENDS Naturals, FiniteSets

CONSTANTS
  Package,     \* the recipes of the tree
  KIND,        \* KIND[p]: "binary", "source" or "meta"
  DEPS,        \* DEPS[p]: what p needs at run time
  BUILD_DEPS,  \* BUILD_DEPS[p]: BUILD_DEPS, toolchain, ccache and runner of p
  NEEDED,      \* NEEDED[p][b]: the libraries the files of build b of p ask for
  GIVEN,       \* GIVEN[p][b]: the libraries build b of p has
  DIRECTORY,   \* DIRECTORY[p]: the place of p's libraries in the search order
  BUILDS,      \* BUILDS[p]: the payloads p may come out as
  SIGNED,      \* the packages whose upstream is signed
  Command,     \* the commands given: [purpose, names, policy]
  FirstOffer,  \* what the channel may offer at first, by package
  Changing,    \* the recipes that may be edited
  MaxTree,     \* bound on the generations of a recipe
  MaxCommand,  \* bound on the commands
  MaxTrouble   \* bound on kills, failed builds and damaged files

Edge == [p \in Package |-> DEPS[p] \cup BUILD_DEPS[p]]
NoRecord == [form |-> "none"]
NoOffer == [form |-> "none"]
NoPlan == [form |-> "none"]

\* The least set with `from` that is closed under `next`.
Closed(from, next) ==
  LET step[n \in 0..Cardinality(Package)] ==
        IF n = 0 THEN from
        ELSE step[n - 1] \cup UNION {next[p] : p \in step[n - 1]}
  IN  step[Cardinality(Package)]

PlanAssumption ==
  /\ IsFiniteSet(Package)
  /\ KIND \in [Package -> {"binary", "source", "meta"}]
  /\ DEPS \in [Package -> SUBSET Package]
  /\ BUILD_DEPS \in [Package -> SUBSET Package]
  /\ \A p \in Package : p \notin Closed(Edge[p], Edge)
  /\ \A p \in Package : BUILDS[p] # {} /\ (KIND[p] # "source" => Cardinality(BUILDS[p]) = 1)
  /\ SIGNED \subseteq Package

VARIABLES
  tree,      \* tree[p]: the generation of p's recipe
  record,    \* record[p]: what is installed
  world,     \* the names asked for
  channel,   \* the offers of the channel and the plan they were made of
  applied,   \* applied-plans/current: the plan the installed world is
  job,       \* what the running command holds in memory
  bound      \* what is left of the bounds

vars == <<tree, record, world, channel, applied, job, bound>>

-----------------------------------------------------------------------------
(* Recipes, records, the channel.                                          *)

IDENTITY == [p \in Package |-> Closed({p}, Edge)]
RUNTIME == [p \in Package |-> Closed({p}, DEPS)]
Identity(from) == UNION {IDENTITY[p] : p \in from}
Fingerprint(p) == [q \in IDENTITY[p] |-> tree[q]]
Recorded == {p \in Package : record[p] # NoRecord}

\* record_is_intact_for_plan: a record of the format 3 only counts for the
\* operation that wrote it.
Usable(p, written) ==
  /\ p \in Recorded
  /\ record[p].fingerprint = Fingerprint(p)
  /\ record[p].intact
  /\ record[p].form = "v4" \/ p \in written

Needed(cmd, p, written) ==
  \/ cmd.purpose = "cache-closure"
  \/ ~Usable(p, written)
  \/ KIND[p] = "source" /\ cmd.policy = "source-only" /\ record[p].origin = "canal"

\* The index names a package and its version; the fingerprint is compared
\* afterwards, and refused.
Offered(p) == channel.offer[p] # NoOffer /\ channel.offer[p].version = tree[p]
Foreign(p) == Offered(p) /\ channel.offer[p].fingerprint # Fingerprint(p)

-----------------------------------------------------------------------------
(* Resolution.  A command has a purpose, a policy, the roots it installs   *)
(* and the roots it only keeps available.                                  *)

Media(cmd) == cmd.purpose = "media"

\* activate: sync compares the origin too, and a medium is made of what the
\* channel has.
ChoosesOrigin(cmd, p, role) ==
  /\ KIND[p] = "source"
  /\ \/ cmd.purpose = "sync"
     \/ Media(cmd) /\ (role = "runtime" \/ cmd.policy # "source-only")

Asks(cmd, p, role, written) ==
  /\ KIND[p] = "source"
  /\ Needed(cmd, p, written) \/ ChoosesOrigin(cmd, p, role)
  /\ cmd.policy # "source-only"

MustBeOffered(cmd, p, role, written) ==
  /\ KIND[p] = "source"
  /\ \/ Media(cmd) /\ role = "runtime"
     \/ Needed(cmd, p, written) /\ cmd.policy = "only-binary"

Initial(cmd, p, written) ==
  IF ~Needed(cmd, p, written) THEN "keep"
  ELSE [binary |-> "vendor", source |-> "source", meta |-> "meta"][KIND[p]]

Action(cmd, p, role, written) ==
  LET first == Initial(cmd, p, written) IN
  CASE Asks(cmd, p, role, written) /\ Offered(p) -> "channel"
    [] ~(Asks(cmd, p, role, written) /\ Offered(p)) ->
         CASE Media(cmd) /\ KIND[p] = "binary" -> "vendor"
           [] Media(cmd) /\ KIND[p] = "source" -> "source"
           [] /\ ~Media(cmd) /\ ChoosesOrigin(cmd, p, role)
              /\ cmd.policy = "prefer-binary"
              /\ first = "keep" /\ record[p].origin = "canal" -> "source"
           [] OTHER -> first

\* A payload the channel would give again is kept.
KeepsSelected(cmd, p, written) ==
  /\ ~Media(cmd) /\ ~Needed(cmd, p, written)
  /\ record[p].origin = "canal"
  /\ channel.offer[p].released /\ record[p].payload = channel.offer[p].payload

\* Only what is compiled here, or has just been, brings its build closure.
Compiles(cmd, p, role, written) ==
  /\ KIND[p] = "source"
  /\ \/ Action(cmd, p, role, written) = "source"
     \/ p \in written \cap Recorded /\ record[p].origin = "fonte"

Activated(cmd, from, role, written, settled) ==
  Closed(from, [p \in Package |->
    IF p \in settled THEN {}
    ELSE DEPS[p] \cup IF Compiles(cmd, p, role, written) THEN BUILD_DEPS[p] ELSE {}])

Chosen(cmd, p, role, written) ==
  IF role = "identity-only" THEN Initial(cmd, p, written) ELSE Action(cmd, p, role, written)

NodeOf(cmd, p, role, selected, action) ==
  [action |-> action, role |-> role, fingerprint |-> Fingerprint(p), selected |-> selected,
   origin |-> CASE action = "keep" -> record[p].origin
                [] action = "channel" -> "canal"
                [] action = "source" -> "fonte"
                [] OTHER -> action,
   payload |-> CASE KIND[p] = "meta" -> "-"
                 [] /\ KIND[p] # "meta"
                    /\ \/ action = "keep"
                       \/ Media(cmd) /\ role = "runtime" /\ action = "vendor" -> record[p].payload
                 [] action = "channel" -> IF channel.offer[p].released
                                           THEN channel.offer[p].payload ELSE "transport"
                 [] /\ Media(cmd) /\ role = "cache-only"
                    /\ action \in {"vendor", "source"} -> "inputs"
                 [] OTHER -> "pending"]

\* initial_node, activate and the selection of the payload, for one package.
Node(cmd, p, role, written, chosen) ==
  NodeOf(cmd, p, role, chosen = "channel",
         IF chosen = "channel" /\ KeepsSelected(cmd, p, written) THEN "keep" ELSE chosen)

Material(nodes) == {p \in DOMAIN nodes : nodes[p].role # "identity-only"}

\* edge_list: every edge of the identity, with the role its consumer gives it.
Edges(cmd, nodes, written) ==
  LET pairs(deps) == {e \in (DOMAIN nodes) \X (DOMAIN nodes) : e[2] \in deps[e[1]]} IN
  {[from |-> e[1], to |-> e[2], role |-> nodes[e[1]].role,
    kind |-> IF KIND[e[1]] = "meta" THEN "aggregation" ELSE "runtime"] : e \in pairs(DEPS)}
  \cup
  {[from |-> e[1], to |-> e[2], kind |-> "build",
    role |-> IF /\ nodes[e[1]].role # "identity-only"
                /\ Compiles(cmd, e[1], nodes[e[1]].role, written)
             THEN nodes[e[1]].role ELSE "identity-only"] : e \in pairs(BUILD_DEPS)}

\* UpstreamEvidence: who took a payload from a channel does not answer for the
\* signatures its producer checked.
Answers(p, n) == p \in SIGNED /\ ~(n.action = "keep" /\ n.origin = "canal")

\* input_artifacts: what the identity is made of, and who signed it.
Inputs(p, n) ==
  {[channel |-> "identity-source-input", vendor |-> "vendor-input",
    source |-> "source-input", keep |-> "record-input"][n.action]}
  \cup IF Answers(p, n) THEN {"signature"} ELSE {}

\* factual_artifact: where the payload comes from.
Facts(cmd, n) ==
  CASE n.action = "channel" -> {"channel"}
    [] n.action = "keep" ->
         {[fonte |-> "record-source", canal |-> "record-channel",
           vendor |-> "record-vendor"][n.origin]}
         \cup IF n.selected THEN {"channel-selection"} ELSE {}
    [] n.action = "vendor" /\ Media(cmd) /\ n.role = "runtime" -> {"vendor-producer"}
    [] OTHER -> {}

Artifacts(cmd, p, n) == IF KIND[p] = "meta" THEN {} ELSE Inputs(p, n) \cup Facts(cmd, n)

\* What the graph of the plan reaches without compiling anything.
RuntimeClosure(roots) == UNION {RUNTIME[p] : p \in roots}

-----------------------------------------------------------------------------
(* What the files of a package ask for and give, as the audit finds it.    *)

Owners(lib) == {q \in Recorded : KIND[q] # "meta" /\ lib \in GIVEN[q][record[q].payload]}
Found(lib) == CHOOSE q \in Owners(lib) :
                \A r \in Owners(lib) : DIRECTORY[q] <= DIRECTORY[r]

Observation(p) ==
  [gives |-> {<<lib, record[p].payload>> : lib \in GIVEN[p][record[p].payload]},
   needs |-> {<<lib, Found(lib)>> : lib \in NEEDED[p][record[p].payload]}]

\* plan_snapshot: nothing missing, and every provider declared.
Observable(p) ==
  \A lib \in NEEDED[p][record[p].payload] : Owners(lib) # {} /\ Found(lib) \in {p} \cup DEPS[p]

Silent == [gives |-> {}, needs |-> {}]

\* Mutant: the historical form, a package known by its name.
ReusableByName(previous, material, written, nodes) ==
  (material \cap DOMAIN previous.seen) \ written

\* abi_reuse_set: of what the plan applied last says, only what concerns the
\* same build, written by another operation, whose providers are the same.
Reusable(previous, material, written, nodes) ==
  LET same == {p \in material \cap DOMAIN previous.node :
                 /\ nodes[p].action = "keep"
                 /\ previous.node[p].fingerprint = nodes[p].fingerprint
                 /\ previous.node[p].payload = nodes[p].payload}
      steady == same \ written
  IN  {p \in steady \cap DOMAIN previous.seen :
         \A n \in previous.seen[p].needs : n[2] \in steady}

Able(cmd, material, nodes, written) ==
  IF cmd.purpose \in {"rectify", "sync"} /\ applied # NoPlan
  THEN Reusable(applied, material, written, nodes) ELSE {}

\* A reused fact whose provider is not reused spoils the whole projection.
Reused(able) ==
  IF \A p \in able : \A n \in applied.seen[p].needs : n[2] \in able THEN able ELSE {}

Stock(cmd, material, nodes) ==
  {p \in material : Media(cmd) /\ nodes[p].role = "cache-only"}

Fresh(cmd, unseen, nodes) ==
  {p \in unseen : /\ \/ nodes[p].action = "keep"
                     \/ Media(cmd) /\ nodes[p].action = "vendor"
                  /\ Observable(p)}

Seen(reused, stock, fresh) ==
  [p \in reused \cup stock \cup fresh |-> CASE p \in reused -> applied.seen[p]
                                            [] p \in stock -> Silent
                                            [] OTHER -> Observation(p)]

\* finalize_abi: what is reused, what is observed now; the rest is pending.
Audit(cmd, material, nodes, reused, stock) ==
  Seen(reused, stock, Fresh(cmd, material \ (reused \cup stock), nodes))

-----------------------------------------------------------------------------
(* The plan of a command, or a refusal.                                    *)

Refusal == [form |-> "refused"]

Roles(R, S) ==
  [p \in Package |-> CASE p \in R -> "runtime" [] p \in S -> "cache-only"
                       [] OTHER -> "identity-only"]

\* What is active is reached from what is installed, then from what is kept.
Surface(cmd, written, R) ==
  Roles(R, Activated(cmd, cmd.stock, "cache-only", written, R) \ R)

Refused(cmd, written, role) ==
  \/ cmd.install \cup cmd.stock = {}
  \/ \E p \in Package :
       /\ role[p] # "identity-only"
       /\ \/ Asks(cmd, p, role[p], written) /\ Foreign(p)
          \/ MustBeOffered(cmd, p, role[p], written)
             /\ ~(Asks(cmd, p, role[p], written) /\ Offered(p))
          \/ Media(cmd) /\ role[p] = "runtime" /\ KIND[p] = "binary" /\ ~Usable(p, {})
  \/ cmd.purpose = "sync" /\ \E p \in Recorded : ~record[p].intact

Document(cmd, written, nodes, seen, pending, runtime) ==
  IF /\ Media(cmd) \/ cmd.purpose = "channel-emit"
     /\ \E p \in pending : ~(Media(cmd) /\ nodes[p].action = "channel")
  THEN Refusal
  ELSE [form |-> "plan", cmd |-> cmd, node |-> nodes, edge |-> Edges(cmd, nodes, written),
        artifact |-> [p \in DOMAIN nodes |-> Artifacts(cmd, p, nodes[p])],
        seen |-> seen, pending |-> pending,
        orphan |-> IF cmd.purpose = "sync" THEN Recorded \ runtime ELSE {},
        residue |-> IF cmd.purpose = "sync"
                    THEN {p \in Material(nodes) \ runtime : nodes[p].action # "keep"}
                    ELSE {}]

Audited(cmd, written, nodes, material, seen) ==
  Document(cmd, written, nodes, seen, material \ DOMAIN seen,
           RuntimeClosure(cmd.install \cup cmd.stock))

Observed(cmd, written, nodes, material) ==
  Audited(cmd, written, nodes, material,
          Audit(cmd, material, nodes, Reused(Able(cmd, material, nodes, written)),
                Stock(cmd, material, nodes)))

Planned(cmd, written, nodes) ==
  Observed(cmd, written, nodes, {p \in Material(nodes) : KIND[p] # "meta"})

Resolved(cmd, written, role) ==
  IF Refused(cmd, written, role) THEN Refusal
  ELSE Planned(cmd, written,
         [p \in Identity(cmd.install \cup cmd.stock) |->
            Node(cmd, p, role[p], written, Chosen(cmd, p, role[p], written))])

Resolve(cmd, written) ==
  Resolved(cmd, written,
    Surface(cmd, written, Activated(cmd, cmd.install, "runtime", written, {})))

-----------------------------------------------------------------------------
(* verify_canonical: what a document has to satisfy to be a plan.          *)

Strict(plan) == plan.cmd.purpose \in {"media", "channel-emit"}

Factual(plan, p) ==
  /\ p \in Material(plan.node) /\ KIND[p] # "meta"
  /\ \/ plan.node[p].action = "keep"
     \/ Media(plan.cmd) /\ plan.node[p].action \in {"channel", "vendor", "source"}

Covers(node, edge) ==
  \/ edge = "identity-only" \/ node = edge
  \/ node = "runtime" /\ edge = "cache-only"

RootsFit(plan) ==
  /\ plan.cmd.install \cup plan.cmd.stock # {}
  /\ plan.cmd.purpose \in {"rectify", "sync", "channel-emit"} => plan.cmd.stock = {}
  /\ plan.cmd.purpose = "cache-closure" => plan.cmd.install = {}
  /\ \A p \in plan.cmd.install : p \in DOMAIN plan.node /\ plan.node[p].role = "runtime"
  /\ \A p \in plan.cmd.stock :
       p \in DOMAIN plan.node /\ plan.node[p].role \in {"runtime", "cache-only"}

\* KIND, ACTION, ORIGIN and payload of a NODE agree.
NodeFits(plan, p) ==
  LET n == plan.node[p] IN
  /\ CASE KIND[p] = "binary" /\ n.action = "vendor" ->
            /\ n.origin = "vendor"
            /\ n.payload = "pending" \/ (Media(plan.cmd) /\ n.role # "identity-only")
       [] KIND[p] = "binary" /\ n.action = "keep" ->
            n.origin = "vendor" /\ n.payload # "pending"
       [] KIND[p] = "source" /\ n.action = "source" ->
            /\ n.origin = "fonte"
            /\ n.payload = "pending" \/ (Media(plan.cmd) /\ n.role = "cache-only")
       [] KIND[p] = "source" /\ n.action = "channel" ->
            n.origin = "canal" /\ n.payload # "pending"
       [] KIND[p] = "source" /\ n.action = "keep" ->
            n.origin \in {"fonte", "canal"} /\ n.payload # "pending"
       [] KIND[p] = "meta" -> n.action \in {"meta", "keep"} /\ n.payload = "-"
       [] OTHER -> FALSE
  /\ ~(Strict(plan) /\ n.role # "identity-only" /\ n.payload = "pending")

\* The policy and the purpose, as the material nodes show them.
PolicyFits(plan, p) ==
  LET n == plan.node[p] IN
  n.role # "identity-only" =>
    /\ KIND[p] = "source" /\ plan.cmd.policy = "source-only" =>
         n.origin = "fonte" /\ n.action \in {"source", "keep"}
    /\ KIND[p] = "source" /\ plan.cmd.policy = "only-binary" =>
         n.origin = "canal" /\ n.action \in {"channel", "keep"}
    /\ plan.cmd.purpose \in {"rectify", "sync", "channel-emit"} => n.role = "runtime"
    /\ plan.cmd.purpose = "cache-closure" => n.role = "cache-only"
    /\ Media(plan.cmd) =>
         CASE KIND[p] = "source" ->
                \/ n.action = "channel"
                \/ n.role = "cache-only" /\ n.action = "source"
           [] KIND[p] = "binary" -> n.action = "vendor"
           [] OTHER -> TRUE
    /\ plan.cmd.purpose = "channel-emit" => n.action \in {"keep", "meta"}

EdgesFit(plan) ==
  /\ \A e \in plan.edge :
       /\ {e.from, e.to} \subseteq DOMAIN plan.node
       /\ (KIND[e.from] = "meta") <=> (e.kind = "aggregation")
       /\ Covers(plan.node[e.from].role, e.role) /\ Covers(plan.node[e.to].role, e.role)
  /\ LET next == [p \in Package |-> {e.to : e \in {d \in plan.edge : d.from = p}}]
     IN  DOMAIN plan.node = Closed(plan.cmd.install \cup plan.cmd.stock, next)

\* A material package shows where its payload comes from, by its action.
Proof(plan, n) ==
  CASE n.action = "keep" ->
         {[fonte |-> "record-source", canal |-> "record-channel",
           vendor |-> "record-vendor"][n.origin]}
    [] n.action = "channel" -> {"channel"}
    [] n.action = "vendor" /\ Media(plan.cmd) /\ n.role = "runtime" -> {"vendor-producer"}
    [] OTHER -> {}

ArtifactsFit(plan, p) ==
  LET kinds == plan.artifact[p] IN
  p \in Material(plan.node) /\ KIND[p] # "meta" =>
    /\ Proof(plan, plan.node[p]) \subseteq kinds
    /\ kinds \cap {"identity-source-input", "vendor-input", "source-input", "record-input"} # {}

Tolerated(plan, p) == p \in plan.pending

\* What the facts of the plan ask for, and of whom.
Asked(plan) ==
  UNION {{<<p, n>> : n \in plan.seen[p].needs} : p \in DOMAIN plan.seen}

\* ABI_PENDING and ABI_PROVIDE: only material packages are left pending, and
\* only what was looked at speaks.
FactsFit(plan) ==
  /\ \A p \in plan.pending : p \in Material(plan.node) /\ KIND[p] # "meta"
  /\ Strict(plan) => plan.pending = {}
  /\ \A p \in DOMAIN plan.seen : Factual(plan, p)

\* ABI_REQUIRE: a fact whose provider is declared pending is tolerated, any
\* other has a provider that gives it; a strict plan declares it too.
RequiresFit(plan) ==
  LET direct == {<<e.from, e.to>> : e \in {d \in plan.edge : d.kind = "runtime"}} IN
  \A a \in Asked(plan) :
    LET provider == a[2][2] IN
    /\ Factual(plan, provider)
    /\ \/ Tolerated(plan, provider)
       \/ /\ provider \in DOMAIN plan.seen
          /\ \E g \in plan.seen[provider].gives : g[1] = a[2][1]
          /\ Strict(plan) => a[1] = provider \/ <<a[1], provider>> \in direct

\* Every material package is looked at, named, or pending.
CoverageFits(plan) ==
  LET named == {a[2][2] : a \in Asked(plan)} \ plan.pending IN
  /\ plan.pending \cap (DOMAIN plan.seen \cup named) = {}
  /\ \A p \in Material(plan.node) :
       KIND[p] # "meta" =>
         IF Factual(plan, p) THEN p \in DOMAIN plan.seen \cup named \cup plan.pending
         ELSE p \in plan.pending

OrphansFit(plan) ==
  LET runtime == RuntimeClosure(plan.cmd.install \cup plan.cmd.stock) IN
  /\ plan.cmd.purpose # "sync" => plan.orphan = {}
  /\ plan.orphan \cap runtime = {}
  /\ plan.residue = IF plan.cmd.purpose = "sync"
                    THEN {p \in Material(plan.node) \ runtime : plan.node[p].action # "keep"}
                    ELSE {}

Accepted(plan) ==
  /\ RootsFit(plan)
  /\ \A p \in DOMAIN plan.node :
       NodeFits(plan, p) /\ PolicyFits(plan, p) /\ ArtifactsFit(plan, p)
  /\ EdgesFit(plan)
  /\ FactsFit(plan) /\ RequiresFit(plan) /\ CoverageFits(plan)
  /\ OrphansFit(plan)

\* material_identities: the closing of a whole world is of what has been seen.
Kept(plan) ==
  \A p \in Material(plan.node) : plan.node[p].action \in {"keep", "meta"}

-----------------------------------------------------------------------------
(* A medium composed of what a machine emitted.                            *)

\* hydrate_media_channel_abi: the nodes are the producer's, and so are the
\* inputs they answer for and the ABI they have.
Hydrated(plan) ==
  LET producer == channel.plan
      runtime == {p \in DOMAIN plan.node :
                    plan.node[p].role = "runtime" /\ KIND[p] # "meta"}
      signs(pl, p) == "signature" \in pl.artifact[p]
      agrees == /\ producer # NoPlan
                /\ \E p \in runtime : KIND[p] = "source"
                /\ \A p \in runtime :
                     /\ p \in DOMAIN producer.node
                     /\ producer.node[p].action = "keep" /\ producer.node[p].role = "runtime"
                     /\ producer.node[p].fingerprint = plan.node[p].fingerprint
                     /\ producer.node[p].payload = plan.node[p].payload
                     /\ p \in DOMAIN producer.seen
                     /\ \A n \in producer.seen[p].needs : n[2] \in runtime
                     /\ signs(producer, p) <=> signs(plan, p)
                     /\ KIND[p] = "source" => channel.offer[p].released
  IN  IF plan = Refusal \/ ~agrees THEN Refusal
      ELSE [plan EXCEPT !.seen = [p \in DOMAIN plan.seen \cup runtime |->
                                    IF p \in runtime THEN producer.seen[p] ELSE plan.seen[p]],
                        !.pending = @ \ runtime]

MediaPlan(install, stock) ==
  Hydrated(Resolve([purpose |-> "media", policy |-> "prefer-binary",
                    install |-> install, stock |-> stock], {}))

-----------------------------------------------------------------------------
(* The machine.                                                            *)

Idle == [phase |-> "idle"]

Init ==
  /\ tree = [p \in Package |-> 0]
  /\ record = [p \in Package |-> NoRecord]
  /\ world = {}
  /\ \E offer \in FirstOffer : channel = [offer |-> offer, plan |-> NoPlan]
  /\ applied = NoPlan
  /\ job = Idle
  /\ bound = [commands |-> MaxCommand, troubles |-> MaxTrouble]

\* Somebody edits a recipe, at any time.
Bump(p) ==
  /\ p \in Changing /\ tree[p] < MaxTree
  /\ tree' = [tree EXCEPT ![p] = @ + 1]
  /\ UNCHANGED <<record, world, channel, applied, job, bound>>

\* Somebody edits a file of a package.
Damage(p) ==
  /\ bound.troubles > 0 /\ p \in Recorded /\ record[p].intact /\ KIND[p] # "meta"
  /\ record' = [record EXCEPT ![p].intact = FALSE]
  /\ bound' = [bound EXCEPT !.troubles = @ - 1]
  /\ UNCHANGED <<tree, world, channel, applied, job>>

\* rectify resolves, and freezes the graph it is going to install.
Start(c) ==
  LET names == IF c.purpose = "sync" THEN world ELSE c.names
      cmd == [purpose |-> c.purpose, policy |-> c.policy, install |-> names, stock |-> {}]
      plan == Resolve(cmd, {})
  IN  /\ job = Idle /\ bound.commands > 0
      /\ bound' = [bound EXCEPT !.commands = @ - 1]
      /\ job' = IF plan = Refusal THEN Idle
                ELSE [phase |-> "install", cmd |-> cmd, written |-> {},
                      todo |-> [p \in {q \in Material(plan.node) : plan.node[q].action # "keep"}
                                  |-> plan.node[p]]]
      /\ UNCHANGED <<tree, record, world, channel, applied>>

\* The order of the plan: what a package needs comes first.
Ready(p) ==
  /\ job.phase = "install" /\ p \in DOMAIN job.todo \ job.written
  /\ \A q \in Edge[p] : q \in DOMAIN job.todo => q \in job.written

Builds(p) == IF job.todo[p].action = "channel" THEN {channel.offer[p].payload} ELSE BUILDS[p]

Install(p) ==
  /\ Ready(p)
  /\ \E b \in Builds(p) :
       record' = [record EXCEPT ![p] =
         [form |-> "v3", fingerprint |-> job.todo[p].fingerprint,
          origin |-> job.todo[p].origin, payload |-> b, intact |-> TRUE]]
  /\ world' = IF job.cmd.purpose = "rectify" /\ p \in job.cmd.install
              THEN world \cup {p} ELSE world
  /\ job' = [job EXCEPT !.written = @ \cup {p}]
  /\ UNCHANGED <<tree, channel, applied, bound>>

\* Mutant: only what was asked for by name.
BindableNamed(plan, written) == written \cap plan.cmd.install

\* bind_record: a record becomes one of the format 4 only when its package is
\* part of the plan, kept, and seen.
Bindable(plan, written) ==
  {p \in written \cap Material(plan.node) :
     /\ p \notin plan.pending
     /\ plan.node[p].role = "runtime"
     /\ plan.node[p].action \in {"keep", "meta"}}

Bound(plan, written) ==
  [p \in Package |-> IF p \in Bindable(plan, written)
                     THEN [record[p] EXCEPT !.form = "v4"] ELSE record[p]]

\* The gates of finalize_applied, up to the publication of the lock.
Closes(plan, complete) ==
  /\ plan # Refusal
  /\ Kept(plan)
  /\ complete => plan.pending = {}
  /\ Accepted(plan)

\* A build fails: what came to its end is closed by itself, and a failure of
\* that closing is only told.
Fail(p) ==
  /\ Ready(p) /\ bound.troubles > 0
  /\ bound' = [bound EXCEPT !.troubles = @ - 1]
  /\ LET plan == Resolve([job.cmd EXCEPT !.install = job.written], job.written)
     IN  record' = IF job.written # {} /\ Closes(plan, FALSE)
                   THEN Bound(plan, job.written) ELSE record
  /\ job' = Idle
  /\ UNCHANGED <<tree, world, channel, applied>>

Kill ==
  /\ job # Idle /\ bound.troubles > 0
  /\ bound' = [bound EXCEPT !.troubles = @ - 1]
  /\ job' = Idle
  /\ UNCHANGED <<tree, record, world, channel, applied>>

Installed == job.phase = "install" /\ DOMAIN job.todo = job.written

\* What a later command reads of the plan.
Sealed(plan) ==
  [form |-> "plan", root |-> plan.cmd.install, seen |-> plan.seen, artifact |-> <<>>,
   node |-> [p \in Material(plan.node) |-> plan.node[p]]]

\* The closing of a whole world: its roots are the world's.
Close ==
  /\ Installed
  /\ LET plan == Resolve([job.cmd EXCEPT !.install = world], job.written)
     IN  IF Closes(plan, TRUE)
         THEN /\ record' = Bound(plan, job.written)
              /\ job' = [phase |-> "closed", cmd |-> job.cmd, plan |-> Sealed(plan)]
         ELSE record' = record /\ job' = Idle
  /\ UNCHANGED <<tree, world, channel, applied, bound>>

\* The receipt and the pointer, the last of all.
Publish ==
  /\ job.phase = "closed"
  /\ applied' = job.plan
  /\ job' = Idle
  /\ UNCHANGED <<tree, record, world, channel, bound>>

\* memoryhole of a package nothing installed needs.
Remove(p) ==
  /\ job = Idle /\ bound.commands > 0
  /\ p \in Recorded /\ \A q \in Recorded : p \notin DEPS[q]
  /\ record' = [record EXCEPT ![p] = NoRecord]
  /\ world' = world \ {p}
  /\ bound' = [bound EXCEPT !.commands = @ - 1]
  /\ job' = [phase |-> "removed"]
  /\ UNCHANGED <<tree, channel, applied>>

\* refaz_receipt_apos_remocao: only where there was an authority; a failure is
\* only told.
Reseal ==
  /\ job.phase = "removed"
  /\ LET plan == Resolve([purpose |-> "rectify", policy |-> "prefer-binary",
                          install |-> world, stock |-> {}], {})
     IN  applied' = CASE applied # NoPlan /\ world = {} /\ Recorded = {} -> NoPlan
                      [] applied # NoPlan /\ Closes(plan, TRUE) -> Sealed(plan)
                      [] OTHER -> applied
  /\ job' = Idle
  /\ UNCHANGED <<tree, record, world, channel, bound>>

\* channel emit --release of the world, and its publication.
Emit ==
  LET plan == Resolve([purpose |-> "channel-emit", policy |-> "prefer-binary",
                       install |-> world, stock |-> {}], {})
      emitted == {p \in Material(plan.node) : KIND[p] = "source"}
  IN  /\ job = Idle /\ bound.commands > 0
      /\ bound' = [bound EXCEPT !.commands = @ - 1]
      /\ Closes(plan, TRUE) /\ emitted # {}
      /\ channel' = [plan |-> [Sealed(plan) EXCEPT !.artifact = plan.artifact],
                     offer |-> [p \in Package |->
                       IF p \in emitted
                       THEN [version |-> tree[p], fingerprint |-> plan.node[p].fingerprint,
                             payload |-> plan.node[p].payload, released |-> TRUE]
                       ELSE NoOffer]]
      /\ UNCHANGED <<tree, record, world, applied, job>>

Next ==
  \/ \E p \in Package : Bump(p) \/ Damage(p) \/ Install(p) \/ Fail(p) \/ Remove(p)
  \/ \E c \in Command : Start(c)
  \/ Kill \/ Close \/ Publish \/ Reseal \/ Emit

Spec == Init /\ [][Next]_vars

TypeOK ==
  /\ tree \in [Package -> 0..MaxTree]
  /\ world \subseteq Package
  /\ job.phase \in {"idle", "install", "closed", "removed"}
  /\ \A p \in Recorded : record[p].form \in {"v3", "v4"} /\ record[p].origin \in {"fonte", "canal", "vendor", "meta"}

-----------------------------------------------------------------------------
(* Properties.                                                             *)

\* What the plan applied last says of the files of the machine is what an
\* audit from nothing would find, although most of it was not looked at again
\* (finalize_abi, abi_reuse_set).  A library two packages have is left to
\* ObservedIsTrueAnywhereStep.
Unshared(p) == \A lib \in NEEDED[p][record[p].payload] : Cardinality(Owners(lib)) = 1

ObservedIsTrueStep ==
  applied' # applied /\ applied' # NoPlan =>
    \A p \in DOMAIN applied'.seen :
      (Unshared(p) => applied.seen[p] = Observation(p))'

\* The same of every library ("NADA que a sustenta mudou", plan.rs:2217).
ObservedIsTrueAnywhereStep ==
  applied' # applied /\ applied' # NoPlan =>
    \A p \in DOMAIN applied'.seen : (applied.seen[p] = Observation(p))'

\* Whatever a command has written when it ends or fails, the plan of its
\* closing is one its own verifier reads back (finalize_applied, persist,
\* verify_canonical), unless the command refused what the machine had built
\* itself.
Readable(plan) == plan # Refusal /\ Kept(plan) => Accepted(plan)

ClosingsAreAccepted ==
  job.phase = "install" /\ job.cmd.policy # "only-binary" =>
    /\ job.written # {} =>
         Readable(Resolve([job.cmd EXCEPT !.install = job.written], job.written))
    /\ Installed => Readable(Resolve([job.cmd EXCEPT !.install = world], job.written))

\* The same of every policy (plan.rs:7677, against what the resolver keeps).
AllClosingsAreAccepted ==
  Installed => Readable(Resolve([job.cmd EXCEPT !.install = world], job.written))

\* minitrue plan reads back what it resolved (verify_canonical on its own
\* bytes), whatever state a command left.
PlansAreAccepted ==
  job = Idle /\ world # {} =>
    LET plan == Resolve([purpose |-> "rectify", policy |-> "prefer-binary",
                         install |-> world, stock |-> {}], {})
    IN  plan # Refusal => Accepted(plan)

Undisturbed ==
  /\ \A p \in Recorded : record[p].intact
  /\ \A p \in DOMAIN job.plan.node : job.plan.node[p].fingerprint = Fingerprint(p)

\* A closed world is settled: planned again, nothing is to be built, nothing
\* is left to look at.
ClosedIsSettled ==
  job.phase = "closed" /\ Undisturbed =>
    LET plan == Resolve([job.cmd EXCEPT !.install = world], {})
    IN  plan # Refusal /\ Kept(plan) /\ plan.pending = {}

\* A medium can be composed of what a machine has emitted, whatever the machine
\* has done since, while the recipes and the records the emission was made of
\* are there: the media plan resolves, takes the producer's word for the ABI,
\* and its verifier accepts it (channel_emit, hydrate_media_channel_abi).
Emitted == channel.plan.node

Unmoved ==
  \A p \in DOMAIN Emitted :
    /\ Usable(p, {})
    /\ Emitted[p].fingerprint = record[p].fingerprint
    /\ Emitted[p].payload = record[p].payload

Composable ==
  \A stock \in {{}, Package \ RuntimeClosure(channel.plan.root)} :
    LET plan == MediaPlan(channel.plan.root, stock) IN plan # Refusal /\ Accepted(plan)

FirstHand == \A p \in SIGNED \cap DOMAIN Emitted : Emitted[p].origin # "canal"

EmittedIsComposable ==
  channel.plan # NoPlan /\ Unmoved /\ FirstHand => Composable

\* The same when the machine took a signed package from a channel itself.
ReemittedIsComposable ==
  channel.plan # NoPlan /\ Unmoved => Composable

=============================================================================
