------------------------------ MODULE MCSupply ------------------------------
(***************************************************************************)
(* How packages come to be: the plan a command is given (Plan), the cache  *)
(* sources are fetched into (Fetch), what the plan states of upstream's    *)
(* signatures (Evidence), and the builds, the emission of a channel and    *)
(* what is taken from it (Build).  The plan knows of a build that it       *)
(* ended, a build knows of the cache that it is there: an instance runs    *)
(* one of the four, chosen at first.                                       *)
(*                                                                         *)
(* Plan: an application with a library, both built here with a vendor's    *)
(* tool, and a meta package of the application; the library comes in three *)
(* builds, of which one needs the tool at run time without saying so, and  *)
(* the channel may offer it.  Fetch: a recipe of two sources, one with a   *)
(* signed manifest and a signature, the other waived; two processes.       *)
(* Evidence: every mechanism over one or two sources, and each with one or *)
(* two fields more or less.                                                *)
(* Build: an application, its library and the runner.                      *)
(***************************************************************************)
EXTENDS Plan

CONSTANTS Process, MaxRun, MaxLoss, MaxPublish, MaxEdit, Unused

VARIABLES part, site, cache, proc, sealed, recipe, lock, before, source, live, retained, leaf, spent

PlanPackage == {"app", "lib", "tool", "set"}
Offering(released) ==
  [p \in PlanPackage |->
     IF p = "lib" THEN [version |-> 0, payload |-> "x", released |-> released,
                        fingerprint |-> [q \in {"lib", "tool"} |-> 0]]
     ELSE NoOffer]
PlanCommand ==
  {[purpose |-> "rectify", names |-> {"set"}, policy |-> "prefer-binary"],
   [purpose |-> "rectify", names |-> {"lib"}, policy |-> "only-binary"],
   [purpose |-> "rectify", names |-> {"app"}, policy |-> "source-only"],
   [purpose |-> "sync", names |-> {}, policy |-> "prefer-binary"]}

PlanKind == [app |-> "source", lib |-> "source", tool |-> "binary", set |-> "meta"]
PlanDeps == [app |-> {"lib"}, lib |-> {}, tool |-> {}, set |-> {"app"}]
PlanBuildDeps == [app |-> {"tool"}, lib |-> {"tool"}, tool |-> {}, set |-> {}]
PlanNeeded ==
  [p \in PlanPackage |-> [b \in {"x", "y", "z", "-"} |->
     CASE p = "app" -> {"lib.so"} [] p = "lib" /\ b = "z" -> {"tool.so"} [] OTHER -> {}]]
PlanGiven ==
  [p \in PlanPackage |-> [b \in {"x", "y", "z", "-"} |->
     CASE p = "lib" -> {"lib.so"} [] p = "tool" -> {"tool.so"} [] OTHER -> {}]]
PlanDirectory == [app |-> 1, lib |-> 2, tool |-> 3, set |-> 4]
PlanBuilds == [app |-> {"x"}, lib |-> {"x", "y", "z"}, tool |-> {"x"}, set |-> {"-"}]
PlanOffer == {[p \in PlanPackage |-> NoOffer], Offering(TRUE), Offering(FALSE)}

F == INSTANCE Fetch WITH
  SOURCES <- <<"s", "w">>, GROUPS <- << <<"sums", "sums.asc">>, <<"s.sig">> >>,
  WAIVED <- {"w"}, REFUSED <- {"w"}, MaxKill <- MaxLoss

\* Each mechanism over one or two sources.
Fields(i) == {{"SIG", "SIG_EPOCH", "SIGKEY", "SIGKEY_FP"} \X {i}, {<<"SIG_UNSAFE_WAIVER", i>>}}
MinisignFields == {<<"SIG", 0>>, <<"SIGKEY", 0>>}
SumsFields == {<<"SIGSUMS", 0>>, <<"SIGSUMS_EPOCH", 0>>, <<"SIGKEY", 1>>, <<"SIGKEY_FP", 1>>}
Mechanism ==
  {{}, {<<"SIG_UNSAFE_WAIVER", 0>>}, MinisignFields}
  \cup {SumsFields, SumsFields \cup {<<"SIGSUMS_SIG", 0>>}}
  \cup Fields(1) \cup {a \cup b : a \in Fields(1), b \in Fields(2)}

\* and each with one or two fields more or less.
Field == UNION Mechanism
Fieldset == {(set \ {a, b}) \cup ({a, b} \ set) : set \in Mechanism, a \in Field, b \in Field}
            \cup Mechanism

Written(kind, srcs, sha, sigs, fields, file, has) ==
  [kind |-> kind, srcs |-> srcs, sha |-> sha, sigs |-> sigs, fields |-> fields, file |-> file,
   has |-> has]
WholeFile ==
  [binary |-> {"LICENSE", "install"}, source |-> {"LICENSE", "build", "DEPS"}, meta |-> {"DEPS"}]
Filed(form) == [i \in 0..2 |-> form]
RecipeDraft ==
  {Written("source", n, n, m, f, Filed("v2"), WholeFile["source"]) :
     n \in 0..2, m \in 1..2, f \in Fieldset}
  \cup {Written("binary", n, n, n, f, file, WholeFile["binary"]) :
     n \in 1..2, f \in Mechanism, file \in [0..2 -> {"v1", "v2", "v3", "foreign"}]}
  \cup {Written(k, n, h, 1, f, Filed("v3"), WholeFile[k] \cup extra) :
     k \in {"binary", "source", "meta"}, n \in 0..1, h \in 0..1,
     f \in {{}, {<<"SIG_UNSAFE_WAIVER", 0>>}},
     extra \in SUBSET {"LICENSE", "DEPS", "build", "install", "ADOPTS", "SHARED_DIRS", "payload"}}

E == INSTANCE Evidence WITH Draft <- RecipeDraft

B == INSTANCE Build WITH
  Package <- {"app", "lib", "runner"}, RUNNER <- "runner", PINNED <- {"lib"},
  PROVIDERS <- [app |-> {"lib"}, lib |-> {}, runner |-> {}],
  Retouched <- {<<"runner", "live">>, <<"lib", "live">>, <<"app", "source">>,
                <<"lib", "retained">>, <<"app", "pool">>},
  MaxRetouch <- MaxEdit, consumed <- spent

ASSUME SupplyAssumption ==
  PlanAssumption /\ F!FetchAssumption /\ E!EvidenceAssumption /\ B!BuildAssumption

ofFetch == <<site, cache, proc, sealed>>
ofEvidence == <<recipe, lock, before>>
ofBuild == <<source, live, retained, leaf>>
ofSupply == <<vars, part, ofFetch, ofEvidence, ofBuild, spent>>

Planning == part = "plan"
Fetching == part = "fetch"
Stating == part = "evidence"
Building == part = "build"

WithoutPlan == world = Unused /\ channel = Unused /\ applied = Unused /\ bound = Unused
WithoutFetch == site = Unused /\ cache = Unused /\ proc = Unused /\ sealed = FALSE
WithoutEvidence == recipe = Unused /\ lock = Unused /\ before = Unused
WithoutBuild == source = Unused /\ live = Unused /\ retained = Unused /\ leaf = Unused
WithoutMachine == tree = Unused /\ record = Unused /\ job = Unused

SupplyInit ==
  \/ Planning /\ Init /\ WithoutFetch /\ WithoutEvidence /\ WithoutBuild /\ spent = Unused
  \/ Fetching /\ F!Init /\ WithoutPlan /\ WithoutEvidence /\ WithoutBuild /\ WithoutMachine
  \/ /\ Stating /\ E!EvidenceInit
     /\ WithoutPlan /\ WithoutFetch /\ WithoutBuild /\ WithoutMachine /\ spent = Unused
  \/ Building /\ B!BuildInit /\ WithoutPlan /\ WithoutFetch /\ WithoutEvidence

SupplyNext ==
  \/ Planning /\ Next /\ UNCHANGED <<part, ofFetch, ofEvidence, ofBuild, spent>>
  \/ Fetching /\ F!Next /\ UNCHANGED <<vars, part, ofEvidence, ofBuild>>
  \/ Stating /\ E!EvidenceNext /\ UNCHANGED <<vars, part, ofFetch, ofBuild, spent>>
  \/ /\ Building /\ B!BuildNext
     /\ UNCHANGED <<part, world, channel, applied, bound, ofFetch, ofEvidence>>

SupplySpec == SupplyInit /\ [][SupplyNext]_ofSupply

\* The types of the part that runs.
TypesOK ==
  CASE Planning -> TypeOK [] Fetching -> F!TypeOK [] Stating -> E!EvidenceTypeOK
    [] Building -> B!BuildTypeOK

\* Plan: what a command has written at its end, or at a failure, is closed by
\* a plan its own verifier reads; a closed world is settled; and what a machine
\* emitted can be composed into a medium.
ClosingsHold == Planning => ClosingsAreAccepted /\ ClosedIsSettled /\ EmittedIsComposable

\* Plan: the applied plan says of the libraries what an audit would find.
ObservedIsTrue == [][Planning => ObservedIsTrueStep]_ofSupply

\* Plan: both.
PlansHold == []ClosingsHold /\ ObservedIsTrue

\* Fetch: the cache is what its names say, and complete once a run ended well.
CacheStaysTrue == Fetching => F!CacheIsTrue

\* Evidence: whatever a recipe that loads declares of upstream's signatures, the
\* plan's own verifier admits what the plan states of it, before its sources are
\* looked at and after; and a sealed plan leaves nothing of it open.
InputsAreAdmitted == Stating => E!InputsAreAdmitted

\* Build: a record says a fingerprint only of what was made of exactly that.
BuiltAsDeclared == Building => B!BuiltIsDeclared
=============================================================================
