---------------------------- MODULE ComposedProofs ----------------------------
(***************************************************************************)
(* Two compositions, of MCSupply and of MCDesk.                            *)
(* MCSupply: what is proved of the parts (FetchProofs) for every value of  *)
(* their constants holds of the composition: a step of it in which a part  *)
(* runs is a step of that part, and no step changes the part that runs.    *)
(* KeysAreWhole, of MCDesk, for any number of keys, messages and power     *)
(* cuts: what is found in a private directory and under the final names is *)
(* of one key (OneKey); a cut keeps the secret key of a public one and of  *)
(* a signature (Lasting); and what a run has still to do is a program      *)
(* (Sequel) in which the secret key is renamed and synced before the       *)
(* public one is (SecretFirst) and what it reports is synced (Lands).      *)
(* MachineBoots, of MCDesk, for any number of updates and power cuts: the  *)
(* image that runs is where BootInv says, before the session's rotation    *)
(* and after it.                                                           *)
(***************************************************************************)
EXTENDS MCSupply, MCDesk, FiniteSetTheorems, SequenceTheorems, TLAPS

FP == INSTANCE FetchProofs WITH
  SOURCES <- <<"s", "w">>, GROUPS <- << <<"sums", "sums.asc">>, <<"s.sig">> >>,
  WAIVED <- {"w"}, REFUSED <- {"w"}, Draft <- RecipeDraft,
  Package <- {"app", "lib", "runner"}, RUNNER <- "runner", PINNED <- {"lib"},
  PROVIDERS <- [app |-> {"lib"}, lib |-> {}, runner |-> {}],
  Retouched <- {<<"runner", "live">>, <<"lib", "live">>, <<"app", "source">>,
                <<"lib", "retained">>, <<"app", "pool">>},
  MaxRetouch <- MaxEdit, MaxKill <- MaxLoss, consumed <- spent

\* The two instances of Fetch say the same.
LEMMA SameFetch ==
  /\ F!FetchAssumption => FP!FetchAssumption
  /\ F!Init => FP!Init
  /\ F!Next => FP!Next
  /\ FP!CacheIsTrue => F!CacheIsTrue
<1>1. F!FetchAssumption => FP!FetchAssumption
  BY DEF F!FetchAssumption, FP!FetchAssumption, F!Url, FP!Url, F!Auxiliary, FP!Auxiliary
<1>2. F!Init => FP!Init
  BY DEF F!Init, FP!Init, F!Url, FP!Url, F!Auxiliary, FP!Auxiliary, F!Idle, FP!Idle
<1>3. F!Next => FP!Next
  BY Zenon
     DEF F!Next, FP!Next, F!Step, FP!Step, F!CachedSource, FP!CachedSource,
         F!CachedAuxiliary, FP!CachedAuxiliary, F!Download, FP!Download, F!Missing, FP!Missing,
         F!PublishSource, FP!PublishSource, F!Verify, FP!Verify, F!PublishAuxiliary,
         FP!PublishAuxiliary, F!Reread, FP!Reread, F!End, FP!End, F!Stop, FP!Stop, F!Begin,
         FP!Begin, F!Republish, FP!Republish, F!Edit, FP!Edit, F!Go, FP!Go, F!GiveUp, FP!GiveUp,
         F!Idle, FP!Idle, F!Url, FP!Url, F!Auxiliary, FP!Auxiliary, F!Stable, FP!Stable,
         F!Proved, FP!Proved, F!Authentic, FP!Authentic, F!Placed, FP!Placed, F!Settled,
         FP!Settled, F!Wanted, FP!Wanted, F!NextPart, FP!NextPart, F!NextGroup, FP!NextGroup,
         F!NextSource, FP!NextSource
<1>4. FP!CacheIsTrue => F!CacheIsTrue
  BY DEF F!CacheIsTrue, FP!CacheIsTrue, F!Url, FP!Url, F!Auxiliary, FP!Auxiliary,
         F!Untouched, FP!Untouched, F!Authentic, FP!Authentic
<1> QED
  BY <1>1, <1>2, <1>3, <1>4

\* The two instances of Evidence say the same.
LEMMA SameEvidence ==
  /\ E!EvidenceAssumption => FP!EvidenceAssumption
  /\ E!EvidenceInit => FP!EvidenceInit
  /\ E!EvidenceNext => FP!EvidenceNext
  /\ FP!InputsAreAdmitted => E!InputsAreAdmitted
<1>1. E!EvidenceAssumption => FP!EvidenceAssumption
  BY Zenon
     DEF E!EvidenceAssumption, FP!EvidenceAssumption, E!IsRecipe, FP!IsRecipe, E!Other,
         FP!Other, E!Format, FP!Format, E!Plain, FP!Plain, E!Normal, FP!Normal,
         E!Family, FP!Family, E!Waiver, FP!Waiver, E!Legacy, FP!Legacy, E!Sums, FP!Sums
<1>2. E!EvidenceInit => FP!EvidenceInit
  BY Zenon DEF E!EvidenceInit, FP!EvidenceInit, E!NoLock, FP!NoLock
<1>3. E!EvidenceNext => FP!EvidenceNext
  BY Zenon
     DEF E!NoLock, FP!NoLock, E!State, FP!State, E!Seal, FP!Seal, E!Measure, FP!Measure,
         E!Reusable, FP!Reusable, E!Covers, FP!Covers, E!Reuse, FP!Reuse, E!Pass, FP!Pass,
         E!Apply, FP!Apply, E!Drop, FP!Drop, E!EvidenceNext, FP!EvidenceNext, E!Waiver,
         FP!Waiver, E!Has, FP!Has, E!Indexed, FP!Indexed, E!Normal, FP!Normal, E!Legacy,
         FP!Legacy, E!Sums, FP!Sums, E!SumsKey, FP!SumsKey, E!SlotFits, FP!SlotFits,
         E!IndexedFits, FP!IndexedFits, E!LegacyFits, FP!LegacyFits, E!SumsFit, FP!SumsFit,
         E!SignaturePlan, FP!SignaturePlan, E!SourcesFit, FP!SourcesFit, E!KindFits,
         FP!KindFits, E!Loads, FP!Loads, E!Input, FP!Input, E!Waived, FP!Waived, E!Signed,
         FP!Signed, E!Pages, FP!Pages, E!WaiverInputs, FP!WaiverInputs, E!Waivers,
         FP!Waivers, E!SlotSignature, FP!SlotSignature, E!SlotKey, FP!SlotKey,
         E!MinisignKey, FP!MinisignKey, E!MinisignSignature, FP!MinisignSignature,
         E!Manifest, FP!Manifest, E!ManifestSignature, FP!ManifestSignature, E!DetachedSums,
         FP!DetachedSums, E!Open, FP!Open, E!Frozen, FP!Frozen, E!NoSource, FP!NoSource,
         E!Source, FP!Source, E!SourceInputs, FP!SourceInputs, E!Inputs, FP!Inputs,
         E!Statable, FP!Statable, E!Observed, FP!Observed
<1>4. FP!InputsAreAdmitted => E!InputsAreAdmitted
  BY Zenon
     DEF E!InputsAreAdmitted, FP!InputsAreAdmitted, E!NoLock, FP!NoLock, E!OldInSlot,
         FP!OldInSlot, E!Verdict, FP!Verdict, E!Waiver, FP!Waiver, E!Has, FP!Has, E!Indexed,
         FP!Indexed, E!Normal, FP!Normal, E!Legacy, FP!Legacy, E!Sums, FP!Sums, E!SumsKey,
         FP!SumsKey, E!SlotFits, FP!SlotFits, E!IndexedFits, FP!IndexedFits, E!LegacyFits,
         FP!LegacyFits, E!SumsFit, FP!SumsFit, E!SignaturePlan, FP!SignaturePlan, E!Input,
         FP!Input, E!Waived, FP!Waived, E!Signed, FP!Signed, E!Pages, FP!Pages,
         E!WaiverInputs, FP!WaiverInputs, E!Waivers, FP!Waivers, E!SlotSignature,
         FP!SlotSignature, E!SlotKey, FP!SlotKey, E!MinisignKey, FP!MinisignKey,
         E!MinisignSignature, FP!MinisignSignature, E!Manifest, FP!Manifest,
         E!ManifestSignature, FP!ManifestSignature, E!DetachedSums, FP!DetachedSums, E!Open,
         FP!Open, E!Frozen, FP!Frozen, E!NoSource, FP!NoSource, E!Source, FP!Source,
         E!SourceInputs, FP!SourceInputs, E!Inputs, FP!Inputs, E!Statable, FP!Statable,
         E!Observed, FP!Observed, E!OfWaiver, FP!OfWaiver, E!SignatureFits,
         FP!SignatureFits, E!KeyFits, FP!KeyFits, E!IdentifierFits, FP!IdentifierFits,
         E!IndexFits, FP!IndexFits, E!InputFits, FP!InputFits, E!Slots, FP!Slots, E!Sources,
         FP!Sources, E!SourcesClose, FP!SourcesClose, E!Claimed, FP!Claimed, E!OfSlot,
         FP!OfSlot, E!WaivedSlots, FP!WaivedSlots, E!One, FP!One, E!Typed, FP!Typed,
         E!WaiverCloses, FP!WaiverCloses, E!MinisignCloses, FP!MinisignCloses, E!SumsClose,
         FP!SumsClose, E!KeysOfSlots, FP!KeysOfSlots, E!SlotsClose, FP!SlotsClose,
         E!Admitted, FP!Admitted, E!Cardinality, FP!Cardinality
<1> QED
  BY <1>1, <1>2, <1>3, <1>4

\* The two instances of Build say the same.
LEMMA SameBuild ==
  /\ B!BuildAssumption => FP!BuildAssumption
  /\ B!BuildInit => FP!BuildInit
  /\ B!BuildNext => FP!BuildNext
  /\ FP!BuiltIsDeclared => B!BuiltIsDeclared
<1>1. B!BuildAssumption => FP!BuildAssumption
  BY DEF B!BuildAssumption, FP!BuildAssumption, B!Closure, FP!Closure, B!Closed, FP!Closed,
         B!Place, FP!Place
<1>2. B!BuildInit => FP!BuildInit
  BY DEF B!BuildInit, FP!BuildInit, B!Fingerprint, FP!Fingerprint, B!Closure, FP!Closure, B!Closed,
         FP!Closed, B!NoRecord, FP!NoRecord, B!Nothing, FP!Nothing, B!NoLeaf, FP!NoLeaf,
         B!NoJob, FP!NoJob
<1>3. B!BuildNext => FP!BuildNext
  BY Zenon
     DEF B!Cardinality, FP!Cardinality, B!Place, FP!Place, B!Edited, FP!Edited,
         B!Nothing, FP!Nothing, B!Closed,
         FP!Closed, B!Closure, FP!Closure, B!Fingerprint, FP!Fingerprint, B!NoRecord,
         FP!NoRecord, B!NoLeaf, FP!NoLeaf, B!NoJob, FP!NoJob, B!Recorded, FP!Recorded,
         B!Intact, FP!Intact, B!UpToDate, FP!UpToDate, B!Bump, FP!Bump, B!Touched,
         FP!Touched, B!Retouch, FP!Retouch, B!Todo, FP!Todo, B!BeginBuild, FP!BeginBuild, B!Abandon,
         FP!Abandon, B!Onwards, FP!Onwards, B!Unmoved, FP!Unmoved, B!Choose,
         FP!Choose, B!Fetch, FP!Fetch, B!Provides, FP!Provides, B!Claims, FP!Claims,
         B!SnapshotMatches, FP!SnapshotMatches, B!Materialize, FP!Materialize,
         B!CloseView, FP!CloseView, B!Compile, FP!Compile, B!Retain, FP!Retain,
         B!Receive, FP!Receive, B!InstallSealed, FP!InstallSealed, B!Close, FP!Close,
         B!StopBuild, FP!StopBuild, B!Emitted, FP!Emitted, B!BeginEmit, FP!BeginEmit,
         B!FindImage, FP!FindImage, B!Compress, FP!Compress, B!Rename, FP!Rename,
         B!BuildNext, FP!BuildNext
<1>4. FP!BuiltIsDeclared => B!BuiltIsDeclared
  BY DEF B!BuiltIsDeclared, FP!BuiltIsDeclared, B!ShellUntouched, FP!ShellUntouched,
         B!Recorded, FP!Recorded
<1> QED
  BY <1>1, <1>2, <1>3, <1>4

\* The part that runs never changes.
LEMMA PartStays ==
  ASSUME [SupplyNext]_ofSupply
  PROVE  part' = part
BY DEF SupplyNext, ofSupply

\* For any processes and bounds, and whatever the plans and builds are: as long as nobody
\* edits the cache, it holds what its names say, and what one run has authenticated stays
\* there for every later one (fetch.rs, publish_noreplace and verify_*_plan).
THEOREM SourcesStayAsNamed == SupplySpec => []CacheStaysTrue
<1> DEFINE Inv == Fetching => FP!IInv
<1>1. FP!FetchAssumption
  BY SupplyAssumption, SameFetch
<1>2. SupplyInit => Inv
  <2> SUFFICES ASSUME SupplyInit, Fetching
               PROVE  FP!IInv
    OBVIOUS
  <2>1. F!Init
    BY DEF SupplyInit, Fetching, Stating, Planning, Building
  <2> QED
    BY <1>1, <2>1, SameFetch, FP!InitHolds
<1>3. Inv /\ [SupplyNext]_ofSupply => Inv'
  <2> SUFFICES ASSUME Inv, [SupplyNext]_ofSupply, Fetching'
               PROVE  FP!IInv'
    OBVIOUS
  <2>1. Fetching
    BY PartStays DEF Fetching
  <2>2. F!Next \/ UNCHANGED ofSupply
    BY <2>1 DEF SupplyNext, Fetching, Stating, Planning, Building
  <2>3. [FP!Next]_FP!fvars
    BY <2>2, SameFetch DEF ofSupply, ofFetch, FP!fvars
  <2> QED
    BY <1>1, <2>1, <2>3, FP!IInvKept
<1>4. Inv => CacheStaysTrue
  BY <1>1, SameFetch, FP!CacheFollows DEF CacheStaysTrue
<1> QED
  BY <1>2, <1>3, <1>4, PTL DEF SupplySpec

\* For any bounds, and whatever the plans and the cache do: as long as nobody edits the
\* files of the runner, a record says a fingerprint only of what was made of exactly that
\* (create_build_view, sealed_channel_snapshot).
THEOREM WhatIsBuiltIsDeclared == SupplySpec => []BuiltAsDeclared
<1> DEFINE Inv == Building => FP!Built
<1>1. FP!BuildAssumption
  BY SupplyAssumption, SameBuild
<1>2. SupplyInit => Inv
  <2> SUFFICES ASSUME SupplyInit, Building
               PROVE  FP!Built
    OBVIOUS
  <2>1. B!BuildInit
    BY DEF SupplyInit, Fetching, Stating, Planning, Building
  <2> QED
    BY <1>1, <2>1, SameBuild, FP!BuiltAtFirst
<1>3. Inv /\ [SupplyNext]_ofSupply => Inv'
  <2> SUFFICES ASSUME Inv, [SupplyNext]_ofSupply, Building'
               PROVE  FP!Built'
    OBVIOUS
  <2>1. Building
    BY PartStays DEF Building
  <2>2. B!BuildNext \/ UNCHANGED ofSupply
    BY <2>1 DEF SupplyNext, Fetching, Stating, Planning, Building
  <2>3. [FP!BuildNext]_FP!bvars
    BY <2>2, SameBuild DEF ofSupply, ofBuild, vars, FP!bvars
  <2> QED
    BY <1>1, <2>1, <2>3, FP!BuiltKept
<1>4. Inv => BuiltAsDeclared
  BY SameBuild, FP!DeclarationFollows DEF BuiltAsDeclared
<1> QED
  BY <1>2, <1>3, <1>4, PTL DEF SupplySpec

\* Whatever a recipe of the instance declares of upstream's signatures, the plan's own
\* verifier admits what the plan states of it, and a sealed plan leaves nothing open
\* (validate_package_artifact_correlation of what input_artifacts lists).
THEOREM WhatIsStatedIsAdmitted == SupplySpec => []InputsAreAdmitted
<1> DEFINE Inv == Stating => FP!Stated
<1>1. FP!EvidenceAssumption
  BY SupplyAssumption, SameEvidence
<1>2. SupplyInit => Inv
  <2> SUFFICES ASSUME SupplyInit, Stating
               PROVE  FP!Stated
    OBVIOUS
  <2>1. E!EvidenceInit
    BY DEF SupplyInit, Fetching, Stating, Planning, Building
  <2> QED
    BY <2>1, SameEvidence, FP!StatedAtFirst
<1>3. Inv /\ [SupplyNext]_ofSupply => Inv'
  <2> SUFFICES ASSUME Inv, [SupplyNext]_ofSupply, Stating'
               PROVE  FP!Stated'
    OBVIOUS
  <2>1. Stating
    BY PartStays DEF Stating
  <2>2. E!EvidenceNext \/ UNCHANGED ofSupply
    BY <2>1 DEF SupplyNext, Fetching, Stating, Planning, Building
  <2>3. [FP!EvidenceNext]_FP!ofEvidence
    BY <2>2, SameEvidence DEF ofSupply, ofEvidence, FP!ofEvidence
  <2> QED
    BY <1>1, <2>1, <2>3, FP!StatedKept
<1>4. Inv => InputsAreAdmitted
  BY <1>1, SameEvidence, FP!VerdictFollows DEF InputsAreAdmitted
<1> QED
  BY <1>2, <1>3, <1>4, PTL DEF SupplySpec


-----------------------------------------------------------------------------
(* The keys: programs of steps, and what holds between two of them.        *)

\* The steps that neither put a file in place nor make or remove a directory.

Plain == {"ensure", "unlink", "sync_stage", "sync_dir", "check"}

DeskSteps ==
  {<<k>> : k \in {"sync_dir", "sync_stage", "rmdir", "mkdir", "check", "report"}}
  \cup {<<k, n>> : k \in {"ensure", "fill", "unlink", "promote"}, n \in S!Leaf}

\* The steps that need the private directory.
Filing == {"ensure", "fill", "unlink", "promote", "sync_stage", "rmdir"}
FinalsOf(op) == IF op = "keygen" THEN {"secret", "public"} ELSE {"signature"}

Kinds(t) == {t[i][1] : i \in 1 .. Len(t)}
Promotes(t, n) == \E i \in 1 .. Len(t) : t[i][1] = "promote" /\ t[i][2] = n
Single(t) ==
  \A i, j \in 1 .. Len(t) : t[i][1] = "promote" /\ t[j][1] = "promote" => i = j
Since(t, i, kind) == \E j \in 1 .. (i - 1) : t[j][1] = kind

\* What is true of the rest of any program.
PromotesWell(t, op) ==
  \A i \in 1 .. Len(t) :
    t[i][1] = "promote" =>
      /\ t[i][2] \in FinalsOf(op) /\ i + 2 < Len(t)
      /\ t[i + 1][1] = "sync_dir" /\ t[i + 2][1] = "sync_stage"
      /\ op = "keygen" => \E j \in (i + 3) .. Len(t) : t[j][1] = "sync_dir"
ReportsLast(t) == \A i \in 1 .. Len(t) : t[i][1] = "report" => i = Len(t)
MakesFirst(t) ==
  \A i \in 1 .. Len(t) :
    t[i][1] = "mkdir" => \A j \in 1 .. (i - 1) : t[j][1] \in {"unlink", "sync_stage", "rmdir"}
FilesBefore(t) ==
  \A i \in 1 .. Len(t) :
    t[i][1] = "rmdir" =>
      \A j \in (i + 1) .. Len(t) :
        t[j][1] \in Filing => \E m \in (i + 1) .. (j - 1) : t[m][1] = "mkdir"
Sequel(t, op) ==
  /\ t \in Seq(DeskSteps)
  /\ PromotesWell(t, op) /\ ReportsLast(t) /\ MakesFirst(t) /\ FilesBefore(t)

PairFiles(k) ==
  stage["keygen"] # None =>
    \A n \in S!Leaf :
      /\ stage["keygen"][n] \in {None, Torn, S!Content(n, k)}
      /\ disk.stage["keygen"][n] \in {None, Torn, S!Content(n, k)}
OfKey(k) == dir["secret"] \in {None, k} /\ dir["public"] \in {None, k}

KeyTypes ==
  /\ DOMAIN dir = S!Final /\ DOMAIN stage = S!Op
  /\ DOMAIN disk = {"dir", "stage"}
  /\ DOMAIN disk.dir = S!Final /\ DOMAIN disk.stage = S!Op
  /\ DOMAIN given = S!Op
  /\ stage["keygen"] # None =>
       stage["keygen"] = [n \in S!Leaf |-> stage["keygen"][n]] /\ DOMAIN disk.stage["keygen"] = S!Leaf
  /\ keys \in Nat /\ message \in Nat

\* What is in the private directory of keygen, and under the final names.
OneKey == \E k \in Nat : PairFiles(k) /\ OfKey(k)

\* What a power cut may leave.
Lasting ==
  /\ \A n \in S!Final : disk.dir[n] \in {None, dir[n]}
  /\ dir["public"] # None => dir["secret"] = dir["public"] /\ disk.dir["secret"] = dir["secret"]
  /\ dir["signature"] # None =>
       /\ dir["signature"][1] = dir["secret"] /\ dir["secret"] # None
       /\ disk.dir["secret"] = dir["secret"]

\* What a run puts in place is durable before it reports.
Lands(t, n) ==
  \/ Promotes(t, n)
  \/ dir[n] = run.is /\ (disk.dir[n] = run.is \/ "sync_dir" \in Kinds(t))

\* The secret key is durable before the public one is put in place.
SecretFirst(t) ==
  \A i \in 1 .. Len(t) :
    t[i][1] = "promote" =>
      /\ t[i][2] = "secret" /\ dir["secret"] # None =>
           disk.dir["secret"] = run.is \/ Since(t, i, "sync_dir")
      /\ t[i][2] = "public" =>
           \/ \E j \in 1 .. (i - 1) : t[j][1] = "promote" /\ t[j][2] = "secret"
           \/ dir["secret"] = run.is /\ (disk.dir["secret"] = run.is \/ Since(t, i, "sync_dir"))

MakesAgain(t) ==
  stage["keygen"] = None => \A i \in 1 .. Len(t) : t[i][1] \in Filing => Since(t, i, "mkdir")

KeygenRun ==
  /\ run.op = "keygen" /\ run.is \in Nat /\ OfKey(run.is)
  /\ "mkdir" \in Kinds(run.todo) \/ PairFiles(run.is)
  /\ MakesAgain(run.todo) /\ SecretFirst(run.todo)
  /\ Lands(run.todo, "secret") /\ Lands(run.todo, "public")

SignRun ==
  /\ run.op = "sign" /\ run.is \in Nat \X Nat
  /\ dir["secret"] = dir["public"] /\ dir["secret"] # None /\ run.is[1] = dir["secret"]
  /\ Single(run.todo) /\ (Promotes(run.todo, "signature") => dir["signature"] = None)
  /\ Lands(run.todo, "signature")

Running ==
  \/ run = S!Idle
  \/ DOMAIN run = {"op", "is", "todo"} /\ Sequel(run.todo, run.op) /\ (KeygenRun \/ SignRun)

KeysInv == KeyTypes /\ OneKey /\ Lasting /\ Running /\ S!SuccessIsDurable


-----------------------------------------------------------------------------
(* Programs.                                                             *)

LEMMA Concat ==
  ASSUME NEW p \in Seq(DeskSteps), NEW t \in Seq(DeskSteps)
  PROVE  /\ p \o t \in Seq(DeskSteps) /\ Len(p \o t) = Len(p) + Len(t)
         /\ Len(p) \in Nat /\ Len(t) \in Nat
         /\ \A i \in 1 .. Len(p) + Len(t) :
              (p \o t)[i] = IF i <= Len(p) THEN p[i] ELSE t[i - Len(p)]
         /\ \A i \in 1 .. Len(t) : (p \o t)[Len(p) + i] = t[i]
<1>1. \A D : \A s1, s2 \in Seq(D) :
        /\ s1 \o s2 \in Seq(D) /\ Len(s1 \o s2) = Len(s1) + Len(s2)
        /\ \A i \in 1 .. Len(s1) + Len(s2) : (s1 \o s2)[i] =
             IF i <= Len(s1) THEN s1[i] ELSE s2[i - Len(s1)]
  BY ConcatProperties, Zenon
<1>2. /\ p \o t \in Seq(DeskSteps) /\ Len(p \o t) = Len(p) + Len(t)
      /\ \A i \in 1 .. Len(p) + Len(t) :
           (p \o t)[i] = IF i <= Len(p) THEN p[i] ELSE t[i - Len(p)]
  BY <1>1, Zenon
<1>3. Len(p) \in Nat /\ Len(t) \in Nat
  OBVIOUS
<1>4. \A i \in 1 .. Len(t) :
        Len(p) + i \in 1 .. Len(p) + Len(t) /\ ~(Len(p) + i <= Len(p)) /\ Len(p) + i - Len(p) = i
  BY <1>3
<1> QED
  BY <1>2, <1>3, <1>4

LEMMA KindsConcat ==
  ASSUME NEW p \in Seq(DeskSteps), NEW t \in Seq(DeskSteps)
  PROVE  Kinds(p \o t) = Kinds(p) \cup Kinds(t)
<1>1. Kinds(p \o t) \subseteq Kinds(p) \cup Kinds(t)
  BY Concat DEF Kinds
<1>2. Kinds(p) \subseteq Kinds(p \o t)
  BY Concat DEF Kinds
<1>3. ASSUME NEW i \in 1 .. Len(t) PROVE t[i][1] \in Kinds(p \o t)
  <2>1. Len(p) + i \in 1 .. Len(p \o t) /\ (p \o t)[Len(p) + i] = t[i]
    BY Concat
  <2> QED
    BY <2>1 DEF Kinds
<1> QED
  BY <1>1, <1>2, <1>3 DEF Kinds

\* What u may have before t: its first m steps.
Prefixed(u, m, t, op) ==
  /\ \A i \in 1 .. m : u[i][1] = "promote" =>
       /\ u[i][2] \in FinalsOf(op) /\ i + 2 < Len(u)
       /\ u[i + 1][1] = "sync_dir" /\ u[i + 2][1] = "sync_stage"
       /\ op = "keygen" => \E j \in (i + 3) .. Len(u) : u[j][1] = "sync_dir"
  /\ \A i \in 1 .. m : u[i][1] # "report" /\ (u[i][1] = "mkdir" => i = 1)
  /\ "mkdir" \notin Kinds(t) \/ \A i \in 1 .. m : u[i][1] \in {"unlink", "sync_stage", "rmdir"}
  /\ \A i \in 1 .. m : u[i][1] = "rmdir" =>
       i = m /\ \A j \in 1 .. Len(t) : t[j][1] \in Filing => Since(t, j, "mkdir")
Ends(u, m, t) == Len(u) = m + Len(t) /\ \A i \in 1 .. Len(t) : u[m + i] = t[i]

LEMMA EndsAt ==
  ASSUME NEW S1, NEW S2, NEW t \in Seq(S1), NEW u \in Seq(S2), NEW m \in Nat, Ends(u, m, t)
  PROVE  /\ Len(t) \in Nat /\ Len(u) \in Nat /\ Len(u) = m + Len(t)
         /\ \A i \in 1 .. Len(u) : i <= m => i \in 1 .. m
         /\ \A i \in 1 .. Len(u) : ~(i <= m) => i - m \in 1 .. Len(t) /\ u[i] = t[i - m]
         /\ \A i \in 1 .. Len(t) : m + i \in 1 .. Len(u) /\ u[m + i] = t[i]
<1>1. Len(t) \in Nat /\ Len(u) \in Nat /\ Len(u) = m + Len(t)
  BY DEF Ends
<1>2. ASSUME NEW i \in 1 .. Len(u), ~(i <= m) PROVE i - m \in 1 .. Len(t) /\ u[i] = t[i - m]
  <2>1. i - m \in 1 .. Len(t) /\ m + (i - m) = i
    BY <1>1, <1>2
  <2>2. u[m + (i - m)] = t[i - m]
    BY <2>1 DEF Ends
  <2> QED
    BY <2>1, <2>2
<1>3. \A i \in 1 .. Len(t) : m + i \in 1 .. Len(u) /\ u[m + i] = t[i]
  BY <1>1 DEF Ends
<1> QED
  BY <1>1, <1>2, <1>3

\* A program after a prefix.
LEMMA SequelAfter ==
  ASSUME NEW op, NEW t, Sequel(t, op), NEW u \in Seq(DeskSteps), NEW m \in Nat,
         Ends(u, m, t), Prefixed(u, m, t, op)
  PROVE  Sequel(u, op)
<1>0. t \in Seq(DeskSteps)
  BY DEF Sequel
<1>1. /\ Len(t) \in Nat /\ Len(u) \in Nat /\ Len(u) = m + Len(t)
      /\ \A i \in 1 .. Len(u) : i <= m => i \in 1 .. m
      /\ \A i \in 1 .. Len(t) : m + i \in 1 .. Len(u) /\ u[m + i] = t[i]
  BY <1>0, EndsAt, SMTT(20)
<1>2. \A i \in 1 .. Len(u) : ~(i <= m) => i - m \in 1 .. Len(t) /\ u[i] = t[i - m]
  BY <1>0, EndsAt, SMTT(20)
<1>4. PromotesWell(u, op)
  <2> SUFFICES ASSUME NEW i \in 1 .. Len(u), u[i][1] = "promote", ~(i <= m)
               PROVE  /\ u[i][2] \in FinalsOf(op) /\ i + 2 < Len(u)
                      /\ u[i + 1][1] = "sync_dir" /\ u[i + 2][1] = "sync_stage"
                      /\ op = "keygen" => \E j \in (i + 3) .. Len(u) : u[j][1] = "sync_dir"
    BY <1>1 DEF PromotesWell, Prefixed
  <2> DEFINE k == i - m
  <2>1. k \in 1 .. Len(t) /\ u[i] = t[k] /\ k \in Int /\ i = m + k
    BY <1>1, <1>2
  <2> HIDE DEF k
  <2>2. /\ t[k][2] \in FinalsOf(op) /\ k + 2 < Len(t)
        /\ t[k + 1][1] = "sync_dir" /\ t[k + 2][1] = "sync_stage"
        /\ op = "keygen" => \E j \in (k + 3) .. Len(t) : t[j][1] = "sync_dir"
    BY <2>1 DEF Sequel, PromotesWell
  <2>3. u[i + 1] = t[k + 1] /\ u[i + 2] = t[k + 2] /\ i + 2 < Len(u)
    <3>0. k \in 1 .. Len(t) /\ k + 2 < Len(t) /\ i = m + k /\ Len(t) \in Nat /\ Len(u) = m + Len(t)
      BY <2>1, <2>2, <1>1
    <3>1. k + 1 \in 1 .. Len(t) /\ k + 2 \in 1 .. Len(t) /\ m + (k + 1) = i + 1 /\ m + (k + 2) = i + 2
      BY <3>0
    <3>2. u[m + (k + 1)] = t[k + 1] /\ u[m + (k + 2)] = t[k + 2]
      BY <3>1, <1>1
    <3>3. i + 2 < Len(u)
      BY <3>0
    <3> QED
      BY <3>1, <3>2, <3>3
  <2>4. ASSUME op = "keygen" PROVE \E j \in (i + 3) .. Len(u) : u[j][1] = "sync_dir"
    <3>1. PICK j \in (k + 3) .. Len(t) : t[j][1] = "sync_dir"
      BY <2>2, <2>4
    <3>0. k \in 1 .. Len(t) /\ i = m + k /\ Len(t) \in Nat /\ Len(u) = m + Len(t)
      BY <2>1, <1>1
    <3>2. j \in 1 .. Len(t) /\ m + j \in (i + 3) .. Len(u)
      <4>1. j \in Int /\ k + 3 <= j /\ j <= Len(t) /\ k \in Nat /\ k >= 1
        BY <3>0
      <4> QED
        BY <3>0, <4>1
    <3>3. u[m + j] = t[j]
      BY <3>2, <1>1
    <3> QED
      BY <3>1, <3>2, <3>3
  <2> QED
    BY <2>1, <2>2, <2>3, <2>4
<1>5. ReportsLast(u)
  <2> SUFFICES ASSUME NEW i \in 1 .. Len(u), u[i][1] = "report" PROVE i = Len(u)
    BY DEF ReportsLast
  <2>1. i - m \in 1 .. Len(t) /\ u[i] = t[i - m]
    BY <1>1, <1>2 DEF Prefixed
  <2>2. i - m = Len(t)
    BY <2>1 DEF Sequel, ReportsLast
  <2> QED
    BY <2>1, <2>2, <1>1
<1>6. MakesFirst(u)
  <2> SUFFICES ASSUME NEW i \in 1 .. Len(u), u[i][1] = "mkdir", NEW j \in 1 .. (i - 1)
               PROVE  u[j][1] \in {"unlink", "sync_stage", "rmdir"}
    BY DEF MakesFirst
  <2>0. i > 1 /\ j \in 1 .. Len(u) /\ j < i
    BY <1>1
  <2>1. i - m \in 1 .. Len(t) /\ u[i] = t[i - m]
    <3>1. ~(i <= m)
      <4>1. i \in 1 .. m => i = 1
        BY DEF Prefixed
      <4> QED
        BY <1>1, <2>0, <4>1
    <3> QED
      BY <1>2, <3>1
  <2>2. \A k \in 1 .. m : u[k][1] \in {"unlink", "sync_stage", "rmdir"}
    BY <2>1 DEF Kinds, Prefixed
  <2>3. CASE j <= m
    BY <1>1, <2>0, <2>2, <2>3
  <2>4. CASE ~(j <= m)
    <3>1. j - m \in 1 .. Len(t) /\ u[j] = t[j - m]
      BY <2>4, <1>2, <2>0
    <3>2. j - m \in 1 .. ((i - m) - 1)
      BY <3>1, <2>1, <2>0, <1>1
    <3>3. t[j - m][1] \in {"unlink", "sync_stage", "rmdir"}
      BY <3>2, <2>1 DEF Sequel, MakesFirst
    <3> QED
      BY <3>1, <3>3
  <2> QED
    BY <2>3, <2>4
<1>7. FilesBefore(u)
  <2> SUFFICES ASSUME NEW i \in 1 .. Len(u), u[i][1] = "rmdir", NEW j \in (i + 1) .. Len(u),
                      u[j][1] \in Filing
               PROVE  \E k \in (i + 1) .. (j - 1) : u[k][1] = "mkdir"
    BY DEF FilesBefore
  <2>0. j \in 1 .. Len(u) /\ i < j
    BY <1>1
  <2>1. CASE i <= m
    <3>1. i = m /\ \A k \in 1 .. Len(t) : t[k][1] \in Filing => Since(t, k, "mkdir")
      BY <2>1, <1>1 DEF Prefixed
    <3>2. j - m \in 1 .. Len(t) /\ u[j] = t[j - m]
      BY <1>2, <2>0, <3>1
    <3>3. PICK k \in 1 .. ((j - m) - 1) : t[k][1] = "mkdir"
      BY <3>1, <3>2 DEF Since
    <3>4. k \in 1 .. Len(t) /\ m + k \in (i + 1) .. (j - 1)
      BY <3>1, <3>2, <3>3, <1>1
    <3>5. u[m + k] = t[k]
      BY <3>4, <1>1
    <3> QED
      BY <3>3, <3>4, <3>5
  <2>2. CASE ~(i <= m)
    <3>1. i - m \in 1 .. Len(t) /\ u[i] = t[i - m]
      BY <2>2, <1>2
    <3>2. j - m \in 1 .. Len(t) /\ u[j] = t[j - m]
      BY <2>0, <2>2, <1>1, <1>2
    <3>3. j - m \in ((i - m) + 1) .. Len(t)
      BY <3>1, <3>2, <2>0, <1>1
    <3>4. PICK k \in ((i - m) + 1) .. ((j - m) - 1) : t[k][1] = "mkdir"
      BY <3>1, <3>2, <3>3 DEF Sequel, FilesBefore
    <3>5. k \in 1 .. Len(t) /\ m + k \in (i + 1) .. (j - 1)
      BY <3>1, <3>2, <3>4, <1>1
    <3>6. u[m + k] = t[k]
      BY <3>5, <1>1
    <3> QED
      BY <3>4, <3>5, <3>6
  <2> QED
    BY <2>1, <2>2
<1> QED
  BY <1>4, <1>5, <1>6, <1>7 DEF Sequel

LEMMA ConcatEnds ==
  ASSUME NEW p \in Seq(DeskSteps), NEW t \in Seq(DeskSteps)
  PROVE  Ends(p \o t, Len(p), t) /\ \A i \in 1 .. Len(p) : (p \o t)[i] = p[i]
<1>1. Len(p) \in Nat /\ Len(t) \in Nat
  OBVIOUS
<1>2. \A i \in 1 .. Len(p) : i \in 1 .. Len(p) + Len(t) /\ i <= Len(p)
  BY <1>1
<1> QED
  BY <1>2, Concat DEF Ends

LEMMA SequelPlain ==
  ASSUME NEW op, NEW p \in Seq(DeskSteps), NEW t, Sequel(t, op), Kinds(p) \subseteq Plain,
         "mkdir" \notin Kinds(t) \/ Kinds(p) \subseteq {"unlink", "sync_stage"}
  PROVE  Sequel(p \o t, op)
<1>1. t \in Seq(DeskSteps)
  BY DEF Sequel
<1>2. \A i \in 1 .. Len(p) : (p \o t)[i][1] \in Kinds(p)
  BY <1>1, ConcatEnds DEF Kinds
<1>3. Prefixed(p \o t, Len(p), t, op)
  <2>1. \A i \in 1 .. Len(p) :
          (p \o t)[i][1] \in Plain /\ (Kinds(p) \subseteq {"unlink", "sync_stage"} =>
             (p \o t)[i][1] \in {"unlink", "sync_stage", "rmdir"})
    BY <1>2
  <2> QED
    BY <2>1 DEF Prefixed, Plain
<1>4. /\ p \o t \in Seq(DeskSteps) /\ Len(p) \in Nat /\ Ends(p \o t, Len(p), t)
  BY <1>1, Concat, ConcatEnds
<1> QED
  BY <1>3, <1>4, SequelAfter

LEMMA SequelOne ==
  ASSUME NEW op, NEW k \in {"rmdir", "mkdir"}, NEW t, Sequel(t, op),
         k = "mkdir" => "mkdir" \notin Kinds(t),
         k = "rmdir" => \A j \in 1 .. Len(t) : t[j][1] \in Filing => Since(t, j, "mkdir")
  PROVE  Sequel(<< <<k>> >> \o t, op)
<1> DEFINE p == << <<k>> >>
<1>1. t \in Seq(DeskSteps)
  BY DEF Sequel
<1>2. p \in Seq(DeskSteps) /\ Len(p) = 1 /\ p[1] = <<k>>
  BY DEF DeskSteps
<1> HIDE DEF p
<1>3. (p \o t)[1] = <<k>> /\ <<k>>[1] = k
  <2>1. \A i \in 1 .. Len(p) : (p \o t)[i] = p[i]
    BY <1>1, <1>2, ConcatEnds
  <2> QED
    BY <1>2, <2>1
<1>4. Prefixed(p \o t, 1, t, op)
  <2>1. \A i \in 1 .. 1 : i = 1 /\ (p \o t)[i][1] = k
    <3>1. (p \o t)[1][1] = k
      BY <1>3
    <3>2. \A i \in 1 .. 1 : i = 1
      OBVIOUS
    <3> QED
      BY <3>1, <3>2, Zenon
  <2> QED
    BY <2>1 DEF Prefixed
<1>5. /\ p \o t \in Seq(DeskSteps) /\ 1 \in Nat /\ Ends(p \o t, 1, t)
  BY <1>1, <1>2, Concat, ConcatEnds
<1> QED
  BY <1>4, <1>5, SequelAfter DEF p

LEMMA SequelPromotion ==
  ASSUME NEW op, NEW n \in FinalsOf(op), NEW t, Sequel(t, op), n \in S!Leaf, "mkdir" \notin Kinds(t),
         "report" \in Kinds(t), op = "keygen" => "sync_dir" \in Kinds(t)
  PROVE  Sequel(S!Promotion(n) \o t, op)
<1> DEFINE p == S!Promotion(n)
<1>1. t \in Seq(DeskSteps) /\ Len(t) \in Nat
  BY DEF Sequel
<1>2. /\ p \in Seq(DeskSteps) /\ Len(p) = 3
      /\ p[1] = <<"promote", n>> /\ p[2] = <<"sync_dir">> /\ p[3] = <<"sync_stage">>
  BY DEF DeskSteps, S!Promotion
<1> HIDE DEF p
<1>3. /\ (p \o t)[1] = <<"promote", n>> /\ (p \o t)[2] = <<"sync_dir">>
      /\ (p \o t)[3] = <<"sync_stage">>
  <2>1. \A i \in 1 .. Len(p) : (p \o t)[i] = p[i]
    BY <1>1, <1>2, ConcatEnds
  <2>2. 1 \in 1 .. Len(p) /\ 2 \in 1 .. Len(p) /\ 3 \in 1 .. Len(p)
    BY <1>2
  <2> QED
    BY <1>2, <2>1, <2>2
<1>4. /\ p \o t \in Seq(DeskSteps) /\ 3 \in Nat /\ Ends(p \o t, 3, t) /\ Len(p \o t) = 3 + Len(t)
  <2>1. p \o t \in Seq(DeskSteps) /\ Ends(p \o t, Len(p), t)
    BY <1>1, <1>2, Concat, ConcatEnds
  <2> QED
    BY <1>2, <2>1 DEF Ends
<1>5. Len(t) > 0
  BY <1>1 DEF Kinds
<1>6. op = "keygen" => \E j \in 4 .. Len(p \o t) : (p \o t)[j][1] = "sync_dir"
  <2> SUFFICES ASSUME op = "keygen" PROVE \E j \in 4 .. Len(p \o t) : (p \o t)[j][1] = "sync_dir"
    OBVIOUS
  <2>1. PICK j \in 1 .. Len(t) : t[j][1] = "sync_dir"
    BY DEF Kinds
  <2>2. 3 + j \in 4 .. Len(p \o t) /\ (p \o t)[3 + j] = t[j]
    BY <1>1, <1>4 DEF Ends
  <2> QED
    BY <2>1, <2>2
<1>7. Prefixed(p \o t, 3, t, op)
  <2>1. \A i \in 1 .. 3 : i = 1 \/ i = 2 \/ i = 3
    OBVIOUS
  <2>2. 1 + 2 < Len(p \o t) /\ (p \o t)[1 + 1] = <<"sync_dir">> /\ (p \o t)[1 + 2] = <<"sync_stage">>
    BY <1>1, <1>3, <1>4, <1>5
  <2>3. 1 + 3 = 4
    OBVIOUS
  <2>4. /\ (p \o t)[1][1] = "promote" /\ (p \o t)[1][2] = n
        /\ (p \o t)[2][1] = "sync_dir" /\ (p \o t)[3][1] = "sync_stage"
        /\ (p \o t)[1 + 1][1] = "sync_dir" /\ (p \o t)[1 + 2][1] = "sync_stage"
    BY <1>3, <2>2
  <2>5. \A i \in 1 .. 3 : (p \o t)[i][1] = "promote" =>
          /\ (p \o t)[i][2] \in FinalsOf(op) /\ i + 2 < Len(p \o t)
          /\ (p \o t)[i + 1][1] = "sync_dir" /\ (p \o t)[i + 2][1] = "sync_stage"
          /\ op = "keygen" => \E j \in (i + 3) .. Len(p \o t) : (p \o t)[j][1] = "sync_dir"
    BY <1>6, <2>1, <2>2, <2>3, <2>4
  <2>6. \A i \in 1 .. 3 : (p \o t)[i][1] \in {"promote", "sync_dir", "sync_stage"}
    BY <2>1, <2>4
  <2> QED
    BY <2>5, <2>6 DEF Prefixed
<1> QED
  BY <1>4, <1>7, SequelAfter DEF p

LEMMA SequelReport ==
  ASSUME NEW op
  PROVE  Sequel(S!Report, op) /\ S!Report \in Seq(DeskSteps) /\ Kinds(S!Report) = {"report"}
<1>1. S!Report \in Seq(DeskSteps) /\ Len(S!Report) = 1 /\ S!Report[1] = <<"report">>
  BY DEF S!Report, DeskSteps
<1>2. \A i \in 1 .. Len(S!Report) : i = 1 /\ S!Report[i][1] = "report"
  BY <1>1
<1>3. Kinds(S!Report) = {"report"}
  BY <1>1, <1>2 DEF Kinds
<1> QED
  BY <1>1, <1>2, <1>3 DEF Sequel, PromotesWell, ReportsLast, MakesFirst, FilesBefore

LEMMA PlainPrograms ==
  /\ S!Synced \in Seq(DeskSteps) /\ Kinds(S!Synced) = {"sync_stage", "sync_dir"}
  /\ << <<"sync_dir">> >> \in Seq(DeskSteps) /\ Kinds(<< <<"sync_dir">> >>) = {"sync_dir"}
  /\ << <<"check">> >> \in Seq(DeskSteps) /\ Kinds(<< <<"check">> >>) = {"check"}
  /\ << <<"mkdir">> >> \in Seq(DeskSteps) /\ Kinds(<< <<"mkdir">> >>) = {"mkdir"}
  /\ \A n \in S!Leaf : S!Promotion(n) \in Seq(DeskSteps)
                       /\ Kinds(S!Promotion(n)) = {"promote", "sync_dir", "sync_stage"}
<1>1. S!Synced \in Seq(DeskSteps) /\ Kinds(S!Synced) = {"sync_stage", "sync_dir"}
  <2>1. /\ S!Synced \in Seq(DeskSteps) /\ Len(S!Synced) = 2
        /\ S!Synced[1] = <<"sync_stage">> /\ S!Synced[2] = <<"sync_dir">>
    BY DEF S!Synced, DeskSteps
  <2>2. \A i \in 1 .. 2 : i = 1 \/ i = 2
    OBVIOUS
  <2> QED
    BY <2>1, <2>2 DEF Kinds
<1>2. ASSUME NEW k \in {"sync_dir", "check", "mkdir"}
      PROVE  << <<k>> >> \in Seq(DeskSteps) /\ Kinds(<< <<k>> >>) = {k}
  BY DEF Kinds, DeskSteps
<1>3. ASSUME NEW n \in S!Leaf
      PROVE  /\ S!Promotion(n) \in Seq(DeskSteps)
             /\ Kinds(S!Promotion(n)) = {"promote", "sync_dir", "sync_stage"}
  <2> DEFINE p == S!Promotion(n)
  <2>1. /\ p \in Seq(DeskSteps) /\ Len(p) = 3
        /\ p[1] = <<"promote", n>> /\ p[2] = <<"sync_dir">> /\ p[3] = <<"sync_stage">>
    BY DEF S!Promotion, DeskSteps
  <2>2. \A i \in 1 .. 3 : i = 1 \/ i = 2 \/ i = 3
    OBVIOUS
  <2> HIDE DEF p
  <2>3. Kinds(p) = {"promote", "sync_dir", "sync_stage"}
    BY <2>1, <2>2 DEF Kinds
  <2> QED
    BY <2>1, <2>3 DEF p
<1> QED
  BY <1>1, <1>2, <1>3

LEMMA EnsureProgram ==
  ASSUME NEW names \in Seq(S!Leaf)
  PROVE  S!Ensure(names) \in Seq(DeskSteps) /\ Kinds(S!Ensure(names)) \subseteq {"ensure"}
<1> DEFINE p == S!Ensure(names)
<1>1. Len(names) \in Nat /\ \A i \in 1 .. Len(names) : names[i] \in S!Leaf
  OBVIOUS
<1>2. p = [i \in 1 .. Len(names) |-> <<"ensure", names[i]>>]
  BY DEF S!Ensure
<1>3. \A i \in 1 .. Len(names) : p[i] = <<"ensure", names[i]>> /\ p[i] \in DeskSteps
  BY <1>1, <1>2 DEF DeskSteps
<1>4. p \in Seq(DeskSteps) /\ Len(p) = Len(names)
  BY <1>1, <1>2, <1>3
<1> HIDE DEF p
<1>5. Kinds(p) \subseteq {"ensure"}
  BY <1>3, <1>4 DEF Kinds
<1> QED
  BY <1>4, <1>5 DEF p

\* The erasure: the removals, then the sync and the removal of the directory.
Removals(op) == [i \in 1 .. Len(S!Erasure[op]) |-> <<"unlink", S!Erasure[op][i]>>]

LEMMA RemovalProgram ==
  ASSUME NEW op \in S!Op
  PROVE  Removals(op) \in Seq(DeskSteps) /\ Kinds(Removals(op)) \subseteq {"unlink"}
<1> DEFINE names == S!Erasure[op]
           p == Removals(op)
<1>1. Len(names) \in Nat /\ \A i \in 1 .. Len(names) : names[i] \in S!Leaf
  <2>1. CASE op = "keygen"
    <3>1. names = <<"READY", "REQUEST", "public", "secret", "OWNER">>
      BY <2>1 DEF S!Erasure
    <3> QED
      BY <3>1 DEF S!Leaf, S!Final
  <2>2. CASE op = "sign"
    <3>1. names = <<"READY", "signature", "REQUEST", "OWNER">>
      BY <2>2 DEF S!Erasure
    <3> QED
      BY <3>1 DEF S!Leaf, S!Final
  <2> QED
    BY <2>1, <2>2 DEF S!Op
<1>2. p = [i \in 1 .. Len(names) |-> <<"unlink", names[i]>>]
  BY DEF Removals
<1> HIDE DEF names
<1>3. \A i \in 1 .. Len(names) : p[i] = <<"unlink", names[i]>> /\ p[i] \in DeskSteps
  BY <1>1, <1>2 DEF DeskSteps
<1>4. p \in Seq(DeskSteps) /\ Len(p) = Len(names)
  BY <1>1, <1>2, <1>3
<1> HIDE DEF p
<1>5. Kinds(p) \subseteq {"unlink"}
  BY <1>3, <1>4 DEF Kinds
<1> QED
  BY <1>4, <1>5 DEF p

LEMMA Regroup ==
  ASSUME NEW p \in Seq(DeskSteps), NEW s \in Seq(DeskSteps), NEW t \in Seq(DeskSteps)
  PROVE  (p \o s) \o t = p \o (s \o t) /\ s \o t \in Seq(DeskSteps) /\ p \o s \in Seq(DeskSteps)
<1>1. \A S0 : \A s1, s2, s3 \in Seq(S0) : (s1 \o s2) \o s3 = s1 \o (s2 \o s3)
  BY ConcatAssociative, Zenon
<1>2. s \o t \in Seq(DeskSteps) /\ p \o s \in Seq(DeskSteps)
  BY Concat
<1>3. (p \o s) \o t = p \o (s \o t)
  BY ConcatAssociative
<1> QED
  BY <1>2, <1>3

\* The erasure, before a program that needs no directory or makes it again.
LEMMA SequelErase ==
  ASSUME NEW op, NEW o \in S!Op, NEW t, Sequel(t, op),
         \A j \in 1 .. Len(t) : t[j][1] \in Filing => Since(t, j, "mkdir")
  PROVE  /\ Sequel(S!Erase(o) \o t, op) /\ S!Erase(o) \in Seq(DeskSteps)
         /\ Kinds(S!Erase(o)) \subseteq {"unlink", "sync_stage", "rmdir"}
<1> DEFINE r == << <<"rmdir">> >>
           y == << <<"sync_stage">> >>
           yr == << <<"sync_stage">>, <<"rmdir">> >>
<1>1. /\ r \in Seq(DeskSteps) /\ y \in Seq(DeskSteps) /\ yr \in Seq(DeskSteps) /\ yr = y \o r
      /\ Kinds(y) = {"sync_stage"} /\ Kinds(r) = {"rmdir"}
  BY DEF DeskSteps, Kinds
<1>2. t \in Seq(DeskSteps)
  BY DEF Sequel
<1>3. Sequel(r \o t, op)
  BY SequelOne
<1> HIDE DEF r, y, yr
<1>4. Sequel(y \o (r \o t), op)
  BY <1>1, <1>3, SequelPlain DEF Plain
<1>5. Sequel(Removals(o) \o (y \o (r \o t)), op)
  <2>1. Removals(o) \in Seq(DeskSteps) /\ Kinds(Removals(o)) \subseteq {"unlink"}
    BY RemovalProgram
  <2>2. /\ Kinds(Removals(o)) \subseteq Plain
        /\ Kinds(Removals(o)) \subseteq {"unlink", "sync_stage"}
    BY ONLY <2>1 DEF Plain
  <2> QED
    BY ONLY <1>4, <2>1, <2>2, SequelPlain
<1>6. y \o (r \o t) = yr \o t
  <2>1. yr = y \o r /\ y \in Seq(DeskSteps) /\ r \in Seq(DeskSteps)
    BY <1>1
  <2>2. (y \o r) \o t = y \o (r \o t)
    BY ONLY <1>2, <2>1, Regroup
  <2> QED
    BY ONLY <2>1, <2>2
<1>7. Removals(o) \o (yr \o t) = (Removals(o) \o yr) \o t /\ Removals(o) \o yr \in Seq(DeskSteps)
  <2>1. Removals(o) \in Seq(DeskSteps)
    BY RemovalProgram
  <2>2. yr \in Seq(DeskSteps)
    BY <1>1
  <2> QED
    BY ONLY <1>2, <2>1, <2>2, Regroup
<1>8. S!Erase(o) = Removals(o) \o yr
  BY DEF S!Erase, Removals, yr
<1>9. Kinds(S!Erase(o)) \subseteq {"unlink", "sync_stage", "rmdir"}
  <2>1. Kinds(yr) = Kinds(y) \cup Kinds(r)
    BY <1>1, KindsConcat
  <2>2. Kinds(S!Erase(o)) = Kinds(Removals(o)) \cup Kinds(yr)
    BY <1>1, <1>8, RemovalProgram, KindsConcat
  <2> QED
    BY <1>1, <2>1, <2>2, RemovalProgram
<1> QED
  BY <1>5, <1>6, <1>7, <1>8, <1>9

-----------------------------------------------------------------------------
(* The programs a run begins.                                            *)

\* What holds of any of them, by its beginning.
InOrder(t) ==
  \A i \in 1 .. Len(t) :
    t[i][1] = "promote" /\ t[i][2] = "public" =>
      \E j \in 1 .. (i - 1) : t[j][1] = "promote" /\ t[j][2] = "secret"

LEMMA InOrderAfter ==
  ASSUME NEW p \in Seq(DeskSteps), NEW t \in Seq(DeskSteps),
         \A i \in 1 .. Len(p) : ~(p[i][1] = "promote" /\ p[i][2] = "public"),
         InOrder(t) \/ Promotes(p, "secret")
  PROVE  InOrder(p \o t)
<1> DEFINE u == p \o t
           m == Len(p)
<1>1. m \in Nat /\ u \in Seq(DeskSteps) /\ Ends(u, m, t) /\ \A i \in 1 .. m : u[i] = p[i]
  BY Concat, ConcatEnds
<1> HIDE DEF u, m
<1>2. /\ Len(t) \in Nat /\ Len(u) \in Nat /\ Len(u) = m + Len(t)
      /\ \A i \in 1 .. Len(u) : i <= m => i \in 1 .. m
      /\ \A i \in 1 .. Len(u) : ~(i <= m) => i - m \in 1 .. Len(t) /\ u[i] = t[i - m]
      /\ \A i \in 1 .. Len(t) : m + i \in 1 .. Len(u) /\ u[m + i] = t[i]
  <2>1. t \in Seq(DeskSteps)
    OBVIOUS
  <2> QED
    BY ONLY <1>1, <2>1, EndsAt, SMTT(20)
<1>3. \A i \in 1 .. m : ~(u[i][1] = "promote" /\ u[i][2] = "public")
  BY <1>1 DEF m
<1> SUFFICES ASSUME NEW i \in 1 .. Len(u), u[i][1] = "promote", u[i][2] = "public"
             PROVE  \E j \in 1 .. (i - 1) : u[j][1] = "promote" /\ u[j][2] = "secret"
  BY DEF InOrder, u
<1>4. ~(i <= m) /\ i - m \in 1 .. Len(t) /\ u[i] = t[i - m]
  BY <1>2, <1>3
<1>5. CASE InOrder(t)
  <2>1. PICK j \in 1 .. ((i - m) - 1) : t[j][1] = "promote" /\ t[j][2] = "secret"
    BY <1>4, <1>5 DEF InOrder
  <2>2. j \in 1 .. Len(t) /\ m + j \in 1 .. (i - 1)
    BY <1>1, <1>2, <1>4
  <2>3. u[m + j] = t[j]
    BY <1>2, <2>2
  <2> QED
    BY <2>1, <2>2, <2>3
<1>6. CASE Promotes(p, "secret")
  <2>1. PICK j \in 1 .. m : p[j][1] = "promote" /\ p[j][2] = "secret"
    BY <1>6 DEF Promotes, m
  <2>2. j \in 1 .. (i - 1) /\ u[j] = p[j]
    BY <1>1, <1>2, <1>4
  <2> QED
    BY <2>1, <2>2
<1> QED
  BY <1>5, <1>6

LEMMA PromotesConcat ==
  ASSUME NEW p \in Seq(DeskSteps), NEW t \in Seq(DeskSteps), NEW n,
         Promotes(p, n) \/ Promotes(t, n)
  PROVE  Promotes(p \o t, n)
<1> DEFINE u == p \o t
           m == Len(p)
<1>1. m \in Nat /\ u \in Seq(DeskSteps) /\ Ends(u, m, t) /\ \A i \in 1 .. m : u[i] = p[i]
  BY Concat, ConcatEnds
<1> HIDE DEF u, m
<1>2. /\ Len(t) \in Nat /\ Len(u) \in Nat /\ Len(u) = m + Len(t)
      /\ \A i \in 1 .. Len(t) : m + i \in 1 .. Len(u) /\ u[m + i] = t[i]
  BY <1>1, EndsAt, SMTT(20)
<1>3. ASSUME Promotes(t, n) PROVE Promotes(u, n)
  BY <1>2, <1>3 DEF Promotes
<1>4. ASSUME Promotes(p, n) PROVE Promotes(u, n)
  <2>1. \A i \in 1 .. m : i \in 1 .. Len(u)
    BY <1>1, <1>2
  <2> QED
    BY <1>1, <1>4, <2>1 DEF Promotes, m
<1> QED
  BY <1>3, <1>4 DEF u

Cat(p, t) == p \o t

LEMMA SingleConcat ==
  ASSUME NEW p \in Seq(DeskSteps), NEW t \in Seq(DeskSteps),
         \/ "promote" \notin Kinds(p) /\ Single(t)
         \/ "promote" \notin Kinds(t) /\ Single(p)
  PROVE  Single(p \o t)
<1> DEFINE u == p \o t
<1>1. /\ Len(u) = Len(p) + Len(t) /\ Len(p) \in Nat /\ Len(t) \in Nat
      /\ \A i \in 1 .. Len(p) + Len(t) : u[i] = IF i <= Len(p) THEN p[i] ELSE t[i - Len(p)]
  BY Concat
<1> HIDE DEF u
<1>2. \A i \in 1 .. Len(u) : i <= Len(p) => i \in 1 .. Len(p) /\ u[i] = p[i]
  BY <1>1
<1>3. \A i \in 1 .. Len(u) :
        ~(i <= Len(p)) => i - Len(p) \in 1 .. Len(t) /\ u[i] = t[i - Len(p)]
  BY <1>1
<1>4. SUFFICES ASSUME NEW i \in 1 .. Len(u), NEW j \in 1 .. Len(u),
                      u[i][1] = "promote", u[j][1] = "promote"
               PROVE  i = j
  BY DEF Single, u
<1>5. CASE "promote" \notin Kinds(p) /\ Single(t)
  <2>1. \A m \in 1 .. Len(p) : p[m][1] # "promote"
    BY <1>5 DEF Kinds
  <2>2. ~(i <= Len(p)) /\ ~(j <= Len(p))
    BY <1>2, <1>4, <2>1
  <2>3. /\ i - Len(p) \in 1 .. Len(t) /\ t[i - Len(p)][1] = "promote"
        /\ j - Len(p) \in 1 .. Len(t) /\ t[j - Len(p)][1] = "promote"
    BY <1>3, <1>4, <2>2
  <2>4. i - Len(p) = j - Len(p)
    BY <1>5, <2>3 DEF Single
  <2> QED
    BY ONLY <2>4, i \in 1 .. Len(u), j \in 1 .. Len(u), <1>1
<1>6. CASE "promote" \notin Kinds(t) /\ Single(p)
  <2>1. \A m \in 1 .. Len(t) : t[m][1] # "promote"
    BY <1>6 DEF Kinds
  <2>2. i <= Len(p) /\ j <= Len(p)
    BY <1>3, <1>4, <2>1
  <2>3. i \in 1 .. Len(p) /\ p[i][1] = "promote" /\ j \in 1 .. Len(p) /\ p[j][1] = "promote"
    BY <1>2, <1>4, <2>2
  <2> QED
    BY <1>6, <2>3 DEF Single
<1> QED
  BY <1>5, <1>6

LEMMA CatProperties ==
  ASSUME NEW p \in Seq(DeskSteps), NEW s \in Seq(DeskSteps), NEW t \in Seq(DeskSteps)
  PROVE  Cat(Cat(p, s), t) = Cat(p, Cat(s, t)) /\ Cat(p, s) \in Seq(DeskSteps)
<1>1. (p \o s) \o t = p \o (s \o t)
  BY ConcatAssociative
<1> QED
  BY <1>1, Concat DEF Cat

LEMMA CatIn ==
  ASSUME NEW p \in Seq(DeskSteps), NEW s \in Seq(DeskSteps)
  PROVE  Cat(p, s) \in Seq(DeskSteps)
BY Concat DEF Cat

LEMMA RegroupFour ==
  ASSUME NEW p \in Seq(DeskSteps), NEW s \in Seq(DeskSteps), NEW t \in Seq(DeskSteps),
         NEW u \in Seq(DeskSteps)
  PROVE  /\ Cat(Cat(Cat(p, s), t), u) = Cat(p, Cat(s, Cat(t, u)))
         /\ Cat(Cat(p, s), t) \in Seq(DeskSteps) /\ Cat(t, u) \in Seq(DeskSteps)
<1>1. Cat(p, s) \in Seq(DeskSteps) /\ Cat(t, u) \in Seq(DeskSteps)
  BY CatProperties
<1>2. Cat(Cat(Cat(p, s), t), u) = Cat(Cat(p, s), Cat(t, u)) /\ Cat(Cat(p, s), t) \in Seq(DeskSteps)
  BY <1>1, CatProperties
<1>3. Cat(Cat(p, s), Cat(t, u)) = Cat(p, Cat(s, Cat(t, u)))
  BY <1>1, CatProperties
<1> QED
  BY ONLY <1>1, <1>2, <1>3

\* What channel keygen does once its directory is there.
LEMMA PublishPairProgram ==
  LET t == S!PublishPair IN
    /\ t \in Seq(DeskSteps) /\ Sequel(t, "keygen") /\ "mkdir" \notin Kinds(t) /\ InOrder(t)
    /\ "sync_dir" \in Kinds(t) /\ Promotes(t, "secret") /\ Promotes(t, "public")
<1> DEFINE en == S!Ensure(<<"OWNER", "secret", "public", "REQUEST", "READY">>)
           y == S!Synced
           ps == S!Promotion("secret")
           pp == S!Promotion("public")
           sd == << <<"sync_dir">> >>
           e == S!Erase("keygen")
           r == S!Report
           t5 == e \o r
           t4 == sd \o t5
           t3 == pp \o t4
           t2 == ps \o t3
           t1 == y \o t2
           t0 == en \o t1
<1>1. /\ r \in Seq(DeskSteps) /\ Kinds(r) = {"report"} /\ Sequel(r, "keygen")
      /\ \A j \in 1 .. Len(r) : r[j][1] \in Filing => Since(r, j, "mkdir")
  <2>1. r \in Seq(DeskSteps) /\ Kinds(r) = {"report"} /\ Sequel(r, "keygen")
    BY SequelReport
  <2> HIDE DEF r
  <2>2. \A j \in 1 .. Len(r) : r[j][1] \notin Filing
    BY <2>1 DEF Kinds, Filing
  <2> QED
    BY <2>1, <2>2
<1>2. /\ y \in Seq(DeskSteps) /\ Kinds(y) = {"sync_stage", "sync_dir"}
      /\ sd \in Seq(DeskSteps) /\ Kinds(sd) = {"sync_dir"}
      /\ ps \in Seq(DeskSteps) /\ Kinds(ps) = {"promote", "sync_dir", "sync_stage"}
      /\ pp \in Seq(DeskSteps) /\ Kinds(pp) = {"promote", "sync_dir", "sync_stage"}
  BY PlainPrograms DEF S!Leaf, S!Final
<1>3. en \in Seq(DeskSteps) /\ Kinds(en) \subseteq {"ensure"}
  <2>1. <<"OWNER", "secret", "public", "REQUEST", "READY">> \in Seq(S!Leaf)
    BY DEF S!Leaf, S!Final
  <2> QED
    BY <2>1, EnsureProgram
<1>4. \A i \in 1 .. 3 : pp[i] # <<"promote", "secret">> /\ ps[i] # <<"promote", "public">>
  BY DEF S!Promotion
<1>5. /\ Len(ps) = 3 /\ Len(pp) = 3 /\ ps[1] = <<"promote", "secret">> /\ pp[1] = <<"promote", "public">>
      /\ \A i \in 1 .. 3 : i = 1 \/ (ps[i][1] # "promote" /\ pp[i][1] # "promote")
  BY DEF S!Promotion
<1>6. /\ e \in Seq(DeskSteps) /\ Kinds(e) \subseteq {"unlink", "sync_stage", "rmdir"}
      /\ Sequel(t5, "keygen")
  BY <1>1, SequelErase DEF S!Op
<1>7. S!PublishPair = t0
  <2>1. S!PublishPair = ((((((en \o y) \o ps) \o pp) \o sd) \o e) \o r)
    BY DEF S!PublishPair, S!PreparePair
  <2> HIDE DEF en, y, ps, pp, sd, e, r
  <2>2. ((((((en \o y) \o ps) \o pp) \o sd) \o e) \o r) = t0
    <3>1. /\ y \in Seq(DeskSteps) /\ ps \in Seq(DeskSteps) /\ pp \in Seq(DeskSteps)
          /\ sd \in Seq(DeskSteps) /\ e \in Seq(DeskSteps) /\ r \in Seq(DeskSteps)
          /\ en \in Seq(DeskSteps)
      BY <1>1, <1>2, <1>3, <1>6
    <3>2. Cat(Cat(Cat(Cat(Cat(Cat(en, y), ps), pp), sd), e), r)
            = Cat(en, Cat(y, Cat(ps, Cat(pp, Cat(sd, Cat(e, r))))))
      <4>1. /\ Cat(en, y) \in Seq(DeskSteps) /\ Cat(Cat(en, y), ps) \in Seq(DeskSteps)
            /\ Cat(e, r) \in Seq(DeskSteps) /\ Cat(sd, Cat(e, r)) \in Seq(DeskSteps)
            /\ Cat(pp, Cat(sd, Cat(e, r))) \in Seq(DeskSteps)
            /\ Cat(ps, Cat(pp, Cat(sd, Cat(e, r)))) \in Seq(DeskSteps)
        BY <3>1, CatIn
      <4>2. Cat(Cat(Cat(en, y), ps), pp) \in Seq(DeskSteps)
        BY <3>1, <4>1, CatIn
      <4>3. Cat(Cat(Cat(Cat(Cat(Cat(en, y), ps), pp), sd), e), r)
              = Cat(Cat(Cat(Cat(en, y), ps), pp), Cat(sd, Cat(e, r)))
        BY ONLY <3>1, <4>2, RegroupFour
      <4>4. Cat(Cat(Cat(Cat(en, y), ps), pp), Cat(sd, Cat(e, r)))
              = Cat(Cat(en, y), Cat(ps, Cat(pp, Cat(sd, Cat(e, r)))))
        BY ONLY <3>1, <4>1, RegroupFour
      <4>5. Cat(Cat(en, y), Cat(ps, Cat(pp, Cat(sd, Cat(e, r)))))
              = Cat(en, Cat(y, Cat(ps, Cat(pp, Cat(sd, Cat(e, r))))))
        BY ONLY <3>1, <4>1, CatProperties
      <4> QED
        BY ONLY <4>3, <4>4, <4>5
    <3> QED
      BY <3>2, Zenon DEF Cat
  <2> QED
    BY <2>1, <2>2
<1> HIDE DEF en, y, ps, pp, sd, e, r
<1>8. /\ t5 \in Seq(DeskSteps) /\ Kinds(t5) = Kinds(e) \cup Kinds(r)
      /\ t4 \in Seq(DeskSteps) /\ Kinds(t4) = Kinds(sd) \cup Kinds(t5)
      /\ t3 \in Seq(DeskSteps) /\ Kinds(t3) = Kinds(pp) \cup Kinds(t4)
      /\ t2 \in Seq(DeskSteps) /\ Kinds(t2) = Kinds(ps) \cup Kinds(t3)
      /\ t1 \in Seq(DeskSteps) /\ Kinds(t1) = Kinds(y) \cup Kinds(t2)
      /\ t0 \in Seq(DeskSteps) /\ Kinds(t0) = Kinds(en) \cup Kinds(t1)
  <2>1. t5 \in Seq(DeskSteps) /\ Kinds(t5) = Kinds(e) \cup Kinds(r)
    BY <1>1, <1>6, Concat, KindsConcat
  <2>2. t4 \in Seq(DeskSteps) /\ Kinds(t4) = Kinds(sd) \cup Kinds(t5)
    BY <1>2, <2>1, Concat, KindsConcat
  <2>3. t3 \in Seq(DeskSteps) /\ Kinds(t3) = Kinds(pp) \cup Kinds(t4)
    BY <1>2, <2>2, Concat, KindsConcat
  <2>4. t2 \in Seq(DeskSteps) /\ Kinds(t2) = Kinds(ps) \cup Kinds(t3)
    BY <1>2, <2>3, Concat, KindsConcat
  <2>5. t1 \in Seq(DeskSteps) /\ Kinds(t1) = Kinds(y) \cup Kinds(t2)
    BY <1>2, <2>4, Concat, KindsConcat
  <2>6. t0 \in Seq(DeskSteps) /\ Kinds(t0) = Kinds(en) \cup Kinds(t1)
    BY <1>3, <2>5, Concat, KindsConcat
  <2> QED
    BY <2>1, <2>2, <2>3, <2>4, <2>5, <2>6
<1> HIDE DEF t5, t4, t3, t2, t1, t0
<1>9. /\ Sequel(t4, "keygen") /\ Sequel(t3, "keygen") /\ Sequel(t2, "keygen")
      /\ Sequel(t1, "keygen") /\ Sequel(t0, "keygen")
  <2>1. Sequel(t4, "keygen")
    BY <1>1, <1>2, <1>6, <1>8, SequelPlain DEF Plain, t4
  <2>2. "mkdir" \notin Kinds(t4) /\ "report" \in Kinds(t4) /\ "sync_dir" \in Kinds(t4)
    BY <1>1, <1>2, <1>6, <1>8
  <2>3. Sequel(t3, "keygen")
    BY <2>1, <2>2, SequelPromotion DEF t3, pp, FinalsOf, S!Leaf, S!Final
  <2>4. "mkdir" \notin Kinds(t3) /\ "report" \in Kinds(t3) /\ "sync_dir" \in Kinds(t3)
    BY <1>2, <1>8, <2>2
  <2>5. Sequel(t2, "keygen")
    BY <2>3, <2>4, SequelPromotion DEF t2, ps, FinalsOf, S!Leaf, S!Final
  <2>6. "mkdir" \notin Kinds(t2)
    BY <1>2, <1>8, <2>4
  <2>7. Sequel(t1, "keygen")
    BY <1>2, <2>5, <2>6, SequelPlain DEF Plain, t1
  <2>8. "mkdir" \notin Kinds(t1)
    BY <1>2, <1>8, <2>6
  <2>9. Sequel(t0, "keygen")
    BY <1>3, <2>7, <2>8, SequelPlain DEF Plain, t0
  <2> QED
    BY <2>1, <2>3, <2>5, <2>7, <2>9
<1>10. "mkdir" \notin Kinds(t0) /\ "sync_dir" \in Kinds(t0)
  BY <1>1, <1>2, <1>3, <1>6, <1>8
<1>11. Promotes(ps, "secret") /\ Promotes(pp, "public")
  <2>1. 1 \in 1 .. Len(ps) /\ 1 \in 1 .. Len(pp)
    BY <1>5
  <2>2. ps[1][1] = "promote" /\ ps[1][2] = "secret" /\ pp[1][1] = "promote" /\ pp[1][2] = "public"
    BY <1>5
  <2> QED
    BY <2>1, <2>2 DEF Promotes
<1>12. /\ Promotes(t3, "public") /\ Promotes(t2, "public") /\ Promotes(t2, "secret")
       /\ Promotes(t1, "public") /\ Promotes(t1, "secret")
       /\ Promotes(t0, "public") /\ Promotes(t0, "secret")
  <2>1. Promotes(t3, "public")
    BY <1>2, <1>8, <1>11, PromotesConcat DEF t3
  <2>2. Promotes(t2, "public") /\ Promotes(t2, "secret")
    BY <1>2, <1>8, <1>11, <2>1, PromotesConcat DEF t2
  <2>3. Promotes(t1, "public") /\ Promotes(t1, "secret")
    BY <1>2, <1>8, <2>2, PromotesConcat DEF t1
  <2>4. Promotes(t0, "public") /\ Promotes(t0, "secret")
    BY <1>3, <1>8, <2>3, PromotesConcat DEF t0
  <2> QED
    BY <2>1, <2>2, <2>3, <2>4
<1>13. InOrder(t0)
  <2>1. \A i \in 1 .. Len(ps) : ~(ps[i][1] = "promote" /\ ps[i][2] = "public")
    <3>1. ps[1][2] = "secret" /\ \A i \in 1 .. Len(ps) : i = 1 \/ ps[i][1] # "promote"
      BY <1>5
    <3> QED
      BY <3>1
  <2>2. InOrder(t2)
    BY <1>2, <1>8, <1>11, <2>1, InOrderAfter DEF t2
  <2>3. \A i \in 1 .. Len(y) : ~(y[i][1] = "promote" /\ y[i][2] = "public")
    BY <1>2 DEF Kinds
  <2>4. InOrder(t1)
    BY <1>2, <1>8, <2>2, <2>3, InOrderAfter DEF t1
  <2>5. \A i \in 1 .. Len(en) : ~(en[i][1] = "promote" /\ en[i][2] = "public")
    BY <1>3 DEF Kinds
  <2> QED
    BY <1>3, <1>8, <2>4, <2>5, InOrderAfter DEF t0
<1> QED
  BY <1>7, <1>8, <1>9, <1>10, <1>12, <1>13

LEMMA PublishSignatureProgram ==
  LET t == S!PublishSignature IN
    /\ t \in Seq(DeskSteps) /\ Sequel(t, "sign") /\ "mkdir" \notin Kinds(t)
    /\ Promotes(t, "signature") /\ Single(t)
<1> DEFINE en == S!Ensure(<<"OWNER", "REQUEST", "signature", "READY">>)
           y == S!Synced
           ck == << <<"check">> >>
           ps == S!Promotion("signature")
           e == S!Erase("sign")
           r == S!Report
           t4 == e \o r
           t3 == ps \o t4
           t2 == ck \o t3
           t1 == y \o t2
           t0 == en \o t1
<1>1. /\ r \in Seq(DeskSteps) /\ Kinds(r) = {"report"} /\ Sequel(r, "sign")
      /\ \A j \in 1 .. Len(r) : r[j][1] \in Filing => Since(r, j, "mkdir")
  <2>1. r \in Seq(DeskSteps) /\ Kinds(r) = {"report"} /\ Sequel(r, "sign")
    BY SequelReport
  <2> HIDE DEF r
  <2>2. \A j \in 1 .. Len(r) : r[j][1] \notin Filing
    BY <2>1 DEF Kinds, Filing
  <2> QED
    BY <2>1, <2>2
<1>2. /\ y \in Seq(DeskSteps) /\ Kinds(y) = {"sync_stage", "sync_dir"}
      /\ ck \in Seq(DeskSteps) /\ Kinds(ck) = {"check"}
      /\ ps \in Seq(DeskSteps) /\ Kinds(ps) = {"promote", "sync_dir", "sync_stage"}
  BY PlainPrograms DEF S!Leaf, S!Final
<1>3. en \in Seq(DeskSteps) /\ Kinds(en) \subseteq {"ensure"}
  <2>1. <<"OWNER", "REQUEST", "signature", "READY">> \in Seq(S!Leaf)
    BY DEF S!Leaf, S!Final
  <2> QED
    BY <2>1, EnsureProgram
<1>4. Len(ps) = 3 /\ ps[1] = <<"promote", "signature">>
  BY DEF S!Promotion
<1>11. Single(ps)
  <2>1. ps[2][1] # "promote" /\ ps[3][1] # "promote"
    BY DEF S!Promotion
  <2>2. \A i \in 1 .. 3 : i \in {1, 2, 3}
    OBVIOUS
  <2> HIDE DEF ps
  <2> QED
    BY <1>4, <2>1, <2>2 DEF Single
<1>5. /\ e \in Seq(DeskSteps) /\ Kinds(e) \subseteq {"unlink", "sync_stage", "rmdir"}
      /\ Sequel(t4, "sign")
  BY <1>1, SequelErase DEF S!Op
<1>6. S!PublishSignature = t0
  <2>1. S!PublishSignature = ((((en \o y) \o ck) \o ps) \o e) \o r
    BY DEF S!PublishSignature
  <2> HIDE DEF en, y, ck, ps, e, r
  <2>2. /\ y \in Seq(DeskSteps) /\ ps \in Seq(DeskSteps) /\ ck \in Seq(DeskSteps)
        /\ e \in Seq(DeskSteps) /\ r \in Seq(DeskSteps) /\ en \in Seq(DeskSteps)
    BY <1>1, <1>2, <1>3, <1>5
  <2>3. /\ Cat(Cat(en, y), ck) \in Seq(DeskSteps) /\ Cat(ps, Cat(e, r)) \in Seq(DeskSteps)
    <3>1. Cat(en, y) \in Seq(DeskSteps) /\ Cat(e, r) \in Seq(DeskSteps)
      BY <2>2, CatIn
    <3> QED
      BY <2>2, <3>1, CatIn
  <2>4. Cat(Cat(Cat(Cat(Cat(en, y), ck), ps), e), r) = Cat(Cat(Cat(en, y), ck), Cat(ps, Cat(e, r)))
    BY ONLY <2>2, <2>3, RegroupFour
  <2>5. Cat(Cat(Cat(en, y), ck), Cat(ps, Cat(e, r))) = Cat(en, Cat(y, Cat(ck, Cat(ps, Cat(e, r)))))
    BY ONLY <2>2, <2>3, RegroupFour
  <2>6. Cat(Cat(Cat(Cat(Cat(en, y), ck), ps), e), r) = Cat(en, Cat(y, Cat(ck, Cat(ps, Cat(e, r)))))
    BY ONLY <2>4, <2>5
  <2>7. ((((en \o y) \o ck) \o ps) \o e) \o r = t0
    BY <2>6, Zenon DEF Cat
  <2> QED
    BY <2>1, <2>7
<1> HIDE DEF en, y, ck, ps, e, r
<1>7. /\ t4 \in Seq(DeskSteps) /\ Kinds(t4) = Kinds(e) \cup Kinds(r)
      /\ t3 \in Seq(DeskSteps) /\ Kinds(t3) = Kinds(ps) \cup Kinds(t4)
      /\ t2 \in Seq(DeskSteps) /\ Kinds(t2) = Kinds(ck) \cup Kinds(t3)
      /\ t1 \in Seq(DeskSteps) /\ Kinds(t1) = Kinds(y) \cup Kinds(t2)
      /\ t0 \in Seq(DeskSteps) /\ Kinds(t0) = Kinds(en) \cup Kinds(t1)
  <2>1. t4 \in Seq(DeskSteps) /\ Kinds(t4) = Kinds(e) \cup Kinds(r)
    BY <1>1, <1>5, Concat, KindsConcat
  <2>2. t3 \in Seq(DeskSteps) /\ Kinds(t3) = Kinds(ps) \cup Kinds(t4)
    BY <1>2, <2>1, Concat, KindsConcat
  <2>3. t2 \in Seq(DeskSteps) /\ Kinds(t2) = Kinds(ck) \cup Kinds(t3)
    BY <1>2, <2>2, Concat, KindsConcat
  <2>4. t1 \in Seq(DeskSteps) /\ Kinds(t1) = Kinds(y) \cup Kinds(t2)
    BY <1>2, <2>3, Concat, KindsConcat
  <2>5. t0 \in Seq(DeskSteps) /\ Kinds(t0) = Kinds(en) \cup Kinds(t1)
    BY <1>3, <2>4, Concat, KindsConcat
  <2> QED
    BY <2>1, <2>2, <2>3, <2>4, <2>5
<1> HIDE DEF t4, t3, t2, t1, t0
<1>8. Sequel(t0, "sign")
  <2>1. "mkdir" \notin Kinds(t4) /\ "report" \in Kinds(t4)
    BY <1>1, <1>5, <1>7
  <2>2. Sequel(t3, "sign")
    BY <1>5, <2>1, SequelPromotion DEF t3, ps, FinalsOf, S!Leaf, S!Final
  <2>3. "mkdir" \notin Kinds(t3)
    BY <1>2, <1>7, <2>1
  <2>4. Sequel(t2, "sign")
    BY <1>2, <2>2, <2>3, SequelPlain DEF Plain, t2
  <2>5. "mkdir" \notin Kinds(t2)
    BY <1>2, <1>7, <2>3
  <2>6. Sequel(t1, "sign")
    BY <1>2, <2>4, <2>5, SequelPlain DEF Plain, t1
  <2>7. "mkdir" \notin Kinds(t1)
    BY <1>2, <1>7, <2>5
  <2> QED
    BY <1>3, <2>6, <2>7, SequelPlain DEF Plain, t0
<1>9. "mkdir" \notin Kinds(t0)
  BY <1>1, <1>2, <1>3, <1>5, <1>7
<1>10. Promotes(t0, "signature")
  <2>1. Promotes(ps, "signature")
    <3>1. 1 \in 1 .. Len(ps) /\ ps[1][1] = "promote" /\ ps[1][2] = "signature"
      BY <1>4
    <3> QED
      BY <3>1 DEF Promotes
  <2>2. Promotes(t3, "signature")
    BY <1>2, <1>7, <2>1, PromotesConcat DEF t3
  <2>3. Promotes(t2, "signature")
    BY <1>2, <1>7, <2>2, PromotesConcat DEF t2
  <2>4. Promotes(t1, "signature")
    BY <1>2, <1>7, <2>3, PromotesConcat DEF t1
  <2> QED
    BY <1>3, <1>7, <2>4, PromotesConcat DEF t0
<1>12. Single(t0)
  <2>1. Single(t3)
    BY <1>1, <1>2, <1>5, <1>7, <1>11, SingleConcat DEF t3
  <2>2. Single(t2)
    BY <1>2, <1>7, <2>1, SingleConcat DEF t2
  <2>3. Single(t1)
    BY <1>2, <1>7, <2>2, SingleConcat DEF t1
  <2> QED
    BY <1>3, <1>7, <2>3, SingleConcat DEF t0
<1> QED
  BY <1>6, <1>7, <1>8, <1>9, <1>10, <1>12

\* What is done again, and what is tidied up.
LEMMA AgainProgram ==
  ASSUME NEW op
  PROVE  LET t == << <<"sync_dir">> >> \o S!Report IN
         Sequel(t, op) /\ Kinds(t) = {"sync_dir", "report"}
<1>1. /\ Sequel(S!Report, op) /\ S!Report \in Seq(DeskSteps) /\ Kinds(S!Report) = {"report"}
      /\ << <<"sync_dir">> >> \in Seq(DeskSteps) /\ Kinds(<< <<"sync_dir">> >>) = {"sync_dir"}
  BY SequelReport, PlainPrograms
<1>2. Sequel(<< <<"sync_dir">> >> \o S!Report, op)
  BY <1>1, SequelPlain DEF Plain
<1>3. Kinds(<< <<"sync_dir">> >> \o S!Report) = Kinds(<< <<"sync_dir">> >>) \cup Kinds(S!Report)
  BY <1>1, KindsConcat
<1> QED
  BY <1>1, <1>2, <1>3

LEMMA ErasingProgram ==
  ASSUME NEW op, NEW o \in S!Op, NEW p \in Seq(DeskSteps),
         Kinds(p) \subseteq {"sync_dir", "sync_stage"}
  PROVE  LET t == (p \o S!Erase(o)) \o S!Report IN
         /\ Sequel(t, op)
         /\ Kinds(p) \subseteq Kinds(t)
         /\ Kinds(t) \subseteq {"sync_dir", "sync_stage", "unlink", "rmdir", "report"}
<1> DEFINE r == S!Report
           e == S!Erase(o)
<1>1. r \in Seq(DeskSteps) /\ Kinds(r) = {"report"} /\ Sequel(r, op)
  BY SequelReport
<1>2. \A j \in 1 .. Len(r) : r[j][1] \in Filing => Since(r, j, "mkdir")
  <2> HIDE DEF r
  <2>2. \A j \in 1 .. Len(r) : r[j][1] \notin Filing
    BY <1>1 DEF Kinds, Filing
  <2> QED
    BY <2>2
<1>3. /\ Sequel(e \o r, op) /\ e \in Seq(DeskSteps)
      /\ Kinds(e) \subseteq {"unlink", "sync_stage", "rmdir"}
  BY <1>1, <1>2, SequelErase
<1> HIDE DEF e, r
<1>4. Kinds(e \o r) = Kinds(e) \cup Kinds(r) /\ e \o r \in Seq(DeskSteps)
  BY <1>1, <1>3, KindsConcat, Concat
<1>5. Sequel(p \o (e \o r), op)
  <2>1. "mkdir" \notin Kinds(e \o r)
    BY <1>1, <1>3, <1>4
  <2> QED
    BY <1>3, <2>1, SequelPlain DEF Plain
<1>6. Kinds(p \o (e \o r)) = Kinds(p) \cup Kinds(e \o r)
  BY <1>4, KindsConcat
<1>7. (p \o e) \o r = p \o (e \o r)
  BY <1>1, <1>3, Regroup
<1> QED
  BY <1>1, <1>3, <1>4, <1>5, <1>6, <1>7 DEF e, r

\* The directory is made, perhaps after what a dead run left is erased.
LEMMA NewProgram ==
  ASSUME NEW op, NEW o \in S!Op, NEW p \in {<< >>, S!Erase(o)}, NEW q, Sequel(q, op),
         "mkdir" \notin Kinds(q)
  PROVE  LET t == (p \o << <<"mkdir">> >>) \o q IN
         /\ Sequel(t, op) /\ "mkdir" \in Kinds(t) /\ Kinds(q) \subseteq Kinds(t)
         /\ \A n : Promotes(q, n) => Promotes(t, n)
         /\ (InOrder(q) => InOrder(t)) /\ (Single(q) => Single(t))
         /\ p = << >> => \A j \in 1 .. Len(t) : t[j][1] \in Filing => Since(t, j, "mkdir")
<1> DEFINE mk == << <<"mkdir">> >>
           u == mk \o q
           t == p \o u
<1>1. q \in Seq(DeskSteps) /\ mk \in Seq(DeskSteps) /\ Kinds(mk) = {"mkdir"}
  BY PlainPrograms DEF Sequel
<1>2. u \in Seq(DeskSteps) /\ Kinds(u) = {"mkdir"} \cup Kinds(q) /\ Sequel(u, op)
  <2>1. u \in Seq(DeskSteps) /\ Kinds(u) = Kinds(mk) \cup Kinds(q)
    BY <1>1, Concat, KindsConcat
  <2>2. Sequel(u, op)
    BY SequelOne
  <2> QED
    BY <1>1, <2>1, <2>2
<1>3. mk[1] = <<"mkdir">> /\ Len(mk) = 1
  OBVIOUS
<1> HIDE DEF mk
<1>4. \A j \in 1 .. Len(u) : u[j][1] \in Filing => Since(u, j, "mkdir")
  <2>1. \A i \in 1 .. Len(mk) : u[i] = mk[i]
    BY <1>1, ConcatEnds
  <2>2. u[1][1] = "mkdir"
    BY <1>3, <2>1
  <2> HIDE DEF u
  <2>3. ASSUME NEW j \in 1 .. Len(u), u[j][1] \in Filing PROVE Since(u, j, "mkdir")
    <3>1. j # 1
      BY <2>2, <2>3 DEF Filing
    <3>2. 1 \in 1 .. (j - 1)
      BY <3>1, <1>2
    <3> QED
      BY <2>2, <3>2 DEF Since
  <2> QED
    BY <2>3
<1>5. \A n : Promotes(q, n) => Promotes(u, n)
  BY <1>1, PromotesConcat
<1>6. InOrder(q) => InOrder(u)
  <2>1. \A i \in 1 .. Len(mk) : ~(mk[i][1] = "promote" /\ mk[i][2] = "public")
    BY <1>1 DEF Kinds
  <2> QED
    BY <1>1, <2>1, InOrderAfter
<1> HIDE DEF u
<1>7. /\ p \in Seq(DeskSteps) /\ Kinds(p) \subseteq {"unlink", "sync_stage", "rmdir"}
      /\ Sequel(t, op)
  <2>1. CASE p = << >>
    <3>1. p \in Seq(DeskSteps) /\ Kinds(p) = {} /\ t = u
      BY <1>2, <2>1 DEF Kinds
    <3> QED
      BY <1>2, <3>1
  <2>2. CASE p = S!Erase(o)
    BY <1>2, <1>4, <2>2, SequelErase
  <2> QED
    BY <2>1, <2>2
<1>8. (p \o mk) \o q = t
  BY <1>1, <1>7, Regroup DEF u
<1>9. Kinds(t) = Kinds(p) \cup Kinds(u)
  BY <1>2, <1>7, KindsConcat
<1>10. \A n : Promotes(u, n) => Promotes(t, n)
  BY <1>2, <1>7, PromotesConcat
<1>11. InOrder(u) => InOrder(t)
  <2>1. \A i \in 1 .. Len(p) : ~(p[i][1] = "promote" /\ p[i][2] = "public")
    BY <1>7 DEF Kinds
  <2> QED
    BY <1>2, <1>7, <2>1, InOrderAfter
<1>12. p = << >> => t = u
  BY <1>2
<1>14. Single(q) => Single(t)
  <2>1. Single(q) => Single(u)
    BY <1>1, SingleConcat DEF u
  <2> QED
    BY <1>2, <1>7, <2>1, SingleConcat
<1> HIDE DEF t
<1>13. /\ Sequel(t, op) /\ "mkdir" \in Kinds(t) /\ Kinds(q) \subseteq Kinds(t)
       /\ \A n : Promotes(q, n) => Promotes(t, n)
       /\ (InOrder(q) => InOrder(t)) /\ (Single(q) => Single(t))
       /\ p = << >> => \A j \in 1 .. Len(t) : t[j][1] \in Filing => Since(t, j, "mkdir")
  BY <1>2, <1>4, <1>5, <1>6, <1>7, <1>9, <1>10, <1>11, <1>12,
     <1>14
<1> QED
  BY <1>8, <1>13 DEF mk

LEMMA ResumeProgram ==
  LET t == S!Synced \o S!PublishPair IN
    /\ Sequel(t, "keygen") /\ "sync_dir" \in Kinds(t) /\ InOrder(t)
    /\ Promotes(t, "secret") /\ Promotes(t, "public")
    /\ \A i \in 1 .. Len(t) : t[i][1] = "promote" => Since(t, i, "sync_dir")
<1> DEFINE y == S!Synced
           q == S!PublishPair
           t == y \o q
<1>1. /\ q \in Seq(DeskSteps) /\ Sequel(q, "keygen") /\ "mkdir" \notin Kinds(q) /\ InOrder(q)
      /\ "sync_dir" \in Kinds(q) /\ Promotes(q, "secret") /\ Promotes(q, "public")
  BY PublishPairProgram
<1>2. y \in Seq(DeskSteps) /\ Kinds(y) = {"sync_stage", "sync_dir"}
  BY PlainPrograms
<1>3. Len(y) = 2 /\ y[1] = <<"sync_stage">> /\ y[2] = <<"sync_dir">>
  BY DEF S!Synced
<1> HIDE DEF y, q
<1>4. Sequel(t, "keygen")
  BY <1>1, <1>2, SequelPlain DEF Plain
<1>5. Kinds(t) = Kinds(y) \cup Kinds(q)
  BY <1>1, <1>2, KindsConcat
<1>6. Promotes(t, "secret") /\ Promotes(t, "public")
  BY <1>1, <1>2, PromotesConcat
<1>7. InOrder(t)
  <2>1. \A i \in 1 .. Len(y) : ~(y[i][1] = "promote" /\ y[i][2] = "public")
    BY <1>2 DEF Kinds
  <2> QED
    BY <1>1, <1>2, <2>1, InOrderAfter
<1>8. t[1] = <<"sync_stage">> /\ t[2] = <<"sync_dir">>
  <2>1. \A i \in 1 .. Len(y) : t[i] = y[i]
    BY <1>1, <1>2, ConcatEnds
  <2>2. 1 \in 1 .. Len(y) /\ 2 \in 1 .. Len(y)
    BY <1>3
  <2> QED
    BY <1>3, <2>1, <2>2
<1>9. t[1][1] = "sync_stage" /\ t[2][1] = "sync_dir" /\ Len(t) \in Nat
  BY <1>4, <1>8 DEF Sequel
<1> HIDE DEF t
<1>10. ASSUME NEW i \in 1 .. Len(t), t[i][1] = "promote" PROVE Since(t, i, "sync_dir")
  <2>1. i # 1 /\ i # 2
    BY <1>9, <1>10
  <2>2. 2 \in 1 .. (i - 1)
    BY <1>9, <2>1
  <2> QED
    BY <1>9, <2>2 DEF Since
<1> QED
  BY <1>1, <1>4, <1>5, <1>6, <1>7, <1>10 DEF t, y, q

-----------------------------------------------------------------------------
(* The rest of a program.                                                *)

LEMMA SequelRest ==
  ASSUME NEW op, NEW t, Sequel(t, op), NEW u \in Seq(DeskSteps), NEW k \in Nat, Ends(t, k, u)
  PROVE  Sequel(u, op)
<1>0. t \in Seq(DeskSteps)
  BY DEF Sequel
<1>1. /\ Len(u) \in Nat /\ Len(t) \in Nat /\ Len(t) = k + Len(u)
      /\ \A i \in 1 .. Len(u) : k + i \in 1 .. Len(t) /\ t[k + i] = u[i]
  BY <1>0, EndsAt, SMTT(20)
<1>2. \A i \in 1 .. Len(t) : i > k => i - k \in 1 .. Len(u) /\ t[i] = u[i - k]
  BY <1>0, EndsAt, SMTT(20)
<1>3. PromotesWell(u, op)
  <2> SUFFICES ASSUME NEW i \in 1 .. Len(u), u[i][1] = "promote"
               PROVE  /\ u[i][2] \in FinalsOf(op) /\ i + 2 < Len(u)
                      /\ u[i + 1][1] = "sync_dir" /\ u[i + 2][1] = "sync_stage"
                      /\ op = "keygen" => \E j \in (i + 3) .. Len(u) : u[j][1] = "sync_dir"
    BY DEF PromotesWell
  <2>1. k + i \in 1 .. Len(t) /\ t[k + i] = u[i]
    BY <1>1
  <2>2. /\ t[k + i][2] \in FinalsOf(op) /\ (k + i) + 2 < Len(t)
        /\ t[(k + i) + 1][1] = "sync_dir" /\ t[(k + i) + 2][1] = "sync_stage"
        /\ op = "keygen" => \E j \in ((k + i) + 3) .. Len(t) : t[j][1] = "sync_dir"
    BY <2>1 DEF Sequel, PromotesWell
  <2>3. i + 2 < Len(u) /\ i + 1 \in 1 .. Len(u) /\ i + 2 \in 1 .. Len(u)
    <3>1. (k + i) + 2 < k + Len(u)
      BY <1>1, <2>2
    <3>2. Len(u) \in Nat
      BY <1>1
    <3> QED
      BY ONLY <3>1, <3>2, i \in 1 .. Len(u), k \in Nat
  <2>4. t[(k + i) + 1] = u[i + 1] /\ t[(k + i) + 2] = u[i + 2]
    <3>1. (k + i) + 1 = k + (i + 1) /\ (k + i) + 2 = k + (i + 2)
      OBVIOUS
    <3>2. t[k + (i + 1)] = u[i + 1] /\ t[k + (i + 2)] = u[i + 2]
      BY <1>1, <2>3
    <3> QED
      BY <3>1, <3>2
  <2>5. ASSUME op = "keygen" PROVE \E j \in (i + 3) .. Len(u) : u[j][1] = "sync_dir"
    <3>1. PICK j \in ((k + i) + 3) .. Len(t) : t[j][1] = "sync_dir"
      BY <2>2, <2>5
    <3>2. j \in 1 .. Len(t) /\ j > k /\ j - k \in (i + 3) .. Len(u)
      <4>1. Len(t) = k + Len(u) /\ Len(u) \in Nat
        BY <1>1
      <4> QED
        BY ONLY <4>1, j \in ((k + i) + 3) .. Len(t), i \in 1 .. Len(u), k \in Nat
    <3>3. t[j] = u[j - k]
      BY <1>2, <3>2
    <3> QED
      BY <3>1, <3>2, <3>3
  <2> QED
    BY <2>1, <2>2, <2>3, <2>4, <2>5
<1>4. ReportsLast(u)
  <2> SUFFICES ASSUME NEW i \in 1 .. Len(u), u[i][1] = "report" PROVE i = Len(u)
    BY DEF ReportsLast
  <2>1. k + i \in 1 .. Len(t) /\ t[k + i] = u[i]
    BY <1>1
  <2>2. k + i = Len(t)
    BY <2>1 DEF Sequel, ReportsLast
  <2> QED
    BY <2>2, <1>1
<1>5. MakesFirst(u)
  <2> SUFFICES ASSUME NEW i \in 1 .. Len(u), u[i][1] = "mkdir", NEW j \in 1 .. (i - 1)
               PROVE  u[j][1] \in {"unlink", "sync_stage", "rmdir"}
    BY DEF MakesFirst
  <2>1. k + i \in 1 .. Len(t) /\ t[k + i] = u[i]
    BY <1>1
  <2>2. j \in 1 .. Len(u) /\ k + j \in 1 .. ((k + i) - 1)
    BY <1>1
  <2>3. t[k + j] = u[j]
    BY <1>1, <2>2
  <2>4. t[k + j][1] \in {"unlink", "sync_stage", "rmdir"}
    BY <2>1, <2>2 DEF Sequel, MakesFirst
  <2> QED
    BY <2>3, <2>4
<1>6. FilesBefore(u)
  <2> SUFFICES ASSUME NEW i \in 1 .. Len(u), u[i][1] = "rmdir", NEW j \in (i + 1) .. Len(u),
                      u[j][1] \in Filing
               PROVE  \E m \in (i + 1) .. (j - 1) : u[m][1] = "mkdir"
    BY DEF FilesBefore
  <2>0. j \in 1 .. Len(u) /\ i < j
    BY <1>1
  <2>1. /\ k + i \in 1 .. Len(t) /\ t[k + i] = u[i]
        /\ k + j \in 1 .. Len(t) /\ t[k + j] = u[j]
    BY <1>1, <2>0
  <2>2. k + j \in ((k + i) + 1) .. Len(t)
    BY <1>1, <2>0, <2>1
  <2>3. PICK m \in ((k + i) + 1) .. ((k + j) - 1) : t[m][1] = "mkdir"
    BY <2>1, <2>2 DEF Sequel, FilesBefore
  <2>4. m \in 1 .. Len(t) /\ m > k /\ m - k \in (i + 1) .. (j - 1)
    <3>1. Len(t) = k + Len(u) /\ Len(u) \in Nat
      BY <1>1
    <3> QED
      BY ONLY <3>1, m \in ((k + i) + 1) .. ((k + j) - 1), i \in 1 .. Len(u), j \in 1 .. Len(u),
              k \in Nat, <2>0
  <2>5. t[m] = u[m - k]
    BY <1>2, <2>4
  <2> QED
    BY <2>3, <2>4, <2>5
<1> QED
  BY <1>3, <1>4, <1>5, <1>6 DEF Sequel

\* What a rest keeps of what was true of the whole.
LEMMA RestKeeps ==
  ASSUME NEW t \in Seq(DeskSteps), NEW u \in Seq(DeskSteps), NEW k \in Nat, Ends(t, k, u), NEW x
  PROVE  /\ Promotes(u, x) => Promotes(t, x)
         /\ (\A j \in 1 .. k : t[j][1] # "promote" \/ t[j][2] # x) /\ Promotes(t, x) => Promotes(u, x)
         /\ (\A j \in 1 .. k : t[j][1] # x) /\ x \in Kinds(t) => x \in Kinds(u)
         /\ \A i \in 1 .. Len(u) :
              (\A j \in 1 .. k : t[j][1] # x) /\ Since(t, k + i, x) => Since(u, i, x)
<1>1. /\ Len(u) \in Nat /\ Len(t) \in Nat /\ Len(t) = k + Len(u)
      /\ \A i \in 1 .. Len(u) : k + i \in 1 .. Len(t) /\ t[k + i] = u[i]
      /\ \A i \in 1 .. Len(t) : ~(i <= k) => i - k \in 1 .. Len(u) /\ t[i] = u[i - k]
      /\ \A i \in 1 .. Len(t) : i <= k => i \in 1 .. k
  <2>1. Len(u) \in Nat /\ Len(t) \in Nat /\ Len(t) = k + Len(u)
    BY DEF Ends
  <2>2. \A i \in 1 .. Len(u) : k + i \in 1 .. Len(t) /\ t[k + i] = u[i]
    BY <2>1 DEF Ends
  <2>3. ASSUME NEW i \in 1 .. Len(t), ~(i <= k) PROVE i - k \in 1 .. Len(u) /\ t[i] = u[i - k]
    <3>1. i - k \in 1 .. Len(u) /\ k + (i - k) = i
      BY <2>1, <2>3
    <3> QED
      BY <2>2, <3>1
  <2> QED
    BY <2>1, <2>2, <2>3
<1>2. ASSUME Promotes(u, x) PROVE Promotes(t, x)
  <2>1. PICK i \in 1 .. Len(u) : u[i][1] = "promote" /\ u[i][2] = x
    BY <1>2 DEF Promotes
  <2>2. k + i \in 1 .. Len(t) /\ t[k + i] = u[i]
    BY <1>1
  <2> QED
    BY <2>1, <2>2 DEF Promotes
<1>3. ASSUME \A j \in 1 .. k : t[j][1] # "promote" \/ t[j][2] # x, Promotes(t, x)
      PROVE  Promotes(u, x)
  <2>1. PICK i \in 1 .. Len(t) : t[i][1] = "promote" /\ t[i][2] = x
    BY <1>3 DEF Promotes
  <2>2. ~(i <= k)
    BY <1>1, <1>3, <2>1
  <2>3. i - k \in 1 .. Len(u) /\ t[i] = u[i - k]
    BY <1>1, <2>2
  <2> QED
    BY <2>1, <2>3 DEF Promotes
<1>4. ASSUME \A j \in 1 .. k : t[j][1] # x, x \in Kinds(t) PROVE x \in Kinds(u)
  <2>1. PICK i \in 1 .. Len(t) : t[i][1] = x
    BY <1>4 DEF Kinds
  <2>2. ~(i <= k)
    BY <1>1, <1>4, <2>1
  <2>3. i - k \in 1 .. Len(u) /\ t[i] = u[i - k]
    BY <1>1, <2>2
  <2> QED
    BY <2>1, <2>3 DEF Kinds
<1>5. ASSUME NEW i \in 1 .. Len(u), \A j \in 1 .. k : t[j][1] # x, Since(t, k + i, x)
      PROVE  Since(u, i, x)
  <2>1. PICK j \in 1 .. ((k + i) - 1) : t[j][1] = x
    BY <1>5 DEF Since
  <2>2. j \in 1 .. Len(t)
    BY <1>1
  <2>3. ~(j <= k)
    BY <1>1, <1>5, <2>1, <2>2
  <2>4. t[j] = u[j - k]
    BY <1>1, <2>2, <2>3
  <2>5. j - k \in 1 .. (i - 1)
    BY ONLY <2>3, j \in 1 .. ((k + i) - 1), i \in 1 .. Len(u), k \in Nat, Len(u) \in Nat
  <2> QED
    BY <2>1, <2>4, <2>5 DEF Since
<1> QED
  BY <1>2, <1>3, <1>4, <1>5

LEMMA SingleRest ==
  ASSUME NEW t \in Seq(DeskSteps), NEW u \in Seq(DeskSteps), NEW k \in Nat, Ends(t, k, u), Single(t)
  PROVE  Single(u)
<1>1. /\ Len(u) \in Nat /\ Len(t) \in Nat /\ Len(t) = k + Len(u)
      /\ \A i \in 1 .. Len(u) : k + i \in 1 .. Len(t) /\ t[k + i] = u[i]
  <2>1. t \in Seq(DeskSteps) /\ u \in Seq(DeskSteps) /\ k \in Nat /\ Ends(t, k, u)
    OBVIOUS
  <2> QED
    BY ONLY <2>1, EndsAt, SMTT(20)
<1>2. SUFFICES ASSUME NEW i \in 1 .. Len(u), NEW j \in 1 .. Len(u),
                      u[i][1] = "promote", u[j][1] = "promote"
               PROVE  i = j
  BY DEF Single
<1>3. k + i = k + j
  BY <1>1, <1>2 DEF Single
<1> QED
  BY ONLY <1>3, k \in Nat, i \in 1 .. Len(u), j \in 1 .. Len(u), Len(u) \in Nat, <1>1

-----------------------------------------------------------------------------
(* The steps of a run.                                                   *)

LEMMA NowFacts ==
  ASSUME KeysInv, NEW kind, S!Now(kind)
  PROVE  /\ DOMAIN run = {"op", "is", "todo"} /\ (KeygenRun \/ SignRun)
         /\ Sequel(run.todo, run.op) /\ run.todo \in Seq(DeskSteps)
         /\ Len(run.todo) \in Nat /\ Len(run.todo) > 0 /\ Head(run.todo) = run.todo[1]
         /\ run.todo[1][1] = kind /\ S!Name = run.todo[1][2]
         /\ kind \in {"ensure", "fill", "unlink", "promote"} => S!Name \in S!Leaf
         /\ Tail(run.todo) \in Seq(DeskSteps) /\ Ends(run.todo, 1, Tail(run.todo))
         /\ Sequel(Tail(run.todo), run.op)
<1> DEFINE t == run.todo
<1>1. /\ DOMAIN run = {"op", "is", "todo"} /\ (KeygenRun \/ SignRun)
      /\ Sequel(t, run.op) /\ t # << >> /\ Head(t)[1] = kind
  BY DEF KeysInv, Running, S!Now
<1>2. t \in Seq(DeskSteps)
  BY <1>1 DEF Sequel
<1> HIDE DEF t
<1>3. Len(t) \in Nat /\ Len(t) > 0 /\ Head(t) = t[1] /\ t[1] \in DeskSteps
  BY <1>1, <1>2
<1>4. /\ Tail(t) \in Seq(DeskSteps) /\ Len(Tail(t)) = Len(t) - 1
      /\ \A i \in 1 .. Len(Tail(t)) : Tail(t)[i] = t[i + 1]
  BY <1>1, <1>2
<1>5. Ends(t, 1, Tail(t))
  BY <1>3, <1>4 DEF Ends
<1>6. Sequel(Tail(t), run.op)
  BY <1>1, <1>4, <1>5, SequelRest
<1>7. kind \in {"ensure", "fill", "unlink", "promote"} => t[1][2] \in S!Leaf
  BY <1>1, <1>3 DEF DeskSteps
<1>8. S!Name = t[1][2]
  BY <1>3 DEF S!Name, t
<1> QED
  BY <1>1, <1>2, <1>3, <1>4, <1>5, <1>6, <1>7, <1>8 DEF t

\* While keygen runs: its directory is there, and of its pair.
LEMMA KeygenNow ==
  ASSUME KeysInv, NEW kind, S!Now(kind), run.op = "keygen"
  PROVE  /\ KeygenRun
         /\ kind \in Filing => stage["keygen"] # None
         /\ kind \notin {"unlink", "sync_stage", "rmdir", "mkdir"} =>
              "mkdir" \notin Kinds(run.todo) /\ PairFiles(run.is)
<1> DEFINE t == run.todo
<1>1. /\ KeygenRun \/ SignRun
      /\ Sequel(t, run.op) /\ t \in Seq(DeskSteps) /\ Len(t) \in Nat /\ Len(t) > 0 /\ t[1][1] = kind
  BY NowFacts
<1>2. KeygenRun
  BY <1>1 DEF SignRun
<1>3. kind \in Filing => stage["keygen"] # None
  <2> SUFFICES ASSUME kind \in Filing, stage["keygen"] = None PROVE FALSE
    OBVIOUS
  <2>1. MakesAgain(t)
    BY <1>2 DEF KeygenRun
  <2>2. 1 \in 1 .. Len(t)
    BY <1>1
  <2>3. Since(t, 1, "mkdir")
    BY <1>1, <2>1, <2>2 DEF MakesAgain
  <2> QED
    BY <2>3 DEF Since
<1>4. ASSUME kind \notin {"unlink", "sync_stage", "rmdir", "mkdir"}
      PROVE  "mkdir" \notin Kinds(t) /\ PairFiles(run.is)
  <2>1. "mkdir" \notin Kinds(t)
    <3> SUFFICES ASSUME NEW i \in 1 .. Len(t), t[i][1] = "mkdir" PROVE FALSE
      BY DEF Kinds
    <3>1. \A j \in 1 .. (i - 1) : t[j][1] \in {"unlink", "sync_stage", "rmdir"}
      BY <1>1 DEF Sequel, MakesFirst
    <3>2. i # 1
      BY <1>1, <1>4
    <3>3. 1 \in 1 .. (i - 1)
      BY <1>1, <3>2
    <3> QED
      BY <1>1, <1>4, <3>1, <3>3
  <2> QED
    BY <1>2, <2>1 DEF KeygenRun
<1> QED
  BY <1>2, <1>3, <1>4

\* A step that puts nothing in place and syncs no final name: what must come
\* before and after a promotion still does.
LEMMA OrdersRest ==
  ASSUME run.todo \in Seq(DeskSteps), run'.todo \in Seq(DeskSteps), Ends(run.todo, 1, run'.todo),
         run.todo[1][1] \notin {"promote", "sync_dir"},
         run'.is = run.is, dir' = dir, disk'.dir = disk.dir
  PROVE  /\ SecretFirst(run.todo) => SecretFirst(run.todo)'
         /\ \A n : Lands(run.todo, n) => Lands(run.todo, n)'
<1> DEFINE t == run.todo
           u == run'.todo
<1>0. /\ \A j \in 1 .. 1 : j = 1
      /\ 1 \in Nat /\ Len(u) \in Nat /\ Len(t) \in Nat /\ Len(t) = 1 + Len(u)
      /\ \A i \in 1 .. Len(u) : 1 + i \in 1 .. Len(t) /\ t[1 + i] = u[i]
      /\ \A i \in 1 .. Len(t) : ~(i <= 1) => i - 1 \in 1 .. Len(u) /\ t[i] = u[i - 1]
  <2>1. t \in Seq(DeskSteps) /\ u \in Seq(DeskSteps) /\ 1 \in Nat /\ Ends(t, 1, u)
    OBVIOUS
  <2> QED
    BY ONLY <2>1, EndsAt, SMTT(20)
<1>6. t[1][1] \notin {"promote", "sync_dir"} /\ t \in Seq(DeskSteps) /\ u \in Seq(DeskSteps) /\ Ends(t, 1, u)
  OBVIOUS
<1>7. \A j \in 1 .. 1 : t[j][1] # "promote" /\ t[j][1] # "sync_dir"
  BY <1>0, <1>6
<1> HIDE DEF t, u
<1>1. ASSUME NEW n, Promotes(t, n) PROVE Promotes(u, n)
  <2>1. \A j \in 1 .. 1 : t[j][1] # "promote" \/ t[j][2] # n
    BY <1>7
  <2> QED
    BY ONLY <1>0, <1>1, <1>6, <2>1, RestKeeps
<1>2. "sync_dir" \in Kinds(t) => "sync_dir" \in Kinds(u)
  BY ONLY <1>0, <1>6, <1>7, RestKeeps
<1>3. \A i \in 1 .. Len(u) : Since(t, 1 + i, "sync_dir") => Since(u, i, "sync_dir")
  BY ONLY <1>0, <1>6, <1>7, RestKeeps
<1>4. ASSUME NEW n, Lands(t, n) PROVE Lands(run.todo, n)'
  <2>1. \/ Promotes(u, n)
        \/ dir[n] = run.is /\ (disk.dir[n] = run.is \/ "sync_dir" \in Kinds(u))
    BY <1>1, <1>2, <1>4 DEF Lands
  <2>2. \/ Promotes(run'.todo, n)
        \/ dir'[n] = run'.is /\ (disk'.dir[n] = run'.is \/ "sync_dir" \in Kinds(run'.todo))
    BY <2>1 DEF u
  <2> QED
    BY ONLY <2>2 DEF Lands, Promotes, Kinds
<1>5. ASSUME SecretFirst(t) PROVE SecretFirst(run.todo)'
  <2> SUFFICES ASSUME NEW i \in 1 .. Len(u), u[i][1] = "promote"
               PROVE  /\ u[i][2] = "secret" /\ dir["secret"] # None =>
                           disk.dir["secret"] = run.is \/ Since(u, i, "sync_dir")
                      /\ u[i][2] = "public" =>
                           \/ \E j \in 1 .. (i - 1) : u[j][1] = "promote" /\ u[j][2] = "secret"
                           \/ dir["secret"] = run.is
                              /\ (disk.dir["secret"] = run.is \/ Since(u, i, "sync_dir"))
    BY DEF SecretFirst, Since, u
  <2>1. 1 + i \in 1 .. Len(t) /\ t[1 + i] = u[i]
    BY <1>0
  <2>2. /\ t[1 + i][2] = "secret" /\ dir["secret"] # None =>
             disk.dir["secret"] = run.is \/ Since(t, 1 + i, "sync_dir")
        /\ t[1 + i][2] = "public" =>
             \/ \E j \in 1 .. ((1 + i) - 1) : t[j][1] = "promote" /\ t[j][2] = "secret"
             \/ dir["secret"] = run.is
                /\ (disk.dir["secret"] = run.is \/ Since(t, 1 + i, "sync_dir"))
    BY <1>5, <2>1 DEF SecretFirst
  <2>3. ASSUME NEW j \in 1 .. ((1 + i) - 1), t[j][1] = "promote", t[j][2] = "secret"
        PROVE  \E m \in 1 .. (i - 1) : u[m][1] = "promote" /\ u[m][2] = "secret"
    <3>1. j \in 1 .. Len(t) /\ ~(j <= 1)
      BY <1>0, <1>7, <2>3
    <3>2. t[j] = u[j - 1] /\ j - 1 \in 1 .. (i - 1)
      BY <1>0, <3>1
    <3> QED
      BY <2>3, <3>2
  <2> QED
    BY <1>3, <2>1, <2>2, <2>3
<1> QED
  BY <1>4, <1>5 DEF t

\* The files of a step that writes or removes one.
LEMMA FilesHeld ==
  ASSUME KeysInv, NEW kind \in {"ensure", "fill", "unlink", "promote"}, S!Now(kind), NEW c, S!Put(c)
  PROVE  /\ DOMAIN stage' = S!Op
         /\ run.op = "sign" => stage'["keygen"] = stage["keygen"]
         /\ run.op = "keygen" =>
              /\ stage["keygen"] # None
              /\ stage'["keygen"] = [n \in S!Leaf |-> stage'["keygen"][n]]
              /\ \A n \in S!Leaf :
                   stage'["keygen"][n] = IF n = S!Name THEN c ELSE stage["keygen"][n]
<1>1. DOMAIN stage = S!Op /\ S!Op = {"keygen", "sign"} /\ run.op \in {"keygen", "sign"}
  BY NowFacts DEF KeysInv, KeyTypes, S!Op, KeygenRun, SignRun
<1>2. stage' = [stage EXCEPT ![run.op] = [stage[run.op] EXCEPT ![S!Name] = c]]
  BY DEF S!Put
<1>3. DOMAIN stage' = S!Op
  BY <1>1, <1>2
<1>4. ASSUME run.op = "sign" PROVE stage'["keygen"] = stage["keygen"]
  BY <1>1, <1>2, <1>4
<1>5. ASSUME run.op = "keygen"
      PROVE  /\ stage["keygen"] # None
             /\ stage'["keygen"] = [n \in S!Leaf |-> stage'["keygen"][n]]
             /\ \A n \in S!Leaf :
                  stage'["keygen"][n] = IF n = S!Name THEN c ELSE stage["keygen"][n]
  <2>1. stage["keygen"] # None /\ S!Name \in S!Leaf
    BY <1>5, KeygenNow, NowFacts DEF Filing
  <2>2. stage["keygen"] = [n \in S!Leaf |-> stage["keygen"][n]]
    BY <2>1 DEF KeysInv, KeyTypes
  <2>3. stage'["keygen"] = [stage["keygen"] EXCEPT ![S!Name] = c]
    BY <1>1, <1>2, <1>5
  <2>4. stage'["keygen"] = [n \in S!Leaf |-> IF n = S!Name THEN c ELSE stage["keygen"][n]]
    BY <2>2, <2>3
  <2> QED
    BY <2>1, <2>4
<1> QED
  BY <1>3, <1>4, <1>5

LEMMA FiledOnDisk ==
  ASSUME KeysInv, NEW kind \in {"ensure", "fill", "unlink", "promote"}, S!Now(kind),
         NEW c, S!OnDisk(c)
  PROVE  /\ DOMAIN disk' = {"dir", "stage"} /\ disk'.dir = disk.dir /\ DOMAIN disk'.stage = S!Op
         /\ run.op = "sign" => disk'.stage["keygen"] = disk.stage["keygen"]
         /\ run.op = "keygen" =>
              /\ DOMAIN disk'.stage["keygen"] = S!Leaf
              /\ \A n \in S!Leaf :
                   disk'.stage["keygen"][n] = IF n = S!Name THEN c ELSE disk.stage["keygen"][n]
<1>1. /\ DOMAIN disk = {"dir", "stage"} /\ DOMAIN disk.stage = S!Op
      /\ S!Op = {"keygen", "sign"} /\ run.op \in {"keygen", "sign"}
  BY NowFacts DEF KeysInv, KeyTypes, S!Op, KeygenRun, SignRun
<1>2. disk' = [disk EXCEPT !.stage =
                [disk.stage EXCEPT ![run.op] = [disk.stage[run.op] EXCEPT ![S!Name] = c]]]
  BY DEF S!OnDisk
<1>3. /\ DOMAIN disk' = {"dir", "stage"} /\ disk'.dir = disk.dir
      /\ disk'.stage = [disk.stage EXCEPT ![run.op] = [disk.stage[run.op] EXCEPT ![S!Name] = c]]
  BY <1>1, <1>2
<1>4. DOMAIN disk'.stage = S!Op
  BY <1>1, <1>3
<1>5. ASSUME run.op = "sign" PROVE disk'.stage["keygen"] = disk.stage["keygen"]
  BY <1>1, <1>3, <1>5
<1>6. ASSUME run.op = "keygen"
      PROVE  /\ DOMAIN disk'.stage["keygen"] = S!Leaf
             /\ \A n \in S!Leaf :
                  disk'.stage["keygen"][n] = IF n = S!Name THEN c ELSE disk.stage["keygen"][n]
  <2>1. stage["keygen"] # None /\ S!Name \in S!Leaf
    BY <1>6, KeygenNow, NowFacts DEF Filing
  <2>2. DOMAIN disk.stage["keygen"] = S!Leaf
    BY <2>1 DEF KeysInv, KeyTypes
  <2>3. disk'.stage["keygen"] = [disk.stage["keygen"] EXCEPT ![S!Name] = c]
    BY <1>1, <1>3, <1>6
  <2> QED
    BY <2>1, <2>2, <2>3
<1> QED
  BY <1>3, <1>4, <1>5, <1>6

\* A directory of the files of a pair is there.
LEMMA ThereIs ==
  ASSUME DeskAssumption, NEW f, f = [n \in S!Leaf |-> f[n]], NEW k \in Nat,
         \A n \in S!Leaf : f[n] \in {None, Torn, S!Content(n, k)}
  PROVE  f # None
<1>1. \A n \in S!Leaf : f[n] \in {None, Torn, Owner} \cup Nat
  BY DEF S!Content
<1>2. f \in [S!Leaf -> {None, Torn, Owner} \cup Nat]
  BY <1>1
<1> QED
  BY <1>2 DEF DeskAssumption, S!SignAssumption

\* The files of keygen's directory and the final names, while sign runs.
LEMMA SignFrame ==
  ASSUME KeysInv, stage'["keygen"] = stage["keygen"],
         disk'.stage["keygen"] = disk.stage["keygen"], dir' = dir
  PROVE  OneKey'
BY DEF KeysInv, OneKey, PairFiles, OfKey

\* A step that puts nothing in place and syncs no final name.
LEMMA QuietStep ==
  ASSUME KeysInv, KeyTypes', NEW kind, S!Now(kind), dir' = dir, disk'.dir = disk.dir, given' = given,
         DOMAIN run' = {"op", "is", "todo"}, run'.op = run.op, run'.is = run.is,
         Sequel(run'.todo, run.op),
         SecretFirst(run.todo) => SecretFirst(run.todo)',
         \A n : Lands(run.todo, n) => Lands(run.todo, n)',
         Promotes(run'.todo, "signature") => Promotes(run.todo, "signature"),
         Single(run.todo) => Single(run'.todo), OneKey',
         run.op = "keygen" =>
           ("mkdir" \in Kinds(run'.todo) \/ PairFiles(run.is)') /\ MakesAgain(run.todo)'
  PROVE  KeysInv'
<1>1. Lasting' /\ S!SuccessIsDurable'
  BY DEF KeysInv, Lasting, S!SuccessIsDurable
<1>2. KeygenRun \/ SignRun
  BY NowFacts
<1>3. ASSUME KeygenRun PROVE KeygenRun'
  <2>1. /\ run.op = "keygen" /\ run.is \in Nat /\ OfKey(run.is) /\ SecretFirst(run.todo)
        /\ Lands(run.todo, "secret") /\ Lands(run.todo, "public")
    BY <1>3 DEF KeygenRun
  <2>2. OfKey(run.is)' /\ run'.op = "keygen" /\ run'.is \in Nat
    BY <2>1 DEF OfKey
  <2>3. SecretFirst(run.todo)' /\ Lands(run.todo, "secret")' /\ Lands(run.todo, "public")'
    BY <2>1
  <2>4. "mkdir" \in Kinds(run.todo)' \/ PairFiles(run.is)'
    BY <2>1 DEF Kinds
  <2>5. MakesAgain(run.todo)'
    BY <2>1
  <2> QED
    BY <2>2, <2>3, <2>4, <2>5 DEF KeygenRun
<1>4. ASSUME SignRun PROVE SignRun'
  <2>1. Lands(run.todo, "signature")'
    BY <1>4 DEF SignRun
  <2>2. Promotes(run.todo, "signature")' => dir'["signature"] = None
    BY <1>4 DEF SignRun, Promotes
  <2>3. Single(run.todo)'
    BY <1>4 DEF SignRun, Single
  <2> QED
    BY <1>4, <2>1, <2>2, <2>3 DEF SignRun
<1>5. Sequel(run.todo, run.op)'
  BY DEF Sequel, PromotesWell, ReportsLast, MakesFirst, FilesBefore
<1>6. Running'
  BY <1>2, <1>3, <1>4, <1>5 DEF Running
<1> QED
  BY <1>1, <1>6 DEF KeysInv

LEMMA QuietDone ==
  ASSUME KeysInv, KeyTypes', NEW kind, S!Now(kind), kind \notin {"promote", "sync_dir"}, S!Done,
         dir' = dir, disk'.dir = disk.dir, given' = given, OneKey',
         run.op = "keygen" =>
           ("mkdir" \in Kinds(Tail(run.todo)) \/ PairFiles(run.is)') /\ MakesAgain(run.todo)'
  PROVE  KeysInv'
<1> DEFINE t == run.todo
           u == Tail(t)
<1>1. /\ DOMAIN run = {"op", "is", "todo"} /\ t \in Seq(DeskSteps) /\ t[1][1] = kind
      /\ u \in Seq(DeskSteps) /\ Ends(t, 1, u) /\ Sequel(u, run.op)
  BY NowFacts
<1>2. /\ DOMAIN run' = {"op", "is", "todo"} /\ run'.op = run.op /\ run'.is = run.is
      /\ run'.todo = u
  BY <1>1 DEF S!Done
<1>3. /\ SecretFirst(run.todo) => SecretFirst(run.todo)'
      /\ \A n : Lands(run.todo, n) => Lands(run.todo, n)'
  BY <1>1, <1>2, OrdersRest
<1>4. Promotes(u, "signature") => Promotes(t, "signature")
  <2>1. t \in Seq(DeskSteps) /\ u \in Seq(DeskSteps) /\ 1 \in Nat /\ Ends(t, 1, u)
    BY <1>1
  <2> QED
    BY ONLY <2>1, RestKeeps
<1>5. run.op = "keygen" =>
        ("mkdir" \in Kinds(run'.todo) \/ PairFiles(run.is)') /\ MakesAgain(run.todo)'
  BY <1>2
<1>6. Single(t) => Single(u)
  <2>1. t \in Seq(DeskSteps) /\ u \in Seq(DeskSteps) /\ Ends(t, 1, u)
    BY <1>1
  <2> QED
    BY ONLY <2>1, SingleRest
<1> QED
  BY <1>1, <1>2, <1>3, <1>4, <1>5, <1>6, QuietStep

\* A step that writes the right thing, or nothing, to files of the directory.
FilesLike(f, g, kind) ==
  \A n \in S!Leaf :
    \/ g[n] \in {f[n], None}
    \/ kind # "unlink" /\ g[n] \in {Torn, S!Content(n, run.is)}

FileMove(kind) ==
  /\ DOMAIN stage' = S!Op
  /\ run.op = "sign" => stage'["keygen"] = stage["keygen"]
  /\ run.op = "keygen" => /\ stage'["keygen"] = [n \in S!Leaf |-> stage'["keygen"][n]]
                          /\ FilesLike(stage["keygen"], stage'["keygen"], kind)

DiskMove(kind) ==
  /\ DOMAIN disk' = {"dir", "stage"} /\ disk'.dir = disk.dir /\ DOMAIN disk'.stage = S!Op
  /\ run.op = "sign" => disk'.stage["keygen"] = disk.stage["keygen"]
  /\ run.op = "keygen" => /\ DOMAIN disk'.stage["keygen"] = S!Leaf
                          /\ FilesLike(disk.stage["keygen"], disk'.stage["keygen"], kind)

LEMMA FileMoves ==
  ASSUME KeysInv, NEW kind \in {"ensure", "fill", "unlink"}, S!Now(kind),
         NEW c, c = None \/ (kind # "unlink" /\ c \in {Torn, S!Content(S!Name, run.is)})
  PROVE  /\ S!Put(c) => FileMove(kind)
         /\ S!OnDisk(c) => DiskMove(kind)
<1>1. ASSUME S!Put(c) PROVE FileMove(kind)
  BY <1>1, FilesHeld DEF FileMove, FilesLike
<1>2. ASSUME S!OnDisk(c) PROVE DiskMove(kind)
  BY <1>2, FiledOnDisk DEF DiskMove, FilesLike
<1> QED
  BY <1>1, <1>2

LEMMA FilesStay ==
  ASSUME KeysInv, NEW kind \in {"ensure", "fill", "unlink"}, S!Now(kind)
  PROVE  /\ stage' = stage => FileMove(kind)
         /\ disk' = disk => DiskMove(kind)
<1>3. run.op = "keygen" => stage["keygen"] # None
  BY KeygenNow DEF Filing
<1>4. ASSUME stage' = stage PROVE FileMove(kind)
  BY <1>3, <1>4 DEF FileMove, FilesLike, KeysInv, KeyTypes
<1>5. ASSUME disk' = disk PROVE DiskMove(kind)
  BY <1>3, <1>5 DEF DiskMove, FilesLike, KeysInv, KeyTypes
<1> QED
  BY <1>4, <1>5

LEMMA FileStep ==
  ASSUME DeskAssumption, KeysInv, NEW kind \in {"ensure", "fill", "unlink"}, S!Now(kind),
         FileMove(kind), DiskMove(kind), dir' = dir, run'.is = run.is,
         given' = given, keys' = keys, message' = message
  PROVE  /\ KeyTypes' /\ OneKey' /\ disk'.dir = disk.dir
         /\ run.op = "keygen" =>
              stage'["keygen"] # None /\ (PairFiles(run.is) => PairFiles(run.is)')
<1>1. run.op \in {"keygen", "sign"}
  <2>1. KeysInv /\ S!Now(kind)
    OBVIOUS
  <2>2. KeygenRun \/ SignRun
    BY ONLY <2>1, NowFacts
  <2> QED
    BY <2>2 DEF KeygenRun, SignRun
<1>2. KeyTypes'
  <2>1. stage'["keygen"] # None =>
          /\ stage'["keygen"] = [n \in S!Leaf |-> stage'["keygen"][n]]
          /\ DOMAIN disk'.stage["keygen"] = S!Leaf
    BY <1>1 DEF FileMove, DiskMove, KeysInv, KeyTypes
  <2> QED
    BY <2>1 DEF FileMove, DiskMove, KeysInv, KeyTypes
<1>3. CASE run.op = "sign"
  BY <1>2, <1>3, SignFrame DEF FileMove, DiskMove
<1>4. CASE run.op = "keygen"
  <2>1. /\ stage["keygen"] # None /\ run.is \in Nat /\ OfKey(run.is)
        /\ kind # "unlink" => PairFiles(run.is)
    BY <1>4, KeygenNow DEF Filing, KeygenRun
  <2>2. ASSUME NEW k, PairFiles(k), kind = "unlink" \/ k = run.is
        PROVE  \A n \in S!Leaf :
                 /\ stage'["keygen"][n] \in {None, Torn, S!Content(n, k)}
                 /\ disk'.stage["keygen"][n] \in {None, Torn, S!Content(n, k)}
    BY <1>4, <2>1, <2>2 DEF PairFiles, FileMove, DiskMove, FilesLike
  <2>3. PICK k \in Nat : PairFiles(k) /\ OfKey(k) /\ (kind = "unlink" \/ k = run.is)
    BY <2>1 DEF KeysInv, OneKey
  <2>4. OneKey'
    <3>1. \A n \in S!Leaf :
            /\ stage'["keygen"][n] \in {None, Torn, S!Content(n, k)}
            /\ disk'.stage["keygen"][n] \in {None, Torn, S!Content(n, k)}
      BY <2>2, <2>3
    <3>2. dir'["secret"] \in {None, k} /\ dir'["public"] \in {None, k}
      BY <2>3 DEF OfKey
    <3> QED
      BY <2>3, <3>1, <3>2 DEF OneKey, PairFiles, OfKey, S!Content
  <2>5. stage'["keygen"] # None
    <3>1. stage'["keygen"] = [n \in S!Leaf |-> stage'["keygen"][n]]
      BY <1>4 DEF FileMove
    <3>2. \A n \in S!Leaf : stage'["keygen"][n] \in {None, Torn, S!Content(n, k)}
      BY <2>2, <2>3
    <3> QED
      BY <2>3, <3>1, <3>2, ThereIs
  <2>6. ASSUME PairFiles(run.is) PROVE PairFiles(run.is)'
    <3>1. \A n \in S!Leaf :
            /\ stage'["keygen"][n] \in {None, Torn, S!Content(n, run.is)}
            /\ disk'.stage["keygen"][n] \in {None, Torn, S!Content(n, run.is)}
      BY <2>2, <2>6
    <3> QED
      BY <3>1 DEF PairFiles, S!Content
  <2> QED
    BY <1>2, <2>4, <2>5, <2>6 DEF DiskMove
<1> QED
  BY <1>1, <1>3, <1>4

\* The plain steps of the files end with the same argument.
LEMMA FilesDone ==
  ASSUME DeskAssumption, KeysInv, NEW kind \in {"ensure", "fill", "unlink"}, S!Now(kind),
         FileMove(kind), DiskMove(kind), dir' = dir, S!Done,
         given' = given, keys' = keys, message' = message
  PROVE  KeysInv'
<1>0. KeysInv /\ S!Now(kind) /\ kind # "mkdir"
  OBVIOUS
<1>1. DOMAIN run = {"op", "is", "todo"}
  BY ONLY <1>0, NowFacts
<1>2. run'.is = run.is
  BY <1>1 DEF S!Done
<1>3. /\ KeyTypes' /\ OneKey' /\ disk'.dir = disk.dir
      /\ run.op = "keygen" =>
           stage'["keygen"] # None /\ (PairFiles(run.is) => PairFiles(run.is)')
  BY <1>2, FileStep
<1>4. ASSUME run.op = "keygen"
      PROVE  ("mkdir" \in Kinds(Tail(run.todo)) \/ PairFiles(run.is)') /\ MakesAgain(run.todo)'
  <2>1. "mkdir" \in Kinds(run.todo) \/ PairFiles(run.is)
    BY <1>4, KeygenNow DEF KeygenRun
  <2>2. "mkdir" \in Kinds(run.todo) => "mkdir" \in Kinds(Tail(run.todo))
    <3> DEFINE t == run.todo
               u == Tail(run.todo)
    <3>1. /\ run.todo \in Seq(DeskSteps) /\ Tail(run.todo) \in Seq(DeskSteps) /\ 1 \in Nat
          /\ Ends(run.todo, 1, Tail(run.todo)) /\ \A j \in 1 .. 1 : run.todo[j][1] # "mkdir"
      <4>1. /\ run.todo[1][1] = kind /\ run.todo \in Seq(DeskSteps)
            /\ Tail(run.todo) \in Seq(DeskSteps) /\ Ends(run.todo, 1, Tail(run.todo))
        BY ONLY <1>0, NowFacts
      <4>2. 1 \in Nat /\ \A j \in 1 .. 1 : j = 1
        OBVIOUS
      <4> QED
        BY ONLY <1>0, <4>1, <4>2
    <3>2. /\ t \in Seq(DeskSteps) /\ u \in Seq(DeskSteps) /\ 1 \in Nat
          /\ Ends(t, 1, u) /\ \A j \in 1 .. 1 : t[j][1] # "mkdir"
      BY <3>1
    <3> HIDE DEF t, u
    <3>3. "mkdir" \in Kinds(t) => "mkdir" \in Kinds(u)
      BY ONLY <3>2, RestKeeps
    <3> QED
      BY <3>3 DEF t, u
  <2>3. MakesAgain(run.todo)'
    BY <1>3, <1>4 DEF MakesAgain
  <2> QED
    BY <1>3, <1>4, <2>1, <2>2, <2>3
<1> QED
  BY <1>3, <1>4, QuietDone

LEMMA KeepStep ==
  ASSUME DeskAssumption, KeysInv, S!Keep
  PROVE  KeysInv'
<1>1. /\ S!Now("ensure") /\ S!Here = S!Content(S!Name, run.is) /\ S!Done /\ S!OnDisk(S!Here)
      /\ UNCHANGED <<dir, stage, message, keys, given, cuts>>
  BY DEF S!Keep
<1>2. FileMove("ensure")
  BY <1>1, FilesStay
<1>3. DiskMove("ensure")
  BY <1>1, FileMoves
<1> QED
  BY <1>1, <1>2, <1>3, FilesDone

LEMMA FillStep ==
  ASSUME DeskAssumption, KeysInv, S!Fill
  PROVE  KeysInv'
<1>1. /\ S!Now("fill") /\ S!Done /\ S!Put(S!Content(S!Name, run.is))
      /\ S!OnDisk(S!Content(S!Name, run.is))
      /\ UNCHANGED <<dir, message, keys, given, cuts>>
  BY DEF S!Fill
<1>2. FileMove("fill") /\ DiskMove("fill")
  <2>1. KeysInv /\ "fill" \in {"ensure", "fill", "unlink"} /\ S!Now("fill")
    BY <1>1
  <2>2. FileMove("fill")
    BY ONLY <1>1, <2>1, FileMoves
  <2>3. DiskMove("fill")
    BY ONLY <1>1, <2>1, FileMoves
  <2> QED
    BY <2>2, <2>3
<1> QED
  BY <1>1, <1>2, FilesDone

LEMMA UnlinkStep ==
  ASSUME DeskAssumption, KeysInv, S!Unlink
  PROVE  KeysInv'
<1>1. /\ S!Now("unlink") /\ S!Done /\ S!Put(None)
      /\ UNCHANGED <<dir, disk, message, keys, given, cuts>>
  BY DEF S!Unlink
<1>2. FileMove("unlink") /\ DiskMove("unlink")
  <2>1. KeysInv /\ "unlink" \in {"ensure", "fill", "unlink"} /\ S!Now("unlink") /\ None = None
    BY <1>1
  <2>2. FileMove("unlink")
    BY ONLY <1>1, <2>1, FileMoves
  <2>3. DiskMove("unlink")
    BY <1>1, <2>1, FilesStay
  <2> QED
    BY <2>2, <2>3
<1> QED
  BY <1>1, <1>2, FilesDone

LEMMA ReplaceStep ==
  ASSUME DeskAssumption, KeysInv, S!Replace
  PROVE  KeysInv'
<1>1. /\ S!Now("ensure") /\ S!Put(None) /\ S!OnDisk(None)
      /\ UNCHANGED <<dir, message, keys, given, run, cuts>>
  BY DEF S!Replace
<1>2. FileMove("ensure") /\ DiskMove("ensure")
  BY <1>1, FileMoves
<1>3. /\ KeyTypes' /\ OneKey' /\ disk'.dir = disk.dir
      /\ run.op = "keygen" =>
           stage'["keygen"] # None /\ (PairFiles(run.is) => PairFiles(run.is)')
  BY <1>1, <1>2, FileStep
<1>4. /\ SecretFirst(run.todo) => SecretFirst(run.todo)'
      /\ \A n : Lands(run.todo, n) => Lands(run.todo, n)'
      /\ run'.todo = run.todo
  BY <1>1, <1>3 DEF SecretFirst, Since, Lands, Promotes, Kinds
<1>5. /\ DOMAIN run = {"op", "is", "todo"} /\ Sequel(run.todo, run.op)
      /\ run.op = "keygen" => PairFiles(run.is)
  <2>1. KeysInv /\ S!Now("ensure")
    BY <1>1
  <2>2. DOMAIN run = {"op", "is", "todo"} /\ Sequel(run.todo, run.op)
    BY ONLY <2>1, NowFacts
  <2>3. run.op = "keygen" => PairFiles(run.is)
    BY ONLY <2>1, KeygenNow
  <2> QED
    BY <2>2, <2>3
<1>6. run.op = "keygen" => PairFiles(run.is)' /\ MakesAgain(run.todo)'
  BY <1>3, <1>5 DEF MakesAgain
<1> QED
  BY <1>1, <1>3, <1>4, <1>5, <1>6, QuietStep

\* The file is created, and what is left is to fill it.
LEMMA CreateStep ==
  ASSUME DeskAssumption, KeysInv, S!Create
  PROVE  KeysInv'
<1> DEFINE t == run.todo
           u == << <<"fill", S!Name>> >> \o Tail(t)
<1>1. /\ S!Now("ensure") /\ S!Put(Torn) /\ run' = [run EXCEPT !.todo = u]
      /\ UNCHANGED <<dir, disk, message, keys, given, cuts>>
  BY DEF S!Create
<1>2. FileMove("ensure") /\ DiskMove("ensure")
  BY <1>1, FileMoves, FilesStay
<1>3. /\ DOMAIN run = {"op", "is", "todo"} /\ Sequel(t, run.op) /\ t \in Seq(DeskSteps)
      /\ Len(t) \in Nat /\ Len(t) > 0 /\ t[1][1] = "ensure" /\ S!Name \in S!Leaf
      /\ Tail(t) \in Seq(DeskSteps) /\ Ends(t, 1, Tail(t))
  <2>1. KeysInv /\ S!Now("ensure")
    BY <1>1
  <2> QED
    BY ONLY <2>1, NowFacts
<1>4. /\ run'.is = run.is /\ run'.op = run.op /\ run'.todo = u
      /\ DOMAIN run' = {"op", "is", "todo"}
  BY <1>1, <1>3
<1>5. /\ KeyTypes' /\ OneKey' /\ disk'.dir = disk.dir
      /\ run.op = "keygen" =>
           stage'["keygen"] # None /\ (PairFiles(run.is) => PairFiles(run.is)')
  BY <1>1, <1>2, <1>4, FileStep
<1>6. /\ u \in Seq(DeskSteps) /\ Len(u) = Len(t) /\ u[1] = <<"fill", S!Name>>
      /\ \A i \in 2 .. Len(t) : u[i] = t[i]
  <2> DEFINE p == << <<"fill", S!Name>> >>
             v == Tail(t)
  <2>1. p \in Seq(DeskSteps) /\ Len(p) = 1 /\ p[1] = <<"fill", S!Name>>
    BY <1>3 DEF DeskSteps
  <2> HIDE DEF p, v
  <2>2. /\ p \o v \in Seq(DeskSteps) /\ Len(p \o v) = Len(p) + Len(v)
        /\ Ends(p \o v, Len(p), v) /\ \A i \in 1 .. Len(p) : (p \o v)[i] = p[i]
    BY <1>3, <2>1, Concat, ConcatEnds DEF v
  <2>3. Len(v) \in Nat /\ Len(t) = 1 + Len(v) /\ \A i \in 1 .. Len(v) : t[1 + i] = v[i]
    BY <1>3 DEF Ends, v
  <2>4. \A i \in 1 .. Len(v) : (p \o v)[1 + i] = v[i]
    BY <2>1, <2>2 DEF Ends
  <2>5. ASSUME NEW i \in 2 .. Len(t) PROVE (p \o v)[i] = t[i]
    <3>1. i - 1 \in 1 .. Len(v) /\ 1 + (i - 1) = i
      BY <2>3
    <3>2. (p \o v)[1 + (i - 1)] = v[i - 1] /\ t[1 + (i - 1)] = v[i - 1]
      BY <2>3, <2>4, <3>1
    <3> QED
      BY <3>1, <3>2
  <2>6. (p \o v)[1] = p[1] /\ Len(p \o v) = Len(t)
    BY <2>1, <2>2, <2>3
  <2> QED
    BY <2>1, <2>2, <2>5, <2>6 DEF p, v
<1> HIDE DEF t, u
<1>7. /\ u[1][1] = "fill" /\ 1 \in 1 .. Len(t) /\ Len(u) \in Nat
      /\ \A i \in 1 .. Len(t) : i = 1 \/ u[i] = t[i]
      /\ \A i \in 1 .. Len(t) : u[i] = t[i] \/ (i = 1 /\ u[i][1] = "fill" /\ t[i][1] = "ensure")
      /\ Len(u) = Len(t)
  <2>1. \A i \in 1 .. Len(t) : i = 1 \/ i \in 2 .. Len(t)
    BY <1>3
  <2>2. u[1][1] = "fill"
    BY <1>6
  <2> QED
    BY <1>3, <1>6, <2>1, <2>2
<1>8. Sequel(u, run.op)
  <2>1. PromotesWell(u, run.op)
    <3> SUFFICES ASSUME NEW i \in 1 .. Len(t), u[i][1] = "promote"
                 PROVE  /\ u[i][2] \in FinalsOf(run.op) /\ i + 2 < Len(t)
                        /\ u[i + 1][1] = "sync_dir" /\ u[i + 2][1] = "sync_stage"
                        /\ run.op = "keygen" => \E j \in (i + 3) .. Len(t) : u[j][1] = "sync_dir"
      BY <1>7 DEF PromotesWell
    <3>1. u[i] = t[i]
      BY <1>7
    <3>2. /\ t[i][2] \in FinalsOf(run.op) /\ i + 2 < Len(t)
          /\ t[i + 1][1] = "sync_dir" /\ t[i + 2][1] = "sync_stage"
          /\ run.op = "keygen" => \E j \in (i + 3) .. Len(t) : t[j][1] = "sync_dir"
      BY <1>3, <3>1 DEF Sequel, PromotesWell
    <3>3. i + 1 \in 2 .. Len(t) /\ i + 2 \in 2 .. Len(t) /\ \A j \in (i + 3) .. Len(t) : j \in 2 .. Len(t)
      <4>1. i + 2 < Len(t) /\ Len(t) \in Nat
        BY <1>3, <3>2
      <4> QED
        BY ONLY <4>1, i \in 1 .. Len(t)
    <3> QED
      BY <1>6, <3>1, <3>2, <3>3
  <2>2. ReportsLast(u)
    BY <1>3, <1>7 DEF ReportsLast, Sequel
  <2>3. MakesFirst(u)
    <3> SUFFICES ASSUME NEW i \in 1 .. Len(t), u[i][1] = "mkdir" PROVE FALSE
      BY <1>7 DEF MakesFirst
    <3>1. t[i][1] = "mkdir" /\ i # 1
      BY <1>7
    <3>2. 1 \in 1 .. (i - 1)
      BY <1>3, <3>1
    <3>3. t[1][1] \in {"unlink", "sync_stage", "rmdir"}
      BY <1>3, <3>1, <3>2 DEF Sequel, MakesFirst
    <3> QED
      BY <1>3, <3>3
  <2>4. FilesBefore(u)
    <3> SUFFICES ASSUME NEW i \in 1 .. Len(t), u[i][1] = "rmdir", NEW j \in (i + 1) .. Len(t),
                        u[j][1] \in Filing
                 PROVE  \E m \in (i + 1) .. (j - 1) : u[m][1] = "mkdir"
      BY <1>7 DEF FilesBefore
    <3>1. u[i] = t[i] /\ j \in 2 .. Len(t)
      BY <1>3, <1>7
    <3>2. u[j] = t[j]
      BY <1>6, <3>1
    <3>3. PICK m \in (i + 1) .. (j - 1) : t[m][1] = "mkdir"
      BY <1>3, <3>1, <3>2 DEF Sequel, FilesBefore
    <3>4. m \in 2 .. Len(t)
      BY <1>3, <3>3
    <3> QED
      BY <1>6, <3>3, <3>4
  <2> QED
    BY <1>6, <2>1, <2>2, <2>3, <2>4 DEF Sequel
<1>9. /\ SecretFirst(t) => SecretFirst(run.todo)'
      /\ \A n : Lands(t, n) => Lands(run.todo, n)'
      /\ (Promotes(u, "signature") => Promotes(t, "signature")) /\ (Single(t) => Single(u))
  <2>1. \A i \in 1 .. Len(t) : t[i][1] # "ensure" => u[i] = t[i]
    BY <1>7
  <2>2. \A i \in 1 .. Len(t) : u[i][1] # "fill" => u[i] = t[i]
    BY <1>7
  <2>3. \A n : Promotes(u, n) <=> Promotes(t, n)
    BY <1>7, <2>1, <2>2 DEF Promotes
  <2>4. "sync_dir" \in Kinds(t) => "sync_dir" \in Kinds(u)
    <3> SUFFICES ASSUME NEW i \in 1 .. Len(t), t[i][1] = "sync_dir" PROVE "sync_dir" \in Kinds(u)
      BY DEF Kinds
    <3>1. u[i][1] = "sync_dir" /\ i \in 1 .. Len(u)
      BY <1>7, <2>1
    <3> QED
      BY <3>1 DEF Kinds
  <2>5. ASSUME NEW n, Lands(t, n) PROVE Lands(run.todo, n)'
    <3>1. \/ Promotes(u, n)
          \/ dir[n] = run.is /\ (disk.dir[n] = run.is \/ "sync_dir" \in Kinds(u))
      BY <2>3, <2>4, <2>5 DEF Lands
    <3> QED
      BY <1>1, <1>4, <3>1 DEF Lands, Promotes, Kinds
  <2>6. ASSUME SecretFirst(t) PROVE SecretFirst(run.todo)'
    <3> SUFFICES ASSUME NEW i \in 1 .. Len(u), u[i][1] = "promote"
                 PROVE  /\ u[i][2] = "secret" /\ dir["secret"] # None =>
                             disk.dir["secret"] = run.is \/ Since(u, i, "sync_dir")
                        /\ u[i][2] = "public" =>
                             \/ \E j \in 1 .. (i - 1) : u[j][1] = "promote" /\ u[j][2] = "secret"
                             \/ dir["secret"] = run.is
                                /\ (disk.dir["secret"] = run.is \/ Since(u, i, "sync_dir"))
      BY <1>1, <1>4 DEF SecretFirst, Since
    <3>1. u[i] = t[i] /\ \A j \in 1 .. (i - 1) : j \in 1 .. Len(t)
      BY <1>7, <2>2
    <3>2. Since(t, i, "sync_dir") => Since(u, i, "sync_dir")
      BY <2>1, <3>1 DEF Since
    <3>3. \A j \in 1 .. (i - 1) : t[j][1] = "promote" => u[j] = t[j]
      BY <2>1, <3>1
    <3>4. /\ t[i][2] = "secret" /\ dir["secret"] # None =>
               disk.dir["secret"] = run.is \/ Since(t, i, "sync_dir")
          /\ t[i][2] = "public" =>
               \/ \E j \in 1 .. (i - 1) : t[j][1] = "promote" /\ t[j][2] = "secret"
               \/ dir["secret"] = run.is /\ (disk.dir["secret"] = run.is \/ Since(t, i, "sync_dir"))
      BY <1>7, <2>6, <3>1 DEF SecretFirst
    <3> QED
      BY <3>1, <3>2, <3>3, <3>4
  <2>7. Single(t) => Single(u)
    BY <1>7, <2>2 DEF Single
  <2> QED
    BY <2>3, <2>5, <2>6, <2>7
<1>10. /\ SecretFirst(run.todo) => SecretFirst(run.todo)'
       /\ \A n : Lands(run.todo, n) => Lands(run.todo, n)'
       /\ (Promotes(run'.todo, "signature") => Promotes(run.todo, "signature"))
       /\ (Single(run.todo) => Single(run'.todo)) /\ Sequel(run'.todo, run.op)
  BY <1>4, <1>8, <1>9 DEF t
<1>11. run.op = "keygen" => PairFiles(run.is)
  BY <1>1, KeygenNow
<1>12. run.op = "keygen" => PairFiles(run.is)' /\ MakesAgain(run.todo)'
  BY <1>5, <1>11 DEF MakesAgain
<1> QED
  BY <1>1, <1>4, <1>5, <1>10, <1>12, QuietStep

\* What the rest of a program of keygen still says of the directory.
LEMMA DirectoryRest ==
  ASSUME KeysInv, NEW kind, S!Now(kind), kind # "mkdir", run.op = "keygen"
  PROVE  /\ "mkdir" \in Kinds(Tail(run.todo)) \/ PairFiles(run.is)
         /\ MakesAgain(Tail(run.todo))
<1> DEFINE t == run.todo
           u == Tail(run.todo)
<1>1. /\ t \in Seq(DeskSteps) /\ u \in Seq(DeskSteps) /\ Ends(t, 1, u) /\ t[1][1] = kind
  <2>1. KeysInv /\ S!Now(kind)
    OBVIOUS
  <2> QED
    BY ONLY <2>1, NowFacts
<1>2. KeygenRun
  BY KeygenNow
<1>3. ("mkdir" \in Kinds(t) \/ PairFiles(run.is)) /\ MakesAgain(t)
  BY <1>2 DEF KeygenRun
<1>4. 1 \in Nat /\ \A j \in 1 .. 1 : t[j][1] # "mkdir"
  <2>1. \A j \in 1 .. 1 : j = 1
    OBVIOUS
  <2> HIDE DEF t
  <2> QED
    BY <1>1, <2>1
<1> HIDE DEF t, u
<1>5. "mkdir" \in Kinds(t) => "mkdir" \in Kinds(u)
  BY ONLY <1>1, <1>4, RestKeeps
<1>6. \A i \in 1 .. Len(u) : Since(t, 1 + i, "mkdir") => Since(u, i, "mkdir")
  BY ONLY <1>1, <1>4, RestKeeps
<1>7. \A i \in 1 .. Len(u) : 1 + i \in 1 .. Len(t) /\ t[1 + i] = u[i]
  <2>1. /\ Len(u) \in Nat /\ Len(t) \in Nat /\ Len(t) = 1 + Len(u)
        /\ \A i \in 1 .. Len(u) : 1 + i \in 1 .. Len(t) /\ t[1 + i] = u[i]
    BY ONLY <1>1, <1>4, EndsAt, SMTT(20)
  <2> QED
    BY <2>1
<1>8. MakesAgain(u)
  BY <1>3, <1>6, <1>7 DEF MakesAgain
<1> QED
  BY <1>3, <1>5, <1>8 DEF t, u

\* A run ends, and leaves everything as it is.
LEMMA Stopped ==
  ASSUME KeysInv, run' = S!Idle, dir' = dir, stage' = stage, disk' = disk, given' = given,
         keys' = keys, message' = message
  PROVE  KeysInv'
<1>1. KeyTypes' /\ OneKey' /\ Lasting' /\ S!SuccessIsDurable'
  BY DEF KeysInv, KeyTypes, OneKey, PairFiles, OfKey, Lasting, S!SuccessIsDurable
<1>2. Running'
  BY DEF Running, S!Idle
<1> QED
  BY <1>1, <1>2 DEF KeysInv

LEMMA CheckStep ==
  ASSUME KeysInv, S!CheckMessage
  PROVE  KeysInv'
<1>1. /\ S!Now("check") /\ UNCHANGED <<dir, stage, disk, message, keys, given, cuts>>
      /\ S!Done \/ run' = S!Idle
  BY DEF S!CheckMessage
<1>2. CASE run' = S!Idle
  BY <1>1, <1>2, Stopped
<1>3. CASE S!Done
  <2>1. KeyTypes' /\ OneKey'
    BY <1>1 DEF KeysInv, KeyTypes, OneKey, PairFiles, OfKey
  <2>2. DOMAIN run = {"op", "is", "todo"}
    BY <1>1, NowFacts
  <2>3. run'.is = run.is /\ run'.todo = Tail(run.todo)
    BY <1>3, <2>2 DEF S!Done
  <2>4. ASSUME run.op = "keygen"
        PROVE  ("mkdir" \in Kinds(Tail(run.todo)) \/ PairFiles(run.is)') /\ MakesAgain(run.todo)'
    <3>1. /\ "mkdir" \in Kinds(Tail(run.todo)) \/ PairFiles(run.is)
          /\ MakesAgain(Tail(run.todo))
      BY <1>1, <2>4, DirectoryRest
    <3>2. PairFiles(run.is) => PairFiles(run.is)'
      BY <1>1, <2>3 DEF PairFiles
    <3>3. MakesAgain(run'.todo)
      BY <2>3, <3>1
    <3>4. MakesAgain(run.todo)'
      BY <1>1, <3>3 DEF MakesAgain, Since
    <3> QED
      BY <3>1, <3>2, <3>4
  <2> QED
    BY <1>1, <1>3, <2>1, <2>4, QuietDone
<1> QED
  BY <1>1, <1>2, <1>3

\* A directory is made, or removed, and nothing is in it.
LEMMA DirectoryMoves ==
  ASSUME KeysInv, NEW kind, S!Now(kind), kind \in {"mkdir", "rmdir"}, NEW d \in {None, S!Empty},
         stage' = [stage EXCEPT ![run.op] = d], disk' = [disk EXCEPT !.stage[run.op] = d],
         dir' = dir, message' = message, keys' = keys, given' = given
  PROVE  /\ KeyTypes' /\ OneKey' /\ disk'.dir = disk.dir
         /\ run.op = "keygen" => (\A k : PairFiles(k)') /\ stage'["keygen"] = d
<1>0. KeysInv /\ S!Now(kind)
  OBVIOUS
<1>1. run.op \in {"keygen", "sign"} /\ DOMAIN stage = {"keygen", "sign"}
  <2>1. KeygenRun \/ SignRun
    BY ONLY <1>0, NowFacts
  <2> QED
    BY <2>1 DEF KeygenRun, SignRun, KeysInv, KeyTypes, S!Op
<1>2. /\ DOMAIN disk = {"dir", "stage"} /\ DOMAIN disk.stage = {"keygen", "sign"}
  BY DEF KeysInv, KeyTypes, S!Op
<1>3. /\ DOMAIN disk' = {"dir", "stage"} /\ disk'.dir = disk.dir
      /\ disk'.stage = [disk.stage EXCEPT ![run.op] = d]
  BY <1>2
<1>4. DOMAIN stage' = S!Op /\ DOMAIN disk'.stage = S!Op
  BY <1>1, <1>2, <1>3 DEF S!Op
<1>5. CASE run.op = "keygen"
  <2>1. stage'["keygen"] = d /\ disk'.stage["keygen"] = d
    BY <1>1, <1>2, <1>3, <1>5
  <2>2. d # None => d = [n \in S!Leaf |-> None]
    BY DEF S!Empty
  <2>3. KeyTypes'
    <3>1. d # None => d = [n \in S!Leaf |-> d[n]] /\ DOMAIN d = S!Leaf
      BY <2>2
    <3> QED
      BY <1>3, <1>4, <2>1, <3>1 DEF KeysInv, KeyTypes
  <2>4. \A k : PairFiles(k)'
    BY <2>1, <2>2 DEF PairFiles
  <2>5. OneKey'
    <3>1. PICK k \in Nat : OfKey(k)
      BY DEF KeysInv, OneKey
    <3>2. OfKey(k)'
      BY <3>1 DEF OfKey
    <3> QED
      BY <2>4, <3>2 DEF OneKey
  <2> QED
    BY <1>3, <2>1, <2>3, <2>4, <2>5
<1>6. CASE run.op = "sign"
  <2>1. stage'["keygen"] = stage["keygen"] /\ disk'.stage["keygen"] = disk.stage["keygen"]
    BY <1>1, <1>2, <1>3, <1>6
  <2>2. KeyTypes'
    BY <1>3, <1>4, <2>1 DEF KeysInv, KeyTypes
  <2> QED
    BY <1>3, <1>6, <2>1, <2>2, SignFrame
<1> QED
  BY <1>1, <1>5, <1>6

LEMMA MkdirStep ==
  ASSUME DeskAssumption, KeysInv, S!Mkdir
  PROVE  KeysInv'
<1>1. /\ S!Now("mkdir") /\ S!Done
      /\ stage' = [stage EXCEPT ![run.op] = S!Empty]
      /\ disk' = [disk EXCEPT !.stage[run.op] = S!Empty]
      /\ UNCHANGED <<dir, message, keys, given, cuts>>
  BY DEF S!Mkdir
<1>2. /\ KeyTypes' /\ OneKey' /\ disk'.dir = disk.dir
      /\ run.op = "keygen" => (\A k : PairFiles(k)') /\ stage'["keygen"] = S!Empty
  BY <1>1, DirectoryMoves
<1>3. S!Empty # None
  <2>1. S!Empty = [n \in S!Leaf |-> S!Empty[n]] /\ \A n \in S!Leaf : S!Empty[n] = None
    BY DEF S!Empty
  <2> QED
    BY <2>1, ThereIs
<1>4. run.op = "keygen" =>
        ("mkdir" \in Kinds(Tail(run.todo)) \/ PairFiles(run.is)') /\ MakesAgain(run.todo)'
  BY <1>2, <1>3 DEF MakesAgain, PairFiles
<1> QED
  BY <1>1, <1>2, <1>4, QuietDone

LEMMA RmdirStep ==
  ASSUME DeskAssumption, KeysInv, S!Rmdir
  PROVE  KeysInv'
<1>1. /\ S!Now("rmdir") /\ S!Done
      /\ stage' = [stage EXCEPT ![run.op] = None]
      /\ disk' = [disk EXCEPT !.stage[run.op] = None]
      /\ UNCHANGED <<dir, message, keys, given, cuts>>
  BY DEF S!Rmdir
<1>2. /\ KeyTypes' /\ OneKey' /\ disk'.dir = disk.dir
      /\ run.op = "keygen" => (\A k : PairFiles(k)') /\ stage'["keygen"] = None
  BY <1>1, DirectoryMoves
<1>3. MakesAgain(run.todo)'
  <2> DEFINE t == run.todo
             u == Tail(run.todo)
  <2>1. /\ DOMAIN run = {"op", "is", "todo"} /\ t \in Seq(DeskSteps) /\ u \in Seq(DeskSteps)
        /\ Ends(t, 1, u) /\ t[1][1] = "rmdir" /\ Sequel(t, run.op)
    BY <1>1, NowFacts
  <2>2. run'.todo = u
    BY <1>1, <2>1 DEF S!Done
  <2> HIDE DEF t, u
  <2>3. 1 \in Nat
    OBVIOUS
  <2>4. /\ Len(u) \in Nat /\ Len(t) \in Nat /\ Len(t) = 1 + Len(u)
        /\ \A i \in 1 .. Len(u) : 1 + i \in 1 .. Len(t) /\ t[1 + i] = u[i]
    BY ONLY <2>1, <2>3, EndsAt, SMTT(20)
  <2>5. ASSUME NEW i \in 1 .. Len(u), u[i][1] \in Filing PROVE Since(u, i, "mkdir")
    <3>1. 1 + i \in (1 + 1) .. Len(t) /\ t[1 + i][1] \in Filing /\ 1 \in 1 .. Len(t)
      BY <2>4, <2>5
    <3>2. PICK m \in (1 + 1) .. ((1 + i) - 1) : t[m][1] = "mkdir"
      BY <2>1, <3>1 DEF Sequel, FilesBefore
    <3>3. m - 1 \in 1 .. (i - 1) /\ m - 1 \in 1 .. Len(u) /\ 1 + (m - 1) = m
      BY ONLY <3>2, i \in 1 .. Len(u), Len(u) \in Nat, m \in (1 + 1) .. ((1 + i) - 1), <2>4
    <3>4. u[m - 1] = t[1 + (m - 1)]
      BY <2>4, <3>3
    <3>5. u[m - 1][1] = "mkdir"
      BY <3>2, <3>3, <3>4
    <3> QED
      BY <3>3, <3>5 DEF Since
  <2>6. \A i \in 1 .. Len(run'.todo) :
          run'.todo[i][1] \in Filing => \E j \in 1 .. (i - 1) : run'.todo[j][1] = "mkdir"
    BY <2>2, <2>5 DEF Since
  <2> QED
    BY <2>6 DEF MakesAgain, Since
<1>4. run.op = "keygen" =>
        ("mkdir" \in Kinds(Tail(run.todo)) \/ PairFiles(run.is)') /\ MakesAgain(run.todo)'
  BY <1>2, <1>3 DEF PairFiles
<1> QED
  BY <1>1, <1>2, <1>4, QuietDone

\* A sync of the directory of a run: what is on the disk was there, or is.
LEMMA SyncedFiles ==
  ASSUME KeysInv, DOMAIN disk' = {"dir", "stage"}, DOMAIN disk'.stage = S!Op,
         DOMAIN disk'.dir = S!Final,
         stage' = stage, dir' = dir, message' = message, keys' = keys, given' = given,
         stage["keygen"] # None =>
           /\ DOMAIN disk'.stage["keygen"] = S!Leaf
           /\ \A n \in S!Leaf :
                disk'.stage["keygen"][n] \in {stage["keygen"][n], disk.stage["keygen"][n]}
  PROVE  KeyTypes' /\ OneKey' /\ \A k : PairFiles(k) => PairFiles(k)'
<1>1. KeyTypes'
  BY DEF KeysInv, KeyTypes
<1>2. ASSUME NEW k, PairFiles(k) PROVE PairFiles(k)'
  <2> SUFFICES ASSUME stage["keygen"] # None, NEW n \in S!Leaf
               PROVE  /\ stage["keygen"][n] \in {None, Torn, S!Content(n, k)}
                      /\ disk'.stage["keygen"][n] \in {None, Torn, S!Content(n, k)}
    BY DEF PairFiles, S!Content
  <2>1. /\ stage["keygen"][n] \in {None, Torn, S!Content(n, k)}
        /\ disk.stage["keygen"][n] \in {None, Torn, S!Content(n, k)}
    BY <1>2 DEF PairFiles
  <2> QED
    BY <2>1
<1>3. OneKey'
  <2>1. PICK k \in Nat : PairFiles(k) /\ OfKey(k)
    BY DEF KeysInv, OneKey
  <2>2. PairFiles(k)' /\ OfKey(k)'
    BY <1>2, <2>1 DEF OfKey
  <2> QED
    BY <2>2 DEF OneKey
<1> QED
  BY <1>1, <1>2, <1>3

LEMMA SyncStageStep ==
  ASSUME KeysInv, S!SyncStage
  PROVE  KeysInv'
<1> DEFINE f == [n \in S!Leaf |-> IF n \in S!Final /\ disk.dir[n] # dir[n]
                                  THEN disk.stage[run.op][n] ELSE stage[run.op][n]]
<1>1. /\ S!Now("sync_stage") /\ S!Done /\ UNCHANGED <<dir, stage, message, keys, given, cuts>>
      /\ disk' = [disk EXCEPT !.stage[run.op] = f]
  BY DEF S!SyncStage
<1>2. run.op \in {"keygen", "sign"} /\ DOMAIN run = {"op", "is", "todo"}
  <2>1. (KeygenRun \/ SignRun) /\ DOMAIN run = {"op", "is", "todo"}
    BY <1>1, NowFacts
  <2> QED
    BY <2>1 DEF KeygenRun, SignRun
<1>3. DOMAIN f = S!Leaf /\ \A n \in S!Leaf : f[n] \in {stage[run.op][n], disk.stage[run.op][n]}
  OBVIOUS
<1> HIDE DEF f
<1>4. /\ DOMAIN disk = {"dir", "stage"} /\ DOMAIN disk.stage = {"keygen", "sign"}
      /\ DOMAIN disk.dir = S!Final
  BY DEF KeysInv, KeyTypes, S!Op
<1>5. /\ DOMAIN disk' = {"dir", "stage"} /\ disk'.dir = disk.dir
      /\ disk'.stage = [disk.stage EXCEPT ![run.op] = f]
  BY <1>1, <1>4
<1>6. DOMAIN disk'.stage = S!Op
  BY <1>4, <1>5 DEF S!Op
<1>7. stage["keygen"] # None =>
        /\ DOMAIN disk'.stage["keygen"] = S!Leaf
        /\ \A n \in S!Leaf :
             disk'.stage["keygen"][n] \in {stage["keygen"][n], disk.stage["keygen"][n]}
  <2>1. CASE run.op = "keygen"
    <3>1. disk'.stage["keygen"] = f
      BY <1>4, <1>5, <2>1
    <3> QED
      BY <1>3, <2>1, <3>1
  <2>2. CASE run.op = "sign"
    <3>1. disk'.stage["keygen"] = disk.stage["keygen"]
      BY <1>4, <1>5, <2>2
    <3> QED
      BY <3>1 DEF KeysInv, KeyTypes
  <2> QED
    BY <1>2, <2>1, <2>2
<1>8. KeyTypes' /\ OneKey' /\ \A k : PairFiles(k) => PairFiles(k)'
  BY <1>1, <1>4, <1>5, <1>6, <1>7, SyncedFiles
<1>9. run'.is = run.is /\ run'.todo = Tail(run.todo)
  BY <1>1, <1>2 DEF S!Done
<1>10. ASSUME run.op = "keygen"
       PROVE  ("mkdir" \in Kinds(Tail(run.todo)) \/ PairFiles(run.is)') /\ MakesAgain(run.todo)'
  <2>1. /\ "mkdir" \in Kinds(Tail(run.todo)) \/ PairFiles(run.is)
        /\ MakesAgain(Tail(run.todo))
    BY <1>1, <1>10, DirectoryRest
  <2>2. PairFiles(run.is) => PairFiles(run.is)'
    <3>1. ASSUME NEW k, PairFiles(k), k = run'.is PROVE PairFiles(run.is)'
      <4>1. PairFiles(k)'
        BY <1>8, <3>1
      <4> QED
        BY <3>1, <4>1 DEF PairFiles
    <3> QED
      BY <1>9, <3>1
  <2>3. MakesAgain(run.todo)'
    BY <1>1, <1>9, <2>1 DEF MakesAgain, Since
  <2> QED
    BY <2>1, <2>2, <2>3
<1> QED
  BY <1>1, <1>5, <1>8, <1>10, QuietDone

-----------------------------------------------------------------------------
(* The steps that put a file in place, and make that last.               *)

\* Of a run whose step changes what is in place or what is durable.
LEMMA RunGoesOn ==
  ASSUME KeysInv, KeyTypes', OneKey', Lasting', S!SuccessIsDurable',
         DOMAIN run' = {"op", "is", "todo"}, run'.op = run.op, run'.is = run.is,
         Sequel(run'.todo, run.op), KeygenRun' \/ SignRun'
  PROVE  KeysInv'
<1>1. Sequel(run.todo, run.op)'
  BY DEF Sequel, PromotesWell, ReportsLast, MakesFirst, FilesBefore
<1>2. Running'
  BY <1>1 DEF Running
<1> QED
  BY <1>2 DEF KeysInv

LEMMA SyncDirStep ==
  ASSUME KeysInv, S!SyncDir
  PROVE  KeysInv'
<1> DEFINE t == run.todo
           u == Tail(run.todo)
           g == [op \in S!Op |-> IF stage[op] = None THEN None ELSE
                   [n \in S!Leaf |-> IF n \in S!Final /\ disk.dir[n] # dir[n]
                                     THEN stage[op][n] ELSE disk.stage[op][n]]]
<1>1. /\ S!Now("sync_dir") /\ S!Done /\ UNCHANGED <<dir, stage, message, keys, given, cuts>>
      /\ disk' = [dir |-> dir, stage |-> g]
  BY DEF S!SyncDir
<1>2. /\ DOMAIN run = {"op", "is", "todo"} /\ (KeygenRun \/ SignRun)
      /\ t \in Seq(DeskSteps) /\ u \in Seq(DeskSteps) /\ Ends(t, 1, u) /\ t[1][1] = "sync_dir"
      /\ Sequel(u, run.op)
  BY <1>1, NowFacts
<1>3. DOMAIN dir = S!Final
  BY DEF KeysInv, KeyTypes
<1>4. /\ DOMAIN disk' = {"dir", "stage"} /\ disk'.dir = dir /\ disk'.stage = g
      /\ DOMAIN g = S!Op /\ "keygen" \in S!Op
  BY <1>1 DEF S!Op
<1>5. stage["keygen"] # None =>
        /\ DOMAIN g["keygen"] = S!Leaf
        /\ \A n \in S!Leaf : g["keygen"][n] \in {stage["keygen"][n], disk.stage["keygen"][n]}
  BY DEF S!Op
<1> HIDE DEF g, t, u
<1>6. KeyTypes' /\ OneKey' /\ \A k : PairFiles(k) => PairFiles(k)'
  BY <1>1, <1>3, <1>4, <1>5, SyncedFiles
<1>7. Lasting'
  BY <1>1, <1>4 DEF KeysInv, Lasting
<1>8. S!SuccessIsDurable'
  <2>1. \A n \in S!Final : disk.dir[n] \in {None, dir[n]}
    BY DEF KeysInv, Lasting
  <2>2. \A n \in S!Final : disk.dir[n] # None => disk'.dir[n] = disk.dir[n]
    BY <1>4, <2>1
  <2> QED
    BY <1>1, <2>2 DEF KeysInv, S!SuccessIsDurable, S!Final
<1>9. /\ run'.is = run.is /\ run'.op = run.op /\ run'.todo = u
      /\ DOMAIN run' = {"op", "is", "todo"}
  BY <1>1, <1>2 DEF S!Done, u
<1>10. 1 \in Nat /\ \A j \in 1 .. 1 : t[j][1] # "promote"
  <2>1. \A j \in 1 .. 1 : j = 1
    OBVIOUS
  <2> QED
    BY <1>2, <2>1
<1>11. \A n : Promotes(t, n) => Promotes(u, n)
  BY ONLY <1>2, <1>10, RestKeeps
<1>12. ASSUME NEW n, Lands(t, n) PROVE Lands(run.todo, n)'
  <2>1. Promotes(u, n) \/ dir[n] = run.is
    BY <1>11, <1>12 DEF Lands
  <2>2. Promotes(run'.todo, n) \/ (dir'[n] = run'.is /\ disk'.dir[n] = run'.is)
    BY <1>1, <1>4, <1>9, <2>1
  <2> QED
    BY <2>2 DEF Lands, Promotes
<1>13. CASE KeygenRun
  <2>1. /\ run.op = "keygen" /\ run.is \in Nat /\ OfKey(run.is) /\ SecretFirst(t)
        /\ Lands(t, "secret") /\ Lands(t, "public")
    BY <1>13 DEF KeygenRun, t
  <2>2. /\ "mkdir" \in Kinds(u) \/ PairFiles(run.is)
        /\ MakesAgain(u)
    BY <1>1, <2>1, DirectoryRest DEF u
  <2>3. OfKey(run.is)' /\ run'.op = "keygen" /\ run'.is \in Nat
    BY <1>1, <1>9, <2>1 DEF OfKey
  <2>4. "mkdir" \in Kinds(run.todo)' \/ PairFiles(run.is)'
    <3>1. ASSUME NEW k, PairFiles(k), k = run'.is PROVE PairFiles(run.is)'
      <4>1. PairFiles(k)'
        BY <1>6, <3>1
      <4> QED
        BY <3>1, <4>1 DEF PairFiles
    <3>2. "mkdir" \in Kinds(run'.todo) \/ PairFiles(run.is)'
      BY <1>9, <2>2, <3>1
    <3> QED
      BY <3>2 DEF Kinds
  <2>5. MakesAgain(run.todo)'
    BY <1>1, <1>9, <2>2 DEF MakesAgain, Since
  <2>6. SecretFirst(run.todo)'
    <3>1. dir["secret"] # None => disk'.dir["secret"] = run.is
      BY <1>4, <2>1 DEF OfKey
    <3>2. ASSUME NEW i \in 1 .. Len(u), u[i][1] = "promote", u[i][2] = "public"
          PROVE  \/ \E j \in 1 .. (i - 1) : u[j][1] = "promote" /\ u[j][2] = "secret"
                 \/ dir["secret"] = run.is /\ disk'.dir["secret"] = run.is
      <4>1. /\ Len(u) \in Nat /\ Len(t) \in Nat /\ Len(t) = 1 + Len(u)
            /\ \A m \in 1 .. Len(t) : ~(m <= 1) => m - 1 \in 1 .. Len(u) /\ t[m] = u[m - 1]
            /\ \A m \in 1 .. Len(u) : 1 + m \in 1 .. Len(t) /\ t[1 + m] = u[m]
        BY ONLY <1>2, <1>10, EndsAt, SMTT(20)
      <4>2. \/ \E j \in 1 .. ((1 + i) - 1) : t[j][1] = "promote" /\ t[j][2] = "secret"
            \/ dir["secret"] = run.is
        BY <2>1, <3>2, <4>1 DEF SecretFirst
      <4>3. ASSUME NEW j \in 1 .. ((1 + i) - 1), t[j][1] = "promote", t[j][2] = "secret"
            PROVE  \E m \in 1 .. (i - 1) : u[m][1] = "promote" /\ u[m][2] = "secret"
        <5>1. j # 1
          BY <1>2, <4>3
        <5>2. j \in 1 .. Len(t) /\ ~(j <= 1) /\ j - 1 \in 1 .. (i - 1)
          BY ONLY <5>1, j \in 1 .. ((1 + i) - 1), i \in 1 .. Len(u), <4>1
        <5>3. t[j] = u[j - 1]
          BY <4>1, <5>2
        <5> QED
          BY <4>3, <5>2, <5>3
      <4> QED
        BY <1>4, <4>2, <4>3
    <3>3. \A i \in 1 .. Len(run'.todo) :
            run'.todo[i][1] = "promote" =>
              /\ run'.todo[i][2] = "secret" /\ dir'["secret"] # None => disk'.dir["secret"] = run'.is
              /\ run'.todo[i][2] = "public" =>
                   \/ \E j \in 1 .. (i - 1) :
                        run'.todo[j][1] = "promote" /\ run'.todo[j][2] = "secret"
                   \/ dir'["secret"] = run'.is /\ disk'.dir["secret"] = run'.is
      BY <1>1, <1>9, <3>1, <3>2
    <3> QED
      BY <3>3 DEF SecretFirst
  <2>7. Lands(run.todo, "secret")' /\ Lands(run.todo, "public")'
    BY <1>12, <2>1
  <2>8. KeygenRun'
    BY <2>3, <2>4, <2>5, <2>6, <2>7 DEF KeygenRun
  <2> QED
    BY <1>2, <1>6, <1>7, <1>8, <1>9, <2>8, RunGoesOn
<1>14. CASE SignRun
  <2>1. Lands(run.todo, "signature")'
    BY <1>12, <1>14 DEF SignRun, t
  <2>2. Promotes(run.todo, "signature")' => dir'["signature"] = None
    <3>1. Promotes(u, "signature") => Promotes(t, "signature")
      BY ONLY <1>2, <1>10, RestKeeps
    <3>2. Promotes(run'.todo, "signature") => dir'["signature"] = None
      BY <1>1, <1>9, <1>14, <3>1 DEF SignRun, t
    <3> QED
      BY <3>2 DEF Promotes
  <2>3. Single(run.todo)'
    <3>1. Single(t)
      BY <1>14 DEF SignRun, t
    <3>2. Single(u)
      BY ONLY <1>2, <1>10, <3>1, SingleRest
    <3> QED
      BY <1>9, <3>2 DEF Single
  <2>4. SignRun'
    BY <1>1, <1>9, <1>14, <2>1, <2>2, <2>3 DEF SignRun
  <2> QED
    BY <1>2, <1>6, <1>7, <1>8, <1>9, <2>4, RunGoesOn
<1> QED
  BY <1>2, <1>13, <1>14

\* What a rename of a final name follows and precedes.
LEMMA PromotionFacts ==
  ASSUME KeysInv, S!Now("promote")
  PROVE  /\ Len(run.todo) >= 4 /\ run.todo[2][1] = "sync_dir" /\ run.todo[3][1] = "sync_stage"
         /\ S!Name \in FinalsOf(run.op)
         /\ run.op = "keygen" => \E j \in 4 .. Len(run.todo) : run.todo[j][1] = "sync_dir"
         /\ run.op = "keygen" =>
              /\ S!Name = "secret" /\ dir["secret"] # None => disk.dir["secret"] = run.is
              /\ S!Name = "public" => dir["secret"] = run.is /\ disk.dir["secret"] = run.is
<1> DEFINE t == run.todo
<1>1. /\ Sequel(t, run.op) /\ Len(t) \in Nat /\ Len(t) > 0 /\ t[1][1] = "promote"
      /\ S!Name = t[1][2]
  BY NowFacts
<1> HIDE DEF t
<1>2. 1 \in 1 .. Len(t) /\ 1 + 1 = 2 /\ 1 + 2 = 3 /\ 1 + 3 = 4 /\ 1 .. (1 - 1) = {}
  BY <1>1
<1>3. /\ t[1][2] \in FinalsOf(run.op) /\ 1 + 2 < Len(t)
      /\ t[1 + 1][1] = "sync_dir" /\ t[1 + 2][1] = "sync_stage"
      /\ run.op = "keygen" => \E j \in (1 + 3) .. Len(t) : t[j][1] = "sync_dir"
  BY <1>1, <1>2 DEF Sequel, PromotesWell
<1>4. ASSUME run.op = "keygen"
      PROVE  /\ S!Name = "secret" /\ dir["secret"] # None => disk.dir["secret"] = run.is
             /\ S!Name = "public" => dir["secret"] = run.is /\ disk.dir["secret"] = run.is
  <2>1. SecretFirst(t)
    BY <1>4, KeygenNow DEF KeygenRun, t
  <2>2. ~Since(t, 1, "sync_dir")
    BY <1>2 DEF Since
  <2>3. /\ t[1][2] = "secret" /\ dir["secret"] # None => disk.dir["secret"] = run.is
        /\ t[1][2] = "public" => dir["secret"] = run.is /\ disk.dir["secret"] = run.is
    BY <1>1, <1>2, <2>1, <2>2 DEF SecretFirst
  <2> QED
    BY <1>1, <2>3
<1> QED
  BY <1>1, <1>2, <1>3, <1>4 DEF t

\* Of a sequence that loses its first step.
LEMMA TailFacts ==
  ASSUME NEW t \in Seq(DeskSteps), NEW u \in Seq(DeskSteps), Ends(t, 1, u), Len(t) >= 4,
         t[1][1] = "promote", t[2][1] = "sync_dir"
  PROVE  /\ "sync_dir" \in Kinds(u)
         /\ \A i \in 1 .. Len(u) : u[i][1] = "promote" => Since(u, i, "sync_dir")
         /\ \A n : Promotes(t, n) /\ t[1][2] # n => Promotes(u, n)
         /\ Single(t) => \A n : ~Promotes(u, n)
<1>1. /\ Len(u) \in Nat /\ Len(t) \in Nat /\ Len(t) = 1 + Len(u)
      /\ \A m \in 1 .. Len(t) : ~(m <= 1) => m - 1 \in 1 .. Len(u) /\ t[m] = u[m - 1]
      /\ \A m \in 1 .. Len(u) : 1 + m \in 1 .. Len(t) /\ t[1 + m] = u[m]
  <2>1. 1 \in Nat /\ t \in Seq(DeskSteps) /\ u \in Seq(DeskSteps) /\ Ends(t, 1, u)
    OBVIOUS
  <2> QED
    BY ONLY <2>1, EndsAt, SMTT(20)
<1>2. 1 \in 1 .. Len(u) /\ u[1] = t[2]
  BY <1>1
<1>3. "sync_dir" \in Kinds(u)
  BY <1>2 DEF Kinds
<1>4. ASSUME NEW i \in 1 .. Len(u), u[i][1] = "promote" PROVE Since(u, i, "sync_dir")
  <2>1. i # 1
    BY <1>2, <1>4
  <2>2. 1 \in 1 .. (i - 1)
    BY <1>1, <2>1
  <2> QED
    BY <1>2, <2>2 DEF Since
<1>5. ASSUME NEW n, Promotes(t, n), t[1][2] # n PROVE Promotes(u, n)
  <2>1. PICK i \in 1 .. Len(t) : t[i][1] = "promote" /\ t[i][2] = n
    BY <1>5 DEF Promotes
  <2>2. i # 1
    BY <1>5, <2>1
  <2>3. i - 1 \in 1 .. Len(u) /\ t[i] = u[i - 1]
    BY <1>1, <2>2
  <2> QED
    BY <2>1, <2>3 DEF Promotes
<1>6. ASSUME Single(t), NEW n PROVE ~Promotes(u, n)
  <2> SUFFICES ASSUME NEW i \in 1 .. Len(u), u[i][1] = "promote" PROVE FALSE
    BY DEF Promotes
  <2>1. 1 + i \in 1 .. Len(t) /\ t[1 + i][1] = "promote" /\ 1 \in 1 .. Len(t)
    BY <1>1
  <2>2. 1 + i = 1
    BY <1>6, <2>1 DEF Single
  <2> QED
    BY <2>2
<1> QED
  BY <1>3, <1>4, <1>5, <1>6

\* A rename keeps what a power cut may leave in order.
LEMMA PromotionLasts ==
  ASSUME KeysInv, S!Now("promote"), dir[S!Name] = None,
         dir' = [dir EXCEPT ![S!Name] = run.is], disk' = disk, run' = [run EXCEPT !.todo = Tail(@)]
  PROVE  Lasting'
<1>1. S!Name \in FinalsOf(run.op) /\ DOMAIN dir = S!Final
  BY PromotionFacts DEF KeysInv, KeyTypes
<1>2. KeygenRun \/ SignRun
  BY NowFacts
<1>3. S!Name \in S!Final
  BY <1>1 DEF FinalsOf, S!Final
<1>4. \A n \in S!Final : dir'[n] = IF n = S!Name THEN run.is ELSE dir[n]
  BY <1>1
<1>5. \A n \in S!Final : disk'.dir[n] \in {None, dir'[n]}
  BY <1>4 DEF KeysInv, Lasting
<1>6. CASE S!Name = "secret"
  <2>1. dir["secret"] = None /\ dir["public"] = None /\ dir["signature"] = None
    BY <1>6 DEF KeysInv, Lasting
  <2>2. dir'["public"] = None /\ dir'["signature"] = None
    BY <1>4, <1>6, <2>1 DEF S!Final
  <2> QED
    BY <1>5, <2>2 DEF Lasting
<1>7. CASE S!Name = "public"
  <2>1. run.op = "keygen"
    BY <1>1, <1>2, <1>7 DEF FinalsOf, SignRun, KeygenRun
  <2>2. dir["secret"] = run.is /\ disk.dir["secret"] = run.is
    BY <1>7, <2>1, PromotionFacts
  <2>3. dir'["public"] = run.is /\ dir'["secret"] = run.is /\ dir'["signature"] = dir["signature"]
    BY <1>4, <1>7, <2>2 DEF S!Final
  <2> QED
    BY <1>5, <2>2, <2>3 DEF Lasting, KeysInv
<1>8. CASE S!Name = "signature"
  <2>1. SignRun
    BY <1>1, <1>2, <1>8 DEF FinalsOf, KeygenRun
  <2>2. /\ dir'["signature"] = run.is /\ dir'["secret"] = dir["secret"]
        /\ dir'["public"] = dir["public"]
    BY <1>4, <1>8 DEF S!Final
  <2>3. /\ dir["secret"] = dir["public"] /\ dir["secret"] # None /\ run.is[1] = dir["secret"]
        /\ disk.dir["secret"] = dir["secret"]
    BY <2>1 DEF SignRun, KeysInv, Lasting
  <2> QED
    BY <1>5, <2>2, <2>3 DEF Lasting
<1> QED
  BY <1>3, <1>6, <1>7, <1>8 DEF S!Final

LEMMA PromoteStep ==
  ASSUME DeskAssumption, KeysInv, S!Promote
  PROVE  KeysInv'
<1> DEFINE t == run.todo
           u == Tail(run.todo)
<1>1. /\ S!Now("promote") /\ dir[S!Name] = None /\ S!Done
      /\ dir' = [dir EXCEPT ![S!Name] = run.is] /\ S!Put(None)
      /\ UNCHANGED <<disk, message, keys, given, cuts>>
  BY DEF S!Promote
<1>2. /\ DOMAIN run = {"op", "is", "todo"} /\ (KeygenRun \/ SignRun)
      /\ t \in Seq(DeskSteps) /\ u \in Seq(DeskSteps) /\ Ends(t, 1, u) /\ t[1][1] = "promote"
      /\ S!Name = t[1][2] /\ Sequel(u, run.op)
  BY <1>1, NowFacts
<1>3. Len(t) >= 4 /\ t[2][1] = "sync_dir" /\ S!Name \in FinalsOf(run.op)
  BY <1>1, PromotionFacts
<1>4. /\ run'.is = run.is /\ run'.op = run.op /\ run'.todo = u
      /\ DOMAIN run' = {"op", "is", "todo"}
  BY <1>1, <1>2 DEF S!Done
<1> HIDE DEF t, u
<1>5. /\ "sync_dir" \in Kinds(u)
      /\ \A i \in 1 .. Len(u) : u[i][1] = "promote" => Since(u, i, "sync_dir")
      /\ \A n : Promotes(t, n) /\ t[1][2] # n => Promotes(u, n)
      /\ Single(t) => \A n : ~Promotes(u, n)
  BY ONLY <1>2, <1>3, TailFacts
<1>6. Lasting'
  BY <1>1, PromotionLasts DEF S!Done
<1>7. S!SuccessIsDurable'
  BY <1>1 DEF KeysInv, S!SuccessIsDurable
<1>8. /\ DOMAIN stage' = S!Op
      /\ run.op = "sign" => stage'["keygen"] = stage["keygen"]
      /\ run.op = "keygen" =>
           /\ stage["keygen"] # None
           /\ stage'["keygen"] = [n \in S!Leaf |-> stage'["keygen"][n]]
           /\ \A n \in S!Leaf :
                stage'["keygen"][n] = IF n = S!Name THEN None ELSE stage["keygen"][n]
  <2>1. KeysInv /\ "promote" \in {"ensure", "fill", "unlink", "promote"} /\ S!Now("promote")
    BY <1>1
  <2> QED
    BY ONLY <1>1, <2>1, FilesHeld
<1>9. run.op \in {"keygen", "sign"} /\ DOMAIN dir = S!Final
  BY <1>2 DEF KeygenRun, SignRun, KeysInv, KeyTypes
<1>10. KeyTypes'
  <2>1. DOMAIN dir' = S!Final
    BY <1>1, <1>9
  <2>2. stage'["keygen"] # None =>
          /\ stage'["keygen"] = [n \in S!Leaf |-> stage'["keygen"][n]]
          /\ DOMAIN disk'.stage["keygen"] = S!Leaf
    BY <1>1, <1>8, <1>9 DEF KeysInv, KeyTypes
  <2> QED
    BY <1>1, <1>8, <2>1, <2>2 DEF KeysInv, KeyTypes
<1>11. \A n \in S!Final : dir'[n] = IF n = S!Name THEN run.is ELSE dir[n]
  BY <1>1, <1>9
<1>12. ASSUME NEW n \in S!Final, Lands(t, n) PROVE Lands(run.todo, n)'
  <2>1. Promotes(u, n) \/ dir'[n] = run.is
    BY <1>2, <1>5, <1>11, <1>12 DEF Lands
  <2>2. Promotes(run'.todo, n) \/ (dir'[n] = run'.is /\ "sync_dir" \in Kinds(run'.todo))
    BY <1>4, <1>5, <2>1
  <2> QED
    BY <2>2 DEF Lands, Promotes, Kinds
<1>13. CASE KeygenRun
  <2>1. /\ run.op = "keygen" /\ run.is \in Nat /\ OfKey(run.is) /\ SecretFirst(t)
        /\ Lands(t, "secret") /\ Lands(t, "public") /\ PairFiles(run.is)
    BY <1>1, <1>13, KeygenNow DEF KeygenRun, t
  <2>2. OfKey(run.is)'
    <3>1. dir'["secret"] \in {None, run'.is} /\ dir'["public"] \in {None, run'.is}
      BY <1>4, <1>11, <2>1 DEF OfKey, S!Final
    <3> QED
      BY <3>1 DEF OfKey
  <2>3. \A n \in S!Leaf :
          /\ stage'["keygen"][n] \in {None, Torn, S!Content(n, run.is)}
          /\ disk'.stage["keygen"][n] \in {None, Torn, S!Content(n, run.is)}
    BY <1>1, <1>8, <2>1 DEF PairFiles
  <2>4. PairFiles(run.is)' /\ \A k : k = run.is => PairFiles(k)'
    BY <1>4, <2>3 DEF PairFiles, S!Content
  <2>5. OneKey'
    <3>1. ASSUME NEW k, k = run.is PROVE PairFiles(k)' /\ OfKey(k)'
      BY <1>11, <2>1, <2>4, <3>1 DEF OfKey, S!Final
    <3> QED
      BY <2>1, <3>1 DEF OneKey
  <2>6. stage'["keygen"] # None
    <3>1. stage'["keygen"] = [n \in S!Leaf |-> stage'["keygen"][n]]
      BY <1>8, <2>1
    <3>2. \A n \in S!Leaf : stage'["keygen"][n] \in {None, Torn, S!Content(n, run.is)}
      BY <2>3
    <3> QED
      BY <2>1, <3>1, <3>2, ThereIs
  <2>7. MakesAgain(run.todo)'
    BY <2>6 DEF MakesAgain
  <2>8. SecretFirst(run.todo)'
    <3>1. \A i \in 1 .. Len(u) : u[i][1] = "promote" /\ u[i][2] = "public" =>
            \/ \E j \in 1 .. (i - 1) : u[j][1] = "promote" /\ u[j][2] = "secret"
            \/ dir'["secret"] = run.is
      <4> SUFFICES ASSUME NEW i \in 1 .. Len(u), u[i][1] = "promote", u[i][2] = "public",
                          dir'["secret"] # run.is
                   PROVE  \E j \in 1 .. (i - 1) : u[j][1] = "promote" /\ u[j][2] = "secret"
        OBVIOUS
      <4>1. 1 \in Nat
        OBVIOUS
      <4>2. /\ Len(u) \in Nat /\ Len(t) \in Nat /\ Len(t) = 1 + Len(u)
            /\ \A m \in 1 .. Len(t) : ~(m <= 1) => m - 1 \in 1 .. Len(u) /\ t[m] = u[m - 1]
            /\ \A m \in 1 .. Len(u) : 1 + m \in 1 .. Len(t) /\ t[1 + m] = u[m]
        BY ONLY <1>2, <4>1, EndsAt, SMTT(20)
      <4>3. S!Name # "secret" /\ dir["secret"] # run.is
        BY <1>11 DEF S!Final
      <4>4. PICK j \in 1 .. ((1 + i) - 1) : t[j][1] = "promote" /\ t[j][2] = "secret"
        BY <2>1, <4>2, <4>3 DEF SecretFirst
      <4>5. j # 1
        BY <1>2, <4>3, <4>4
      <4>6. j \in 1 .. Len(t) /\ ~(j <= 1) /\ j - 1 \in 1 .. (i - 1)
        BY ONLY <4>5, j \in 1 .. ((1 + i) - 1), i \in 1 .. Len(u), <4>2
      <4>7. t[j] = u[j - 1]
        BY <4>2, <4>6
      <4> QED
        BY <4>4, <4>6, <4>7
    <3>2. \A i \in 1 .. Len(run'.todo) :
            run'.todo[i][1] = "promote" =>
              /\ \E j \in 1 .. (i - 1) : run'.todo[j][1] = "sync_dir"
              /\ run'.todo[i][2] = "public" =>
                   \/ \E j \in 1 .. (i - 1) :
                        run'.todo[j][1] = "promote" /\ run'.todo[j][2] = "secret"
                   \/ dir'["secret"] = run'.is
      BY <1>4, <1>5, <3>1 DEF Since
    <3> QED
      BY <3>2 DEF SecretFirst, Since
  <2>9. Lands(run.todo, "secret")' /\ Lands(run.todo, "public")'
    BY <1>12, <2>1 DEF S!Final
  <2>10. KeygenRun'
    BY <1>4, <2>1, <2>2, <2>4, <2>7, <2>8, <2>9 DEF KeygenRun
  <2> QED
    BY <1>2, <1>4, <1>6, <1>7, <1>10, <2>5, <2>10, RunGoesOn
<1>14. CASE SignRun
  <2>1. run.op = "sign" /\ S!Name = "signature"
    BY <1>3, <1>14 DEF SignRun, FinalsOf
  <2>2. dir'["secret"] = dir["secret"] /\ dir'["public"] = dir["public"]
    BY <1>11, <2>1 DEF S!Final
  <2>3. OneKey'
    BY <1>1, <1>8, <2>1, <2>2 DEF KeysInv, OneKey, PairFiles, OfKey
  <2>4. Lands(run.todo, "signature")'
    BY <1>12, <1>14 DEF SignRun, S!Final, t
  <2>5. ~Promotes(run.todo, "signature")' /\ Single(run.todo)'
    <3>1. Single(t)
      BY <1>14 DEF SignRun, t
    <3>2. Single(u)
      <4>1. 1 \in Nat
        OBVIOUS
      <4> QED
        BY ONLY <1>2, <3>1, <4>1, SingleRest
    <3>3. ~Promotes(run'.todo, "signature") /\ Single(run'.todo)
      BY <1>4, <1>5, <3>1, <3>2
    <3> QED
      BY <3>3 DEF Promotes, Single
  <2>6. SignRun'
    BY <1>4, <1>14, <2>2, <2>4, <2>5 DEF SignRun
  <2> QED
    BY <1>2, <1>4, <1>6, <1>7, <1>10, <2>3, <2>6, RunGoesOn
<1> QED
  BY <1>2, <1>13, <1>14

LEMMA SkipStep ==
  ASSUME DeskAssumption, KeysInv, S!SkipPromotion
  PROVE  KeysInv'
<1> DEFINE t == run.todo
           u == SubSeq(t, 4, Len(t))
<1>1. /\ S!Now("promote") /\ dir[S!Name] = run.is /\ run' = [run EXCEPT !.todo = u]
      /\ UNCHANGED <<dir, stage, disk, message, keys, given, cuts>>
  BY DEF S!SkipPromotion
<1>2. /\ DOMAIN run = {"op", "is", "todo"} /\ (KeygenRun \/ SignRun)
      /\ t \in Seq(DeskSteps) /\ Len(t) \in Nat /\ t[1][1] = "promote" /\ S!Name = t[1][2]
      /\ Sequel(t, run.op)
  BY <1>1, NowFacts
<1>3. /\ Len(t) >= 4 /\ t[2][1] = "sync_dir" /\ t[3][1] = "sync_stage"
      /\ S!Name \in FinalsOf(run.op)
      /\ run.op = "keygen" => \E j \in 4 .. Len(t) : t[j][1] = "sync_dir"
      /\ run.op = "keygen" =>
           /\ S!Name = "secret" /\ dir["secret"] # None => disk.dir["secret"] = run.is
           /\ S!Name = "public" => dir["secret"] = run.is /\ disk.dir["secret"] = run.is
  BY <1>1, PromotionFacts
<1>4. /\ run'.is = run.is /\ run'.op = run.op /\ run'.todo = u
      /\ DOMAIN run' = {"op", "is", "todo"}
  BY <1>1, <1>2
<1>5. KeygenRun
  <2> SUFFICES ASSUME SignRun PROVE FALSE
    BY <1>2
  <2>1. S!Name = "signature" /\ run.is \in Nat \X Nat
    BY <1>3 DEF SignRun, FinalsOf
  <2>2. Promotes(t, "signature")
    <3>1. 1 \in 1 .. Len(t)
      BY <1>2, <1>3
    <3> QED
      BY <1>2, <2>1, <3>1 DEF Promotes
  <2>3. dir["signature"] = None
    BY <2>2 DEF SignRun
  <2> QED
    BY <1>1, <2>1, <2>3 DEF DeskAssumption, S!SignAssumption
<1>6. /\ u \in Seq(DeskSteps) /\ Len(u) = Len(t) - 3
      /\ \A i \in 1 .. Len(u) : u[i] = t[3 + i]
  <2> HIDE DEF t
  <2>1. Len(u) = Len(t) - 3 /\ \A i \in 1 .. (Len(t) - 3) : u[i] = t[4 + i - 1]
    BY <1>2, <1>3
  <2>2. \A i \in 1 .. (Len(t) - 3) : 3 + i \in 1 .. Len(t) /\ 4 + i - 1 = 3 + i
    BY <1>2, <1>3
  <2>3. u \in Seq(DeskSteps)
    BY <1>2, <1>3
  <2> QED
    BY <2>1, <2>2, <2>3
<1> HIDE DEF t, u
<1>7. 3 \in Nat /\ Ends(t, 3, u)
  <2>1. Len(t) = 3 + Len(u)
    BY <1>2, <1>6
  <2> QED
    BY <1>6, <2>1 DEF Ends
<1>8. Sequel(u, run.op)
  BY <1>2, <1>6, <1>7, SequelRest
<1>9. /\ Len(u) \in Nat /\ Len(t) = 3 + Len(u)
      /\ \A m \in 1 .. Len(t) : ~(m <= 3) => m - 3 \in 1 .. Len(u) /\ t[m] = u[m - 3]
  <2>1. /\ Len(u) \in Nat /\ Len(t) \in Nat /\ Len(t) = 3 + Len(u)
        /\ \A m \in 1 .. Len(t) : ~(m <= 3) => m - 3 \in 1 .. Len(u) /\ t[m] = u[m - 3]
    BY ONLY <1>2, <1>6, <1>7, EndsAt, SMTT(20)
  <2> QED
    BY <2>1
<1>10. /\ run.op = "keygen" /\ run.is \in Nat /\ OfKey(run.is) /\ PairFiles(run.is)
       /\ Lands(t, "secret") /\ Lands(t, "public")
       /\ stage["keygen"] # None
  <2>1. run.op = "keygen"
    BY <1>5 DEF KeygenRun
  <2>2. PairFiles(run.is) /\ stage["keygen"] # None
    BY <1>1, <2>1, KeygenNow DEF Filing
  <2> QED
    BY <1>5, <2>1, <2>2 DEF KeygenRun, t
<1>11. run.is # None
  BY <1>10 DEF DeskAssumption, S!SignAssumption
<1>12. dir["secret"] = run.is /\ disk.dir["secret"] = run.is
  BY <1>1, <1>3, <1>10, <1>11 DEF FinalsOf
<1>13. "sync_dir" \in Kinds(u)
  <2>1. PICK j \in 4 .. Len(t) : t[j][1] = "sync_dir"
    BY <1>3, <1>10
  <2>2. j - 3 \in 1 .. Len(u) /\ t[j] = u[j - 3]
    BY <1>2, <1>9
  <2> QED
    BY <2>1, <2>2 DEF Kinds
<1>14. Lands(run.todo, "public")'
  <2>1. Promotes(u, "public") \/ dir["public"] = run.is
    <3>1. CASE S!Name = "public"
      BY <1>1, <3>1
    <3>2. CASE S!Name = "secret"
      <4>1. Promotes(t, "public") => Promotes(u, "public")
        <5> SUFFICES ASSUME NEW i \in 1 .. Len(t), t[i][1] = "promote", t[i][2] = "public"
                     PROVE  Promotes(u, "public")
          BY DEF Promotes
        <5>1. i # 1 /\ i # 2 /\ i # 3
          BY <1>2, <1>3, <3>2
        <5>2. i - 3 \in 1 .. Len(u) /\ t[i] = u[i - 3]
          BY <1>2, <1>9, <5>1
        <5> QED
          BY <5>2 DEF Promotes
      <4> QED
        BY <1>10, <4>1 DEF Lands
    <3> QED
      BY <1>3, <1>10, <3>1, <3>2 DEF FinalsOf
  <2>2. \/ Promotes(run'.todo, "public")
        \/ dir'["public"] = run'.is /\ "sync_dir" \in Kinds(run'.todo)
    BY <1>1, <1>4, <1>13, <2>1
  <2> QED
    BY <2>2 DEF Lands, Promotes, Kinds
<1>15. Lands(run.todo, "secret")' /\ SecretFirst(run.todo)'
  BY <1>1, <1>4, <1>12 DEF Lands, SecretFirst
<1>16. KeygenRun'
  <2>1. OfKey(run.is)' /\ PairFiles(run.is)'
    BY <1>1, <1>4, <1>10 DEF OfKey, PairFiles
  <2>2. MakesAgain(run.todo)'
    BY <1>1, <1>10 DEF MakesAgain
  <2> QED
    BY <1>4, <1>10, <1>14, <1>15, <2>1, <2>2 DEF KeygenRun
<1>17. KeyTypes' /\ OneKey' /\ Lasting' /\ S!SuccessIsDurable'
  BY <1>1 DEF KeysInv, KeyTypes, OneKey, PairFiles, OfKey, Lasting, S!SuccessIsDurable
<1> QED
  BY <1>4, <1>8, <1>16, <1>17, RunGoesOn

\* A run that reports has nothing left to do.
LEMMA SuccessStep ==
  ASSUME KeysInv, S!Success
  PROVE  KeysInv'
<1> DEFINE t == run.todo
<1>1. /\ S!Now("report") /\ run' = S!Idle /\ given' = [given EXCEPT ![run.op] = run.is]
      /\ UNCHANGED <<dir, stage, disk, message, keys, cuts>>
  BY DEF S!Success
<1>2. /\ (KeygenRun \/ SignRun) /\ Len(t) \in Nat /\ Len(t) > 0 /\ t[1][1] = "report"
      /\ Sequel(t, run.op)
  BY <1>1, NowFacts
<1> HIDE DEF t
<1>3. \A i \in 1 .. Len(t) : t[i][1] = "report"
  <2>1. 1 \in 1 .. Len(t)
    BY <1>2
  <2>2. Len(t) = 1
    BY <1>2, <2>1 DEF Sequel, ReportsLast
  <2>3. \A i \in 1 .. Len(t) : i = 1
    BY <2>2
  <2> QED
    BY <1>2, <2>3
<1>4. ASSUME NEW n, Lands(t, n) PROVE disk.dir[n] = run.is
  BY <1>3, <1>4 DEF Lands, Promotes, Kinds
<1>5. DOMAIN given = {"keygen", "sign"}
  BY DEF KeysInv, KeyTypes, S!Op
<1>6. S!SuccessIsDurable'
  <2>1. CASE KeygenRun
    <3>1. disk.dir["secret"] = run.is /\ disk.dir["public"] = run.is /\ run.op = "keygen"
      BY <1>4, <2>1 DEF KeygenRun, t
    <3>2. given'["keygen"] = run.is /\ given'["sign"] = given["sign"]
      BY <1>1, <1>5, <3>1
    <3> QED
      BY <1>1, <3>1, <3>2 DEF KeysInv, S!SuccessIsDurable
  <2>2. CASE SignRun
    <3>1. disk.dir["signature"] = run.is /\ run.op = "sign"
      BY <1>4, <2>2 DEF SignRun, t
    <3>2. given'["sign"] = run.is /\ given'["keygen"] = given["keygen"]
      BY <1>1, <1>5, <3>1
    <3> QED
      BY <1>1, <3>1, <3>2 DEF KeysInv, S!SuccessIsDurable
  <2> QED
    BY <1>2, <2>1, <2>2
<1>7. KeyTypes'
  <2>1. DOMAIN given' = S!Op
    BY <1>1, <1>5 DEF S!Op
  <2> QED
    BY <1>1, <2>1 DEF KeysInv, KeyTypes
<1>8. OneKey' /\ Lasting'
  BY <1>1 DEF KeysInv, OneKey, PairFiles, OfKey, Lasting
<1>9. Running'
  BY <1>1 DEF Running, S!Idle
<1> QED
  BY <1>6, <1>7, <1>8, <1>9 DEF KeysInv

LEMMA StepKeeps ==
  ASSUME DeskAssumption, KeysInv, S!Step
  PROVE  KeysInv'
BY MkdirStep, KeepStep, ReplaceStep, CreateStep, FillStep, CheckStep, PromoteStep, SkipStep,
   SyncDirStep, SyncStageStep, UnlinkStep, RmdirStep, SuccessStep DEF S!Step

-----------------------------------------------------------------------------
(* The beginnings of a run.                                              *)

LEMMA Begun ==
  ASSUME KeysInv, DOMAIN run' = {"op", "is", "todo"}, Sequel(run'.todo, run'.op),
         KeygenRun' \/ SignRun', dir' = dir, stage' = stage, disk' = disk, message' = message,
         given' = given, keys' \in Nat
  PROVE  KeysInv'
<1>1. KeyTypes' /\ OneKey' /\ Lasting' /\ S!SuccessIsDurable'
  BY DEF KeysInv, KeyTypes, OneKey, PairFiles, OfKey, Lasting, S!SuccessIsDurable
<1>2. Sequel(run.todo, run.op)'
  BY DEF Sequel, PromotesWell, ReportsLast, MakesFirst, FilesBefore
<1>3. Running'
  BY <1>2 DEF Running
<1> QED
  BY <1>1, <1>3 DEF KeysInv

\* A run of keygen with what it finds in its directory.
LEMMA KeygenBegun ==
  ASSUME KeysInv, NEW k \in Nat, NEW t, run' = [op |-> "keygen", is |-> k, todo |-> t],
         Sequel(t, "keygen"), OfKey(k), "mkdir" \in Kinds(t) \/ PairFiles(k), MakesAgain(t),
         \A i \in 1 .. Len(t) :
           t[i][1] = "promote" =>
             /\ t[i][2] = "secret" /\ dir["secret"] # None => Since(t, i, "sync_dir")
             /\ t[i][2] = "public" =>
                  \E j \in 1 .. (i - 1) : t[j][1] = "promote" /\ t[j][2] = "secret",
         \A n \in {"secret", "public"} : Promotes(t, n) \/ (dir[n] = k /\ "sync_dir" \in Kinds(t)),
         dir' = dir, stage' = stage, disk' = disk, message' = message, given' = given, keys' \in Nat
  PROVE  KeysInv'
<1>1. /\ DOMAIN run' = {"op", "is", "todo"} /\ run'.op = "keygen" /\ run'.is = k /\ run'.todo = t
  OBVIOUS
<1>2. OfKey(run.is)'
  BY <1>1 DEF OfKey
<1>3. "mkdir" \in Kinds(run.todo)' \/ PairFiles(run.is)'
  BY <1>1 DEF Kinds, PairFiles
<1>4. MakesAgain(run.todo)'
  BY <1>1 DEF MakesAgain, Since
<1>5. SecretFirst(run.todo)'
  <2>1. \A i \in 1 .. Len(run'.todo) :
          run'.todo[i][1] = "promote" =>
            /\ run'.todo[i][2] = "secret" /\ dir'["secret"] # None =>
                 \E j \in 1 .. (i - 1) : run'.todo[j][1] = "sync_dir"
            /\ run'.todo[i][2] = "public" =>
                 \E j \in 1 .. (i - 1) : run'.todo[j][1] = "promote" /\ run'.todo[j][2] = "secret"
    BY <1>1 DEF Since
  <2> QED
    BY <2>1 DEF SecretFirst, Since
<1>6. ASSUME NEW n \in {"secret", "public"} PROVE Lands(run.todo, n)'
  <2>1. \/ Promotes(run'.todo, n)
        \/ dir'[n] = run'.is /\ "sync_dir" \in Kinds(run'.todo)
    BY <1>1
  <2> QED
    BY <2>1 DEF Lands, Promotes, Kinds
<1>7. KeygenRun'
  BY <1>1, <1>2, <1>3, <1>4, <1>5, <1>6 DEF KeygenRun
<1> QED
  BY <1>1, <1>7, Begun

\* The key of what is in place.
LEMMA PairOfOneKey ==
  ASSUME DeskAssumption, KeysInv, S!Pair
  PROVE  /\ dir["secret"] \in Nat /\ dir["public"] = dir["secret"]
         /\ OfKey(dir["secret"]) /\ PairFiles(dir["secret"])
<1>1. PICK k \in Nat : PairFiles(k) /\ OfKey(k)
  BY DEF KeysInv, OneKey
<1>2. dir["secret"] = k /\ dir["public"] = k
  BY <1>1 DEF OfKey, S!Pair
<1> QED
  BY <1>1, <1>2

LEMMA KeygenAgainBegins ==
  ASSUME DeskAssumption, KeysInv, S!KeygenAgain
  PROVE  KeysInv'
<1> DEFINE t == << <<"sync_dir">> >> \o S!Report
           k == dir["secret"]
<1>1. /\ S!Pair /\ stage["keygen"] = None /\ run' = [op |-> "keygen", is |-> k, todo |-> t]
      /\ UNCHANGED <<dir, stage, disk, message, keys, given, cuts>>
  BY DEF S!KeygenAgain, S!Begin, S!PairStage
<1>2. k \in Nat /\ dir["public"] = k /\ OfKey(k) /\ PairFiles(k)
  BY <1>1, PairOfOneKey
<1>3. Sequel(t, "keygen") /\ Kinds(t) = {"sync_dir", "report"}
  BY AgainProgram
<1> HIDE DEF t, k
<1>4. \A i \in 1 .. Len(t) : t[i][1] \in {"sync_dir", "report"}
  BY <1>3 DEF Kinds
<1>5. MakesAgain(t) /\ \A i \in 1 .. Len(t) : t[i][1] # "promote"
  BY <1>4 DEF MakesAgain, Filing
<1>6. \A n \in {"secret", "public"} : dir[n] = k /\ "sync_dir" \in Kinds(t)
  BY <1>2, <1>3 DEF k
<1> QED
  BY <1>1, <1>2, <1>3, <1>5, <1>6, KeygenBegun DEF KeysInv, KeyTypes

LEMMA KeygenTidyBegins ==
  ASSUME DeskAssumption, KeysInv, S!KeygenTidy
  PROVE  KeysInv'
<1> DEFINE t == (S!Synced \o S!Erase("keygen")) \o S!Report
           k == dir["secret"]
<1>1. /\ S!Pair /\ stage["keygen"] # None /\ run' = [op |-> "keygen", is |-> k, todo |-> t]
      /\ UNCHANGED <<dir, stage, disk, message, keys, given, cuts>>
  BY DEF S!KeygenTidy, S!Begin, S!PairStage
<1>2. k \in Nat /\ dir["public"] = k /\ OfKey(k) /\ PairFiles(k)
  BY <1>1, PairOfOneKey
<1>3. /\ Sequel(t, "keygen") /\ "sync_dir" \in Kinds(t)
      /\ Kinds(t) \subseteq {"sync_dir", "sync_stage", "unlink", "rmdir", "report"}
  <2>1. S!Synced \in Seq(DeskSteps) /\ Kinds(S!Synced) = {"sync_stage", "sync_dir"}
    BY PlainPrograms
  <2>2. /\ Sequel(t, "keygen") /\ Kinds(S!Synced) \subseteq Kinds(t)
        /\ Kinds(t) \subseteq {"sync_dir", "sync_stage", "unlink", "rmdir", "report"}
    BY <2>1, ErasingProgram DEF S!Op
  <2> QED
    BY <2>1, <2>2
<1> HIDE DEF t, k
<1>4. MakesAgain(t) /\ \A i \in 1 .. Len(t) : t[i][1] # "promote"
  BY <1>1, <1>3 DEF MakesAgain, Kinds
<1>5. \A n \in {"secret", "public"} : dir[n] = k /\ "sync_dir" \in Kinds(t)
  BY <1>2, <1>3 DEF k
<1> QED
  BY <1>1, <1>2, <1>3, <1>4, <1>5, KeygenBegun DEF KeysInv, KeyTypes

\* What is recovered is the key of the leftovers.
LEMMA RecoveredKey ==
  ASSUME DeskAssumption, KeysInv, stage["keygen"] # None, S!Recovered \notin {None, Torn}
  PROVE  S!Recovered \in Nat /\ OfKey(S!Recovered) /\ PairFiles(S!Recovered)
<1>1. PICK k \in Nat : PairFiles(k) /\ OfKey(k)
  BY DEF KeysInv, OneKey
<1>2. S!Recovered = S!Amiss /\ S!Source("secret") \notin {None, Torn}
  BY DEF S!Recovered
<1>3. \A n \in S!Leaf : stage["keygen"][n] \in {None, Torn, S!Content(n, k)}
  BY <1>1 DEF PairFiles
<1>4. S!Source("secret") = k
  <2>1. stage["keygen"]["secret"] \in {None, Torn, k} /\ dir["secret"] \in {None, k}
    BY <1>1, <1>3 DEF OfKey, S!Leaf, S!Final, S!Content
  <2> QED
    BY <1>2, <2>1 DEF S!Source, S!PairStage
<1>5. \A n \in {"OWNER", "REQUEST", "READY"} :
        S!PairStage[n] # S!Content(n, S!Source("secret")) => S!PairStage[n] \in {None, Torn}
  BY <1>3, <1>4 DEF S!PairStage, S!Leaf
<1>6. S!Amiss \in {None, Torn, S!Source("secret")}
  BY <1>5 DEF S!Amiss
<1> QED
  BY <1>1, <1>2, <1>4, <1>6

LEMMA KeygenResumeBegins ==
  ASSUME DeskAssumption, KeysInv, S!KeygenResume
  PROVE  KeysInv'
<1> DEFINE t == S!Synced \o S!PublishPair
           k == S!Recovered
<1>1. /\ stage["keygen"] # None /\ k \notin {None, Torn}
      /\ run' = [op |-> "keygen", is |-> k, todo |-> t]
      /\ UNCHANGED <<dir, stage, disk, message, keys, given, cuts>>
  BY DEF S!KeygenResume, S!Begin, S!PairStage
<1>2. k \in Nat /\ OfKey(k) /\ PairFiles(k)
  BY <1>1, RecoveredKey
<1>3. /\ Sequel(t, "keygen") /\ InOrder(t) /\ Promotes(t, "secret") /\ Promotes(t, "public")
      /\ \A i \in 1 .. Len(t) : t[i][1] = "promote" => Since(t, i, "sync_dir")
  BY ResumeProgram
<1> HIDE DEF t, k
<1>4. MakesAgain(t)
  BY <1>1 DEF MakesAgain
<1>5. \A i \in 1 .. Len(t) :
        t[i][1] = "promote" =>
          /\ t[i][2] = "secret" /\ dir["secret"] # None => Since(t, i, "sync_dir")
          /\ t[i][2] = "public" =>
               \E j \in 1 .. (i - 1) : t[j][1] = "promote" /\ t[j][2] = "secret"
  BY <1>3 DEF InOrder
<1>6. \A n \in {"secret", "public"} : Promotes(t, n)
  BY <1>3
<1> QED
  BY <1>1, <1>2, <1>3, <1>4, <1>5, <1>6, KeygenBegun DEF KeysInv, KeyTypes

LEMMA KeygenNewBegins ==
  ASSUME DeskAssumption, KeysInv, S!KeygenNew
  PROVE  KeysInv'
<1> DEFINE p == IF stage["keygen"] = None THEN << >> ELSE S!Erase("keygen")
           t == (p \o << <<"mkdir">> >>) \o S!PublishPair
           k == keys + 1
<1>1. /\ dir["secret"] = None /\ dir["public"] = None /\ keys' = k
      /\ run' = [op |-> "keygen", is |-> k, todo |-> t]
      /\ UNCHANGED <<dir, stage, disk, message, given, cuts>>
  BY DEF S!KeygenNew, S!Begin, S!PairStage, S!NoPair
<1>2. k \in Nat /\ OfKey(k)
  BY <1>1 DEF KeysInv, KeyTypes, OfKey
<1>3. /\ Sequel(t, "keygen") /\ "mkdir" \in Kinds(t) /\ InOrder(t)
      /\ Promotes(t, "secret") /\ Promotes(t, "public")
      /\ p = << >> => \A j \in 1 .. Len(t) : t[j][1] \in Filing => Since(t, j, "mkdir")
  <2>1. /\ Sequel(S!PublishPair, "keygen") /\ "mkdir" \notin Kinds(S!PublishPair)
        /\ InOrder(S!PublishPair)
        /\ Promotes(S!PublishPair, "secret") /\ Promotes(S!PublishPair, "public")
    BY PublishPairProgram
  <2>2. p \in {<< >>, S!Erase("keygen")} /\ "keygen" \in S!Op
    BY DEF S!Op
  <2> HIDE DEF p
  <2>3. /\ Sequel(t, "keygen") /\ "mkdir" \in Kinds(t)
        /\ \A n : Promotes(S!PublishPair, n) => Promotes(t, n)
        /\ InOrder(S!PublishPair) => InOrder(t)
        /\ p = << >> => \A j \in 1 .. Len(t) : t[j][1] \in Filing => Since(t, j, "mkdir")
    BY <2>1, <2>2, NewProgram
  <2> QED
    BY <2>1, <2>3
<1>4. stage["keygen"] = None => p = << >>
  OBVIOUS
<1> HIDE DEF t, k, p
<1>5. MakesAgain(t)
  BY <1>3, <1>4 DEF MakesAgain
<1>6. \A i \in 1 .. Len(t) :
        t[i][1] = "promote" =>
          /\ t[i][2] = "secret" /\ dir["secret"] # None => Since(t, i, "sync_dir")
          /\ t[i][2] = "public" =>
               \E j \in 1 .. (i - 1) : t[j][1] = "promote" /\ t[j][2] = "secret"
  BY <1>1, <1>3 DEF InOrder
<1>7. \A n \in {"secret", "public"} : Promotes(t, n)
  BY <1>3
<1> QED
  BY <1>1, <1>2, <1>3, <1>5, <1>6, <1>7, KeygenBegun

LEMMA SignBegun ==
  ASSUME KeysInv, NEW t, NEW c \in Nat \X Nat, run' = [op |-> "sign", is |-> c, todo |-> t],
         Sequel(t, "sign"), c[1] = dir["secret"], dir["secret"] = dir["public"], dir["secret"] # None,
         \/ dir["signature"] = None /\ Promotes(t, "signature") /\ Single(t)
         \/ dir["signature"] = c /\ "promote" \notin Kinds(t) /\ "sync_dir" \in Kinds(t),
         UNCHANGED <<dir, stage, disk, message, keys, given, cuts>>
  PROVE  KeysInv'
<1>1. /\ DOMAIN run' = {"op", "is", "todo"} /\ run'.op = "sign" /\ run'.is = c /\ run'.todo = t
  OBVIOUS
<1>2. Single(t) /\ (Promotes(t, "signature") => dir["signature"] = None)
  BY DEF Promotes, Single, Kinds
<1>3. Single(run.todo)' /\ (Promotes(run.todo, "signature")' => dir'["signature"] = None)
  BY <1>1, <1>2 DEF Single, Promotes
<1>4. Lands(run.todo, "signature")'
  <2>1. \/ Promotes(run'.todo, "signature")
        \/ dir'["signature"] = run'.is /\ "sync_dir" \in Kinds(run'.todo)
    BY <1>1
  <2> QED
    BY <2>1 DEF Lands, Promotes, Kinds
<1>5. SignRun'
  BY <1>1, <1>3, <1>4 DEF SignRun
<1> QED
  BY <1>1, <1>5, Begun DEF KeysInv, KeyTypes

LEMMA PayloadFacts ==
  ASSUME DeskAssumption, KeysInv, S!MaySign
  PROVE  /\ S!Payload \in Nat \X Nat /\ S!Payload[1] = dir["secret"]
         /\ dir["secret"] = dir["public"] /\ dir["secret"] # None
<1>1. dir["secret"] \in Nat /\ dir["public"] = dir["secret"] /\ dir["secret"] # None
  BY PairOfOneKey DEF S!MaySign, S!Pair
<1>2. message \in Nat
  BY DEF KeysInv, KeyTypes
<1> QED
  BY <1>1, <1>2 DEF S!Payload

LEMMA SignAgainBegins ==
  ASSUME DeskAssumption, KeysInv, S!SignAgain
  PROVE  KeysInv'
<1> DEFINE sync == << <<"sync_dir">> >>
           e == IF stage["sign"] # None /\ stage["sign"]["OWNER"] = Owner
                THEN S!Erase("sign") ELSE << >>
           t == (sync \o e) \o S!Report
           c == S!Payload
<1>1. /\ S!MaySign /\ dir["signature"] = c
      /\ run' = [op |-> "sign", is |-> c, todo |-> t]
      /\ UNCHANGED <<dir, stage, disk, message, keys, given, cuts>>
  BY DEF S!SignAgain, S!Begin, S!SignStage
<1>2. /\ c \in Nat \X Nat /\ c[1] = dir["secret"] /\ dir["secret"] = dir["public"]
      /\ dir["secret"] # None
  BY <1>1, PayloadFacts
<1>3. sync \in Seq(DeskSteps) /\ Kinds(sync) = {"sync_dir"}
  BY PlainPrograms
<1>4. Sequel(t, "sign") /\ "sync_dir" \in Kinds(t) /\ "promote" \notin Kinds(t)
  <2>1. CASE e = S!Erase("sign")
    <3>1. /\ Sequel((sync \o S!Erase("sign")) \o S!Report, "sign")
          /\ Kinds(sync) \subseteq Kinds((sync \o S!Erase("sign")) \o S!Report)
          /\ Kinds((sync \o S!Erase("sign")) \o S!Report)
               \subseteq {"sync_dir", "sync_stage", "unlink", "rmdir", "report"}
      BY <1>3, ErasingProgram DEF S!Op
    <3>2. t = (sync \o S!Erase("sign")) \o S!Report
      BY <2>1
    <3> HIDE DEF t, e, sync
    <3> QED
      BY <1>3, <3>1, <3>2
  <2>2. CASE e = << >>
    <3>1. sync \o << >> = sync
      BY <1>3
    <3>2. t = sync \o S!Report
      BY <2>2, <3>1
    <3>3. Sequel(sync \o S!Report, "sign") /\ Kinds(sync \o S!Report) = {"sync_dir", "report"}
      BY AgainProgram
    <3> HIDE DEF t, e, sync
    <3> QED
      BY <3>2, <3>3
  <2> QED
    BY <2>1, <2>2
<1> HIDE DEF t, c
<1> QED
  BY <1>1, <1>2, <1>4, SignBegun

LEMMA SignNewBegins ==
  ASSUME DeskAssumption, KeysInv, S!SignNew
  PROVE  KeysInv'
<1> DEFINE mk == << <<"mkdir">> >>
           q == S!PublishSignature
           c == S!Payload
<1>1. /\ S!MaySign /\ dir["signature"] = None
      /\ UNCHANGED <<dir, stage, disk, message, keys, given, cuts>>
  BY DEF S!SignNew
<1>2. PICK p \in {<< >>, mk, S!Erase("sign") \o mk} :
        run' = [op |-> "sign", is |-> c, todo |-> p \o q]
  <2> DEFINE unused == \A n \in {"OWNER", "REQUEST"} : S!SignStage[n] = None
             ours == \A n \in {"OWNER", "REQUEST"} : S!SignStage[n] = S!Content(n, c)
  <2>1. run' = [op |-> "sign", is |-> c, todo |->
                 (CASE S!SignStage = None -> mk
                    [] S!SignStage # None /\ (unused \/ ours) -> << >>
                    [] OTHER -> S!Erase("sign") \o mk) \o q]
    BY DEF S!SignNew, S!Begin
  <2> HIDE DEF unused, ours, mk, q, c
  <2> QED
    BY <2>1
<1>3. /\ c \in Nat \X Nat /\ c[1] = dir["secret"] /\ dir["secret"] = dir["public"]
      /\ dir["secret"] # None
  BY <1>1, PayloadFacts
<1>4. /\ Sequel(q, "sign") /\ "mkdir" \notin Kinds(q) /\ Promotes(q, "signature") /\ Single(q)
      /\ q \in Seq(DeskSteps)
  BY PublishSignatureProgram
<1> HIDE DEF q
<1>5. ASSUME NEW e \in {<< >>, S!Erase("sign")}
      PROVE  LET t == (e \o mk) \o q IN
             Sequel(t, "sign") /\ Promotes(t, "signature") /\ Single(t)
  BY <1>4, <1>5, NewProgram DEF S!Op
<1>6. << >> \o mk = mk /\ << >> \o q = q
  BY <1>4
<1>7. Sequel(p \o q, "sign") /\ Promotes(p \o q, "signature") /\ Single(p \o q)
  <2>1. CASE p = << >>
    BY <1>4, <1>6, <2>1
  <2>2. CASE p = mk
    <3>1. (<< >> \o mk) \o q = p \o q
      BY <1>6, <2>2
    <3>2. LET t == (<< >> \o mk) \o q IN Sequel(t, "sign") /\ Promotes(t, "signature") /\ Single(t)
      BY <1>5
    <3> QED
      BY <3>1, <3>2
  <2>3. CASE p = S!Erase("sign") \o mk
    BY <1>5, <2>3
  <2> QED
    BY <2>1, <2>2, <2>3
<1> DEFINE t == p \o q
<1> HIDE DEF t, c
<1>8. run' = [op |-> "sign", is |-> c, todo |-> t] /\ Sequel(t, "sign")
      /\ Promotes(t, "signature") /\ Single(t)
  BY <1>2, <1>7 DEF t
<1> QED
  BY <1>1, <1>3, <1>8, SignBegun

-----------------------------------------------------------------------------
(* What may happen at any time.                                          *)

LEMMA EditKeeps ==
  ASSUME KeysInv, dir' = dir, stage' = stage, disk' = disk, keys' = keys, given' = given, run' = run,
         message' \in Nat
  PROVE  KeysInv'
<1>1. KeyTypes' /\ OneKey' /\ Lasting' /\ S!SuccessIsDurable'
  BY DEF KeysInv, KeyTypes, OneKey, PairFiles, OfKey, Lasting, S!SuccessIsDurable
<1>2. CASE run = S!Idle
  BY <1>1, <1>2 DEF KeysInv, Running, S!Idle
<1>3. CASE run # S!Idle
  <2>1. DOMAIN run = {"op", "is", "todo"} /\ Sequel(run.todo, run.op) /\ (KeygenRun \/ SignRun)
    BY <1>3 DEF KeysInv, Running
  <2>2. KeygenRun => KeygenRun'
    <3>1. (OfKey(run.is) => OfKey(run.is)') /\ (PairFiles(run.is) => PairFiles(run.is)')
      BY DEF OfKey, PairFiles
    <3>2. MakesAgain(run.todo) => MakesAgain(run.todo)'
      BY DEF MakesAgain, Since
    <3>3. SecretFirst(run.todo) => SecretFirst(run.todo)'
      BY DEF SecretFirst, Since
    <3>4. \A n : Lands(run.todo, n) => Lands(run.todo, n)'
      BY DEF Lands, Promotes, Kinds
    <3> QED
      BY <3>1, <3>2, <3>3, <3>4 DEF KeygenRun, Kinds
  <2>3. SignRun => SignRun'
    BY DEF SignRun, Single, Lands, Promotes, Kinds
  <2> QED
    BY <1>1, <2>1, <2>2, <2>3, RunGoesOn
<1> QED
  BY <1>2, <1>3

\* A cut leaves each file as it is or as it is on the disk, of one key.
LEMMA CutKeeps ==
  ASSUME KeysInv, S!PowerCut
  PROVE  KeysInv'
<1>1. /\ run' = S!Idle /\ UNCHANGED <<message, keys, given>>
      /\ DOMAIN dir' = S!Final /\ \A n \in S!Final : dir'[n] \in {dir[n], disk.dir[n]}
      /\ DOMAIN stage' = S!Op
      /\ stage'["keygen"] # None =>
           /\ stage["keygen"] # None
           /\ stage'["keygen"] = [n \in S!Leaf |-> stage'["keygen"][n]]
           /\ \A n \in S!Leaf :
                stage'["keygen"][n] \in {stage["keygen"][n], disk.stage["keygen"][n]}
      /\ disk' = [dir |-> dir', stage |-> stage']
  <2>1. PICK renames \in SUBSET {n \in S!Final : dir[n] # disk.dir[n]},
             removals \in SUBSET {x \in S!Op \X S!Leaf :
               /\ stage[x[1]] # None
               /\ stage[x[1]][x[2]] # disk.stage[x[1]][x[2]]
               /\ ~(x[2] \in S!Final /\ dir[x[2]] # disk.dir[x[2]])} :
          /\ dir' = [n \in S!Final |-> IF n \in renames THEN disk.dir[n] ELSE dir[n]]
          /\ stage' = [op \in S!Op |-> IF stage[op] = None THEN None ELSE
               [n \in S!Leaf |-> IF n \in renames \/ <<op, n>> \in removals
                                 THEN disk.stage[op][n] ELSE stage[op][n]]]
          /\ disk' = [dir |-> dir', stage |-> stage']
    BY DEF S!PowerCut
  <2>2. run' = S!Idle /\ UNCHANGED <<message, keys, given>>
    BY DEF S!PowerCut
  <2>3. DOMAIN dir' = S!Final /\ \A n \in S!Final : dir'[n] \in {dir[n], disk.dir[n]}
    BY <2>1
  <2>4. /\ DOMAIN stage' = S!Op
        /\ stage'["keygen"] = IF stage["keygen"] = None THEN None ELSE
               [n \in S!Leaf |-> IF n \in renames \/ <<"keygen", n>> \in removals
                                 THEN disk.stage["keygen"][n] ELSE stage["keygen"][n]]
    BY <2>1 DEF S!Op
  <2>5. stage'["keygen"] # None =>
          /\ stage["keygen"] # None
          /\ stage'["keygen"] = [n \in S!Leaf |-> stage'["keygen"][n]]
          /\ \A n \in S!Leaf :
               stage'["keygen"][n] \in {stage["keygen"][n], disk.stage["keygen"][n]}
    BY ONLY <2>4
  <2>6. DOMAIN stage' = S!Op /\ disk' = [dir |-> dir', stage |-> stage']
    BY ONLY <2>1, <2>4
  <2> QED
    BY ONLY <2>2, <2>3, <2>5, <2>6
<1>2. /\ disk'.dir = dir' /\ disk'.stage = stage' /\ DOMAIN disk' = {"dir", "stage"}
  BY <1>1
<1>3. KeyTypes'
  <2>1. stage'["keygen"] # None => DOMAIN stage'["keygen"] = S!Leaf
    BY <1>1
  <2> QED
    BY <1>1, <1>2, <2>1 DEF KeysInv, KeyTypes
<1>4. \A n \in S!Final : disk.dir[n] \in {None, dir[n]}
  BY DEF KeysInv, Lasting
<1>5. /\ \A n \in S!Final : dir'[n] \in {None, dir[n]}
      /\ \A n \in S!Final : disk.dir[n] = dir[n] => dir'[n] = dir[n]
  BY <1>1, <1>4
<1>6. OneKey'
  <2>1. PICK k \in Nat : PairFiles(k) /\ OfKey(k)
    BY DEF KeysInv, OneKey
  <2>2. \A n \in S!Leaf :
          stage'["keygen"] # None => stage'["keygen"][n] \in {None, Torn, S!Content(n, k)}
    BY <1>1, <2>1 DEF PairFiles
  <2>3. PairFiles(k)'
    BY <1>2, <2>2 DEF PairFiles, S!Content
  <2>4. OfKey(k)'
    BY <1>5, <2>1 DEF OfKey, S!Final
  <2> QED
    BY <2>3, <2>4 DEF OneKey
<1>7. Lasting'
  <2>1. ASSUME dir'["public"] # None
        PROVE  dir'["secret"] = dir'["public"] /\ disk'.dir["secret"] = dir'["secret"]
    <3>1. dir'["public"] = dir["public"] /\ dir["public"] # None
      BY <1>5, <2>1 DEF S!Final
    <3>2. dir["secret"] = dir["public"] /\ disk.dir["secret"] = dir["secret"]
      BY <3>1 DEF KeysInv, Lasting
    <3>3. dir'["secret"] = dir["secret"]
      BY <1>5, <3>2 DEF S!Final
    <3> QED
      BY <1>2, <3>1, <3>2, <3>3
  <2>2. ASSUME dir'["signature"] # None
        PROVE  /\ dir'["signature"][1] = dir'["secret"] /\ dir'["secret"] # None
               /\ disk'.dir["secret"] = dir'["secret"]
    <3>1. dir'["signature"] = dir["signature"] /\ dir["signature"] # None
      BY <1>5, <2>2 DEF S!Final
    <3>2. /\ dir["signature"][1] = dir["secret"] /\ dir["secret"] # None
          /\ disk.dir["secret"] = dir["secret"]
      BY <3>1 DEF KeysInv, Lasting
    <3>3. dir'["secret"] = dir["secret"]
      BY <1>5, <3>2 DEF S!Final
    <3> QED
      BY <1>2, <3>1, <3>2, <3>3
  <2> QED
    BY <1>2, <2>1, <2>2 DEF Lasting
<1>8. S!SuccessIsDurable'
  <2>1. \A n \in S!Final : disk.dir[n] # None => disk'.dir[n] = disk.dir[n]
    BY <1>2, <1>4, <1>5
  <2> QED
    BY <1>1, <2>1 DEF KeysInv, S!SuccessIsDurable, S!Final
<1>9. Running'
  BY <1>1 DEF Running, S!Idle
<1> QED
  BY <1>3, <1>6, <1>7, <1>8, <1>9 DEF KeysInv

-----------------------------------------------------------------------------
(* The keys, of the desk.                                                *)

LEMMA KeysAtFirst ==
  ASSUME S!Init
  PROVE  KeysInv
<1>1. /\ dir = [n \in S!Final |-> None] /\ stage = [op \in S!Op |-> None]
      /\ disk = [dir |-> dir, stage |-> stage] /\ message = 0 /\ keys = 0
      /\ given = [op \in S!Op |-> None] /\ run = S!Idle
  BY DEF S!Init
<1>2. stage["keygen"] = None /\ given["keygen"] = None /\ given["sign"] = None
  BY <1>1 DEF S!Op
<1>3. \A n \in S!Final : dir[n] = None /\ disk.dir[n] = None
  BY <1>1
<1>4. KeyTypes
  BY <1>1, <1>2 DEF KeyTypes
<1>5. OneKey
  BY <1>2, <1>3 DEF OneKey, PairFiles, OfKey, S!Final
<1>6. Lasting
  BY <1>3 DEF Lasting, S!Final
<1>7. S!SuccessIsDurable
  BY <1>2 DEF S!SuccessIsDurable
<1> QED
  BY <1>1, <1>4, <1>5, <1>6, <1>7 DEF KeysInv, Running

LEMMA KeysKept ==
  ASSUME DeskAssumption, KeysInv, S!SignNext
  PROVE  KeysInv'
<1>1. CASE S!Keygen
  BY <1>1, KeygenAgainBegins, KeygenTidyBegins, KeygenResumeBegins, KeygenNewBegins DEF S!Keygen
<1>2. CASE S!SignIt
  BY <1>2, SignAgainBegins, SignNewBegins DEF S!SignIt
<1>3. CASE S!Step
  BY <1>3, StepKeeps
<1>4. CASE S!Edit
  <2>1. message' \in Nat
    BY <1>4 DEF S!Edit, KeysInv, KeyTypes
  <2> QED
    BY <1>4, <2>1, EditKeeps DEF S!Edit
<1>5. CASE S!Kill
  BY <1>5, Stopped DEF S!Kill
<1>6. CASE S!PowerCut
  BY <1>6, CutKeeps
<1> QED
  BY <1>1, <1>2, <1>3, <1>4, <1>5, <1>6 DEF S!SignNext

\* For any number of keys, messages and power cuts: no public key without its secret one,
\* no signature without its key, and what keygen and sign reported stays, wherever they
\* were cut and however often: the order of the renames and syncs in publish_pair and
\* publish_signature (sign.rs).
THEOREM KeysStayWhole == FairDesk => []KeysAreWhole
<1> DEFINE Inv == Signing => KeysInv
<1>1. DeskAssumption
  BY DeskAssumption
<1>2. DeskInit => Inv
  BY KeysAtFirst DEF DeskInit, Signing, Bundling, Booting
<1>3. Inv /\ [DeskNext]_deskVars => Inv'
  <2> SUFFICES ASSUME Inv, [DeskNext]_deskVars, Signing' PROVE KeysInv'
    OBVIOUS
  <2>1. CASE SignTurn /\ S!SignNext
    BY <1>1, <2>1, KeysKept DEF SignTurn
  <2>2. CASE MediaTurn /\ M!MediaNext
    BY <2>2 DEF MediaTurn, Signing, Bundling
  <2>3. CASE BootTurn /\ U!Next
    BY <2>3 DEF BootTurn, Signing, Booting
  <2>4. CASE UNCHANGED deskVars
    <3>1. KeysInv /\ UNCHANGED <<dir, stage, disk, message, keys, given, run>>
      BY <2>4 DEF deskVars, ofDesk, ofSign, Signing
    <3>2. message' \in Nat
      BY <3>1 DEF KeysInv, KeyTypes
    <3> QED
      BY <3>1, <3>2, EditKeeps
  <2> QED
    BY <2>1, <2>2, <2>3, <2>4 DEF DeskNext
<1>4. Inv => KeysAreWhole
  BY DEF KeysAreWhole, KeysInv, Lasting, S!PairIsWhole
<1> QED
  BY <1>2, <1>3, <1>4, PTL DEF FairDesk

-----------------------------------------------------------------------------
(***************************************************************************)
(* Boot: where the image that runs is.                                     *)
(***************************************************************************)

RunningAt(s, p) == s[p].efi = session.efi /\ s[p].state = "synced"

Pcs ==
  {"idle", "decide", "drop", "keep", "sync_kept", "clear", "create", "write", "sync_file",
   "rename", "sync_dir", "list_anterior", "order_anterior", "list_atual", "order_atual"}

BootTypes ==
  /\ past \subseteq [U!Place -> U!File] /\ esp \in past /\ wanted \in BootEfi
  /\ session = U!Dead \/ session \in [efi : {"e1", "e2"}, rotated : BOOLEAN,
                                      current : {"atual", "anterior", "path", "unknown"}]
  /\ updater \in [pc : Pcs, novo : BootEfi \cup {"none"},
                  running : {"atual", "anterior", "unknown"}]
  /\ updater.pc = "idle" => updater = U!Resting
  /\ updater.pc # "idle" => updater.novo = wanted /\ U!Up

\* Under the names of the entries no file is ever in part.
WholeOrNone == \A s \in past : \A p \in U!Entry : s[p].state \in {"absent", "synced"}

\* Until the session's rotation, the current image is the one it found.
BeforeRotation ==
  U!Up /\ ~session.rotated =>
    /\ \A s \in past : s["atual"] = esp["atual"]
    /\ session.current \in {"atual", "path"} => RunningAt(esp, "atual")
    /\ session.current = "anterior" => RunningAt(esp, "anterior")

\* After it, it is the package's, which stays what it is until the next boot.
AfterRotation ==
  U!Up /\ session.rotated => esp["atual"].state = "absent" \/ esp["atual"].efi = wanted

Updating ==
  /\ updater.pc = "decide" => updater.running = U!Running
  /\ updater.pc \in {"drop", "keep"} =>
       ~session.rotated /\ session.current # "anterior" /\ RunningAt(esp, "atual")
  /\ updater.pc \in {"sync_kept", "clear", "create", "write", "sync_file", "rename"} =>
       RunningAt(esp, "anterior")
  /\ updater.pc = "sync_file" => esp["novo"] = [efi |-> wanted, state |-> "written"]
  /\ updater.pc = "rename" => esp["novo"] = [efi |-> wanted, state |-> "synced"]

BootInv ==
  BootTypes /\ WholeOrNone /\ U!RunningSurvives /\ BeforeRotation /\ AfterRotation /\ Updating

LEMMA BootFacts ==
  /\ "none" \notin BootEfi /\ {"e1", "e2"} \subseteq BootEfi
  /\ \A e, f \in BootEfi : BootKernel[e] = BootKernel[f] => e = f
  /\ U!Place = {"atual", "anterior", "novo"} /\ U!Entry = {"atual", "anterior"}
BY DEF BootEfi, BootKernel, U!Place, U!Entry

LEMMA BootFile ==
  ASSUME NEW f \in U!File
  PROVE  /\ f = U!NoFile \/ f \in [efi : BootEfi, state : {"empty", "written", "synced", "torn"}]
         /\ f.state # "absent" => f.efi \in BootEfi
         /\ f = [efi |-> f.efi, state |-> f.state]
BY DEF U!File, U!NoFile

LEMMA BootAtFirst ==
  ASSUME U!Init
  PROVE  BootInv
<1>1. PICK start \in BootStarts :
        /\ esp = start.esp /\ past = {start.esp} /\ wanted = start.esp["atual"].efi
        /\ session = [efi |-> start.esp["atual"].efi, current |-> "unknown", rotated |-> FALSE]
        /\ updater = U!Resting
  BY DEF U!Init
<1>2. esp = InstalledImage
  BY <1>1 DEF BootStarts
<1>3. /\ esp \in [U!Place -> U!File] /\ esp["atual"] = [efi |-> "e1", state |-> "synced"]
      /\ esp["anterior"] = U!NoFile
  BY <1>2 DEF InstalledImage, U!Place, U!Entry, U!File, U!NoFile, BootEfi
<1>4. session = [efi |-> "e1", current |-> "unknown", rotated |-> FALSE] /\ past = {esp} /\ wanted = "e1"
  BY <1>1, <1>3
<1>5. BootTypes
  BY <1>1, <1>3, <1>4 DEF BootTypes, U!Resting, Pcs, BootEfi
<1>6. WholeOrNone
  BY <1>3, <1>4 DEF WholeOrNone, U!Entry, U!NoFile
<1>7. U!RunningSurvives
  BY <1>3, <1>4 DEF U!RunningSurvives, U!Entry
<1>8. BeforeRotation /\ AfterRotation
  BY <1>4 DEF BeforeRotation, AfterRotation
<1>9. Updating
  BY <1>1 DEF Updating, U!Resting
<1> QED
  BY <1>5, <1>6, <1>7, <1>8, <1>9 DEF BootInv

\* A boot finds its image under a name, and nothing of the last session is left.
LEMMA Boots ==
  ASSUME NEW o, U!PowerOn(esp', o), past' = {esp'}, esp' \in [U!Place -> U!File],
         \A p \in U!Entry : esp'[p].state \in {"absent", "synced"},
         wanted' = wanted, wanted \in BootEfi, updater' = U!Resting
  PROVE  BootInv'
<1>1. CASE U!Startable(esp', o) = {}
  <2>1. session' = U!Dead
    BY <1>1 DEF U!PowerOn
  <2>2. BootTypes'
    BY <2>1 DEF BootTypes, U!Resting, Pcs
  <2>3. ~U!Up'
    BY <2>1 DEF U!Up
  <2>4. WholeOrNone'
    BY DEF WholeOrNone
  <2>5. (U!RunningSurvives /\ BeforeRotation /\ AfterRotation)'
    BY <2>3 DEF U!RunningSurvives, BeforeRotation, AfterRotation
  <2>6. Updating'
    BY DEF Updating, U!Resting
  <2> QED
    BY <2>2, <2>4, <2>5, <2>6 DEF BootInv
<1>2. CASE U!Startable(esp', o) # {}
  <2>1. PICK p \in U!Startable(esp', o) : \E r \in U!Reports(p, o) :
          session' = [efi |-> esp'[p].efi, current |-> r, rotated |-> FALSE]
    BY <1>2 DEF U!PowerOn
  <2>2. PICK r \in U!Reports(p, o) :
          session' = [efi |-> esp'[p].efi, current |-> r, rotated |-> FALSE]
    BY <2>1
  <2>3. /\ p \in U!Entry /\ esp'[p].efi \in {"e1", "e2"} /\ esp'[p].state = "synced"
        /\ p = "atual" \/ p \in U!Listed(o)
    BY <2>1 DEF U!Startable, U!Works
  <2>4. r \in {"atual", "anterior", "path", "unknown"}
        /\ (r \in {"atual", "path"} => p = "atual") /\ (r = "anterior" => p = "anterior")
    BY <2>2, <2>3 DEF U!Reports, U!Entry
  <2>5. session'.efi = esp'[p].efi /\ session'.current = r /\ session'.rotated = FALSE
    BY <2>2
  <2>6. BootTypes'
    <3>1. session' \in [efi : {"e1", "e2"}, rotated : BOOLEAN,
                        current : {"atual", "anterior", "path", "unknown"}]
      BY <2>2, <2>3, <2>4
    <3> QED
      BY <3>1 DEF BootTypes, U!Resting, Pcs
  <2>7. WholeOrNone'
    BY DEF WholeOrNone
  <2>8. U!RunningSurvives'
    BY <2>3, <2>5 DEF U!RunningSurvives
  <2>9. BeforeRotation'
    BY <2>3, <2>4, <2>5 DEF BeforeRotation, RunningAt
  <2>10. AfterRotation'
    BY <2>5 DEF AfterRotation
  <2>11. Updating'
    BY DEF Updating, U!Resting
  <2> QED
    BY <2>6, <2>7, <2>8, <2>9, <2>10, <2>11 DEF BootInv
<1> QED
  BY <1>1, <1>2

LEMMA RebootKeeps ==
  ASSUME BootInv, U!Reboot
  PROVE  BootInv'
<1>1. PICK o : U!PowerOn(esp, o)
  BY DEF U!Reboot
<1>2. esp' = esp /\ past' = {esp} /\ wanted' = wanted /\ updater' = U!Resting
  BY DEF U!Reboot
<1>3. esp \in [U!Place -> U!File] /\ wanted \in BootEfi
      /\ \A p \in U!Entry : esp[p].state \in {"absent", "synced"}
  BY DEF BootInv, BootTypes, WholeOrNone
<1>4. U!PowerOn(esp', o)
  BY <1>1, <1>2
<1> QED
  BY <1>2, <1>3, <1>4, Boots

\* What a power cut leaves of the names of the entries is what they were.
LEMMA CutLeaves ==
  ASSUME BootInv, NEW s \in past
  PROVE  /\ U!TornImages(s) \in [U!Place -> U!File]
         /\ \A p \in U!Entry : U!TornImages(s)[p] = s[p] /\ s[p].state \in {"absent", "synced"}
<1>1. s \in [U!Place -> U!File] /\ \A p \in U!Entry : s[p].state \in {"absent", "synced"}
  BY DEF BootInv, BootTypes, WholeOrNone
<1>2. ASSUME NEW p \in U!Place, s[p].state = "written" PROVE [s[p] EXCEPT !.state = "torn"] \in U!File
  <2>1. s[p] \in [efi : BootEfi, state : {"empty", "written", "synced", "torn"}]
    BY <1>1, <1>2 DEF U!File, U!NoFile
  <2> QED
    BY <2>1 DEF U!File
<1>3. U!TornImages(s) \in [U!Place -> U!File]
  BY <1>1, <1>2 DEF U!TornImages
<1>4. \A p \in U!Entry : U!TornImages(s)[p] = s[p]
  BY <1>1, BootFacts DEF U!TornImages
<1> QED
  BY <1>1, <1>3, <1>4

LEMMA PowerCutKeeps ==
  ASSUME BootInv, U!PowerCut
  PROVE  BootInv'
<1>1. PICK s \in past : esp' = U!TornImages(s) /\ past' = {esp'} /\ U!PowerOn(esp', order)
  BY DEF U!PowerCut
<1>2. wanted' = wanted /\ updater' = U!Resting /\ wanted \in BootEfi
  BY DEF U!PowerCut, BootInv, BootTypes
<1>3. esp' \in [U!Place -> U!File] /\ \A p \in U!Entry : esp'[p].state \in {"absent", "synced"}
  BY <1>1, CutLeaves
<1> QED
  BY <1>1, <1>2, <1>3, Boots

\* What changes neither the partition nor the session.
LEMMA NothingMoves ==
  ASSUME BootInv, esp' = esp, past' \in {past, {esp}}, session' = session,
         wanted' = wanted \/ (wanted' \in BootEfi /\ ~session.rotated),
         BootTypes', Updating'
  PROVE  BootInv'
<1>1. \A s \in past' : s \in past
  BY DEF BootInv, BootTypes
<1>2. WholeOrNone'
  BY <1>1 DEF BootInv, WholeOrNone
<1>3. U!Up' <=> U!Up
  BY DEF U!Up, U!Dead
<1>4. U!RunningSurvives'
  BY <1>1, <1>3 DEF BootInv, U!RunningSurvives
<1>5. BeforeRotation'
  BY <1>1, <1>3 DEF BootInv, BeforeRotation, RunningAt
<1>6. AfterRotation'
  BY <1>3 DEF BootInv, AfterRotation
<1> QED
  BY <1>2, <1>4, <1>5, <1>6 DEF BootInv

\* What changes the temporary only.
LEMMA TemporaryMoves ==
  ASSUME BootInv, NEW f \in U!File, esp' = [esp EXCEPT !["novo"] = f], past' = past \cup {esp'},
         session' = session, wanted' = wanted, updater'.pc \in Pcs,
         updater' = [updater EXCEPT !.pc = updater'.pc],
         updater.pc # "idle", updater'.pc # "idle", Updating'
  PROVE  BootInv'
<1>1. /\ past \subseteq [U!Place -> U!File] /\ esp \in past /\ esp \in [U!Place -> U!File]
      /\ wanted \in BootEfi
  BY DEF BootInv, BootTypes
<1>2. /\ esp' \in [U!Place -> U!File]
      /\ \A p \in U!Entry : esp'[p] = esp[p]
  <2>1. esp' \in [U!Place -> U!File]
    BY <1>1
  <2>2. \A p \in U!Entry : p \in U!Place /\ p # "novo"
    BY BootFacts
  <2> QED
    BY <1>1, <2>1, <2>2
<1>3. U!Up' <=> U!Up
  BY DEF U!Up, U!Dead
<1>4. \A s \in past' : \E t \in past : \A p \in U!Entry : s[p] = t[p]
  <2> SUFFICES ASSUME NEW s \in past' PROVE \E t \in past : \A p \in U!Entry : s[p] = t[p]
    OBVIOUS
  <2>1. CASE s \in past
    BY <2>1
  <2>2. CASE s = esp'
    BY <1>1, <1>2, <2>2
  <2> QED
    BY <2>1, <2>2
<1>5. BootTypes'
  <2>1. updater' \in [pc : Pcs, novo : BootEfi \cup {"none"}, running : {"atual", "anterior", "unknown"}]
        /\ updater'.novo = updater.novo
    BY DEF BootInv, BootTypes
  <2>2. updater.novo = wanted /\ U!Up
    BY DEF BootInv, BootTypes
  <2>3. session' = U!Dead \/ session' \in [efi : {"e1", "e2"}, rotated : BOOLEAN,
                                      current : {"atual", "anterior", "path", "unknown"}]
    BY DEF BootInv, BootTypes
  <2>4. past' \subseteq [U!Place -> U!File] /\ esp' \in past' /\ wanted' \in BootEfi
    BY <1>1, <1>2
  <2>5. (updater'.pc = "idle" => updater' = U!Resting)
        /\ (updater'.pc # "idle" => updater'.novo = wanted' /\ U!Up')
    BY <1>3, <2>1, <2>2
  <2> QED
    BY ONLY <2>1, <2>3, <2>4, <2>5 DEF BootTypes, U!Dead, U!Resting, U!Up
<1>6. WholeOrNone'
  BY <1>4 DEF BootInv, WholeOrNone
<1>7. U!RunningSurvives'
  BY <1>3, <1>4 DEF BootInv, U!RunningSurvives
<1>8. BeforeRotation'
  BY <1>2, <1>3, <1>4, BootFacts DEF BootInv, BeforeRotation, RunningAt
<1>9. AfterRotation'
  BY <1>2, <1>3, BootFacts DEF BootInv, AfterRotation
<1> QED
  BY <1>5, <1>6, <1>7, <1>8, <1>9 DEF BootInv

LEMMA RestKept ==
  ASSUME BootInv, esp' = esp, past' = past, session' = session, wanted' = wanted,
         updater' = U!Resting
  PROVE  BootInv'
<1>1. BootTypes'
  BY DEF BootInv, BootTypes, U!Resting, Pcs, U!Dead, U!Up
<1>2. Updating'
  BY DEF Updating, U!Resting
<1> QED
  BY <1>1, <1>2, NothingMoves

LEMMA ReleaseKeeps ==
  ASSUME BootInv, U!Release
  PROVE  BootInv'
<1>1. /\ esp' = esp /\ past' = past /\ session' = session /\ updater' = updater
      /\ updater = U!Resting /\ ~session.rotated
  BY DEF U!Release, U!disk
<1>2. wanted' \in BootEfi
  BY DEF U!Release
<1>3. BootTypes'
  BY <1>1, <1>2 DEF BootInv, BootTypes, U!Resting, Pcs, U!Dead, U!Up
<1>4. Updating'
  BY <1>1 DEF Updating, U!Resting
<1> QED
  BY <1>1, <1>2, <1>3, <1>4, NothingMoves

\* What Running may say.
LEMMA RunningTypes ==
  ASSUME BootInv, U!Up
  PROVE  U!Running \in {"atual", "anterior", "unknown"}
<1>1. session.current \in {"atual", "anterior", "path", "unknown"}
  BY DEF BootInv, BootTypes, U!Up
<1> QED
  BY <1>1, BootFacts DEF U!Running

LEMMA StartKeeps ==
  ASSUME BootInv, U!Start
  PROVE  BootInv'
<1>1. /\ esp' = esp /\ past' = past /\ session' = session /\ wanted' = wanted /\ U!Up
      /\ updater' = [pc |-> "decide", novo |-> wanted, running |-> U!Running]
  BY DEF U!Start, U!disk, U!At
<1>2. BootTypes'
  BY <1>1, RunningTypes DEF BootInv, BootTypes, U!Resting, Pcs, U!Dead, U!Up
<1>3. U!Running' = U!Running
  BY <1>1 DEF U!Running, U!Carries, U!Present
<1>4. Updating'
  BY <1>1, <1>3 DEF Updating
<1> QED
  BY <1>1, <1>2, <1>4, NothingMoves

\* A step of boot-update goes on at another step.
LEMMA GoesOn ==
  ASSUME BootInv, NEW k \in Pcs, updater.pc # "idle", U!Goto(k), session' = session, wanted' = wanted
  PROVE  /\ updater'.pc = k /\ updater'.running = updater.running /\ updater'.novo = wanted
         /\ updater.novo = wanted /\ U!Up
         /\ updater' \in [pc : Pcs, novo : BootEfi \cup {"none"}, running : {"atual", "anterior", "unknown"}]
         /\ updater' = [updater EXCEPT !.pc = k]
BY DEF BootInv, BootTypes, U!Goto

LEMMA OnTypes ==
  ASSUME BootInv, NEW k \in Pcs, k # "idle", updater.pc # "idle", U!Goto(k),
         session' = session, wanted' = wanted, esp' = esp, past' \in {past, {esp}}
  PROVE  BootTypes'
<1>1. /\ updater'.pc = k /\ updater'.novo = wanted' /\ U!Up
      /\ updater' \in [pc : Pcs, novo : BootEfi \cup {"none"}, running : {"atual", "anterior", "unknown"}]
  BY GoesOn
<1>2. /\ past' \subseteq [U!Place -> U!File] /\ esp' \in past' /\ wanted' \in BootEfi
      /\ session' = U!Dead \/ session' \in [efi : {"e1", "e2"}, rotated : BOOLEAN,
                                      current : {"atual", "anterior", "path", "unknown"}]
  BY DEF BootInv, BootTypes
<1>3. U!Up'
  BY <1>1 DEF U!Up, U!Dead
<1> QED
  BY <1>1, <1>2, <1>3 DEF BootTypes, U!Dead, U!Up

\* Where the image that runs is, when the previous one may go and when not.
LEMMA Spared ==
  ASSUME BootInv, U!Up, updater.running = U!Running, updater.novo = wanted, ~U!AlreadyCurrent
  PROVE  /\ U!SpareRunning => RunningAt(esp, "anterior")
         /\ ~U!SpareRunning =>
              ~session.rotated /\ session.current # "anterior" /\ RunningAt(esp, "atual")
<1> DEFINE r == session.efi
<1>1. /\ esp \in past /\ esp \in [U!Place -> U!File] /\ r \in BootEfi
      /\ session.current \in {"atual", "anterior", "path", "unknown"} /\ session.rotated \in BOOLEAN
  BY BootFacts DEF BootInv, BootTypes, U!Up
<1>2. /\ esp["atual"].state \in {"absent", "synced"} /\ esp["anterior"].state \in {"absent", "synced"}
      /\ esp["atual"] \in U!File /\ esp["anterior"] \in U!File
  BY <1>1, BootFacts DEF BootInv, WholeOrNone
<1>3. RunningAt(esp, "atual") \/ RunningAt(esp, "anterior")
  BY <1>1, BootFacts DEF BootInv, U!RunningSurvives, RunningAt
<1>4. /\ U!Carries("atual") => RunningAt(esp, "atual")
      /\ U!Carries("anterior") => RunningAt(esp, "anterior")
  BY <1>1, <1>2, BootFacts, BootFile DEF U!Carries, RunningAt
<1>5. /\ RunningAt(esp, "atual") => U!Carries("atual")
      /\ RunningAt(esp, "anterior") => U!Carries("anterior")
  BY DEF U!Carries, RunningAt
<1>6. session.rotated => ~U!Present(esp, "atual")
  BY <1>2 DEF BootInv, AfterRotation, U!AlreadyCurrent, U!Present
<1>7. RunningAt(esp, "atual") => U!Present(esp, "atual")
  BY DEF RunningAt, U!Present
<1>8. ~session.rotated =>
        /\ session.current \in {"atual", "path"} => RunningAt(esp, "atual")
        /\ session.current = "anterior" => RunningAt(esp, "anterior")
  BY DEF BootInv, BeforeRotation
<1>9. U!SpareRunning <=> U!Running = "anterior" \/ ~U!Present(esp, "atual")
  BY DEF U!SpareRunning
<1>10. CASE session.rotated
  BY <1>3, <1>6, <1>7, <1>9, <1>10
<1>11. CASE ~session.rotated
  <2>1. CASE session.current = "path"
    <3>1. U!Running = "atual"
      BY <2>1 DEF U!Running, U!Entry
    <3> QED
      BY <1>7, <1>8, <1>9, <1>11, <2>1, <3>1
  <2>2. CASE session.current = "atual"
    <3>1. U!Running = "atual"
      BY <2>2 DEF U!Running, U!Entry
    <3> QED
      BY <1>7, <1>8, <1>9, <1>11, <2>2, <3>1
  <2>3. CASE session.current = "anterior"
    <3>1. U!Running = "anterior"
      BY <2>3 DEF U!Running, U!Entry
    <3> QED
      BY <1>8, <1>9, <1>11, <2>3, <3>1
  <2>4. CASE session.current = "unknown"
    <3>1. U!Running = IF U!Carries("atual") THEN "atual"
                      ELSE IF U!Carries("anterior") /\ U!Present(esp, "atual") THEN "anterior"
                      ELSE "unknown"
      BY <2>4 DEF U!Running, U!Entry
    <3> QED
      BY <1>3, <1>4, <1>5, <1>7, <1>9, <1>11, <2>4, <3>1
  <2> QED
    BY <1>1, <2>1, <2>2, <2>3, <2>4
<1> QED
  BY <1>10, <1>11

LEMMA DecideKeeps ==
  ASSUME BootInv, U!Decide
  PROVE  BootInv'
<1>1. /\ esp' = esp /\ past' = past /\ session' = session /\ wanted' = wanted
      /\ U!Up /\ updater.pc = "decide"
  BY DEF U!Decide, U!disk, U!Rest, U!At
<1>2. updater.novo = wanted /\ updater.running = U!Running
  BY <1>1 DEF BootInv, BootTypes, Updating
<1>3. ASSUME NEW k \in {"list_anterior", "clear", "drop", "keep"}, U!Goto(k),
             k = "clear" => U!SpareRunning /\ ~U!AlreadyCurrent,
             k \in {"drop", "keep"} => ~U!SpareRunning /\ ~U!AlreadyCurrent
      PROVE  BootInv'
  <2>1. k \in Pcs /\ k # "idle"
    BY DEF Pcs
  <2>2. BootTypes' /\ updater'.pc = k
    BY <1>1, <1>3, <2>1, GoesOn, OnTypes
  <2>3. /\ k = "clear" => RunningAt(esp, "anterior")
        /\ k \in {"drop", "keep"} =>
             ~session.rotated /\ session.current # "anterior" /\ RunningAt(esp, "atual")
    BY <1>1, <1>2, <1>3, Spared
  <2>4. Updating'
    BY <1>1, <2>2, <2>3 DEF Updating, RunningAt
  <2> QED
    BY <1>1, <2>2, <2>4, NothingMoves
<1>4. CASE U!AlreadyCurrent /\ U!Goto("list_anterior")
  BY <1>3, <1>4
<1>5. CASE ~U!AlreadyCurrent /\ U!SpareRunning /\ U!Goto("clear")
  BY <1>3, <1>5
<1>6. CASE ~U!AlreadyCurrent /\ ~U!SpareRunning /\ U!Goto("drop")
  BY <1>3, <1>6
<1>7. CASE ~U!AlreadyCurrent /\ ~U!SpareRunning /\ U!Goto("keep")
  BY <1>3, <1>7
<1> QED
  BY <1>4, <1>5, <1>6, <1>7 DEF U!Decide

LEMMA SyncKeeps ==
  ASSUME BootInv,
         U!Sync("sync_kept", "clear") \/ U!Sync("sync_dir", "list_anterior")
  PROVE  BootInv'
<1>1. /\ esp' = esp /\ past' = {esp} /\ session' = session /\ wanted' = wanted
      /\ U!Up /\ updater.pc \in {"sync_kept", "sync_dir"}
  BY DEF U!Sync, U!Rest, U!At
<1>2. PICK k \in {"clear", "list_anterior"} : U!Goto(k) /\ (k = "clear" => updater.pc = "sync_kept")
  BY DEF U!Sync, U!At
<1>3. k \in Pcs /\ k # "idle" /\ updater.pc # "idle"
  BY <1>1 DEF Pcs
<1>4. BootTypes' /\ updater'.pc = k
  BY <1>1, <1>2, <1>3, GoesOn, OnTypes
<1>5. k = "clear" => RunningAt(esp, "anterior")
  BY <1>2 DEF BootInv, Updating
<1>6. Updating'
  BY <1>1, <1>4, <1>5 DEF Updating, RunningAt
<1> QED
  BY <1>1, <1>4, <1>6, NothingMoves

LEMMA ListingSteps ==
  ASSUME NEW e \in U!Entry, U!ListVariable(e) \/ U!ListOrder(e)
  PROVE  /\ updater.pc \in {"list_anterior", "list_atual", "order_anterior", "order_atual"} /\ U!Up
         /\ \/ updater' = U!Resting
            \/ \E k \in {"order_anterior", "order_atual", "list_atual"} : U!Goto(k)
<1>1. U!ListOf["anterior"] = "list_anterior" /\ U!ListOf["atual"] = "list_atual"
  BY DEF U!ListOf
<1>2. U!OrderOf["anterior"] = "order_anterior" /\ U!OrderOf["atual"] = "order_atual"
  BY DEF U!OrderOf
<1>3. e = "anterior" \/ e = "atual"
  BY BootFacts
<1>4. CASE U!ListVariable(e)
  <2>1. U!Up /\ updater.pc = U!ListOf[e] /\ (U!Goto(U!OrderOf[e]) \/ U!Goto("list_atual"))
    BY <1>4 DEF U!ListVariable, U!At
  <2> QED
    BY <1>1, <1>2, <1>3, <2>1
<1>5. CASE U!ListOrder(e)
  <2>1. U!Up /\ updater.pc = U!OrderOf[e]
        /\ updater' = IF e = "atual" THEN U!Resting ELSE [updater EXCEPT !.pc = "list_atual"]
    BY <1>5 DEF U!ListOrder, U!At
  <2> QED
    BY <1>2, <1>3, <2>1 DEF U!Goto
<1> QED
  BY <1>4, <1>5

LEMMA ListingKeeps ==
  ASSUME BootInv, NEW e \in U!Entry, U!ListVariable(e) \/ U!ListOrder(e)
  PROVE  BootInv'
<1>1. esp' = esp /\ past' = past /\ session' = session /\ wanted' = wanted
  BY DEF U!ListVariable, U!ListOrder, U!disk, U!Rest
<1>2. /\ updater.pc \in {"list_anterior", "list_atual", "order_anterior", "order_atual"} /\ U!Up
      /\ \/ updater' = U!Resting
         \/ \E k \in {"order_anterior", "order_atual", "list_atual"} : U!Goto(k)
  BY ListingSteps
<1>3. CASE updater' = U!Resting
  BY <1>1, <1>3, RestKept
<1>4. CASE \E k \in {"order_anterior", "order_atual", "list_atual"} : U!Goto(k)
  <2>1. PICK k \in {"order_anterior", "order_atual", "list_atual"} : U!Goto(k)
    BY <1>4
  <2>2. k \in Pcs /\ k # "idle" /\ updater.pc # "idle"
    BY <1>2 DEF Pcs
  <2>3. BootTypes' /\ updater'.pc = k
    BY <1>1, <2>1, <2>2, GoesOn, OnTypes
  <2>4. Updating'
    BY <2>3 DEF Updating
  <2> QED
    BY <1>1, <2>3, <2>4, NothingMoves
<1> QED
  BY <1>2, <1>3, <1>4

LEMMA StopKeeps ==
  ASSUME BootInv, U!Kill \/ U!NoRoom
  PROVE  BootInv'
<1>1. esp' = esp /\ past' = past /\ session' = session /\ wanted' = wanted /\ updater' = U!Resting
  BY DEF U!Kill, U!NoRoom, U!Refuse, U!Stop, U!disk
<1> QED
  BY <1>1, RestKept

\* The types of a step that moves the entries of the partition.
LEMMA MovedTypes ==
  ASSUME BootInv, NEW k \in Pcs, k # "idle", updater.pc # "idle", U!Goto(k), wanted' = wanted,
         session' = [session EXCEPT !.rotated = session'.rotated], session'.rotated \in BOOLEAN,
         esp' \in [U!Place -> U!File], past' = past \cup {esp'}
  PROVE  /\ BootTypes' /\ updater'.pc = k /\ U!Up /\ U!Up'
         /\ session'.efi = session.efi /\ session'.current = session.current
<1>1. /\ U!Up /\ updater.novo = wanted /\ past \subseteq [U!Place -> U!File] /\ wanted \in BootEfi
      /\ updater \in [pc : Pcs, novo : BootEfi \cup {"none"}, running : {"atual", "anterior", "unknown"}]
      /\ session \in [efi : {"e1", "e2"}, rotated : BOOLEAN,
                      current : {"atual", "anterior", "path", "unknown"}]
  BY DEF BootInv, BootTypes, U!Up
<1>2. /\ session' \in [efi : {"e1", "e2"}, rotated : BOOLEAN,
                      current : {"atual", "anterior", "path", "unknown"}]
      /\ session'.efi = session.efi /\ session'.current = session.current
  BY <1>1
<1>3. U!Up'
  <2>1. session'.efi # "none"
    BY <1>2
  <2> QED
    BY <2>1 DEF U!Up, U!Dead
<1>4. /\ updater'.pc = k /\ updater'.novo = wanted'
      /\ updater' \in [pc : Pcs, novo : BootEfi \cup {"none"}, running : {"atual", "anterior", "unknown"}]
  BY <1>1 DEF U!Goto
<1>5. past' \subseteq [U!Place -> U!File] /\ esp' \in past'
  BY <1>1
<1> QED
  BY <1>1, <1>2, <1>3, <1>4, <1>5 DEF BootTypes

LEMMA DropOldKeeps ==
  ASSUME BootInv, U!DropOld
  PROVE  BootInv'
<1>1. /\ esp' = [esp EXCEPT !["anterior"] = U!NoFile] /\ past' = past \cup {esp'}
      /\ session' = session /\ wanted' = wanted /\ U!Up /\ updater.pc = "drop" /\ U!Goto("keep")
  BY DEF U!DropOld, U!Put, U!Rest, U!At
<1>2. /\ esp \in past /\ esp \in [U!Place -> U!File]
      /\ ~session.rotated /\ session.current # "anterior" /\ RunningAt(esp, "atual")
      /\ session \in [efi : {"e1", "e2"}, rotated : BOOLEAN,
                      current : {"atual", "anterior", "path", "unknown"}]
  BY <1>1 DEF BootInv, BootTypes, Updating, U!Up
<1>3. U!NoFile \in U!File /\ esp' \in [U!Place -> U!File]
  BY <1>1, <1>2 DEF U!File
<1>4. /\ esp'["atual"] = esp["atual"] /\ esp'["anterior"] = U!NoFile
  BY <1>1, <1>2, BootFacts
<1>5. "keep" \in Pcs /\ "keep" # "idle" /\ updater.pc # "idle"
  BY <1>1 DEF Pcs
<1>6. session' = [session EXCEPT !.rotated = session'.rotated] /\ session'.rotated \in BOOLEAN
  BY <1>1, <1>2
<1>7. BootTypes' /\ updater'.pc = "keep" /\ U!Up'
  BY <1>1, <1>3, <1>5, <1>6, MovedTypes
<1>8. \A s \in past' : s["atual"] = esp["atual"]
  BY <1>1, <1>2, <1>4 DEF BootInv, BeforeRotation
<1>9. WholeOrNone'
  BY <1>1, <1>2, <1>4, BootFacts DEF BootInv, WholeOrNone, RunningAt, U!NoFile
<1>10. U!RunningSurvives'
  BY <1>1, <1>2, <1>8, BootFacts DEF U!RunningSurvives, RunningAt
<1>11. BeforeRotation'
  BY <1>1, <1>2, <1>4, <1>8 DEF BeforeRotation, RunningAt
<1>12. AfterRotation'
  BY <1>1, <1>2 DEF AfterRotation
<1>13. Updating'
  BY <1>1, <1>2, <1>4, <1>7 DEF Updating, RunningAt
<1> QED
  BY <1>7, <1>9, <1>10, <1>11, <1>12, <1>13 DEF BootInv

LEMMA KeepKeeps ==
  ASSUME BootInv, U!Keep
  PROVE  BootInv'
<1>1. /\ esp' = [esp EXCEPT !["anterior"] = esp["atual"], !["atual"] = U!NoFile]
      /\ past' = past \cup {esp'} /\ session' = [session EXCEPT !.rotated = TRUE]
      /\ wanted' = wanted /\ U!Up /\ updater.pc = "keep" /\ U!Goto("sync_kept")
  BY DEF U!Keep, U!At
<1>2. /\ esp \in past /\ esp \in [U!Place -> U!File]
      /\ ~session.rotated /\ RunningAt(esp, "atual")
      /\ session \in [efi : {"e1", "e2"}, rotated : BOOLEAN,
                      current : {"atual", "anterior", "path", "unknown"}]
  BY <1>1 DEF BootInv, BootTypes, Updating, U!Up
<1>3. U!NoFile \in U!File /\ esp["atual"] \in U!File /\ esp' \in [U!Place -> U!File]
  BY <1>1, <1>2, BootFacts DEF U!File
<1>4. /\ esp'["anterior"] = esp["atual"] /\ esp'["atual"] = U!NoFile
  BY <1>1, <1>2, BootFacts
<1>5. "sync_kept" \in Pcs /\ "sync_kept" # "idle" /\ updater.pc # "idle"
  BY <1>1 DEF Pcs
<1>6. session' = [session EXCEPT !.rotated = session'.rotated] /\ session'.rotated = TRUE
  BY <1>1, <1>2
<1>7. BootTypes' /\ updater'.pc = "sync_kept" /\ U!Up' /\ session'.efi = session.efi
  BY <1>1, <1>3, <1>5, <1>6, MovedTypes
<1>8. \A s \in past : s["atual"] = esp["atual"]
  BY <1>1, <1>2 DEF BootInv, BeforeRotation
<1>9. WholeOrNone'
  BY <1>1, <1>2, <1>4, BootFacts DEF BootInv, WholeOrNone, RunningAt, U!NoFile
<1>10. U!RunningSurvives'
  BY <1>1, <1>2, <1>4, <1>7, <1>8, BootFacts DEF U!RunningSurvives, RunningAt
<1>11. BeforeRotation'
  BY <1>6 DEF BeforeRotation
<1>12. AfterRotation'
  BY <1>4 DEF AfterRotation, U!NoFile
<1>13. Updating'
  BY <1>2, <1>4, <1>7 DEF Updating, RunningAt
<1> QED
  BY <1>7, <1>9, <1>10, <1>11, <1>12, <1>13 DEF BootInv

\* The four steps on the temporary.
LEMMA WriteKeeps ==
  ASSUME BootInv, U!ClearTemporary \/ U!Create \/ U!Write \/ U!SyncFile
  PROVE  BootInv'
<1>1. /\ past' = past \cup {esp'} /\ session' = session /\ wanted' = wanted /\ U!Up
      /\ updater.pc \in {"clear", "create", "write", "sync_file"}
  BY DEF U!ClearTemporary, U!Create, U!Write, U!SyncFile, U!Put, U!Rest, U!At
<1>2. /\ esp \in [U!Place -> U!File] /\ RunningAt(esp, "anterior") /\ wanted \in BootEfi
      /\ updater.novo = wanted
      /\ updater.pc = "sync_file" => esp["novo"] = [efi |-> wanted, state |-> "written"]
  BY <1>1 DEF BootInv, BootTypes, Updating
<1>3. ASSUME NEW f \in U!File, NEW k \in {"create", "write", "sync_file", "rename"},
             esp' = [esp EXCEPT !["novo"] = f], U!Goto(k),
             k = "sync_file" => f = [efi |-> wanted, state |-> "written"],
             k = "rename" => f = [efi |-> wanted, state |-> "synced"]
      PROVE  BootInv'
  <2>1. k \in Pcs /\ updater.pc # "idle" /\ k # "idle"
    BY <1>1 DEF Pcs
  <2>2. updater'.pc = k /\ updater' = [updater EXCEPT !.pc = k]
    BY <1>1, <1>3, <2>1, GoesOn
  <2>3. esp'["novo"] = f /\ esp'["anterior"] = esp["anterior"]
    BY <1>2, <1>3, BootFacts
  <2>4. Updating'
    BY <1>1, <1>2, <1>3, <2>2, <2>3 DEF Updating, RunningAt
  <2> QED
    BY <1>1, <1>3, <2>1, <2>2, <2>4, TemporaryMoves
<1>4. CASE U!ClearTemporary
  <2>1. U!NoFile \in U!File /\ esp' = [esp EXCEPT !["novo"] = U!NoFile] /\ U!Goto("create")
    BY <1>4 DEF U!ClearTemporary, U!Put, U!File
  <2> QED
    BY <1>3, <2>1
<1>5. CASE U!Create
  <2> DEFINE f == [efi |-> wanted, state |-> "empty"]
  <2>1. f \in U!File
    BY <1>2 DEF U!File
  <2>2. esp' = [esp EXCEPT !["novo"] = f] /\ U!Goto("write")
    BY <1>2, <1>5 DEF U!Create, U!Put
  <2> QED
    BY <1>3, <2>1, <2>2
<1>6. CASE U!Write
  <2> DEFINE f == [efi |-> wanted, state |-> "written"]
  <2>1. f \in U!File
    BY <1>2 DEF U!File
  <2>2. esp' = [esp EXCEPT !["novo"] = f] /\ U!Goto("sync_file")
    BY <1>2, <1>6 DEF U!Write, U!Put
  <2> QED
    BY <1>3, <2>1, <2>2
<1>7. CASE U!SyncFile
  <2> DEFINE f == [efi |-> wanted, state |-> "synced"]
  <2>1. f \in U!File
    BY <1>2 DEF U!File
  <2>2. esp["novo"] = [efi |-> wanted, state |-> "written"]
    BY <1>2, <1>7 DEF U!SyncFile, U!At
  <2>3. esp' = [esp EXCEPT !["novo"] = f] /\ U!Goto("rename")
    <3>1. /\ esp' = [esp EXCEPT !["novo"] = [esp["novo"] EXCEPT !.state = "synced"]]
          /\ U!Goto("rename")
      BY <1>7 DEF U!SyncFile, U!Put
    <3>2. [esp["novo"] EXCEPT !.state = "synced"] = f
      BY <2>2
    <3> QED
      BY ONLY <3>1, <3>2
  <2> QED
    BY <1>3, <2>1, <2>3
<1> QED
  BY <1>4, <1>5, <1>6, <1>7

LEMMA RenameKeeps ==
  ASSUME BootInv, U!Rename
  PROVE  BootInv'
<1>1. /\ esp' = [esp EXCEPT !["atual"] = esp["novo"], !["novo"] = U!NoFile]
      /\ past' = past \cup {esp'} /\ session' = [session EXCEPT !.rotated = TRUE]
      /\ wanted' = wanted /\ U!Up /\ updater.pc = "rename" /\ U!Goto("sync_dir")
  BY DEF U!Rename, U!At
<1>2. /\ esp \in past /\ esp \in [U!Place -> U!File]
      /\ RunningAt(esp, "anterior") /\ esp["novo"] = [efi |-> wanted, state |-> "synced"]
      /\ session \in [efi : {"e1", "e2"}, rotated : BOOLEAN,
                      current : {"atual", "anterior", "path", "unknown"}]
  BY <1>1 DEF BootInv, BootTypes, Updating, U!Up
<1>3. U!NoFile \in U!File /\ esp["novo"] \in U!File /\ esp' \in [U!Place -> U!File]
  BY <1>1, <1>2, BootFacts DEF U!File
<1>4. /\ esp'["anterior"] = esp["anterior"] /\ esp'["atual"] = esp["novo"]
  BY <1>1, <1>2, BootFacts
<1>5. "sync_dir" \in Pcs /\ "sync_dir" # "idle" /\ updater.pc # "idle"
  BY <1>1 DEF Pcs
<1>6. session' = [session EXCEPT !.rotated = session'.rotated] /\ session'.rotated = TRUE
  BY <1>1, <1>2
<1>7. BootTypes' /\ updater'.pc = "sync_dir" /\ U!Up' /\ session'.efi = session.efi
  BY <1>1, <1>3, <1>5, <1>6, MovedTypes
<1>8. WholeOrNone'
  BY <1>1, <1>2, <1>4, BootFacts DEF BootInv, WholeOrNone, RunningAt
<1>9. U!RunningSurvives'
  BY <1>1, <1>2, <1>4, <1>7, BootFacts DEF BootInv, U!RunningSurvives, RunningAt
<1>10. BeforeRotation'
  BY <1>6 DEF BeforeRotation
<1>11. AfterRotation'
  BY <1>1, <1>2, <1>4 DEF AfterRotation
<1>12. Updating'
  BY <1>7 DEF Updating
<1> QED
  BY <1>7, <1>8, <1>9, <1>10, <1>11, <1>12 DEF BootInv

LEMMA BootStepKeeps ==
  ASSUME BootInv, U!Next
  PROVE  BootInv'
<1>1. CASE U!Reboot
  BY <1>1, RebootKeeps
<1>2. CASE U!PowerCut
  BY <1>2, PowerCutKeeps
<1>3. CASE U!Release
  BY <1>3, ReleaseKeeps
<1>4. CASE U!Start \/ U!Decide
  BY <1>4, StartKeeps, DecideKeeps
<1>5. CASE U!Kill \/ U!NoRoom
  BY <1>5, StopKeeps
<1>6. CASE U!DropOld \/ U!Keep \/ U!Rename
  BY <1>6, DropOldKeeps, KeepKeeps, RenameKeeps
<1>7. CASE U!Sync("sync_kept", "clear") \/ U!Sync("sync_dir", "list_anterior")
  BY <1>7, SyncKeeps
<1>8. CASE U!ClearTemporary \/ U!Create \/ U!Write \/ U!SyncFile
  BY <1>8, WriteKeeps
<1>9. CASE \E e \in U!Entry : U!ListVariable(e) \/ U!ListOrder(e)
  BY <1>9, ListingKeeps
<1> QED
  BY <1>1, <1>2, <1>3, <1>4, <1>5, <1>6, <1>7, <1>8, <1>9 DEF U!Next, U!Step

\* A machine that stops booting had no other name to boot from.
LEMMA LostUnlisted ==
  ASSUME BootInv, U!Next
  PROVE  U!LostOnlyUnlistedStep
<1> SUFFICES ASSUME U!Up, ~U!Up'
             PROVE  /\ "anterior" \notin U!Listed(order')
                    /\ \/ esp'["atual"].state = "absent"
                       \/ esp'["atual"].efi \in BootEfi \ {"e1", "e2"}
  BY DEF U!LostOnlyUnlistedStep
<1>1. /\ past \subseteq [U!Place -> U!File] /\ esp \in past /\ session.efi \in {"e1", "e2"}
  BY DEF BootInv, BootTypes, U!Up
<1>2. ASSUME NEW s \in past, \A p \in U!Entry : esp'[p] = s[p], U!PowerOn(esp', order')
      PROVE  /\ "anterior" \notin U!Listed(order')
             /\ \/ esp'["atual"].state = "absent"
                \/ esp'["atual"].efi \in BootEfi \ {"e1", "e2"}
  <2>1. U!Startable(esp', order') = {}
    <3>1. ASSUME NEW p \in U!Startable(esp', order'), NEW r,
                 session' = [efi |-> esp'[p].efi, current |-> r, rotated |-> FALSE]
          PROVE  FALSE
      <4>1. session'.efi = esp'[p].efi /\ esp'[p].efi \in {"e1", "e2"}
        BY <3>1 DEF U!Startable, U!Works
      <4>2. session'.efi # "none"
        BY <4>1
      <4> QED
        BY <4>2 DEF U!Up, U!Dead
    <3> QED
      BY <1>2, <3>1 DEF U!PowerOn
  <2>2. \A p \in U!Entry : s[p] \in U!File /\ s[p].state \in {"absent", "synced"}
    BY <1>1, BootFacts DEF BootInv, WholeOrNone
  <2>3. PICK q \in U!Entry : s[q].efi = session.efi /\ s[q].state = "synced"
    BY DEF BootInv, U!RunningSurvives
  <2>4. U!Works(esp', q)
    BY <1>1, <1>2, <2>3 DEF U!Works
  <2>5. q = "anterior" /\ "anterior" \notin U!Listed(order')
    BY <2>1, <2>4, BootFacts DEF U!Startable
  <2>6. ~U!Works(esp', "atual")
    BY <2>1, BootFacts DEF U!Startable
  <2>7. /\ esp'["atual"] \in U!File /\ esp'["atual"].state \in {"absent", "synced"}
    BY <1>2, <2>2, BootFacts
  <2> QED
    BY <2>5, <2>6, <2>7, BootFile DEF U!Works
<1>3. CASE U!Reboot
  <2>1. esp' = esp /\ U!PowerOn(esp', order')
    BY <1>3 DEF U!Reboot
  <2> QED
    BY <1>1, <1>2, <2>1
<1>4. CASE U!PowerCut
  <2>1. PICK s \in past : esp' = U!TornImages(s) /\ U!PowerOn(esp', order)
    BY <1>4 DEF U!PowerCut
  <2>2. order' = order /\ \A p \in U!Entry : esp'[p] = s[p]
    BY <1>4, <2>1, CutLeaves DEF U!PowerCut
  <2> QED
    BY <1>2, <2>1, <2>2
<1>5. ASSUME session' = session PROVE FALSE
  BY <1>5 DEF U!Up, U!Dead
<1>6. ASSUME session' = [session EXCEPT !.rotated = TRUE] PROVE FALSE
  <2>1. session'.efi = session.efi
    BY <1>6 DEF BootInv, BootTypes, U!Up
  <2> QED
    BY <1>1, <2>1 DEF U!Up, U!Dead
<1>7. CASE U!Kill \/ U!Release
  BY <1>5, <1>7 DEF U!Kill, U!Stop, U!Release
<1>8. CASE U!Keep \/ U!Rename
  BY <1>6, <1>8 DEF U!Keep, U!Rename
<1>9. CASE U!Step /\ ~U!Keep /\ ~U!Rename
  <2>1. CASE U!Start \/ U!NoRoom
    BY <1>5, <2>1 DEF U!Start, U!NoRoom, U!Refuse, U!Stop
  <2>2. CASE U!Decide \/ U!DropOld \/ U!ClearTemporary \/ U!Create \/ U!Write \/ U!SyncFile
    BY <1>5, <2>2
    DEF U!Decide, U!DropOld, U!ClearTemporary, U!Create, U!Write, U!SyncFile, U!Rest
  <2>3. CASE U!Sync("sync_kept", "clear") \/ U!Sync("sync_dir", "list_anterior")
    BY <1>5, <2>3 DEF U!Sync, U!Rest
  <2>4. CASE \E e \in U!Entry : U!ListVariable(e) \/ U!ListOrder(e)
    BY <1>5, <2>4 DEF U!ListVariable, U!ListOrder, U!Rest
  <2> QED
    BY <1>9, <2>1, <2>2, <2>3, <2>4 DEF U!Step
<1> QED
  BY <1>3, <1>4, <1>7, <1>8, <1>9 DEF U!Next

\* With the tools beside it.
BootHolds == Booting => BootInv

LEMMA DeskBoots ==
  ASSUME BootHolds, [DeskNext]_deskVars
  PROVE  /\ BootHolds'
         /\ Booting => U!LostOnlyUnlistedStep
<1>1. CASE UNCHANGED deskVars
  <2>1. /\ tool' = tool /\ esp' = esp /\ past' = past /\ session' = session /\ wanted' = wanted
        /\ updater' = updater /\ order' = order
    BY <1>1 DEF deskVars, ofBoot
  <2>2. BootHolds'
    BY <2>1 DEF BootHolds, Booting, BootInv, BootTypes, WholeOrNone, U!RunningSurvives,
                BeforeRotation, AfterRotation, Updating, RunningAt, U!Up, U!Running, U!Carries,
                U!Present
  <2>3. U!Up' <=> U!Up
    BY <2>1 DEF U!Up
  <2> QED
    BY <2>2, <2>3 DEF U!LostOnlyUnlistedStep
<1>2. CASE BootTurn /\ U!Next
  <2>1. Booting /\ tool' = tool
    BY <1>2 DEF BootTurn
  <2> QED
    BY <1>2, <2>1, BootStepKeeps, LostUnlisted DEF BootHolds, Booting
<1>3. CASE SignTurn \/ MediaTurn
  BY <1>3 DEF SignTurn, MediaTurn, BootHolds, Booting, Signing, Bundling
<1> QED
  BY <1>1, <1>2, <1>3 DEF DeskNext

\* The image that runs survives an update cut anywhere, and a machine is lost
\* only while the previous image has no entry and no image is at the current
\* path, or one that never booted (boot_update.rs:98, :161).
THEOREM MachineStaysBootable == FairDesk => MachineBoots
<1>1. DeskInit => BootHolds
  BY BootAtFirst DEF DeskInit, BootHolds, Booting, Signing, Bundling
<1>2. BootHolds /\ [DeskNext]_deskVars => BootHolds' /\ [Booting => U!LostOnlyUnlistedStep]_deskVars
  BY DeskBoots
<1>3. BootHolds => (Booting => U!RunningSurvives)
  BY DEF BootHolds, BootInv
<1> QED
  BY <1>1, <1>2, <1>3, PTL DEF FairDesk, MachineBoots
=============================================================================
