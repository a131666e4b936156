------------------------------ MODULE Evidence ------------------------------
(***************************************************************************)
(* The evidence of upstream's signatures, from the recipe to the plan:     *)
(* which declarations a recipe may make (recipe.rs load, openpgp_schema.rs *)
(* parse_signature_plan), the inputs a plan states of them (fetch.rs       *)
(* signature_input_facts, plan.rs input_artifacts), what authentication    *)
(* observes (verify_signatures), and what the plan's own verifier asks of  *)
(* them (plan.rs validate_signature_identifier and                         *)
(* validate_package_artifact_correlation).  Two lists, written apart, of   *)
(* which the second has to admit all the first can say.                    *)
(*                                                                         *)
(* A signature field is its family and its index, 0 for none; its value is *)
(* canonical (any other is refused at once), and of SIG the number of its  *)
(* words counts.  An input is its type, the field its identifier begins    *)
(* with, the index the identifier carries and whether it has an epoch; it  *)
(* is open while its hash is `pending`.  Identifiers the verifier admits   *)
(* and nothing writes are left out.                                        *)
(***************************************************************************)
EXTENDS Naturals, FiniteSets

CONSTANTS
  Draft   \* the recipes somebody writes

VARIABLES
  recipe,  \* the recipe as written
  lock,    \* the inputs of its node in a plan: none, planned or sealed
  before   \* the same in the plan applied last, of the same recipe and payload

ofEvidence == <<recipe, lock, before>>

-----------------------------------------------------------------------------
(* What a recipe declares.                                                 *)

Normal == {"SIG", "SIG_EPOCH", "SIGKEY", "SIGKEY_FP"}

Waiver(i) == <<"SIG_UNSAFE_WAIVER", i>>
Legacy == {<<"SIG", 0>>, <<"SIGKEY", 0>>}
Sums == {<<"SIGSUMS", 0>>, <<"SIGSUMS_SIG", 0>>, <<"SIGSUMS_EPOCH", 0>>}
SumsKey == {<<"SIGKEY", 1>>, <<"SIGKEY_FP", 1>>}
Plain == Legacy \cup Sums \cup {Waiver(0)}

Family == Normal \cup {"SIG_UNSAFE_WAIVER"}

\* What else it may have: "payload" stands for any declaration only a payload
\* makes (BUILD_DEPS, LINKS, REPROCORR, EPOCH, RETRIES, SUPERSEDES, files/...).
Other == {"LICENSE", "DEPS", "build", "install", "ADOPTS", "SHARED_DIRS", "payload"}

\* The file of a slot is a waiver of some format, or none of this package's; any
\* of this package's can be a key.
Format == {"v1", "v2", "v3", "foreign"}

IsRecipe(r) ==
  /\ r = [kind |-> r.kind, srcs |-> r.srcs, sha |-> r.sha, sigs |-> r.sigs,
          fields |-> r.fields, file |-> r.file, has |-> r.has]
  /\ r.kind \in {"binary", "source", "meta"}
  /\ r.srcs \in Nat /\ r.sha \in Nat /\ r.sigs \in Nat
  /\ r.fields \subseteq Plain \cup (Family \X (Nat \ {0}))
  /\ \A i \in 0..r.srcs : r.file[i] \in Format
  /\ r.has \subseteq Other

EvidenceAssumption == \A r \in Draft : IsRecipe(r)

Indexed(r) == {f \in r.fields : f[2] # 0}
Has(r, f) == f \in r.fields

\* parse_indexed_artifact_plan: every SRC has either all four fields or a waiver.
SlotFits(r, i) ==
  LET normal == {family \in Normal : Has(r, <<family, i>>)} IN
  IF Has(r, Waiver(i)) THEN normal = {} ELSE normal = Normal

IndexedFits(r) ==
  /\ \A f \in Indexed(r) : f[2] <= r.srcs
  /\ (\E i \in 1..r.srcs : Has(r, Waiver(i))) => r.srcs >= 2
  /\ \A i \in 1..r.srcs : SlotFits(r, i)

LegacyFits(r) ==
  /\ r.fields \cap Sums = {} /\ Indexed(r) = {}
  /\ Legacy \subseteq r.fields
  /\ r.sigs = r.srcs

SumsFit(r) ==
  /\ {<<"SIGSUMS", 0>>, <<"SIGSUMS_EPOCH", 0>>} \subseteq r.fields
  /\ Indexed(r) = SumsKey

\* parse_signature_plan: the one mechanism of a recipe, or a refusal.
SignaturePlan(r) ==
  CASE r.fields = {} -> "none"
    [] r.srcs = 0 /\ r.fields # {} -> "refused"
    [] r.srcs > 0 /\ Has(r, Waiver(0)) ->
         IF r.srcs = 1 /\ r.fields = {Waiver(0)} THEN "waiver" ELSE "refused"
    [] r.srcs > 0 /\ ~Has(r, Waiver(0)) /\ r.fields \cap Legacy # {} ->
         IF LegacyFits(r) THEN "minisign" ELSE "refused"
    [] r.srcs > 0 /\ r.fields \cap (Legacy \cup {Waiver(0)}) = {} /\ r.fields \cap Sums # {} ->
         IF SumsFit(r) THEN "checksums" ELSE "refused"
    [] OTHER -> IF IndexedFits(r) THEN "indexed" ELSE "refused"

SourcesFit(r) ==
  IF r.srcs = 0 THEN r.sha = 0 /\ r.fields = {} ELSE r.sha = r.srcs

KindFits(r) ==
  CASE r.kind = "binary" ->
         r.srcs > 0 /\ {"LICENSE", "install"} \subseteq r.has /\ "SHARED_DIRS" \notin r.has
    [] r.kind = "source" -> {"LICENSE", "build"} \subseteq r.has /\ "ADOPTS" \notin r.has
    [] r.kind = "meta" -> r.srcs = 0 /\ r.has = {"DEPS"}

\* load: a recipe without hashes (--tofu, a build for authors) is left out.
Loads(r) == KindFits(r) /\ SourcesFit(r) /\ SignaturePlan(r) # "refused"

-----------------------------------------------------------------------------
(* What the plan states.                                                   *)

Input(type, name, slot, dated) ==
  [type |-> type, name |-> name, slot |-> slot, dated |-> dated]

\* The waivers of a recipe, by the index of their field.
Waived(r) ==
  IF SignaturePlan(r) = "waiver" THEN {0}
  ELSE {i \in 1..r.srcs : SignaturePlan(r) = "indexed" /\ Has(r, Waiver(i))}

Signed(r) == {i \in 1..r.srcs : SignaturePlan(r) = "indexed" /\ ~Has(r, Waiver(i))}

Pages(v) ==
  CASE v = "v2" -> {"WAIVER_ENDORSEMENT_FILE"}
    [] v = "v3" -> {"WAIVER_RELEASE_PAGE_FILE", "WAIVER_FINGERPRINT_PAGE_FILE"}
    [] OTHER -> {}

\* unsafe_waiver_input_facts: everything is in the snapshot of the recipe.
WaiverInputs(r, i) ==
  {Input("signature-waiver", "SIG_UNSAFE_WAIVER", i, FALSE),
   Input("signature", "WAIVER_SIG_FILE", i, TRUE),
   Input("signature-key-source", "WAIVER_KEY_SOURCE_FILE", i, FALSE),
   Input("signature-key", "WAIVER_KEY_CERT_FILE", i, FALSE)}
  \cup {Input("signature-evidence", page, i, FALSE) : page \in Pages(r.file[i])}

Waivers(r) == UNION {WaiverInputs(r, i) : i \in Waived(r)}

SlotSignature(i) == Input("signature", "SIG", i, TRUE)
SlotKey(i) == Input("signature-key", "SIGKEY", i, FALSE)
MinisignKey == Input("signature-key", "SIGKEY=minisign", 0, FALSE)
MinisignSignature(i) == Input("signature", "SIG_MINISIGN", i, FALSE)
Manifest == Input("checksums", "SIGSUMS", 0, TRUE)
ManifestSignature == Input("signature", "SIGSUMS_SIG", 0, TRUE)

DetachedSums(r) == IF Has(r, <<"SIGSUMS_SIG", 0>>) THEN {ManifestSignature} ELSE {}

\* signature_input_facts: what the plan cannot know before it is fetched, and
\* what the snapshot of the recipe has.
Open(r) ==
  CASE SignaturePlan(r) = "minisign" -> {MinisignSignature(i) : i \in 1..r.sigs}
    [] SignaturePlan(r) = "checksums" -> {Manifest} \cup DetachedSums(r)
    [] OTHER -> {SlotSignature(i) : i \in Signed(r)}

Frozen(r) ==
  CASE SignaturePlan(r) = "minisign" -> {MinisignKey}
    [] SignaturePlan(r) = "checksums" -> {SlotKey(1)}
    [] OTHER -> Waivers(r) \cup {SlotKey(i) : i \in Signed(r)}

NoSource == Input("source", "SRC=none", 0, FALSE)
Source(i) == Input("source", "SRC", i, FALSE)

SourceInputs(r) == IF r.srcs = 0 THEN {NoSource} ELSE {Source(i) : i \in 1..r.srcs}

\* input_artifacts: who took the payload from a channel does not speak of the
\* signatures; a meta package has no inputs.
Inputs(r, own) ==
  IF r.kind = "meta" THEN {}
  ELSE SourceInputs(r) \cup IF own THEN Open(r) \cup Frozen(r) ELSE {}

\* A key that is missing ends the plan, and a waiver that speaks of something else.
Statable(r) ==
  LET keys == IF SignaturePlan(r) = "checksums" THEN {1} ELSE Signed(r)
  IN  \A i \in Waived(r) \cup keys : r.file[i] # "foreign"

-----------------------------------------------------------------------------
(* What the verifier asks.                                                 *)

OfWaiver == {"WAIVER_SIG_FILE", "WAIVER_KEY_SOURCE_FILE", "WAIVER_KEY_CERT_FILE"}
            \cup Pages("v2") \cup Pages("v3")

\* validate_signature_identifier, by the type of the input.
SignatureFits(f) ==
  \/ f.name \in {"WAIVER_SIG_FILE", "SIGSUMS_SIG"} /\ f.dated
  \/ f.name = "SIG_MINISIGN" /\ f.slot > 0
  \/ f.name = "SIG" /\ f.slot > 0 /\ f.dated

KeyFits(f) ==
  \/ f.name \in {"SIGKEY=minisign", "WAIVER_KEY_CERT_FILE"}
  \/ f.name = "SIGKEY" /\ f.slot > 0

IdentifierFits(f) ==
  CASE f.type = "source" -> f = NoSource \/ (f.name = "SRC" /\ f.slot > 0)
    [] f.type = "signature-waiver" -> f.name = "SIG_UNSAFE_WAIVER"
    [] f.type = "checksums" -> f.name = "SIGSUMS" /\ f.dated
    [] f.type = "signature" -> SignatureFits(f)
    [] f.type = "signature-key-source" -> f.name = "WAIVER_KEY_SOURCE_FILE"
    [] f.type = "signature-key" -> KeyFits(f)
    [] f.type = "signature-evidence" -> f.name \in Pages("v2") \cup Pages("v3")
    [] OTHER -> FALSE

\* split_signature_src_index: only an input of a waiver is qualified.
IndexFits(f) == f.name \in {"SIGSUMS", "SIGSUMS_SIG", "SIGKEY=minisign"} => f.slot = 0

InputFits(f) == IdentifierFits(f) /\ IndexFits(f)

Slots(inputs, name) == {f.slot : f \in {g \in inputs : g.name = name}}
Sources(inputs) == Slots(inputs, "SRC")

\* validate_package_artifact_correlation: the SRC, without a gap.
SourcesClose(inputs, kind, material) ==
  /\ kind # "meta" /\ material /\ Sources(inputs) = {} => NoSource \in inputs
  /\ NoSource \in inputs => kind = "source" /\ Sources(inputs) = {}
  /\ Sources(inputs) = 1..Cardinality(Sources(inputs))

\* A waiver without an index is the first SRC's.
Claimed(f) == IF f.slot = 0 THEN 1 ELSE f.slot

OfSlot(inputs, i) ==
  {f \in inputs : f.name \in OfWaiver \cup {"SIG_UNSAFE_WAIVER"} /\ Claimed(f) = i}

WaivedSlots(inputs) ==
  {Claimed(f) : f \in {g \in inputs : g.name \in OfWaiver \cup {"SIG_UNSAFE_WAIVER"}}}

One(set) == \E x \in set : set = {x}

Typed(set, type) == {f \in set : f.type = type}

WaiverCloses(inputs, i) ==
  LET own == OfSlot(inputs, i)
      declared == Typed(own, "signature-waiver")
      pages == Typed(own, "signature-evidence")
      indexed == \E f \in declared : f.slot # 0
  IN  /\ i \in Sources(inputs)
      /\ One(declared)
      /\ \A type \in {"signature", "signature-key-source", "signature-key"} : One(Typed(own, type))
      /\ Cardinality(pages) <= 2
      /\ indexed => pages # {} /\ \A f \in own : f.slot # 0
      /\ i \notin Slots(inputs, "SIG") \cup Slots(inputs, "SIGKEY")

\* One key judges all of minisign's signatures.
MinisignCloses(inputs) ==
  LET signatures == Slots(inputs, "SIG_MINISIGN")
      keys == {f \in inputs : f.name = "SIGKEY=minisign"}
  IN  IF signatures = {} THEN keys = {}
      ELSE /\ One(keys)
           /\ signatures \subseteq Sources(inputs)
           /\ Slots(inputs, "SIG") \cup Slots(inputs, "SIGKEY") = {}

\* One key judges the manifest of checksums; its index is no SRC's.
SumsClose(inputs) ==
  Slots(inputs, "SIGSUMS") # {} =>
    /\ WaivedSlots(inputs) = {} /\ Slots(inputs, "SIG") = {}
    /\ Slots(inputs, "SIGKEY") = {1}

\* Mutant: the historical form, the key of the manifest is a slot's too.
KeysOfAllSlots(inputs) == Slots(inputs, "SIGKEY")

KeysOfSlots(inputs) ==
  IF Slots(inputs, "SIGSUMS") # {} THEN {} ELSE Slots(inputs, "SIGKEY")

\* Signatures and keys go together, and a recipe that signs one SRC signs or
\* waives each.
SlotsClose(inputs) ==
  LET signed == Slots(inputs, "SIG")
      waived == WaivedSlots(inputs)
  IN  /\ signed = KeysOfSlots(inputs)
      /\ signed \subseteq Sources(inputs)
      /\ waived \cup signed # {} => \A i \in Sources(inputs) : (i \in waived) # (i \in signed)

Admitted(inputs, kind, material) ==
  /\ \A f \in inputs : InputFits(f)
  /\ SourcesClose(inputs, kind, material)
  /\ \A i \in WaivedSlots(inputs) : WaiverCloses(inputs, i)
  /\ MinisignCloses(inputs) /\ SumsClose(inputs) /\ SlotsClose(inputs)

-----------------------------------------------------------------------------
(* From the recipe to a sealed plan.                                       *)

\* verify_signatures: what each mechanism observes of the sources it is given.
Observed(r) ==
  CASE SignaturePlan(r) = "minisign" -> {MinisignSignature(i) : i \in 1..r.srcs}
    [] SignaturePlan(r) = "checksums" -> {Manifest} \cup DetachedSums(r)
    [] SignaturePlan(r) = "indexed" -> {SlotSignature(i) : i \in Signed(r)}
    [] OTHER -> {}

NoLock == [form |-> "none"]

EvidenceInit == recipe \in Draft /\ lock = NoLock /\ before = NoLock

\* minitrue plan, of a payload made here or taken from a channel.
State(own) ==
  /\ lock = NoLock /\ Loads(recipe) /\ (own => Statable(recipe))
  /\ lock' = [form |-> "planned", own |-> own, inputs |-> Inputs(recipe, own),
              open |-> IF own /\ recipe.kind # "meta" THEN Open(recipe) ELSE {}]
  /\ UNCHANGED <<recipe, before>>

Seal(observed) ==
  /\ observed \subseteq lock.inputs
  /\ lock' = [lock EXCEPT !.form = "sealed", !.open = @ \ observed]
  /\ UNCHANGED <<recipe, before>>

\* authenticate_objects, of a package made here: its sources are looked at
\* again; what is observed has to be of the plan, and all that is open observed.
Measure ==
  /\ lock.form = "planned" /\ lock.own
  /\ lock.open \subseteq Observed(recipe)
  /\ Seal(Observed(recipe))

\* Of the plan applied before, what has a hash.
Reusable == (before.inputs \ before.open) \ {NoSource}

\* It says of everything that is open what it was.
Covers == lock.open \subseteq Reusable

\* The same, of a package the command has not written.
Reuse ==
  /\ lock.form = "planned" /\ lock.own
  /\ before # NoLock /\ Reusable # {} /\ Covers
  /\ Seal(Reusable)

\* A payload of a channel brings nothing to look at.
Pass == lock.form = "planned" /\ ~lock.own /\ Seal({})

\* The command closes with the plan, or comes to nothing.
Apply ==
  /\ lock.form = "sealed"
  /\ before' = lock /\ lock' = NoLock
  /\ UNCHANGED recipe

Drop ==
  /\ lock # NoLock
  /\ lock' = NoLock
  /\ UNCHANGED <<recipe, before>>

EvidenceNext ==
  \/ \E own \in BOOLEAN : State(own)
  \/ Measure \/ Reuse \/ Pass \/ Apply \/ Drop

EvidenceSpec == EvidenceInit /\ [][EvidenceNext]_ofEvidence

EvidenceTypeOK ==
  /\ recipe \in Draft
  /\ \A l \in {lock, before} \ {NoLock} :
       l.form \in {"planned", "sealed"} /\ l.own \in BOOLEAN /\ l.open \subseteq l.inputs

-----------------------------------------------------------------------------
(* Properties.                                                             *)

\* Whatever signatures a recipe that loads declares, the verifier of the plan
\* admits the inputs the plan states of them, before its sources are looked at
\* and after; looking at them closes all that is open; and after, nothing is,
\* whoever made the payload and whatever the plan before had said of it.
Verdict ==
  /\ \A material \in BOOLEAN : Admitted(lock.inputs, recipe.kind, material)
  /\ lock.form = "sealed" => lock.open = {}
  /\ lock.form = "planned" /\ lock.own /\ recipe.kind # "meta" =>
       lock.open \subseteq Observed(recipe) /\ Observed(recipe) \subseteq lock.inputs

\* A v1 waiver in an indexed field.
OldInSlot(r) == \E i \in Waived(r) : i # 0 /\ r.file[i] = "v1"

InputsAreAdmitted == lock # NoLock /\ ~(lock.own /\ OldInSlot(recipe)) => Verdict

\* The same of every waiver: one of the format v1 has no page, and in an
\* indexed field the verifier asks for one (fetch.rs:520 beside plan.rs:7050).
EveryInputIsAdmitted == lock # NoLock => Verdict
=============================================================================
