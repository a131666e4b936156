------------------------------- MODULE Records -------------------------------
(***************************************************************************)
(* The record of a package, from the formats earlier versions wrote (0, 1  *)
(* and 2) to the one a command writes (3) and closes (4), and those who    *)
(* judge it: the fast path of an installation, the reader of historical    *)
(* records and verify.  (src/minitrue/src/install.rs, plan.rs)             *)
(*                                                                         *)
(* One package, its recipe in several revisions, and the successor that    *)
(* takes paths from it while it is provisional.  The steps inside an       *)
(* installation are those of WorldB and WorldA: here it is one, but for    *)
(* the files of a record that no journal covers (worlds A and M).          *)
(***************************************************************************)
EXTENDS Naturals, Sequences, FiniteSets

CONSTANTS
  Package,    \* what the package may be: see Description
  Revision,   \* of its recipe, each with a fingerprint of its own
  VersionOf,  \* VersionOf[r]: the VERSION of r
  Path, Trees, Directory,  \* Trees: those below /opt/<package>
  MaxEdited,  \* paths the administrator's edits have changed at a time
  None

Version == {VersionOf[r] : r \in Revision}

State == [content : Revision \cup {"heir", "own"}, mode : {0, 1}]

\* made[r]: the files r brings; shared[r]: its SHARED_DIRS.
Description ==
  [kind : {"source", "binary", "meta"}, provisional : BOOLEAN,
   made : [Revision -> UNION {[s -> State] : s \in SUBSET Path}],
   shared : [Revision -> SUBSET Directory]]

\* What a manifest may say of a path, and manifests: D: is for directories.
Line == [form : {"bare"}, of : {None}] \cup [form : {"hash"}, of : Revision \cup {"heir", "own"}]
        \cup [form : {"typed"}, of : State] \cup [form : {"shared"}, of : {0, 1}]

IsManifest(m) ==
  /\ DOMAIN m \subseteq Path /\ m \in [DOMAIN m -> Line]
  /\ \A x \in DOMAIN m : m[x].form = "shared" => x \in Directory

\* A tree is that of a version.
RecordsAssumption ==
  /\ MaxEdited \in Nat
  /\ Package \subseteq Description
  /\ Trees \subseteq Path /\ Directory \subseteq Path \ Trees
  /\ \A p \in Package, r \in Revision :
       /\ DOMAIN p.made[r] \cap Directory = p.shared[r]
       /\ p.shared[r] # {} => p.kind = "source"
       /\ p.kind = "meta" => DOMAIN p.made[r] = {} /\ ~p.provisional
       /\ p.kind # "meta" => DOMAIN p.made[r] # {}
       /\ p.kind = "binary" => DOMAIN p.made[r] \cap Trees # {}
       /\ \A s \in Revision :
            VersionOf[s] = VersionOf[r] =>
              DOMAIN p.made[s] \cap Trees = DOMAIN p.made[r] \cap Trees
  /\ None \notin State /\ None \notin Revision /\ None \notin 0 .. 4
  /\ \A s \in SUBSET Path : None \notin [s -> Line]

VARIABLES
  package,
  tree,     \* the revision the tree of recipes has
  root,     \* what is at each path
  heir,     \* the paths the installed successor claims
  record,   \* the files of the record
  op        \* the installation under way

vars == <<package, tree, root, heir, record, op>>

Idle == [step |-> "idle"]

\* The files of a record, in the order they are written.
File == <<"manifest", "base", "recipe", "recipeAt", "meta">>

NoLines == [x \in {} |-> None]

NoRecord == [manifest |-> None, base |-> [v \in Version |-> None], recipe |-> None,
             recipeAt |-> [v \in Version |-> None], meta |-> [format |-> None]]

Made == package.made[tree]

-----------------------------------------------------------------------------
(***************************************************************************)
(* Claims: a bare path, the hash of a content, a typed proof of content    *)
(* and mode, or of a shared directory's mode alone.                        *)
(***************************************************************************)

Shown(form, s) ==
  CASE form = "bare" -> None [] form = "hash" -> s.content
    [] form = "typed" -> s   [] form = "shared" -> s.mode

Claim(form, s) == [form |-> form, of |-> Shown(form, s)]

\* A bare line proves only that something is there.
Matches(x, line) == root[x] # None /\ line.of = Shown(line.form, root[x])

Meta == record.meta

Installed == Meta.format # None

Active == record.manifest

Baseline == record.base[VersionOf[Meta.rev]]

RecipeAt == record.recipeAt[VersionOf[Meta.rev]]

\* validate_manifest_line_for_record, and D: only under recorded_shared_roots.
WellTyped(x, line) ==
  /\ line.form \in {"typed", "shared"}
  /\ line.form = "shared" => Meta.format # 2 /\ x \in Meta.shared

AllWellTyped(lines) == \A x \in DOMAIN lines : WellTyped(x, lines[x])

AllMatch(lines) == \A x \in DOMAIN lines : Matches(x, lines[x])

Within(lines, whole) == \A x \in DOMAIN lines : x \in DOMAIN whole /\ lines[x] = whole[x]

Ceded == DOMAIN Baseline \ DOMAIN Active

Unproved == Ceded \ heir

Coherent ==
  IF package.provisional THEN Within(Active, Baseline) /\ Unproved = {} ELSE Active = Baseline

\* What a plan holds of a payload; links of a provisional may be ceded.  That of
\* a source is its STAGE, which here is its revision, and a metapackage has none.
PlanPayload ==
  CASE package.kind # "binary" -> None
    [] package.provisional -> [x \in DOMAIN Active \cap Trees |-> Active[x]]
    [] OTHER -> Active

\* verify_record_binding: format 4 and a plan of this identity and payload.
Bound == Meta.format = 4 => Meta.bound = [rev |-> Meta.rev, payload |-> PlanPayload]

-----------------------------------------------------------------------------
(***************************************************************************)
(* The judges                                                              *)
(***************************************************************************)

\* record_meta_matches compares neither fingerprint nor recipe, but everything
\* the recipe says; the licence of an older record is that of its recipe.
MetaMatches(r) ==
  /\ VersionOf[Meta.rev] = VersionOf[r]
  /\ Meta.sealed # None
  /\ IF Meta.format = 2 THEN package.shared[r] = {} ELSE Meta.shared = package.shared[r]
  /\ package.kind = "meta" \/ Meta.licensed \/ record.recipe # None

\* The fast path: is this record what revision r would leave?
Intact(r, intermediate) ==
  /\ Installed
  /\ Meta.format \in {2, 4} \/ (Meta.format = 3 /\ intermediate)
  /\ MetaMatches(r)
  /\ Bound
  /\ record.recipe = r /\ RecipeAt = r
  /\ Meta.sealed = Baseline
  /\ Coherent
  /\ AllWellTyped(Baseline) /\ AllWellTyped(Active)
  /\ package.kind = "meta" \/ package.provisional \/ DOMAIN Active # {}
  /\ AllMatch(Active)

\* Mutant: the claims are not compared with what is there.
HistoricalUnseen ==
  /\ Installed /\ Meta.stamped
  /\ Bound
  /\ record.recipe = RecipeAt /\ Meta.sealed = Baseline /\ Coherent
  /\ AllWellTyped(Baseline) /\ AllWellTyped(Active)

\* verify_historical_record: the record by itself, whatever the tree asks for.
Historical ==
  /\ Installed
  /\ Meta.stamped /\ Meta.sealed # None
  /\ package.kind = "meta" \/ Meta.licensed
  /\ Bound
  /\ record.recipe # None /\ record.recipe = RecipeAt
  /\ Meta.sealed = Baseline
  /\ Coherent
  /\ package.kind = "meta" \/ package.provisional \/ DOMAIN Active # {}
  /\ AllWellTyped(Baseline) /\ AllWellTyped(Active)
  /\ AllMatch(Active)

\* verify finds nothing to say of this record: its format, its plan, its baseline
CleanForm == Meta.format = 4 /\ Bound /\ Meta.sealed = Baseline

\* its copies of the recipe, which only a metapackage has to have alike
CleanRecipe ==
  IF package.kind = "meta"
  THEN /\ record.recipe # None /\ record.recipe = RecipeAt
       /\ DOMAIN Active = {} /\ DOMAIN Baseline = {}
  ELSE Meta.licensed \/ record.recipe # None

\* its claims; the manifest of a package that is not provisional is not compared
\* with the baseline.
CleanClaims ==
  /\ DOMAIN Active = {} => package.kind = "meta" \/ package.provisional
  /\ package.provisional => Coherent
  /\ AllWellTyped(Active)
  /\ DOMAIN Active \cap heir = {}
  /\ AllMatch(Active)

Clean == Installed /\ CleanForm /\ CleanRecipe /\ CleanClaims

-----------------------------------------------------------------------------
(***************************************************************************)
(* What the tree asks for                                                  *)
(***************************************************************************)

Same == Installed /\ Meta.stamped /\ Meta.rev = tree

\* An identity that was never written down proves no change.
Changed == Installed /\ Meta.stamped /\ Meta.rev # tree

\* provisional_cession_state
Cession ==
  CASE ~Installed \/ ~package.provisional -> "not ceded"
    [] OTHER ->
       IF Meta.format >= 2 /\ Meta.sealed # Baseline THEN "incoherent"
       ELSE IF ~Within(Active, Baseline) THEN "incoherent"
       ELSE IF Ceded = {} THEN "not ceded"
       ELSE IF ~AllMatch(Active) \/ record.recipe # RecipeAt THEN "incoherent"
       ELSE IF Unproved = {} THEN "intact" ELSE "unproved"

Vanished == \A x \in Unproved : root[x] = None

\* needs_install, where it is no error.
NeedsInstall ==
  \/ ~Installed
  \/ /\ ~(Same /\ Intact(tree, FALSE))
     /\ package.kind = "source" =>
          \/ Cession = "not ceded"
          \/ Cession = "intact" /\ (Meta.format = 3 \/ ~Same)
          \/ Cession = "unproved" /\ Changed /\ Vanished

\* migrate_v2_record: only the format changes.
MigratableTyped ==
  /\ Same /\ Meta.format = 2
  /\ package.shared[tree] = {}
  /\ MetaMatches(tree)
  /\ Meta.sealed = Baseline
  /\ AllWellTyped(Active) /\ AllWellTyped(Baseline)
  /\ Coherent
  /\ package.kind = "meta" \/ package.provisional \/ DOMAIN Active # {}
  /\ AllMatch(Active)

\* migrate_legacy_record: never a record that ceded something.
MigratableLegacy ==
  /\ Same /\ Meta.format <= 1
  /\ package.shared[tree] = {}
  /\ record.recipe = tree /\ RecipeAt = tree
  /\ DOMAIN Active # {} \/ package.provisional
  /\ Active = Baseline
  /\ AllMatch(Active)

\* Whether the installation goes on to build, and what it leaves to the heir.
Proceeds ==
  \/ Cession = "not ceded"
  \/ Cession = "intact" /\ ~Same
  \/ /\ Cession = "unproved" /\ package.kind = "source" /\ Changed
     /\ Vanished /\ Unproved \cap DOMAIN Made = {}

Kept ==
  IF Cession \in {"intact", "unproved"}
  THEN [x \in Ceded \ Unproved |-> Baseline[x]] ELSE NoLines

Owned == DOMAIN Made \ DOMAIN Kept

Old == IF Installed THEN DOMAIN Active ELSE {}

\* Nobody has what is brought, and what is there is this package's.  All of a
\* STAGE may have been ceded, but it may not be empty; a metapackage is not
\* adopted from a record without meta.
MayInstall ==
  /\ \A x \in Owned :
       /\ x \notin heir
       /\ root[x] # None => IF x \in Directory THEN root[x].mode = Made[x].mode ELSE x \in Old
  /\ package.kind = "meta" => Installed \/ record = NoRecord

\* World A keeps the tree of the version before; others go.
Stale ==
  {x \in Trees \ Owned : root[x] # None /\ (Installed => x \notin DOMAIN package.made[Meta.rev])}

\* Of what only the old manifest lists, what is not a link of this package any
\* more stays in world A, and in world B a directory that is not empty.
Leaves(x, full) ==
  CASE x \in Trees -> x \notin Stale
    [] x \in Old \ Trees ->
         IF package.kind = "binary" THEN root[x] # None /\ root[x].content \notin Revision
         ELSE x \in full
    [] OTHER -> TRUE

Installs ==
  \E full \in SUBSET Directory :
    root' = [x \in Path |->
      IF x \in Owned THEN Made[x] ELSE IF Leaves(x, full) THEN root[x] ELSE None]

\* The files of a version go with its tree.
Pruned ==
  LET Gone(v) == \E r \in Revision : VersionOf[r] = v /\ DOMAIN package.made[r] \cap Stale # {} IN
  [record EXCEPT !.base = [v \in Version |-> IF Gone(v) THEN None ELSE record.base[v]],
                 !.recipeAt = [v \in Version |-> IF Gone(v) THEN None ELSE record.recipeAt[v]]]

Typed(x) == IF x \in Directory THEN "shared" ELSE "typed"

Written(from, lines, kept) ==
  LET whole == [x \in DOMAIN lines \cup DOMAIN kept |->
                 IF x \in DOMAIN kept THEN kept[x] ELSE lines[x]] IN
  [manifest |-> lines, base |-> [from.base EXCEPT ![VersionOf[tree]] = whole],
   recipe |-> tree, recipeAt |-> [from.recipeAt EXCEPT ![VersionOf[tree]] = tree],
   meta |-> [format |-> 3, rev |-> tree, stamped |-> TRUE, licensed |-> package.kind # "meta",
             shared |-> package.shared[tree], sealed |-> whole, bound |-> None]]

-----------------------------------------------------------------------------
(***************************************************************************)
(* Before this version                                                     *)
(***************************************************************************)

\* Format 0 has bare paths, format 1 hashes of files, format 2 typed proofs.
Form(format, x) ==
  CASE format = 0 -> "bare"
    [] format = 1 -> IF x \in Trees THEN "bare" ELSE "hash"
    [] format = 2 -> "typed"

\* A record as an earlier version left it: whole, or ceded in part.
Earlier(p, r, format, taken, stamped, licensed) ==
  LET lines == [x \in DOMAIN p.made[r] \ Directory |-> Claim(Form(format, x), p.made[r][x])] IN
  [manifest |-> [x \in DOMAIN lines \ taken |-> lines[x]],
   base |-> [NoRecord.base EXCEPT ![VersionOf[r]] = lines],
   recipe |-> r, recipeAt |-> [NoRecord.recipeAt EXCEPT ![VersionOf[r]] = r],
   meta |-> [format |-> format, rev |-> r, stamped |-> stamped, licensed |-> licensed,
             shared |-> None, sealed |-> IF format = 2 THEN lines ELSE None, bound |-> None]]

Heirs == [content |-> "heir", mode |-> 0]

Init ==
  /\ package \in Package /\ tree \in Revision /\ op = Idle
  /\ \/ /\ record = NoRecord /\ root = [x \in Path |-> None] /\ heir = {}
     \/ \E r \in Revision, format \in 0 .. 2, stamped, licensed \in BOOLEAN :
          LET files == DOMAIN package.made[r] \ Directory IN
          /\ heir \in SUBSET (files \ Trees) /\ (heir # {} => package.provisional)
          /\ format = 2 => stamped
          /\ licensed => format = 2 /\ package.kind # "meta"
          /\ package.kind = "meta" => format = 2
          /\ record = Earlier(package, r, format, heir, stamped, licensed)
          /\ root = [x \in Path |-> IF x \in heir THEN Heirs
                                    ELSE IF x \in files THEN package.made[r][x] ELSE None]

-----------------------------------------------------------------------------
(***************************************************************************)
(* An installation                                                         *)
(***************************************************************************)

Asked == op = Idle /\ NeedsInstall

MigrateTyped ==
  /\ Asked /\ MigratableTyped
  /\ record' = [record EXCEPT !.meta.format = 3, !.meta.shared = {}]
  /\ UNCHANGED <<package, tree, root, heir, op>>

\* The proofs are those of what is there now.
MigrateLegacy ==
  /\ Asked /\ MigratableLegacy
  /\ record' = Written(record, [x \in DOMAIN Active |-> Claim("typed", root[x])], NoLines)
  /\ UNCHANGED <<package, tree, root, heir, op>>

Builds ==
  /\ Asked /\ ~MigratableTyped /\ ~MigratableLegacy
  /\ Proceeds /\ MayInstall
  /\ Installs
  /\ UNCHANGED <<package, tree, heir>>

Fresh == Written(Pruned, [x \in Owned |-> Claim(Typed(x), Made[x])], Kept)

\* World B: the record changes with the payload, in one transaction.
InstallSource ==
  /\ package.kind = "source"
  /\ Builds
  /\ record' = Fresh
  /\ op' = [step |-> "written"]

\* Worlds A and M: the files of the record are replaced one after the other.
InstallUnjournaled ==
  /\ package.kind # "source"
  /\ Builds
  /\ op' = [step |-> "files", new |-> Fresh, at |-> 1]
  /\ record' = Pruned

WriteFile ==
  /\ op.step = "files"
  /\ record' = [record EXCEPT ![File[op.at]] = op.new[File[op.at]]]
  /\ op' = IF op.at = Len(File) THEN [step |-> "written"] ELSE [op EXCEPT !.at = @ + 1]
  /\ UNCHANGED <<package, tree, root, heir>>

\* observe_written_record, and once the world is as it should, bind_record.
Close ==
  /\ op.step = "written"
  /\ record' = IF Intact(tree, TRUE)
               THEN [record EXCEPT !.meta.format = 4,
                                   !.meta.bound = [rev |-> Meta.rev, payload |-> PlanPayload]]
               ELSE record
  /\ op' = Idle
  /\ UNCHANGED <<package, tree, root, heir>>

\* Death, or a failure of another package.
Stop == op # Idle /\ op' = Idle /\ UNCHANGED <<package, tree, root, heir, record>>

-----------------------------------------------------------------------------
(***************************************************************************)
(* Between commands                                                        *)
(***************************************************************************)

\* adopt_provisional_path: only the manifest of the one that cedes is rewritten.
Cede(x) ==
  /\ op = Idle /\ Installed /\ package.provisional
  /\ x \in DOMAIN Active \ (Trees \cup Directory)
  /\ record' = [record EXCEPT !.manifest = [y \in DOMAIN Active \ {x} |-> Active[y]]]
  /\ root' = [root EXCEPT ![x] = Heirs]
  /\ heir' = heir \cup {x}
  /\ UNCHANGED <<package, tree, op>>

HeirLeaves ==
  /\ op = Idle /\ heir # {}
  /\ root' = [x \in Path |-> IF x \in heir THEN None ELSE root[x]]
  /\ heir' = {}
  /\ UNCHANGED <<package, tree, record, op>>

Edited == {x \in Path : root[x] # None /\ (root[x].content = "own" \/ root[x].mode = 1)}

\* The administrator writes, changes the mode of, or deletes a file the record
\* lists (no judge looks at another one).
Edit(x) ==
  /\ op = Idle /\ Installed /\ x \in DOMAIN Active /\ root[x] # None
  /\ Cardinality(Edited \cup {x}) <= MaxEdited
  /\ \E s \in {None, [root[x] EXCEPT !.mode = 1 - @]}
              \cup (IF x \in Directory THEN {} ELSE {[root[x] EXCEPT !.content = "own"]}) :
       s # root[x] /\ root' = [root EXCEPT ![x] = s]
  /\ UNCHANGED <<package, tree, heir, record, op>>

Newspeak ==
  /\ op = Idle
  /\ tree' \in Revision \ {tree}
  /\ UNCHANGED <<package, root, heir, record, op>>

Next ==
  \/ MigrateTyped \/ MigrateLegacy \/ InstallSource \/ InstallUnjournaled
  \/ WriteFile \/ Close \/ Stop
  \/ \E x \in Path : Cede(x) \/ Edit(x)
  \/ HeirLeaves \/ Newspeak

Spec == Init /\ [][Next]_vars

-----------------------------------------------------------------------------
(***************************************************************************)
(* Properties                                                              *)
(***************************************************************************)

IsMeta(m) ==
  /\ m \in [format : 0 .. 4, rev : Revision, stamped : BOOLEAN, licensed : BOOLEAN,
            shared : (SUBSET Directory) \cup {None}, sealed : {m.sealed}, bound : {m.bound}]
  /\ m.sealed = None \/ IsManifest(m.sealed)

IsRecord(rec) ==
  /\ rec \in [manifest : {rec.manifest}, base : [Version -> {rec.base[v] : v \in Version}],
              recipe : Revision \cup {None}, recipeAt : [Version -> Revision \cup {None}],
              meta : {rec.meta}]
  /\ rec.manifest = None \/ IsManifest(rec.manifest)
  /\ \A v \in Version : rec.base[v] = None \/ IsManifest(rec.base[v])
  /\ rec.meta.format = None \/ IsMeta(rec.meta)

\* A record is well formed whichever of its files are there (install.rs:8351).
TypeOK ==
  /\ package \in Package /\ tree \in Revision /\ heir \subseteq Path
  /\ root \in [Path -> State \cup {None}]
  /\ IsRecord(record)
  /\ \/ op \in {Idle, [step |-> "written"]}
     \/ op \in [step : {"files"}, new : {op.new}, at : 1 .. Len(File)] /\ IsRecord(op.new)

\* The two copies of the recipe are the one the record was made of: a death
\* between two files of a record without a journal may leave others.
Untorn == record.recipe = Meta.rev /\ RecipeAt = Meta.rev

\* Of a record this version closed, the fast path of an installation, the
\* reader of historical records and verify say the same, whatever was edited,
\* ceded or cut short (install.rs:7929, 9420, 9557).
JudgesAgree ==
  (op = Idle /\ Installed /\ Meta.format = 4 /\ Untorn) =>
    /\ Intact(Meta.rev, FALSE) <=> Historical
    /\ Historical <=> Clean

\* What an old line proved, the new one proves.
Proves(new, old) ==
  CASE old.form = "bare" -> TRUE
    [] old.form = "hash" -> new.of.content = old.of
    [] OTHER -> new = old

Migrates == Installed /\ Meta.format < 3 /\ record'.meta.format = 3 /\ op' = op

\* A migration loses no path and no proof, and what a package ceded stays as it
\* was when it was its own (install.rs:8330, 9841; SPEC-0003:373).
ProofsAreKeptStep ==
     /\ Migrates => /\ DOMAIN Active' = DOMAIN Active /\ DOMAIN Baseline' = DOMAIN Baseline
                    /\ \A x \in DOMAIN Baseline : Proves(Baseline'[x], Baseline[x])
     /\ (Installed /\ Installed' /\ op' # op) =>
          \A x \in (Ceded \cap Ceded') : Baseline'[x] = Baseline[x]

\* What an installation wrote is accepted by the command that wrote it, but for
\* lines of formats 0 and 1 kept for what was ceded (install.rs:1803).
WrittenIsObserved ==
  op.step = "written" =>
    (Intact(tree, TRUE) <=> \A x \in DOMAIN Baseline : Baseline[x].form \in {"typed", "shared"})

\* The same without the exception, as SPEC-0003:376 has it: an old record that
\* ceded something is not rebuilt.
RefreshIsAccepted == op.step = "written" => Intact(tree, TRUE)

-----------------------------------------------------------------------------
(***************************************************************************)
(* Why they hold                                                           *)
(***************************************************************************)

\* What the closing of a record leaves for good.
Closed ==
  /\ Meta.stamped /\ (Meta.licensed \/ package.kind = "meta")
  /\ Meta.shared = package.shared[Meta.rev]
  /\ AllWellTyped(Meta.sealed)
  /\ package.kind = "binary" /\ ~package.provisional => Meta.bound.payload = Meta.sealed

\* A record that counts, between any two steps.
Counts ==
  /\ Active # None /\ Baseline # None
  /\ DOMAIN Active \cap heir = {}
  /\ package.kind = "source" /\ ~package.provisional => Active = Baseline
  /\ package.kind = "meta" => DOMAIN Active = {} /\ DOMAIN Baseline = {}
  /\ Meta.format < 3 => DOMAIN Baseline \cap Directory = {}
  /\ Meta.format = 4 => Closed

\* A record of what was just installed, where it is.
AsMade(rec, at) ==
  LET whole == rec.base[VersionOf[tree]] IN
  /\ rec.manifest # None /\ whole # None
  /\ rec.recipe = tree /\ rec.recipeAt[VersionOf[tree]] = tree
  /\ rec.meta = [format |-> 3, rev |-> tree, stamped |-> TRUE, licensed |-> package.kind # "meta",
                 shared |-> package.shared[tree], sealed |-> whole, bound |-> None]
  /\ DOMAIN rec.manifest \subseteq DOMAIN Made \ heir
  /\ \A x \in DOMAIN rec.manifest :
       at[x] = Made[x] /\ rec.manifest[x] = Claim(Typed(x), Made[x])
  /\ Within(rec.manifest, whole)
  /\ DOMAIN whole \ DOMAIN rec.manifest \subseteq heir
  /\ ~package.provisional => DOMAIN rec.manifest = DOMAIN Made

\* A record whose files are being replaced: those that were are the new ones,
\* and what the new baseline has of the successor's the old one had.
Torn ==
  LET whole == op.new.base[VersionOf[tree]] IN
  /\ package.kind # "source"
  /\ AsMade(op.new, root)
  /\ op.at > 1 => record.manifest = op.new.manifest
  /\ op.at > 2 => record.base = op.new.base
  /\ op.at > 3 => record.recipe = op.new.recipe
  /\ op.at > 4 => record.recipeAt = op.new.recipeAt
  /\ \A v \in Version \ {VersionOf[tree]} : op.new.base[v] = record.base[v]
  /\ Installed =>
       \A x \in DOMAIN whole \ DOMAIN op.new.manifest :
         x \in DOMAIN Baseline /\ whole[x] = Baseline[x]

Inductive ==
  /\ heir \cap (Trees \cup Directory) = {}
  /\ heir # {} => package.provisional
  /\ Installed => Counts
  /\ op.step = "written" => AsMade(record, root)
  /\ op.step = "files" => Torn
=============================================================================
