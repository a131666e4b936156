---------------------------- MODULE WorldAProofs ----------------------------
(***************************************************************************)
(* What holds of WorldA for any packages, recipes and bounds: the claims   *)
(* of the records, and the three properties of a step.  Everything follows *)
(* from one invariant, IInv: the types; what Decide found out, as long as  *)
(* the run acts on it; what the run has already put in place; and, of the  *)
(* records at rest, ClaimIsOurs.                                           *)
(***************************************************************************)
EXTENDS WorldA, TLAPS

Meta == [is : AllRecipes, base : SUBSET Lines, bound : BOOLEAN]

Written == [man : (SUBSET Lines) \cup {None},
            base : [Version -> (SUBSET Lines) \cup {None}],
            recipe : AllRecipes \cup {None},
            recipeAt : [Version -> AllRecipes \cup {None}],
            meta : Meta \cup {None}]

Deciding == [pc : {"decide"}, p : Package, r : AllRecipes, ceded : SUBSET Lines]

Acting == {"unpack", "flip", "links", "swap"}

Recording == {"baseline", "recipe", "recipe@", "meta", "close"}

Installing == [pc : Acting \cup Recording, p : Package, r : AllRecipes,
               ceded : SUBSET Lines, todo : SUBSET Command, takes : SUBSET Command,
               at : Command \cup {None}, old : SUBSET Command, keep : SUBSET Version]

Removing == [pc : {"unlink", "tear"}, p : Package, lines : SUBSET Lines]

Types ==
  /\ dirs \in [Package -> [Version -> AllRecipes \cup {None, Torn}]]
  /\ cur \in [Package -> Version \cup {0}]
  /\ usr \in [Command -> Package \cup {None, "executor"}]
  /\ rec \in [Package -> Written]
  /\ run \in {Idle} \cup Deciding \cup Installing \cup Removing

\* A record that counts has a manifest, and so has the one being written.
Recorded ==
  /\ \A p \in Package : rec[p].meta # None => rec[p].man \in SUBSET Lines
  /\ run.pc \in Recording => rec[run.p].man = NewManifest
  /\ run.pc = "close" => rec[run.p].meta \in Meta

TInv == Types /\ Recorded

\* What p may do to a command that it has not linked yet.
Permitted(c) ==
  /\ usr[c] \in {None, run.p} \cup (Provisional \cap Supersedes[run.p])
                \cup (IF c \in Adopts[run.p] THEN {"executor"} ELSE {})
  /\ IF c \in run.takes /\ ~(run.pc = "swap" /\ c = run.at)
     THEN \E q \in Package : Owners(c) \ {run.p} = {q}
     ELSE Owners(c) \subseteq {run.p}

\* What the run found out or did about the commands it places.
Commands ==
  /\ run.pc \in Acting =>
       /\ run.takes \subseteq run.todo /\ run.todo \subseteq Placed
       /\ run.pc = "swap" => run.at \in run.todo
       /\ \A c \in run.todo : Permitted(c)
       /\ \A c \in run.old : Link(c) \notin run.ceded
  /\ run.pc \in Recording => run.todo = {}
  /\ run.pc \in Acting \cup Recording =>
       \A c \in Placed \ run.todo : usr[c] = run.p /\ Owners(c) \subseteq {run.p}
  /\ run.pc = "decide" => rec[run.p].man \cap run.ceded = {}

\* The tree and current come before the links, and what is kept is known.
Trees ==
  /\ run.pc \in {"flip", "links", "swap"} => dirs[run.p][run.r.v] = run.r
  /\ run.pc \in {"links", "swap"} => cur[run.p] = run.r.v
  /\ run.pc \in Acting =>
       /\ run.r.v \in run.keep
       /\ rec[run.p].meta # None => rec[run.p].meta.is.v \in run.keep

IInv == TInv /\ Commands /\ Trees /\ ClaimIsOurs

-----------------------------------------------------------------------------
(***************************************************************************)
(* Types                                                                   *)
(***************************************************************************)

LEMMA RecipeTypes ==
  ASSUME NEW p \in Package, NEW r \in Recipes[p]
  PROVE  /\ r \in AllRecipes /\ r.v \in Version
         /\ r.cmds \subseteq Command
BY WorldAAssumption DEF AllRecipes, Version

LEMMA LineTypes ==
  /\ \A r \in AllRecipes : Tree(r) \in Lines /\ r.v \in Version /\ r.cmds \subseteq Command
  /\ \A v \in Version : Turn(v) \in Lines
  /\ \A c \in Command : Link(c) \in Lines
BY WorldAAssumption DEF Lines, Tree, Turn, Link, Version

LEMMA InitTypes == Init => TInv
BY DEF Init, TInv, Types, Recorded, Written, NoRecord, Idle, Recording

\* One field of a record changes.
LEMMA ManTypes ==
  ASSUME NEW w \in Written, NEW m \in SUBSET Lines
  PROVE  LET n == [w EXCEPT !.man = m] IN
         n \in Written /\ n.man = m /\ n.meta = w.meta
BY DEF Written

LEMMA BaseTypes ==
  ASSUME NEW w \in Written, NEW v \in Version, NEW m \in (SUBSET Lines) \cup {None}
  PROVE  LET n == [w EXCEPT !.base[v] = m] IN
         n \in Written /\ n.man = w.man /\ n.meta = w.meta
BY DEF Written

LEMMA RecipeFileTypes ==
  ASSUME NEW w \in Written, NEW r \in AllRecipes
  PROVE  LET n == [w EXCEPT !.recipe = r] IN
         n \in Written /\ n.man = w.man /\ n.meta = w.meta
BY DEF Written

LEMMA RecipeAtTypes ==
  ASSUME NEW w \in Written, NEW v \in Version, NEW r \in AllRecipes \cup {None}
  PROVE  LET n == [w EXCEPT !.recipeAt[v] = r] IN
         n \in Written /\ n.man = w.man /\ n.meta = w.meta
BY DEF Written

LEMMA MetaTypes ==
  ASSUME NEW w \in Written, NEW m \in Meta
  PROVE  LET n == [w EXCEPT !.meta = m] IN
         n \in Written /\ n.man = w.man /\ n.meta = m
BY DEF Written

LEMMA RecordTypes ==
  ASSUME Types, NEW p \in Package, NEW w \in Written, rec' = [rec EXCEPT ![p] = w]
  PROVE  /\ rec' \in [Package -> Written] /\ rec'[p] = w
         /\ \A q \in Package \ {p} : rec'[q] = rec[q]
BY DEF Types

LEMMA BeginTypes ==
  ASSUME TInv, NEW p \in Package, NEW r \in Recipes[p], Begin(p, r)
  PROVE  TInv'
<1>1. r \in AllRecipes
  BY RecipeTypes
<1>2. run'.ceded \in SUBSET Lines
  <2>1. CASE Cession(p) = "intact"
    <3>1. Baseline(p) = rec[p].meta.base /\ p \in Installed
      BY <2>1 DEF Cession
    <3>2. rec[p].meta.base \in SUBSET Lines
      BY <3>1 DEF TInv, Types, Written, Meta, Installed
    <3> QED
      BY <2>1, <3>1, <3>2 DEF Begin
  <2>2. CASE Cession(p) # "intact"
    BY <2>2 DEF Begin
  <2> QED
    BY <2>1, <2>2
<1>3. run' \in Deciding
  BY <1>1, <1>2 DEF Begin, Deciding
<1>4. run'.pc = "decide"
  BY DEF Begin
<1> QED
  BY <1>3, <1>4 DEF Begin, TInv, Types, Recorded, Recording

\* A run in its deciding, installing or removing part.
LEMMA RunTypes ==
  ASSUME TInv
  PROVE  /\ run.pc = "decide" => run \in Deciding
         /\ run.pc \in Acting \cup Recording => run \in Installing
         /\ run.pc \in {"unlink", "tear"} => run \in Removing
BY DEF TInv, Types, Deciding, Installing, Removing, Idle, Acting, Recording

LEMMA DecideTypes ==
  ASSUME TInv, Decide
  PROVE  TInv'
<1>1. run \in Deciding
  BY RunTypes DEF Decide
<1>2. run.r.v \in Version /\ Placed \subseteq Command
  BY <1>1, LineTypes DEF Deciding, Placed
<1>3. \A p \in Installed : rec[p].meta.is \in AllRecipes
  BY DEF TInv, Types, Installed, Written, Meta
<1>4. run' \in {Idle} \cup Installing
  BY <1>1, <1>2, <1>3, LineTypes DEF Decide, Deciding, Installing, Acting, Takeover
<1>5. run'.pc \notin Recording
  BY DEF Decide, Idle, Recording
<1> QED
  BY <1>4, <1>5 DEF Decide, TInv, Types, Recorded, Recording

\* The trees of a version are torn or gone.
LEMMA TearTypes ==
  ASSUME Types, NEW p \in Package, NEW v \in Version, Tear(p, v)
  PROVE  /\ dirs' \in [Package -> [Version -> AllRecipes \cup {None, Torn}]]
         /\ dirs'[p][v] = IF dirs[p][v] = Torn THEN None ELSE Torn
         /\ \A q \in Package, w \in Version : q # p \/ w # v => dirs'[q][w] = dirs[q][w]
BY DEF Types, Tear

LEMMA MoveTypes ==
  ASSUME TInv, Clear \/ Unpack \/ Flip
  PROVE  TInv'
<1>1. run \in Installing /\ run.pc \in Acting /\ run.r.v \in Version
  BY RunTypes, LineTypes DEF Clear, Unpack, Flip, Acting, Installing
<1>2. run' \in Installing /\ run'.pc \notin Recording
  BY <1>1 DEF Clear, Unpack, Flip, Installing, Acting, Recording
<1>3. dirs' \in [Package -> [Version -> AllRecipes \cup {None, Torn}]]
  <2>1. CASE Clear
    BY <1>1, <2>1, TearTypes DEF Clear, TInv, Installing
  <2>2. CASE Unpack
    BY <1>1, <2>2 DEF Unpack, TInv, Types, Installing
  <2>3. CASE Flip
    BY <2>3 DEF Flip, TInv, Types
  <2> QED
    BY <2>1, <2>2, <2>3
<1>4. cur' \in [Package -> Version \cup {0}]
  BY <1>1 DEF Clear, Unpack, Flip, TInv, Types, Installing
<1>5. usr' = usr /\ rec' = rec
  BY DEF Clear, Unpack, Flip
<1> QED
  BY <1>2, <1>3, <1>4, <1>5 DEF TInv, Types, Recorded, Recording

LEMMA LinkTypes ==
  ASSUME TInv, NEW c \in Command, Cede(c) \/ PlaceLink(c) \/ UnlinkOld(c)
  PROVE  TInv'
<1>1. run \in Installing /\ run.pc \in Acting
  BY RunTypes DEF Cede, PlaceLink, UnlinkOld, Acting
<1>2. run' \in Installing /\ run'.pc \notin Recording
  <2>1. CASE Cede(c)
    BY <1>1, <2>1 DEF Cede, Installing, Acting, Recording
  <2>2. CASE PlaceLink(c)
    BY <1>1, <2>2 DEF PlaceLink, Installing, Acting, Recording
  <2>3. CASE UnlinkOld(c)
    BY <1>1, <2>3 DEF UnlinkOld, Installing, Acting, Recording
  <2> QED
    BY <2>1, <2>2, <2>3
<1>3. usr' \in [Command -> Package \cup {None, "executor"}]
  BY <1>1 DEF Cede, PlaceLink, UnlinkOld, TInv, Types, Installing
<1>4. /\ rec' \in [Package -> Written]
      /\ \A p \in Package : rec'[p].meta # None => rec'[p].man \in SUBSET Lines
  <2>1. CASE Cede(c)
    <3>1. PICK q \in Takeover(run.p, c) : rec' = [rec EXCEPT ![q].man = @ \ {Link(c)}]
      BY <2>1 DEF Cede
    <3>2. q \in Package /\ q \in Installed
      BY <3>1 DEF Takeover, Owners, Claims
    <3>3. rec[q].man \in SUBSET Lines
      BY <3>2 DEF TInv, Recorded, Installed
    <3> DEFINE m == rec[q].man \ {Link(c)}
               w == [rec[q] EXCEPT !.man = m]
    <3>4. w \in Written /\ w.man \in SUBSET Lines
      <4>1. rec[q] \in Written /\ m \in SUBSET Lines
        BY <3>2, <3>3 DEF TInv, Types
      <4> HIDE DEF m
      <4> QED
        BY <4>1, ManTypes
    <3>5. rec' = [rec EXCEPT ![q] = w]
      BY <3>1
    <3> HIDE DEF w
    <3> QED
      BY <3>2, <3>4, <3>5, RecordTypes DEF TInv, Recorded
  <2>2. CASE PlaceLink(c) \/ UnlinkOld(c)
    BY <2>2 DEF PlaceLink, UnlinkOld, TInv, Types, Recorded
  <2> QED
    BY <2>1, <2>2
<1>5. dirs' = dirs /\ cur' = cur
  BY DEF Cede, PlaceLink, UnlinkOld
<1> QED
  BY <1>2, <1>3, <1>4, <1>5 DEF TInv, Types, Recorded, Recording

LEMMA PruneTypes ==
  ASSUME TInv, NEW v \in Version, Prune(v)
  PROVE  TInv'
<1>1. run \in Installing /\ run.pc = "links" /\ run.p \in Package
  BY RunTypes DEF Prune, Acting, Installing
<1>2. dirs' \in [Package -> [Version -> AllRecipes \cup {None, Torn}]]
  BY <1>1, TearTypes DEF Prune, TInv
<1>3. /\ rec' \in [Package -> Written]
      /\ \A p \in Package : rec'[p].meta = rec[p].meta /\ rec'[p].man = rec[p].man
  <2> DEFINE u == [rec[run.p] EXCEPT !.base[v] = None]
             w == [u EXCEPT !.recipeAt[v] = None]
  <2>1. CASE dirs[run.p][v] = Torn
    <3>1. u \in Written /\ u.man = rec[run.p].man /\ u.meta = rec[run.p].meta
      <4>1. rec[run.p] \in Written
        BY <1>1 DEF TInv, Types
      <4> QED
        BY <4>1, BaseTypes
    <3>2. rec' = [rec EXCEPT ![run.p] = w]
      BY <1>1, <2>1 DEF Prune, TInv, Types, Written
    <3> HIDE DEF u
    <3>3. w \in Written /\ w.man = rec[run.p].man /\ w.meta = rec[run.p].meta
      BY <3>1, RecipeAtTypes
    <3> HIDE DEF w
    <3> QED
      BY <1>1, <3>2, <3>3, RecordTypes DEF TInv
  <2>2. CASE dirs[run.p][v] # Torn
    BY <2>2 DEF Prune, TInv, Types
  <2> QED
    BY <2>1, <2>2
<1> QED
  BY <1>1, <1>2, <1>3 DEF Prune, TInv, Types, Recorded, Recording

\* The lines a run puts into the record.
LEMMA NewTypes ==
  ASSUME TInv, run \in Installing
  PROVE  NewManifest \in SUBSET Lines /\ NewBaseline \in SUBSET Lines
<1>1. run.r \in AllRecipes /\ run.ceded \in SUBSET Lines
  BY DEF Installing
<1>2. Placed \subseteq Command
  BY <1>1, LineTypes DEF Placed
<1> QED
  BY <1>1, <1>2, LineTypes DEF NewManifest, NewBaseline

\* Writing one file of the record leaves those of others alone.
LEMMA WriteTypes ==
  ASSUME TInv, \/ WriteManifest \/ WriteBaseline \/ WriteRecipe
               \/ WriteRecipeAt \/ WriteMeta
  PROVE  TInv'
<1>1. run \in Installing /\ run.p \in Package /\ run.r \in AllRecipes /\ run.r.v \in Version
  BY RunTypes, LineTypes DEF WriteManifest, WriteBaseline, WriteRecipe,
     WriteRecipeAt, WriteMeta, Acting, Recording, Installing
<1>2. NewManifest \in SUBSET Lines /\ NewBaseline \in SUBSET Lines
  BY <1>1, NewTypes
<1>3. /\ run' \in Installing /\ NewManifest' = NewManifest /\ run'.p = run.p
      /\ run'.pc \in Recording
  BY <1>1 DEF WriteManifest, WriteBaseline, WriteRecipe, WriteRecipeAt, WriteMeta,
     Installing, Acting, Recording, NewManifest, Placed
<1>4. \E w \in Written :
        /\ rec' = [rec EXCEPT ![run.p] = w]
        /\ w.man = NewManifest
        /\ w.meta = rec[run.p].meta \/ w.meta \in Meta
        /\ run'.pc = "close" => w.meta \in Meta
  <2> DEFINE o == rec[run.p]
  <2>1. o \in Written
    BY <1>1 DEF TInv, Types
  <2>2. CASE WriteManifest
    <3> DEFINE w == [o EXCEPT !.man = NewManifest]
    <3>1. w \in Written /\ w.man = NewManifest /\ w.meta = o.meta
      BY <1>2, <2>1, ManTypes
    <3>2. rec' = [rec EXCEPT ![run.p] = w] /\ run'.pc # "close"
      BY <1>1, <2>2 DEF WriteManifest, Installing
    <3> HIDE DEF w
    <3> QED
      BY <3>1, <3>2
  <2>3. CASE ~WriteManifest
    <3>1. o.man = NewManifest
      BY <2>3 DEF WriteBaseline, WriteRecipe, WriteRecipeAt, WriteMeta,
         TInv, Recorded, Recording
    <3>2. CASE WriteBaseline
      <4> DEFINE w == [o EXCEPT !.base[run.r.v] = NewBaseline]
      <4>1. w \in Written /\ w.man = NewManifest /\ w.meta = o.meta
        <5>1. NewBaseline \in (SUBSET Lines) \cup {None}
          BY <1>2
        <5> HIDE DEF o
        <5> QED
          BY <1>1, <2>1, <3>1, <5>1, BaseTypes
      <4>2. rec' = [rec EXCEPT ![run.p] = w] /\ run'.pc # "close"
        BY <1>1, <3>2 DEF WriteBaseline, Installing, TInv, Types, Written
      <4> HIDE DEF w
      <4> QED
        BY <4>1, <4>2
    <3>3. CASE WriteRecipe
      <4> DEFINE w == [o EXCEPT !.recipe = run.r]
      <4>1. w \in Written /\ w.man = NewManifest /\ w.meta = o.meta
        BY <1>1, <2>1, <3>1, RecipeFileTypes
      <4>2. rec' = [rec EXCEPT ![run.p] = w] /\ run'.pc # "close"
        BY <1>1, <3>3 DEF WriteRecipe, Installing
      <4> HIDE DEF w
      <4> QED
        BY <4>1, <4>2
    <3>4. CASE WriteRecipeAt
      <4> DEFINE w == [o EXCEPT !.recipeAt[run.r.v] = run.r]
      <4>1. w \in Written /\ w.man = NewManifest /\ w.meta = o.meta
        BY <1>1, <2>1, <3>1, RecipeAtTypes
      <4>2. rec' = [rec EXCEPT ![run.p] = w] /\ run'.pc # "close"
        BY <1>1, <3>4 DEF WriteRecipeAt, Installing, TInv, Types, Written
      <4> HIDE DEF w
      <4> QED
        BY <4>1, <4>2
    <3>5. CASE WriteMeta
      <4> DEFINE m == [is |-> run.r, base |-> NewBaseline, bound |-> FALSE]
                 w == [o EXCEPT !.meta = m]
      <4>1. m \in Meta
        BY <1>1, <1>2 DEF Meta
      <4>2. rec' = [rec EXCEPT ![run.p] = w]
        BY <1>1, <3>5 DEF WriteMeta
      <4> HIDE DEF m
      <4>3. w \in Written /\ w.man = NewManifest /\ w.meta = m
        BY <2>1, <3>1, <4>1, MetaTypes
      <4> HIDE DEF w
      <4> QED
        BY <4>1, <4>2, <4>3
    <3> QED
      BY <2>3, <3>2, <3>3, <3>4, <3>5
  <2> QED
    BY <2>2, <2>3
<1>5. /\ rec' \in [Package -> Written]
      /\ \A p \in Package \ {run.p} : rec'[p] = rec[p]
      /\ rec'[run.p].man = NewManifest
      /\ run'.pc = "close" => rec'[run.p].meta \in Meta
  BY <1>1, <1>4, RecordTypes DEF TInv
<1>6. dirs' = dirs /\ cur' = cur /\ usr' = usr
  BY DEF WriteManifest, WriteBaseline, WriteRecipe, WriteRecipeAt, WriteMeta
<1> QED
  BY <1>1, <1>2, <1>3, <1>5, <1>6 DEF TInv, Types, Recorded, Recording

LEMMA CloseTypes ==
  ASSUME TInv, Close
  PROVE  TInv'
<1>1. run \in Installing
  BY RunTypes DEF Close, Recording
<1>2. rec[run.p].man \in SUBSET Lines /\ rec[run.p].meta \in Meta
  BY <1>1, NewTypes DEF Close, TInv, Recorded, Recording
<1>3. \E w \in Written : rec' = [rec EXCEPT ![run.p] = w] /\ w.man = rec[run.p].man
  <2> DEFINE n == [rec[run.p].meta EXCEPT !.bound = TRUE]
  <2>1. n \in Meta /\ rec[run.p] \in Written
    BY <1>1, <1>2 DEF Meta, TInv, Types, Installing
  <2>2. CASE rec' = [rec EXCEPT ![run.p].meta.bound = TRUE]
    <3> DEFINE w == [rec[run.p] EXCEPT !.meta = n]
    <3>1. rec' = [rec EXCEPT ![run.p] = w]
      BY <1>1, <2>1, <2>2 DEF TInv, Types, Written, Installing
    <3> HIDE DEF n
    <3>2. w \in Written /\ w.man = rec[run.p].man
      BY <2>1, MetaTypes
    <3> HIDE DEF w
    <3> QED
      BY <3>1, <3>2
  <2>3. CASE rec' = rec
    BY <1>1, <2>1, <2>3 DEF TInv, Types, Installing
  <2> QED
    BY <2>2, <2>3 DEF Close
<1>4. PICK w \in Written : rec' = [rec EXCEPT ![run.p] = w] /\ w.man = rec[run.p].man
  BY <1>3
<1>5. /\ rec' \in [Package -> Written] /\ rec'[run.p] = w
      /\ \A q \in Package \ {run.p} : rec'[q] = rec[q]
  BY <1>1, <1>4, RecordTypes DEF TInv, Installing
<1> QED
  BY <1>1, <1>2, <1>4, <1>5 DEF Close, TInv, Types, Recorded, Idle, Recording

LEMMA RemoveTypes ==
  ASSUME TInv, \/ \E p \in Package : Forget(p)
               \/ \E line \in run.lines :
                    Unlink(line) \/ DropCurrent(line) \/ DropTree(line)
               \/ DropRecord
  PROVE  TInv'
<1>1. CASE \E p \in Package : Forget(p)
  <2>1. PICK p \in Package : Forget(p)
    BY <1>1
  <2>2. rec[p].man \in SUBSET Lines
    BY <2>1 DEF Forget, Installed, TInv, Recorded
  <2>3. run' \in Removing /\ run'.pc = "unlink"
    BY <2>1, <2>2 DEF Forget, Removing
  <2> QED
    BY <2>1, <2>3 DEF Forget, TInv, Types, Recorded, Recording
<1>2. ASSUME NEW line \in run.lines, Unlink(line) \/ DropCurrent(line) \/ DropTree(line)
      PROVE  TInv'
  <2>1. run \in Removing /\ line \in Lines
    BY <1>2, RunTypes DEF Unlink, DropCurrent, DropTree, Removing
  <2>2. run' \in Removing
    BY <1>2, <2>1 DEF Unlink, DropCurrent, DropTree, Removing
  <2>3. usr' \in [Command -> Package \cup {None, "executor"}]
    BY <1>2 DEF Unlink, DropCurrent, DropTree, TInv, Types
  <2>4. cur' \in [Package -> Version \cup {0}]
    BY <1>2 DEF Unlink, DropCurrent, DropTree, TInv, Types
  <2>5. dirs' \in [Package -> [Version -> AllRecipes \cup {None, Torn}]]
    BY <1>2 DEF Unlink, DropCurrent, DropTree, Tear, TInv, Types
  <2>6. rec' = rec /\ run'.pc \notin Recording
    BY <1>2, <2>2 DEF Unlink, DropCurrent, DropTree, Removing, Recording
  <2> QED
    BY <2>2, <2>3, <2>4, <2>5, <2>6 DEF TInv, Types, Recorded, Recording
<1>3. CASE DropRecord
  <2>1. NoRecord \in Written /\ NoRecord.meta = None
    BY DEF NoRecord, Written
  <2>2. run.p \in Package
    BY <1>3, RunTypes DEF DropRecord, Removing
  <2>3. rec' \in [Package -> Written] /\ rec'[run.p] = NoRecord
        /\ \A q \in Package \ {run.p} : rec'[q] = rec[q]
    BY <1>3, <2>1, <2>2, RecordTypes DEF DropRecord, TInv
  <2> QED
    BY <1>3, <2>1, <2>2, <2>3 DEF DropRecord, TInv, Types, Recorded, Idle, Recording
<1> QED
  BY <1>1, <1>2, <1>3

\* Memoryhole's middle disjunct also says which part of the run it is.
LEMMA StepCases ==
  ASSUME Next
  PROVE  \/ \E p \in Package : \E r \in Recipes[p] : Begin(p, r)
         \/ Decide
         \/ Clear \/ Unpack \/ Flip
         \/ \E c \in Command : Cede(c) \/ PlaceLink(c) \/ UnlinkOld(c)
         \/ \E v \in Version : Prune(v)
         \/ WriteManifest \/ WriteBaseline \/ WriteRecipe \/ WriteRecipeAt \/ WriteMeta
         \/ Close
         \/ \/ \E p \in Package : Forget(p)
            \/ \E line \in run.lines :
                 Unlink(line) \/ DropCurrent(line) \/ DropTree(line)
            \/ DropRecord
         \/ Stop
         \/ UNCHANGED vars
BY DEF Next, Install, Memoryhole, Done

LEMMA StepTypes == TInv /\ [Next]_vars => TInv'
<1> SUFFICES ASSUME TInv, [Next]_vars PROVE TInv'
  OBVIOUS
<1>1. CASE Stop
  BY <1>1 DEF Stop, TInv, Types, Recorded, Idle, Recording
<1>2. CASE UNCHANGED vars
  BY <1>2 DEF vars, TInv, Types, Recorded, NewManifest, Placed
<1> QED
  BY <1>1, <1>2, StepCases, BeginTypes, DecideTypes, MoveTypes, LinkTypes,
     PruneTypes, WriteTypes, CloseTypes, RemoveTypes
-----------------------------------------------------------------------------
(***************************************************************************)
(* The rest of the invariant                                               *)
(***************************************************************************)

LEMMA InitIInv == Init => IInv
BY InitTypes DEF Init, IInv, Commands, Trees, ClaimIsOurs, Owners, Claims, Installed,
   NoRecord, Idle, Acting, Recording

\* Who claims what is a matter of manifests and of which records count.
LEMMA SameOwners ==
  ASSUME \A p \in Package : /\ rec'[p].man = rec[p].man
                            /\ rec'[p].meta # None <=> rec[p].meta # None
  PROVE  \A c \in Command : Owners(c)' = Owners(c)
BY DEF Owners, Claims, Installed

LEMMA LinkInManifest ==
  ASSUME NEW c \in Command, Link(c) \in NewManifest
  PROVE  c \in Placed
BY DEF NewManifest, Link, Tree, Turn, Placed

\* A run that neither decides, acts nor records has nothing to keep.
LEMMA Resting ==
  ASSUME run'.pc \notin Acting \cup Recording \cup {"decide"}
  PROVE  Commands' /\ Trees'
BY DEF Commands, Trees, Acting

LEMMA BeginStep ==
  ASSUME IInv, NEW p \in Package, NEW r \in Recipes[p], Begin(p, r)
  PROVE  (Commands /\ Trees /\ ClaimIsOurs)'
<1>1. run'.pc = "decide" /\ run'.p = p
  BY DEF Begin
<1>2. rec[p].man \cap run'.ceded = {}
  BY DEF Begin
<1>3. \A c \in Command : Owners(c)' = Owners(c)
  BY SameOwners DEF Begin
<1> QED
  BY <1>1, <1>2, <1>3 DEF Begin, IInv, Commands, Trees, ClaimIsOurs, Acting, Recording

LEMMA DecideStep ==
  ASSUME IInv, Decide
  PROVE  (Commands /\ Trees /\ ClaimIsOurs)'
<1>1. run \in Deciding /\ run.p \in Package /\ run.r \in AllRecipes
  BY RunTypes DEF Decide, IInv, Deciding
<1>2. \A c \in Command : Owners(c)' = Owners(c)
  BY SameOwners DEF Decide
<1>3. ClaimIsOurs'
  BY <1>2 DEF Decide, IInv, ClaimIsOurs
<1>4. CASE run' = Idle
  BY <1>3, <1>4, Resting DEF Idle, Acting, Recording
<1>5. CASE run' # Idle
  <2> DEFINE p == run.p
  <2>1. /\ \A c \in Placed : MayPlace(p, c)
        /\ run'.pc = "unpack" /\ run'.p = p /\ run'.r = run.r /\ run'.ceded = run.ceded
        /\ run'.todo = Placed /\ run'.takes = {c \in Placed : Takeover(p, c) # {}}
        /\ run'.old = {c \in Command : Link(c) \in Claims(p)}
        /\ run'.keep = {run.r.v} \cup (IF p \in Installed THEN {rec[p].meta.is.v} ELSE {})
    BY <1>5 DEF Decide
  <2>2. Placed' = Placed /\ Placed \subseteq Command
    BY <1>1, <2>1, LineTypes DEF Placed
  <2>3. ASSUME NEW c \in Placed
        PROVE  Permitted(c)'
    <3>1. c \in Command /\ MayPlace(p, c)
      BY <2>1, <2>2
    <3>2. \A q \in Takeover(p, c) : q \in Provisional \cap Supersedes[p] /\ Owners(c) \ {p} = {q}
      BY DEF Takeover
    <3>3. usr[c] \in {None, p} \cup (Provisional \cap Supersedes[p])
                     \cup (IF c \in Adopts[p] THEN {"executor"} ELSE {})
      <4>1. CASE Owners(c) # {}
        <5>1. PICK o \in Owners(c) : o \in Package
          BY <4>1 DEF Owners
        <5>2. usr[c] \in {o, None}
          BY <3>1, <5>1 DEF IInv, ClaimIsOurs
        <5>3. o = p \/ o \in Takeover(p, c)
          BY <3>1, <5>1 DEF MayPlace
        <5> QED
          BY <3>2, <5>2, <5>3
      <4>2. CASE Owners(c) = {}
        BY <3>1, <4>2 DEF MayPlace
      <4> QED
        BY <4>1, <4>2
    <3>4. IF c \in run'.takes THEN \E q \in Package : Owners(c) \ {p} = {q}
          ELSE Owners(c) \subseteq {p}
      BY <2>1, <3>1, <3>2 DEF MayPlace, Takeover, Owners
    <3> QED
      BY <1>2, <2>1, <3>1, <3>3, <3>4 DEF Permitted, Decide
  <2>4. \A c \in run'.old : Link(c) \notin run'.ceded
    BY <1>1, <2>1 DEF IInv, Commands, Claims, Decide
  <2>5. Commands'
    <3>1. run'.takes \subseteq run'.todo /\ run'.todo \subseteq Placed'
      BY <2>1, <2>2
    <3>2. \A c \in run'.todo : Permitted(c)'
      BY <2>1, <2>3
    <3> QED
      BY <2>1, <2>2, <2>4, <3>1, <3>2 DEF Commands, Acting, Recording
  <2>6. Trees'
    BY <1>1, <2>1 DEF Trees, Acting, Decide, Installed
  <2> QED
    BY <1>3, <2>5, <2>6
<1> QED
  BY <1>4, <1>5

LEMMA MoveStep ==
  ASSUME IInv, Clear \/ Unpack \/ Flip
  PROVE  (Commands /\ Trees /\ ClaimIsOurs)'
<1>1. /\ run \in Installing /\ run.pc \in {"unpack", "flip"}
      /\ run.p \in Package /\ run.r.v \in Version
  BY RunTypes, LineTypes DEF Clear, Unpack, Flip, Acting, Installing, IInv
<1>2. \A c \in Command : Owners(c)' = Owners(c)
  BY SameOwners DEF Clear, Unpack, Flip
<1>3. /\ usr' = usr /\ rec' = rec /\ run'.pc \in {"unpack", "flip", "links"}
      /\ run'.p = run.p /\ run'.r = run.r /\ run'.ceded = run.ceded
      /\ run'.todo = run.todo /\ run'.takes = run.takes /\ run'.at = run.at
      /\ run'.old = run.old /\ run'.keep = run.keep
  BY <1>1 DEF Clear, Unpack, Flip, Installing
<1>4. Placed' = Placed /\ Placed \subseteq Command
  BY <1>1, <1>3, LineTypes DEF Placed, Installing
<1>5. \A c \in run.todo : Permitted(c)'
  BY <1>1, <1>2, <1>3, <1>4 DEF IInv, Commands, Permitted, Acting
<1>6. Commands'
  BY <1>1, <1>2, <1>3, <1>4, <1>5 DEF IInv, Commands, Acting, Recording
<1>7. ClaimIsOurs'
  BY <1>2, <1>3 DEF IInv, ClaimIsOurs
<1>8. Trees'
  <2>1. CASE Clear
    BY <1>1, <1>3, <2>1 DEF Clear, IInv, Trees, Acting
  <2>2. CASE Unpack
    BY <1>1, <1>3, <2>2 DEF Unpack, IInv, TInv, Types, Trees, Acting, Installing
  <2>3. CASE Flip
    BY <1>1, <1>3, <2>3 DEF Flip, IInv, TInv, Types, Trees, Acting, Installing
  <2> QED
    BY <2>1, <2>2, <2>3
<1> QED
  BY <1>6, <1>7, <1>8

LEMMA CedeStep ==
  ASSUME IInv, NEW c \in Command, Cede(c)
  PROVE  (Commands /\ Trees /\ ClaimIsOurs)'
<1>1. run \in Installing /\ run.pc = "links" /\ c \in run.takes /\ run.p \in Package
  BY RunTypes DEF Cede, IInv, Acting, Installing
<1>2. PICK q \in Takeover(run.p, c) : rec' = [rec EXCEPT ![q].man = @ \ {Link(c)}]
  BY DEF Cede
<1>3. q \in Package \ {run.p} /\ Owners(c) \ {run.p} = {q}
  BY <1>2 DEF Takeover, Owners
<1>4. /\ rec'[q].man = rec[q].man \ {Link(c)}
      /\ \A p \in Package : rec'[p].meta = rec[p].meta
      /\ \A p \in Package \ {q} : rec'[p] = rec[p]
  BY <1>2, <1>3 DEF IInv, TInv, Types, Written
<1>5. Owners(c)' = Owners(c) \ {q}
  BY <1>3, <1>4 DEF Owners, Claims, Installed
<1>6. \A d \in Command \ {c} : Owners(d)' = Owners(d)
  BY <1>3, <1>4 DEF Owners, Claims, Installed, Link
<1>7. /\ run'.pc = "swap" /\ run'.at = c /\ run'.p = run.p /\ run'.r = run.r
      /\ run'.ceded = run.ceded /\ run'.todo = run.todo /\ run'.takes = run.takes
      /\ run'.old = run.old /\ run'.keep = run.keep
  BY <1>1 DEF Cede, Installing
<1>8. Placed' = Placed /\ Placed \subseteq Command /\ run.todo \subseteq Placed /\ run.takes \subseteq run.todo
  BY <1>1, <1>7, LineTypes DEF Placed, Installing, IInv, Commands, Acting
<1>9. ASSUME NEW d \in run.todo
      PROVE  Permitted(d)'
  <2>1. Permitted(d) /\ d \in Command /\ usr' = usr
    BY <1>1, <1>8 DEF IInv, Commands, Acting, Cede
  <2>2. CASE d = c
    BY <1>3, <1>5, <1>7, <2>1, <2>2 DEF Permitted
  <2>3. CASE d # c
    BY <1>1, <1>6, <1>7, <2>1, <2>3 DEF Permitted
  <2> QED
    BY <2>2, <2>3
<1>10. \A d \in Placed \ run.todo : Owners(d)' = Owners(d)
  BY <1>1, <1>6, <1>8
<1>11. Commands'
  BY <1>1, <1>7, <1>8, <1>9, <1>10 DEF IInv, Commands, Acting, Recording, Cede
<1>12. Trees'
  BY <1>1, <1>4, <1>7 DEF IInv, Trees, Acting, Cede
<1>13. ClaimIsOurs'
  BY <1>5, <1>6 DEF IInv, ClaimIsOurs, Cede
<1> QED
  BY <1>11, <1>12, <1>13

LEMMA PlaceLinkStep ==
  ASSUME IInv, NEW c \in Command, PlaceLink(c)
  PROVE  (Commands /\ Trees /\ ClaimIsOurs)'
<1>1. /\ run \in Installing /\ run.pc \in {"links", "swap"} /\ run.p \in Package
      /\ c \in run.todo
      /\ ~(c \in run.takes /\ ~(run.pc = "swap" /\ c = run.at))
      /\ run.pc = "swap" => c = run.at
  BY RunTypes DEF PlaceLink, IInv, Acting, Installing, Commands
<1>2. Owners(c) \subseteq {run.p}
  BY <1>1 DEF IInv, Commands, Permitted, Acting
<1>3. \A d \in Command : Owners(d)' = Owners(d)
  BY SameOwners DEF PlaceLink
<1>4. /\ run'.pc = "links" /\ run'.p = run.p /\ run'.r = run.r /\ run'.at = run.at
      /\ run'.ceded = run.ceded /\ run'.todo = run.todo \ {c}
      /\ run'.takes = run.takes \ {c}
      /\ run'.old = run.old /\ run'.keep = run.keep
  BY <1>1 DEF PlaceLink, Installing
<1>5. usr'[c] = run.p /\ \A d \in Command \ {c} : usr'[d] = usr[d]
  BY DEF PlaceLink, IInv, TInv, Types
<1>6. Placed' = Placed /\ Placed \subseteq Command /\ run.todo \subseteq Placed /\ run.takes \subseteq run.todo
  BY <1>1, <1>4, LineTypes DEF Placed, Installing, IInv, Commands, Acting
<1>7. ASSUME NEW d \in run.todo \ {c}
      PROVE  Permitted(d)'
  <2>1. Permitted(d) /\ d \in Command
    BY <1>1, <1>6 DEF IInv, Commands, Acting
  <2> QED
    BY <1>1, <1>3, <1>4, <1>5, <2>1 DEF Permitted
<1>8. \A d \in Placed \ run'.todo : usr'[d] = run.p /\ Owners(d)' \subseteq {run.p}
  BY <1>1, <1>2, <1>3, <1>4, <1>5, <1>6 DEF IInv, Commands, Acting
<1>9. Commands'
  BY <1>1, <1>4, <1>6, <1>7, <1>8 DEF IInv, Commands, Acting, Recording
<1>10. Trees'
  BY <1>1, <1>4 DEF IInv, Trees, Acting, PlaceLink
<1>11. ClaimIsOurs'
  BY <1>2, <1>3, <1>5 DEF IInv, ClaimIsOurs
<1> QED
  BY <1>9, <1>10, <1>11

LEMMA UnlinkOldStep ==
  ASSUME IInv, NEW c \in Command, UnlinkOld(c)
  PROVE  (Commands /\ Trees /\ ClaimIsOurs)'
<1>1. /\ run \in Installing /\ run.pc = "links" /\ run.p \in Package
      /\ run.todo = {} /\ c \notin Placed
  BY RunTypes DEF UnlinkOld, IInv, Acting, Installing
<1>2. \A d \in Command : Owners(d)' = Owners(d)
  BY SameOwners DEF UnlinkOld
<1>3. /\ run'.pc = "links" /\ run'.p = run.p /\ run'.r = run.r /\ run'.at = run.at
      /\ run'.ceded = run.ceded /\ run'.todo = run.todo /\ run'.takes = run.takes
      /\ run'.old \subseteq run.old /\ run'.keep = run.keep
  BY <1>1 DEF UnlinkOld, Installing
<1>4. /\ usr'[c] \in {usr[c], None}
      /\ \A d \in Command \ {c} : usr'[d] = usr[d]
  BY DEF UnlinkOld, IInv, TInv, Types
<1>5. Placed' = Placed /\ Placed \subseteq Command
  BY <1>1, <1>3, LineTypes DEF Placed, Installing
<1>6. Commands'
  BY <1>1, <1>2, <1>3, <1>4, <1>5 DEF IInv, Commands, Acting, Recording
<1>7. Trees'
  BY <1>1, <1>3 DEF IInv, Trees, Acting, UnlinkOld
<1>8. ClaimIsOurs'
  BY <1>2, <1>4 DEF IInv, ClaimIsOurs
<1> QED
  BY <1>6, <1>7, <1>8

LEMMA PruneStep ==
  ASSUME IInv, NEW v \in Version, Prune(v)
  PROVE  (Commands /\ Trees /\ ClaimIsOurs)'
<1>1. /\ run \in Installing /\ run.pc = "links" /\ run.p \in Package /\ run.r.v \in Version
      /\ run.todo = {} /\ v \notin run.keep /\ run' = run
  BY RunTypes, LineTypes DEF Prune, Stale, IInv, Acting, Installing
<1>2. \A p \in Package : rec'[p].man = rec[p].man /\ rec'[p].meta = rec[p].meta
  BY <1>1 DEF Prune, IInv, TInv, Types, Written
<1>3. \A d \in Command : Owners(d)' = Owners(d)
  BY <1>2, SameOwners
<1>4. v # run.r.v
  BY <1>1 DEF IInv, Trees, Acting
<1>5. dirs'[run.p][run.r.v] = dirs[run.p][run.r.v]
  BY <1>1, <1>4, TearTypes DEF Prune, IInv, TInv
<1>6. Placed' = Placed /\ Placed \subseteq Command
  BY <1>1, LineTypes DEF Placed, Installing
<1>7. Commands'
  BY <1>1, <1>3, <1>6 DEF Prune, IInv, Commands, Acting, Recording
<1>8. Trees'
  BY <1>1, <1>2, <1>5 DEF Prune, IInv, Trees, Acting
<1>9. ClaimIsOurs'
  BY <1>3 DEF Prune, IInv, ClaimIsOurs
<1> QED
  BY <1>7, <1>8, <1>9

\* From the manifest on, the run claims the commands it placed, and those only.
LEMMA RecordStep ==
  ASSUME IInv, \/ WriteManifest \/ WriteBaseline \/ WriteRecipe
               \/ WriteRecipeAt \/ WriteMeta \/ Close
  PROVE  (Commands /\ Trees /\ ClaimIsOurs)'
<1>1. /\ run \in Installing /\ run.p \in Package /\ run.todo = {}
      /\ run.pc \in {"links"} \cup Recording
  BY RunTypes DEF WriteManifest, WriteBaseline, WriteRecipe, WriteRecipeAt, WriteMeta,
     Close, IInv, Acting, Recording, Installing, Commands
<1>2. Placed \subseteq Command
  BY <1>1, LineTypes DEF Placed, Installing
<1>3. \A c \in Placed : usr[c] = run.p /\ Owners(c) \subseteq {run.p}
  BY <1>1 DEF IInv, Commands, Acting
<1>4. /\ \A q \in Package \ {run.p} : rec'[q] = rec[q]
      /\ rec'[run.p].man = NewManifest
  <2>1. CASE WriteManifest
    BY <1>1, <2>1 DEF WriteManifest, IInv, TInv, Types, Written
  <2>2. CASE ~WriteManifest
    <3>1. rec[run.p].man = NewManifest
      BY <2>2 DEF WriteBaseline, WriteRecipe, WriteRecipeAt, WriteMeta, Close,
         IInv, TInv, Recorded, Recording
    <3>2. CASE WriteBaseline \/ WriteRecipe \/ WriteRecipeAt
      BY <1>1, <3>1, <3>2 DEF WriteBaseline, WriteRecipe, WriteRecipeAt,
         IInv, TInv, Types, Written
    <3>3. CASE WriteMeta
      BY <1>1, <3>1, <3>3 DEF WriteMeta, IInv, TInv, Types, Written
    <3>4. CASE Close
      BY <1>1, <3>1, <3>4 DEF Close, IInv, TInv, Types, Written
    <3> QED
      BY <2>2, <3>2, <3>3, <3>4
  <2> QED
    BY <2>1, <2>2
<1>5. \A c \in Command : /\ Owners(c)' \ {run.p} = Owners(c) \ {run.p}
                         /\ run.p \in Owners(c)' => c \in Placed
  BY <1>1, <1>4, LinkInManifest DEF Owners, Claims, Installed
<1>6. usr' = usr
  BY DEF WriteManifest, WriteBaseline, WriteRecipe, WriteRecipeAt, WriteMeta, Close
<1>7. ClaimIsOurs'
  <2> SUFFICES ASSUME NEW c \in Command, NEW p \in Package, p \in Owners(c)'
               PROVE  Owners(c)' = {p} /\ usr[c] \in {p, None}
    BY <1>6 DEF ClaimIsOurs, Owners
  <2>1. CASE p = run.p
    BY <1>3, <1>5, <2>1
  <2>2. CASE p # run.p
    BY <1>3, <1>5, <2>2 DEF IInv, ClaimIsOurs
  <2> QED
    BY <2>1, <2>2
<1>8. CASE Close
  BY <1>7, <1>8, Resting DEF Close, Idle, Acting, Recording
<1>9. CASE ~Close
  <2>1. /\ run'.pc \in Recording /\ run'.p = run.p /\ run'.r = run.r
        /\ run'.ceded = run.ceded /\ run'.todo = run.todo
    BY <1>1, <1>9 DEF WriteManifest, WriteBaseline, WriteRecipe, WriteRecipeAt,
       WriteMeta, Installing, Recording
  <2>2. Placed' = Placed
    BY <2>1 DEF Placed
  <2>3. \A c \in Placed : Owners(c)' \subseteq {run.p}
    BY <1>2, <1>3, <1>5
  <2>4. Commands'
    BY <1>1, <1>3, <1>6, <2>1, <2>2, <2>3 DEF Commands, Acting, Recording
  <2>5. Trees'
    BY <2>1 DEF Trees, Acting, Recording
  <2> QED
    BY <1>7, <2>4, <2>5
<1> QED
  BY <1>8, <1>9

LEMMA RemoveStep ==
  ASSUME IInv, \/ \E p \in Package : Forget(p)
               \/ \E line \in run.lines :
                    Unlink(line) \/ DropCurrent(line) \/ DropTree(line)
               \/ DropRecord
  PROVE  (Commands /\ Trees /\ ClaimIsOurs)'
<1>1. CASE \E p \in Package : Forget(p)
  <2>1. \A c \in Command : Owners(c)' = Owners(c)
    BY <1>1, SameOwners DEF Forget
  <2> QED
    BY <1>1, <2>1, Resting DEF Forget, IInv, ClaimIsOurs, Acting, Recording
<1>2. ASSUME NEW line \in run.lines, Unlink(line) \/ DropCurrent(line) \/ DropTree(line)
      PROVE  (Commands /\ Trees /\ ClaimIsOurs)'
  <2>1. run \in Removing
    BY <1>2, RunTypes DEF Unlink, DropCurrent, DropTree, IInv
  <2>2. run'.pc \in {"unlink", "tear"}
    BY <1>2, <2>1 DEF Unlink, DropCurrent, DropTree, Removing
  <2>3. \A c \in Command : Owners(c)' = Owners(c)
    BY <1>2, SameOwners DEF Unlink, DropCurrent, DropTree
  <2>4. \A c \in Command : usr'[c] \in {usr[c], None}
    BY <1>2 DEF Unlink, DropCurrent, DropTree, IInv, TInv, Types
  <2> QED
    BY <2>2, <2>3, <2>4, Resting DEF IInv, ClaimIsOurs, Acting, Recording
<1>3. CASE DropRecord
  <2>1. run.p \in Package
    BY <1>3, RunTypes DEF DropRecord, Removing, IInv
  <2>2. /\ \A q \in Package \ {run.p} : rec'[q] = rec[q]
        /\ rec'[run.p].meta = None
    BY <1>3, <2>1 DEF DropRecord, NoRecord, IInv, TInv, Types
  <2>3. \A c \in Command : Owners(c)' = Owners(c) \ {run.p}
    BY <2>1, <2>2 DEF Owners, Claims, Installed
  <2> QED
    BY <1>3, <2>3, Resting DEF DropRecord, Idle, IInv, ClaimIsOurs, Acting, Recording
<1> QED
  BY <1>1, <1>2, <1>3

LEMMA StepIInv == IInv /\ [Next]_vars => IInv'
<1> SUFFICES ASSUME IInv, [Next]_vars PROVE IInv'
  OBVIOUS
<1>1. TInv'
  BY StepTypes DEF IInv
<1>2. CASE Stop
  <2>1. \A c \in Command : Owners(c)' = Owners(c)
    BY <1>2, SameOwners DEF Stop
  <2> QED
    BY <1>1, <1>2, <2>1, Resting DEF Stop, Idle, IInv, ClaimIsOurs, Acting, Recording
<1>3. CASE UNCHANGED vars
  BY <1>1, <1>3 DEF vars, IInv, Commands, Trees, ClaimIsOurs, Permitted, Owners, Claims,
     Installed, Placed
<1> QED
  BY <1>1, <1>2, <1>3, StepCases, BeginStep, DecideStep, MoveStep, CedeStep,
     PlaceLinkStep, UnlinkOldStep, PruneStep, RecordStep, RemoveStep DEF IInv

THEOREM Invariant == Spec => []IInv
BY InitIInv, StepIInv, PTL DEF Spec

\* No record lists a command that is another package's or a stranger's file,
\* and no two records list the same one.
THEOREM ClaimsAreOurs == Spec => []ClaimIsOurs
<1>1. IInv => ClaimIsOurs
  BY DEF IInv
<1> QED
  BY <1>1, Invariant, PTL
-----------------------------------------------------------------------------
(***************************************************************************)
(* Steps                                                                   *)
(***************************************************************************)

\* Of the steps outside memoryhole, only these touch trees, current and links.
LEMMA Untouched ==
  ASSUME IInv, Next,
         ~(Clear \/ Unpack \/ Flip),
         ~\E c \in Command : PlaceLink(c) \/ UnlinkOld(c),
         ~\E v \in Version : Prune(v),
         run.pc \notin {"unlink", "tear"}
  PROVE  UNCHANGED <<dirs, cur, usr>>
BY StepCases DEF Begin, Decide, Cede, WriteManifest, WriteBaseline, WriteRecipe,
   WriteRecipeAt, WriteMeta, Close, Forget, Unlink, DropCurrent, DropTree, DropRecord,
   Stop, vars

\* An installation, and a memoryhole, changes only commands that are its own, or
\* that nobody has, or that were given up to it.
THEOREM OnlyItsOwn == Spec => TakesOnlyItsOwn
<1> DEFINE A == \A c \in Command : usr'[c] # usr[c] =>
                  \/ usr[c] \in {None, run.p}
                  \/ usr[c] \in Provisional \cap Supersedes[run.p]
                  \/ usr[c] = "executor" /\ c \in Adopts[run.p]
<1>1. ASSUME IInv, [Next]_vars PROVE A
  <2>1. CASE \E d \in Command : PlaceLink(d)
    <3>1. PICK d \in Command : PlaceLink(d)
      BY <2>1
    <3>2. d \in run.todo /\ run.pc \in Acting
      BY <1>1, <3>1 DEF PlaceLink, IInv, Commands, Acting
    <3>3. Permitted(d)
      BY <1>1, <3>2 DEF IInv, Commands
    <3>4. \A c \in Command \ {d} : usr'[c] = usr[c]
      BY <1>1, <3>1 DEF PlaceLink, IInv, TInv, Types
    <3> QED
      BY <3>3, <3>4 DEF Permitted
  <2>2. CASE \E d \in Command : UnlinkOld(d)
    BY <1>1, <2>2 DEF UnlinkOld, IInv, TInv, Types
  <2>3. CASE run.pc \in {"unlink", "tear"}
    <3>1. CASE \E line \in run.lines : Unlink(line)
      BY <1>1, <3>1 DEF Unlink, IInv, TInv, Types
    <3>2. CASE ~\E line \in run.lines : Unlink(line)
      <4>1. usr' = usr
        BY <1>1, <2>3, <3>2, StepCases DEF Begin, Decide, Clear, Unpack, Flip, Cede,
           PlaceLink, UnlinkOld, Prune, WriteManifest, WriteBaseline, WriteRecipe,
           WriteRecipeAt, WriteMeta, Close, Forget, DropCurrent, DropTree, DropRecord,
           Stop, vars, Idle
      <4> QED
        BY <4>1
    <3> QED
      BY <3>1, <3>2
  <2>4. CASE ~(Clear \/ Unpack \/ Flip) /\ (~\E v \in Version : Prune(v))
             /\ run.pc \notin {"unlink", "tear"}
             /\ ~\E d \in Command : PlaceLink(d) \/ UnlinkOld(d)
    BY <1>1, <2>4, Untouched DEF vars
  <2>5. CASE Clear \/ Unpack \/ Flip \/ \E v \in Version : Prune(v)
    BY <2>5 DEF Clear, Unpack, Flip, Prune
  <2> QED
    BY <2>1, <2>2, <2>3, <2>4, <2>5
<1>2. IInv /\ [Next]_vars => [A]_vars
  BY <1>1
<1> QED
  BY <1>2, Invariant, PTL DEF Spec, TakesOnlyItsOwn

\* The version a record names is erased by memoryhole, or by a rebuild of that
\* very version, never on the way to another.
THEOREM NamedStays == Spec => NamedVersionStays
<1> DEFINE A == \A p \in Installed :
                  LET v == rec[p].meta.is.v IN
                  dirs'[p][v] # dirs[p][v] =>
                    \/ run.pc \in {"unlink", "tear"}
                    \/ run.r.v = v
<1>1. ASSUME IInv, [Next]_vars PROVE A
  <2> SUFFICES ASSUME NEW p \in Installed, run.pc \notin {"unlink", "tear"},
                      run.r.v # rec[p].meta.is.v
               PROVE  dirs'[p][rec[p].meta.is.v] = dirs[p][rec[p].meta.is.v]
    OBVIOUS
  <2> DEFINE v == rec[p].meta.is.v
  <2>1. p \in Package /\ v \in Version
    BY <1>1, LineTypes DEF Installed, IInv, TInv, Types, Written, Meta
  <2>2. CASE Clear \/ Unpack
    <3>1. run.p \in Package /\ run.r.v \in Version
      BY <1>1, <2>2, RunTypes, LineTypes DEF Clear, Unpack, IInv, Installing, Acting
    <3>2. v # run.r.v
      OBVIOUS
    <3> HIDE DEF v
    <3>3. ASSUME Clear PROVE dirs'[p][v] = dirs[p][v]
      BY <1>1, <2>1, <3>1, <3>2, <3>3, TearTypes DEF Clear, IInv, TInv
    <3>4. ASSUME Unpack PROVE dirs'[p][v] = dirs[p][v]
      BY <1>1, <2>1, <3>1, <3>2, <3>4 DEF Unpack, IInv, TInv, Types
    <3>5. dirs'[p][v] = dirs[p][v]
      BY <2>2, <3>3, <3>4
    <3> QED
      BY <3>5 DEF v
  <2>3. CASE \E w \in Version : Prune(w)
    <3>1. PICK w \in Version : Prune(w)
      BY <2>3
    <3>2. run.p \in Package /\ w \notin run.keep
      BY <1>1, <3>1, RunTypes DEF Prune, Stale, IInv, Installing, Acting
    <3>3. p # run.p \/ v # w
      BY <1>1, <3>1, <3>2 DEF Prune, IInv, Trees, Acting, Installed
    <3> QED
      BY <1>1, <2>1, <3>1, <3>2, <3>3, TearTypes DEF Prune, IInv, TInv
  <2>4. CASE Flip \/ \E c \in Command : PlaceLink(c) \/ UnlinkOld(c)
    BY <2>4 DEF Flip, PlaceLink, UnlinkOld
  <2>5. CASE ~(Clear \/ Unpack \/ Flip) /\ (~\E w \in Version : Prune(w))
             /\ ~\E c \in Command : PlaceLink(c) \/ UnlinkOld(c)
    BY <1>1, <2>5, Untouched DEF vars
  <2> QED
    BY <2>2, <2>3, <2>4, <2>5
<1>2. IInv /\ [Next]_vars => [A]_vars
  BY <1>1
<1> QED
  BY <1>2, Invariant, PTL DEF Spec, NamedVersionStays

\* No instant of an installation leaves a command that worked, and that the new
\* version has too, without a tree behind it, but for the rebuild of the version
\* current leads to.
THEOREM CommandsStay == Spec => CommandStays
<1> DEFINE A == run # Idle /\ run.pc \notin {"unlink", "tear"} =>
                  \A c \in run.r.cmds :
                    Works(c) => \/ Works(c)'
                                \/ /\ run.pc = "unpack" /\ usr[c] = run.p
                                   /\ cur[run.p] = run.r.v
<1>1. ASSUME IInv, [Next]_vars PROVE A
  <2> SUFFICES ASSUME run # Idle, run.pc \notin {"unlink", "tear"},
                      NEW c \in run.r.cmds, Works(c),
                      ~(run.pc = "unpack" /\ usr[c] = run.p /\ cur[run.p] = run.r.v)
               PROVE  Works(c)'
    OBVIOUS
  <2>1. run \in Deciding \cup Installing
    BY <1>1 DEF IInv, TInv, Types, Removing
  <2>2. run.p \in Package /\ run.r \in AllRecipes /\ run.r.v \in Version /\ c \in Command
    BY <2>1, LineTypes DEF Deciding, Installing
  <2>3. usr[c] \in Package => cur[usr[c]] \in Version
    BY <1>1 DEF Works, IInv, TInv, Types
  <2>4. CASE Clear
    BY <1>1, <2>2, <2>3, <2>4, TearTypes DEF Clear, Works, IInv, TInv
  <2>5. CASE Unpack
    BY <1>1, <2>2, <2>3, <2>5 DEF Unpack, Works, IInv, TInv, Types
  <2>6. CASE Flip
    <3>1. dirs[run.p][run.r.v] = run.r /\ run.r.v # 0 /\ run.r \notin {None, Torn}
      BY <1>1, <2>2, <2>6, WorldAAssumption DEF Flip, IInv, Trees
    <3> QED
      BY <1>1, <2>2, <2>3, <2>6, <3>1 DEF Flip, Works, IInv, TInv, Types
  <2>7. CASE \E d \in Command : PlaceLink(d)
    <3>1. PICK d \in Command : PlaceLink(d)
      BY <2>7
    <3>2. /\ dirs[run.p][run.r.v] = run.r /\ cur[run.p] = run.r.v
          /\ run.r.v # 0 /\ run.r \notin {None, Torn}
      BY <1>1, <2>2, <3>1, WorldAAssumption DEF PlaceLink, IInv, Trees
    <3> QED
      BY <1>1, <2>2, <3>1, <3>2 DEF PlaceLink, Works, IInv, TInv, Types
  <2>8. CASE \E d \in Command : UnlinkOld(d)
    <3>1. PICK d \in Command : UnlinkOld(d)
      BY <2>8
    <3>2. d # c
      BY <1>1, <3>1 DEF UnlinkOld, Placed, IInv, Commands, Acting
    <3> QED
      BY <1>1, <2>2, <3>1, <3>2 DEF UnlinkOld, Works, IInv, TInv, Types
  <2>9. CASE \E v \in Version : Prune(v)
    <3>1. PICK v \in Version : Prune(v)
      BY <2>9
    <3>2. v # run.r.v /\ cur[run.p] = run.r.v
      BY <1>1, <3>1 DEF Prune, Stale, IInv, Trees, Acting
    <3> QED
      BY <1>1, <2>2, <2>3, <3>1, <3>2, TearTypes DEF Prune, Works, IInv, TInv
  <2>10. CASE ~(Clear \/ Unpack \/ Flip) /\ (~\E v \in Version : Prune(v))
              /\ ~\E d \in Command : PlaceLink(d) \/ UnlinkOld(d)
    <3>1. UNCHANGED <<dirs, cur, usr>>
      BY <1>1, <2>10, Untouched DEF vars
    <3> QED
      BY <3>1 DEF Works
  <2> QED
    BY <2>4, <2>5, <2>6, <2>7, <2>8, <2>9, <2>10
<1>2. IInv /\ [Next]_vars => [A]_vars
  BY <1>1
<1> QED
  BY <1>2, Invariant, PTL DEF Spec, CommandStays
=============================================================================
