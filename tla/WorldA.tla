------------------------------- MODULE WorldA -------------------------------
(***************************************************************************)
(* World A: packages that arrive built.  install_binary of                 *)
(* minitrue/src/install.rs unpacks one into /opt/NAME/VERSION, turns the   *)
(* symlink /opt/NAME/current to it and puts a link to current into         *)
(* /usr/bin for every command.  No journal covers this: each change is a   *)
(* rename of its own and the record comes last, so that a run that stops,  *)
(* killed or by an error, leaves whatever it had reached.                  *)
(*                                                                         *)
(* A recipe is [v |-> version, b |-> build, cmds |-> its commands]; b      *)
(* tells two recipes of one version apart, as the fingerprint does, and    *)
(* the recipe also stands for the tree its install_pkg unpacks.  The lines *)
(* of a manifest are pairs: <<"dir", the tree at the version's directory>>, *)
(* <<"current", its version>>, <<"link", a command>>.                      *)
(*                                                                         *)
(* The run holds the root lock from Begin to its end.  Left out: staging   *)
(* and work directories, rebuilt from nothing by every run; the list of    *)
(* wanted packages and the order of a closure (Rectify); collisions of     *)
(* /opt/NAME with another package's claims (names are unique); records of  *)
(* older formats; deps, which only refuse a memoryhole (Removal).          *)
(***************************************************************************)
EXTENDS Naturals, FiniteSets

CONSTANTS
  Package,       \* names of packages of world A
  Command,       \* names in /usr/bin
  Recipes,       \* Recipes[p]: the recipes of p the tree has over time
  Provisional,   \* the packages whose recipes say PROVISIONAL=1
  Supersedes,    \* Supersedes[p]: what p's recipes declare to supersede
  Adopts,        \* Adopts[p]: the commands p's recipes adopt
  Persisted,     \* commands the installer persisted and its manifest measures
  None,          \* no tree, no file, no record
  Torn,          \* a tree remove_dir_all did not finish
  MaxRun,        \* bound on the runs that reach the disk
  MaxStop        \* bound on the runs that stop half-way

AllRecipes == UNION {Recipes[p] : p \in Package}

Version == {r.v : r \in AllRecipes}

ASSUME WorldAAssumption ==
  /\ \A r \in AllRecipes : r.v \in Nat \ {0} /\ r.cmds \subseteq Command
  /\ Provisional \subseteq Package /\ Persisted \subseteq Command
  /\ Supersedes \in [Package -> SUBSET Package]
  /\ Adopts \in [Package -> SUBSET Command]
  /\ {None, Torn} \cap Package = {} /\ {None, Torn} \cap AllRecipes = {}
  /\ None # Torn
  /\ "executor" \notin Package

VARIABLES
  dirs,   \* dirs[p][v]: the tree at /opt/p/v, Torn, or None
  cur,    \* cur[p]: the version /opt/p/current leads to, 0 without one
  usr,    \* usr[c]: the package /usr/bin/c links into, "executor", or None
  rec,    \* rec[p]: the files of /var/lib/minitrue/records/p
  run,    \* the process that holds the lock
  runs,   \* runs begun
  stops   \* runs that stopped half-way

vars == <<dirs, cur, usr, rec, run, runs, stops>>

NoRecord == [man |-> None, base |-> [v \in Version |-> None], recipe |-> None,
             recipeAt |-> [v \in Version |-> None], meta |-> None]

Idle == [pc |-> "idle"]

Init ==
  /\ dirs = [p \in Package |-> [v \in Version |-> None]]
  /\ cur = [p \in Package |-> 0]
  /\ usr = [c \in Command |-> IF c \in Persisted THEN "executor" ELSE None]
  /\ rec = [p \in Package |-> NoRecord]
  /\ run = Idle /\ runs = 0 /\ stops = 0
-----------------------------------------------------------------------------
(* Reading the records. *)

Tree(r) == <<"dir", r>>

Turn(v) == <<"current", v>>

Link(c) == <<"link", c>>

\* Whether the disk still is what a manifest line of p says.
Matches(p, line) ==
  CASE line[1] = "dir"     -> dirs[p][line[2].v] = line[2]
    [] line[1] = "current" -> cur[p] = line[2]
    [] line[1] = "link"    -> usr[line[2]] = p

Installed == {p \in Package : rec[p].meta # None}

Claims(p) == IF p \in Installed THEN rec[p].man ELSE {}

Owners(c) == {p \in Package : Link(c) \in Claims(p)}

\* The baseline of the version that p's meta names.
Baseline(p) == rec[p].base[rec[p].meta.is.v]

\* Whether q's claims prove that p gave the command up to it.
Authorizes(q, p) == q # p /\ (q \in Provisional => p \in Supersedes[q])

Unproved(p) ==
  {line \in Baseline(p) \ rec[p].man :
     ~\E q \in Package \ {p} : Authorizes(q, p) /\ line \in Claims(q)}

\* What provisional_cession_state says of p: is its manifest its baseline, or
\* what is left of it after successors took lines, each with a claim to show?
Cession(p) ==
  IF p \notin Installed \cap Provisional THEN "none"
  ELSE IF Baseline(p) # rec[p].meta.base THEN "incoherent"
  ELSE IF rec[p].man = Baseline(p) THEN "none"
  ELSE IF ~(/\ rec[p].man \subseteq Baseline(p)
            /\ \A line \in rec[p].man : Matches(p, line)
            /\ rec[p].recipe = rec[p].recipeAt[rec[p].meta.is.v])
       THEN "incoherent"
  ELSE IF Unproved(p) = {} THEN "intact" ELSE "unproved"

\* The record says this very recipe and everything it says is true.
Correct(p, r) ==
  /\ p \in Installed
  /\ rec[p].meta = [is |-> r, base |-> Baseline(p), bound |-> TRUE]
  /\ rec[p].recipe = r /\ rec[p].recipeAt[r.v] = r
  /\ IF p \in Provisional
     THEN rec[p].man \subseteq Baseline(p) /\ Unproved(p) = {}
     ELSE rec[p].man = Baseline(p)
  /\ Tree(r) \in rec[p].man /\ Turn(r.v) \in rec[p].man
  /\ \A line \in rec[p].man : Matches(p, line)
-----------------------------------------------------------------------------
(* install_binary. *)

\* A run that finds nothing to do, or a cession it cannot explain, ends here and
\* changes nothing.  A provisional package that ceded commands is refreshed
\* only for another recipe, around what it ceded.
Begin(p, r) ==
  /\ run = Idle /\ runs < MaxRun
  /\ ~Correct(p, r)
  /\ \/ Cession(p) = "none"
     \/ Cession(p) = "intact" /\ rec[p].meta.is # r
  /\ run' = [pc |-> "decide", p |-> p, r |-> r,
             ceded |-> IF Cession(p) = "intact"
                       THEN Baseline(p) \ rec[p].man ELSE {}]
  /\ runs' = runs + 1
  /\ UNCHANGED <<dirs, cur, usr, rec, stops>>

\* The commands this run puts a link to.
Placed == {c \in run.r.cmds : Link(c) \notin run.ceded}

\* The provisional packages that must give c up to p.
Takeover(p, c) ==
  {q \in Owners(c) \ {p} :
     q \in Provisional \cap Supersedes[p] /\ Owners(c) \ {p} = {q}}

MayPlace(p, c) ==
  /\ Owners(c) \ {p} = Takeover(p, c)
  /\ \/ Owners(c) # {}
     \/ usr[c] = None
     \/ usr[c] = "executor" /\ c \in Adopts[p]

\* Nothing may lie unowned where the version and current go.
MayUnpack(p, r) ==
  /\ dirs[p][r.v] = None \/ \E line \in Claims(p) : line[1] = "dir" /\ line[2].v = r.v
  /\ cur[p] = 0 \/ \E line \in Claims(p) : line[1] = "current"

Decide ==
  /\ run.pc = "decide"
  /\ LET p == run.p
         able == (\A c \in Placed : MayPlace(p, c)) /\ MayUnpack(p, run.r) IN
     run' = IF able
            THEN [pc |-> "unpack", p |-> p, r |-> run.r, ceded |-> run.ceded,
                  todo |-> Placed, takes |-> {c \in Placed : Takeover(p, c) # {}},
                  at |-> None,
                  old |-> {c \in Command : Link(c) \in Claims(p)},
                  keep |-> {run.r.v} \cup
                           (IF p \in Installed THEN {rec[p].meta.is.v} ELSE {})]
            ELSE Idle
  /\ UNCHANGED <<dirs, cur, usr, rec, runs, stops>>

\* remove_dir_all, with a moment at which part of the tree is gone.
Tear(p, v) ==
  dirs' = [dirs EXCEPT ![p][v] = IF @ = Torn THEN None ELSE Torn]

\* A version that is already there is removed before the new tree moves in.
Clear ==
  /\ run.pc = "unpack" /\ dirs[run.p][run.r.v] # None
  /\ Tear(run.p, run.r.v)
  /\ UNCHANGED <<cur, usr, rec, run, runs, stops>>

Unpack ==
  /\ run.pc = "unpack" /\ dirs[run.p][run.r.v] = None
  /\ dirs' = [dirs EXCEPT ![run.p][run.r.v] = run.r]
  /\ run' = [run EXCEPT !.pc = "flip"]
  /\ UNCHANGED <<cur, usr, rec, runs, stops>>

Flip ==
  /\ run.pc = "flip"
  /\ cur' = [cur EXCEPT ![run.p] = run.r.v]
  /\ run' = [run EXCEPT !.pc = "links"]
  /\ UNCHANGED <<dirs, usr, rec, runs, stops>>

\* Mutant: the provisional package's manifest keeps the line.
CedeNothing(c) ==
  /\ run.pc = "links" /\ c \in run.takes
  /\ run' = [run EXCEPT !.pc = "swap", !.at = c]
  /\ UNCHANGED <<dirs, cur, usr, rec, runs, stops>>

\* adopt_provisional_path: the line leaves the provisional package's manifest,
\* and the link of that command is the next to be swapped.
Cede(c) ==
  /\ run.pc = "links" /\ c \in run.takes
  /\ \E q \in Takeover(run.p, c) : rec' = [rec EXCEPT ![q].man = @ \ {Link(c)}]
  /\ run' = [run EXCEPT !.pc = "swap", !.at = c]
  /\ UNCHANGED <<dirs, cur, usr, runs, stops>>

\* The new link is made under a temporary name and renamed over the command.
PlaceLink(c) ==
  /\ \/ run.pc = "links" /\ c \in run.todo \ run.takes
     \/ run.pc = "swap" /\ c = run.at
  /\ usr' = [usr EXCEPT ![c] = run.p]
  /\ run' = [run EXCEPT !.pc = "links", !.todo = @ \ {c}, !.takes = @ \ {c}]
  /\ UNCHANGED <<dirs, cur, rec, runs, stops>>

\* Mutant: every link of the old manifest goes, those just placed too.
UnlinkAll(c) ==
  /\ run.pc = "links" /\ run.todo = {} /\ c \in run.old
  /\ usr' = [usr EXCEPT ![c] = IF @ = run.p THEN None ELSE @]
  /\ run' = [run EXCEPT !.old = @ \ {c}]
  /\ UNCHANGED <<dirs, cur, rec, runs, stops>>

\* A command the recipe no longer has; a link into another package stays.
UnlinkOld(c) ==
  /\ run.pc = "links" /\ run.todo = {} /\ c \in run.old \ Placed
  /\ usr' = [usr EXCEPT ![c] = IF @ = run.p THEN None ELSE @]
  /\ run' = [run EXCEPT !.old = @ \ {c}]
  /\ UNCHANGED <<dirs, cur, rec, runs, stops>>

\* Mutant: the version to keep is the one current leads to.
StaleByCurrent == {v \in Version \ {run.r.v, cur[run.p]} : dirs[run.p][v] # None}

Stale == {v \in Version \ run.keep : dirs[run.p][v] # None}

\* The new version and the one the record named are kept, every other one goes,
\* and with it the record's files of that version.
Prune(v) ==
  /\ run.pc = "links" /\ run.todo = {} /\ run.old \subseteq Placed /\ v \in Stale
  /\ Tear(run.p, v)
  /\ rec' = IF dirs[run.p][v] = Torn
            THEN [rec EXCEPT ![run.p].base[v] = None, ![run.p].recipeAt[v] = None]
            ELSE rec
  /\ UNCHANGED <<cur, usr, run, runs, stops>>

\* write_record without a journal: five files, each renamed into place, meta
\* last.  A new meta is not bound to a plan.
NewManifest == {Tree(run.r), Turn(run.r.v)} \cup {Link(c) : c \in Placed}

WriteManifest ==
  /\ run.pc = "links" /\ run.todo = {} /\ run.old \subseteq Placed /\ Stale = {}
  /\ rec' = [rec EXCEPT ![run.p].man = NewManifest]
  /\ run' = [run EXCEPT !.pc = "baseline"]
  /\ UNCHANGED <<dirs, cur, usr, runs, stops>>

NewBaseline == NewManifest \cup run.ceded

WriteBaseline ==
  /\ run.pc = "baseline"
  /\ rec' = [rec EXCEPT ![run.p].base[run.r.v] = NewBaseline]
  /\ run' = [run EXCEPT !.pc = "recipe"]
  /\ UNCHANGED <<dirs, cur, usr, runs, stops>>

WriteRecipe ==
  /\ run.pc = "recipe"
  /\ rec' = [rec EXCEPT ![run.p].recipe = run.r]
  /\ run' = [run EXCEPT !.pc = "recipe@"]
  /\ UNCHANGED <<dirs, cur, usr, runs, stops>>

WriteRecipeAt ==
  /\ run.pc = "recipe@"
  /\ rec' = [rec EXCEPT ![run.p].recipeAt[run.r.v] = run.r]
  /\ run' = [run EXCEPT !.pc = "meta"]
  /\ UNCHANGED <<dirs, cur, usr, runs, stops>>

WriteMeta ==
  /\ run.pc = "meta"
  /\ rec' = [rec EXCEPT ![run.p].meta =
               [is |-> run.r, base |-> NewBaseline, bound |-> FALSE]]
  /\ run' = [run EXCEPT !.pc = "close"]
  /\ UNCHANGED <<dirs, cur, usr, runs, stops>>

\* finalize_applied binds the record to the plan when the whole closure closes
\* (Rectify); a run that asked for part of the world may end without it.
Close ==
  /\ run.pc = "close"
  /\ \/ rec' = [rec EXCEPT ![run.p].meta.bound = TRUE]
     \/ rec' = rec
  /\ run' = Idle
  /\ UNCHANGED <<dirs, cur, usr, runs, stops>>
-----------------------------------------------------------------------------
(* memoryhole of a package of world A.  A claim that no longer matches the *)
(* disk is preserved, and only links into the package's own tree are       *)
(* removed.  The record goes last, here at once (Removal takes its files   *)
(* one by one).                                                            *)

Forget(p) ==
  /\ run = Idle /\ runs < MaxRun
  /\ p \in Installed /\ (rec[p].man # {} \/ p \in Provisional)
  /\ run' = [pc |-> "unlink", p |-> p, lines |-> rec[p].man]
  /\ runs' = runs + 1
  /\ UNCHANGED <<dirs, cur, usr, rec, stops>>

Remaining(on) == {line \in run.lines : line[1] = on}

Unlink(line) ==
  /\ run.pc = "unlink" /\ line \in Remaining("link")
  /\ usr' = [usr EXCEPT ![line[2]] = IF @ = run.p THEN None ELSE @]
  /\ run' = [run EXCEPT !.lines = @ \ {line}]
  /\ UNCHANGED <<dirs, cur, rec, runs, stops>>

DropCurrent(line) ==
  /\ run.pc = "unlink" /\ Remaining("link") = {} /\ line \in Remaining("current")
  /\ cur' = [cur EXCEPT ![run.p] = IF Matches(run.p, line) THEN 0 ELSE @]
  /\ run' = [run EXCEPT !.lines = @ \ {line}]
  /\ UNCHANGED <<dirs, usr, rec, runs, stops>>

\* Torn here can only be what this run tore: a tree that was torn before it
\* began does not match and is preserved.
DropTree(line) ==
  /\ run.pc \in {"unlink", "tear"} /\ {x \in run.lines : x[1] # "dir"} = {}
  /\ line \in run.lines
  /\ IF run.pc = "tear" \/ Matches(run.p, line)
     THEN /\ Tear(run.p, line[2].v)
          /\ run' = IF run.pc = "tear" THEN [run EXCEPT !.pc = "unlink", !.lines = {}]
                    ELSE [run EXCEPT !.pc = "tear"]
     ELSE UNCHANGED dirs /\ run' = [run EXCEPT !.lines = {}]
  /\ UNCHANGED <<cur, usr, rec, runs, stops>>

DropRecord ==
  /\ run.pc = "unlink" /\ run.lines = {}
  /\ rec' = [rec EXCEPT ![run.p] = NoRecord]
  /\ run' = Idle
  /\ UNCHANGED <<dirs, cur, usr, runs, stops>>
-----------------------------------------------------------------------------
\* The process is killed, or a call fails: nothing is undone.
Stop ==
  /\ run # Idle /\ stops < MaxStop
  /\ run' = Idle /\ stops' = stops + 1
  /\ UNCHANGED <<dirs, cur, usr, rec, runs>>

\* Enough runs for this instance.
Done == run = Idle /\ runs = MaxRun /\ UNCHANGED vars

Install ==
  \/ \E p \in Package : \E r \in Recipes[p] : Begin(p, r)
  \/ Decide \/ Clear \/ Unpack \/ Flip
  \/ \E c \in Command : Cede(c) \/ PlaceLink(c) \/ UnlinkOld(c)
  \/ \E v \in Version : Prune(v)
  \/ WriteManifest \/ WriteBaseline \/ WriteRecipe \/ WriteRecipeAt \/ WriteMeta
  \/ Close

Memoryhole ==
  \/ \E p \in Package : Forget(p)
  \/ run # Idle /\ run.pc \in {"unlink", "tear"} /\
     \E line \in run.lines : Unlink(line) \/ DropCurrent(line) \/ DropTree(line)
  \/ DropRecord

Next == Install \/ Memoryhole \/ Stop \/ Done

Spec == Init /\ [][Next]_vars
-----------------------------------------------------------------------------
(* Properties. *)

Lines == ({"dir"} \X AllRecipes) \cup ({"current"} \X Version) \cup ({"link"} \X Command)

\* The type of every variable, and of the record's files: what is in a
\* manifest is a set of lines, meta names a recipe and its baseline.
TypeOK ==
  /\ \A p \in Package, v \in Version : dirs[p][v] \in Recipes[p] \cup {None, Torn}
  /\ cur \in [Package -> Version \cup {0}]
  /\ usr \in [Command -> Package \cup {None, "executor"}]
  /\ \A p \in Package :
       /\ rec[p].man = None \/ rec[p].man \subseteq Lines
       /\ \A v \in Version : rec[p].base[v] = None \/ rec[p].base[v] \subseteq Lines
       /\ p \in Installed => rec[p].man # None /\ rec[p].meta.is \in Recipes[p]
  /\ runs \in 0..MaxRun /\ stops \in 0..MaxStop

\* A command in a record is that package's link or is not there, and is in no
\* other record: whatever run was cut short before, no record lists another
\* package's link or a file nobody installed (record_manifest_claims is what
\* every later decision of ownership, and memoryhole, goes by).
ClaimIsOurs ==
  \A c \in Command, p \in Package :
    p \in Owners(c) => Owners(c) = {p} /\ usr[c] \in {p, None}

\* The command leads somewhere.
Works(c) ==
  IF usr[c] \in Package
  THEN /\ cur[usr[c]] # 0
       /\ dirs[usr[c]][cur[usr[c]]] \notin {None, Torn}
       /\ c \in dirs[usr[c]][cur[usr[c]]].cmds
  ELSE usr[c] = "executor"

\* While a package is installed no instant leaves a command that it had and
\* keeps absent, not even when runs were cut short before: the links and current
\* are each swapped by a rename, once the tree they need is there.  The one
\* exception is a rebuild of the very version current leads to, whose tree is
\* removed before the new one moves in.
CommandStays ==
  [][run # Idle /\ run.pc \notin {"unlink", "tear"} =>
       \A c \in run.r.cmds :
         Works(c) => \/ Works(c)'
                     \/ /\ run.pc = "unpack" /\ usr[c] = run.p
                        /\ cur[run.p] = run.r.v]_vars

\* Installing, a package changes only commands that are absent, its own, those
\* a provisional package it supersedes held, and the executors it adopts.
TakesOnlyItsOwn ==
  [][\A c \in Command : usr'[c] # usr[c] =>
       \/ usr[c] \in {None, run.p}
       \/ usr[c] \in Provisional \cap Supersedes[run.p]
       \/ usr[c] = "executor" /\ c \in Adopts[run.p]]_vars

\* An upgrade never takes away the version the record still names, the one to
\* go back to while the new one is unproved, although runs that stopped left
\* current, or the manifest, at a third.
NamedVersionStays ==
  [][\A p \in Installed :
       LET v == rec[p].meta.is.v IN
       dirs'[p][v] # dirs[p][v] =>
         \/ run.pc \in {"unlink", "tear"}
         \/ run.r.v = v]_vars
=============================================================================
