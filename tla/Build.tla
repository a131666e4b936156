-------------------------------- MODULE Build --------------------------------
(***************************************************************************)
(* From sources to a channel (install.rs): a package is built in a view    *)
(* that holds what the records of its build closure claim, the result is   *)
(* sealed, retained under its hash and installed; later it is emitted as   *)
(* a channel, and taken back from it.  One command at a time holds the     *)
(* root; others edit files under it, and processes die.                    *)
(*                                                                         *)
(* What a package is made of is a set of pairs <<package, generation>>:    *)
(* the fingerprint is what ought to go in, a content what did.  The hash   *)
(* of a content is the content.                                            *)
(***************************************************************************)
EXTENDS Naturals, FiniteSets

CONSTANTS
  Package,      \* the packages
  PROVIDERS,    \* PROVIDERS[p]: whose claims the view of p holds
  RUNNER,       \* the package the shell of every build is of
  PINNED,       \* the packages whose recipe pins the hash of the result
  Retouched,    \* what others may touch: a subset of Package \X Place
  MaxTree,      \* bound on the generations of a recipe
  MaxCommand,   \* bound on the commands
  MaxLoss,      \* bound on kills and failed builds
  MaxRetouch       \* bound on edits

Place == {"live", "source", "retained", "pool"}
Edited == MaxTree + 1
Nothing == {}

\* build_provider_closure: the package, the runner, and what their views hold,
\* and no more.
Closed(set) == RUNNER \in set /\ \A p \in set : PROVIDERS[p] \subseteq set
Closure ==
  [p \in Package |->
     {q \in Package : \A set \in SUBSET Package : Closed(set) /\ p \in set => q \in set}]

BuildAssumption ==
  /\ RUNNER \in Package /\ PROVIDERS[RUNNER] = {}
  /\ PROVIDERS \in [Package -> SUBSET Package]
  /\ \A p \in Package : \A q \in PROVIDERS[p] : p \notin Closure[q]
  /\ PINNED \subseteq Package
  /\ Retouched \subseteq Package \X Place
  /\ MaxTree \in Nat

VARIABLES
  tree,      \* tree[p]: the generation of p's recipe
  source,    \* source[p]: whether the cached source of p is what was pinned
  live,      \* live[p]: the content under the names p claims
  record,    \* record[p]: what the record says
  retained,  \* the retained stages: hash -> content
  leaf,      \* the channel emitted, "absent", and its transports
  job,       \* the command that holds the root
  consumed      \* what was used of the bounds

bvars == <<tree, source, live, record, retained, leaf, job, consumed>>

Fingerprint(t, p) == {<<q, t[q]>> : q \in Closure[p]}
NoRecord == [form |-> "none", fingerprint |-> Nothing, content |-> Nothing, origin |-> "none"]
NoLeaf == [index |-> <<>>, pool |-> <<>>]
NoJob == [pc |-> "idle", frozen |-> <<>>, todo |-> {}, written |-> {}, choice |-> "none",
         package |-> RUNNER, view |-> <<>>, image |-> Nothing, index |-> <<>>, pool |-> <<>>]

Recorded == {p \in Package : record[p].form # "none"}
Intact(p) == p \in Recorded /\ live[p] = record[p].content

\* record_is_intact, and an identity that has not changed.
UpToDate(p, fingerprint) == Intact(p) /\ record[p].form = "v4" /\ record[p].fingerprint = fingerprint

BuildInit ==
  /\ tree = [p \in Package |-> 0]
  /\ source = [p \in Package |-> TRUE]
  /\ live = [p \in Package |-> IF p = RUNNER THEN Fingerprint(tree, p) ELSE Nothing]
  /\ record = [p \in Package |->
       IF p = RUNNER THEN [form |-> "v4", fingerprint |-> Fingerprint(tree, p),
                           content |-> Fingerprint(tree, p), origin |-> "vendor"]
       ELSE NoRecord]
  /\ retained = <<>>
  /\ leaf = NoLeaf
  /\ job = NoJob
  /\ consumed = [commands |-> 0, kills |-> 0, edits |-> {}]

-----------------------------------------------------------------------------
(* The rest of the world.                                                  *)

Bump(p) ==
  /\ p # RUNNER /\ tree[p] < MaxTree
  /\ tree' = [tree EXCEPT ![p] = @ + 1]
  /\ UNCHANGED <<source, live, record, retained, leaf, job, consumed>>

\* Somebody writes into a file: of a package, of its cached source, of a
\* retained stage of it, of its transport in the channel.
Touched(p, place) ==
  \/ /\ place = "live" /\ p \in Recorded
     /\ live' = [live EXCEPT ![p] = {<<p, Edited>>}]
     /\ UNCHANGED <<source, retained, leaf>>
  \/ /\ place = "source" /\ source[p]
     /\ source' = [source EXCEPT ![p] = FALSE]
     /\ UNCHANGED <<live, retained, leaf>>
  \/ /\ place = "retained"
     /\ \E h \in DOMAIN retained :
          /\ h = record[p].content /\ retained[h] = h
          /\ \/ retained' = [retained EXCEPT ![h] = {<<p, Edited>>}]
             \/ retained' = [g \in DOMAIN retained \ {h} |-> retained[g]]
     /\ UNCHANGED <<source, live, leaf>>
  \/ /\ place = "pool" /\ p \in DOMAIN leaf.pool
     /\ leaf' = [leaf EXCEPT !.pool[p] = {<<p, Edited>>}]
     /\ UNCHANGED <<source, live, retained>>

Retouch(p, place) ==
  /\ Cardinality(consumed.edits) < MaxRetouch
  /\ <<p, place>> \in Retouched \ consumed.edits
  /\ Touched(p, place)
  /\ consumed' = [consumed EXCEPT !.edits = @ \cup {<<p, place>>}]
  /\ UNCHANGED <<tree, record, job>>

-----------------------------------------------------------------------------
(* rectify: what it installs is frozen with the identities it is made of.  *)

\* What a package is built of comes with it; a kept package brings nothing.
Todo(names, frozen) ==
  LET stale == {p \in names : ~UpToDate(p, frozen[p])}
  IN  {q \in UNION {Closure[p] : p \in stale} : q # RUNNER /\ ~UpToDate(q, frozen[q])}

BeginBuild(p, choice) ==
  LET frozen == [q \in Package |-> Fingerprint(tree, q)]
      todo == IF choice = "channel" THEN {q \in {p} : ~UpToDate(q, frozen[q])}
              ELSE Todo({p}, frozen)
  IN  /\ job = NoJob /\ p # RUNNER /\ consumed.commands < MaxCommand /\ todo # {}
      /\ consumed' = [consumed EXCEPT !.commands = @ + 1]
      /\ job' = [NoJob EXCEPT !.pc = "next", !.frozen = frozen, !.todo = todo, !.choice = choice]
      /\ UNCHANGED <<tree, source, live, record, retained, leaf>>

Abandon == job' = NoJob
Onwards(changes) == job' = changes
Unmoved == UNCHANGED <<tree, source, live, record, leaf, consumed>>

\* install_source, in the order of the plan: what the channel gives is not
\* built.
Choose(p) ==
  /\ job.pc = "next" /\ p \in job.todo \ job.written
  /\ \A q \in job.todo \ job.written : q \in Closure[p] => q = p
  /\ Onwards([job EXCEPT !.package = p, !.view = <<>>,
                         !.pc = IF job.choice = "channel" THEN "channel" ELSE "fetch"])
  /\ Unmoved /\ UNCHANGED retained

\* ensure_artifacts.
Fetch ==
  /\ job.pc = "fetch"
  /\ IF source[job.package] THEN Onwards([job EXCEPT !.pc = "claims"]) ELSE Abandon
  /\ Unmoved /\ UNCHANGED retained

\* installed_build_claims: of a format 4 record, or of one this very command
\* wrote, with the identity the plan has frozen, and intact.
Provides(q) ==
  /\ Intact(q) /\ record[q].fingerprint = job.frozen[q]
  /\ record[q].form = "v4" \/ q \in job.written

Claims ==
  /\ job.pc = "claims"
  /\ IF \A q \in PROVIDERS[job.package] \cup {RUNNER} : Provides(q)
     THEN Onwards([job EXCEPT !.pc = "view"]) ELSE Abandon
  /\ Unmoved /\ UNCHANGED retained

\* Mutant: the records were intact when the view was begun.
SnapshotMatchesAlways(q, copied) == TRUE

\* materialize_build_claim: what was copied is compared, not what is there.
SnapshotMatches(q, copied) == copied = record[q].content

Materialize(q) ==
  /\ job.pc = "view" /\ q \in PROVIDERS[job.package] \ DOMAIN job.view
  /\ IF SnapshotMatches(q, live[q])
     THEN Onwards([job EXCEPT !.view = [r \in DOMAIN job.view \cup {q} |->
                                          IF r = q THEN live[q] ELSE job.view[r]]])
     ELSE Abandon
  /\ Unmoved /\ UNCHANGED retained

\* create_build_view, its end: the source is hashed where it was copied to;
\* the shell of the runner is copied, and nothing compares it.
CloseView ==
  /\ job.pc = "view" /\ DOMAIN job.view = PROVIDERS[job.package]
  /\ IF source[job.package]
     THEN Onwards([job EXCEPT !.pc = "build",
                              !.view = [r \in DOMAIN job.view \cup {RUNNER} |->
                                          IF r = RUNNER THEN live[RUNNER] ELSE job.view[r]]])
     ELSE Abandon
  /\ Unmoved /\ UNCHANGED retained

\* build(), sealed_stage_snapshot and the hash the recipe may pin.
Compile ==
  LET p == job.package
      own == {g \in job.frozen[p] : g[1] = p}
      content == own \cup UNION {job.view[q] : q \in DOMAIN job.view} IN
  /\ job.pc = "build"
  /\ IF p \in PINNED /\ content # job.frozen[p] THEN Abandon
     ELSE Onwards([job EXCEPT !.pc = "retain", !.image = content])
  /\ Unmoved /\ UNCHANGED retained

\* retain_local_stage: a stage that is there is the same, or the build fails.
Retain ==
  LET h == job.image IN
  /\ job.pc = "retain"
  /\ IF h \in DOMAIN retained
     THEN /\ UNCHANGED retained
          /\ IF retained[h] = h THEN Onwards([job EXCEPT !.pc = "install"]) ELSE Abandon
     ELSE /\ retained' = [g \in DOMAIN retained \cup {h} |-> IF g = h THEN h ELSE retained[g]]
          /\ Onwards([job EXCEPT !.pc = "install"])
  /\ Unmoved

\* sealed_channel_snapshot: the transport, then what is in it, on the very
\* bytes that are installed.
Receive ==
  LET p == job.package
      chosen == p \in DOMAIN leaf.index /\ leaf.index[p].fingerprint = job.frozen[p] IN
  /\ job.pc = "channel"
  /\ IF /\ chosen
        /\ leaf.pool[p] = leaf.index[p].transport
        /\ leaf.pool[p] = leaf.index[p].reprocorr
        /\ p \in PINNED => leaf.pool[p] = job.frozen[p]
     THEN Onwards([job EXCEPT !.pc = "install", !.image = leaf.pool[p]]) ELSE Abandon
  /\ Unmoved /\ UNCHANGED retained

\* install_sealed_source: one step here (WorldB and Journal have its parts).
InstallSealed ==
  LET p == job.package IN
  /\ job.pc = "install"
  /\ live' = [live EXCEPT ![p] = job.image]
  /\ record' = [record EXCEPT ![p] =
       [form |-> "v3", fingerprint |-> job.frozen[p], content |-> job.image,
        origin |-> IF job.choice = "channel" THEN "canal" ELSE "fonte"]]
  /\ Onwards([job EXCEPT !.pc = "next", !.written = @ \cup {p}])
  /\ UNCHANGED <<tree, source, retained, leaf, consumed>>

\* The closing of the plan (Plan): what was written becomes of the format 4.
Close ==
  /\ job.pc = "next" /\ job.todo = job.written
  /\ record' = [p \in Package |->
       IF p \in job.written /\ Intact(p) THEN [record[p] EXCEPT !.form = "v4"] ELSE record[p]]
  /\ Abandon
  /\ UNCHANGED <<tree, source, live, retained, leaf, consumed>>

\* A build that fails, a kill; the workspace is made anew by the next build.
StopBuild ==
  /\ job # NoJob /\ consumed.kills < MaxLoss
  /\ consumed' = [consumed EXCEPT !.kills = @ + 1]
  /\ Abandon
  /\ UNCHANGED <<tree, source, live, record, retained, leaf>>

-----------------------------------------------------------------------------
(* channel emit, of one package and what it needs that was built here.     *)

Emitted(p) == {q \in Closure[p] : q # RUNNER}

\* The plan of an emission keeps everything: nothing is to be built.
BeginEmit(p, release) ==
  /\ job = NoJob /\ p # RUNNER /\ consumed.commands < MaxCommand /\ leaf = NoLeaf
  /\ \A q \in Closure[p] : UpToDate(q, Fingerprint(tree, q))
  /\ consumed' = [consumed EXCEPT !.commands = @ + 1]
  /\ job' = [NoJob EXCEPT !.pc = "emit", !.todo = Emitted(p),
                         !.choice = IF release THEN "release" ELSE "development",
                         !.frozen = [q \in Package |-> record[q].fingerprint]]
  /\ UNCHANGED <<tree, source, live, record, retained, leaf>>

\* attestable_meta, again; then the retained stage, whose hash is looked at; a
\* development channel may give the transport it came by, or be made of the
\* files, when they come out the same.
FindImage(q) ==
  LET h == record[q].content IN
  /\ job.pc = "emit" /\ q \in job.todo \ DOMAIN job.index
  /\ IF ~Intact(q) \/ (h \in DOMAIN retained /\ retained[h] # h) THEN Abandon
     ELSE \/ /\ h \in DOMAIN retained
             /\ Onwards([job EXCEPT !.pc = "compress", !.package = q, !.image = h])
          \/ /\ h \notin DOMAIN retained /\ job.choice = "development"
             /\ Onwards([job EXCEPT !.pc = "compress", !.package = q, !.image = h])
          \/ h \notin DOMAIN retained /\ Abandon
  /\ Unmoved /\ UNCHANGED retained

\* compress_zstd_deterministic, of the open file.
Compress ==
  LET q == job.package
      h == job.image
      read == IF h \in DOMAIN retained THEN retained[h] ELSE h
      with(f, value) == [r \in DOMAIN f \cup {q} |-> IF r = q THEN value ELSE f[r]] IN
  /\ job.pc = "compress"
  /\ Onwards([job EXCEPT !.pc = "emit", !.pool = with(@, read),
       !.index = with(@, [fingerprint |-> record[q].fingerprint,
                          transport |-> read, reprocorr |-> h])])
  /\ Unmoved /\ UNCHANGED retained

\* The index last, then the directory takes its name.
Rename ==
  /\ job.pc = "emit" /\ DOMAIN job.index = job.todo
  /\ \A q \in job.todo : job.index[q].fingerprint = job.frozen[q]
  /\ leaf' = [index |-> job.index, pool |-> job.pool]
  /\ Abandon
  /\ UNCHANGED <<tree, source, live, record, retained, consumed>>

BuildNext ==
  \/ \E p \in Package :
       \/ Bump(p) \/ Choose(p) \/ Materialize(p) \/ FindImage(p)
       \/ \E place \in Place : Retouch(p, place)
       \/ \E choice \in {"build", "channel"} : BeginBuild(p, choice)
       \/ \E release \in BOOLEAN : BeginEmit(p, release)
  \/ Fetch \/ Claims \/ CloseView \/ Compile \/ Retain \/ Receive \/ InstallSealed
  \/ Close \/ StopBuild \/ Compress \/ Rename

BuildSpec == BuildInit /\ [][BuildNext]_bvars

BuildTypeOK ==
  /\ tree \in [Package -> 0..MaxTree]
  /\ \A p \in Package : record[p].form \in {"none", "v3", "v4"}
  /\ job.written \subseteq job.todo

-----------------------------------------------------------------------------
(* Properties.                                                             *)

ShellUntouched == <<RUNNER, "live">> \notin consumed.edits

\* Whoever edits what while it is built, emitted and taken back, a record says
\* a fingerprint only of what was made of exactly that (create_build_view,
\* sealed_channel_snapshot); and what a stage is retained as, it was.
BuiltIsDeclared ==
  ShellUntouched =>
    /\ \A p \in Recorded : record[p].content = record[p].fingerprint
    /\ \A h \in DOMAIN retained : retained[h] # h => \E e \in consumed.edits : e[2] = "retained"

\* The same although the shell is edited (create_build_view copies it last).
ShellIsDeclared == \A p \in Recorded : record[p].content = record[p].fingerprint

\* A channel that has its name can be taken whole, unless it was edited there.
EmittedIsWhole ==
  \A p \in DOMAIN leaf.index :
    <<p, "pool">> \notin consumed.edits => leaf.pool[p] = leaf.index[p].reprocorr

=============================================================================
