------------------------------ MODULE Installer ------------------------------
(***************************************************************************)
(* minipax install (src/minipax/src/install.rs): a profile materialised in *)
(* an empty root.  A marker, which is the lock of the profile, says how    *)
(* far the installation went: early at the root, then pending, then        *)
(* profile.lock.  Everything between is repeatable, and --resume repeats   *)
(* it from the start over what an earlier run left.                        *)
(*                                                                         *)
(* A profile is the version of each of its pieces, and its lock is the     *)
(* profile itself, since the lock holds the hash of each.  An installation *)
(* is offline when it has a cache.  A cache has, beside its objects, an    *)
(* authority of its own (the channels it was made from), which must not    *)
(* survive in the target.                                                  *)
(***************************************************************************)
EXTENDS Naturals, FiniteSets

CONSTANTS Version, Tool,   \* versions of a piece; builds of the executors
          Packaged,        \* the build the packages of a world bring, or None
          MaxKill, MaxFail,
          None, Torn

Piece == {"tree", "cache", "seed", "world", "overlay", "plan"}
Profile == [Piece -> Version \cup {None}]

InstallerAssumption ==
  /\ {None, Torn} \cap (Version \cup Tool) = {} /\ None # Torn
  /\ None \notin Profile /\ Torn \notin Profile
  /\ None \notin [profile : Profile, tool : Tool]
  /\ Packaged \in [Version -> Tool \cup {None}]
  /\ MaxKill \in Nat /\ MaxFail \in Nat

Mark == {"early", "pending", "committed"}
Leaf == {"config", "index", "origin"}      \* what makes an authority
Executor == {"minitrue", "minipax"}

VARIABLES target,   \* the root, and what is in it
          run,      \* the run of minipax: its step, profile and options
          kills, failures

inst == <<target, run, kills, failures>>

Idle == [pc |-> "idle"]
Blank ==
  [mark |-> [m \in Mark |-> None], manifest |-> None,
   tree |-> None, pool |-> None, world |-> None, overlay |-> None,
   by |-> {}, authority |-> [l \in Leaf |-> None],
   exec |-> [x \in Executor |-> None]]

InstallerInit == target = Blank /\ run = Idle /\ kills = 0 /\ failures = 0

Offline == run.p["cache"] # None
At(label) == run.pc = label
Goto(label) == run' = [run EXCEPT !.pc = label]
Refuse == Goto("failed")
Put(field, value) == target' = [target EXCEPT ![field] = value]
Quiet == UNCHANGED <<kills, failures>>

----------------------------------------------------------------------------
(* Admission: prepare_target and the comparisons install makes before it   *)
(* writes: one marker at most, of this very profile, and a manifest, if    *)
(* there is one, of this profile and these executors.                      *)

Marked == {m \in Mark : target.mark[m] # None}
Manifest(r) == [profile |-> r.p, tool |-> r.tool]

Admissible(r) ==
  /\ Cardinality(Marked) <= 1
  /\ \A m \in Marked : target.mark[m] = r.p
  /\ IF r.resume THEN Marked # {} ELSE target = Blank
  /\ target.manifest \in {None, Manifest(r)}

Admit(r) ==
  /\ run' = [r EXCEPT !.pc = IF ~Admissible(r) THEN "failed"
                             ELSE IF Marked = {} THEN "mark" ELSE "scaffold"]
  /\ UNCHANGED target /\ Quiet

\* write_new creates the file, and then writes it.
WriteMark ==
  /\ At("mark")
  /\ IF target.mark["early"] = None
     THEN target' = [target EXCEPT !.mark["early"] = Torn] /\ UNCHANGED run
     ELSE target' = [target EXCEPT !.mark["early"] = run.p] /\ Goto("scaffold")
  /\ Quiet

Promote(from, to) ==
  target' = IF target.mark[from] = None THEN target
            ELSE [target EXCEPT !.mark[to] = target.mark[from], !.mark[from] = None]

\* The directories and the links of the usr-merge, then early becomes pending.
Scaffold == At("scaffold") /\ Promote("early", "pending") /\ Goto("snapshot") /\ Quiet

\* install_snapshot: renamed into place, or compared with what is there.
Snapshot ==
  /\ At("snapshot")
  /\ IF target.tree \in {None, run.p["tree"]}
     THEN Put("tree", run.p["tree"]) /\ Goto(IF Offline THEN "forget" ELSE "again")
     ELSE UNCHANGED target /\ Refuse
  /\ Quiet

----------------------------------------------------------------------------
(* The authority of the channels, removed and written a leaf at a time.    *)

\* remove_cache_authority, then on to the label.
Forget(here, next) ==
  /\ At(here)
  /\ \/ \E l \in Leaf : target.authority[l] # None /\ target' = [target EXCEPT !.authority[l] = None]
        /\ UNCHANGED run
     \/ (\A l \in Leaf : target.authority[l] = None) /\ UNCHANGED target /\ Goto(next)
  /\ Quiet

Authority(piece) ==
  [l \in Leaf |-> IF run.p[piece] = None THEN None ELSE <<piece, run.p[piece]>>]

\* apply_entries without replace, which accepts a leaf only if it is absent
\* or already the same, then on to the label.
Bring(here, piece, next) ==
  LET wanted == Authority(piece)
      foreign == {l \in Leaf : target.authority[l] \notin {None, wanted[l]}}
  IN /\ At(here)
     /\ \/ \E l \in Leaf : /\ target.authority[l] = None /\ wanted[l] # None
                           /\ target' = [target EXCEPT !.authority[l] = wanted[l]]
                           /\ UNCHANGED run
        \/ target.authority = wanted /\ UNCHANGED target /\ Goto(next)
        \/ foreign # {} /\ UNCHANGED target /\ Refuse
     /\ Quiet

\* Offline, the cache as measured, over no authority; its objects first.
Pool == At("pool") /\ Put("pool", run.p["cache"]) /\ Goto("borrow") /\ Quiet

\* Mutant: a resumed run keeps the index the run before it advanced.
AgainWithIndex ==
  /\ At("again") /\ Goto(IF run.p["seed"] = None THEN "rectify" ELSE "seed")
  /\ UNCHANGED target /\ Quiet

\* Online, the seed; a resumed run puts the measured one back.
Again ==
  /\ At("again")
  /\ Goto(IF run.p["seed"] = None THEN "rectify" ELSE IF run.resume THEN "reset" ELSE "seed")
  /\ UNCHANGED target /\ Quiet

AuthorityStep ==
  \/ Forget("forget", "pool") \/ Pool \/ Bring("borrow", "cache", "check")
  \/ Again \/ Forget("reset", "seed") \/ Bring("seed", "seed", "rectify")
  \/ Forget("expire", "last") \/ Bring("last", "seed", "persist")

----------------------------------------------------------------------------
(* The commands minitrue runs for the installation, and the overlay.       *)

\* cache verify: the objects of an offline cache, without the network.
CheckCache ==
  At("check") /\ target.pool = run.p["cache"] /\ Goto("rectify") /\ UNCHANGED target /\ Quiet

\* rectify installs the world, the executor among its packages, and an
\* online one advances the index of the channel past the seed.
Rectified(world) ==
  LET brought == Packaged[run.p["world"]] IN
  [target EXCEPT
     !.world = world, !.by = @ \cup {run.tool},
     !.authority["index"] = IF Offline \/ @ = None THEN @ ELSE <<"fresh">>,
     !.exec = IF brought = None \/ world = Torn THEN @ ELSE [x \in Executor |-> brought]]

Rectify ==
  At("rectify") /\ target' = Rectified(run.p["world"]) /\ Goto("verify") /\ Quiet

Verify ==
  /\ At("verify") \/ At("verify2")
  /\ target.world = run.p["world"] /\ UNCHANGED target /\ Quiet
  /\ \/ At("verify") /\ Goto("overlay")
     \/ At("verify2") /\ Goto(IF Offline THEN "expire" ELSE "persist")

\* apply_entries of the overlay, which replaces what is there.
Overlay ==
  /\ At("overlay")
  /\ \/ Put("overlay", Torn) /\ target.overlay = None /\ UNCHANGED run
     \/ Put("overlay", run.p["overlay"]) /\ Goto("verify2")
  /\ Quiet

\* A command of minitrue fails; rectify may have installed a part.
Fail ==
  /\ run.pc \in {"check", "rectify", "verify", "verify2"}
  /\ failures < MaxFail /\ failures' = failures + 1
  /\ target' \in {target} \cup (IF At("rectify") THEN {Rectified(Torn)} ELSE {})
  /\ Refuse /\ UNCHANGED kills

----------------------------------------------------------------------------
(* The end: persist_executor, the manifest, and the commit.                *)

\* What a package or an earlier run left must have the bytes that ran.
Persist ==
  /\ At("persist")
  /\ LET absent == {x \in Executor : target.exec[x] = None}
         next == IF "minitrue" \in absent THEN "minitrue" ELSE "minipax"
     IN IF \E x \in Executor \ absent : target.exec[x] # run.tool
        THEN UNCHANGED target /\ Refuse
        ELSE IF absent = {} THEN UNCHANGED target /\ Goto("manifest")
        ELSE target' = [target EXCEPT !.exec[next] = run.tool] /\ UNCHANGED run
  /\ Quiet

WriteManifest ==
  /\ At("manifest")
  /\ IF target.manifest = None
     THEN Put("manifest", Torn) /\ UNCHANGED run
     ELSE Put("manifest", Manifest(run)) /\ Goto("commit")
  /\ Quiet

Commit == At("commit") /\ Promote("pending", "committed") /\ Goto("done") /\ Quiet

Working == run.pc \notin {"idle", "done", "failed"}

\* The process dies, or the machine.
Kill ==
  /\ Working /\ kills < MaxKill
  /\ kills' = kills + 1 /\ run' = Idle /\ UNCHANGED <<target, failures>>

InstallStep ==
  \/ WriteMark \/ Scaffold \/ Snapshot \/ AuthorityStep \/ CheckCache \/ Rectify
  \/ Verify \/ Overlay \/ Persist \/ WriteManifest \/ Commit

----------------------------------------------------------------------------
(* What the installation promises.                                         *)

\* A target holds pieces of one profile, the one its marker names, whatever
\* the runs it took and wherever they were cut.
OneProfile ==
  \A m \in Marked : target.mark[m] # Torn =>
    LET p == target.mark[m] IN
    /\ \A f \in {"tree", "world", "overlay"} : target[f] \in {None, Torn, p[f]}
    /\ target.pool \in {None, p["cache"]}

\* The commit comes last: everything of the profile is in the target, what
\* runs it is what installed it, and the channels are those of the profile,
\* with nothing of the cache left among them.
Complete(p) ==
  /\ \A f \in {"tree", "world", "overlay"} : target[f] = p[f]
  /\ target.manifest # None /\ target.manifest.profile = p
  /\ \A x \in Executor : target.exec[x] = target.manifest.tool
  /\ \A l \in Leaf : target.authority[l] \in
       IF p["seed"] = None THEN {None} ELSE {<<"seed", p["seed"]>>, <<"fresh">>}

CommitStep ==
  target'.mark["committed"] \notin {None, target.mark["committed"]} =>
    Complete(target.mark["committed"])'

\* SPEC-0010, --resume demands the same manifest: one executor installed all.
OneExecutor == target.mark["committed"] # None => target.by = {target.manifest.tool}
=============================================================================
