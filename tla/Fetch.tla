-------------------------------- MODULE Fetch --------------------------------
(***************************************************************************)
(* The cache of minitrue (fetch.rs): sources under the name of their hash, *)
(* and beside them the signatures and signed manifests that authenticate   *)
(* them, under names made of the artifact, the key and the address.        *)
(* Several processes fill it at once, while the site publishes again and   *)
(* processes die.  Nothing in it is ever replaced.                         *)
(***************************************************************************)
EXTENDS Naturals, Sequences

CONSTANTS
  Process,      \* who fetches
  SOURCES,      \* the sources of the recipe, in order
  GROUPS,       \* what is verified together, in order: <<signature>> of a
                \* source, or <<manifest, signature>>
  WAIVED,       \* the sources whose signature the recipe waives
  REFUSED,      \* those of them whose signature the engine refuses indeed
  MaxRun,       \* bound on the runs
  MaxKill,      \* bound on kills and failures of the network
  MaxPublish,   \* bound on what the site publishes again
  MaxEdit       \* bound on edits of the cache by others

Auxiliary == UNION {{GROUPS[g][k] : k \in DOMAIN GROUPS[g]} : g \in DOMAIN GROUPS}
Url == {SOURCES[k] : k \in DOMAIN SOURCES} \cup Auxiliary

\* A recipe without sources fetches nothing.
FetchAssumption ==
  /\ SOURCES \in Seq(Url) /\ SOURCES # <<>>
  /\ GROUPS \in Seq(Seq(Auxiliary)) /\ \A g \in DOMAIN GROUPS : GROUPS[g] # <<>>
  /\ \A k \in DOMAIN SOURCES : SOURCES[k] \notin Auxiliary

VARIABLES
  site,    \* site[u]: what the address gives now
  cache,   \* cache[u]: what is under the name of the object, or "absent"
  proc,    \* proc[p]: where a process is and what it holds
  sealed,  \* the objects of some run that ended well
  spent    \* what was used of the bounds

fvars == <<site, cache, proc, sealed, spent>>

\* Contents: "good" is the source the recipe pins; "v1" and "v2" are two
\* publications of signatures of it; "bad" is anything else.
Idle == [pc |-> "idle", offline |-> FALSE, at |-> 0, part |-> 1, held |-> [u \in Url |-> "none"],
         temporary |-> {}]

Init ==
  /\ site = [u \in Url |-> IF u \in Auxiliary THEN "v1" ELSE "good"]
  /\ cache = [u \in Url |-> "absent"]
  /\ proc = [p \in Process |-> Idle]
  /\ sealed = FALSE
  /\ spent = [runs |-> 0, kills |-> 0, publications |-> 0, edits |-> 0]

\* A group speaks for the sources when it is of one publication.
Authentic(g, content) ==
  \E v \in {"v1", "v2"} : \A k \in DOMAIN GROUPS[g] : content[GROUPS[g][k]] = v

-----------------------------------------------------------------------------
(* The rest of the world.                                                  *)

Republish(u) ==
  /\ spent.publications < MaxPublish
  /\ \E c \in {"v1", "v2", "bad", "good"} \ {site[u]} :
       /\ u \in Auxiliary => c # "good"
       /\ u \notin Auxiliary => c \in {"good", "bad"}
       /\ site' = [site EXCEPT ![u] = c]
  /\ spent' = [spent EXCEPT !.publications = @ + 1]
  /\ UNCHANGED <<cache, proc, sealed>>

Edit(u) ==
  /\ spent.edits < MaxEdit /\ cache[u] \notin {"absent", "bad"}
  /\ cache' = [cache EXCEPT ![u] = "bad"]
  /\ spent' = [spent EXCEPT !.edits = @ + 1]
  /\ UNCHANGED <<site, proc, sealed>>

-----------------------------------------------------------------------------
(* A run.  A failure drops the temporaries (Drop of AuxiliaryObject).      *)

Begin(p, offline) ==
  /\ proc[p].pc = "idle" /\ spent.runs < MaxRun
  /\ proc' = [proc EXCEPT ![p] = [Idle EXCEPT !.pc = "source", !.offline = offline, !.at = 1]]
  /\ spent' = [spent EXCEPT !.runs = @ + 1]
  /\ UNCHANGED <<site, cache, sealed>>

Go(p, state) == proc' = [proc EXCEPT ![p] = state]
GiveUp(p) == Go(p, Idle)

\* After a source comes the next, then the groups, then the end.
NextSource(me) ==
  IF me.at < Len(SOURCES) THEN [me EXCEPT !.pc = "source", !.at = @ + 1]
  ELSE [me EXCEPT !.pc = IF GROUPS = <<>> THEN "end" ELSE "obtain", !.at = 1, !.part = 1]

NextGroup(me) ==
  IF me.at < Len(GROUPS) THEN [me EXCEPT !.pc = "obtain", !.at = @ + 1, !.part = 1]
  ELSE [me EXCEPT !.pc = "end"]

NextPart(me, after) ==
  IF me.part < Len(GROUPS[me.at]) THEN [me EXCEPT !.part = @ + 1]
  ELSE [me EXCEPT !.pc = after, !.part = 1]

Wanted(me) == IF me.pc \in {"source", "check"} THEN SOURCES[me.at] ELSE GROUPS[me.at][me.part]

\* A source in the cache is what it is called, or the run fails; it is never
\* fetched again.
CachedSource(p) ==
  LET me == proc[p]  s == Wanted(me) IN
  /\ me.pc = "source" /\ cache[s] # "absent"
  /\ IF cache[s] = "good" THEN Go(p, NextSource([me EXCEPT !.held[s] = "good"]))
     ELSE GiveUp(p)
  /\ UNCHANGED <<site, cache, sealed, spent>>

\* obtain_auxiliary of what is in the cache.
CachedAuxiliary(p) ==
  LET me == proc[p]  u == Wanted(me) IN
  /\ me.pc = "obtain" /\ cache[u] # "absent"
  /\ Go(p, NextPart([me EXCEPT !.held[u] = cache[u]], "verify"))
  /\ UNCHANGED <<site, cache, sealed, spent>>

\* download_temp_bounded: into a temporary of its own, hashed on the way.
Download(p) ==
  LET me == proc[p]  u == Wanted(me)
      got == [me EXCEPT !.held[u] = site[u], !.temporary = @ \cup {u}] IN
  /\ me.pc \in {"source", "obtain"} /\ cache[u] = "absent" /\ ~me.offline
  /\ Go(p, IF me.pc = "source" THEN [got EXCEPT !.pc = "check"] ELSE NextPart(got, "verify"))
  /\ UNCHANGED <<site, cache, sealed, spent>>

Missing(p) ==
  /\ proc[p].pc \in {"source", "obtain"} /\ cache[Wanted(proc[p])] = "absent" /\ proc[p].offline
  /\ GiveUp(p)
  /\ UNCHANGED <<site, cache, sealed, spent>>

\* publish_noreplace: the first keeps the name, the other takes what is there.
Placed(u, me) == IF cache[u] = "absent" THEN [cache EXCEPT ![u] = me.held[u]] ELSE cache

Settled(u, me) == [me EXCEPT !.held[u] = Placed(u, me)[u], !.temporary = @ \ {u}]

PublishSource(p) ==
  LET me == proc[p]  s == Wanted(me) IN
  /\ me.pc = "check"
  /\ IF me.held[s] = "good"
     THEN /\ cache' = Placed(s, me)
          /\ IF cache'[s] = "good" THEN Go(p, NextSource(Settled(s, me))) ELSE GiveUp(p)
     ELSE GiveUp(p) /\ UNCHANGED cache
  /\ UNCHANGED <<site, sealed, spent>>

\* ensure_stable: what is held is what is under the name.
Stable(me, u) == u \in me.temporary \/ cache[u] = me.held[u]

\* Mutant: what comes over the network is verified once it is in the cache.
ProvedLater(me) == me.temporary # {} \/ Authentic(me.at, me.held)

\* verify_minisign_plan, verify_openpgp_*_plan: before anything is published.
Proved(me) == Authentic(me.at, me.held)

Verify(p) ==
  LET me == proc[p] IN
  /\ me.pc = "verify"
  /\ IF /\ Proved(me)
        /\ \A k \in DOMAIN GROUPS[me.at] : Stable(me, GROUPS[me.at][k])
     THEN Go(p, IF me.temporary = {} THEN NextGroup(me) ELSE [me EXCEPT !.pc = "publish"])
     ELSE GiveUp(p)
  /\ UNCHANGED <<site, cache, sealed, spent>>

\* publish_auxiliary of each part in its turn.
PublishAuxiliary(p) ==
  LET me == proc[p]  u == Wanted(me) IN
  /\ me.pc = "publish"
  /\ IF u \in me.temporary
     THEN cache' = Placed(u, me) /\ Go(p, NextPart(Settled(u, me), "reread"))
     ELSE UNCHANGED cache /\ Go(p, NextPart(me, "reread"))
  /\ UNCHANGED <<site, sealed, spent>>

\* What was published is read again, and verified again.
Reread(p) ==
  LET me == proc[p] IN
  /\ me.pc = "reread"
  /\ IF /\ Authentic(me.at, me.held)
        /\ \A k \in DOMAIN GROUPS[me.at] : Stable(me, GROUPS[me.at][k])
     THEN Go(p, NextGroup(me)) ELSE GiveUp(p)
  /\ UNCHANGED <<site, cache, sealed, spent>>

\* verify_unsafe_signature_waiver: a waiver is for what the engine refuses.
\* Then the artifacts are looked at once more.
End(p) ==
  LET me == proc[p]
      ok == /\ WAIVED \subseteq REFUSED
            /\ \A k \in DOMAIN SOURCES : Stable(me, SOURCES[k]) IN
  /\ me.pc = "end"
  /\ sealed' = (sealed \/ ok)
  /\ GiveUp(p)
  /\ UNCHANGED <<site, cache, spent>>

\* A kill, or a network that fails in the middle.
Stop(p) ==
  /\ proc[p].pc # "idle" /\ spent.kills < MaxKill
  /\ GiveUp(p)
  /\ spent' = [spent EXCEPT !.kills = @ + 1]
  /\ UNCHANGED <<site, cache, sealed>>

Step(p) ==
  \/ CachedSource(p) \/ CachedAuxiliary(p) \/ Download(p) \/ Missing(p)
  \/ PublishSource(p) \/ Verify(p) \/ PublishAuxiliary(p) \/ Reread(p) \/ End(p)

Next ==
  \/ \E p \in Process : Step(p) \/ Stop(p) \/ \E offline \in BOOLEAN : Begin(p, offline)
  \/ \E u \in Url : Republish(u) \/ Edit(u)

Spec == Init /\ [][Next]_fvars

TypeOK ==
  /\ cache \in [Url -> {"absent", "good", "v1", "v2", "bad"}]
  /\ \A p \in Process : proc[p].temporary \subseteq Url

-----------------------------------------------------------------------------
(* Properties.                                                             *)

Untouched == spent.edits = 0

\* Whatever the site gives and whoever dies or races, what is in the cache is
\* what its name says, or has once spoken for its source; and once a run has
\* authenticated the recipe, everything a run without network needs is there
\* and agrees, for good (publish_noreplace, verify_*_plan).
CacheIsTrue ==
  Untouched =>
    /\ \A u \in Url : cache[u] # "bad"
    /\ sealed => /\ \A k \in DOMAIN SOURCES : cache[SOURCES[k]] = "good"
                 /\ \A g \in DOMAIN GROUPS : Authentic(g, cache)

\* A run that a site at rest would satisfy is not prevented by what earlier
\* runs left (fetch.rs:1998-2010 publish the two parts of a group one by one).
Completed(g) ==
  LET content == [u \in Url |-> IF cache[u] = "absent" THEN site[u] ELSE cache[u]]
  IN  Authentic(g, content)

NeverStranded ==
  Untouched => \A g \in DOMAIN GROUPS : Authentic(g, site) => Completed(g)

=============================================================================
