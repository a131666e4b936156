----------------------------- MODULE FetchProofs -----------------------------
(***************************************************************************)
(* Three parts of MCSupply, each for any values of its constants.          *)
(* CacheIsTrue, for any processes, sources, groups and bounds: the cache   *)
(* only grows (Grown), it holds only what its names say (Clean), and a     *)
(* process that has come past a source or a group has seen it there        *)
(* (Seen), for good.  And InputsAreAdmitted, for any recipes: what a lock  *)
(* states is the statement of a recipe that loads (Stated), and such a     *)
(* statement is admitted whichever mechanism the recipe has.  And          *)
(* BuiltIsDeclared, for any packages and providers: a view holds of each   *)
(* provider exactly what the plan has frozen of it, and what is frozen of  *)
(* a package is itself and what is frozen of its providers (Built).        *)
(***************************************************************************)
EXTENDS Fetch, Evidence, Build, FiniteSetTheorems, TLAPS

Pcs == {"idle", "source", "check", "obtain", "verify", "publish", "reread", "end"}

ProcType ==
  [pc : Pcs, offline : BOOLEAN, at : Nat, part : Nat,
   held : [Url -> {"none", "absent", "good", "v1", "v2", "bad"}], temporary : SUBSET Url]

Types ==
  /\ site \in [Url -> {"good", "v1", "v2", "bad"}]
  /\ cache \in [Url -> {"absent", "good", "v1", "v2", "bad"}]
  /\ proc \in [Process -> ProcType]
  /\ sealed \in BOOLEAN
  /\ spent \in [runs : Nat, kills : Nat, publications : Nat, edits : Nat]

\* The source or group a process is at, and the part of the group; what it still
\* has to publish it has verified.
Placement(me) ==
  /\ me.pc \in {"source", "check"} => me.at \in DOMAIN SOURCES
  /\ me.pc \in {"obtain", "verify", "publish", "reread"} => me.at \in DOMAIN GROUPS
  /\ me.pc \in {"obtain", "publish"} => me.part \in DOMAIN GROUPS[me.at]
  /\ me.pc = "verify" => me.part = 1
  /\ me.pc = "publish" => \A k \in DOMAIN GROUPS[me.at] :
       /\ k < me.part => GROUPS[me.at][k] \notin me.temporary
       /\ GROUPS[me.at][k] \in me.temporary => me.held[GROUPS[me.at][k]] \in {"v1", "v2"}
  /\ me.pc = "reread" => \A k \in DOMAIN GROUPS[me.at] : GROUPS[me.at][k] \notin me.temporary

Clean(c) ==
  /\ \A k \in DOMAIN SOURCES : c[SOURCES[k]] \in {"absent", "good"}
  /\ \A u \in Auxiliary : c[u] \in {"absent", "v1", "v2"}

Complete(c) ==
  /\ \A k \in DOMAIN SOURCES : c[SOURCES[k]] = "good"
  /\ \A g \in DOMAIN GROUPS : Authentic(g, c)

\* What a process has come past is in the cache.
Seen(me, c) ==
  /\ me.pc \in {"source", "check"} =>
       \A k \in DOMAIN SOURCES : k < me.at => c[SOURCES[k]] = "good"
  /\ me.pc \in {"obtain", "verify", "publish", "reread"} =>
       /\ \A k \in DOMAIN SOURCES : c[SOURCES[k]] = "good"
       /\ \A g \in DOMAIN GROUPS : g < me.at => Authentic(g, c)
  /\ me.pc = "end" => Complete(c)

IInv ==
  /\ Types
  /\ \A p \in Process : Placement(proc[p])
  /\ Untouched => /\ Clean(cache)
                  /\ sealed => Complete(cache)
                  /\ \A p \in Process : Seen(proc[p], cache)

Grown(c, d) == \A u \in Url : c[u] # "absent" => d[u] = c[u]

-----------------------------------------------------------------------------
\* Sources and groups are sequences of addresses.
LEMMA NameFacts ==
  ASSUME FetchAssumption
  PROVE  /\ Len(SOURCES) \in Nat /\ DOMAIN SOURCES = 1 .. Len(SOURCES) /\ Len(SOURCES) >= 1
         /\ Len(GROUPS) \in Nat /\ DOMAIN GROUPS = 1 .. Len(GROUPS)
         /\ GROUPS # <<>> => Len(GROUPS) >= 1
         /\ GROUPS = <<>> => DOMAIN GROUPS = {}
         /\ \A k \in DOMAIN SOURCES : SOURCES[k] \in Url /\ SOURCES[k] \notin Auxiliary
         /\ \A g \in DOMAIN GROUPS :
              /\ Len(GROUPS[g]) \in Nat /\ DOMAIN GROUPS[g] = 1 .. Len(GROUPS[g])
              /\ Len(GROUPS[g]) >= 1
              /\ \A k \in DOMAIN GROUPS[g] : GROUPS[g][k] \in Auxiliary
         /\ Auxiliary \subseteq Url
<1>1. SOURCES \in Seq(Url) /\ SOURCES # <<>> /\ GROUPS \in Seq(Seq(Auxiliary))
  BY DEF FetchAssumption
<1>2. ASSUME NEW g \in DOMAIN GROUPS
      PROVE  /\ Len(GROUPS[g]) \in Nat /\ DOMAIN GROUPS[g] = 1 .. Len(GROUPS[g])
             /\ Len(GROUPS[g]) >= 1
             /\ \A k \in DOMAIN GROUPS[g] : GROUPS[g][k] \in Auxiliary
  <2>1. GROUPS[g] \in Seq(Auxiliary) /\ GROUPS[g] # <<>>
    BY <1>1 DEF FetchAssumption
  <2> QED
    BY <2>1
<1> QED
  BY <1>1, <1>2 DEF FetchAssumption, Url

\* What a process has seen it still sees in a cache that has grown.
LEMMA GrownFacts ==
  ASSUME FetchAssumption, NEW c, NEW d, Grown(c, d)
  PROVE  /\ \A g \in DOMAIN GROUPS : Authentic(g, c) => Authentic(g, d)
         /\ Complete(c) => Complete(d)
         /\ \A me : Placement(me) /\ Seen(me, c) => Seen(me, d)
<1>1. ASSUME NEW g \in DOMAIN GROUPS, Authentic(g, c)
      PROVE  Authentic(g, d)
  <2>1. PICK v \in {"v1", "v2"} : \A k \in DOMAIN GROUPS[g] : c[GROUPS[g][k]] = v
    BY <1>1 DEF Authentic
  <2>2. \A k \in DOMAIN GROUPS[g] : d[GROUPS[g][k]] = v
    BY <2>1, NameFacts DEF Grown
  <2> QED
    BY <2>2 DEF Authentic
<1>2. \A k \in DOMAIN SOURCES : c[SOURCES[k]] = "good" => d[SOURCES[k]] = "good"
  BY NameFacts DEF Grown
<1>3. Complete(c) => Complete(d)
  BY <1>1, <1>2 DEF Complete
<1> QED
  BY <1>1, <1>2, <1>3 DEF Seen

\* The cache after a publication under a name that may be free.
LEMMA PlacedFacts ==
  ASSUME FetchAssumption, Types, NEW u \in Url, NEW me \in ProcType, Clean(cache),
         \/ u \in Auxiliary /\ me.held[u] \in {"v1", "v2"}
         \/ u \notin Auxiliary /\ me.held[u] = "good"
  PROVE  /\ Grown(cache, Placed(u, me)) /\ Clean(Placed(u, me))
         /\ Placed(u, me) \in [Url -> {"absent", "good", "v1", "v2", "bad"}]
         /\ Placed(u, me)[u] # "absent"
BY NameFacts DEF Types, Placed, Grown, Clean, ProcType

\* A process at another place, with what it holds.
Moved(me, pc, at, part) ==
  [pc |-> pc, offline |-> me.offline, at |-> at, part |-> part,
   held |-> me.held, temporary |-> me.temporary]

\* A move keeps the type of a process and what it holds.
LEMMA MoveFacts ==
  ASSUME NEW me \in ProcType, NEW pc \in Pcs, NEW at \in Nat, NEW part \in Nat
  PROVE  LET new == Moved(me, pc, at, part) IN
         /\ new \in ProcType /\ new.pc = pc /\ new.at = at /\ new.part = part
         /\ new.held = me.held /\ new.temporary = me.temporary
BY DEF ProcType, Moved

\* To the next source, or to the groups, or to the end.
LEMMA NextSourceFacts ==
  ASSUME FetchAssumption, NEW me \in ProcType, me.pc \in {"source", "check"}, Placement(me)
  PROVE  LET new == NextSource(me) IN
         /\ new \in ProcType /\ Placement(new)
         /\ \A c : Seen(me, c) /\ c[SOURCES[me.at]] = "good" => Seen(new, c)
<1>1. me.at \in 1 .. Len(SOURCES) /\ Len(SOURCES) \in Nat
  BY NameFacts DEF Placement
<1>2. PICK new : new = NextSource(me)
  OBVIOUS
<1>3. CASE me.at < Len(SOURCES)
  <2>1. PICK n \in Nat : n = me.at + 1
    BY <1>1
  <2>2. new = Moved(me, "source", n, me.part)
    BY <1>2, <1>3, <2>1 DEF NextSource, ProcType, Moved
  <2>3. new \in ProcType /\ new.pc = "source" /\ new.at = n
    <3>1. me.part \in Nat /\ "source" \in Pcs
      BY DEF ProcType, Pcs
    <3> QED
      BY <2>2, <3>1, MoveFacts
  <2>4. ASSUME NEW c, Seen(me, c), c[SOURCES[me.at]] = "good"
        PROVE  Seen(new, c)
    <3>1. \A k \in DOMAIN SOURCES : k < n => k < me.at \/ k = me.at
      BY <1>1, <2>1, NameFacts
    <3>2. \A k \in DOMAIN SOURCES : k < n => c[SOURCES[k]] = "good"
      BY <2>4, <3>1 DEF Seen
    <3> QED
      BY <2>3, <3>2 DEF Seen
  <2>5. Placement(new)
    BY <1>1, <1>3, <2>1, <2>3, NameFacts DEF Placement
  <2> QED
    BY <1>2, <2>3, <2>4, <2>5
<1>4. CASE ~(me.at < Len(SOURCES))
  <2>1. new = Moved(me, IF GROUPS = <<>> THEN "end" ELSE "obtain", 1, 1)
    BY <1>2, <1>4 DEF NextSource, ProcType, Moved
  <2>2. /\ new \in ProcType /\ new.at = 1 /\ new.part = 1
        /\ new.pc = IF GROUPS = <<>> THEN "end" ELSE "obtain"
    <3>1. (IF GROUPS = <<>> THEN "end" ELSE "obtain") \in Pcs /\ 1 \in Nat
      BY DEF Pcs
    <3> QED
      BY <2>1, <3>1, MoveFacts
  <2>3. ASSUME NEW c, Seen(me, c), c[SOURCES[me.at]] = "good"
        PROVE  Seen(new, c)
    <3>1. \A k \in DOMAIN SOURCES : k < me.at \/ k = me.at
      BY <1>1, <1>4, NameFacts
    <3>2. \A k \in DOMAIN SOURCES : c[SOURCES[k]] = "good"
      BY <2>3, <3>1 DEF Seen
    <3>3. CASE GROUPS = <<>>
      BY <2>2, <3>2, <3>3, NameFacts DEF Seen, Complete
    <3>4. CASE GROUPS # <<>>
      BY <2>2, <3>2, <3>4, NameFacts DEF Seen
    <3> QED
      BY <3>3, <3>4
  <2>4. Placement(new)
    BY <2>2, NameFacts DEF Placement
  <2> QED
    BY <1>2, <2>2, <2>3, <2>4
<1> QED
  BY <1>3, <1>4

\* To the next group, or to the end.
LEMMA NextGroupFacts ==
  ASSUME FetchAssumption, NEW me \in ProcType, me.pc \in {"verify", "reread"}, Placement(me)
  PROVE  LET new == NextGroup(me) IN
         /\ new \in ProcType /\ Placement(new)
         /\ \A c : Seen(me, c) /\ Authentic(me.at, c) => Seen(new, c)
<1>1. me.at \in 1 .. Len(GROUPS) /\ Len(GROUPS) \in Nat
  BY NameFacts DEF Placement
<1>2. PICK new : new = NextGroup(me)
  OBVIOUS
<1>3. CASE me.at < Len(GROUPS)
  <2>1. PICK n \in Nat : n = me.at + 1
    BY <1>1
  <2>2. new = Moved(me, "obtain", n, 1)
    BY <1>2, <1>3, <2>1 DEF NextGroup, ProcType, Moved
  <2>3. new \in ProcType /\ new.pc = "obtain" /\ new.at = n /\ new.part = 1
    <3>1. 1 \in Nat /\ "obtain" \in Pcs
      BY DEF Pcs
    <3> QED
      BY <2>2, <3>1, MoveFacts
  <2>4. ASSUME NEW c, Seen(me, c), Authentic(me.at, c)
        PROVE  Seen(new, c)
    <3>1. \A g \in DOMAIN GROUPS : g < n => g < me.at \/ g = me.at
      BY <1>1, <2>1, NameFacts
    <3>2. \A g \in DOMAIN GROUPS : g < n => Authentic(g, c)
      BY <2>4, <3>1 DEF Seen
    <3>3. \A k \in DOMAIN SOURCES : c[SOURCES[k]] = "good"
      BY <2>4 DEF Seen
    <3> QED
      BY <2>3, <3>2, <3>3 DEF Seen
  <2>5. Placement(new)
    BY <1>1, <1>3, <2>1, <2>3, NameFacts DEF Placement
  <2> QED
    BY <1>2, <2>3, <2>4, <2>5
<1>4. CASE ~(me.at < Len(GROUPS))
  <2>1. new \in ProcType /\ new.pc = "end"
    <3>1. new = Moved(me, "end", me.at, me.part) /\ me.at \in Nat /\ me.part \in Nat
          /\ "end" \in Pcs
      BY <1>2, <1>4 DEF NextGroup, ProcType, Moved, Pcs
    <3> QED
      BY <3>1, MoveFacts
  <2>2. ASSUME NEW c, Seen(me, c), Authentic(me.at, c)
        PROVE  Seen(new, c)
    <3>1. \A g \in DOMAIN GROUPS : g < me.at \/ g = me.at
      BY <1>1, <1>4, NameFacts
    <3>2. Complete(c)
      BY <2>2, <3>1 DEF Seen, Complete
    <3> QED
      BY <2>1, <3>2 DEF Seen
  <2> QED
    BY <1>2, <2>1, <2>2 DEF Placement
<1> QED
  BY <1>3, <1>4

\* To the next part of the group, or to what follows the last one.
LEMMA NextPartFacts ==
  ASSUME FetchAssumption, NEW me \in ProcType, NEW after \in Pcs,
         me.at \in DOMAIN GROUPS, me.part \in DOMAIN GROUPS[me.at]
  PROVE  LET new == NextPart(me, after) IN
         /\ new \in ProcType /\ new.at = me.at
         /\ new.held = me.held /\ new.temporary = me.temporary
         /\ \/ /\ new.pc = me.pc /\ new.part = me.part + 1
               /\ new.part \in DOMAIN GROUPS[me.at]
            \/ new.pc = after /\ new.part = 1 /\ me.part = Len(GROUPS[me.at])
<1>1. me.part \in 1 .. Len(GROUPS[me.at]) /\ Len(GROUPS[me.at]) \in Nat /\ me.at \in Nat
  BY NameFacts
<1>2. PICK new : new = NextPart(me, after)
  OBVIOUS
<1>3. CASE me.part < Len(GROUPS[me.at])
  <2>1. PICK n \in Nat : n = me.part + 1
    BY <1>1
  <2>2. new = Moved(me, me.pc, me.at, n)
    BY <1>2, <1>3, <2>1 DEF NextPart, ProcType, Moved
  <2>3. me.pc \in Pcs /\ n \in DOMAIN GROUPS[me.at]
    BY <1>1, <1>3, <2>1, NameFacts DEF ProcType
  <2>4. /\ new \in ProcType /\ new.at = me.at /\ new.pc = me.pc /\ new.part = n
        /\ new.held = me.held /\ new.temporary = me.temporary
    <3>1. PICK pc \in Pcs, at \in Nat : pc = me.pc /\ at = me.at
      BY <1>1, <2>3
    <3>2. new = Moved(me, pc, at, n)
      BY <2>2, <3>1
    <3>3. /\ new \in ProcType /\ new.at = at /\ new.pc = pc /\ new.part = n
          /\ new.held = me.held /\ new.temporary = me.temporary
      BY <3>2, MoveFacts
    <3> QED
      BY <3>1, <3>3
  <2> QED
    BY <1>2, <2>1, <2>3, <2>4
<1>4. CASE ~(me.part < Len(GROUPS[me.at]))
  <2>1. new = Moved(me, after, me.at, 1)
    BY <1>2, <1>4 DEF NextPart, ProcType, Moved
  <2>2. me.part = Len(GROUPS[me.at])
    BY <1>1, <1>4
  <2>3. /\ new \in ProcType /\ new.at = me.at /\ new.pc = after /\ new.part = 1
        /\ new.held = me.held /\ new.temporary = me.temporary
    <3>1. PICK pc \in Pcs, at \in Nat, one \in Nat : pc = after /\ at = me.at /\ one = 1
      BY <1>1
    <3>2. new = Moved(me, pc, at, one)
      BY <2>1, <3>1
    <3>3. /\ new \in ProcType /\ new.at = at /\ new.pc = pc /\ new.part = one
          /\ new.held = me.held /\ new.temporary = me.temporary
      BY <3>2, MoveFacts
    <3> QED
      BY <3>1, <3>3
  <2> QED
    BY <1>2, <2>2, <2>3
<1> QED
  BY <1>3, <1>4

\* A process that gave up remembers nothing.
LEMMA IdleFacts == Idle \in ProcType /\ Placement(Idle) /\ \A c : Seen(Idle, c)
BY DEF Idle, ProcType, Pcs, Placement, Seen

\* A step of one process that only adds to the cache: what is left to see is what the
\* process itself has seen.
LEMMA StepKeeps ==
  ASSUME FetchAssumption, IInv, NEW p \in Process, NEW new \in ProcType,
         Go(p, new), Placement(new),
         cache' \in [Url -> {"absent", "good", "v1", "v2", "bad"}],
         UNCHANGED <<site, sealed, spent>>,
         Untouched => Grown(cache, cache') /\ Clean(cache') /\ Seen(new, cache')
  PROVE  IInv'
<1>1. Types
  BY DEF IInv
<1>2. proc' \in [Process -> ProcType] /\ proc'[p] = new
      /\ \A q \in Process \ {p} : proc'[q] = proc[q]
  BY <1>1 DEF Go, Types
<1>3. Types'
  BY <1>1, <1>2 DEF Types
<1>4. \A q \in Process : Placement(proc'[q])
  BY <1>2 DEF IInv
<1>5. ASSUME Untouched'
      PROVE  /\ Clean(cache') /\ (sealed' => Complete(cache'))
             /\ \A q \in Process : Seen(proc'[q], cache')
  <2>1. Untouched
    BY <1>5 DEF Untouched
  <2>2. \A q \in Process \ {p} : Seen(proc'[q], cache')
    BY <1>2, <2>1, GrownFacts DEF IInv
  <2>3. sealed' => Complete(cache')
    BY <2>1, GrownFacts DEF IInv
  <2> QED
    BY <1>2, <2>1, <2>2, <2>3
<1> QED
  BY <1>3, <1>4, <1>5 DEF IInv

\* ... and nothing to the cache.
LEMMA QuietStepKeeps ==
  ASSUME FetchAssumption, IInv, NEW p \in Process, NEW new \in ProcType,
         Go(p, new), Placement(new), UNCHANGED <<site, cache, sealed, spent>>,
         Untouched => Seen(new, cache)
  PROVE  IInv'
<1>1. Grown(cache, cache') /\ cache' \in [Url -> {"absent", "good", "v1", "v2", "bad"}]
  BY DEF Grown, IInv, Types
<1>2. Untouched => Clean(cache') /\ Seen(new, cache')
  BY DEF IInv
<1> QED
  BY <1>1, <1>2, StepKeeps

LEMMA IInvKept ==
  ASSUME FetchAssumption, IInv, [Next]_fvars
  PROVE  IInv'
<1>1. Types /\ \A p \in Process : proc[p] \in ProcType /\ Placement(proc[p])
  BY DEF IInv, Types
<1>2. \A p \in Process : Untouched => Seen(proc[p], cache)
  BY DEF IInv
<1>3. ASSUME NEW p \in Process, GiveUp(p), UNCHANGED <<site, cache, sealed, spent>>
      PROVE  IInv'
  BY <1>3, IdleFacts, QuietStepKeeps DEF GiveUp
<1>4. ASSUME NEW p \in Process, CachedSource(p)
      PROVE  IInv'
  <2> DEFINE me == proc[p]  s == SOURCES[me.at]  got == [me EXCEPT !.held[s] = "good"]
  <2>1. /\ me.pc = "source" /\ me \in ProcType /\ Placement(me) /\ me.at \in DOMAIN SOURCES
        /\ s \in Url /\ UNCHANGED <<site, cache, sealed, spent>>
    BY <1>1, <1>4, NameFacts DEF CachedSource, Placement
  <2>2. (cache[s] = "good" /\ Go(p, NextSource(got))) \/ GiveUp(p)
    BY <1>4, <2>1 DEF CachedSource, Wanted
  <2>3. CASE GiveUp(p)
    BY <1>3, <2>1, <2>3
  <2>4. CASE cache[s] = "good" /\ Go(p, NextSource(got))
    <3>1. /\ got \in ProcType /\ got.pc = me.pc /\ got.at = me.at
      BY <2>1 DEF ProcType
    <3>2. Placement(got) /\ (Untouched => Seen(got, cache))
      BY <1>2, <2>1, <3>1 DEF Placement, Seen
    <3> HIDE DEF got
    <3>3. PICK new : new = NextSource(got)
      OBVIOUS
    <3>4. new \in ProcType /\ Placement(new) /\ (Untouched => Seen(new, cache))
      BY <2>1, <2>4, <3>1, <3>2, <3>3, NextSourceFacts
    <3> QED
      BY <2>1, <2>4, <3>3, <3>4, QuietStepKeeps
  <2> QED
    BY <2>2, <2>3, <2>4
<1>5. ASSUME NEW p \in Process, CachedAuxiliary(p) \/ Download(p)
      PROVE  IInv'
  <2> DEFINE me == proc[p]
  <2>1. /\ me \in ProcType /\ Placement(me) /\ me.pc \in {"source", "obtain"}
        /\ Wanted(me) \in Url /\ UNCHANGED <<site, cache, sealed, spent>>
    BY <1>1, <1>5, NameFacts DEF CachedAuxiliary, Download, Placement, Wanted
  <2>2. PICK got \in ProcType :
          /\ got.pc = me.pc /\ got.at = me.at /\ got.part = me.part
          /\ \/ me.pc = "source" /\ Go(p, [got EXCEPT !.pc = "check"])
             \/ me.pc = "obtain" /\ Go(p, NextPart(got, "verify"))
    <3>1. CASE CachedAuxiliary(p)
      <4> DEFINE held == [me EXCEPT !.held[Wanted(me)] = cache[Wanted(me)]]
      <4>1. cache[Wanted(me)] \in {"none", "absent", "good", "v1", "v2", "bad"}
        BY <1>1, <2>1 DEF Types
      <4>2. held \in ProcType /\ held.pc = me.pc /\ held.at = me.at /\ held.part = me.part
        BY <2>1, <4>1 DEF ProcType
      <4>3. me.pc = "obtain" /\ Go(p, NextPart(held, "verify"))
        BY <3>1 DEF CachedAuxiliary
      <4> QED
        BY <4>2, <4>3
    <3>2. CASE Download(p)
      <4> DEFINE held == [me EXCEPT !.held[Wanted(me)] = site[Wanted(me)],
                                    !.temporary = @ \cup {Wanted(me)}]
      <4>1. site[Wanted(me)] \in {"none", "absent", "good", "v1", "v2", "bad"}
        BY <1>1, <2>1 DEF Types
      <4>2. held \in ProcType /\ held.pc = me.pc /\ held.at = me.at /\ held.part = me.part
        BY <2>1, <4>1 DEF ProcType
      <4>3. \/ me.pc = "source" /\ Go(p, [held EXCEPT !.pc = "check"])
            \/ me.pc = "obtain" /\ Go(p, NextPart(held, "verify"))
        BY <2>1, <3>2 DEF Download
      <4> QED
        BY <4>2, <4>3
    <3> QED
      BY <1>5, <3>1, <3>2
  <2>3. CASE me.pc = "source" /\ Go(p, [got EXCEPT !.pc = "check"])
    <3>1. PICK new : new = [got EXCEPT !.pc = "check"]
      OBVIOUS
    <3>2. new \in ProcType /\ new.pc = "check" /\ new.at = me.at
      BY <2>2, <3>1 DEF ProcType, Pcs
    <3>3. Placement(new) /\ (Untouched => Seen(new, cache))
      BY <1>2, <2>1, <2>3, <3>2 DEF Placement, Seen
    <3> QED
      BY <2>1, <2>3, <3>1, <3>2, <3>3, QuietStepKeeps
  <2>4. CASE me.pc = "obtain" /\ Go(p, NextPart(got, "verify"))
    <3>1. PICK new : new = NextPart(got, "verify")
      OBVIOUS
    <3>2. me.at \in DOMAIN GROUPS /\ me.part \in DOMAIN GROUPS[me.at] /\ "verify" \in Pcs
      BY <2>1, <2>4 DEF Placement, Pcs
    <3>3. /\ new \in ProcType /\ new.at = me.at
          /\ \/ new.pc = "obtain" /\ new.part \in DOMAIN GROUPS[me.at]
             \/ new.pc = "verify" /\ new.part = 1
      BY <2>2, <2>4, <3>1, <3>2, NextPartFacts
    <3>4. Placement(new) /\ (Untouched => Seen(new, cache))
      BY <1>2, <2>1, <2>4, <3>2, <3>3 DEF Placement, Seen
    <3> QED
      BY <2>1, <2>4, <3>1, <3>3, <3>4, QuietStepKeeps
  <2> QED
    BY <2>2, <2>3, <2>4
<1>6. ASSUME NEW p \in Process, PublishSource(p)
      PROVE  IInv'
  <2> DEFINE me == proc[p]  s == SOURCES[me.at]  got == Settled(s, me)
  <2>1. /\ me.pc = "check" /\ me \in ProcType /\ Placement(me) /\ me.at \in DOMAIN SOURCES
        /\ s \in Url /\ s \notin Auxiliary /\ UNCHANGED <<site, sealed, spent>>
    BY <1>1, <1>6, NameFacts DEF PublishSource, Placement
  <2>2. CASE me.held[s] = "good" /\ cache' = Placed(s, me)
    <3>1. cache' \in [Url -> {"absent", "good", "v1", "v2", "bad"}] /\ Grown(cache, cache')
      BY <1>1, <2>1, <2>2 DEF Types, Placed, Grown
    <3>2. Untouched => Clean(cache')
      BY <1>1, <2>1, <2>2, PlacedFacts DEF IInv
    <3>3. CASE GiveUp(p)
      BY <2>1, <3>1, <3>2, <3>3, IdleFacts, StepKeeps DEF GiveUp
    <3>4. CASE cache'[s] = "good" /\ Go(p, NextSource(got))
      <4>1. /\ got \in ProcType /\ got.pc = me.pc /\ got.at = me.at
        <5>1. PICK d : d = Placed(s, me)
          OBVIOUS
        <5>2. got = [me EXCEPT !.held[s] = d[s], !.temporary = @ \ {s}]
          BY <5>1 DEF Settled
        <5>3. d[s] \in {"none", "absent", "good", "v1", "v2", "bad"}
          BY <2>1, <2>2, <3>1, <5>1
        <5> HIDE DEF got
        <5> QED
          BY <2>1, <5>2, <5>3 DEF ProcType
      <4>2. Untouched => Seen(got, cache')
        <5>1. Untouched => Seen(me, cache')
          BY <1>2, <2>1, <3>1, GrownFacts
        <5> HIDE DEF got
        <5> QED
          BY <2>1, <4>1, <5>1 DEF Seen
      <4>3. Placement(got)
        BY <2>1, <4>1 DEF Placement
      <4> HIDE DEF got
      <4>4. PICK new : new = NextSource(got)
        OBVIOUS
      <4>5. new \in ProcType /\ Placement(new) /\ (Untouched => Seen(new, cache'))
        BY <2>1, <3>4, <4>1, <4>2, <4>3, <4>4, NextSourceFacts
      <4> QED
        BY <2>1, <3>1, <3>2, <3>4, <4>4, <4>5, StepKeeps
    <3> QED
      BY <1>6, <2>1, <2>2, <3>3, <3>4 DEF PublishSource, Wanted
  <2>3. CASE GiveUp(p) /\ UNCHANGED cache
    BY <1>3, <2>1, <2>3
  <2> QED
    BY <1>6, <2>1, <2>2, <2>3 DEF PublishSource, Wanted
<1>7. ASSUME NEW p \in Process, Verify(p) \/ Reread(p)
      PROVE  IInv'
  <2> DEFINE me == proc[p]  G == GROUPS[me.at]
  <2>1. /\ me.pc \in {"verify", "reread"} /\ me \in ProcType /\ Placement(me)
        /\ me.at \in DOMAIN GROUPS /\ UNCHANGED <<site, cache, sealed, spent>>
        /\ \A k \in DOMAIN G : G[k] \in Url
    BY <1>1, <1>7, NameFacts DEF Verify, Reread, Placement
  <2>2. CASE /\ Authentic(me.at, me.held)
             /\ \A k \in DOMAIN G : Stable(me, G[k])
             /\ \/ me.pc = "verify" /\ me.temporary # {} /\ Go(p, [me EXCEPT !.pc = "publish"])
                \/ (me.pc = "verify" => me.temporary = {}) /\ Go(p, NextGroup(me))
    <3>1. CASE me.pc = "verify" /\ me.temporary # {} /\ Go(p, [me EXCEPT !.pc = "publish"])
      <4>1. PICK new : new = [me EXCEPT !.pc = "publish"]
        OBVIOUS
      <4>2. /\ new \in ProcType /\ new.pc = "publish" /\ new.at = me.at /\ new.part = me.part
            /\ new.held = me.held /\ new.temporary = me.temporary
        BY <2>1, <4>1 DEF ProcType, Pcs
      <4>3. \A k \in DOMAIN G : me.held[G[k]] \in {"v1", "v2"}
        BY <2>2 DEF Authentic
      <4>4. me.part = 1 /\ 1 \in DOMAIN G /\ \A k \in DOMAIN G : ~(k < 1)
        BY <2>1, <3>1, NameFacts DEF Placement
      <4>5. Placement(new)
        BY <2>1, <4>2, <4>3, <4>4 DEF Placement
      <4>6. Untouched => Seen(new, cache)
        BY <1>2, <2>1, <4>2 DEF Seen
      <4> QED
        BY <2>1, <3>1, <4>1, <4>2, <4>5, <4>6, QuietStepKeeps
    <3>2. CASE (me.pc = "verify" => me.temporary = {}) /\ Go(p, NextGroup(me))
      <4>1. PICK new : new = NextGroup(me)
        OBVIOUS
      <4>2. \A k \in DOMAIN G : G[k] \notin me.temporary
        BY <2>1, <3>2 DEF Placement
      <4>3. \A k \in DOMAIN G : cache[G[k]] = me.held[G[k]]
        BY <2>2, <4>2 DEF Stable
      <4>4. Authentic(me.at, cache)
        BY <2>2, <4>3 DEF Authentic
      <4>5. new \in ProcType /\ Placement(new) /\ (Untouched => Seen(new, cache))
        BY <1>2, <2>1, <4>1, <4>4, NextGroupFacts
      <4> QED
        BY <2>1, <3>2, <4>1, <4>5, QuietStepKeeps
    <3> QED
      BY <2>2, <3>1, <3>2
  <2>3. CASE GiveUp(p)
    BY <1>3, <2>1, <2>3
  <2> QED
    BY <1>7, <2>1, <2>2, <2>3 DEF Verify, Reread, Proved
<1>8. ASSUME NEW p \in Process, PublishAuxiliary(p)
      PROVE  IInv'
  <2> DEFINE me == proc[p]  G == GROUPS[me.at]
  <2>1. /\ me.pc = "publish" /\ me \in ProcType /\ Placement(me)
        /\ me.at \in DOMAIN GROUPS /\ me.part \in DOMAIN G
        /\ \A k \in DOMAIN G : G[k] \in Auxiliary /\ G[k] \in Url
        /\ UNCHANGED <<site, sealed, spent>>
    BY <1>1, <1>8, NameFacts DEF PublishAuxiliary, Placement
  <2>2. PICK u \in Auxiliary : u = G[me.part] /\ u = Wanted(me) /\ u \in Url
    BY <2>1 DEF Wanted
  <2>3. PICK got \in ProcType :
          /\ got.pc = "publish" /\ got.at = me.at /\ got.part = me.part
          /\ u \notin got.temporary /\ got.temporary \subseteq me.temporary
          /\ \A w \in Url : w # u => got.held[w] = me.held[w]
          /\ Go(p, NextPart(got, "reread"))
          /\ cache' \in [Url -> {"absent", "good", "v1", "v2", "bad"}]
          /\ Untouched => Grown(cache, cache') /\ Clean(cache')
    <3>1. CASE u \in me.temporary
      <4>1. me.held[u] \in {"v1", "v2"}
        BY <2>1, <2>2, <3>1 DEF Placement
      <4>2. /\ cache' \in [Url -> {"absent", "good", "v1", "v2", "bad"}]
            /\ Grown(cache, cache') /\ cache' = Placed(u, me)
            /\ Go(p, NextPart(Settled(u, me), "reread"))
        BY <1>1, <1>8, <2>2, <3>1, <4>1 DEF Types, Placed, Grown, PublishAuxiliary
      <4>3. Untouched => Clean(cache')
        BY <1>1, <2>1, <2>2, <4>1, <4>2, PlacedFacts DEF IInv
      <4>4. PICK got : got = Settled(u, me)
        OBVIOUS
      <4>5. got = [me EXCEPT !.held[u] = cache'[u], !.temporary = @ \ {u}]
        BY <4>2, <4>4 DEF Settled
      <4>6. /\ got \in ProcType /\ got.pc = "publish" /\ got.at = me.at /\ got.part = me.part
            /\ u \notin got.temporary /\ got.temporary \subseteq me.temporary
            /\ \A w \in Url : w # u => got.held[w] = me.held[w]
        <5>1. cache'[u] \in {"none", "absent", "good", "v1", "v2", "bad"}
          BY <2>2, <4>2
        <5> QED
          BY <2>1, <2>2, <4>5, <5>1 DEF ProcType
      <4> QED
        BY <4>2, <4>3, <4>4, <4>6
    <3>2. CASE u \notin me.temporary
      <4>1. UNCHANGED cache /\ Go(p, NextPart(me, "reread"))
        BY <1>8, <2>2, <3>2 DEF PublishAuxiliary
      <4>2. Grown(cache, cache') /\ (Untouched => Clean(cache'))
            /\ cache' \in [Url -> {"absent", "good", "v1", "v2", "bad"}]
        BY <1>1, <4>1 DEF Grown, IInv, Types
      <4> QED
        BY <2>1, <3>2, <4>1, <4>2
    <3> QED
      BY <3>1, <3>2
  <2>4. PICK new : new = NextPart(got, "reread")
    OBVIOUS
  <2>5. /\ new \in ProcType /\ new.at = me.at
        /\ new.held = got.held /\ new.temporary = got.temporary
        /\ \/ new.pc = "publish" /\ new.part = me.part + 1 /\ new.part \in DOMAIN G
           \/ new.pc = "reread" /\ me.part = Len(G)
    <3>1. "reread" \in Pcs
      BY DEF Pcs
    <3> QED
      BY <2>1, <2>3, <2>4, <3>1, NextPartFacts
  <2>6. \A k \in DOMAIN G : /\ k < me.part \/ k = me.part => G[k] \notin got.temporary
                            /\ G[k] \in got.temporary => got.held[G[k]] \in {"v1", "v2"}
    BY <2>1, <2>2, <2>3 DEF Placement
  <2>7. Placement(new)
    <3>1. /\ Len(G) \in Nat /\ DOMAIN G = 1 .. Len(G) /\ me.part \in 1 .. Len(G)
      BY <2>1, NameFacts
    <3>2. \A k \in DOMAIN G : /\ k < me.part + 1 => k < me.part \/ k = me.part
                              /\ me.part = Len(G) => k < me.part \/ k = me.part
      BY <3>1
    <3>3. CASE new.pc = "publish" /\ new.part = me.part + 1 /\ new.part \in DOMAIN G
      BY <2>1, <2>5, <2>6, <3>2, <3>3 DEF Placement
    <3>4. CASE new.pc = "reread" /\ me.part = Len(G)
      BY <2>1, <2>5, <2>6, <3>2, <3>4 DEF Placement
    <3> QED
      BY <2>5, <3>3, <3>4
  <2>8. Untouched => Seen(new, cache')
    <3>1. Untouched => Seen(me, cache')
      BY <1>2, <2>1, <2>3, GrownFacts
    <3> QED
      BY <2>1, <2>5, <3>1 DEF Seen
  <2> QED
    BY <2>1, <2>3, <2>4, <2>5, <2>7, <2>8, StepKeeps
<1>9. ASSUME NEW p \in Process, Missing(p)
      PROVE  IInv'
  BY <1>3, <1>9 DEF Missing
<1>10. ASSUME NEW p \in Process, End(p)
      PROVE  IInv'
  <2>1. Untouched => Complete(cache)
    BY <1>2, <1>10 DEF End, Seen
  <2>2. sealed' \in BOOLEAN /\ UNCHANGED <<site, cache, spent>>
    BY <1>1, <1>10 DEF End, Types
  <2>3. proc' \in [Process -> ProcType]
        /\ \A q \in Process : proc'[q] = Idle \/ proc'[q] = proc[q]
    BY <1>1, <1>10, IdleFacts DEF End, GiveUp, Go, Types
  <2>4. Types'
    BY <1>1, <2>2, <2>3 DEF Types
  <2>5. \A q \in Process : Placement(proc'[q]) /\ (Untouched => Seen(proc'[q], cache))
    BY <1>1, <1>2, <2>3, IdleFacts
  <2> QED
    BY <2>1, <2>2, <2>4, <2>5 DEF IInv, Untouched
<1>11. ASSUME NEW p \in Process, Stop(p) \/ \E offline \in BOOLEAN : Begin(p, offline)
      PROVE  IInv'
  <2>1. PICK new \in ProcType : Go(p, new) /\ Placement(new) /\ Seen(new, cache)
    <3>1. CASE Stop(p)
      BY <3>1, IdleFacts DEF Stop, GiveUp
    <3>2. ASSUME NEW offline \in BOOLEAN, Begin(p, offline)
          PROVE  \E new \in ProcType : Go(p, new) /\ Placement(new) /\ Seen(new, cache)
      <4>1. PICK me \in ProcType : me = Idle
        BY IdleFacts
      <4>2. PICK new : new = [me EXCEPT !.pc = "source", !.offline = offline, !.at = 1]
        OBVIOUS
      <4>3. Go(p, new)
        BY <3>2, <4>1, <4>2 DEF Begin, Go
      <4>4. new \in ProcType /\ new.pc = "source" /\ new.at = 1 /\ new.part = me.part
            /\ new.temporary = me.temporary
        BY <4>2 DEF ProcType, Pcs
      <4>5. me.part = 1 /\ me.temporary = {}
        BY <4>1 DEF Idle
      <4>6. 1 \in DOMAIN SOURCES /\ \A k \in DOMAIN SOURCES : ~(k < 1)
        BY NameFacts
      <4>7. Placement(new) /\ Seen(new, cache)
        BY <4>4, <4>5, <4>6 DEF Placement, Seen
      <4> QED
        BY <4>3, <4>4, <4>7
    <3> QED
      BY <1>11, <3>1, <3>2
  <2>2. UNCHANGED <<site, cache, sealed>> /\ (Untouched' => Untouched)
        /\ spent' \in [runs : Nat, kills : Nat, publications : Nat, edits : Nat]
    <3>1. spent \in [runs : Nat, kills : Nat, publications : Nat, edits : Nat]
      BY <1>1 DEF Types
    <3>2. CASE Stop(p)
      <4>1. spent' = [spent EXCEPT !.kills = @ + 1] /\ UNCHANGED <<site, cache, sealed>>
        BY <3>2 DEF Stop
      <4> QED
        BY <3>1, <4>1 DEF Untouched
    <3>3. CASE \E offline \in BOOLEAN : Begin(p, offline)
      <4>1. spent' = [spent EXCEPT !.runs = @ + 1] /\ UNCHANGED <<site, cache, sealed>>
        BY <3>3 DEF Begin
      <4> QED
        BY <3>1, <4>1 DEF Untouched
    <3> QED
      BY <1>11, <3>2, <3>3
  <2>3. proc' \in [Process -> ProcType] /\ proc'[p] = new
        /\ \A q \in Process \ {p} : proc'[q] = proc[q]
    BY <1>1, <2>1 DEF Go, Types
  <2>4. Types'
    BY <1>1, <2>2, <2>3 DEF Types
  <2>5. \A q \in Process : Placement(proc'[q]) /\ (Untouched => Seen(proc'[q], cache))
    BY <1>1, <1>2, <2>1, <2>3
  <2> QED
    BY <2>2, <2>4, <2>5 DEF IInv
<1>12. ASSUME NEW u \in Url, Republish(u)
      PROVE  IInv'
  <2>1. /\ site' \in [Url -> {"good", "v1", "v2", "bad"}]
        /\ spent' \in [runs : Nat, kills : Nat, publications : Nat, edits : Nat]
        /\ spent'.edits = spent.edits /\ UNCHANGED <<cache, proc, sealed>>
    BY <1>1, <1>12 DEF Republish, Types
  <2> QED
    BY <1>1, <2>1 DEF IInv, Types, Untouched
<1>13. ASSUME NEW u \in Url, Edit(u)
      PROVE  IInv'
  <2>1. /\ cache' \in [Url -> {"absent", "good", "v1", "v2", "bad"}]
        /\ spent' \in [runs : Nat, kills : Nat, publications : Nat, edits : Nat]
        /\ spent'.edits = spent.edits + 1 /\ spent.edits \in Nat
        /\ UNCHANGED <<site, proc, sealed>>
    BY <1>1, <1>13 DEF Edit, Types
  <2>2. ~Untouched'
    BY <2>1 DEF Untouched
  <2> QED
    BY <1>1, <2>1, <2>2 DEF IInv, Types
<1>14. CASE UNCHANGED fvars
  BY <1>14 DEF fvars, IInv, Types, Untouched
<1> QED
  BY <1>4, <1>5, <1>6, <1>7, <1>8, <1>9, <1>10, <1>11, <1>12, <1>13, <1>14 DEF Next, Step

\* A machine that has fetched nothing.
LEMMA InitHolds ==
  ASSUME FetchAssumption, Init
  PROVE  IInv
<1>1. site \in [Url -> {"good", "v1", "v2", "bad"}] /\ cache = [u \in Url |-> "absent"]
      /\ proc = [p \in Process |-> Idle] /\ sealed = FALSE
      /\ spent = [runs |-> 0, kills |-> 0, publications |-> 0, edits |-> 0]
  BY DEF Init
<1>2. Types
  BY <1>1, IdleFacts DEF Types
<1>3. Clean(cache)
  BY <1>1, NameFacts DEF Clean
<1> QED
  BY <1>1, <1>2, <1>3, IdleFacts DEF IInv

\* The invariant says what the run checks.
LEMMA CacheFollows ==
  ASSUME FetchAssumption, IInv
  PROVE  CacheIsTrue
<1> SUFFICES ASSUME Untouched
             PROVE  /\ \A u \in Url : cache[u] # "bad"
                    /\ sealed => Complete(cache)
  BY DEF CacheIsTrue, Complete
<1>1. Clean(cache) /\ (sealed => Complete(cache))
  BY DEF IInv
<1>2. ASSUME NEW u \in Url
      PROVE  cache[u] # "bad"
  BY <1>1, <1>2 DEF Clean, Url
<1> QED
  BY <1>1, <1>2

\* For any processes, sources, groups and bounds, and as long as nobody edits the cache:
\* whatever the site gives and whoever dies or races, nothing in it is other than its
\* name says, and what one run has authenticated every later run without network finds
\* there, of one publication (fetch.rs, publish_noreplace and verify_*_plan).
THEOREM CacheStaysAsNamed ==
  ASSUME FetchAssumption
  PROVE  Spec => []CacheIsTrue
<1>1. Init => IInv
  BY InitHolds
<1>2. IInv /\ [Next]_fvars => IInv'
  BY IInvKept
<1>3. IInv => CacheIsTrue
  BY CacheFollows
<1> QED
  BY <1>1, <1>2, <1>3, PTL DEF Spec

-----------------------------------------------------------------------------
(* What a plan states of upstream's signatures.                            *)

\* A lock is the statement of a recipe that loads, of which nothing is open once sealed.
Stated ==
  /\ recipe \in Draft
  /\ lock # NoLock =>
       /\ lock = [form |-> lock.form, own |-> lock.own, inputs |-> lock.inputs, open |-> lock.open]
       /\ lock.form \in {"planned", "sealed"} /\ lock.own \in BOOLEAN
       /\ Loads(recipe) /\ (lock.own => Statable(recipe))
       /\ lock.inputs = Inputs(recipe, lock.own)
       /\ lock.open = IF lock.form = "planned" /\ lock.own /\ recipe.kind # "meta"
                      THEN Open(recipe) ELSE {}

\* What the one mechanism of a recipe that loads has declared.
LEMMA Mechanisms ==
  ASSUME NEW r, IsRecipe(r), Loads(r)
  PROVE  /\ SignaturePlan(r) \in {"none", "waiver", "minisign", "checksums", "indexed"}
         /\ SignaturePlan(r) = "none" => r.fields = {}
         /\ SignaturePlan(r) = "waiver" => r.srcs = 1
         /\ SignaturePlan(r) = "minisign" => r.srcs > 0 /\ r.sigs = r.srcs
         /\ SignaturePlan(r) \in {"checksums", "indexed"} => r.srcs > 0
         /\ r.kind = "meta" => r.srcs = 0 /\ SignaturePlan(r) = "none"
         /\ r.kind # "meta" => r.srcs > 0 \/ r.kind = "source"
<1>1. SignaturePlan(r) # "refused" /\ SourcesFit(r) /\ KindFits(r)
  BY DEF Loads
<1>2. r.srcs \in Nat /\ r.srcs = 0 => r.fields = {}
  BY <1>1 DEF SourcesFit, IsRecipe
<1>3. r.kind = "meta" => r.srcs = 0
  BY <1>1 DEF KindFits
<1>4. r.kind # "meta" => r.srcs > 0 \/ r.kind = "source"
  BY <1>1 DEF KindFits, IsRecipe
<1>5. r.srcs > 0 \/ r.srcs = 0
  BY SMT DEF IsRecipe
<1>6. CASE r.fields = {}
  <2>1. SignaturePlan(r) = "none"
    BY <1>6 DEF SignaturePlan, Has
  <2> QED
    BY <1>3, <1>4, <1>6, <2>1
<1>7. CASE r.fields # {}
  <2>1. r.srcs > 0
    BY <1>1, <1>5, <1>7 DEF SourcesFit
  <2>2. CASE Has(r, Waiver(0))
    BY <1>1, <1>3, <1>7, <2>1, <2>2 DEF SignaturePlan
  <2>3. CASE ~Has(r, Waiver(0)) /\ r.fields \cap Legacy # {}
    BY <1>1, <1>3, <1>7, <2>1, <2>3 DEF SignaturePlan, LegacyFits
  <2>4. CASE ~Has(r, Waiver(0)) /\ r.fields \cap Legacy = {}
    <3>1. SignaturePlan(r) \in {"checksums", "indexed"}
      BY <1>1, <1>7, <2>1, <2>4 DEF SignaturePlan
    <3> QED
      BY <1>3, <2>1, <3>1
  <2> QED
    BY <2>2, <2>3, <2>4
<1> QED
  BY <1>6, <1>7

\* What is looked at is what the plan has left open.
LEMMA ObservedIsOpen ==
  ASSUME NEW r, IsRecipe(r), Loads(r)
  PROVE  Observed(r) = Open(r)
<1>1. CASE SignaturePlan(r) \in {"none", "waiver"}
  <2>1. Signed(r) = {}
    BY <1>1 DEF Signed
  <2> QED
    BY <1>1, <2>1 DEF Observed, Open
<1>2. CASE SignaturePlan(r) \in {"minisign", "checksums", "indexed"}
  BY <1>2, Mechanisms DEF Observed, Open
<1> QED
  BY <1>1, <1>2, Mechanisms

LEMMA StatedAtFirst ==
  ASSUME EvidenceInit
  PROVE  Stated
BY DEF EvidenceInit, Stated, NoLock

LEMMA StatedKept ==
  ASSUME EvidenceAssumption, Stated, [EvidenceNext]_ofEvidence
  PROVE  Stated'
<1> USE DEF NoLock
<1>1. CASE UNCHANGED ofEvidence
  BY <1>1 DEF Stated, ofEvidence
<1>2. ASSUME NEW own \in BOOLEAN, State(own)
      PROVE  Stated'
  BY <1>2 DEF State, Stated
<1>3. ASSUME NEW observed, Seal(observed), lock.form = "planned",
             lock.own /\ recipe.kind # "meta" => lock.open \subseteq observed
      PROVE  Stated'
  <2>1. lock # NoLock /\ lock.own \in BOOLEAN
    BY <1>3 DEF Stated
  <2>2. lock.open \ observed = {}
    BY <1>3, <2>1 DEF Stated
  <2>3. lock' = [form |-> "sealed", own |-> lock.own, inputs |-> lock.inputs, open |-> {}]
    BY <1>3, <2>1, <2>2 DEF Stated, Seal
  <2> QED
    BY <1>3, <2>1, <2>3 DEF Stated, Seal
<1>4. CASE Measure
  BY <1>3, <1>4 DEF Measure
<1>5. CASE Reuse
  BY <1>3, <1>5 DEF Reuse, Covers
<1>6. CASE Pass
  BY <1>3, <1>6 DEF Pass
<1>7. CASE Apply \/ Drop
  BY <1>7 DEF Apply, Drop, Stated
<1> QED
  BY <1>1, <1>2, <1>4, <1>5, <1>6, <1>7 DEF EvidenceNext

PageInputs(v, i) == {Input("signature-evidence", page, i, FALSE) : page \in Pages(v)}

LEMMA PagesOfWaiver ==
  ASSUME NEW v, NEW i
  PROVE  /\ Cardinality(PageInputs(v, i)) <= 2
         /\ Pages(v) # {} => PageInputs(v, i) # {}
<1>1. CASE Pages(v) = {}
  <2>1. PageInputs(v, i) = {}
    BY <1>1 DEF PageInputs
  <2> QED
    BY <1>1, <2>1, FS_EmptySet, SMT
<1>2. ASSUME NEW x, NEW y, Pages(v) = {x, y}
      PROVE  Cardinality(PageInputs(v, i)) <= 2 /\ PageInputs(v, i) # {}
  <2> DEFINE first == Input("signature-evidence", x, i, FALSE)
             second == Input("signature-evidence", y, i, FALSE)
  <2>1. PageInputs(v, i) = {first} \cup {second}
    BY <1>2 DEF PageInputs
  <2> HIDE DEF first, second
  <2>2. IsFiniteSet({first}) /\ Cardinality({first}) = 1
    BY FS_Singleton
  <2>3. Cardinality({first} \cup {second}) \in {1, 2}
    BY <2>2, FS_AddElement, SMT
  <2> QED
    BY <2>1, <2>3, SMT
<1>3. Pages(v) = {} \/ \E x, y : Pages(v) = {x, y}
  <2>1. CASE v = "v2"
    <3>1. Pages(v) = {"WAIVER_ENDORSEMENT_FILE", "WAIVER_ENDORSEMENT_FILE"}
      BY <2>1 DEF Pages
    <3> QED
      BY <3>1
  <2>2. CASE v # "v2"
    BY <2>2 DEF Pages
  <2> QED
    BY <2>1, <2>2
<1> QED
  BY <1>1, <1>2, <1>3

\* The inputs of one waiver are what the verifier asks of one.
LEMMA WaiverStands ==
  ASSUME NEW r, NEW i \in Nat, NEW inputs,
         OfSlot(inputs, Claimed([slot |-> i])) = WaiverInputs(r, i),
         Claimed([slot |-> i]) \in Sources(inputs),
         Claimed([slot |-> i]) \notin Slots(inputs, "SIG") \cup Slots(inputs, "SIGKEY"),
         i # 0 => Pages(r.file[i]) # {}
  PROVE  WaiverCloses(inputs, Claimed([slot |-> i]))
<1> DEFINE own == WaiverInputs(r, i)
           pages == PageInputs(r.file[i], i)
           declared == Input("signature-waiver", "SIG_UNSAFE_WAIVER", i, FALSE)
           signature == Input("signature", "WAIVER_SIG_FILE", i, TRUE)
           origin == Input("signature-key-source", "WAIVER_KEY_SOURCE_FILE", i, FALSE)
           key == Input("signature-key", "WAIVER_KEY_CERT_FILE", i, FALSE)
<1>1. /\ Typed(own, "signature-waiver") = {declared}
      /\ Typed(own, "signature") = {signature}
      /\ Typed(own, "signature-key-source") = {origin}
      /\ Typed(own, "signature-key") = {key}
      /\ Typed(own, "signature-evidence") = pages
  BY DEF Typed, WaiverInputs, Input, PageInputs
<1>2. \A f \in own : f.slot = i
  BY DEF WaiverInputs, Input
<1>3. declared.slot = i
  BY DEF Input
<1> HIDE DEF own, pages, declared, signature, origin, key
<1>4. Cardinality(Typed(own, "signature-evidence")) <= 2
  BY <1>1, PagesOfWaiver DEF pages
<1>5. i # 0 => Typed(own, "signature-evidence") # {}
  BY <1>1, PagesOfWaiver DEF pages
<1>6. \A x : One({x})
  BY DEF One
<1>7. /\ One(Typed(own, "signature-waiver")) /\ One(Typed(own, "signature"))
      /\ One(Typed(own, "signature-key-source")) /\ One(Typed(own, "signature-key"))
  BY <1>1, <1>6
<1>8. (\E f \in Typed(own, "signature-waiver") : f.slot # 0) => i # 0
  BY <1>1, <1>3
<1> QED
  BY <1>2, <1>4, <1>5, <1>7, <1>8 DEF WaiverCloses, own

\* The sources close whatever else is stated, and say nothing of the rest.
SourcesAlone(r, rest, all) ==
  /\ Sources(all) = 1..r.srcs
  /\ \A f \in SourceInputs(r) : InputFits(f)
  /\ r.srcs > 0 \/ r.kind = "source" => \A material : SourcesClose(all, r.kind, material)
  /\ \A name : name \notin {"SRC", "SRC=none"} =>
       {f \in all : f.name = name} = {f \in rest : f.name = name}
  /\ \A i : OfSlot(all, i) = OfSlot(rest, i)
  /\ WaivedSlots(all) = WaivedSlots(rest)

LEMMA SourcesStand ==
  ASSUME NEW r, IsRecipe(r), NEW rest, \A f \in rest : f.name \notin {"SRC", "SRC=none"},
         NEW all, all = SourceInputs(r) \cup rest
  PROVE  SourcesAlone(r, rest, all)
<1>1. r.srcs \in Nat
  BY DEF IsRecipe
<1>2. \A f \in SourceInputs(r) : /\ f.name \in {"SRC", "SRC=none"}
                                 /\ f.name = "SRC" => r.srcs > 0 /\ f.slot \in 1..r.srcs
                                 /\ f.name = "SRC=none" => r.srcs = 0 /\ f = NoSource
  BY <1>1 DEF SourceInputs, NoSource, Source, Input
<1>3. \A i \in 1..r.srcs : Source(i) \in all /\ Source(i).name = "SRC" /\ Source(i).slot = i
  BY <1>1 DEF SourceInputs, Source, Input
<1>4. Sources(all) = 1..r.srcs
  <2>1. ASSUME NEW i \in Sources(all)
        PROVE  i \in 1..r.srcs
    BY <1>2 DEF Sources, Slots
  <2>2. ASSUME NEW i \in 1..r.srcs
        PROVE  i \in Sources(all)
    BY <1>3 DEF Sources, Slots
  <2> QED
    BY <2>1, <2>2
<1>5. \A f \in SourceInputs(r) : InputFits(f)
  BY <1>1 DEF SourceInputs, NoSource, Source, Input, InputFits, IdentifierFits, IndexFits
<1>6. NoSource \in all <=> r.srcs = 0
  BY <1>2 DEF SourceInputs, NoSource, Input
<1>7. Cardinality(1..r.srcs) = r.srcs
  BY <1>1, FS_Interval
<1>8. 1..r.srcs = {} <=> r.srcs = 0
  BY <1>1
<1>9. r.srcs > 0 \/ r.kind = "source" => \A material : SourcesClose(all, r.kind, material)
  BY <1>1, <1>4, <1>6, <1>7, <1>8 DEF SourcesClose
<1>10. \A name : name \notin {"SRC", "SRC=none"} =>
         {f \in all : f.name = name} = {f \in rest : f.name = name}
  BY <1>2
<1>11. {f \in all : f.name \in OfWaiver \cup {"SIG_UNSAFE_WAIVER"}}
         = {f \in rest : f.name \in OfWaiver \cup {"SIG_UNSAFE_WAIVER"}}
  BY <1>2 DEF OfWaiver, Pages
<1>12. \A i : OfSlot(all, i) = OfSlot(rest, i)
  BY <1>11 DEF OfSlot
<1>13. WaivedSlots(all) = WaivedSlots(rest)
  BY <1>11 DEF WaivedSlots
<1> QED
  BY <1>4, <1>5, <1>9, <1>10, <1>12, <1>13 DEF SourcesAlone

\* Nothing but the sources: a recipe without signatures, or a payload of a channel.
LEMMA UnsignedAdmitted ==
  ASSUME NEW r, IsRecipe(r), Loads(r), r.kind # "meta", NEW material
  PROVE  Admitted(SourceInputs(r), r.kind, material)
<1>1. SourceInputs(r) = SourceInputs(r) \cup {}
  OBVIOUS
<1>alone. SourcesAlone(r, {}, SourceInputs(r))
  BY <1>1, SourcesStand
<1>2. /\ \A f \in SourceInputs(r) : InputFits(f)
      /\ SourcesClose(SourceInputs(r), r.kind, material)
      /\ \A name : name \notin {"SRC", "SRC=none"} =>
           {f \in SourceInputs(r) : f.name = name} = {}
      /\ WaivedSlots(SourceInputs(r)) = WaivedSlots({})
  BY <1>alone, Mechanisms DEF SourcesAlone
<1>3. \A name : name \notin {"SRC", "SRC=none"} => Slots(SourceInputs(r), name) = {}
  BY <1>2 DEF Slots
<1>4. WaivedSlots(SourceInputs(r)) = {}
  BY <1>2 DEF WaivedSlots
<1>5. MinisignCloses(SourceInputs(r))
  BY <1>2, <1>3 DEF MinisignCloses
<1>6. SumsClose(SourceInputs(r)) /\ SlotsClose(SourceInputs(r))
  BY <1>3, <1>4 DEF SumsClose, SlotsClose, KeysOfSlots
<1> QED
  BY <1>2, <1>4, <1>5, <1>6 DEF Admitted

\* One waiver, of the one source.
LEMMA WaiverAdmitted ==
  ASSUME NEW r, IsRecipe(r), Loads(r), SignaturePlan(r) = "waiver", r.kind # "meta", NEW material
  PROVE  Admitted(SourceInputs(r) \cup (Open(r) \cup Frozen(r)), r.kind, material)
<1> DEFINE rest == WaiverInputs(r, 0)
           all == SourceInputs(r) \cup rest
<1>1. Open(r) \cup Frozen(r) = rest
  BY DEF Open, Frozen, Waivers, Signed, Waived
<1>2. \A f \in rest : /\ f.name \in OfWaiver \cup {"SIG_UNSAFE_WAIVER"}
                      /\ f.slot = 0 /\ InputFits(f)
  BY DEF WaiverInputs, Input, OfWaiver, Pages, InputFits, IdentifierFits, IndexFits,
         SignatureFits, KeyFits
<1>3. \A f \in rest : f.name \notin {"SRC", "SRC=none", "SIG", "SIGKEY", "SIGSUMS", "SIG_MINISIGN",
                                     "SIGKEY=minisign"}
  BY <1>2 DEF OfWaiver, Pages
<1>4. rest # {}
  BY DEF WaiverInputs
<1>5. OfSlot(rest, 1) = rest /\ WaivedSlots(rest) = {1}
  <2>1. \A f \in rest : Claimed(f) = 1
    BY <1>2 DEF Claimed
  <2> HIDE DEF rest
  <2> QED
    BY <1>2, <1>4, <2>1 DEF OfSlot, WaivedSlots
<1> HIDE DEF rest
<1>all. all = SourceInputs(r) \cup rest
  OBVIOUS
<1>names. \A f \in rest : f.name \notin {"SRC", "SRC=none"}
  BY <1>3
<1> HIDE DEF all
<1>alone. SourcesAlone(r, rest, all)
  BY <1>all, <1>names, SourcesStand
<1>6. /\ Sources(all) = 1..r.srcs
      /\ \A f \in SourceInputs(r) : InputFits(f)
      /\ SourcesClose(all, r.kind, material)
      /\ \A name : name \notin {"SRC", "SRC=none"} =>
           {f \in all : f.name = name} = {f \in rest : f.name = name}
      /\ OfSlot(all, 1) = OfSlot(rest, 1)
      /\ WaivedSlots(all) = WaivedSlots(rest)
  BY <1>alone, Mechanisms DEF SourcesAlone
<1>7. \A name \in {"SIG", "SIGKEY", "SIGSUMS", "SIG_MINISIGN", "SIGKEY=minisign"} :
        {f \in all : f.name = name} = {} /\ Slots(all, name) = {}
  BY <1>3, <1>6 DEF Slots
<1>8. r.srcs = 1
  BY Mechanisms
<1>9. Sources(all) = {1}
  BY <1>6, <1>8, SMT
<1>10. WaiverCloses(all, 1)
  <2>1. Claimed([slot |-> 0]) = 1
    BY DEF Claimed
  <2>2. WaiverCloses(all, Claimed([slot |-> 0]))
    <3>1. OfSlot(all, Claimed([slot |-> 0])) = WaiverInputs(r, 0)
      BY <1>5, <1>6, <2>1 DEF rest
    <3>2. Claimed([slot |-> 0]) \notin Slots(all, "SIG") \cup Slots(all, "SIGKEY")
      BY <1>7
    <3> QED
      BY <1>9, <2>1, <3>1, <3>2, WaiverStands
  <2> QED
    BY <2>1, <2>2
<1>11. MinisignCloses(all)
  BY <1>7 DEF MinisignCloses
<1>12. SumsClose(all) /\ SlotsClose(all)
  BY <1>5, <1>6, <1>7, <1>9 DEF SumsClose, SlotsClose, KeysOfSlots
<1>13. \A f \in all : InputFits(f)
  BY <1>2, <1>6 DEF all
<1>14. Admitted(all, r.kind, material)
  BY <1>5, <1>6, <1>10, <1>11, <1>12, <1>13 DEF Admitted
<1> QED
  BY <1>1, <1>14 DEF all

\* A signature of every source, and one key.
LEMMA MinisignAdmitted ==
  ASSUME NEW r, IsRecipe(r), Loads(r), SignaturePlan(r) = "minisign", r.kind # "meta", NEW material
  PROVE  Admitted(SourceInputs(r) \cup (Open(r) \cup Frozen(r)), r.kind, material)
<1> DEFINE rest == {MinisignSignature(i) : i \in 1..r.sigs} \cup {MinisignKey}
           all == SourceInputs(r) \cup rest
<1>1. Open(r) \cup Frozen(r) = rest
  BY DEF Open, Frozen
<1>2. r.srcs \in Nat /\ r.srcs > 0 /\ r.sigs = r.srcs
  BY Mechanisms DEF IsRecipe
<1>3. \A f \in rest : /\ f.name = "SIG_MINISIGN" \/ (f = MinisignKey /\ f.name = "SIGKEY=minisign")
                      /\ f.name = "SIG_MINISIGN" => f.slot \in 1..r.srcs
                      /\ InputFits(f)
  <2>1. ASSUME NEW i \in 1..r.srcs
        PROVE  /\ MinisignSignature(i).name = "SIG_MINISIGN" /\ MinisignSignature(i).slot = i
               /\ InputFits(MinisignSignature(i))
    BY <1>2 DEF MinisignSignature, Input, InputFits, IdentifierFits, IndexFits, SignatureFits
  <2>2. MinisignKey.name = "SIGKEY=minisign" /\ InputFits(MinisignKey)
    BY DEF MinisignKey, Input, InputFits, IdentifierFits, IndexFits, KeyFits
  <2>3. \A f \in rest : f = MinisignKey \/ \E i \in 1..r.srcs : f = MinisignSignature(i)
    BY <1>2
  <2> SUFFICES ASSUME NEW f \in rest
               PROVE  /\ f.name = "SIG_MINISIGN" \/ (f = MinisignKey /\ f.name = "SIGKEY=minisign")
                      /\ f.name = "SIG_MINISIGN" => f.slot \in 1..r.srcs
                      /\ InputFits(f)
    OBVIOUS
  <2>4. CASE f = MinisignKey
    BY <2>2, <2>4
  <2>5. CASE \E i \in 1..r.srcs : f = MinisignSignature(i)
    <3>1. PICK i \in 1..r.srcs : f = MinisignSignature(i)
      BY <2>5
    <3>2. f.name = "SIG_MINISIGN" /\ f.slot \in 1..r.srcs /\ InputFits(f)
      BY <2>1, <3>1
    <3> QED
      BY <3>2
  <2> QED
    BY <2>3, <2>4, <2>5
<1>4. \A f \in rest : f.name \notin {"SRC", "SRC=none", "SIG", "SIGKEY", "SIGSUMS"}
                      /\ f.name \notin OfWaiver \cup {"SIG_UNSAFE_WAIVER"}
  BY <1>3 DEF OfWaiver, Pages
<1>5. MinisignKey \in rest /\ MinisignKey.name = "SIGKEY=minisign"
  BY DEF MinisignKey, Input
<1> HIDE DEF rest
<1>all. all = SourceInputs(r) \cup rest
  OBVIOUS
<1>names. \A f \in rest : f.name \notin {"SRC", "SRC=none"}
  BY <1>4
<1> HIDE DEF all
<1>alone. SourcesAlone(r, rest, all)
  BY <1>all, <1>names, SourcesStand
<1>6. /\ Sources(all) = 1..r.srcs
      /\ \A f \in SourceInputs(r) : InputFits(f)
      /\ SourcesClose(all, r.kind, material)
      /\ \A name : name \notin {"SRC", "SRC=none"} =>
           {f \in all : f.name = name} = {f \in rest : f.name = name}
      /\ WaivedSlots(all) = WaivedSlots(rest)
  BY <1>alone, Mechanisms DEF SourcesAlone
<1>7. \A name \in {"SIG", "SIGKEY", "SIGSUMS"} : Slots(all, name) = {}
  BY <1>4, <1>6 DEF Slots
<1>8. {f \in all : f.name = "SIGKEY=minisign"} = {MinisignKey}
  BY <1>3, <1>5, <1>6
<1>9. Slots(all, "SIG_MINISIGN") \subseteq 1..r.srcs
  BY <1>3, <1>6 DEF Slots
<1>10. Slots(all, "SIG_MINISIGN") # {}
  <2>1. 1 \in 1..r.sigs
    BY <1>2
  <2>2. MinisignSignature(1) \in rest
    BY <2>1 DEF rest
  <2>3. MinisignSignature(1).name = "SIG_MINISIGN"
    BY DEF MinisignSignature, Input
  <2>4. MinisignSignature(1) \in {f \in all : f.name = "SIG_MINISIGN"}
    BY <1>6, <2>2, <2>3
  <2> QED
    BY <2>4 DEF Slots
<1>11. WaivedSlots(all) = {}
  BY <1>4, <1>6 DEF WaivedSlots
<1>12. MinisignCloses(all)
  BY <1>6, <1>7, <1>8, <1>9, <1>10 DEF MinisignCloses, One
<1>13. SumsClose(all) /\ SlotsClose(all)
  BY <1>7, <1>11 DEF SumsClose, SlotsClose, KeysOfSlots
<1>14. \A f \in all : InputFits(f)
  BY <1>3, <1>6 DEF all
<1>15. Admitted(all, r.kind, material)
  BY <1>6, <1>11, <1>12, <1>13, <1>14 DEF Admitted
<1> QED
  BY <1>1, <1>15 DEF all

\* A manifest of sums, signed with a key that has an index of its own.
LEMMA SumsAdmitted ==
  ASSUME NEW r, IsRecipe(r), Loads(r), SignaturePlan(r) = "checksums", r.kind # "meta", NEW material
  PROVE  Admitted(SourceInputs(r) \cup (Open(r) \cup Frozen(r)), r.kind, material)
<1> DEFINE rest == {Manifest} \cup DetachedSums(r) \cup {SlotKey(1)}
           all == SourceInputs(r) \cup rest
<1>1. Open(r) \cup Frozen(r) = rest
  BY DEF Open, Frozen
<1>2. \A f \in rest : /\ f.name \in {"SIGSUMS", "SIGSUMS_SIG"} \/ f = SlotKey(1)
                      /\ InputFits(f)
  BY DEF Manifest, ManifestSignature, DetachedSums, SlotKey, Input, InputFits, IdentifierFits,
         IndexFits, SignatureFits, KeyFits
<1>3. /\ SlotKey(1).name = "SIGKEY" /\ SlotKey(1).slot = 1 /\ SlotKey(1) \in rest
      /\ Manifest.name = "SIGSUMS" /\ Manifest \in rest
  BY DEF SlotKey, Manifest, Input
<1>4. \A f \in rest : f.name \notin {"SRC", "SRC=none", "SIG", "SIG_MINISIGN", "SIGKEY=minisign"}
                      /\ f.name \notin OfWaiver \cup {"SIG_UNSAFE_WAIVER"}
  BY <1>2, <1>3 DEF OfWaiver, Pages
<1> HIDE DEF rest
<1>all. all = SourceInputs(r) \cup rest
  OBVIOUS
<1>names. \A f \in rest : f.name \notin {"SRC", "SRC=none"}
  BY <1>4
<1> HIDE DEF all
<1>alone. SourcesAlone(r, rest, all)
  BY <1>all, <1>names, SourcesStand
<1>5. /\ \A f \in SourceInputs(r) : InputFits(f)
      /\ SourcesClose(all, r.kind, material)
      /\ \A name : name \notin {"SRC", "SRC=none"} =>
           {f \in all : f.name = name} = {f \in rest : f.name = name}
      /\ WaivedSlots(all) = WaivedSlots(rest)
  BY <1>alone, Mechanisms DEF SourcesAlone
<1>6. /\ {f \in all : f.name = "SIGKEY=minisign"} = {}
      /\ \A name \in {"SIG", "SIG_MINISIGN"} : Slots(all, name) = {}
  BY <1>4, <1>5 DEF Slots
<1>7. Slots(all, "SIGSUMS") # {}
  BY <1>3, <1>5 DEF Slots
<1>8. {f \in all : f.name = "SIGKEY"} = {SlotKey(1)}
  BY <1>2, <1>3, <1>5
<1>9. Slots(all, "SIGKEY") = {1}
  BY <1>3, <1>8 DEF Slots
<1>10. WaivedSlots(all) = {}
  BY <1>4, <1>5 DEF WaivedSlots
<1>11. MinisignCloses(all) /\ SumsClose(all) /\ SlotsClose(all)
  BY <1>6, <1>7, <1>9, <1>10 DEF MinisignCloses, SumsClose, SlotsClose, KeysOfSlots
<1>12. \A f \in all : InputFits(f)
  BY <1>2, <1>5 DEF all
<1>13. Admitted(all, r.kind, material)
  BY <1>5, <1>10, <1>11, <1>12 DEF Admitted
<1> QED
  BY <1>1, <1>13 DEF all

\* Each source signed, with a key, or waived.
LEMMA SlotsAdmitted ==
  ASSUME NEW r, IsRecipe(r), Loads(r), SignaturePlan(r) = "indexed", Statable(r), ~OldInSlot(r),
         r.kind # "meta", NEW material
  PROVE  Admitted(SourceInputs(r) \cup (Open(r) \cup Frozen(r)), r.kind, material)
<1> DEFINE waivers == Waivers(r)
           signed == {SlotSignature(i) : i \in Signed(r)} \cup {SlotKey(i) : i \in Signed(r)}
           rest == waivers \cup signed
           all == SourceInputs(r) \cup rest
<1>1. Open(r) \cup Frozen(r) = rest
  <2>1. Open(r) = {SlotSignature(i) : i \in Signed(r)}
    BY DEF Open
  <2>2. Frozen(r) = waivers \cup {SlotKey(i) : i \in Signed(r)}
    BY DEF Frozen
  <2> QED
    BY <2>1, <2>2
<1>2. /\ r.srcs \in Nat
      /\ Waived(r) \subseteq 1..r.srcs /\ Signed(r) = (1..r.srcs) \ Waived(r)
  BY DEF IsRecipe, Waived, Signed
<1>3. ASSUME NEW i \in Waived(r), NEW f \in WaiverInputs(r, i)
      PROVE  /\ f.name \in OfWaiver \cup {"SIG_UNSAFE_WAIVER"}
             /\ f.slot = i /\ Claimed(f) = i /\ InputFits(f)
  <2>1. f.slot = i /\ i # 0
    BY <1>2, <1>3 DEF WaiverInputs, Input
  <2>2. f.name \in OfWaiver \cup {"SIG_UNSAFE_WAIVER"} /\ InputFits(f)
    BY <1>3 DEF WaiverInputs, Input, OfWaiver, Pages, InputFits, IdentifierFits, IndexFits,
           SignatureFits, KeyFits
  <2> QED
    BY <2>1, <2>2 DEF Claimed
<1>4. ASSUME NEW i \in Signed(r)
      PROVE  /\ SlotSignature(i).name = "SIG" /\ SlotSignature(i).slot = i
             /\ SlotKey(i).name = "SIGKEY" /\ SlotKey(i).slot = i
             /\ InputFits(SlotSignature(i)) /\ InputFits(SlotKey(i))
  BY <1>2 DEF SlotSignature, SlotKey, Input, InputFits, IdentifierFits, IndexFits,
         SignatureFits, KeyFits
<1>5. ASSUME NEW f \in waivers
      PROVE  \E i \in Waived(r) : f \in WaiverInputs(r, i)
  BY DEF Waivers
<1>6. ASSUME NEW f \in signed
      PROVE  \E i \in Signed(r) : f = SlotSignature(i) \/ f = SlotKey(i)
  OBVIOUS
<1>7. ASSUME NEW f \in waivers
      PROVE  /\ f.name \in OfWaiver \cup {"SIG_UNSAFE_WAIVER"} /\ InputFits(f)
             /\ Claimed(f) \in Waived(r) /\ f \in WaiverInputs(r, Claimed(f))
  BY <1>3, <1>5
<1>8. ASSUME NEW f \in signed
      PROVE  f.name \in {"SIG", "SIGKEY"} /\ f.slot \in Signed(r) /\ InputFits(f)
  BY <1>4, <1>6
<1>9. \A name \in OfWaiver \cup {"SIG_UNSAFE_WAIVER"} :
        name \notin {"SRC", "SRC=none", "SIG", "SIGKEY", "SIGSUMS", "SIG_MINISIGN", "SIGKEY=minisign"}
  BY DEF OfWaiver, Pages
<1>10. \A i \in Waived(r) : WaiverInputs(r, i) \subseteq rest /\ WaiverInputs(r, i) # {}
  BY DEF Waivers, WaiverInputs
<1>11. \A i \in Signed(r) : SlotSignature(i) \in rest /\ SlotKey(i) \in rest
  OBVIOUS
<1>12. \A f \in rest : f \in waivers \/ f \in signed
  OBVIOUS
<1> HIDE DEF waivers, signed, rest
<1>13. all = SourceInputs(r) \cup rest
  OBVIOUS
<1>14. \A f \in rest : /\ f.name \notin {"SRC", "SRC=none", "SIGSUMS", "SIG_MINISIGN", "SIGKEY=minisign"}
                       /\ InputFits(f)
  BY <1>7, <1>8, <1>9, <1>12
<1> HIDE DEF all
<1>15. SourcesAlone(r, rest, all)
  BY <1>13, <1>14, SourcesStand
<1>16. /\ Sources(all) = 1..r.srcs
       /\ \A f \in SourceInputs(r) : InputFits(f)
       /\ SourcesClose(all, r.kind, material)
       /\ \A name : name \notin {"SRC", "SRC=none"} =>
            {f \in all : f.name = name} = {f \in rest : f.name = name}
       /\ \A i : OfSlot(all, i) = OfSlot(rest, i)
       /\ WaivedSlots(all) = WaivedSlots(rest)
  BY <1>15, Mechanisms DEF SourcesAlone
<1>17. WaivedSlots(all) = Waived(r)
  <2>1. ASSUME NEW i \in WaivedSlots(rest)
        PROVE  i \in Waived(r)
    BY <1>7, <1>8, <1>9, <1>12 DEF WaivedSlots
  <2>2. ASSUME NEW i \in Waived(r)
        PROVE  i \in WaivedSlots(rest)
    BY <1>3, <1>10 DEF WaivedSlots
  <2> QED
    BY <1>16, <2>1, <2>2
<1>18. ASSUME NEW i \in Waived(r)
       PROVE  OfSlot(all, i) = WaiverInputs(r, i)
  <2>1. ASSUME NEW f \in OfSlot(rest, i)
        PROVE  f \in WaiverInputs(r, i)
    BY <1>7, <1>8, <1>9, <1>12 DEF OfSlot
  <2>2. ASSUME NEW f \in WaiverInputs(r, i)
        PROVE  f \in OfSlot(rest, i)
    BY <1>3, <1>10 DEF OfSlot
  <2>3. OfSlot(rest, i) = WaiverInputs(r, i)
    BY <2>1, <2>2
  <2> QED
    BY <1>16, <2>3
<1>19. Slots(all, "SIG") = Signed(r) /\ Slots(all, "SIGKEY") = Signed(r)
  <2>1. ASSUME NEW name \in {"SIG", "SIGKEY"}
        PROVE  Slots(all, name) \subseteq Signed(r)
    <3>1. \A f \in rest : f.name = name => f.slot \in Signed(r)
      BY <1>7, <1>8, <1>9, <1>12
    <3> QED
      BY <1>16, <3>1 DEF Slots
  <2>2. ASSUME NEW i \in Signed(r)
        PROVE  i \in Slots(all, "SIG") /\ i \in Slots(all, "SIGKEY")
    <3>1. SlotSignature(i) \in {f \in all : f.name = "SIG"}
      BY <1>4, <1>11, <1>16
    <3>2. SlotKey(i) \in {f \in all : f.name = "SIGKEY"}
      BY <1>4, <1>11, <1>16
    <3> QED
      BY <1>4, <3>1, <3>2 DEF Slots
  <2>3. Slots(all, "SIG") \subseteq Signed(r) /\ Slots(all, "SIGKEY") \subseteq Signed(r)
    BY <2>1
  <2> QED
    BY <2>2, <2>3
<1>20. Slots(all, "SIGSUMS") = {} /\ Slots(all, "SIG_MINISIGN") = {}
       /\ {f \in all : f.name = "SIGKEY=minisign"} = {}
  BY <1>14, <1>16 DEF Slots
<1>21. ASSUME NEW i \in WaivedSlots(all)
       PROVE  WaiverCloses(all, i)
  <2>1. i \in Waived(r) /\ i \in Nat /\ i # 0 /\ i \in 1..r.srcs
    BY <1>2, <1>17
  <2>2. Claimed([slot |-> i]) = i
    BY <2>1 DEF Claimed
  <2>3. r.file[i] \in {"v2", "v3"}
    BY <1>2, <2>1 DEF IsRecipe, Format, Statable, OldInSlot
  <2>4. Pages(r.file[i]) # {}
    BY <2>3 DEF Pages
  <2>5. i \notin Slots(all, "SIG") \cup Slots(all, "SIGKEY")
    BY <1>2, <1>19, <2>1
  <2> QED
    <3>1. OfSlot(all, i) = WaiverInputs(r, i) /\ i \in Sources(all)
      BY <1>16, <1>18, <2>1
    <3>2. WaiverCloses(all, Claimed([slot |-> i]))
      BY <2>1, <2>2, <2>4, <2>5, <3>1, WaiverStands
    <3> QED
      BY <2>2, <3>2
<1>22. MinisignCloses(all) /\ SumsClose(all)
  BY <1>20 DEF MinisignCloses, SumsClose
<1>23. SlotsClose(all)
  BY <1>2, <1>16, <1>17, <1>19, <1>20 DEF SlotsClose, KeysOfSlots
<1>24. \A f \in all : InputFits(f)
  BY <1>13, <1>14, <1>16
<1>25. Admitted(all, r.kind, material)
  BY <1>16, <1>21, <1>22, <1>23, <1>24 DEF Admitted
<1> QED
  BY <1>1, <1>13, <1>25

\* A recipe without inputs is a meta package's.
LEMMA NothingAdmitted ==
  ASSUME NEW material
  PROVE  Admitted({}, "meta", material)
<1>1. \A name : Slots({}, name) = {}
  BY DEF Slots
<1>2. Cardinality({}) = 0 /\ 1..0 = {}
  BY FS_EmptySet, SMT
<1>3. WaivedSlots({}) = {}
  BY DEF WaivedSlots
<1>4. SourcesClose({}, "meta", material)
  BY <1>1, <1>2 DEF SourcesClose, Sources
<1>5. MinisignCloses({}) /\ SumsClose({}) /\ SlotsClose({})
  BY <1>1, <1>3 DEF MinisignCloses, SumsClose, SlotsClose, KeysOfSlots, Sources
<1> QED
  BY <1>3, <1>4, <1>5 DEF Admitted

LEMMA StatementAdmitted ==
  ASSUME NEW r, IsRecipe(r), Loads(r), NEW own \in BOOLEAN, own => Statable(r) /\ ~OldInSlot(r),
         NEW material
  PROVE  Admitted(Inputs(r, own), r.kind, material)
<1>1. CASE r.kind = "meta"
  BY <1>1, NothingAdmitted DEF Inputs
<1>2. CASE r.kind # "meta" /\ ~own
  <2>1. Inputs(r, own) = SourceInputs(r)
    BY <1>2 DEF Inputs
  <2> QED
    BY <1>2, <2>1, UnsignedAdmitted
<1>3. CASE r.kind # "meta" /\ own
  <2>1. Inputs(r, own) = SourceInputs(r) \cup (Open(r) \cup Frozen(r))
    BY <1>3 DEF Inputs
  <2>2. CASE SignaturePlan(r) = "none"
    <3>1. Open(r) \cup Frozen(r) = {}
      BY <2>2 DEF Open, Frozen, Waivers, Waived, Signed
    <3> QED
      BY <1>3, <2>1, <3>1, UnsignedAdmitted
  <2>3. CASE SignaturePlan(r) = "waiver"
    BY <1>3, <2>1, <2>3, WaiverAdmitted
  <2>4. CASE SignaturePlan(r) = "minisign"
    BY <1>3, <2>1, <2>4, MinisignAdmitted
  <2>5. CASE SignaturePlan(r) = "checksums"
    BY <1>3, <2>1, <2>5, SumsAdmitted
  <2>6. CASE SignaturePlan(r) = "indexed"
    BY <1>3, <2>1, <2>6, SlotsAdmitted
  <2> QED
    BY <2>2, <2>3, <2>4, <2>5, <2>6, Mechanisms
<1> QED
  BY <1>1, <1>2, <1>3

LEMMA VerdictFollows ==
  ASSUME EvidenceAssumption, Stated
  PROVE  InputsAreAdmitted
<1> SUFFICES ASSUME lock # NoLock, lock.own => ~OldInSlot(recipe)
             PROVE  Verdict
  BY DEF InputsAreAdmitted
<1>1. /\ IsRecipe(recipe) /\ Loads(recipe)
      /\ lock.own \in BOOLEAN /\ (lock.own => Statable(recipe))
      /\ lock.inputs = Inputs(recipe, lock.own)
      /\ lock.form = "sealed" => lock.open = {}
  BY DEF EvidenceAssumption, Stated
<1>2. \A material \in BOOLEAN : Admitted(lock.inputs, recipe.kind, material)
  BY <1>1, StatementAdmitted
<1>3. ASSUME lock.form = "planned", lock.own, recipe.kind # "meta"
      PROVE  lock.open \subseteq Observed(recipe) /\ Observed(recipe) \subseteq lock.inputs
  <2>1. lock.open = Open(recipe)
    BY <1>3 DEF Stated
  <2>2. Open(recipe) \subseteq lock.inputs
    BY <1>1, <1>3 DEF Inputs
  <2> QED
    BY <1>1, <2>1, <2>2, ObservedIsOpen
<1> QED
  BY <1>1, <1>2, <1>3 DEF Verdict

\* Whatever a recipe declares of upstream's signatures, the plan's own verifier admits what
\* the plan states of it, and a sealed plan leaves nothing open, of any recipes that load: all
\* but a v1 waiver in an indexed field (validate_package_artifact_correlation of what
\* input_artifacts lists).
THEOREM StatementsAreAdmitted ==
  ASSUME EvidenceAssumption
  PROVE  EvidenceSpec => []InputsAreAdmitted
<1>1. EvidenceInit => Stated
  BY StatedAtFirst
<1>2. Stated /\ [EvidenceNext]_ofEvidence => Stated'
  BY StatedKept
<1>3. Stated => InputsAreAdmitted
  BY VerdictFollows
<1> QED
  BY <1>1, <1>2, <1>3, PTL DEF EvidenceSpec

-----------------------------------------------------------------------------
(* What is built, and emitted as a channel.                                  *)

\* The fields of the job and of a record.
JobFields(j) ==
  [pc : {j.pc}, frozen : {j.frozen}, todo : {j.todo}, written : {j.written},
   choice : {j.choice}, package : {j.package}, view : {j.view}, image : {j.image},
   index : {j.index}, pool : {j.pool}]
RecordFields(r) ==
  [form : {r.form}, fingerprint : {r.fingerprint}, content : {r.content}, origin : {r.origin}]

BuildTypes ==
  /\ tree \in [Package -> 0..MaxTree]
  /\ DOMAIN live = Package
  /\ DOMAIN record = Package /\ \A p \in Package : record[p] \in RecordFields(record[p])
  /\ leaf \in [index : {leaf.index}, pool : {leaf.pool}]
  /\ job \in JobFields(job)
  /\ job.package \in Package /\ job.todo \subseteq Package \ {RUNNER}
  /\ consumed \in [commands : {consumed.commands}, kills : {consumed.kills}, edits : {consumed.edits}]

\* What is edited in place is the only stage that is not what its name says.
RetainedHold ==
  \A h \in DOMAIN retained : retained[h] # h => \E e \in consumed.edits : e[2] = "retained"

\* A command that installs has frozen the fingerprints of one tree.
FrozenOfOneTree ==
  job.pc \in {"next", "fetch", "claims", "view", "build", "retain", "install", "channel"} =>
    /\ \E t \in [Package -> 0..MaxTree] : job.frozen = [q \in Package |-> Fingerprint(t, q)]
    /\ job.pc # "next" => job.package # RUNNER

\* What a record, an index, a view and an image say is what they hold.
Declared ==
  /\ \A p \in Recorded : record[p].content = record[p].fingerprint
  /\ RUNNER \in Recorded /\ live[RUNNER] = record[RUNNER].content
  /\ \A p \in DOMAIN leaf.index : leaf.index[p].reprocorr = leaf.index[p].fingerprint

Viewed ==
  /\ job.pc \in {"fetch", "claims"} => DOMAIN job.view = {}
  /\ job.pc = "view" => DOMAIN job.view \subseteq PROVIDERS[job.package]
  /\ job.pc = "build" => DOMAIN job.view = PROVIDERS[job.package] \cup {RUNNER}
  /\ job.pc \in {"view", "build"} =>
       /\ \A q \in PROVIDERS[job.package] \cup {RUNNER} :
            q \in Recorded /\ record[q].fingerprint = job.frozen[q]
       /\ \A q \in DOMAIN job.view : job.view[q] = job.frozen[q]

Imaged ==
  /\ job.pc \in {"retain", "install"} => job.image = job.frozen[job.package]
  /\ job.pc = "compress" =>
       job.package \in Recorded /\ job.image = record[job.package].content
  /\ \A p \in DOMAIN job.index : job.index[p].reprocorr = job.index[p].fingerprint

Built == BuildTypes /\ RetainedHold /\ FrozenOfOneTree /\ (ShellUntouched => Declared /\ Viewed /\ Imaged)

-----------------------------------------------------------------------------
\* A package is made of itself and of what its providers and the runner are made of.
LEMMA ClosureFacts ==
  ASSUME BuildAssumption, NEW p \in Package
  PROVE  /\ Closure[p] \subseteq Package /\ p \in Closure[p]
         /\ Closure[p] = {p} \cup UNION {Closure[q] : q \in PROVIDERS[p] \cup {RUNNER}}
<1>1. RUNNER \in Package /\ \A q \in Package : PROVIDERS[q] \subseteq Package
  BY DEF BuildAssumption
<1>2. \A q \in Package : q \in Closure[q] /\ RUNNER \in Closure[q] /\ Closure[q] \subseteq Package
  BY <1>1 DEF Closure, Closed
<1>3. \A q \in Package : \A r \in Closure[q] : PROVIDERS[r] \subseteq Closure[q]
  BY <1>1 DEF Closure, Closed
<1>4. ASSUME NEW q \in Package, NEW set \in SUBSET Package, Closed(set), q \in set
      PROVE  Closure[q] \subseteq set
  BY <1>4 DEF Closure
<1>5. PICK made : made = {p} \cup UNION {Closure[q] : q \in PROVIDERS[p] \cup {RUNNER}}
  OBVIOUS
<1>6. made \subseteq Closure[p]
  <2>1. Closed(Closure[p])
    BY <1>2, <1>3 DEF Closed
  <2>2. \A q \in PROVIDERS[p] \cup {RUNNER} : q \in Package /\ q \in Closure[p]
    BY <1>1, <1>2, <1>3
  <2> QED
    BY <1>2, <1>4, <1>5, <2>1, <2>2
<1>7. Closure[p] \subseteq made
  <2>1. made \in SUBSET Package
    BY <1>1, <1>2, <1>5
  <2>2. RUNNER \in made
    BY <1>1, <1>2, <1>5
  <2>3. PROVIDERS[p] \subseteq made
    BY <1>1, <1>2, <1>5
  <2>4. \A r \in made : r = p \/ \E q \in PROVIDERS[p] \cup {RUNNER} : r \in Closure[q]
    BY <1>5
  <2>5. \A r \in made : PROVIDERS[r] \subseteq made
    BY <1>1, <1>3, <1>5, <2>3, <2>4
  <2> QED
    BY <1>4, <1>5, <2>1, <2>2, <2>5 DEF Closed
<1> QED
  BY <1>2, <1>5, <1>6, <1>7

\* What a package is compiled to.
Compiled(p, frozen, view) ==
  {g \in frozen[p] : g[1] = p} \cup UNION {view[q] : q \in DOMAIN view}

\* What is compiled of exactly what was frozen is what was frozen.
LEMMA MadeOfWhatIsFrozen ==
  ASSUME BuildAssumption, NEW p \in Package, NEW t, NEW frozen, NEW view,
         frozen = [q \in Package |-> Fingerprint(t, q)],
         DOMAIN view = PROVIDERS[p] \cup {RUNNER},
         \A q \in DOMAIN view : view[q] = frozen[q]
  PROVE  Compiled(p, frozen, view) = frozen[p]
<1>1. PROVIDERS[p] \cup {RUNNER} \subseteq Package
  BY DEF BuildAssumption
<1>2. Closure[p] \subseteq Package /\ p \in Closure[p]
      /\ Closure[p] = {p} \cup UNION {Closure[q] : q \in PROVIDERS[p] \cup {RUNNER}}
  BY ClosureFacts
<1>3. \A q \in Package : frozen[q] = {<<r, t[r]>> : r \in Closure[q]}
  BY DEF Fingerprint
<1>4. {g \in frozen[p] : g[1] = p} = {<<p, t[p]>>}
  BY <1>2, <1>3
<1>5. UNION {view[q] : q \in DOMAIN view}
        = {<<r, t[r]>> : r \in UNION {Closure[q] : q \in PROVIDERS[p] \cup {RUNNER}}}
  <2>1. \A q \in DOMAIN view : view[q] = {<<r, t[r]>> : r \in Closure[q]}
    BY <1>1, <1>3
  <2> QED
    BY <2>1
<1> QED
  BY <1>2, <1>3, <1>4, <1>5 DEF Compiled

-----------------------------------------------------------------------------
\* No command.
LEMMA NoJobFacts ==
  ASSUME BuildAssumption
  PROVE  /\ NoJob \in JobFields(NoJob) /\ NoJob.package \in Package
         /\ NoJob.todo \subseteq Package \ {RUNNER}
         /\ NoJob.pc = "idle" /\ DOMAIN NoJob.index = {} /\ DOMAIN NoJob.view = {}
BY DEF BuildAssumption, NoJob, JobFields

\* A step that writes none of what is declared.
LEMMA JobKeeps ==
  ASSUME Built, NEW j, job' = j, j \in JobFields(j), j.package \in Package,
         j.todo \subseteq Package \ {RUNNER},
         UNCHANGED <<tree, live, record, leaf, consumed>>,
         RetainedHold', FrozenOfOneTree', ShellUntouched => Viewed' /\ Imaged'
  PROVE  Built'
<1>1. BuildTypes'
  BY DEF Built, BuildTypes
<1>2. ShellUntouched' => Declared'
  BY DEF Built, ShellUntouched, Declared, Recorded
<1>3. ShellUntouched' => ShellUntouched
  BY DEF ShellUntouched
<1> QED
  BY <1>1, <1>2, <1>3 DEF Built

\* A command that ends without having written anything more.
LEMMA GivingUp ==
  ASSUME BuildAssumption, Built, job' = NoJob, UNCHANGED <<tree, live, record, leaf, consumed, retained>>
  PROVE  Built'
<1>1. RetainedHold'
  BY DEF Built, RetainedHold
<1>2. FrozenOfOneTree' /\ Viewed' /\ Imaged'
  BY NoJobFacts DEF FrozenOfOneTree, Viewed, Imaged
<1> QED
  BY <1>1, <1>2, NoJobFacts, JobKeeps

\* The steps of a command that installs, up to the image.
LEMMA ChooseKeeps ==
  ASSUME BuildAssumption, Built, NEW p \in Package, Choose(p)
  PROVE  Built'
<1>1. PICK j : j = [job EXCEPT !.package = p, !.view = <<>>,
                               !.pc = IF job.choice = "channel" THEN "channel" ELSE "fetch"]
  OBVIOUS
<1>2. /\ job' = j /\ job.pc = "next" /\ p \in job.todo
      /\ UNCHANGED <<tree, live, record, leaf, consumed, retained>>
  BY <1>1 DEF Choose, Onwards, Unmoved
<1>3. /\ j \in JobFields(j) /\ j.package = p /\ DOMAIN j.view = {}
      /\ j.pc \in {"channel", "fetch"} /\ j.frozen = job.frozen /\ j.todo = job.todo
      /\ j.index = job.index
  <2>1. PICK pc : pc = IF job.choice = "channel" THEN "channel" ELSE "fetch"
    OBVIOUS
  <2>2. PICK view : view = <<>>
    OBVIOUS
  <2>3. j = [job EXCEPT !.package = p, !.view = view, !.pc = pc]
    BY <1>1, <2>1, <2>2
  <2>4. /\ j \in JobFields(j) /\ j.package = p /\ j.view = view /\ j.pc = pc
        /\ j.frozen = job.frozen /\ j.todo = job.todo /\ j.index = job.index
    BY <2>3 DEF Built, BuildTypes, JobFields
  <2>5. DOMAIN view = {}
    BY <2>2
  <2> QED
    BY <2>1, <2>4, <2>5
<1>4. RetainedHold' /\ FrozenOfOneTree'
  BY <1>2, <1>3 DEF Built, RetainedHold, FrozenOfOneTree, BuildTypes
<1>5. ShellUntouched => Viewed' /\ Imaged'
  BY <1>2, <1>3 DEF Built, Viewed, Imaged
<1>6. j.todo \subseteq Package \ {RUNNER}
  BY <1>3 DEF Built, BuildTypes
<1> QED
  BY <1>2, <1>3, <1>4, <1>5, <1>6, JobKeeps

\* Its sources are what was pinned.
LEMMA FetchKeeps ==
  ASSUME BuildAssumption, Built, Fetch
  PROVE  Built'
<1>1. PICK j : j = [job EXCEPT !.pc = "claims"]
  OBVIOUS
<1>2. /\ job' = j \/ job' = NoJob
      /\ job.pc = "fetch" /\ UNCHANGED <<tree, live, record, leaf, consumed, retained>>
  BY <1>1 DEF Fetch, Onwards, Unmoved, Abandon
<1>3. /\ j \in JobFields(j) /\ j.package = job.package /\ j.view = job.view
      /\ j.pc = "claims" /\ j.frozen = job.frozen /\ j.todo = job.todo /\ j.index = job.index
  BY <1>1 DEF Built, BuildTypes, JobFields
<1>4. CASE job' = j
  <2>1. RetainedHold' /\ FrozenOfOneTree'
    BY <1>2, <1>3, <1>4 DEF Built, RetainedHold, FrozenOfOneTree
  <2>2. ShellUntouched => Viewed' /\ Imaged'
    BY <1>2, <1>3, <1>4 DEF Built, Viewed, Imaged
  <2>3. j.package \in Package /\ j.todo \subseteq Package \ {RUNNER}
    BY <1>3 DEF Built, BuildTypes
  <2> QED
    BY <1>2, <1>3, <1>4, <2>1, <2>2, <2>3, JobKeeps
<1> QED
  BY <1>2, <1>4, GivingUp

\* Its providers have the identities it has frozen.
LEMMA ClaimsKeeps ==
  ASSUME BuildAssumption, Built, Claims
  PROVE  Built'
<1>1. PICK j : j = [job EXCEPT !.pc = "view"]
  OBVIOUS
<1>2. /\ job.pc = "claims" /\ UNCHANGED <<tree, live, record, leaf, consumed, retained>>
      /\ \/ job' = NoJob
         \/ job' = j /\ \A q \in PROVIDERS[job.package] \cup {RUNNER} : Provides(q)
  BY <1>1 DEF Claims, Onwards, Unmoved, Abandon
<1>3. /\ j \in JobFields(j) /\ j.package = job.package /\ j.view = job.view
      /\ j.pc = "view" /\ j.frozen = job.frozen /\ j.todo = job.todo /\ j.index = job.index
  BY <1>1 DEF Built, BuildTypes, JobFields
<1>4. ASSUME job' = j, \A q \in PROVIDERS[job.package] \cup {RUNNER} : Provides(q)
      PROVE  Built'
  <2>1. RetainedHold' /\ FrozenOfOneTree'
    BY <1>2, <1>3, <1>4 DEF Built, RetainedHold, FrozenOfOneTree
  <2>2. \A q \in PROVIDERS[job.package] \cup {RUNNER} :
          q \in Recorded /\ record[q].fingerprint = job.frozen[q]
    BY <1>4 DEF Provides, Intact
  <2>3. Recorded' = Recorded
    BY <1>2 DEF Recorded
  <2>4. ShellUntouched => DOMAIN job.view = {}
    BY <1>2 DEF Built, Viewed
  <2>5. ShellUntouched => Viewed'
    BY <1>2, <1>3, <1>4, <2>2, <2>3, <2>4 DEF Viewed
  <2>6. ShellUntouched => Imaged'
    BY <1>2, <1>3, <1>4 DEF Built, Imaged
  <2>7. j.package \in Package /\ j.todo \subseteq Package \ {RUNNER}
    BY <1>3 DEF Built, BuildTypes
  <2> QED
    BY <1>2, <1>3, <1>4, <2>1, <2>5, <2>6, <2>7, JobKeeps
<1> QED
  BY <1>2, <1>4, GivingUp

\* What is put into the view is what was compared with the record.
LEMMA MaterializeKeeps ==
  ASSUME BuildAssumption, Built, NEW q \in Package, Materialize(q)
  PROVE  Built'
<1>1. PICK view : view = [r \in DOMAIN job.view \cup {q} |-> IF r = q THEN live[q] ELSE job.view[r]]
  OBVIOUS
<1>2. PICK j : j = [job EXCEPT !.view = view]
  OBVIOUS
<1>3. /\ job.pc = "view" /\ UNCHANGED <<tree, live, record, leaf, consumed, retained>>
      /\ q \in PROVIDERS[job.package]
      /\ \/ job' = NoJob
         \/ job' = j /\ live[q] = record[q].content
  BY <1>1, <1>2 DEF Materialize, Onwards, Unmoved, Abandon, SnapshotMatches
<1>4. /\ j \in JobFields(j) /\ j.package = job.package /\ j.view = view
      /\ j.pc = "view" /\ j.frozen = job.frozen /\ j.todo = job.todo /\ j.index = job.index
  BY <1>2, <1>3 DEF Built, BuildTypes, JobFields
<1>5. ASSUME job' = j, live[q] = record[q].content
      PROVE  Built'
  <2>1. RetainedHold' /\ FrozenOfOneTree'
    BY <1>3, <1>4, <1>5 DEF Built, RetainedHold, FrozenOfOneTree
  <2>2. Recorded' = Recorded
    BY <1>3 DEF Recorded
  <2>3. ASSUME ShellUntouched
        PROVE  Viewed'
    <3>1. /\ DOMAIN job.view \subseteq PROVIDERS[job.package]
          /\ \A r \in PROVIDERS[job.package] \cup {RUNNER} :
               r \in Recorded /\ record[r].fingerprint = job.frozen[r]
          /\ \A r \in DOMAIN job.view : job.view[r] = job.frozen[r]
          /\ \A r \in Recorded : record[r].content = record[r].fingerprint
      BY <1>3, <2>3 DEF Built, Viewed, Declared
    <3>2. live[q] = job.frozen[q]
      BY <1>3, <1>5, <3>1
    <3>3. \A r \in DOMAIN view : view[r] = job.frozen[r]
      BY <1>1, <3>1, <3>2
    <3> QED
      BY <1>1, <1>3, <1>4, <1>5, <2>2, <3>1, <3>3 DEF Viewed
  <2>4. ShellUntouched => Imaged'
    BY <1>3, <1>4, <1>5 DEF Built, Imaged
  <2>5. j.package \in Package /\ j.todo \subseteq Package \ {RUNNER}
    BY <1>4 DEF Built, BuildTypes
  <2> QED
    BY <1>3, <1>4, <1>5, <2>1, <2>3, <2>4, <2>5, JobKeeps
<1> QED
  BY <1>3, <1>5, GivingUp

\* The shell goes in as it is.
LEMMA CloseViewKeeps ==
  ASSUME BuildAssumption, Built, CloseView
  PROVE  Built'
<1>1. PICK view : view = [r \in DOMAIN job.view \cup {RUNNER} |->
                            IF r = RUNNER THEN live[RUNNER] ELSE job.view[r]]
  OBVIOUS
<1>2. PICK j : j = [job EXCEPT !.pc = "build", !.view = view]
  OBVIOUS
<1>3. /\ job.pc = "view" /\ UNCHANGED <<tree, live, record, leaf, consumed, retained>>
      /\ DOMAIN job.view = PROVIDERS[job.package]
      /\ job' = NoJob \/ job' = j
  BY <1>1, <1>2 DEF CloseView, Onwards, Unmoved, Abandon
<1>4. /\ j \in JobFields(j) /\ j.package = job.package /\ j.view = view
      /\ j.pc = "build" /\ j.frozen = job.frozen /\ j.todo = job.todo /\ j.index = job.index
  BY <1>2, <1>3 DEF Built, BuildTypes, JobFields
<1>5. ASSUME job' = j
      PROVE  Built'
  <2>1. RetainedHold' /\ FrozenOfOneTree'
    BY <1>3, <1>4, <1>5 DEF Built, RetainedHold, FrozenOfOneTree
  <2>2. Recorded' = Recorded
    BY <1>3 DEF Recorded
  <2>3. ASSUME ShellUntouched
        PROVE  Viewed'
    <3>1. /\ \A r \in PROVIDERS[job.package] \cup {RUNNER} :
               r \in Recorded /\ record[r].fingerprint = job.frozen[r]
          /\ \A r \in DOMAIN job.view : job.view[r] = job.frozen[r]
          /\ record[RUNNER].content = record[RUNNER].fingerprint
          /\ live[RUNNER] = record[RUNNER].content
      BY <1>3, <2>3 DEF Built, Viewed, Declared
    <3>2. \A r \in DOMAIN view : view[r] = job.frozen[r]
      BY <1>1, <3>1
    <3> QED
      BY <1>1, <1>3, <1>4, <1>5, <2>2, <3>1, <3>2 DEF Viewed
  <2>4. ShellUntouched => Imaged'
    BY <1>3, <1>4, <1>5 DEF Built, Imaged
  <2>5. j.package \in Package /\ j.todo \subseteq Package \ {RUNNER}
    BY <1>4 DEF Built, BuildTypes
  <2> QED
    BY <1>3, <1>4, <1>5, <2>1, <2>3, <2>4, <2>5, JobKeeps
<1> QED
  BY <1>3, <1>5, GivingUp

\* What comes out is what was frozen.
LEMMA CompileKeeps ==
  ASSUME BuildAssumption, Built, Compile
  PROVE  Built'
<1>1. PICK content : content = Compiled(job.package, job.frozen, job.view)
  OBVIOUS
<1>2. PICK j : j = [job EXCEPT !.pc = "retain", !.image = content]
  OBVIOUS
<1>3. /\ job.pc = "build" /\ UNCHANGED <<tree, live, record, leaf, consumed, retained>>
      /\ job' = NoJob \/ job' = j
  BY <1>1, <1>2 DEF Compile, Compiled, Onwards, Unmoved, Abandon
<1>4. /\ j \in JobFields(j) /\ j.package = job.package /\ j.image = content
      /\ j.pc = "retain" /\ j.frozen = job.frozen /\ j.todo = job.todo /\ j.index = job.index
  BY <1>2 DEF Built, BuildTypes, JobFields
<1>5. ASSUME job' = j
      PROVE  Built'
  <2>1. RetainedHold' /\ FrozenOfOneTree'
    BY <1>3, <1>4, <1>5 DEF Built, RetainedHold, FrozenOfOneTree
  <2>2. Viewed'
    BY <1>4, <1>5 DEF Viewed
  <2>3. ASSUME ShellUntouched
        PROVE  Imaged'
    <3>1. PICK t \in [Package -> 0..MaxTree] : job.frozen = [q \in Package |-> Fingerprint(t, q)]
      BY <1>3 DEF Built, FrozenOfOneTree
    <3>2. /\ DOMAIN job.view = PROVIDERS[job.package] \cup {RUNNER}
          /\ \A q \in DOMAIN job.view : job.view[q] = job.frozen[q]
          /\ \A p \in DOMAIN job.index : job.index[p].reprocorr = job.index[p].fingerprint
      BY <1>3, <2>3 DEF Built, Viewed, Imaged
    <3>3. PICK p \in Package : p = job.package
      BY DEF Built, BuildTypes
    <3>4. PICK frozen : frozen = job.frozen
      OBVIOUS
    <3>5. PICK view : view = job.view
      OBVIOUS
    <3>6. /\ frozen = [q \in Package |-> Fingerprint(t, q)]
          /\ DOMAIN view = PROVIDERS[p] \cup {RUNNER}
          /\ \A q \in DOMAIN view : view[q] = frozen[q]
      BY <3>1, <3>2, <3>3, <3>4, <3>5
    <3>7. content = Compiled(p, frozen, view)
      BY <1>1, <3>3, <3>4, <3>5
    <3>8. Compiled(p, frozen, view) = frozen[p]
      BY <3>6, MadeOfWhatIsFrozen
    <3>9. content = frozen[p]
      BY <3>7, <3>8
    <3> QED
      BY <1>4, <1>5, <3>2, <3>3, <3>4, <3>9 DEF Imaged
  <2>5. j.package \in Package /\ j.todo \subseteq Package \ {RUNNER}
    BY <1>4 DEF Built, BuildTypes
  <2> QED
    BY <1>3, <1>4, <1>5, <2>1, <2>2, <2>3, <2>5, JobKeeps
<1> QED
  BY <1>3, <1>5, GivingUp

\* A stage is retained under its own name.
LEMMA RetainKeeps ==
  ASSUME BuildAssumption, Built, Retain
  PROVE  Built'
<1>1. PICK j : j = [job EXCEPT !.pc = "install"]
  OBVIOUS
<1>2. /\ job.pc = "retain" /\ UNCHANGED <<tree, live, record, leaf, consumed>>
      /\ \/ job' = NoJob /\ UNCHANGED retained
         \/ job' = j
  BY <1>1 DEF Retain, Onwards, Unmoved, Abandon
<1>3. /\ j \in JobFields(j) /\ j.package = job.package /\ j.image = job.image
      /\ j.pc = "install" /\ j.frozen = job.frozen /\ j.todo = job.todo /\ j.index = job.index
  BY <1>1 DEF Built, BuildTypes, JobFields
<1>4. RetainedHold'
  <2>1. CASE UNCHANGED retained
    BY <1>2, <2>1 DEF Built, RetainedHold
  <2>2. CASE retained' = [g \in DOMAIN retained \cup {job.image} |->
                            IF g = job.image THEN job.image ELSE retained[g]]
    BY <1>2, <2>2 DEF Built, RetainedHold
  <2> QED
    BY <2>1, <2>2 DEF Retain
<1>5. CASE job' = j
  <2>1. FrozenOfOneTree'
    BY <1>2, <1>3, <1>5 DEF Built, FrozenOfOneTree
  <2>2. Viewed' /\ (ShellUntouched => Imaged')
    BY <1>2, <1>3, <1>5 DEF Built, Viewed, Imaged
  <2>3. j.package \in Package /\ j.todo \subseteq Package \ {RUNNER}
    BY <1>3 DEF Built, BuildTypes
  <2> QED
    BY <1>2, <1>3, <1>4, <1>5, <2>1, <2>2, <2>3, JobKeeps
<1> QED
  BY <1>2, <1>5, GivingUp

\* A channel gives what its index says, and its index says what was frozen.
LEMMA ReceiveKeeps ==
  ASSUME BuildAssumption, Built, Receive
  PROVE  Built'
<1>1. PICK p \in Package : p = job.package
  BY DEF Built, BuildTypes
<1>2. PICK j : j = [job EXCEPT !.pc = "install", !.image = leaf.pool[p]]
  OBVIOUS
<1>3. /\ job.pc = "channel" /\ UNCHANGED <<tree, live, record, leaf, consumed, retained>>
      /\ \/ job' = NoJob
         \/ /\ job' = j /\ p \in DOMAIN leaf.index
            /\ leaf.index[p].fingerprint = job.frozen[p]
            /\ leaf.pool[p] = leaf.index[p].reprocorr
  BY <1>1, <1>2 DEF Receive, Onwards, Unmoved, Abandon
<1>4. /\ j \in JobFields(j) /\ j.package = p /\ j.image = leaf.pool[p]
      /\ j.pc = "install" /\ j.frozen = job.frozen /\ j.todo = job.todo /\ j.index = job.index
  BY <1>1, <1>2 DEF Built, BuildTypes, JobFields
<1>5. ASSUME job' = j, p \in DOMAIN leaf.index, leaf.index[p].fingerprint = job.frozen[p],
             leaf.pool[p] = leaf.index[p].reprocorr
      PROVE  Built'
  <2>1. RetainedHold'
    BY <1>3 DEF Built, RetainedHold
  <2>2. FrozenOfOneTree' /\ Viewed'
    BY <1>1, <1>3, <1>4, <1>5 DEF Built, FrozenOfOneTree, Viewed
  <2>3. ASSUME ShellUntouched
        PROVE  Imaged'
    <3>1. leaf.index[p].reprocorr = leaf.index[p].fingerprint
      BY <1>5, <2>3 DEF Built, Declared
    <3>2. \A q \in DOMAIN job.index : job.index[q].reprocorr = job.index[q].fingerprint
      BY <2>3 DEF Built, Imaged
    <3> QED
      BY <1>4, <1>5, <3>1, <3>2 DEF Imaged
  <2>4. j.todo \subseteq Package \ {RUNNER}
    BY <1>4 DEF Built, BuildTypes
  <2> QED
    BY <1>3, <1>4, <1>5, <2>1, <2>2, <2>3, <2>4, JobKeeps
<1> QED
  BY <1>3, <1>5, GivingUp

\* The record is written of what was frozen and what came out.
LEMMA InstallKeeps ==
  ASSUME BuildAssumption, Built, InstallSealed
  PROVE  Built'
<1>1. PICK p \in Package : p = job.package
  BY DEF Built, BuildTypes
<1>2. PICK j : j = [job EXCEPT !.pc = "next", !.written = @ \cup {p}]
  OBVIOUS
<1>3. PICK origin : origin = IF job.choice = "channel" THEN "canal" ELSE "fonte"
  OBVIOUS
<1>4. /\ job.pc = "install" /\ UNCHANGED <<tree, retained, leaf, consumed>>
      /\ live' = [live EXCEPT ![p] = job.image] /\ job' = j
      /\ record' = [record EXCEPT ![p] = [form |-> "v3", fingerprint |-> job.frozen[p],
                                          content |-> job.image, origin |-> origin]]
  BY <1>1, <1>2, <1>3 DEF InstallSealed, Onwards
<1>5. /\ j \in JobFields(j) /\ j.package = p /\ j.pc = "next"
      /\ j.frozen = job.frozen /\ j.todo = job.todo /\ j.index = job.index
  BY <1>1, <1>2 DEF Built, BuildTypes, JobFields
<1>6. /\ DOMAIN live' = Package /\ DOMAIN record' = Package
      /\ record'[p] \in RecordFields(record'[p]) /\ record'[p].form = "v3"
      /\ record'[p].content = job.image /\ record'[p].fingerprint = job.frozen[p]
      /\ \A q \in Package \ {p} : record'[q] = record[q] /\ live'[q] = live[q]
  BY <1>4 DEF Built, BuildTypes, RecordFields
<1>7. BuildTypes'
  BY <1>4, <1>5, <1>6 DEF Built, BuildTypes
<1>8. RetainedHold' /\ FrozenOfOneTree' /\ Viewed'
  BY <1>4, <1>5 DEF Built, RetainedHold, FrozenOfOneTree, Viewed
<1>9. ASSUME ShellUntouched
      PROVE  Declared' /\ Imaged'
  <2>1. job.image = job.frozen[p] /\ p # RUNNER
    BY <1>1, <1>4, <1>9 DEF Built, Imaged, FrozenOfOneTree
  <2>2. RUNNER \in Package
    BY DEF BuildAssumption
  <2>3. Declared'
    BY <1>4, <1>6, <1>9, <2>1, <2>2 DEF Built, Declared, Recorded
  <2>4. Imaged'
    BY <1>4, <1>5, <1>9 DEF Built, Imaged
  <2> QED
    BY <2>3, <2>4
<1> QED
  BY <1>4, <1>7, <1>8, <1>9 DEF Built, ShellUntouched

\* The closing changes the format of records, and nothing they say.
LEMMA CloseKeeps ==
  ASSUME BuildAssumption, Built, Close
  PROVE  Built'
<1>1. /\ job' = NoJob /\ UNCHANGED <<tree, live, retained, leaf, consumed>>
      /\ record' = [p \in Package |->
           IF p \in job.written /\ Intact(p) THEN [record[p] EXCEPT !.form = "v4"] ELSE record[p]]
  BY DEF Close, Abandon
<1>2. ASSUME NEW p \in Package
      PROVE  /\ record'[p] \in RecordFields(record'[p])
             /\ record'[p].content = record[p].content
             /\ record'[p].fingerprint = record[p].fingerprint
             /\ record'[p].form # "none" <=> record[p].form # "none"
  <2>1. record[p] \in RecordFields(record[p])
    BY DEF Built, BuildTypes
  <2>2. \/ record'[p] = record[p]
        \/ record'[p] = [record[p] EXCEPT !.form = "v4"] /\ p \in Recorded
    BY <1>1 DEF Intact
  <2>3. PICK r, s : r = record[p] /\ s = record'[p]
    OBVIOUS
  <2>4. /\ s \in RecordFields(s) /\ s.content = r.content /\ s.fingerprint = r.fingerprint
        /\ \/ s = r
           \/ s.form = "v4" /\ r.form # "none"
    BY <2>1, <2>2, <2>3 DEF RecordFields, Recorded
  <2> QED
    BY <2>3, <2>4
<1>3. BuildTypes'
  BY <1>1, <1>2, NoJobFacts DEF Built, BuildTypes
<1>4. RetainedHold' /\ FrozenOfOneTree' /\ Viewed' /\ Imaged'
  BY <1>1, NoJobFacts DEF Built, RetainedHold, FrozenOfOneTree, Viewed, Imaged
<1>5. Recorded' = Recorded /\ Recorded \subseteq Package /\ RUNNER \in Package
  BY <1>2 DEF Recorded, BuildAssumption
<1>6. ShellUntouched => Declared'
  BY <1>1, <1>2, <1>5 DEF Built, Declared
<1> QED
  BY <1>1, <1>3, <1>4, <1>6 DEF Built, ShellUntouched

-----------------------------------------------------------------------------
\* A command begins with what the tree says then.
LEMMA BeginKeeps ==
  ASSUME BuildAssumption, Built, NEW p \in Package, NEW choice \in {"build", "channel"},
         BeginBuild(p, choice)
  PROVE  Built'
<1>1. PICK frozen : frozen = [q \in Package |-> Fingerprint(tree, q)]
  OBVIOUS
<1>2. PICK todo : todo = IF choice = "channel" THEN {q \in {p} : ~UpToDate(q, frozen[q])}
                         ELSE Todo({p}, frozen)
  OBVIOUS
<1>3. PICK j : j = [NoJob EXCEPT !.pc = "next", !.frozen = frozen, !.todo = todo, !.choice = choice]
  OBVIOUS
<1>4. /\ job' = j /\ p # RUNNER
      /\ UNCHANGED <<tree, live, record, retained, leaf>>
      /\ consumed' = [consumed EXCEPT !.commands = @ + 1]
  BY <1>1, <1>2, <1>3 DEF BeginBuild
<1>5. /\ j \in JobFields(j) /\ j.package \in Package /\ j.pc = "next"
      /\ j.frozen = frozen /\ j.todo = todo /\ DOMAIN j.index = {}
  <2>1. PICK idle : idle = NoJob
    OBVIOUS
  <2>2. j = [idle EXCEPT !.pc = "next", !.frozen = frozen, !.todo = todo, !.choice = choice]
    BY <1>3, <2>1
  <2>3. idle \in JobFields(idle) /\ idle.package \in Package /\ DOMAIN idle.index = {}
    BY <2>1, NoJobFacts
  <2> QED
    BY <2>2, <2>3 DEF JobFields
<1>6. todo \subseteq Package \ {RUNNER}
  BY <1>2, <1>4, ClosureFacts DEF Todo
<1>7. /\ consumed' \in [commands : {consumed'.commands}, kills : {consumed'.kills}, edits : {consumed'.edits}]
      /\ consumed'.edits = consumed.edits
  BY <1>4 DEF Built, BuildTypes
<1>8. BuildTypes'
  BY <1>4, <1>5, <1>6, <1>7 DEF Built, BuildTypes
<1>9. RetainedHold' /\ Viewed' /\ Imaged'
  BY <1>4, <1>5, <1>7 DEF Built, RetainedHold, Viewed, Imaged
<1>10. FrozenOfOneTree'
  BY <1>1, <1>4, <1>5 DEF Built, BuildTypes, FrozenOfOneTree
<1>11. ShellUntouched' => ShellUntouched /\ Declared'
  BY <1>4, <1>7 DEF Built, ShellUntouched, Declared, Recorded
<1> QED
  BY <1>8, <1>9, <1>10, <1>11 DEF Built

\* An emission begins with nothing in its index.
LEMMA BeginEmitKeeps ==
  ASSUME BuildAssumption, Built, NEW p \in Package, NEW release \in BOOLEAN,
         BeginEmit(p, release)
  PROVE  Built'
<1>1. PICK frozen : frozen = [q \in Package |-> record[q].fingerprint]
  OBVIOUS
<1>2. PICK choice : choice = IF release THEN "release" ELSE "development"
  OBVIOUS
<1>3. PICK todo : todo = Emitted(p)
  OBVIOUS
<1>4. PICK j : j = [NoJob EXCEPT !.pc = "emit", !.todo = todo, !.choice = choice,
                                !.frozen = frozen]
  OBVIOUS
<1>5. /\ job' = j
      /\ UNCHANGED <<tree, live, record, retained, leaf>>
      /\ consumed' = [consumed EXCEPT !.commands = @ + 1]
  BY <1>1, <1>2, <1>3, <1>4 DEF BeginEmit
<1>6. /\ j \in JobFields(j) /\ j.package \in Package /\ j.pc = "emit"
      /\ j.todo = todo /\ DOMAIN j.index = {}
  <2>1. PICK idle : idle = NoJob
    OBVIOUS
  <2>2. j = [idle EXCEPT !.pc = "emit", !.todo = todo, !.choice = choice, !.frozen = frozen]
    BY <1>4, <2>1
  <2>3. idle \in JobFields(idle) /\ idle.package \in Package /\ DOMAIN idle.index = {}
    BY <2>1, NoJobFacts
  <2> QED
    BY <2>2, <2>3 DEF JobFields
<1>7. todo \subseteq Package \ {RUNNER}
  BY <1>3, ClosureFacts DEF Emitted
<1>8. /\ consumed' \in [commands : {consumed'.commands}, kills : {consumed'.kills}, edits : {consumed'.edits}]
      /\ consumed'.edits = consumed.edits
  BY <1>5 DEF Built, BuildTypes
<1>9. BuildTypes'
  BY <1>5, <1>6, <1>7, <1>8 DEF Built, BuildTypes
<1>10. RetainedHold' /\ Viewed' /\ Imaged' /\ FrozenOfOneTree'
  BY <1>5, <1>6, <1>8 DEF Built, RetainedHold, Viewed, Imaged, FrozenOfOneTree
<1>11. ShellUntouched' => ShellUntouched /\ Declared'
  BY <1>5, <1>8 DEF Built, ShellUntouched, Declared, Recorded
<1> QED
  BY <1>9, <1>10, <1>11 DEF Built

\* An image is looked for under the hash of an intact record.
LEMMA FindImageKeeps ==
  ASSUME BuildAssumption, Built, NEW q \in Package, FindImage(q)
  PROVE  Built'
<1>1. PICK h : h = record[q].content
  OBVIOUS
<1>2. PICK j : j = [job EXCEPT !.pc = "compress", !.package = q, !.image = h]
  OBVIOUS
<1>3. /\ job.pc = "emit" /\ UNCHANGED <<tree, live, record, leaf, consumed, retained>>
      /\ \/ job' = NoJob
         \/ job' = j /\ q \in Recorded
  BY <1>1, <1>2 DEF FindImage, Onwards, Unmoved, Abandon, Intact
<1>4. /\ j \in JobFields(j) /\ j.package = q /\ j.image = h
      /\ j.pc = "compress" /\ j.todo = job.todo /\ j.index = job.index
  BY <1>2 DEF Built, BuildTypes, JobFields
<1>5. ASSUME job' = j, q \in Recorded
      PROVE  Built'
  <2>1. RetainedHold' /\ FrozenOfOneTree' /\ Viewed'
    BY <1>3, <1>4, <1>5 DEF Built, RetainedHold, FrozenOfOneTree, Viewed
  <2>2. Recorded' = Recorded
    BY <1>3 DEF Recorded
  <2>3. ShellUntouched => Imaged'
    BY <1>1, <1>3, <1>4, <1>5, <2>2 DEF Built, Imaged
  <2>4. j.todo \subseteq Package \ {RUNNER}
    BY <1>4 DEF Built, BuildTypes
  <2> QED
    BY <1>3, <1>4, <1>5, <2>1, <2>3, <2>4, JobKeeps
<1> QED
  BY <1>3, <1>5, GivingUp

\* The index says of it what the record says.
LEMMA CompressKeeps ==
  ASSUME BuildAssumption, Built, Compress
  PROVE  Built'
<1>1. PICK q \in Package : q = job.package
  BY DEF Built, BuildTypes
<1>2. PICK read : read = IF job.image \in DOMAIN retained THEN retained[job.image] ELSE job.image
  OBVIOUS
<1>3. PICK entry : entry = [fingerprint |-> record[q].fingerprint, transport |-> read,
                            reprocorr |-> job.image]
  OBVIOUS
<1>4. PICK index : index = [r \in DOMAIN job.index \cup {q} |->
                              IF r = q THEN entry ELSE job.index[r]]
  OBVIOUS
<1>5. PICK pool : pool = [r \in DOMAIN job.pool \cup {q} |-> IF r = q THEN read ELSE job.pool[r]]
  OBVIOUS
<1>6. PICK j : j = [job EXCEPT !.pc = "emit", !.pool = pool, !.index = index]
  OBVIOUS
<1>7. job.pc = "compress" /\ job' = j /\ UNCHANGED <<tree, live, record, leaf, consumed, retained>>
  BY <1>1, <1>2, <1>3, <1>4, <1>5, <1>6 DEF Compress, Onwards, Unmoved
<1>8. /\ j \in JobFields(j) /\ j.package = q /\ j.index = index
      /\ j.pc = "emit" /\ j.todo = job.todo
  BY <1>1, <1>6 DEF Built, BuildTypes, JobFields
<1>9. RetainedHold' /\ FrozenOfOneTree' /\ Viewed'
  BY <1>7, <1>8 DEF Built, RetainedHold, FrozenOfOneTree, Viewed
<1>10. ASSUME ShellUntouched
       PROVE  Imaged'
  <2>1. q \in Recorded /\ job.image = record[q].content
    BY <1>1, <1>7, <1>10 DEF Built, Imaged
  <2>2. record[q].content = record[q].fingerprint
    BY <1>10, <2>1 DEF Built, Declared
  <2>3. entry.reprocorr = entry.fingerprint
    BY <1>3, <2>1, <2>2
  <2>4. \A p \in DOMAIN job.index : job.index[p].reprocorr = job.index[p].fingerprint
    BY <1>10 DEF Built, Imaged
  <2>5. \A p \in DOMAIN index : index[p].reprocorr = index[p].fingerprint
    BY <1>4, <2>3, <2>4
  <2> QED
    BY <1>7, <1>8, <2>5 DEF Imaged
<1>11. j.todo \subseteq Package \ {RUNNER}
  BY <1>8 DEF Built, BuildTypes
<1> QED
  BY <1>7, <1>8, <1>9, <1>10, <1>11, JobKeeps

\* The channel is the index and the pool of the emission.
LEMMA RenameKeeps ==
  ASSUME BuildAssumption, Built, Rename
  PROVE  Built'
<1>1. /\ leaf' = [index |-> job.index, pool |-> job.pool] /\ job' = NoJob
      /\ UNCHANGED <<tree, live, record, retained, consumed>>
  BY DEF Rename, Abandon
<1>2. leaf'.index = job.index /\ leaf' \in [index : {leaf'.index}, pool : {leaf'.pool}]
  BY <1>1
<1>3. BuildTypes'
  BY <1>1, <1>2, NoJobFacts DEF Built, BuildTypes
<1>4. RetainedHold' /\ FrozenOfOneTree' /\ Viewed' /\ Imaged'
  BY <1>1, NoJobFacts DEF Built, RetainedHold, FrozenOfOneTree, Viewed, Imaged
<1>5. ShellUntouched => Declared'
  BY <1>1, <1>2 DEF Built, Declared, Recorded, Imaged
<1> QED
  BY <1>1, <1>3, <1>4, <1>5 DEF Built, ShellUntouched

\* A kill, a build that fails.
LEMMA StopKeeps ==
  ASSUME BuildAssumption, Built, StopBuild
  PROVE  Built'
<1>1. /\ job' = NoJob /\ UNCHANGED <<tree, live, record, retained, leaf>>
      /\ consumed' = [consumed EXCEPT !.kills = @ + 1]
  BY DEF StopBuild, Abandon
<1>2. /\ consumed' \in [commands : {consumed'.commands}, kills : {consumed'.kills}, edits : {consumed'.edits}]
      /\ consumed'.edits = consumed.edits
  BY <1>1 DEF Built, BuildTypes
<1>3. BuildTypes'
  BY <1>1, <1>2, NoJobFacts DEF Built, BuildTypes
<1>4. RetainedHold' /\ FrozenOfOneTree' /\ Viewed' /\ Imaged'
  BY <1>1, <1>2, NoJobFacts DEF Built, RetainedHold, FrozenOfOneTree, Viewed, Imaged
<1>5. ShellUntouched' => ShellUntouched /\ Declared'
  BY <1>1, <1>2 DEF Built, ShellUntouched, Declared, Recorded
<1> QED
  BY <1>3, <1>4, <1>5 DEF Built

\* A new recipe; what was frozen is not looked at again.
LEMMA BumpKeeps ==
  ASSUME BuildAssumption, Built, NEW p \in Package, Bump(p)
  PROVE  Built'
<1>1. /\ tree' = [tree EXCEPT ![p] = @ + 1] /\ tree[p] < MaxTree
      /\ UNCHANGED <<source, live, record, retained, leaf, job, consumed>>
  BY DEF Bump
<1>2. tree' \in [Package -> 0..MaxTree]
  BY <1>1 DEF Built, BuildTypes, BuildAssumption
<1>3. BuildTypes'
  BY <1>1, <1>2 DEF Built, BuildTypes
<1>4. RetainedHold' /\ FrozenOfOneTree' /\ (ShellUntouched' => ShellUntouched)
  BY <1>1 DEF Built, RetainedHold, FrozenOfOneTree, Fingerprint, ShellUntouched
<1>5. ShellUntouched => Declared' /\ Viewed' /\ Imaged'
  BY <1>1 DEF Built, Declared, Viewed, Imaged, Recorded
<1> QED
  BY <1>3, <1>4, <1>5 DEF Built

\* Whatever others write: the records stay, and the shell has its own flag.
LEMMA EditKeeps ==
  ASSUME BuildAssumption, Built, NEW p \in Package, NEW place \in Place, Retouch(p, place)
  PROVE  Built'
<1>1. /\ UNCHANGED <<tree, record, job>> /\ Touched(p, place)
      /\ consumed' = [consumed EXCEPT !.edits = @ \cup {<<p, place>>}]
  BY DEF Retouch
<1>2. /\ consumed' \in [commands : {consumed'.commands}, kills : {consumed'.kills}, edits : {consumed'.edits}]
      /\ consumed'.edits = consumed.edits \cup {<<p, place>>}
  BY <1>1 DEF Built, BuildTypes
<1>3. ShellUntouched' => ShellUntouched /\ ~(p = RUNNER /\ place = "live")
  BY <1>2 DEF ShellUntouched
<1>4. /\ DOMAIN live' = Package
      /\ ~(p = RUNNER /\ place = "live") => live'[RUNNER] = live[RUNNER]
  <2>1. \/ live' = live
        \/ place = "live" /\ live' = [live EXCEPT ![p] = {<<p, Edited>>}]
    BY <1>1 DEF Touched, Place
  <2>2. DOMAIN live = Package /\ RUNNER \in Package
    BY DEF Built, BuildTypes, BuildAssumption
  <2> QED
    BY <2>1, <2>2
<1>5. /\ leaf' \in [index : {leaf'.index}, pool : {leaf'.pool}]
      /\ leaf'.index = leaf.index
  <2>1. leaf \in [index : {leaf.index}, pool : {leaf.pool}]
    BY DEF Built, BuildTypes
  <2>2. leaf' = leaf \/ leaf' = [leaf EXCEPT !.pool[p] = {<<p, Edited>>}]
    BY <1>1 DEF Touched
  <2> QED
    BY <2>1, <2>2
<1>6. RetainedHold'
  <2>1. CASE place = "retained"
    <3>1. <<p, place>> \in consumed'.edits /\ <<p, place>>[2] = "retained"
      BY <1>2, <2>1
    <3> QED
      BY <3>1 DEF RetainedHold
  <2>2. CASE place # "retained"
    BY <1>1, <1>2, <2>2 DEF Built, RetainedHold, Touched
  <2> QED
    BY <2>1, <2>2
<1>7. BuildTypes'
  BY <1>1, <1>2, <1>4, <1>5 DEF Built, BuildTypes
<1>8. FrozenOfOneTree'
  BY <1>1 DEF Built, FrozenOfOneTree, Fingerprint
<1>9. ShellUntouched' => Declared' /\ Viewed' /\ Imaged'
  BY <1>1, <1>3, <1>4, <1>5 DEF Built, Declared, Viewed, Imaged, Recorded
<1> QED
  BY <1>6, <1>7, <1>8, <1>9 DEF Built

-----------------------------------------------------------------------------
\* Every step keeps the invariant.
LEMMA BuiltKept ==
  ASSUME BuildAssumption, Built, [BuildNext]_bvars
  PROVE  Built'
<1>1. CASE UNCHANGED bvars
  BY <1>1 DEF bvars, Built, BuildTypes, RetainedHold, FrozenOfOneTree, Declared, Viewed, Imaged, Recorded,
              ShellUntouched, Fingerprint
<1> QED
  BY <1>1, BumpKeeps, ChooseKeeps, MaterializeKeeps, FindImageKeeps, EditKeeps, BeginKeeps,
     BeginEmitKeeps, FetchKeeps, ClaimsKeeps, CloseViewKeeps, CompileKeeps, RetainKeeps,
     ReceiveKeeps, InstallKeeps, CloseKeeps, StopKeeps, CompressKeeps, RenameKeeps DEF BuildNext

\* A machine with a runner.
LEMMA BuiltAtFirst ==
  ASSUME BuildAssumption, BuildInit
  PROVE  Built
<1>1. /\ tree = [p \in Package |-> 0] /\ DOMAIN live = Package /\ DOMAIN record = Package
      /\ RUNNER \in Package /\ MaxTree \in Nat
      /\ retained = <<>> /\ leaf = NoLeaf /\ job = NoJob
      /\ consumed = [commands |-> 0, kills |-> 0, edits |-> {}]
  BY DEF BuildInit, BuildAssumption
<1>2. PICK made : made = Fingerprint(tree, RUNNER)
  OBVIOUS
<1>3. /\ live[RUNNER] = made
      /\ record[RUNNER] = [form |-> "v4", fingerprint |-> made, content |-> made,
                           origin |-> "vendor"]
      /\ \A p \in Package \ {RUNNER} :
           record[p] = [form |-> "none", fingerprint |-> {}, content |-> {}, origin |-> "none"]
  BY <1>1, <1>2 DEF BuildInit, NoRecord, Nothing
<1>4. \A p \in Package : record[p] \in RecordFields(record[p])
  BY <1>3 DEF RecordFields
<1>5. leaf \in [index : {leaf.index}, pool : {leaf.pool}] /\ DOMAIN leaf.index = {}
  BY <1>1 DEF NoLeaf
<1>6. BuildTypes
  BY <1>1, <1>4, <1>5, NoJobFacts DEF BuildTypes
<1>7. RetainedHold /\ FrozenOfOneTree /\ Viewed /\ Imaged
  BY <1>1, NoJobFacts DEF RetainedHold, FrozenOfOneTree, Viewed, Imaged
<1>8. Declared
  BY <1>1, <1>3, <1>5 DEF Declared, Recorded
<1> QED
  BY <1>6, <1>7, <1>8 DEF Built

\* The invariant says what the run checks.
LEMMA DeclarationFollows ==
  ASSUME Built
  PROVE  BuiltIsDeclared
BY DEF Built, BuiltIsDeclared, Declared, RetainedHold

\* For any packages, providers, runner and bounds, and as long as nobody edits the files of
\* the runner: whoever edits what while it is built, emitted and taken back, a record says
\* a fingerprint only of what was made of exactly that (create_build_view,
\* sealed_channel_snapshot), and an edit of it is why a retained stage is not its name.
THEOREM RecordsSayWhatIsMade ==
  ASSUME BuildAssumption
  PROVE  BuildSpec => []BuiltIsDeclared
<1>1. BuildInit => Built
  BY BuiltAtFirst
<1>2. Built /\ [BuildNext]_bvars => Built'
  BY BuiltKept
<1>3. Built => BuiltIsDeclared
  BY DeclarationFollows
<1> QED
  BY <1>1, <1>2, <1>3, PTL DEF BuildSpec

=============================================================================
