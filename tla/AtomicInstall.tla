---------------------------- MODULE AtomicInstall ----------------------------
(***************************************************************************)
(* What a world-B installation promises (SPEC-0003 sections 3, 6 and 7):   *)
(* to everyone who looks, the root goes in one step from the state without *)
(* the new record to the state with it.  There is no journal, no crash and *)
(* no rollback here; WorldB implements this specification.                 *)
(***************************************************************************)
EXTENDS Naturals

CONSTANTS Package, Path, Dir, Meta, Manifest, Provisional, Supersedes,
          Roots

VARIABLE root

Records == {Meta[q] : q \in Package} \cup {Manifest[q] : q \in Package}

Holds(r, q) == IF r[Meta[q]].kind = "absent" THEN {} ELSE r[Manifest[q]].claims

\* The whole effect of installing p.
Install(p) ==
  LET was  == root
      now  == root'
      id   == now[Meta[p]].by
      mine == now[Manifest[p]].claims
  IN /\ now[Meta[p]] # was[Meta[p]]
     /\ now[Meta[p]].kind = "file"
     /\ \A x \in Path : was[x].by < id
     /\ mine \subseteq now[Meta[p]].claims
     /\ \A x \in mine : now[x].kind = IF x \in Dir THEN "dir" ELSE "file"
     /\ \A x \in mine \ Dir : now[x].by = id
     \* another record changes only by ceding: a declared provisional loses a
     \* leaf to the new owner, or a directory the new STAGE brings too
     /\ \A q \in Package \ {p} :
          /\ now[Meta[q]] = was[Meta[q]]
          /\ now[Manifest[q]] # was[Manifest[q]] =>
               /\ q \in Provisional \cap Supersedes[p]
               /\ LET left == now[Manifest[q]].claims IN
                  /\ left \subseteq Holds(was, q)
                  /\ Holds(was, q) \ left \subseteq mine \cup Dir
     \* payload: what the old record of p listed may go, a missing directory may
     \* appear (an empty one inside another's D: is nobody's claim), everything
     \* else stays
     /\ \A x \in Path \ (Records \cup mine) :
          \/ now[x] = was[x]
          \/ x \in Holds(was, p) /\ now[x].kind = "absent"
          \/ x \in Dir /\ was[x].kind = "absent" /\ now[x].kind = "dir"
     /\ \A x \in mine \cap Dir : was[x].kind = "dir" => now[x] = was[x]

Next == \E p \in Package : Install(p)

Spec == root \in Roots /\ [][Next]_root
=============================================================================
