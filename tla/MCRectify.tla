------------------------------ MODULE MCRectify ------------------------------
(***************************************************************************)
(* Two packages in two versions of the recipes: in the first the app needs *)
(* the library, in the second the app is another and needs nothing, so     *)
(* that the library becomes an orphan.                                     *)
(***************************************************************************)
EXTENDS Rectify

MCPackage == {"app", "lib"}

MCTree == {"t1", "t2"}

MCFingerprint == [t \in MCTree |-> [p \in MCPackage |-> IF t = "t2" /\ p = "app" THEN 2 ELSE 1]]

MCDeps == [t \in MCTree |-> [p \in MCPackage |-> IF t = "t1" /\ p = "app" THEN {"lib"} ELSE {}]]
=============================================================================
