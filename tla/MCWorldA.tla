------------------------------ MODULE MCWorldA ------------------------------
(***************************************************************************)
(* A provisional seed with two commands, a tool that supersedes it, a      *)
(* stranger that does not, and the program's own package, which adopts the *)
(* executor the installer left.                                            *)
(***************************************************************************)
EXTENDS WorldA

R(v, b, cmds) == [v |-> v, b |-> b, cmds |-> cmds]

MCPackage == {"seed", "tool", "stranger", "self"}

MCRecipes == [p \in MCPackage |->
  CASE p = "seed"     -> {R(1, 1, {"a", "b"}), R(1, 2, {"a", "b"})}
    [] p = "tool"     -> {R(1, 1, {"a"}), R(2, 1, {"a", "b"})}
    [] p = "stranger" -> {R(1, 1, {"b"})}
    [] p = "self"     -> {R(1, 1, {"m"}), R(2, 1, {"m"}), R(3, 1, {"m"}), R(2, 2, {"m"})}]

MCSupersedes == [p \in MCPackage |-> IF p = "tool" THEN {"seed"} ELSE {}]

MCAdopts == [p \in MCPackage |-> IF p = "self" THEN {"m"} ELSE {}]
=============================================================================
