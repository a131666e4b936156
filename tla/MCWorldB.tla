------------------------------- MODULE MCWorldB -------------------------------
(***************************************************************************)
(* Small systems for WorldB.                                               *)
(*                                                                         *)
(* Succession: the provisional "seed" is installed and owns "a" and "b";   *)
(* "glibc" supersedes it.  Sharing: "theme" is installed and owns the      *)
(* shared directory "d"; "app" depends on it.  "other" is a package of     *)
(* both that is neither.                                                   *)
(***************************************************************************)
EXTENDS WorldB, TLC

CONSTANTS
  Payload,     \* payload paths of the instance
  Owned,       \* Owned[p]: what p's record lists at the beginning
  Starts       \* the sets of packages that may be installed at the beginning

MCPath == Payload \cup {"tmp"}
          \cup {Meta[p] : p \in Package} \cup {Manifest[p] : p \in Package}

MCMeta == [p \in Package |-> "meta-" \o p]

MCManifest == [p \in Package |-> "manifest-" \o p]

MCAbove == [x \in MCPath |-> IF x \in {"d/c", "d/e"} THEN {"d"} ELSE {}]

MCRank == [x \in MCPath |->
  CASE x = "a" -> 1 [] x = "b" -> 2 [] x = "d" -> 3 [] x = "d/c" -> 4
    [] x = "d/e" -> 5 [] OTHER -> 0]

Old(kind, c) == [kind |-> kind, by |-> 0, claims |-> c]

MCRoot(there) ==
  LET kept == UNION {Owned[p] : p \in there} IN
  [x \in MCPath |->
     IF x \in kept THEN Old(IF x \in Dir THEN "dir" ELSE "file", {})
     ELSE IF \E p \in there : x \in {Meta[p], Manifest[p]}
          THEN Old("file", Owned[CHOOSE p \in there : x \in {Meta[p], Manifest[p]}])
     ELSE Absent]

MCRoots == {MCRoot(there) : there \in Starts}

MCClaimSets == SUBSET Payload

Nothing == [p \in Package |-> {}]

SuccessionOwned == [p \in Package |-> IF p = "seed" THEN {"a", "b"} ELSE {}]

SuccessionSupersedes == [p \in Package |-> IF p = "glibc" THEN {"seed"} ELSE {}]

\* The successor takes one claim or both, and may later give one up; the seed is
\* rebuilt with all of its paths, or without the one it lost.
SuccessionStages ==
  [p \in Package |->
     CASE p = "seed"  -> {<<"a", "b">>, <<"b">>}
       [] p = "glibc" -> {<<"a", "b">>, <<"d", "a", "d/c">>}
       [] OTHER       -> {<<"a">>, <<"d">>}]

SharingOwned == [p \in Package |-> IF p = "theme" THEN {"d"} ELSE {}]

SharingDeps == [p \in Package |-> IF p = "app" THEN {"theme"} ELSE {}]

SharingShared == [p \in Package |-> IF p = "theme" THEN {"d"} ELSE {}]

SharingStages ==
  [p \in Package |->
     CASE p = "theme" -> {<<"d">>, <<"d", "d/e">>}
       [] p = "app"   -> {<<"d", "d/c">>, <<"a">>, <<"d", "d/c", "d/e">>}
       [] OTHER       -> {<<"d", "d/c">>, <<"a">>}]

\* Two claims pass to the successor in one transaction.
BothStages ==
  [p \in Package |-> IF p = "glibc" THEN {<<"a", "b">>} ELSE {}]
=============================================================================
