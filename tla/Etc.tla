--------------------------------- MODULE Etc ---------------------------------
(***************************************************************************)
(* One default of /etc: the file below /usr/share/factory/etc that a       *)
(* package brings, and the one in /etc, which belongs to the administrator *)
(* and to no record.  Each installation is one step (AtomicInstall, which  *)
(* WorldB implements); extended attributes are left out.                   *)
(* (src/minitrue/src/install.rs, materialize_etc)                          *)
(***************************************************************************)
CONSTANTS Content, None

\* The content of a link is its target.
File == [kind : {"file"}, content : Content, mode : {0, 1}]
Link == [kind : {"link"}, content : Content, mode : {0}]
Default == File \cup Link

EtcAssumption == Content # {} /\ None \notin Default

VARIABLES
  factory,  \* the default below /usr/share/factory
  seal,     \* the proof (f:) the record has of it
  live,     \* the file in /etc
  beside,   \* <file>.new
  since     \* why live may differ from the factory, since it last did not

vars == <<factory, seal, live, beside, since>>

Why == {"edited", "mode only", "link", "unrecorded"}

-----------------------------------------------------------------------------
(***************************************************************************)
(* materialize_etc                                                         *)
(***************************************************************************)

Same(d) ==
  /\ live # None
  /\ IF d.kind = "link" THEN live = d ELSE live.kind = "file" /\ live.content = d.content

\* Mutant: two points are compared instead of three.
NeverUnedited(d, recorded) == FALSE

\* Three points are compared, of a regular file: what is there has the proof,
\* of content and mode, that the record had of the previous default.
Unedited(d, recorded) == d.kind = "file" /\ recorded # None /\ live = recorded

Reasons(d, recorded) ==
  {why \in Why : \/ why = "mode only" /\ Same(d)
                 \/ why = "link" /\ d.kind = "link"
                 \/ why = "unrecorded" /\ recorded = None}

Materialize(d, recorded) ==
  /\ IF live = None \/ (~Same(d) /\ Unedited(d, recorded))
     THEN live' = d /\ UNCHANGED beside
     ELSE /\ UNCHANGED live
          /\ beside' = IF Same(d) THEN beside ELSE d
  /\ since' = IF live' = d THEN {} ELSE since \cup Reasons(d, recorded)

\* What the record proves of a link is not f:.
Proof(d) == IF d.kind = "file" THEN d ELSE None

\* The manifest looked at is the one this package had: a successor that takes
\* the file finds none.
Install(d, successor) ==
  /\ Materialize(d, IF successor THEN None ELSE seal)
  /\ factory' = d
  /\ seal' = Proof(d)

\* memoryhole takes the default and the record; what is in /etc stays.
Remove ==
  /\ factory # None
  /\ factory' = None /\ seal' = None
  /\ UNCHANGED <<live, beside, since>>

\* A file the administrator had already; or an old record, without f: proofs.
Init ==
  /\ beside = None /\ seal = None
  /\ \/ factory = None /\ live \in Default \cup {None}
     \/ factory \in Default /\ live = factory
  /\ since = IF live \in {None, factory} THEN {} ELSE {"edited"}

\* The administrator writes, changes the mode of, replaces or deletes it.
Edit ==
  /\ live' \in (Default \cup {None}) \ {live}
  /\ since' = IF live' = factory THEN {} ELSE since \cup {"edited"}
  /\ UNCHANGED <<factory, seal, beside>>

\* or takes the new default.
TakeNew ==
  /\ beside # None
  /\ live' = beside /\ beside' = None
  /\ since' = IF live' = factory THEN {} ELSE since \cup {"edited"}
  /\ UNCHANGED <<factory, seal>>

Next ==
  \/ \E d \in Default, successor \in BOOLEAN : Install(d, successor)
  \/ Remove \/ Edit \/ TakeNew

Spec == Init /\ [][Next]_vars

-----------------------------------------------------------------------------
(***************************************************************************)
(* Properties                                                              *)
(***************************************************************************)

\* What the record proves is what it put below the factory.
TypeOK ==
  /\ {factory, live, beside} \subseteq Default \cup {None}
  /\ seal \in {None, factory} /\ seal \in File \cup {None}
  /\ since \subseteq Why

\* A file that nobody edited follows the default, whatever was installed since,
\* but for the four reasons the code leaves: a new mode alone, a link, a default
\* no record proves (install.rs:6938, "o default muda e o vivo acompanha").
Follows == (live # None /\ factory # None /\ live # factory) => since # {}

\* and no installation replaces a file that is not the default before it; the
\* new one is then left beside it (SPEC-0002:97).
EditsStandStep ==
  \A d \in Default, successor \in BOOLEAN :
    (Install(d, successor) /\ live # None) =>
       \/ live' = live
       \/ live' = d /\ live = factory
=============================================================================
