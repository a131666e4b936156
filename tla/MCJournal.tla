------------------------------ MODULE MCJournal ------------------------------
(***************************************************************************)
(* A small root for Journal: a directory "d" and its file "d/b" that are   *)
(* not there, a file "a" that is, and the records of two packages.  In one *)
(* scene the journals are those the program writes; in the other (Found)   *)
(* they are found, on a machine of its own, and nobody can vouch for them. *)
(***************************************************************************)
EXTENDS Journal, TLC

CONSTANT Payload  \* the payload paths of the first scene

VARIABLES scene, ffs, fjournal, fpc, fpkg, fop, fcur, fhow, fverdict, fsnap, ftxs, fcrashes

Records == {Meta[p] : p \in Package} \cup {Manifest[p] : p \in Package}
MCPath == Payload \cup {"tmp"} \cup Records
FoundPath == {"a", "d", "d/b", "tmp"} \cup Records

MCMeta == [p \in Package |-> "meta-" \o p]

MCManifest == [p \in Package |-> "manifest-" \o p]

MCAbove == [x \in MCPath |-> IF x = "d/b" THEN {"d"} ELSE {}]
FoundAbove == [x \in FoundPath |-> IF x = "d/b" THEN {"d"} ELSE {}]

Old(kind, c) == [kind |-> kind, by |-> 0, claims |-> c]

\* "a" and, of the first package, an installed record that claims nothing.
MCRoots ==
  {[x \in MCPath |-> IF x \in {"a", "meta-p", "manifest-p"}
                     THEN Old("file", {}) ELSE Absent]}

MCClaimSets == {{}}

-----------------------------------------------------------------------------
F == INSTANCE Journal WITH
  Path <- FoundPath, Above <- FoundAbove, ClaimSets <- {{}, {"a"}}, Roots <- {},
  MaxLog <- 2,
  fs <- ffs, journal <- fjournal, pc <- fpc, pkg <- fpkg, op <- fop, cur <- fcur,
  how <- fhow, verdict <- fverdict, snap <- fsnap, txs <- ftxs, crashes <- fcrashes

(***************************************************************************)
(* Journal directories nobody can vouch for: any short log over "a", "d"   *)
(* and "d/b", its backups there or not, over a root that may not fit it; a *)
(* second journal; a record of "q" that claims "a".                        *)
(***************************************************************************)
FoundRoots ==
  LET file(b) == [kind |-> "file", by |-> b, claims |-> {}]
      dir     == [kind |-> "dir", by |-> 0, claims |-> {}]
      base(m, c) == [x \in FoundPath |->
        CASE x = "meta-p" -> m
          [] x = "manifest-p" -> file(0)
          [] x \in {"meta-q", "manifest-q"} /\ c # {} -> Old("file", c)
          [] OTHER -> Absent]
  IN {[base(m, c) EXCEPT !["a"] = a, !["d"] = IF b = Absent THEN d ELSE dir,
                         !["d/b"] = b] :
        m \in {file(0), file(1)}, c \in {{}, {"a"}},
        a \in {Absent, file(0), file(1)}, b \in {Absent, file(1)}, d \in {Absent, dir}}

FoundLogs ==
  LET one == {NewEntry(x) : x \in {"a", "d", "d/b"}}
             \cup {[BackupEntry("a") EXCEPT !.saved = n] :
                     n \in {Absent, Old("file", {})}}
  IN {<< >>} \cup {<<e>> : e \in one} \cup {<<e, f>> : e, f \in one}

FoundInit ==
  /\ ffs \in FoundRoots
  /\ \E l \in FoundLogs, second \in {NoJournal, [txid |-> 2, log |-> << >>]} :
       fjournal = [p \in Package |-> IF p = "p" THEN [txid |-> 1, log |-> l] ELSE second]
  /\ fpc = "idle" /\ fpkg = "p" /\ fop = NoOp /\ fcur = 0 /\ fhow = "abort"
  /\ fverdict = "ok" /\ fsnap = ffs /\ ftxs = MaxTx /\ fcrashes = MaxCrash - 1

NothingFound ==
  /\ ffs = 0 /\ fjournal = 0 /\ fpc = 0 /\ fpkg = 0 /\ fop = 0 /\ fcur = 0
  /\ fhow = 0 /\ fverdict = 0 /\ fsnap = 0 /\ ftxs = 0 /\ fcrashes = 0

MCInit ==
  /\ Init
  /\ \/ scene = "own" /\ NothingFound
     \/ scene = "found" /\ FoundInit

fvars == <<ffs, fjournal, fpc, fpkg, fop, fcur, fhow, fverdict, fsnap, ftxs, fcrashes>>

Own(step) == scene = "own" /\ step /\ UNCHANGED <<scene, fvars>>
Found(step) == scene = "found" /\ step /\ UNCHANGED <<scene, vars>>

MCSpec ==
  /\ MCInit /\ [][Own(Next) \/ Found(F!Next)]_<<scene, vars, fvars>>
  /\ WF_vars(Own(Step))

\* Journals found in any state: a backup leaves one only into its own path.
FoundBackupsKept == [][scene = "found" => F!BackupsKeptStep]_<<scene, fvars>>
=============================================================================
