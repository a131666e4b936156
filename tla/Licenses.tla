------------------------------ MODULE Licenses ------------------------------
(***************************************************************************)
(* The licences of a medium on the target (minipax/src/licenses.rs,        *)
(* install): one immutable directory under media/, named by the hash of    *)
(* the bundle.  A run lays the bundle out in a staging directory of a name *)
(* known beforehand, each file first under a temporary name derived from   *)
(* its name and content; it proves the whole, gives the directory its name *)
(* without replacing anything, and proves it again.  What a dead run, or   *)
(* another at work, left is recognised by those names or refused.          *)
(*                                                                         *)
(* Bundle and target are given, and every file is one of the bundle's, in  *)
(* part or whole.  Names of a directory hold the process that created the  *)
(* file there, since two runs of one bundle use the same names.  A power   *)
(* cut leaves each directory as it was last synced or as it was, and a     *)
(* file whose data was not synced in part.  Left out: the bundle's format  *)
(* and checks, owners and the chain of directories above media/.           *)
(***************************************************************************)
EXTENDS Naturals, Sequences, FiniteSets

CONSTANTS
  Process,
  FILES,      \* the files of the bundle in its order, a sequence
  HOME,       \* HOME[f]: the directory of the generation f is in
  Root,       \* the generation itself
  Object,     \* the directories that may be staging or generation
  MaxTrouble, \* BOUND on kills and power cuts
  None

File == {FILES[i] : i \in 1 .. Len(FILES)}

Folder == {HOME[f] : f \in File} \cup {Root}

\* The directories of the bundle below the generation, all directly in it.
Sub == Folder \ {Root}

LicensesAssumption ==
  /\ Process # {} /\ None \notin Process \cup Object
  /\ FILES \in Seq(STRING) /\ DOMAIN HOME = File
  /\ MaxTrouble \in Nat

VARIABLES
  noreplace, \* the file system has renames that do not replace
  media,     \* what the names of the staging and of the generation are
  tree,      \* tree[o]: what directory o has
  disk,      \* what of media and tree was synced
  inode,     \* inode[o][f][p]: the file p created for f in o
  run,       \* run[p]: what p does
  reported,  \* some run ended well
  troubles

lvars == <<noreplace, media, tree, disk, inode, run, reported, troubles>>

NoNames == [temp |-> None, final |-> None]

NewTree == [dirs |-> {}, open |-> {}, names |-> [f \in File |-> NoNames]]

NewInode == [data |-> "part", safe |-> FALSE, open |-> FALSE]

Idle == [pc |-> "idle", o |-> None, at |-> 0, then |-> "-"]

LicensesInit ==
  /\ noreplace \in BOOLEAN
  /\ media = [stage |-> None, gen |-> None]
  /\ tree = [o \in Object |-> NewTree]
  /\ disk = [media |-> media, tree |-> tree]
  /\ inode = [o \in Object |-> [f \in File |-> [p \in Process |-> NewInode]]]
  /\ run = [p \in Process |-> Idle]
  /\ reported = FALSE /\ troubles = 0
-----------------------------------------------------------------------------
(* What is found in a directory. *)

\* The file under a name of f in o.
At(o, f, name) == inode[o][f][tree[o].names[f][name]]

\* A bug: what has the name is taken for the file.
WholeByName(o, f, name) == tree[o].names[f][name] # None

Whole(o, f, name) == At(o, f, name).data = "whole"

\* inspect_publication_residue: anything but these refuses the run.
Residue(o, f) ==
  LET n == tree[o].names[f]
  IN  CASE n = NoNames -> "empty"
        [] n.final = None -> "partial"
        [] n.temp = None /\ Whole(o, f, "final") -> "final"
        [] n.temp = n.final /\ Whole(o, f, "final") -> "linked"
        [] OTHER -> "foreign"

\* preflight_staging: nothing that is not of the bundle, everything recognised.
StagingFits(o) == \A f \in File : Residue(o, f) # "foreign"

\* preflight_generation: exactly the bundle, every file whole and alone.
GenerationFits(o) == tree[o].dirs = Sub /\ \A f \in File : Residue(o, f) = "final"

\* After an fsync of those directories of o.
WithSynced(sofar, now, folders) ==
  [sofar EXCEPT
     !.dirs = IF Root \in folders THEN now.dirs ELSE @,
     !.names = [f \in File |-> IF HOME[f] \in folders THEN now.names[f] ELSE @[f]]]

Synced(o, folders, now) == [disk EXCEPT !.tree[o] = WithSynced(@, now, folders)]
-----------------------------------------------------------------------------
(* A run. *)

Go(p, pc) == run' = [run EXCEPT ![p].pc = pc]

Fail(p) == run' = [run EXCEPT ![p] = Idle]

Held(p) == run[p].o

Now(p) == FILES[run[p].at]

Here(p) == HOME[Now(p)]

fixed == <<noreplace, troubles>>

still == <<media, tree, disk, inode, reported, fixed>>

Begin(p) ==
  /\ run[p] = Idle
  /\ Go(p, "look")
  /\ UNCHANGED still

\* preflight_install_namespace: every name that exists is proved before
\* anything is created.
Look(p) ==
  /\ run[p].pc = "look"
  /\ IF /\ media.gen # None => GenerationFits(media.gen)
        /\ media.stage # None => StagingFits(media.stage)
     THEN Go(p, "enter") ELSE Fail(p)
  /\ UNCHANGED still

\* A generation that is there is only proved again.
Enter(p) ==
  /\ run[p].pc = "enter"
  /\ IF media.gen # None
     THEN run' = [run EXCEPT ![p] = [pc |-> "verify", o |-> media.gen, at |-> 0, then |-> "report"]]
     ELSE Go(p, "stage")
  /\ UNCHANGED still

Free == Object \ ({media.stage, media.gen, disk.media.stage, disk.media.gen}
                    \cup {run[q].o : q \in Process})

\* open_or_create_dir of the staging; the mode it gets depends on the umask.
OpenStage(p) ==
  /\ run[p].pc = "stage" /\ media.stage # None
  /\ run' = [run EXCEPT ![p].o = media.stage, ![p].pc = "prove"]
  /\ UNCHANGED still

MakeStage(p) ==
  /\ run[p].pc = "stage" /\ media.stage = None
  /\ \E o \in Free, open \in {{}, {Root}} :
       /\ o = CHOOSE x \in Free : TRUE
       /\ media' = [media EXCEPT !.stage = o]
       /\ tree' = [tree EXCEPT ![o] = [NewTree EXCEPT !.open = open]]
       /\ disk' = [disk EXCEPT !.tree[o] = NewTree]
       /\ run' = [run EXCEPT ![p].o = o, ![p].pc = "fresh stage"]
  /\ UNCHANGED <<inode, reported, fixed>>

\* A directory just made gets its mode, and it and its name are synced.
FreshStage(p) ==
  /\ run[p].pc = "fresh stage"
  /\ tree' = [tree EXCEPT ![Held(p)].open = @ \cup {Root}]
  /\ disk' = [Synced(Held(p), {Root}, tree[Held(p)]) EXCEPT !.media = media]
  /\ Go(p, "prove")
  /\ UNCHANGED <<media, inode, reported, fixed>>

Prove(p) ==
  /\ run[p].pc = "prove"
  /\ IF StagingFits(Held(p)) THEN Go(p, "mode") ELSE Fail(p)
  /\ UNCHANGED still

\* ensure_directory_mode of the staging; synced only if the mode was not right.
Mode(p) ==
  /\ run[p].pc = "mode"
  /\ IF Root \in tree[Held(p)].open THEN UNCHANGED <<tree, disk>>
     ELSE /\ tree' = [tree EXCEPT ![Held(p)].open = @ \cup {Root}]
          /\ disk' = [Synced(Held(p), {Root}, tree[Held(p)]) EXCEPT !.media = media]
  /\ run' = [run EXCEPT ![p].pc = IF Sub = {} THEN "inspect" ELSE "dirs", ![p].at = 1]
  /\ UNCHANGED <<media, inode, reported, fixed>>

\* The directories of the bundle, made or found.
MakeDir(p) ==
  /\ run[p].pc = "dirs"
  /\ \E d \in Sub \ tree[Held(p)].dirs, open \in BOOLEAN :
       tree' = [tree EXCEPT ![Held(p)].dirs = @ \cup {d},
                            ![Held(p)].open = IF open THEN @ \cup {d} ELSE @]
  /\ Go(p, "fresh dirs")
  /\ UNCHANGED <<media, disk, inode, reported, fixed>>

FreshDirs(p) ==
  /\ run[p].pc = "fresh dirs"
  /\ tree' = [tree EXCEPT ![Held(p)].open = @ \cup tree[Held(p)].dirs]
  /\ disk' = Synced(Held(p), {Root}, tree[Held(p)])
  /\ Go(p, "dirs")
  /\ UNCHANGED <<media, inode, reported, fixed>>

\* One whose mode was not right is synced with the directory it is in.
HaveDirs(p) ==
  LET wrong == Sub \ tree[Held(p)].open
  IN  /\ run[p].pc = "dirs" /\ Sub \subseteq tree[Held(p)].dirs
      /\ IF wrong = {} THEN UNCHANGED <<tree, disk>>
         ELSE /\ tree' = [tree EXCEPT ![Held(p)].open = @ \cup Sub]
              /\ disk' = Synced(Held(p), wrong \cup {Root}, tree[Held(p)])
      /\ Go(p, "inspect")
      /\ UNCHANGED <<media, inode, reported, fixed>>
-----------------------------------------------------------------------------
(* publish_file, for one file after the other. *)

\* reconcile_publication_residue.
Inspect(p) ==
  /\ run[p].pc \in {"inspect", "inspect again"}
  /\ LET r == Residue(Held(p), Now(p))
     IN  CASE r = "empty" -> Go(p, "create")
           [] r = "final" -> Go(p, "repair")
           [] r \in {"partial", "linked"} /\ run[p].pc = "inspect" -> Go(p, "unlink")
           [] OTHER -> Fail(p)
  /\ UNCHANGED still

\* The temporary name goes, whosever file it is, and the directory is synced.
TakeTemp(p, next) ==
  LET o == Held(p)
      t == [tree[o] EXCEPT !.names[Now(p)].temp = None]
  IN  IF tree[o].names[Now(p)].temp = None
      THEN Fail(p) /\ UNCHANGED <<tree, disk>>
      ELSE /\ tree' = [tree EXCEPT ![o] = t]
           /\ disk' = Synced(o, {Here(p)}, t)
           /\ Go(p, next)

Unlink(p) ==
  /\ run[p].pc = "unlink" /\ TakeTemp(p, "inspect again")
  /\ UNCHANGED <<media, inode, reported, fixed>>

Create(p) ==
  /\ run[p].pc = "create"
  /\ IF tree[Held(p)].names[Now(p)].temp # None
     THEN Fail(p) /\ UNCHANGED <<tree, inode>>
     ELSE /\ tree' = [tree EXCEPT ![Held(p)].names[Now(p)].temp = p]
          /\ inode' = [inode EXCEPT ![Held(p)][Now(p)][p] = NewInode]
          /\ Go(p, "write")
  /\ UNCHANGED <<media, disk, reported, fixed>>

Write(p) ==
  /\ run[p].pc = "write"
  /\ inode' = [inode EXCEPT ![Held(p)][Now(p)][p].data = "whole"]
  /\ Go(p, "sync")
  /\ UNCHANGED <<media, tree, disk, reported, fixed>>

Sync(p) ==
  /\ run[p].pc = "sync"
  /\ inode' = [inode EXCEPT ![Held(p)][Now(p)][p].safe = TRUE]
  /\ Go(p, "chmod")
  /\ UNCHANGED <<media, tree, disk, reported, fixed>>

\* The mode, another sync of the file, and one of its directory.
Chmod(p) ==
  /\ run[p].pc = "chmod"
  /\ inode' = [inode EXCEPT ![Held(p)][Now(p)][p].open = TRUE, ![Held(p)][Now(p)][p].safe = TRUE]
  /\ disk' = Synced(Held(p), {Here(p)}, tree[Held(p)])
  /\ Go(p, "move")
  /\ UNCHANGED <<media, tree, reported, fixed>>

\* The final name, by a rename that does not replace or by a link.
Move(p) ==
  LET n == tree[Held(p)].names[Now(p)]
  IN  /\ run[p].pc = "move"
      /\ IF n.temp = None THEN Fail(p) /\ UNCHANGED tree
         ELSE IF n.final # None THEN Go(p, "collision") /\ UNCHANGED tree
         ELSE /\ tree' = [tree EXCEPT ![Held(p)].names[Now(p)] =
                            [temp |-> IF noreplace THEN None ELSE n.temp, final |-> n.temp]]
              /\ Go(p, IF noreplace THEN "settle" ELSE "unlink linked")
      /\ UNCHANGED <<media, disk, inode, reported, fixed>>

Collision(p) ==
  /\ run[p].pc = "collision" /\ TakeTemp(p, "repair")
  /\ UNCHANGED <<media, inode, reported, fixed>>

UnlinkLinked(p) ==
  /\ run[p].pc = "unlink linked" /\ TakeTemp(p, "repair")
  /\ UNCHANGED <<media, inode, reported, fixed>>

Settle(p) ==
  /\ run[p].pc = "settle"
  /\ disk' = Synced(Held(p), {Here(p)}, tree[Held(p)])
  /\ Go(p, "repair")
  /\ UNCHANGED <<media, tree, inode, reported, fixed>>

\* The file of the final name with its mode right, synced if it was not.
Mended(i) == IF i.open THEN i ELSE [i EXCEPT !.open = TRUE, !.safe = TRUE]

\* verify_existing: the final file alone and whole, its mode mended and then
\* the directory synced.
Repair(p) ==
  LET o == Held(p)
      f == Now(p)
  IN  /\ run[p].pc = "repair"
      /\ IF tree[o].names[f].final = None \/ tree[o].names[f].temp = tree[o].names[f].final
            \/ ~Whole(o, f, "final")
         THEN Fail(p) /\ UNCHANGED <<inode, disk>>
         ELSE /\ inode' = [inode EXCEPT ![o][f][tree[o].names[f].final] = Mended(@)]
              /\ disk' = IF At(o, f, "final").open THEN disk ELSE Synced(o, {Here(p)}, tree[o])
              /\ IF run[p].at < Len(FILES)
                 THEN run' = [run EXCEPT ![p].at = @ + 1, ![p].pc = "inspect"]
                 ELSE run' = [run EXCEPT ![p].at = 0, ![p].pc = "verify", ![p].then = "verify again"]
      /\ UNCHANGED <<media, tree, reported, fixed>>
-----------------------------------------------------------------------------
(* The whole. *)

Verify(p) ==
  /\ run[p].pc \in {"verify", "verify again"}
  /\ IF GenerationFits(Held(p)) THEN Go(p, "mend") ELSE Fail(p)
  /\ UNCHANGED still

\* The rest of verify_generation: modes, each file once more, every directory
\* synced; what comes then depends on which of its calls this is.
Mend(p) ==
  LET o == Held(p)
  IN  /\ run[p].pc = "mend"
      /\ IF ~\A f \in File :
              tree[o].names[f].final # None /\ tree[o].names[f].temp # tree[o].names[f].final
              /\ Whole(o, f, "final")
         THEN Fail(p) /\ UNCHANGED <<tree, disk, inode>>
         ELSE /\ inode' = [inode EXCEPT ![o] = [f \in File |->
                             [@[f] EXCEPT ![tree[o].names[f].final] = Mended(@)]]]
              /\ tree' = [tree EXCEPT ![o].open = Folder]
              /\ disk' = [disk EXCEPT
                   !.tree[o] = [tree[o] EXCEPT !.open = Folder],
                   \* Only a mode that was wrong has the parent synced.
                   !.media = IF Root \in tree[o].open THEN @ ELSE media]
              /\ run' = [run EXCEPT ![p].pc = run[p].then,
                           ![p].then = IF @ = "verify again" THEN "publish" ELSE @]
      /\ UNCHANGED <<media, reported, fixed>>

\* The staging takes the name of the generation; if another was first, or took
\* it away, what has the name is proved.
Publish(p) ==
  /\ run[p].pc = "publish"
  /\ IF ~noreplace THEN Fail(p) /\ UNCHANGED media
     ELSE IF media.gen # None \/ media.stage = None
          THEN Go(p, "open") /\ UNCHANGED media
          ELSE media' = [stage |-> None, gen |-> media.stage] /\ Go(p, "flush")
  /\ UNCHANGED <<tree, disk, inode, reported, fixed>>

Flush(p) ==
  /\ run[p].pc = "flush"
  /\ disk' = [disk EXCEPT !.media = media]
  /\ Go(p, "open")
  /\ UNCHANGED <<media, tree, inode, reported, fixed>>

Open(p) ==
  /\ run[p].pc = "open"
  /\ IF media.gen = None THEN Fail(p)
     ELSE run' = [run EXCEPT ![p] = [pc |-> "verify", o |-> media.gen, at |-> 0, then |-> "report"]]
  /\ UNCHANGED still

Report(p) ==
  /\ run[p].pc = "report"
  /\ reported' = TRUE
  /\ Fail(p)
  /\ UNCHANGED <<media, tree, disk, inode, fixed>>
-----------------------------------------------------------------------------
(* Deaths. *)

Trouble ==
  /\ troubles < MaxTrouble
  /\ troubles' = troubles + 1

Kill(p) ==
  /\ Trouble /\ run[p] # Idle
  /\ Fail(p)
  /\ UNCHANGED <<noreplace, media, tree, disk, inode, reported>>

\* Of a directory of names: what was synced, or what it had.
Survived(o, kept) ==
  LET was == disk.tree[o]
      now == tree[o]
      dirs == IF Root \in kept THEN now.dirs ELSE was.dirs
      names == [f \in File |->
                  IF HOME[f] # Root /\ HOME[f] \notin dirs THEN NoNames
                  ELSE IF HOME[f] \in kept THEN now.names[f] ELSE was.names[f]]
  IN  [dirs |-> dirs, open |-> (now.open \cap ({Root} \cup dirs)), names |-> names]

Torn(i) == IF i.safe THEN i ELSE [i EXCEPT !.data = "part"]

PowerCut ==
  /\ Trouble
  /\ run' = [p \in Process |-> Idle]
  /\ \E m \in {media, disk.media}, kept \in SUBSET Folder, torn \in BOOLEAN :
       /\ media' = m
       /\ tree' = [o \in Object |-> Survived(o, kept)]
       /\ disk' = [media |-> m, tree |-> tree']
       /\ inode' = IF ~torn THEN inode
                   ELSE [o \in Object |-> [f \in File |-> [p \in Process |-> Torn(inode[o][f][p])]]]
  /\ UNCHANGED <<noreplace, reported>>

Step(p) ==
  \/ Look(p) \/ Enter(p) \/ OpenStage(p) \/ MakeStage(p) \/ FreshStage(p)
  \/ Prove(p) \/ Mode(p) \/ MakeDir(p) \/ FreshDirs(p) \/ HaveDirs(p)
  \/ Inspect(p) \/ Unlink(p) \/ Create(p) \/ Write(p) \/ Sync(p) \/ Chmod(p)
  \/ Move(p) \/ Collision(p) \/ UnlinkLinked(p) \/ Settle(p) \/ Repair(p)
  \/ Verify(p) \/ Mend(p) \/ Publish(p) \/ Flush(p) \/ Open(p) \/ Report(p)

LicensesNext ==
  \/ \E p \in Process : Begin(p) \/ Step(p) \/ Kill(p)
  \/ PowerCut
-----------------------------------------------------------------------------
(* Properties. *)

TypeOK ==
  /\ noreplace \in BOOLEAN /\ reported \in BOOLEAN
  /\ troubles \in 0 .. MaxTrouble
  /\ media \in [stage : Object \cup {None}, gen : Object \cup {None}]
  /\ \A o \in Object :
       /\ tree[o].dirs \subseteq Sub /\ tree[o].open \subseteq Folder
       /\ \A f \in File : tree[o].names[f] \in [temp : Process \cup {None}, final : Process \cup {None}]
  /\ \A p \in Process : run[p].o \in Object \cup {None} /\ run[p].at \in 0 .. Len(FILES)

\* Directory o has the whole bundle for good, every file readable.
Complete(o, t) ==
  /\ t.dirs = Sub
  /\ \A f \in File : t.names[f].final # None /\
       LET i == inode[o][f][t.names[f].final]
       IN  i.data = "whole" /\ i.safe /\ i.open

\* What has the name of the hash is the whole bundle, already on the disk,
\* whoever died or wrote beside (licenses.rs:1243-1248, 1772).
GenerationIsWhole ==
  /\ media.gen # None => Complete(media.gen, tree[media.gen]) /\ Complete(media.gen, disk.tree[media.gen])
  /\ disk.media.gen # None => Complete(disk.media.gen, disk.tree[disk.media.gen])

Installed == media.gen # None /\ GenerationFits(media.gen)

\* Violated by the code: nothing but a foreign hand stops the next run.
NeverRefused == (\A p \in Process : run[p] = Idle) =>
  /\ media.gen # None => GenerationFits(media.gen)
  /\ media.stage # None => StagingFits(media.stage)

\* Violated by the code: a run that ended well is on the disk.  One that finds
\* the generation named does not sync the directory the name is in.
ReportedIsDurable == reported => disk.media.gen # None
=============================================================================
