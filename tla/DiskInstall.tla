----------------------------- MODULE DiskInstall -----------------------------
(***************************************************************************)
(* A disk installed from the live system: the screens of minipax           *)
(* install-disk (src/minipax/src/install_disk.rs), which decide; the init  *)
(* (src/bootstrap/live/init), which checks the decision again and carries  *)
(* it out; and minipax partition (src/minipax/src/partition.rs), which     *)
(* lays out a whole disk.  The medium is found and installed in Medium:    *)
(* here that is one step of the init.                                      *)
(*                                                                         *)
(* Sizes are in sectors.  A table gives each partition of a disk its size. *)
(* What the kernel shows of a table may be the table before.               *)
(***************************************************************************)
EXTENDS Naturals, FiniteSetsExt

CONSTANTS Disk, Capacity,        \* disks, and the sectors of each
          Tables, Before,        \* the tables cfdisk may write, and those at first
          Mib, Entries,          \* sectors of a MiB, and of a table of entries
          EspMib, RootFloor,     \* the automatic ESP, and write_layout's least root
          EspMin, RootMin,       \* what the image and the payload of the medium need
          SwapMin, SwapWish,     \* the least swap that helps; what the memory calls for
          MaxEdit, MaxCut, None

DiskAssumption ==
  /\ Capacity \in [Disk -> Nat]
  /\ \A t \in Tables \cup Before : \A p \in DOMAIN t : t[p] \in Nat
  /\ {Entries, EspMib, RootFloor, EspMin, RootMin, SwapMin, SwapWish, MaxEdit, MaxCut} \subseteq Nat
  /\ Mib \in Nat \ {0} /\ EspMib > 0 /\ Mib > Entries + 1

VARIABLES table, shown,  \* the partitions of each disk, and as the kernel shows them
          media,         \* the disk the medium is on, or None
          step,          \* where the init is
          view,          \* the screen, and what the program remembers
          decision,      \* what install-disk wrote
          gpt, layout,   \* the writes of a whole layout, and what it lays out
          formatted,     \* the partitions given a file system, or None
          things, synced,  \* what is on the target, and what a power cut leaves
          edits, cuts

screens == <<view, decision>>
layouts == <<gpt, layout>>
files == <<formatted, things, synced>>
bounds == <<edits, cuts>>
dvars == <<table, shown, media, step, screens, layouts, files, bounds>>

Empty == [p \in {} |-> 0]
FirstScreen == [at |-> "disks", disk |-> None, seen |-> Empty, known |-> Empty,
                esp |-> None, format |-> FALSE, root |-> None, swap |-> None]

DiskInit ==
  /\ table \in [Disk -> Before] /\ shown = table /\ media \in Disk \cup {None}
  /\ step = "boot" /\ view = FirstScreen /\ decision = None /\ gpt = {} /\ layout = None
  /\ formatted = None /\ things = {} /\ synced = {} /\ edits = 0 /\ cuts = 0

----------------------------------------------------------------------------
(* The screens.  Esc goes one screen back from anywhere.                   *)

Seen(screen) == step = "screens" /\ view.at = screen
Show(changed) ==
  view' = changed /\ UNCHANGED <<table, shown, media, step, decision, layouts, files, bounds>>
Back(screen) == Show([view EXCEPT !.at = screen])

Decide(d) ==
  /\ decision' = d /\ step' = (IF d = None THEN "rescue" ELSE "read") /\ view' = FirstScreen
  /\ UNCHANGED <<table, shown, media, layouts, files, bounds>>

\* candidatos: every disk but the one the medium is on.
Candidates == Disk \ {media}

PickDisk ==
  /\ Seen("disks")
  /\ \/ \E d \in Candidates : Show([view EXCEPT !.at = "route", !.disk = d, !.seen = shown[d]])
     \/ Back("giveup")

GiveUp == Seen("giveup") /\ (Back("disks") \/ Decide(None))

\* cabe_disco_inteiro: a disk too small for the layout stays at the choice.
Fits(d) == Capacity[d] >= Mib + EspMib * Mib + RootMin

PickRoute ==
  /\ Seen("route")
  /\ \/ Fits(view.disk) /\ Back("destroy")
     \/ Show([FirstScreen EXCEPT !.at = "cfdisk", !.disk = view.disk,
                                 !.seen = view.seen, !.known = view.seen])
     \/ Back("disks")

ConfirmDestruction ==
  /\ Seen("destroy")
  /\ Decide([route |-> "whole", disk |-> view.disk]) \/ Back("route")

\* cfdisk, a program of its own: the operator writes a table or none.
Cfdisk ==
  /\ Seen("cfdisk") /\ edits < MaxEdit /\ edits' = edits + 1
  /\ \E t \in Tables : table' = [table EXCEPT ![view.disk] = t]
  /\ view' = [view EXCEPT !.at = "written"]
  /\ UNCHANGED <<shown, media, step, decision, layouts, files, cuts>>

\* The kernel catches up, late on some controllers.
Settle ==
  /\ shown # table /\ shown' = table
  /\ UNCHANGED <<table, media, step, screens, layouts, files, bounds>>

\* reler_disco takes what the kernel shows; two partitions are needed, and
\* fewer, or an error of cfdisk, open it once more.
LeaveCfdisk ==
  \/ /\ Seen("cfdisk") \/ Seen("written")
     /\ LET t == shown[view.disk]
        IN Show([view EXCEPT !.known = t, !.at = IF Cardinality(DOMAIN t) < 2 THEN "cfdisk" ELSE "esp"])
  \/ Seen("written") /\ Back("cfdisk")
  \/ Seen("cfdisk") /\ Back("route")

\* triar: the partitions that serve a role, large enough and not taken.
Serving(least, taken) == {p \in DOMAIN view.known \ taken : view.known[p] >= least}

PickEsp ==
  /\ Seen("esp")
  /\ \/ \E p \in Serving(EspMin, {}) : Show([view EXCEPT !.esp = p, !.at = "format"])
     \/ Back("cfdisk")

PickFormat ==
  /\ Seen("format")
  /\ \/ \E f \in BOOLEAN : Show([view EXCEPT !.format = f, !.at = "root"])
     \/ Back("esp")

PickRoot ==
  /\ Seen("root")
  /\ \/ \E p \in Serving(RootMin, {view.esp}) : Show([view EXCEPT !.root = p, !.at = "swap"])
     \/ Back("format")

PickSwap ==
  /\ Seen("swap")
  /\ \/ \E p \in Serving(SwapMin * Mib, {view.esp, view.root}) \cup {None} :
          Show([view EXCEPT !.swap = p, !.at = "confirm"])
     \/ Back("root")

Confirm ==
  /\ Seen("confirm")
  /\ \/ Decide([route |-> "manual", disk |-> view.disk, esp |-> view.esp,
                format |-> view.format, root |-> view.root, swap |-> view.swap])
     \/ Back("swap")

Screen ==
  \/ PickDisk \/ GiveUp \/ PickRoute \/ ConfirmDestruction \/ Cfdisk \/ LeaveCfdisk
  \/ PickEsp \/ PickFormat \/ PickRoot \/ PickSwap \/ Confirm

----------------------------------------------------------------------------
(* The init, to the point where nothing is left that may refuse.           *)

Goto(next) == step' = next
Still == UNCHANGED <<table, shown, media, screens, layouts, files, bounds>>

\* An installed root whose marker is whole is started; otherwise the medium
\* is validated, and the screens open.
Boot ==
  /\ step = "boot"
  /\ IF "marker" \in things
     THEN Goto("started") /\ UNCHANGED decision
     ELSE Goto("screens") /\ decision' = None
  /\ gpt' = {} /\ UNCHANGED <<table, shown, media, view, layout, files, bounds>>

\* The screens fail, and a disk is typed instead, whichever it is.
Typed ==
  /\ step = "screens" /\ Goto("check")
  /\ \E d \in Disk : decision' = [route |-> "whole", disk |-> d]
  /\ view' = FirstScreen /\ UNCHANGED <<table, shown, media, layouts, files, bounds>>

\* le_decisao, when the kernel has caught up: the partitions are there, and
\* no two roles share one.
Chosen == {decision.esp, decision.root} \cup ({decision.swap} \ {None})
ReadDecision ==
  /\ step = "read" /\ shown = table /\ Still
  /\ IF decision.route = "whole" \/ (/\ Chosen \subseteq DOMAIN shown[decision.disk]
                                     /\ decision.esp # decision.root
                                     /\ decision.swap \notin {decision.esp, decision.root})
     THEN Goto("check") ELSE Goto("rescue")

\* confere_particoes_escolhidas, before the passwords.
Large(t) == t[decision.root] >= RootMin /\ t[decision.esp] >= EspMin
Check ==
  /\ step = "check" /\ Still
  /\ LET t == shown[decision.disk]
     IN IF decision.route = "whole" \/ (decision.disk # media /\ Chosen \subseteq DOMAIN t /\ Large(t))
        THEN Goto("ask") ELSE Goto("rescue")

\* The passwords are the last question.
Ask == step = "ask" /\ Still /\ Goto(IF decision.route = "whole" THEN "measure" ELSE "format")

----------------------------------------------------------------------------
(* A whole disk: partition_disk measures, write_layout lays it out.        *)

RootStart == Mib + EspMib * Mib
\* Mutant: all the memory calls for, whatever is left for the root.
SwapForWish(d) == SwapWish

\* Half of what the root does not need, if the memory calls for as much.
SwapFor(d) ==
  LET most == ((Capacity[d] - RootStart - RootMin) \div Mib) \div 2
      wish == IF SwapWish > most THEN most ELSE SwapWish
  IN IF wish >= SwapMin THEN wish ELSE 0

\* write_layout: the ESP, the root, and a swap at the end if a root remains.
Layout(total, swap) ==
  LET last == total - (Entries + 2)
      fits == swap > 0 /\ RootStart + RootFloor * Mib + swap * Mib <= last
  IN [esp |-> [first |-> Mib, last |-> RootStart - 1],
      root |-> [first |-> RootStart, last |-> IF fits THEN last - swap * Mib ELSE last],
      swap |-> IF fits THEN [first |-> last - swap * Mib + 1, last |-> last] ELSE None]
Holds(total) == total >= Entries + 2 /\ RootStart + RootFloor * Mib + Entries + 2 <= total

\* What the init asks of the disk and of the image before it erases.
Measured(total) == total >= RootStart + RootMin /\ EspMin <= EspMib * Mib

Measure ==
  /\ step = "measure"
  /\ LET d == decision.disk
     IN IF d # media /\ Measured(Capacity[d]) /\ Holds(Capacity[d])
        THEN Goto("lay") /\ layout' = Layout(Capacity[d], SwapFor(d)) /\ gpt' = {}
        ELSE Goto("rescue") /\ UNCHANGED layouts
  /\ UNCHANGED <<table, shown, media, screens, files, bounds>>

\* The copies of reserve first, the primary header last, and one sync.
Writes == <<"reserve entries", "reserve header", "entries", "mbr", "header">>
Unwritten == {i \in DOMAIN Writes : Writes[i] \notin gpt}

Lay ==
  /\ step = "lay"
  /\ IF Unwritten # {}
     THEN gpt' = gpt \cup {Writes[Min(Unwritten)]} /\ UNCHANGED <<step, table>>
     ELSE /\ Goto("format") /\ UNCHANGED gpt
          /\ table' = [table EXCEPT ![decision.disk] =
               LET n == IF layout.swap = None THEN 2 ELSE 3
                   part == <<layout.esp, layout.root, layout.swap>>
               IN [p \in 1..n |-> part[p].last - part[p].first + 1]]
  /\ UNCHANGED <<shown, media, screens, layout, files, bounds>>

----------------------------------------------------------------------------
(* The file systems, the system, the image, and the marker last.           *)

Roles ==
  IF decision.route = "whole" THEN [esp |-> 1, root |-> 2, keep |-> FALSE]
  ELSE [esp |-> decision.esp, root |-> decision.root, keep |-> ~decision.format]

\* A disk laid out is waited for until the kernel shows its partitions.
Format ==
  /\ step = "format" /\ (decision.route = "whole" => shown = table)
  /\ formatted' = Roles /\ things' = {} /\ synced' = {} /\ Goto("install")
  /\ UNCHANGED <<table, shown, media, screens, layouts, bounds>>

Put(here, thing, next) ==
  /\ step = here /\ things' = things \cup {thing} /\ Goto(next)
  /\ UNCHANGED <<table, shown, media, screens, layouts, formatted, synced, bounds>>

Sync(here, next) ==
  /\ step = here /\ synced' = things /\ Goto(next)
  /\ UNCHANGED <<table, shown, media, screens, layouts, formatted, things, bounds>>

\* Installed, verified, copied to the ESP, synced, and marked as complete.
Finish ==
  \/ Put("install", "system", "copy") \/ Put("copy", "image", "sync")
  \/ Sync("sync", "mark") \/ Put("mark", "marker", "end") \/ Sync("end", "boot")

\* A command fails: the machine stays at a rescue shell.
Rescue ==
  /\ step \in {"lay", "format", "install", "copy", "sync", "mark"} /\ Goto("rescue") /\ Still

\* Cut or rebooted: what is not synced may be there or not.
Cut ==
  /\ step # "started" /\ cuts < MaxCut /\ cuts' = cuts + 1
  /\ \E kept \in SUBSET (things \ synced) : things' = synced \cup kept /\ synced' = things'
  /\ gpt' \in IF step = "lay" THEN SUBSET gpt ELSE {gpt}
  /\ shown' = table /\ Goto("boot") /\ layout' = None /\ view' = FirstScreen
  /\ UNCHANGED <<table, media, decision, formatted, edits>>

InitStep == Boot \/ ReadDecision \/ Check \/ Ask \/ Measure \/ Lay \/ Format \/ Finish
DiskNext == Screen \/ Typed \/ Settle \/ InitStep \/ Rescue \/ Cut

----------------------------------------------------------------------------
(* What the installation of a disk promises.                               *)

Length(r) == r.last + 1 - r.first

\* A layout lies between the two copies of the table, its partitions do not
\* overlap, and the root is what the screens and the init promised, but for
\* the copy of reserve, which neither counts.
LayoutIsSound ==
  layout # None =>
    LET total == Capacity[decision.disk]
    IN /\ layout.esp.first > Entries + 1
       /\ layout.root.first = layout.esp.last + 1
       /\ layout.swap # None => layout.swap.first = layout.root.last + 1
       /\ (IF layout.swap = None THEN layout.root ELSE layout.swap).last < total - 1 - Entries
       /\ Length(layout.esp) >= EspMin
       /\ Length(layout.root) + Entries + 2 >= RootMin

\* What was formatted is on the disk, apart from the medium, and large enough,
\* though the screens may have read a table that was not the last one.
FormattedIsSound ==
  step = "install" =>
    LET t == table[decision.disk]
    IN /\ decision.disk # media /\ formatted.esp # formatted.root
       /\ {formatted.esp, formatted.root} \subseteq DOMAIN t
       /\ t[formatted.esp] >= EspMin /\ t[formatted.root] + Entries + 2 >= RootMin

\* A root that is started holds the whole system, and its image is on the ESP,
\* wherever the power was cut.
StartedIsWhole == step = "started" => {"system", "image"} \subseteq things

\* partition.rs:244, an interrupted layout leaves no valid table: the older one
\* survives until its entries or its header are written over.
InterruptedHasNoTable ==
  LET valid(header, entries) == (header \in gpt) = (entries \in gpt)
  IN step = "boot" /\ gpt # {} /\ gpt # {Writes[i] : i \in DOMAIN Writes} =>
       ~valid("header", "entries") /\ ~valid("reserve header", "reserve entries")

\* install_disk.rs:680, giving up leaves no trace.
GivenUpIsUntouched == Seen("giveup") => edits = 0

\* install_disk.rs:214, the screen lists every partition that is destroyed.
DestroyedIsListed == Seen("destroy") => view.seen = table[view.disk]
=============================================================================
