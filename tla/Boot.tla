-------------------------------- MODULE Boot ---------------------------------
(***************************************************************************)
(* The EFI image of the installed system and its predecessor               *)
(* (src/minipax/src/boot_update.rs, efi_boot.rs).                          *)
(*                                                                         *)
(* The package distropica-efi says which image the machine should boot.    *)
(* boot-update, run by minitrue and again at every boot, carries it to the *)
(* EFI partition: the current one becomes the previous one, unless the     *)
(* machine runs the previous one.  Two NVRAM entries point at them; the    *)
(* current path is also the one a firmware tries without an entry.         *)
(*                                                                         *)
(* The partition is FAT: a power cut leaves the directories as they were   *)
(* at some moment since the last sync, in order, and may tear a file that  *)
(* was not synced.                                                         *)
(***************************************************************************)
EXTENDS Naturals, Sequences, FiniteSets

CONSTANTS
  Efi,         \* images
  Good,        \* those that boot on this machine
  Kernel,      \* Kernel[e]: the version string in the header of e
  Size,        \* Size[e], and
  Slack,       \* FOLGA, and
  Capacities,  \* of the partition, in one unit
  Starts,      \* the partitions and NVRAMs a machine may start from
  TwicePerBoot,\* may the package change again after this session's rotation?
  Forgets,     \* may a firmware update empty the NVRAM?
  MaxCut,      \* BOUND: power cuts and killed processes
  MaxRelease   \* BOUND: changes of the package

BootAssumption ==
  /\ Good \subseteq Efi
  /\ DOMAIN Kernel = Efi
  /\ Size \in [Efi -> Nat \ {0}] /\ Slack \in Nat /\ Capacities \subseteq Nat
  /\ TwicePerBoot \in BOOLEAN /\ Forgets \in BOOLEAN
  /\ MaxCut \in Nat /\ MaxRelease \in Nat

\* The entries of the two images; "novo" is the temporary beside the current.
Entry == {"atual", "anterior"}

Place == Entry \cup {"novo"}

NoFile == [efi |-> "none", state |-> "absent"]

File == {NoFile} \cup [efi : Efi, state : {"empty", "written", "synced", "torn"}]

VARIABLES
  esp,      \* esp[p]: the file at p
  capacity, \* its size
  past,     \* what the partition has been since it was last synced
  listed,   \* the Boot#### variables of our entries
  order,    \* our entries in BootOrder; other systems' are left as they are
  session,  \* what runs, and what the firmware and the partition know of it
  wanted,   \* the image of the package
  proc,     \* boot-update
  cuts, releases

disk == <<esp, capacity, past>>

nvram == <<listed, order>>

vars == <<esp, capacity, past, listed, order, session, wanted, proc, cuts, releases>>

Resting == [pc |-> "idle", novo |-> "none", running |-> "unknown"]

\* No firmware path leads to an image that boots.
Dead == [efi |-> "none", current |-> "unknown", rotated |-> FALSE]

Up == session # Dead

Listed(o) == {o[i] : i \in DOMAIN o}

Present(s, p) == s[p].state # "absent"

Works(s, p) == s[p].state \in {"written", "synced"} /\ s[p].efi \in Good

\* Where a firmware finds an image that boots: by an entry, or at the path it
\* tries without one.
Startable(s, o) == {p \in Entry : Works(s, p) /\ (p = "atual" \/ p \in Listed(o))}

Used(s) ==
  LET n(p) == IF s[p].state \in {"absent", "empty"} THEN 0 ELSE Size[s[p].efi] IN
  n("atual") + n("anterior") + n("novo")

Free == capacity - Used(esp)

\* A change of the partition that is not on the disk yet.
Put(p, f) == /\ esp' = [esp EXCEPT ![p] = f]
             /\ past' = past \cup {esp'}
             /\ UNCHANGED capacity

Goto(step) == proc' = [proc EXCEPT !.pc = step]

At(step) == Up /\ proc.pc = step

-----------------------------------------------------------------------------
(***************************************************************************)
(* Firmware and session                                                    *)
(***************************************************************************)

\* What BootCurrent says of a boot through p; some machines do not say.
Reports(p, o) == {"unknown", IF p \in Listed(o) THEN p ELSE "path"}

\* The operator may take any entry in the firmware's menu.
PowerOn(s, o) ==
  IF Startable(s, o) = {} THEN session' = Dead
  ELSE \E p \in Startable(s, o) : \E r \in Reports(p, o) :
         session' = [efi |-> s[p].efi, current |-> r, rotated |-> FALSE]

Init ==
  \E start \in Starts :
    /\ esp = start.esp /\ past = {start.esp}
    /\ capacity \in Capacities
    /\ order = start.order /\ listed = Listed(start.order)
    /\ wanted = start.esp["atual"].efi
    /\ session = [efi |-> start.esp["atual"].efi, current |-> "unknown", rotated |-> FALSE]
    /\ proc = Resting /\ cuts = 0 /\ releases = 0

\* The firmware may come back without our variables.
NvramAfter(o) == {o} \cup (IF Forgets THEN {<< >>} ELSE {})

Reboot ==
  /\ Up
  /\ proc = Resting
  /\ \E o \in NvramAfter(order) :
       /\ order' = o
       /\ listed' = IF o = order THEN listed ELSE {}
       /\ PowerOn(esp, o)
  /\ past' = {esp}
  /\ UNCHANGED <<esp, capacity, wanted, proc, cuts, releases>>

TornImages(s) == [p \in Place |-> IF s[p].state = "written" THEN [s[p] EXCEPT !.state = "torn"] ELSE s[p]]

PowerCut ==
  /\ Up
  /\ cuts < MaxCut
  /\ \E s \in past :
       /\ esp' = TornImages(s)
       /\ past' = {esp'}
       /\ PowerOn(esp', order)
  /\ proc' = Resting
  /\ cuts' = cuts + 1
  /\ UNCHANGED <<capacity, listed, order, wanted, releases>>

\* The process ends, killed or by an error; the machine stays up.
Stop ==
  /\ proc' = Resting
  /\ UNCHANGED <<disk, listed, order, session, wanted, releases>>

Kill == Up /\ proc # Resting /\ cuts < MaxCut /\ cuts' = cuts + 1 /\ Stop

Refuse == Stop /\ UNCHANGED cuts

\* minitrue brings another version of the package; it runs boot-update itself,
\* under its lock.
Release ==
  /\ Up
  /\ releases < MaxRelease
  /\ proc = Resting
  /\ TwicePerBoot \/ ~session.rotated
  /\ \E e \in Efi \ {wanted} : wanted' = e
  /\ releases' = releases + 1
  /\ UNCHANGED <<disk, listed, order, session, proc, cuts>>

-----------------------------------------------------------------------------
(***************************************************************************)
(* boot-update                                                             *)
(***************************************************************************)

Rest == <<session, wanted, cuts, releases>>

\* The header of a whole image tells its kernel.
Carries(p) ==
  esp[p].state \in {"written", "synced"} /\ Kernel[esp[p].efi] = Kernel[session.efi]

\* Mutant: BootCurrent is not asked.
RunningByName == IF Carries("atual") THEN "atual" ELSE "unknown"

\* qual_rodando: the firmware first, then the kernel in execution.
Running ==
  CASE session.current = "path" -> "atual"
    [] session.current \in Entry -> session.current
    [] OTHER -> IF Carries("atual") THEN "atual"
                ELSE IF Carries("anterior") /\ Present(esp, "atual") THEN "anterior" ELSE "unknown"

\* Mutant: a partition without the entry is not looked for.
FoundByEntry == "atual" \in listed

\* Without the entry of the current image the partition is the one that holds
\* the kernel in execution.
Found == "atual" \in listed \/ \E p \in Entry : Carries(p)

Start ==
  /\ At("idle")
  /\ Found
  /\ proc' = [pc |-> "decide", novo |-> wanted, running |-> Running]
  /\ UNCHANGED <<disk, listed, order, session, wanted, cuts, releases>>

Fits(room) == Size[proc.novo] + Slack <= room

SpareRunning == proc.running = "anterior" \/ ~Present(esp, "atual")

AlreadyCurrent == esp["atual"].efi = proc.novo /\ esp["atual"].state # "torn"

\* Room for the new image is asked for before anything is touched.
Decide ==
  /\ At("decide")
  /\ \/ AlreadyCurrent /\ Goto("list_anterior")
     \/ /\ ~AlreadyCurrent
        /\ SpareRunning
        /\ Fits(Free)
        /\ Goto("clear")
     \/ /\ ~AlreadyCurrent
        /\ ~SpareRunning
        /\ Fits(Free + (IF Present(esp, "anterior") THEN Size[esp["anterior"].efi] ELSE 0))
        /\ Goto(IF Present(esp, "anterior") THEN "drop" ELSE "keep")
  /\ UNCHANGED <<disk, nvram, Rest>>

NoRoom ==
  /\ At("decide")
  /\ ~AlreadyCurrent
  /\ ~Fits(IF SpareRunning \/ ~Present(esp, "anterior") THEN Free
           ELSE Free + Size[esp["anterior"].efi])
  /\ Refuse

DropOld ==
  /\ At("drop")
  /\ Put("anterior", NoFile)
  /\ Goto("keep")
  /\ UNCHANGED <<nvram, Rest>>

Keep ==
  /\ At("keep")
  /\ esp' = [esp EXCEPT !["anterior"] = esp["atual"], !["atual"] = NoFile]
  /\ past' = past \cup {esp'}
  /\ session' = [session EXCEPT !.rotated = TRUE]
  /\ Goto("sync_kept")
  /\ UNCHANGED <<capacity, nvram, wanted, cuts, releases>>

Sync(from, to) ==
  /\ At(from)
  /\ past' = {esp}
  /\ Goto(to)
  /\ UNCHANGED <<esp, capacity, nvram, Rest>>

ClearTemporary ==
  /\ At("clear")
  /\ Put("novo", NoFile)
  /\ Goto("create")
  /\ UNCHANGED <<nvram, Rest>>

Create ==
  /\ At("create")
  /\ Put("novo", [efi |-> proc.novo, state |-> "empty"])
  /\ Goto("write")
  /\ UNCHANGED <<nvram, Rest>>

Write ==
  /\ At("write")
  /\ Size[proc.novo] <= Free
  /\ Put("novo", [efi |-> proc.novo, state |-> "written"])
  /\ Goto("sync_file")
  /\ UNCHANGED <<nvram, Rest>>

SyncFile ==
  /\ At("sync_file")
  /\ Put("novo", [esp["novo"] EXCEPT !.state = "synced"])
  /\ Goto("rename")
  /\ UNCHANGED <<nvram, Rest>>

Rename ==
  /\ At("rename")
  /\ esp' = [esp EXCEPT !["atual"] = esp["novo"], !["novo"] = NoFile]
  /\ past' = past \cup {esp'}
  /\ session' = [session EXCEPT !.rotated = TRUE]
  /\ Goto("sync_dir")
  /\ UNCHANGED <<capacity, nvram, wanted, cuts, releases>>

\* The two steps that list an entry.
ListOf == [anterior |-> "list_anterior", atual |-> "list_atual"]

OrderOf == [anterior |-> "order_anterior", atual |-> "order_atual"]

\* registra: the variable first, then the order, with ours in front.
ListVariable(e) ==
  /\ At(ListOf[e])
  /\ IF e = "atual" \/ Present(esp, "anterior")
     THEN listed' = listed \cup {e} /\ Goto(OrderOf[e])
     ELSE Goto("list_atual") /\ UNCHANGED listed
  /\ UNCHANGED <<disk, order, Rest>>

ListOrder(e) ==
  /\ At(OrderOf[e])
  /\ order' = <<e>> \o SelectSeq(order, LAMBDA o : o # e)
  /\ proc' = IF e = "atual" THEN Resting ELSE [proc EXCEPT !.pc = "list_atual"]
  /\ UNCHANGED <<disk, listed, Rest>>

Step ==
  \/ Start \/ Decide \/ NoRoom \/ DropOld \/ Keep
  \/ Sync("sync_kept", "clear")
  \/ ClearTemporary \/ Create \/ Write \/ SyncFile \/ Rename
  \/ Sync("sync_dir", "list_anterior")
  \/ \E e \in Entry : ListVariable(e) \/ ListOrder(e)

Next == Reboot \/ PowerCut \/ Kill \/ Release \/ Step

Spec == Init /\ [][Next]_vars

\* A process that runs goes on, and every boot runs boot-update.
FairSpec == Spec /\ WF_vars(Step)

-----------------------------------------------------------------------------
(***************************************************************************)
(* Properties                                                              *)
(***************************************************************************)

\* The partition never holds more than fits, and a process only runs on a
\* machine that is up.
TypeOK ==
  /\ esp \in [Place -> File]
  /\ past \subseteq [Place -> File] /\ esp \in past
  /\ Used(esp) <= capacity
  /\ listed \subseteq Entry
  /\ Listed(order) \subseteq listed /\ Len(order) = Cardinality(Listed(order))
  /\ session = Dead \/ session.efi \in Good
  /\ wanted \in Efi
  /\ ~Up => proc = Resting

\* The image that runs is never removed: it is whole under one of the two
\* names, whatever a power cut leaves (boot_update.rs:23, SPEC-0008:560).
RunningSurvives ==
  Up => \A s \in past : \E p \in Entry : s[p].efi = session.efi /\ s[p].state = "synced"

\* A machine stops booting only while the previous image has no NVRAM entry
\* and the current path is empty, between the two renames, or holds an image
\* that never booted: no torn image is ever under a name (boot_update.rs:98).
LostOnlyUnlistedStep ==
  Up /\ ~Up' => /\ "anterior" \notin Listed(order')
                /\ \/ esp'["atual"].state = "absent"
                   \/ esp'["atual"].efi \in Efi \ Good

Settled == esp["atual"] = [efi |-> wanted, state |-> "synced"]

InFront ==
  /\ order # << >> /\ order[1] = "atual"
  /\ Present(esp, "anterior") => order = <<"atual", "anterior">>

\* Four images and the slack: a temporary left by a cut is counted before it is
\* removed, and it may lie beside both images and the new one.
Roomy == \A e \in Efi : capacity >= 4 * Size[e] + Slack

\* Once package and power stay as they are, on a roomy partition the image of
\* the package becomes the current one for good (boot_update.rs:161), and on any
\* partition an emptied NVRAM gets the entries back, the current one in front
\* (boot_update.rs:566).
Converges == /\ Roomy => <>[](Up => Settled)
             /\ []<>(Up => InFront \/ ~Settled)

\* The package's image becomes the current one on any partition that holds two
\* images and the slack (SPEC-0011-release-rolling.md:234).
CarriedOver == <>[](Up => Settled)
=============================================================================
