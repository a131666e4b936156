-------------------------- MODULE InstallerProofs --------------------------
(***************************************************************************)
(* The parts of MCInstaller, for any values of their constants.            *)
(*                                                                         *)
(* The disk (DiskIsSound): what was measured is what is laid out (Laying), *)
(* partitions chosen by hand are those of the last table (Choosing), and   *)
(* the marker comes after everything was synced (Marking).                 *)
(*                                                                         *)
(* The trees (TreesAreKept): what may have changed between two reads of an *)
(* archive are files (Decoded), and as long as nothing changes the archive *)
(* is the source entry by entry (Undisturbed).                             *)
(*                                                                         *)
(* The medium (OfOneMedium): what a run has read is of one medium as it    *)
(* was composed (OfDisc), nothing is written before a check of it passed   *)
(* (Checking), the reservation of the boot image is the run's (Reserving), *)
(* the marks say what the target holds (Targeted), and each step of a run  *)
(* finds in place what the steps before it bring (Advanced).               *)
(***************************************************************************)
EXTENDS MCInstaller, FiniteSetTheorems, SequenceTheorems, TLAPS

-----------------------------------------------------------------------------
(* The disk.                                                                *)

Whole == [route : {"whole"}, disk : Disk]
ManualFields(d) ==
  [route : {"manual"}, disk : Disk, esp : {d.esp}, format : {d.format}, root : {d.root},
   swap : {d.swap}]
ViewFields(v) ==
  [at : {v.at}, disk : {v.disk}, seen : {v.seen}, known : {v.known}, esp : {v.esp},
   format : {v.format}, root : {v.root}, swap : {v.swap}]

Decided ==
  {"read", "check", "ask", "measure", "lay", "format", "install", "copy", "sync", "mark", "end"}

DiskTypes ==
  /\ table \in [Disk -> {table[d] : d \in Disk}]
  /\ \A d \in Disk : \A p \in DOMAIN table[d] : table[d][p] \in Nat
  /\ view \in ViewFields(view) /\ (view.at \in {"disks", "giveup"} \/ view.disk \in Disk)
  /\ step \in Decided => decision \in Whole \/ decision \in ManualFields(decision)

\* The table a layout leaves.
LaidTable ==
  LET parts == <<layout.esp, layout.root, layout.swap>>
  IN [p \in 1..(IF layout.swap = None THEN 2 ELSE 3) |-> parts[p].last - parts[p].first + 1]

\* What a whole disk was measured for is what is laid out.
Laid ==
  /\ decision \in Whole /\ decision.disk # media
  /\ Measured(Capacity[decision.disk]) /\ Holds(Capacity[decision.disk])
  /\ layout = Layout(Capacity[decision.disk], SwapFor(decision.disk))

Laying ==
  /\ layout # None => /\ Laid /\ step \notin {"screens", "read", "check", "ask", "measure"}
                      /\ step = "boot" => "marker" \in things
  /\ step = "measure" => decision.route = "whole"
  /\ step = "lay" => Laid
  /\ step \in {"format", "install"} /\ decision.route = "whole" =>
       Laid /\ table[decision.disk] = LaidTable

\* Partitions chosen by hand are those of the last table, from the decision on.
Choosing ==
  step \in {"check", "ask", "format", "install"} /\ decision.route = "manual" =>
    /\ shown = table /\ decision.esp # decision.root
    /\ step # "check" => /\ decision.disk # media /\ Chosen \subseteq DOMAIN table[decision.disk]
                         /\ Large(table[decision.disk])

\* The marker comes after everything was synced.
Marking ==
  /\ synced \subseteq things
  /\ "marker" \in things => {"system", "image"} \subseteq synced
  /\ step = "copy" => "system" \in things
  /\ step = "sync" => {"system", "image"} \subseteq things
  /\ step = "mark" => {"system", "image"} \subseteq synced
  /\ step = "end" => "marker" \in things
  /\ step = "started" => "marker" \in things

DiskInv ==
  /\ DiskTypes /\ Laying /\ Choosing /\ Marking
  /\ step = "install" => formatted = Roles

LEMMA DiskInvAtFirst ==
  ASSUME DiskAssumption, DiskInit
  PROVE  DiskInv
<1>1. table \in [Disk -> {table[d] : d \in Disk}]
  BY DEF DiskInit
<1>2. \A d \in Disk : \A p \in DOMAIN table[d] : table[d][p] \in Nat
  BY DEF DiskInit, DiskAssumption
<1>3. view \in ViewFields(view) /\ view.at = "disks"
  BY DEF DiskInit, FirstScreen, ViewFields
<1>4. DiskTypes
  BY <1>1, <1>2, <1>3 DEF DiskTypes, DiskInit, Decided
<1> QED
  BY <1>4 DEF DiskInit, DiskInv, Laying, Choosing, Marking

-----------------------------------------------------------------------------
(* What a layout gives.                                                     *)

LEMMA TimesGrows ==
  ASSUME NEW x \in Nat, NEW y \in Nat, NEW z \in Nat, x <= y
  PROVE  x * z <= y * z /\ x * z \in Nat
<1>1. PICK k \in Nat : y = x + k
  <2>1. y - x \in Nat /\ y = x + (y - x)
    OBVIOUS
  <2> QED
    BY <2>1
<1>2. y * z = x * z + k * z /\ k * z \in Nat /\ x * z \in Nat
  BY <1>1
<1> QED
  BY <1>2

\* The swap is taken from what the root does not need.
LEMMA SwapIsSpare ==
  ASSUME DiskAssumption, NEW d \in Disk, Measured(Capacity[d])
  PROVE  /\ SwapFor(d) \in Nat
         /\ SwapFor(d) * Mib \in Nat
         /\ RootStart + RootMin + SwapFor(d) * Mib <= Capacity[d]
<1> DEFINE spare == Capacity[d] - RootStart - RootMin
           most == (spare \div Mib) \div 2
<1>1. /\ Capacity[d] \in Nat /\ Mib \in Nat /\ Mib > 0 /\ EspMib \in Nat /\ RootMin \in Nat
      /\ SwapWish \in Nat /\ SwapMin \in Nat
  BY DEF DiskAssumption
<1>2. RootStart \in Nat
  <2>1. EspMib * Mib \in Nat
    BY <1>1
  <2> QED
    BY <1>1, <2>1 DEF RootStart
<1>3. spare \in Nat
  BY <1>1, <1>2 DEF Measured
<1> HIDE DEF spare
<1>4. spare \div Mib \in Nat /\ (spare \div Mib) * Mib <= spare
  BY <1>1, <1>3
<1>5. most \in Nat /\ most <= spare \div Mib
  <2> DEFINE half == spare \div Mib
  <2>1. half \in Nat
    BY <1>4
  <2> HIDE DEF half
  <2>2. half \div 2 \in Nat /\ half \div 2 <= half
    BY <2>1
  <2> QED
    BY <2>2 DEF half
<1>6. SwapFor(d) \in Nat /\ SwapFor(d) <= most
  BY <1>1, <1>5 DEF SwapFor, spare
<1> HIDE DEF most
<1>7. SwapFor(d) <= spare \div Mib
  BY <1>4, <1>5, <1>6
<1>8. SwapFor(d) * Mib <= (spare \div Mib) * Mib /\ SwapFor(d) * Mib \in Nat
  BY <1>1, <1>4, <1>6, <1>7, TimesGrows
<1>9. SwapFor(d) * Mib <= spare
  <2>1. (spare \div Mib) * Mib \in Nat
    BY <1>1, <1>4
  <2> QED
    BY <1>3, <1>4, <1>8, <2>1
<1> QED
  BY <1>1, <1>2, <1>6, <1>8, <1>9 DEF spare

\* The sizes a layout is made of.
LEMMA LayoutSizes ==
  ASSUME DiskAssumption, NEW d \in Disk, Measured(Capacity[d]), Holds(Capacity[d]),
         NEW l, l = Layout(Capacity[d], SwapFor(d))
  PROVE  LET last == Capacity[d] - (Entries + 2)
         IN /\ l.esp = [first |-> Mib, last |-> RootStart - 1]
            /\ l.root.first = RootStart
            /\ \/ l.swap = None /\ l.root.last = last
               \/ /\ l.root.last = last - SwapFor(d) * Mib
                  /\ RootStart + RootFloor * Mib + SwapFor(d) * Mib <= last
            /\ l.swap # None => /\ l.root.last = last - SwapFor(d) * Mib
                                /\ l.swap.first = l.root.last + 1 /\ l.swap.last = last
BY DEF Layout

LEMMA LayoutSound ==
  ASSUME DiskAssumption, Laid
  PROVE  LET total == Capacity[decision.disk]
         IN /\ layout.esp.first > Entries + 1
            /\ layout.root.first = layout.esp.last + 1
            /\ layout.swap # None => layout.swap.first = layout.root.last + 1
            /\ (IF layout.swap = None THEN layout.root ELSE layout.swap).last < total - 1 - Entries
            /\ Length(layout.esp) \in Nat /\ Length(layout.esp) >= EspMin
            /\ Length(layout.root) \in Nat /\ Length(layout.root) + Entries + 2 >= RootMin
            /\ layout.swap # None => Length(layout.swap) \in Nat
            /\ layout.esp.first \in Int /\ layout.esp.last \in Int
            /\ layout.root.first \in Int /\ layout.root.last \in Int
            /\ layout.swap # None => layout.swap.first \in Int /\ layout.swap.last \in Int
<1> DEFINE d == decision.disk  total == Capacity[d]  e == EspMib * Mib  s == SwapFor(d) * Mib
           f == RootFloor * Mib
<1>1. d \in Disk /\ Measured(total) /\ Holds(total)
  BY DEF Laid, Whole
<1>2. /\ total \in Nat /\ Mib \in Nat /\ Entries \in Nat /\ Mib > Entries + 1 /\ EspMin \in Nat
      /\ RootMin \in Nat
  BY <1>1 DEF DiskAssumption
<1>3. e \in Nat /\ f \in Nat
  BY DEF DiskAssumption
<1>4. s \in Nat /\ RootStart + RootMin + s <= total
  BY <1>1, SwapIsSpare
<1>5. /\ RootStart = Mib + e /\ RootStart \in Nat /\ EspMin <= e
      /\ RootStart + f + Entries + 2 <= total
  BY <1>1, <1>2, <1>3 DEF RootStart, Measured, Holds
<1>6. LET last == total - (Entries + 2)
      IN /\ layout.esp = [first |-> Mib, last |-> RootStart - 1]
         /\ layout.root.first = RootStart
         /\ \/ layout.swap = None /\ layout.root.last = last
            \/ layout.root.last = last - s /\ RootStart + f + s <= last
         /\ layout.swap # None => /\ layout.root.last = last - s
                                  /\ layout.swap.first = layout.root.last + 1
                                  /\ layout.swap.last = last
  BY <1>1, LayoutSizes DEF Laid
<1> HIDE DEF d, total, e, s, f
<1>7. layout.esp.first = Mib /\ layout.esp.last = RootStart - 1
  BY <1>6
<1>8. Length(layout.esp) = e
  BY <1>2, <1>3, <1>5, <1>7 DEF Length
<1>9. Length(layout.root) \in Nat /\ Length(layout.root) + Entries + 2 >= RootMin
  BY <1>2, <1>3, <1>4, <1>5, <1>6 DEF Length
<1>11. layout.swap # None => Length(layout.swap) \in Nat
  BY <1>2, <1>4, <1>6 DEF Length
<1>10. (IF layout.swap = None THEN layout.root ELSE layout.swap).last < total - 1 - Entries
  BY <1>2, <1>4, <1>6
<1>12. /\ layout.esp.first \in Int /\ layout.esp.last \in Int
       /\ layout.root.first \in Int /\ layout.root.last \in Int
       /\ layout.swap # None => layout.swap.first \in Int /\ layout.swap.last \in Int
  BY <1>2, <1>4, <1>5, <1>6, <1>7
<1> QED
  BY <1>2, <1>3, <1>5, <1>6, <1>7, <1>8, <1>9, <1>10, <1>11, <1>12 DEF d, total

\* The table a layout leaves has the ESP first and the root second.
LEMMA LaidTableSound ==
  ASSUME DiskAssumption, Laid
  PROVE  /\ {1, 2} \subseteq DOMAIN LaidTable
         /\ \A p \in DOMAIN LaidTable : LaidTable[p] \in Nat
         /\ LaidTable[1] >= EspMin /\ LaidTable[2] + Entries + 2 >= RootMin
<1>1. /\ layout.esp.last \in Int /\ layout.esp.first \in Int
      /\ layout.root.last \in Int /\ layout.root.first \in Int
      /\ layout.swap # None => layout.swap.last \in Int /\ layout.swap.first \in Int
  BY LayoutSound
<1> DEFINE n == IF layout.swap = None THEN 2 ELSE 3
           parts == <<layout.esp, layout.root, layout.swap>>
<1>2. LaidTable = [p \in 1..n |-> parts[p].last - parts[p].first + 1]
  BY DEF LaidTable
<1>3. DOMAIN LaidTable = 1..n /\ n \in {2, 3} /\ (n = 3 => layout.swap # None)
  BY <1>2
<1>4. LaidTable[1] = layout.esp.last - layout.esp.first + 1
  BY <1>2
<1>5. LaidTable[2] = layout.root.last - layout.root.first + 1
  BY <1>2
<1>6. n = 3 => LaidTable[3] = layout.swap.last - layout.swap.first + 1
  BY <1>2
<1> HIDE DEF n, parts
<1>7. LaidTable[1] = Length(layout.esp) /\ LaidTable[2] = Length(layout.root)
  BY <1>1, <1>4, <1>5 DEF Length
<1>8. n = 3 => LaidTable[3] = Length(layout.swap)
  BY <1>1, <1>3, <1>6 DEF Length
<1>9. \A p \in 1..n : p = 1 \/ p = 2 \/ (p = 3 /\ n = 3)
  BY <1>3
<1> QED
  BY <1>3, <1>7, <1>8, <1>9, LayoutSound

-----------------------------------------------------------------------------
(* The screens keep the invariant.                                          *)

LEMMA ShowKeeps ==
  ASSUME DiskInv, NEW shows, Show(shows), step = "screens",
         shows \in ViewFields(shows), shows.at \in {"disks", "giveup"} \/ shows.disk \in Disk
  PROVE  DiskInv'
<1>1. DiskTypes'
  BY DEF DiskInv, DiskTypes, Show, Decided, ViewFields
<1>2. Laying' /\ Choosing' /\ Marking'
  BY DEF DiskInv, Laying, Laid, LaidTable, Choosing, Chosen, Marking, Show, layouts, files
<1> QED
  BY <1>1, <1>2 DEF DiskInv, Show

LEMMA BackKeeps ==
  ASSUME DiskInv, NEW screen, Back(screen), step = "screens",
         screen \in {"disks", "giveup"} \/ view.at \notin {"disks", "giveup"}
  PROVE  DiskInv'
<1>1. view \in ViewFields(view) /\ (view.at \in {"disks", "giveup"} \/ view.disk \in Disk)
  BY DEF DiskInv, DiskTypes
<1> DEFINE shows == [view EXCEPT !.at = screen]
<1>2. shows \in ViewFields(shows) /\ shows.at = screen /\ shows.disk = view.disk
  BY <1>1 DEF ViewFields
<1>3. Show(shows)
  BY DEF Back
<1> HIDE DEF shows
<1> QED
  BY <1>1, <1>2, <1>3, ShowKeeps

LEMMA DecideKeeps ==
  ASSUME DiskInv, NEW d, Decide(d), step = "screens",
         d = None \/ d \in Whole \/ d \in ManualFields(d)
  PROVE  DiskInv'
<1>1. view' \in ViewFields(view') /\ view'.at = "disks"
  BY DEF Decide, FirstScreen, ViewFields
<1>2. layout = None /\ layout' = None
  BY DEF DiskInv, Laying, Decide, layouts
<1>3. step' \in {"rescue", "read"} /\ (step' = "read" => decision' \in Whole \/ decision' \in ManualFields(decision'))
  BY DEF Decide
<1>4. DiskTypes'
  BY <1>1, <1>3 DEF DiskInv, DiskTypes, Decide, Decided
<1>5. Laying' /\ Choosing' /\ Marking'
  BY <1>2, <1>3 DEF DiskInv, Laying, Choosing, Marking, Decide, files
<1> QED
  BY <1>3, <1>4, <1>5 DEF DiskInv

LEMMA CfdiskKeeps ==
  ASSUME DiskAssumption, DiskInv, Cfdisk
  PROVE  DiskInv'
<1>1. step = "screens" /\ step' = "screens" /\ view.at = "cfdisk"
  BY DEF Cfdisk, Seen
<1>2. PICK t \in Tables : table' = [table EXCEPT ![view.disk] = t]
  BY DEF Cfdisk
<1>3. view \in ViewFields(view) /\ view.disk \in Disk
  BY <1>1 DEF DiskInv, DiskTypes
<1>4. table' \in [Disk -> {table'[d] : d \in Disk}]
  BY <1>2 DEF DiskInv, DiskTypes
<1>5. \A d \in Disk : \A p \in DOMAIN table'[d] : table'[d][p] \in Nat
  BY <1>2, <1>3 DEF DiskInv, DiskTypes, DiskAssumption
<1>6. view' \in ViewFields(view') /\ view'.disk \in Disk
  BY <1>3 DEF Cfdisk, ViewFields
<1>7. DiskTypes'
  BY <1>1, <1>4, <1>5, <1>6 DEF DiskTypes, Decided
<1>8. layout = None /\ layout' = None
  BY <1>1 DEF DiskInv, Laying, Cfdisk, layouts
<1>9. Laying' /\ Choosing' /\ Marking'
  BY <1>1, <1>8 DEF DiskInv, Laying, Choosing, Marking, Cfdisk, files
<1> QED
  BY <1>1, <1>7, <1>9 DEF DiskInv

LEMMA ScreenKeeps ==
  ASSUME DiskAssumption, DiskInv, Screen
  PROVE  DiskInv'
<1>1. step = "screens"
  BY DEF Screen, PickDisk, GiveUp, PickRoute, ConfirmDestruction, Cfdisk, LeaveCfdisk, PickEsp,
         PickFormat, PickRoot, PickSwap, Confirm, Seen
<1>2. view \in ViewFields(view) /\ (view.at \in {"disks", "giveup"} \/ view.disk \in Disk)
  BY DEF DiskInv, DiskTypes
<1>3. CASE PickDisk
  <2>1. CASE \E d \in Candidates : Show([view EXCEPT !.at = "route", !.disk = d, !.seen = shown[d]])
    <3>1. PICK d \in Candidates : Show([view EXCEPT !.at = "route", !.disk = d, !.seen = shown[d]])
      BY <2>1
    <3> DEFINE shows == [view EXCEPT !.at = "route", !.disk = d, !.seen = shown[d]]
    <3>2. shows \in ViewFields(shows) /\ shows.disk \in Disk
      BY <1>2 DEF ViewFields, Candidates
    <3> QED
      BY <1>1, <3>1, <3>2, ShowKeeps
  <2> QED
    BY <1>1, <1>3, <2>1, BackKeeps DEF PickDisk, Seen
<1>4. CASE GiveUp
  BY <1>1, <1>4, BackKeeps, DecideKeeps DEF GiveUp, Seen
<1>5. CASE PickRoute
  <2> DEFINE shows == [FirstScreen EXCEPT !.at = "cfdisk", !.disk = view.disk, !.seen = view.seen,
                                          !.known = view.seen]
  <2>1. shows \in ViewFields(shows) /\ (view.at = "route" => shows.disk \in Disk)
    BY <1>2 DEF ViewFields, FirstScreen
  <2>2. view.at = "route" /\ (Back("destroy") \/ Show(shows) \/ Back("disks"))
    BY <1>5 DEF PickRoute, Seen
  <2> HIDE DEF shows
  <2> QED
    BY <1>1, <2>1, <2>2, BackKeeps, ShowKeeps
<1>6. CASE ConfirmDestruction
  <2>1. view.disk \in Disk
    BY <1>2, <1>6 DEF ConfirmDestruction, Seen
  <2>2. [route |-> "whole", disk |-> view.disk] \in Whole
    BY <2>1 DEF Whole
  <2> QED
    BY <1>1, <1>6, <2>2, BackKeeps, DecideKeeps DEF ConfirmDestruction, Seen
<1>7. CASE Cfdisk
  BY <1>7, CfdiskKeeps
<1>8. CASE LeaveCfdisk
  <2>1. view.at \in {"cfdisk", "written"} /\ view.disk \in Disk
    BY <1>2, <1>8 DEF LeaveCfdisk, Seen
  <2>2. CASE \E t : \E screen \in {"cfdisk", "esp"} : Show([view EXCEPT !.known = t, !.at = screen])
    <3> PICK t : \E screen \in {"cfdisk", "esp"} : Show([view EXCEPT !.known = t, !.at = screen])
      BY <2>2
    <3>1. PICK screen \in {"cfdisk", "esp"} : Show([view EXCEPT !.known = t, !.at = screen])
      OBVIOUS
    <3> DEFINE shows == [view EXCEPT !.known = t, !.at = screen]
    <3>2. shows \in ViewFields(shows) /\ shows.disk \in Disk
      BY <1>2, <2>1 DEF ViewFields
    <3> QED
      BY <1>1, <3>1, <3>2, ShowKeeps
  <2>3. CASE Back("cfdisk") \/ Back("route")
    BY <1>1, <2>1, <2>3, BackKeeps
  <2> QED
    BY <1>8, <2>2, <2>3 DEF LeaveCfdisk
<1>9. CASE PickEsp
  <2>1. view.at = "esp" /\ view.disk \in Disk
    BY <1>2, <1>9 DEF PickEsp, Seen
  <2>2. CASE \E p : Show([view EXCEPT !.esp = p, !.at = "format"])
    <3>1. PICK p : Show([view EXCEPT !.esp = p, !.at = "format"])
      BY <2>2
    <3> DEFINE shows == [view EXCEPT !.esp = p, !.at = "format"]
    <3>2. shows \in ViewFields(shows) /\ shows.disk \in Disk
      BY <1>2, <2>1 DEF ViewFields
    <3> QED
      BY <1>1, <3>1, <3>2, ShowKeeps
  <2> QED
    BY <1>1, <1>9, <2>1, <2>2, BackKeeps DEF PickEsp
<1>10. CASE PickFormat
  <2>1. view.at = "format" /\ view.disk \in Disk
    BY <1>2, <1>10 DEF PickFormat, Seen
  <2>2. CASE \E f : Show([view EXCEPT !.format = f, !.at = "root"])
    <3>1. PICK f : Show([view EXCEPT !.format = f, !.at = "root"])
      BY <2>2
    <3> DEFINE shows == [view EXCEPT !.format = f, !.at = "root"]
    <3>2. shows \in ViewFields(shows) /\ shows.disk \in Disk
      BY <1>2, <2>1 DEF ViewFields
    <3> QED
      BY <1>1, <3>1, <3>2, ShowKeeps
  <2> QED
    BY <1>1, <1>10, <2>1, <2>2, BackKeeps DEF PickFormat
<1>11. CASE PickRoot
  <2>1. view.at = "root" /\ view.disk \in Disk
    BY <1>2, <1>11 DEF PickRoot, Seen
  <2>2. CASE \E p : Show([view EXCEPT !.root = p, !.at = "swap"])
    <3>1. PICK p : Show([view EXCEPT !.root = p, !.at = "swap"])
      BY <2>2
    <3> DEFINE shows == [view EXCEPT !.root = p, !.at = "swap"]
    <3>2. shows \in ViewFields(shows) /\ shows.disk \in Disk
      BY <1>2, <2>1 DEF ViewFields
    <3> QED
      BY <1>1, <3>1, <3>2, ShowKeeps
  <2> QED
    BY <1>1, <1>11, <2>1, <2>2, BackKeeps DEF PickRoot
<1>12. CASE PickSwap
  <2>1. view.at = "swap" /\ view.disk \in Disk
    BY <1>2, <1>12 DEF PickSwap, Seen
  <2>2. CASE \E p : Show([view EXCEPT !.swap = p, !.at = "confirm"])
    <3>1. PICK p : Show([view EXCEPT !.swap = p, !.at = "confirm"])
      BY <2>2
    <3> DEFINE shows == [view EXCEPT !.swap = p, !.at = "confirm"]
    <3>2. shows \in ViewFields(shows) /\ shows.disk \in Disk
      BY <1>2, <2>1 DEF ViewFields
    <3> QED
      BY <1>1, <3>1, <3>2, ShowKeeps
  <2> QED
    BY <1>1, <1>12, <2>1, <2>2, BackKeeps DEF PickSwap
<1>13. CASE Confirm
  <2>1. view.at = "confirm" /\ view.disk \in Disk
    BY <1>2, <1>13 DEF Confirm, Seen
  <2> DEFINE d == [route |-> "manual", disk |-> view.disk, esp |-> view.esp,
                   format |-> view.format, root |-> view.root, swap |-> view.swap]
  <2>2. d \in ManualFields(d)
    BY <2>1 DEF ManualFields
  <2>3. Decide(d) \/ Back("swap")
    BY <1>13 DEF Confirm
  <2> HIDE DEF d
  <2> QED
    BY <1>1, <2>1, <2>2, <2>3, BackKeeps, DecideKeeps
<1> QED
  BY <1>3, <1>4, <1>5, <1>6, <1>7, <1>8, <1>9, <1>10, <1>11, <1>12, <1>13 DEF Screen

-----------------------------------------------------------------------------
(* So does the init.                                                        *)

\* A step that leaves the tables and the decision alone.
LEMMA TypesStay ==
  ASSUME DiskTypes, UNCHANGED <<table, view, decision>>, step' \in Decided => step \in Decided
  PROVE  DiskTypes'
BY DEF DiskTypes, ViewFields, ManualFields

LEMMA TypedKeeps ==
  ASSUME DiskInv, Typed
  PROVE  DiskInv'
<1>1. step = "screens" /\ step' = "check" /\ decision' \in Whole /\ decision'.route = "whole"
  BY DEF Typed, Goto, Whole
<1>2. view' \in ViewFields(view') /\ view'.at = "disks"
  BY DEF Typed, FirstScreen, ViewFields
<1>3. DiskTypes'
  BY <1>1, <1>2 DEF DiskInv, DiskTypes, Typed
<1>4. layout = None /\ layout' = None
  BY <1>1 DEF DiskInv, Laying, Typed, layouts
<1>5. Laying' /\ Choosing' /\ Marking'
  BY <1>1, <1>4 DEF DiskInv, Laying, Choosing, Marking, Typed, files
<1> QED
  BY <1>1, <1>3, <1>5 DEF DiskInv

LEMMA SettleKeeps ==
  ASSUME DiskInv, Settle
  PROVE  DiskInv'
<1>1. DiskTypes'
  BY TypesStay DEF DiskInv, Settle, screens
<1>2. Laying' /\ Marking'
  BY DEF DiskInv, Laying, Laid, LaidTable, Marking, Settle, screens, layouts, files
<1>3. Choosing'
  BY DEF DiskInv, Choosing, Settle, screens
<1> QED
  BY <1>1, <1>2, <1>3 DEF DiskInv, Settle, screens, files, Roles

LEMMA BootKeeps ==
  ASSUME DiskInv, Boot
  PROVE  DiskInv'
<1>1. step = "boot" /\ step' \in {"started", "screens"}
  BY DEF Boot, Goto
<1>2. step' = "started" <=> "marker" \in things
  BY DEF Boot, Goto
<1>3. DiskTypes'
  BY <1>1 DEF DiskInv, DiskTypes, Boot, Decided
<1>4. layout # None => decision' = decision /\ step' = "started"
  BY <1>1 DEF DiskInv, Laying, Boot, Goto
<1>5. Laying'
  BY <1>1, <1>4 DEF DiskInv, Laying, Laid, Boot
<1>6. Choosing' /\ Marking'
  BY <1>1, <1>2 DEF DiskInv, Choosing, Marking, Boot, files
<1> QED
  BY <1>1, <1>3, <1>5, <1>6 DEF DiskInv

LEMMA ReadDecisionKeeps ==
  ASSUME DiskInv, ReadDecision
  PROVE  DiskInv'
<1>1. step = "read" /\ step' \in {"check", "rescue"}
  BY DEF ReadDecision, Goto
<1>2. DiskTypes'
  BY <1>1, TypesStay DEF DiskInv, ReadDecision, Still, screens, Decided
<1>3. Laying' /\ Marking'
  BY <1>1 DEF DiskInv, Laying, Marking, ReadDecision, Still, layouts, files
<1>4. Choosing'
  <2> SUFFICES ASSUME step' = "check", decision.route = "manual"
               PROVE  shown' = table' /\ decision'.esp # decision'.root
    BY <1>1 DEF Choosing, ReadDecision, Still, screens
  <2> QED
    BY DEF ReadDecision, Still, screens, Goto
<1> QED
  BY <1>1, <1>2, <1>3, <1>4 DEF DiskInv

LEMMA CheckKeeps ==
  ASSUME DiskInv, Check
  PROVE  DiskInv'
<1>1. step = "check" /\ step' \in {"ask", "rescue"}
  BY DEF Check, Goto
<1>2. DiskTypes'
  BY <1>1, TypesStay DEF DiskInv, Check, Still, screens, Decided
<1>3. Laying' /\ Marking'
  BY <1>1 DEF DiskInv, Laying, Marking, Check, Still, layouts, files
<1>4. Choosing'
  <2> SUFFICES ASSUME step' = "ask", decision.route = "manual"
               PROVE  Choosing'
    BY <1>1 DEF Choosing, Check, Still, screens
  <2>1. shown = table /\ decision.esp # decision.root
    BY <1>1 DEF DiskInv, Choosing
  <2>2. decision.disk # media /\ Chosen \subseteq DOMAIN table[decision.disk] /\ Large(table[decision.disk])
    BY <2>1 DEF Check, Goto
  <2> QED
    BY <2>1, <2>2 DEF Choosing, Chosen, Large, Check, Still, screens
<1> QED
  BY <1>1, <1>2, <1>3, <1>4 DEF DiskInv

LEMMA AskKeeps ==
  ASSUME DiskInv, Ask
  PROVE  DiskInv'
<1>1. step = "ask" /\ step' = IF decision.route = "whole" THEN "measure" ELSE "format"
  BY DEF Ask, Goto
<1>2. DiskTypes'
  BY <1>1, TypesStay DEF DiskInv, Ask, Still, screens, Decided
<1>3. Laying' /\ Marking'
  BY <1>1 DEF DiskInv, Laying, Marking, Ask, Still, screens, layouts, files
<1>4. Choosing'
  BY <1>1 DEF DiskInv, Choosing, Chosen, Large, Ask, Still, screens
<1> QED
  BY <1>1, <1>2, <1>3, <1>4 DEF DiskInv

LEMMA MeasureKeeps ==
  ASSUME DiskInv, Measure
  PROVE  DiskInv'
<1>1. step = "measure" /\ step' \in {"lay", "rescue"}
  BY DEF Measure, Goto
<1>2. DiskTypes'
  BY <1>1, TypesStay DEF DiskInv, Measure, screens, Decided
<1>3. decision \in Whole
  BY <1>1 DEF DiskInv, DiskTypes, Laying, ManualFields, Decided
<1>4. step' = "lay" => Laid'
  BY <1>3 DEF Laid, Measure, Goto, screens
<1>5. step' = "rescue" => layout' = None
  BY <1>1 DEF DiskInv, Laying, Measure, Goto, layouts
<1>6. Laying'
  BY <1>1, <1>4, <1>5 DEF Laying
<1>7. Choosing' /\ Marking'
  BY <1>1 DEF DiskInv, Choosing, Marking, Measure, files
<1> QED
  BY <1>1, <1>2, <1>6, <1>7 DEF DiskInv

LEMMA LayKeeps ==
  ASSUME DiskAssumption, DiskInv, Lay
  PROVE  DiskInv'
<1>1. step = "lay" /\ step' \in {"lay", "format"} /\ Laid
  BY DEF Lay, Goto, DiskInv, Laying
<1>2. Laid'
  BY <1>1 DEF Laid, Lay, screens
<1>3. step' = "format" => table' = [table EXCEPT ![decision.disk] = LaidTable]
  <2> SUFFICES ASSUME step' = "format"
               PROVE  table' = [table EXCEPT ![decision.disk] = LaidTable]
    OBVIOUS
  <2>1. Unwritten = {}
    BY <1>1 DEF Lay
  <2> QED
    BY <2>1, Zenon DEF Lay, LaidTable
<1>4. step' = "lay" => table' = table
  BY <1>1 DEF Lay, Goto
<1>5. decision.disk \in Disk
  BY <1>1 DEF Laid, Whole
<1>6. step' = "format" => table'[decision.disk] = LaidTable
  BY <1>3, <1>5 DEF DiskInv, DiskTypes
<1>7. DiskTypes'
  <2>1. table' \in [Disk -> {table'[d] : d \in Disk}]
    BY <1>1, <1>3, <1>4 DEF DiskInv, DiskTypes
  <2>2. \A d \in Disk : \A p \in DOMAIN table'[d] : table'[d][p] \in Nat
    <3>1. \A p \in DOMAIN LaidTable : LaidTable[p] \in Nat
      BY <1>1, LaidTableSound
    <3>2. \A d \in Disk : table'[d] \in {table[d], LaidTable}
      BY <1>1, <1>3, <1>4 DEF DiskInv, DiskTypes
    <3> QED
      BY <3>1, <3>2 DEF DiskInv, DiskTypes
  <2>3. view' \in ViewFields(view') /\ (view'.at \in {"disks", "giveup"} \/ view'.disk \in Disk)
    BY DEF DiskInv, DiskTypes, Lay, screens, ViewFields
  <2> QED
    BY <1>2, <2>1, <2>2, <2>3 DEF DiskTypes, Laid
<1>8. Laying'
  <2>1. LaidTable' = LaidTable
    BY DEF LaidTable, Lay
  <2>2. decision' = decision
    BY DEF Lay, screens
  <2> QED
    BY <1>1, <1>2, <1>6, <2>1, <2>2 DEF Laying
<1>9. decision'.route = "whole"
  BY <1>2 DEF Laid, Whole
<1>10. Choosing' /\ Marking'
  BY <1>1, <1>9 DEF DiskInv, Choosing, Marking, Lay, files
<1> QED
  BY <1>1, <1>7, <1>8, <1>10 DEF DiskInv

LEMMA FormatKeeps ==
  ASSUME DiskInv, Format
  PROVE  DiskInv'
<1>1. step = "format" /\ step' = "install"
  BY DEF Format, Goto
<1>2. DiskTypes'
  BY <1>1, TypesStay DEF DiskInv, Format, screens, Decided
<1>3. Laying'
  BY <1>1 DEF DiskInv, Laying, Laid, LaidTable, Format, screens, layouts
<1>4. Choosing'
  BY <1>1 DEF DiskInv, Choosing, Chosen, Large, Format, screens
<1>5. Marking'
  BY <1>1 DEF Marking, Format
<1>6. formatted' = Roles'
  BY DEF Format, Roles, screens
<1> QED
  BY <1>2, <1>3, <1>4, <1>5, <1>6 DEF DiskInv

LEMMA PutKeeps ==
  ASSUME DiskInv, NEW here, NEW thing, NEW next, Put(here, thing, next),
         <<here, thing, next>> \in {<<"install", "system", "copy">>, <<"copy", "image", "sync">>,
                                    <<"mark", "marker", "end">>}
  PROVE  DiskInv'
<1>1. step = here /\ step' = next /\ things' = things \cup {thing} /\ synced' = synced
  BY DEF Put, Goto
<1>2. DiskTypes'
  BY <1>1, TypesStay DEF DiskInv, Put, screens, Decided
<1>3. Laying'
  <2>1. step' \in {"copy", "sync", "end"} /\ Laid' = Laid /\ layout' = layout /\ step # "boot"
    BY <1>1 DEF Put, screens, layouts, Laid
  <2>2. step \notin {"screens", "read", "check", "ask", "measure"}
    BY <1>1
  <2> QED
    BY <2>1, <2>2 DEF DiskInv, Laying
<1>4. Choosing' /\ step' # "install"
  BY <1>1 DEF Choosing
<1>5. Marking'
  <2>1. CASE here = "install" /\ thing = "system" /\ next = "copy"
    BY <1>1, <2>1 DEF DiskInv, Marking
  <2>2. CASE here = "copy" /\ thing = "image" /\ next = "sync"
    BY <1>1, <2>2 DEF DiskInv, Marking
  <2>3. CASE here = "mark" /\ thing = "marker" /\ next = "end"
    BY <1>1, <2>3 DEF DiskInv, Marking
  <2> QED
    BY <2>1, <2>2, <2>3
<1> QED
  BY <1>2, <1>3, <1>4, <1>5 DEF DiskInv

LEMMA SyncKeeps ==
  ASSUME DiskInv, NEW here, NEW next, Sync(here, next),
         <<here, next>> \in {<<"sync", "mark">>, <<"end", "boot">>}
  PROVE  DiskInv'
<1>1. step = here /\ step' = next /\ things' = things /\ synced' = things
  BY DEF Sync, Goto
<1>2. DiskTypes'
  BY <1>1, TypesStay DEF DiskInv, Sync, screens, Decided
<1>3. "marker" \in things => {"system", "image"} \subseteq things
  BY DEF DiskInv, Marking
<1>4. CASE here = "sync" /\ next = "mark"
  <2>1. Laying'
    BY <1>1, <1>4 DEF DiskInv, Laying, Laid, Sync, screens, layouts
  <2>2. Choosing' /\ Marking'
    BY <1>1, <1>3, <1>4 DEF DiskInv, Choosing, Marking
  <2> QED
    BY <1>1, <1>2, <1>4, <2>1, <2>2 DEF DiskInv
<1>5. CASE here = "end" /\ next = "boot"
  <2>1. "marker" \in things
    BY <1>1, <1>5 DEF DiskInv, Marking
  <2>2. Laying'
    BY <1>1, <1>5, <2>1 DEF DiskInv, Laying, Laid, Sync, screens, layouts
  <2>3. Choosing' /\ Marking'
    BY <1>1, <1>3, <1>5 DEF DiskInv, Choosing, Marking
  <2> QED
    BY <1>1, <1>2, <1>5, <2>2, <2>3 DEF DiskInv
<1> QED
  BY <1>4, <1>5

LEMMA RescueKeeps ==
  ASSUME DiskInv, Rescue
  PROVE  DiskInv'
<1>1. step' = "rescue" /\ step \in {"lay", "format", "install", "copy", "sync", "mark"}
  BY DEF Rescue, Goto
<1>2. DiskTypes'
  BY <1>1, TypesStay DEF DiskInv, Rescue, Still, screens, Decided
<1>3. Laying'
  BY <1>1 DEF DiskInv, Laying, Laid, Rescue, Still, screens, layouts
<1>4. Choosing' /\ Marking'
  BY <1>1 DEF DiskInv, Choosing, Marking, Rescue, Still, files
<1> QED
  BY <1>1, <1>2, <1>3, <1>4 DEF DiskInv

LEMMA CutKeeps ==
  ASSUME DiskInv, Cut
  PROVE  DiskInv'
<1>1. step' = "boot" /\ layout' = None
  BY DEF Cut, Goto
<1>2. view' \in ViewFields(view') /\ view'.at = "disks"
  BY DEF Cut, FirstScreen, ViewFields
<1>3. DiskTypes'
  BY <1>1, <1>2 DEF DiskInv, DiskTypes, Cut, Decided
<1>4. Laying' /\ Choosing'
  BY <1>1 DEF Laying, Choosing
<1>5. synced \subseteq things' /\ things' \subseteq things /\ synced' = things'
  BY DEF DiskInv, Marking, Cut
<1>6. Marking'
  BY <1>1, <1>5 DEF DiskInv, Marking
<1> QED
  BY <1>1, <1>3, <1>4, <1>6 DEF DiskInv

LEMMA DiskInvKept ==
  ASSUME DiskAssumption, DiskInv, [DiskNext]_dvars
  PROVE  DiskInv'
<1>1. CASE Screen
  BY <1>1, ScreenKeeps
<1>2. CASE Typed \/ Settle
  BY <1>2, TypedKeeps, SettleKeeps
<1>3. CASE Boot \/ ReadDecision \/ Check \/ Ask \/ Measure \/ Lay \/ Format
  BY <1>3, BootKeeps, ReadDecisionKeeps, CheckKeeps, AskKeeps, MeasureKeeps, LayKeeps, FormatKeeps
<1>4. CASE Finish
  BY <1>4, PutKeeps, SyncKeeps DEF Finish
<1>5. CASE Rescue \/ Cut
  BY <1>5, RescueKeeps, CutKeeps
<1>6. CASE UNCHANGED dvars
  <2>1. DiskTypes'
    BY <1>6, TypesStay DEF DiskInv, dvars, screens
  <2>2. Laying'
    BY <1>6 DEF DiskInv, Laying, Laid, LaidTable, dvars, screens, layouts, files
  <2>3. Choosing' /\ Marking'
    BY <1>6 DEF DiskInv, Choosing, Chosen, Large, Marking, dvars, screens, files
  <2> QED
    BY <1>6, <2>1, <2>2, <2>3 DEF DiskInv, Roles, dvars, screens, files
<1> QED
  BY <1>1, <1>2, <1>3, <1>4, <1>5, <1>6 DEF DiskNext, InitStep

LEMMA DiskFollows ==
  ASSUME DiskAssumption, DiskInv
  PROVE  LayoutIsSound /\ FormattedIsSound /\ StartedIsWhole
<1>1. LayoutIsSound
  BY LayoutSound DEF DiskInv, Laying, LayoutIsSound
<1>2. StartedIsWhole
  BY DEF DiskInv, Marking, StartedIsWhole
<1>3. FormattedIsSound
  <2> SUFFICES ASSUME step = "install"
               PROVE  LET t == table[decision.disk]
                      IN /\ decision.disk # media /\ formatted.esp # formatted.root
                         /\ {formatted.esp, formatted.root} \subseteq DOMAIN t
                         /\ t[formatted.esp] >= EspMin
                         /\ t[formatted.root] + Entries + 2 >= RootMin
    BY DEF FormattedIsSound
  <2>1. formatted = Roles /\ (decision \in Whole \/ decision \in ManualFields(decision))
    BY DEF DiskInv, DiskTypes, Decided
  <2>2. CASE decision \in Whole
    <3>1. decision.route = "whole"
      BY <2>2 DEF Whole
    <3>2. Laid /\ table[decision.disk] = LaidTable
      BY <3>1 DEF DiskInv, Laying
    <3>3. formatted.esp = 1 /\ formatted.root = 2 /\ decision.disk # media
      BY <2>1, <3>1, <3>2 DEF Roles, Laid
    <3> QED
      BY <3>2, <3>3, LaidTableSound
  <2>3. CASE decision \in ManualFields(decision)
    <3>1. decision.route = "manual" /\ decision.disk \in Disk
      BY <2>3 DEF ManualFields
    <3>2. /\ decision.esp # decision.root /\ decision.disk # media
          /\ {decision.esp, decision.root} \subseteq DOMAIN table[decision.disk]
          /\ Large(table[decision.disk])
      BY <3>1 DEF DiskInv, Choosing, Chosen
    <3>3. formatted.esp = decision.esp /\ formatted.root = decision.root
      BY <2>1, <3>1 DEF Roles
    <3>4. table[decision.disk][decision.root] \in Nat /\ RootMin \in Nat /\ Entries \in Nat
      BY <3>1, <3>2 DEF DiskInv, DiskTypes, DiskAssumption
    <3> QED
      BY <3>2, <3>3, <3>4 DEF Large
  <2> QED
    BY <2>1, <2>2, <2>3
<1> QED
  BY <1>1, <1>2, <1>3

-----------------------------------------------------------------------------
(* The trees.                                                               *)

\* What a file may come to hold: a length, and what was read of another.
Reads == Nat \X {c[2] : c \in Content}
TreeNode == {T!Dir, T!Odd} \cup {T!Link(x) : x \in Path \cup {Out}} \cup {T!File(c) : c \in Reads}
TreeEntry == [at : Path, node : TreeNode]

TreeTypes ==
  /\ DOMAIN source \in SUBSET Path /\ source \in [DOMAIN source -> TreeNode]
  /\ DOMAIN entries \in SUBSET Path /\ entries \in [DOMAIN entries -> TreeNode]
  /\ archive \in Seq(TreeEntry)
  /\ changes \in Nat /\ composed \in BOOLEAN

\* What the installer decoded, and the archive it decoded it from, in which
\* only files have changed since.
Decoded ==
  stage = "write" =>
    /\ \A x \in DOMAIN entries :
         /\ T!LinkAllowed(entries[x])
         /\ \A y \in Above[x] \cap DOMAIN entries : entries[y] = T!Dir
    /\ T!Total(entries) <= MaxTotal
    /\ \A i \in DOMAIN archive :
         \/ archive[i].node.kind = "file"
         \/ archive[i].at \in DOMAIN entries /\ archive[i].node = entries[archive[i].at]

\* As long as nothing changes, the archive holds the nodes of the source.
OfSource ==
  /\ \A i \in DOMAIN archive : /\ archive[i].at \in DOMAIN source
                               /\ archive[i].node = source[archive[i].at]
  /\ \A i, j \in DOMAIN archive : archive[i].at = archive[j].at => i = j

Undisturbed ==
  composed /\ changes = 0 =>
    /\ source \in Sources
    /\ stage = "collect" => archive = <<>>
    /\ stage \in {"pack", "decode", "write"} =>
         entries = source /\ T!Collectable(source) /\ T!IsSeed(source) /\ OfSource
    /\ stage \in {"decode", "write"} => T!Packed = DOMAIN source

TreesInv ==
  TreeTypes /\ Decoded /\ Undisturbed /\ T!ComposedIsExtracted /\ T!ExtractedIsValidated
LEMMA SameCardinality == \A S : T!Cardinality(S) = Cardinality(S)
BY Zenon DEF T!Cardinality, Cardinality

LEMMA SameFinite == \A S : T!IsFiniteSet(S) <=> IsFiniteSet(S)
BY Zenon DEF T!IsFiniteSet, IsFiniteSet

LEMMA NodeFacts ==
  ASSUME T!TreesAssumption
  PROVE  /\ T!Node \subseteq TreeNode
         /\ \A n \in TreeNode : T!Length(n) \in Nat
         /\ \A n \in TreeNode : n.kind = "file" => n.to = None /\ \E c \in Reads : n = T!File(c)
<1>1. Content \subseteq Reads
  BY DEF Reads, T!TreesAssumption
<1>2. T!Node \subseteq TreeNode
  BY <1>1 DEF T!Node, TreeNode
<1>3. \A n \in TreeNode : n.kind = "file" => n.to = None /\ \E c \in Reads : n = T!File(c)
  BY DEF TreeNode, T!Dir, T!Odd, T!Link, T!File
<1>4. \A n \in TreeNode : T!Length(n) \in Nat
  <2> SUFFICES ASSUME NEW n \in TreeNode, n.kind = "file"
               PROVE  n.content[1] \in Nat
    BY DEF T!Length
  <2>1. PICK c \in Reads : n = T!File(c)
    BY <1>3
  <2> QED
    BY <2>1 DEF T!File, Reads
<1> QED
  BY <1>2, <1>3, <1>4

\* The nodes of an archive: one of its entries at each of its paths.
LEMMA NodesFacts ==
  ASSUME NEW tar \in Seq(TreeEntry)
  PROVE  /\ DOMAIN T!Nodes(tar) = {tar[i].at : i \in DOMAIN tar}
         /\ DOMAIN T!Nodes(tar) \in SUBSET Path
         /\ T!Nodes(tar) \in [DOMAIN T!Nodes(tar) -> TreeNode]
         /\ \A x \in DOMAIN T!Nodes(tar) :
              \E i \in DOMAIN tar : tar[i].at = x /\ T!Nodes(tar)[x] = tar[i].node
<1> DEFINE nodes == T!Nodes(tar)
           pick(x) == CHOOSE e \in T!ToSet(tar) : e.at = x
<1>1. nodes = [x \in {tar[i].at : i \in DOMAIN tar} |-> pick(x).node]
  BY DEF T!Nodes
<1>2. DOMAIN nodes = {tar[i].at : i \in DOMAIN tar}
  BY <1>1
<1>3. \A i \in DOMAIN tar : tar[i] \in TreeEntry
  OBVIOUS
<1>4. DOMAIN nodes \in SUBSET Path
  BY <1>2, <1>3 DEF TreeEntry
<1>5. ASSUME NEW x \in DOMAIN nodes
      PROVE  \E i \in DOMAIN tar : tar[i].at = x /\ nodes[x] = tar[i].node
  <2>1. PICK j \in DOMAIN tar : tar[j].at = x
    BY <1>2
  <2>2. tar[j] \in T!ToSet(tar)
    BY DEF T!ToSet
  <2>3. pick(x) \in T!ToSet(tar) /\ pick(x).at = x
    BY <2>1, <2>2
  <2>4. nodes[x] = pick(x).node
    BY <1>1, <1>2
  <2> HIDE DEF nodes, pick
  <2>5. PICK i \in DOMAIN tar : tar[i] = pick(x)
    BY <2>3 DEF T!ToSet
  <2> QED
    BY <2>3, <2>4, <2>5
<1>6. nodes \in [DOMAIN nodes -> TreeNode]
  <2>1. \A x \in DOMAIN nodes : nodes[x] \in TreeNode
    BY <1>3, <1>5 DEF TreeEntry
  <2>2. nodes = [x \in DOMAIN nodes |-> nodes[x]]
    BY <1>1, <1>2
  <2> HIDE DEF nodes
  <2> QED
    BY <2>1, <2>2
<1> QED
  BY <1>2, <1>4, <1>5, <1>6

\* An archive has as many paths as entries when no path comes twice, and only then.
LEMMA PathsOnce ==
  ASSUME NEW tar \in Seq(TreeEntry)
  PROVE  /\ IsFiniteSet(DOMAIN T!Nodes(tar))
         /\ T!Cardinality(DOMAIN T!Nodes(tar)) = Len(tar)
              <=> \A i, j \in DOMAIN tar : tar[i].at = tar[j].at => i = j
<1> DEFINE D == DOMAIN T!Nodes(tar)  I == 1..Len(tar)  at == [i \in I |-> tar[i].at]
<1>1. D = {tar[i].at : i \in I} /\ DOMAIN tar = I
  <2>1. DOMAIN tar = I
    OBVIOUS
  <2>2. D = {tar[i].at : i \in DOMAIN tar}
    BY NodesFacts
  <2> QED
    BY <2>1, <2>2
<1>2. at \in Surjection(I, D)
  BY <1>1 DEF Surjection
<1>3. IsFiniteSet(I) /\ Cardinality(I) = Len(tar)
  <2>1. Len(tar) \in Nat
    OBVIOUS
  <2>2. \A n \in Nat : IsFiniteSet(1..n) /\ Cardinality(1..n) = n
    <3>1. \A n \in Nat : 1 \in Int /\ n \in Int /\ (IF 1 > n THEN 0 ELSE n - 1 + 1) = n
      OBVIOUS
    <3> QED
      BY <3>1, FS_Interval
  <2> QED
    BY <2>1, <2>2
<1>4. IsFiniteSet(D) /\ (Cardinality(D) = Cardinality(I) <=> at \in Injection(I, D))
  <2> HIDE DEF D, I, at
  <2>1. ASSUME NEW A, NEW B, NEW f \in Surjection(A, B), IsFiniteSet(A)
        PROVE  IsFiniteSet(B) /\ (Cardinality(B) = Cardinality(A) <=> f \in Injection(A, B))
    BY <2>1, FS_Surjection
  <2> QED
    BY <1>2, <1>3, <2>1
<1>5. at \in Injection(I, D) <=> \A i, j \in I : tar[i].at = tar[j].at => i = j
  BY <1>2 DEF Injection, IsInjective, Surjection
<1> QED
  BY <1>1, <1>3, <1>4, <1>5, SameCardinality

LEMMA RemoveAtFacts ==
  ASSUME NEW S, NEW s \in Seq(S), NEW k \in DOMAIN s
  PROVE  /\ T!RemoveAt(s, k) \in Seq(S)
         /\ \A i \in DOMAIN T!RemoveAt(s, k) : \E j \in DOMAIN s : T!RemoveAt(s, k)[i] = s[j]
<1> DEFINE l == SubSeq(s, 1, k - 1)  r == SubSeq(s, k + 1, Len(s))
<1>1. k \in 1..Len(s) /\ Len(s) \in Nat
  OBVIOUS
<1>2. /\ l \in Seq(S) /\ Len(l) = k - 1
      /\ \A i \in 1..(k - 1) : l[i] = s[i]
  BY <1>1, SubSeqProperties
<1>3. /\ r \in Seq(S) /\ Len(r) = Len(s) - k
      /\ \A i \in 1..(Len(s) - k) : r[i] = s[k + i]
  BY <1>1, SubSeqProperties
<1>4. T!RemoveAt(s, k) = l \o r
  BY DEF T!RemoveAt
<1> HIDE DEF l, r
<1>5. l \o r \in Seq(S) /\ Len(l \o r) = Len(s) - 1
  BY <1>1, <1>2, <1>3
<1>9. \A i \in 1..(Len(s) - 1) : (l \o r)[i] = IF i <= k - 1 THEN l[i] ELSE r[i - (k - 1)]
  <2>1. Len(l) + Len(r) = Len(s) - 1
    BY <1>1, <1>2, <1>3
  <2>2. \A i \in 1..(Len(l) + Len(r)) :
          (l \o r)[i] = IF i <= Len(l) THEN l[i] ELSE r[i - Len(l)]
    BY <1>2, <1>3, ConcatProperties, Zenon
  <2> QED
    BY <1>2, <2>1, <2>2
<1>6. ASSUME NEW i \in 1..(Len(s) - 1)
      PROVE  \E j \in DOMAIN s : (l \o r)[i] = s[j]
  <2>1. CASE i <= k - 1
    <3>1. i \in 1..(k - 1) /\ i \in DOMAIN s
      BY <1>1, <2>1
    <3> QED
      BY <1>2, <1>9, <2>1, <3>1
  <2>2. CASE i > k - 1
    <3>1. (l \o r)[i] = r[i - (k - 1)]
      <4>1. ~(i <= k - 1)
        BY <1>1, <2>2
      <4> QED
        BY <1>9, <4>1, Zenon
    <3>2. i - (k - 1) \in 1..(Len(s) - k) /\ i + 1 \in DOMAIN s
      BY <1>1, <2>2
    <3>3. r[i - (k - 1)] = s[k + (i - (k - 1))] /\ k + (i - (k - 1)) = i + 1
      BY <1>1, <1>3, <3>2
    <3> QED
      BY <3>1, <3>2, <3>3
  <2>3. i <= k - 1 \/ i > k - 1
    BY <1>1
  <2> QED
    BY <2>1, <2>2, <2>3
<1>7. DOMAIN (l \o r) = 1..(Len(s) - 1)
  BY <1>5
<1>8. \A i \in DOMAIN (l \o r) : \E j \in DOMAIN s : (l \o r)[i] = s[j]
  BY <1>6, <1>7
<1> QED
  BY <1>4, <1>5, <1>8, Zenon

LEMMA SourceFacts ==
  ASSUME T!TreesAssumption, NEW s \in Sources
  PROVE  /\ DOMAIN s \in SUBSET Path /\ s \in [DOMAIN s -> TreeNode]
         /\ \A x \in DOMAIN s : s[x] # None
         /\ \A x \in DOMAIN s : \A y \in Above[x] : y \in DOMAIN s /\ s[y] = T!Dir
<1>1. /\ DOMAIN s \in SUBSET Path /\ s \in [DOMAIN s -> T!Node]
      /\ \A x \in DOMAIN s : \A y \in Above[x] : y \in DOMAIN s /\ s[y] = T!Dir
  BY DEF T!TreesAssumption
<1>2. None \notin T!Node
  BY DEF T!TreesAssumption
<1>3. \A x \in DOMAIN s : s[x] \in TreeNode /\ s[x] # None
  BY <1>1, <1>2, NodeFacts
<1> QED
  BY <1>1, <1>3

LEMMA TreesInvAtFirst ==
  ASSUME T!TreesAssumption, T!TreesInit
  PROVE  TreesInv
<1>1. DOMAIN T!Nowhere = {} /\ T!Nowhere \in [DOMAIN T!Nowhere -> TreeNode]
  BY DEF T!Nowhere
<1>2. entries = T!Nowhere /\ changes = 0 /\ stage \in {"collect", "decode"}
  BY DEF T!TreesInit
<1>3. CASE composed = TRUE /\ source \in Sources /\ archive = <<>> /\ stage = "collect"
  <2>1. TreeTypes
    BY <1>1, <1>2, <1>3, SourceFacts DEF TreeTypes
  <2>2. Decoded /\ Undisturbed
    BY <1>3 DEF Decoded, Undisturbed
  <2> QED
    BY <1>3, <2>1, <2>2 DEF TreesInv, T!ComposedIsExtracted, T!ExtractedIsValidated
<1>4. CASE composed = FALSE /\ source = T!Nowhere /\ archive \in Foreign /\ stage = "decode"
  <2>1. archive \in Seq([at : Path, node : T!Node])
    BY <1>4 DEF T!TreesAssumption
  <2>2. [at : Path, node : T!Node] \subseteq TreeEntry
    BY NodeFacts DEF TreeEntry
  <2>3. archive \in Seq(TreeEntry)
    BY <2>1, <2>2, SeqMonotonic
  <2>4. TreeTypes
    BY <1>1, <1>2, <1>4, <2>3 DEF TreeTypes
  <2>5. Decoded /\ Undisturbed
    BY <1>4 DEF Decoded, Undisturbed
  <2> QED
    BY <1>4, <2>4, <2>5 DEF TreesInv, T!ComposedIsExtracted, T!ExtractedIsValidated
<1> QED
  BY <1>3, <1>4 DEF T!TreesInit

LEMMA CollectKeepsTrees ==
  ASSUME T!TreesAssumption, TreesInv, T!Collect
  PROVE  TreesInv'
<1>1. stage = "collect" /\ entries' = source /\ stage' \in {"pack", "refused"}
  BY DEF T!Collect, T!Judge
<1>2. stage' = "pack" <=> T!Collectable(source) /\ T!IsSeed(source)
  BY DEF T!Collect, T!Judge
<1>3. UNCHANGED <<policy, source, archive, written, composed, changes>>
  BY DEF T!Collect
<1>4. TreeTypes'
  BY <1>1, <1>3 DEF TreesInv, TreeTypes
<1>5. Decoded'
  BY <1>1 DEF Decoded
<1>6. /\ (T!Collectable(source) <=> T!Collectable(source)') /\ (T!IsSeed(source) <=> T!IsSeed(source)')
  BY <1>3 DEF T!Collectable, T!IsSeed, T!LinkStays
<1>7. Undisturbed'
  <2> SUFFICES ASSUME composed, changes = 0
               PROVE  Undisturbed'
    BY <1>3 DEF Undisturbed
  <2>1. source \in Sources /\ archive = <<>>
    BY <1>1 DEF TreesInv, Undisturbed
  <2>2. OfSource'
    BY <1>3, <2>1 DEF OfSource
  <2> QED
    BY <1>1, <1>2, <1>3, <1>6, <2>1, <2>2 DEF Undisturbed
<1>8. T!ComposedIsExtracted'
  BY <1>1, <1>2, <1>3, <1>6 DEF T!ComposedIsExtracted
<1>9. T!ExtractedIsValidated'
  BY <1>1 DEF T!ExtractedIsValidated
<1> QED
  BY <1>4, <1>5, <1>7, <1>8, <1>9 DEF TreesInv

\* A file that is opened again has the kind it had.
LEMMA ReadingFacts ==
  ASSUME T!TreesAssumption, TreeTypes, NEW x \in DOMAIN entries,
         T!Fills(T!Reading(x), x)
  PROVE  T!Cropped(T!Reading(x), x) \in TreeNode
<1> DEFINE n == T!Reading(x)
<1>1. entries[x] \in TreeNode /\ T!Length(entries[x]) \in Nat
  BY NodeFacts DEF TreeTypes
<1>2. n \in TreeNode
  BY <1>1 DEF TreeTypes, T!Reading, T!Fills, T!Files
<1> HIDE DEF n
<1>3. CASE n.kind = "file"
  <2>1. PICK c \in Reads : n = T!File(c)
    BY <1>2, <1>3, NodeFacts
  <2>2. n.content = c
    BY <2>1 DEF T!File
  <2>3. <<T!Length(entries[x]), c[2]>> \in Reads
    BY <1>1 DEF Reads
  <2> QED
    BY <1>3, <2>2, <2>3 DEF n, T!Cropped, TreeNode
<1>4. CASE n.kind # "file"
  BY <1>2, <1>4 DEF n, T!Cropped
<1> QED
  BY <1>3, <1>4

\* As long as nothing changes, what is packed is what was collected.
LEMMA ReadingOfSource ==
  ASSUME T!TreesAssumption, TreeTypes, source \in Sources, entries = source,
         NEW x \in DOMAIN source
  PROVE  T!Fills(T!Reading(x), x) /\ T!Cropped(T!Reading(x), x) = source[x]
<1>1. T!Reading(x) = source[x]
  BY DEF T!Reading, T!Files
<1>2. source[x] \in TreeNode /\ source[x] # None /\ T!Length(source[x]) \in Nat
  BY SourceFacts, NodeFacts
<1>3. T!Fills(T!Reading(x), x)
  BY <1>1, <1>2 DEF T!Fills
<1>4. CASE source[x].kind = "file"
  <2>1. PICK c \in Reads : source[x] = T!File(c)
    BY <1>2, <1>4, NodeFacts
  <2>2. source[x].content = c /\ c = <<c[1], c[2]>>
    BY <2>1 DEF T!File, Reads
  <2>3. T!Length(source[x]) = c[1]
    BY <1>4, <2>2 DEF T!Length
  <2> QED
    BY <1>1, <1>3, <1>4, <2>1, <2>2, <2>3 DEF T!Cropped
<1>5. CASE source[x].kind # "file"
  BY <1>1, <1>3, <1>5 DEF T!Cropped
<1> QED
  BY <1>3, <1>4, <1>5

LEMMA PackKeepsTrees ==
  ASSUME T!TreesAssumption, TreesInv, T!Pack
  PROVE  TreesInv'
<1>1. stage = "pack" /\ stage' \in {"pack", "refused"}
  BY DEF T!Pack, T!Judge
<1>2. UNCHANGED <<policy, source, entries, written, composed, changes>>
  BY DEF T!Pack
<1>3. PICK x \in DOMAIN entries \ T!Packed :
        /\ stage' = IF T!Fills(T!Reading(x), x) THEN "pack" ELSE "refused"
        /\ archive' = IF T!Fills(T!Reading(x), x)
                      THEN Append(archive, [at |-> x, node |-> T!Cropped(T!Reading(x), x)])
                      ELSE archive
  BY DEF T!Pack, T!Judge
<1> DEFINE e == [at |-> x, node |-> T!Cropped(T!Reading(x), x)]
<1>4. T!Fills(T!Reading(x), x) => e \in TreeEntry
  BY ReadingFacts DEF TreesInv, TreeTypes, TreeEntry
<1>5. archive \in Seq(TreeEntry) /\ archive' \in Seq(TreeEntry)
  BY <1>3, <1>4 DEF TreesInv, TreeTypes
<1>6. TreeTypes'
  BY <1>2, <1>5 DEF TreesInv, TreeTypes
<1>7. Decoded' /\ T!ExtractedIsValidated'
  BY <1>1 DEF Decoded, T!ExtractedIsValidated
<1>8. ASSUME composed, changes = 0
      PROVE  Undisturbed' /\ T!ComposedIsExtracted'
  <2>1. source \in Sources /\ entries = source /\ T!Collectable(source) /\ T!IsSeed(source) /\ OfSource
    BY <1>1, <1>8 DEF TreesInv, Undisturbed
  <2>2. T!Fills(T!Reading(x), x) /\ e.node = source[x] /\ e.at = x /\ x \in DOMAIN source
    BY <2>1, ReadingOfSource DEF TreesInv
  <2>3. stage' = "pack" /\ archive' = Append(archive, e)
    BY <1>3, <2>2
  <2>4. \A i \in DOMAIN archive : archive[i].at # x
    BY <1>3 DEF T!Packed
  <2>5. OfSource'
    <3> HIDE DEF e
    <3>1. /\ Len(archive) \in Nat /\ DOMAIN archive = 1..Len(archive)
          /\ DOMAIN archive' = 1..(Len(archive) + 1)
          /\ \A i \in 1..Len(archive) : archive'[i] = archive[i]
          /\ archive'[Len(archive) + 1] = e
      BY <1>5, <2>3
    <3>2. \A i \in DOMAIN archive' : i \in DOMAIN archive \/ i = Len(archive) + 1
      BY <3>1
    <3>3. /\ \A i \in DOMAIN archive : archive'[i] = archive[i]
          /\ Len(archive) + 1 \notin DOMAIN archive
      BY <3>1
    <3>4. \A i \in DOMAIN archive' : /\ archive'[i].at \in DOMAIN source
                                     /\ archive'[i].node = source[archive'[i].at]
      BY <2>1, <2>2, <3>1, <3>2, <3>3 DEF OfSource
    <3>5. \A i, j \in DOMAIN archive' : archive'[i].at = archive'[j].at => i = j
      BY <2>1, <2>2, <2>4, <3>1, <3>2, <3>3 DEF OfSource
    <3> QED
      BY <1>2, <3>4, <3>5 DEF OfSource
  <2>6. T!Collectable(source)' /\ T!IsSeed(source)'
    BY <1>2, <2>1 DEF T!Collectable, T!IsSeed, T!LinkStays
  <2> QED
    BY <1>2, <2>1, <2>3, <2>5, <2>6 DEF Undisturbed, T!ComposedIsExtracted
<1>9. Undisturbed' /\ T!ComposedIsExtracted'
  BY <1>2, <1>8 DEF Undisturbed, T!ComposedIsExtracted
<1> QED
  BY <1>6, <1>7, <1>9 DEF TreesInv

LEMMA CloseKeepsTrees ==
  ASSUME T!TreesAssumption, TreesInv, T!Close
  PROVE  TreesInv'
<1>1. stage = "pack" /\ stage' = "decode" /\ T!Packed = DOMAIN entries
  BY DEF T!Close
<1>2. UNCHANGED <<policy, source, entries, archive, written, composed, changes>>
  BY DEF T!Close
<1>3. TreeTypes'
  BY <1>2 DEF TreesInv, TreeTypes
<1>4. Decoded' /\ T!ExtractedIsValidated' /\ T!ComposedIsExtracted'
  BY <1>1 DEF Decoded, T!ExtractedIsValidated, T!ComposedIsExtracted
<1>5. Undisturbed'
  <2> SUFFICES ASSUME composed, changes = 0
               PROVE  Undisturbed'
    BY <1>2 DEF Undisturbed
  <2>1. source \in Sources /\ entries = source /\ T!Collectable(source) /\ T!IsSeed(source) /\ OfSource
    BY <1>1 DEF TreesInv, Undisturbed
  <2>2. T!Collectable(source)' /\ T!IsSeed(source)' /\ OfSource' /\ T!Packed' = T!Packed
    BY <1>2, <2>1 DEF T!Collectable, T!IsSeed, T!LinkStays, OfSource, T!Packed
  <2> QED
    BY <1>1, <1>2, <2>1, <2>2 DEF Undisturbed
<1> QED
  BY <1>3, <1>4, <1>5 DEF TreesInv

\* What is decoded of the archive of a source is the source.
LEMMA NodesOfSource ==
  ASSUME T!TreesAssumption, TreeTypes, source \in Sources, OfSource, T!Packed = DOMAIN source
  PROVE  T!Nodes(archive) = source
<1>1. DOMAIN T!Nodes(archive) = DOMAIN source
  BY NodesFacts DEF TreeTypes, T!Packed
<1>2. \A x \in DOMAIN source : T!Nodes(archive)[x] = source[x]
  <2> SUFFICES ASSUME NEW x \in DOMAIN source
               PROVE  T!Nodes(archive)[x] = source[x]
    OBVIOUS
  <2>1. archive \in Seq(TreeEntry)
    BY DEF TreeTypes
  <2>2. PICK i \in DOMAIN archive : archive[i].at = x /\ T!Nodes(archive)[x] = archive[i].node
    BY <1>1, <2>1, NodesFacts
  <2> QED
    BY <2>2 DEF OfSource
<1>3. T!Nodes(archive) \in [DOMAIN T!Nodes(archive) -> TreeNode] /\ source \in [DOMAIN source -> TreeNode]
  BY NodesFacts DEF TreeTypes
<1> QED
  BY <1>1, <1>2, <1>3

LEMMA SourceIsDecodable ==
  ASSUME T!TreesAssumption, TreeTypes, source \in Sources, OfSource, T!Packed = DOMAIN source,
         T!Collectable(source)
  PROVE  T!Decodable(archive)
<1>1. T!Nodes(archive) = source
  BY NodesOfSource
<1>2. T!Cardinality(DOMAIN source) = Len(archive)
  BY <1>1, PathsOnce DEF OfSource, TreeTypes
<1>3. \A x \in DOMAIN source :
        /\ T!PathAllowed(x) /\ source[x] # T!Odd /\ T!LinkAllowed(source[x])
        /\ \A y \in Above[x] \cap DOMAIN source : source[y] = T!Dir
  BY SourceFacts DEF T!Collectable, T!PathAllowed, T!LinkAllowed, T!LinkStays
<1> QED
  BY <1>1, <1>2, <1>3 DEF T!Decodable, T!Collectable

LEMMA DecodeKeepsTrees ==
  ASSUME T!TreesAssumption, TreesInv, T!Decode
  PROVE  TreesInv'
<1> DEFINE sound == T!Decodable(archive) /\ T!IsSeed(T!Nodes(archive))
<1>1. /\ stage = "decode" /\ stage' = IF sound THEN "write" ELSE "refused"
      /\ entries' = IF sound THEN T!Nodes(archive) ELSE T!Nowhere
  BY DEF T!Decode, T!Judge
<1>2. UNCHANGED <<policy, source, archive, written, composed, changes>>
  BY DEF T!Decode
<1> HIDE DEF sound
<1>3. TreeTypes
  BY DEF TreesInv
<1>4. archive \in Seq(TreeEntry)
  BY <1>3 DEF TreeTypes
<1>5. TreeTypes'
  <2>1. DOMAIN T!Nowhere = {} /\ T!Nowhere \in [DOMAIN T!Nowhere -> TreeNode]
    BY DEF T!Nowhere
  <2>2. DOMAIN entries' \in SUBSET Path /\ entries' \in [DOMAIN entries' -> TreeNode]
    BY <1>1, <1>4, <2>1, NodesFacts
  <2> QED
    BY <1>2, <1>3, <2>2 DEF TreeTypes
<1>6. Decoded'
  <2> SUFFICES ASSUME sound
               PROVE  Decoded'
    BY <1>1 DEF Decoded
  <2>1. entries' = T!Nodes(archive) /\ T!Decodable(archive)
    BY <1>1 DEF sound
  <2>2. /\ \A x \in DOMAIN entries' : /\ T!LinkAllowed(entries'[x])
                                      /\ \A y \in Above[x] \cap DOMAIN entries' : entries'[y] = T!Dir
        /\ T!Total(entries') <= MaxTotal
        /\ T!Cardinality(DOMAIN T!Nodes(archive)) = Len(archive)
    BY <2>1 DEF T!Decodable
  <2>3. \A i, j \in DOMAIN archive : archive[i].at = archive[j].at => i = j
    BY <1>4, <2>2, PathsOnce
  <2>4. \A i \in DOMAIN archive :
          archive[i].at \in DOMAIN entries' /\ archive[i].node = entries'[archive[i].at]
    <3> SUFFICES ASSUME NEW i \in DOMAIN archive
                 PROVE  archive[i].at \in DOMAIN entries' /\ archive[i].node = entries'[archive[i].at]
      OBVIOUS
    <3>1. archive[i].at \in DOMAIN entries'
      <4>1. DOMAIN T!Nodes(archive) = {archive[k].at : k \in DOMAIN archive}
        BY <1>4, NodesFacts
      <4> QED
        BY <2>1, <4>1
    <3>2. PICK j \in DOMAIN archive :
            archive[j].at = archive[i].at /\ entries'[archive[i].at] = archive[j].node
      BY <1>4, <2>1, <3>1, NodesFacts
    <3> QED
      BY <2>3, <3>1, <3>2
  <2>5. \A n : T!LinkAllowed(n) => T!LinkAllowed(n)'
    BY <1>2 DEF T!LinkAllowed
  <2>6. (T!Total(entries) <= MaxTotal)'
    BY <2>2 DEF T!Total, T!Lengths, T!Files, T!Length
  <2>7. (\A x \in DOMAIN entries : T!LinkAllowed(entries[x]))'
    BY <1>2, <2>2 DEF T!LinkAllowed
  <2> QED
    BY <1>2, <2>2, <2>4, <2>6, <2>7 DEF Decoded
<1>7. ASSUME composed, changes = 0
      PROVE  Undisturbed' /\ T!ComposedIsExtracted'
  <2>1. /\ source \in Sources /\ T!Collectable(source) /\ T!IsSeed(source) /\ OfSource
        /\ T!Packed = DOMAIN source
    BY <1>1, <1>7 DEF TreesInv, Undisturbed
  <2>2. T!Nodes(archive) = source /\ T!Decodable(archive)
    BY <1>3, <2>1, NodesOfSource, SourceIsDecodable
  <2>3. stage' = "write" /\ entries' = source
    BY <1>1, <2>1, <2>2 DEF sound
  <2>4. T!Collectable(source)' /\ T!IsSeed(source)' /\ OfSource' /\ T!Packed' = T!Packed
    BY <1>2, <2>1 DEF T!Collectable, T!IsSeed, T!LinkStays, OfSource, T!Packed
  <2> QED
    BY <1>2, <2>1, <2>3, <2>4 DEF Undisturbed, T!ComposedIsExtracted
<1>8. Undisturbed' /\ T!ComposedIsExtracted'
  BY <1>2, <1>7 DEF Undisturbed, T!ComposedIsExtracted
<1>9. T!ExtractedIsValidated'
  BY <1>1 DEF T!ExtractedIsValidated
<1> QED
  BY <1>5, <1>6, <1>8, <1>9 DEF TreesInv

\* What is extracted holds what was decoded, in directories.
LEMMA ExtractedFacts ==
  ASSUME T!TreesAssumption, TreeTypes, Decoded, stage = "write", T!Streamed => T!Delivers
  PROVE  LET out == T!Extracted
         IN /\ DOMAIN out = DOMAIN entries \cup UNION {Above[y] : y \in DOMAIN entries}
            /\ \A x \in DOMAIN entries : /\ out[x].kind = entries[x].kind
                                         /\ out[x].to = entries[x].to
                                         /\ T!Length(out[x]) = T!Length(entries[x])
                                         /\ entries[x].kind # "file" => out[x] = entries[x]
            /\ \A x \in DOMAIN out \ DOMAIN entries : out[x] = T!Dir
<1> DEFINE out == T!Extracted
           D == DOMAIN entries \cup UNION {Above[y] : y \in DOMAIN entries}
<1>1. out = [x \in D |-> IF x \notin DOMAIN entries THEN T!Dir
                         ELSE IF T!Streamed /\ x \in T!Files(entries) THEN T!Nodes(archive)[x]
                         ELSE entries[x]]
  BY DEF T!Extracted
<1>2. DOMAIN out = D /\ \A x \in D \ DOMAIN entries : out[x] = T!Dir
  BY <1>1
<1>3. \A x \in DOMAIN entries : entries[x].kind # "file" => out[x] = entries[x]
  BY <1>1 DEF T!Files
<1>4. \A x \in DOMAIN entries : ~T!Streamed => out[x] = entries[x]
  BY <1>1
<1>5. ASSUME T!Streamed, NEW x \in T!Files(entries)
      PROVE  /\ out[x].kind = entries[x].kind /\ out[x].to = entries[x].to
             /\ T!Length(out[x]) = T!Length(entries[x])
  <2>1. T!Delivers /\ x \in DOMAIN entries /\ entries[x].kind = "file"
    BY <1>5 DEF T!Files
  <2>2. out[x] = T!Nodes(archive)[x]
    BY <1>1, <1>5, <2>1
  <2>3. \E i \in T!Again : archive[i].at = x
    BY <2>1 DEF T!Delivers
  <2>4. x \in DOMAIN T!Nodes(archive)
    <3>1. DOMAIN T!Nodes(archive) = {archive[k].at : k \in DOMAIN archive}
      BY NodesFacts DEF TreeTypes
    <3> QED
      BY <2>3, <3>1 DEF T!Again
  <2>5. PICK i \in DOMAIN archive : archive[i].at = x /\ T!Nodes(archive)[x] = archive[i].node
    BY <2>4, NodesFacts DEF TreeTypes
  <2>6. archive[i].node.kind = "file"
    BY <2>1, <2>5 DEF Decoded
  <2>7. T!Length(archive[i].node) = T!Length(entries[x])
    BY <2>1, <2>5, <2>6 DEF T!Again, T!Delivers
  <2>8. archive[i].node \in TreeNode /\ entries[x] \in TreeNode
    <3>1. archive[i] \in TreeEntry
      BY <2>5 DEF TreeTypes
    <3> QED
      BY <2>1, <3>1 DEF TreeTypes, TreeEntry
  <2>9. archive[i].node.to = None /\ entries[x].to = None
    BY <2>1, <2>6, <2>8, NodeFacts
  <2> QED
    BY <2>1, <2>2, <2>5, <2>6, <2>7, <2>9
<1> HIDE DEF out
<1>6. \A x \in DOMAIN entries : /\ out[x].kind = entries[x].kind
                                /\ out[x].to = entries[x].to
                                /\ T!Length(out[x]) = T!Length(entries[x])
  <2> SUFFICES ASSUME NEW x \in DOMAIN entries
               PROVE  /\ out[x].kind = entries[x].kind
                      /\ out[x].to = entries[x].to
                      /\ T!Length(out[x]) = T!Length(entries[x])
    OBVIOUS
  <2>1. CASE T!Streamed /\ entries[x].kind = "file"
    <3>1. x \in T!Files(entries)
      BY <2>1 DEF T!Files
    <3> QED
      BY <1>5, <2>1, <3>1
  <2>2. CASE out[x] = entries[x]
    BY <2>2
  <2> QED
    BY <1>3, <1>4, <2>1, <2>2
<1> QED
  BY <1>2, <1>3, <1>6 DEF out

\* So it is as large.
LEMMA ExtractedTotal ==
  ASSUME T!TreesAssumption, TreeTypes, Decoded, stage = "write", T!Streamed => T!Delivers
  PROVE  T!Total(T!Extracted) = T!Total(entries)
<1> DEFINE out == T!Extracted
<1>1. /\ DOMAIN entries \subseteq DOMAIN out
      /\ \A x \in DOMAIN entries : out[x].kind = entries[x].kind
      /\ \A x \in DOMAIN entries : T!Length(out[x]) = T!Length(entries[x])
      /\ \A x \in DOMAIN out \ DOMAIN entries : out[x] = T!Dir
  BY ExtractedFacts
<1> HIDE DEF out
<1>2. T!Files(out) = T!Files(entries)
  BY <1>1 DEF T!Files, T!Dir
<1>3. \A x \in T!Files(entries) : T!Length(out[x]) = T!Length(entries[x])
  BY <1>1 DEF T!Files
<1>4. T!Lengths(out) = T!Lengths(entries)
  BY <1>2, <1>3 DEF T!Lengths
<1> QED
  BY <1>4 DEF T!Total, out

LEMMA WriteKeepsTrees ==
  ASSUME T!TreesAssumption, TreesInv, T!Write
  PROVE  TreesInv'
<1> DEFINE whole == T!Streamed => T!Delivers
<1>1. /\ stage = "write" /\ stage' = IF whole THEN "done" ELSE "refused"
      /\ written' = IF whole THEN T!Extracted ELSE T!Nowhere
  BY DEF T!Write, T!Judge
<1>2. UNCHANGED <<policy, source, entries, archive, composed, changes>>
  BY DEF T!Write
<1>3. TreeTypes /\ TreeTypes'
  BY <1>2 DEF TreesInv, TreeTypes
<1>4. Decoded /\ Decoded'
  BY <1>1 DEF TreesInv, Decoded
<1>5. ASSUME composed, changes = 0
      PROVE  Undisturbed' /\ T!ComposedIsExtracted'
  <2>1. /\ source \in Sources /\ OfSource /\ T!Packed = DOMAIN source /\ entries = source
    BY <1>1, <1>5 DEF TreesInv, Undisturbed
  <2>2. T!Nodes(archive) = source
    BY <1>3, <2>1, NodesOfSource
  <2>3. T!Delivers
    <3>1. \A i \in T!Again : /\ archive[i].at \in T!Files(entries)
                             /\ T!Length(archive[i].node) = T!Length(entries[archive[i].at])
      BY <2>1 DEF T!Again, T!Files, OfSource
    <3>2. {archive[i].at : i \in T!Again} = T!Files(entries)
      <4>1. \A x \in T!Files(entries) : \E i \in DOMAIN archive : archive[i].at = x
        BY <2>1 DEF T!Packed, T!Files
      <4>2. \A x \in T!Files(entries) : \E i \in T!Again : archive[i].at = x
        BY <2>1, <4>1 DEF T!Again, T!Files, OfSource
      <4> QED
        BY <3>1, <4>2
    <3> QED
      BY <2>1, <3>1, <3>2 DEF T!Delivers, T!Again, OfSource
  <2>4. T!Extracted = source
    <3>1. DOMAIN source \cup UNION {Above[y] : y \in DOMAIN source} = DOMAIN source
      BY <2>1, SourceFacts
    <3>2. T!Extracted = [x \in DOMAIN source |-> source[x]]
      BY <2>1, <2>2, <3>1 DEF T!Extracted
    <3> QED
      BY <1>3, <3>2 DEF TreeTypes
  <2>5. stage' = "done" /\ written' = source
    BY <1>1, <2>3, <2>4
  <2> QED
    BY <1>2, <2>1, <2>5 DEF Undisturbed, T!ComposedIsExtracted
<1>6. Undisturbed' /\ T!ComposedIsExtracted'
  BY <1>2, <1>5 DEF Undisturbed, T!ComposedIsExtracted
<1>7. T!ExtractedIsValidated'
  <2> SUFFICES ASSUME whole
               PROVE  T!ExtractedIsValidated'
    BY <1>1 DEF T!ExtractedIsValidated
  <2> DEFINE out == T!Extracted
             D == DOMAIN entries \cup UNION {Above[y] : y \in DOMAIN entries}
  <2>1. written' = out
    BY <1>1
  <2>2. /\ DOMAIN out = D
        /\ \A x \in DOMAIN entries : /\ out[x].kind = entries[x].kind
                                     /\ out[x].to = entries[x].to
                                     /\ T!Length(out[x]) = T!Length(entries[x])
                                     /\ entries[x].kind # "file" => out[x] = entries[x]
        /\ \A x \in D \ DOMAIN entries : out[x] = T!Dir
    BY <1>1, <1>3, <1>4, ExtractedFacts
  <2>3. T!Total(out) <= MaxTotal
    BY <1>1, <1>3, <1>4, ExtractedTotal DEF Decoded
  <2> HIDE DEF out
  <2>4. ASSUME NEW x \in D, NEW y \in Above[x]
        PROVE  y \in D /\ out[y] = T!Dir
    <3>1. PICK z \in DOMAIN entries : x = z \/ x \in Above[z]
      OBVIOUS
    <3>2. z \in Path /\ x \in Path /\ y \in Above[z]
      BY <3>1 DEF T!TreesAssumption, TreesInv, TreeTypes
    <3>3. CASE y \in DOMAIN entries
      <4>1. entries[y] = T!Dir
        BY <1>1, <1>4, <3>2, <3>3 DEF Decoded
      <4> QED
        BY <2>2, <3>3, <4>1 DEF T!Dir
    <3> QED
      BY <2>2, <3>2, <3>3
  <2>5. ASSUME NEW x \in D, out[x].kind = "link"
        PROVE  out[x].to \in Administrative
    <3>1. CASE x \in DOMAIN entries
      <4>1. entries[x].kind = "link" /\ out[x] = entries[x]
        BY <2>2, <2>5, <3>1
      <4>2. T!LinkAllowed(entries[x])
        BY <1>1, <1>4, <3>1 DEF Decoded
      <4> QED
        BY <4>1, <4>2 DEF T!LinkAllowed
    <3>2. CASE x \notin DOMAIN entries
      BY <2>2, <2>5, <3>2 DEF T!Dir
    <3> QED
      BY <3>1, <3>2
  <2>6. (\A x \in DOMAIN entries : /\ written[x].kind = entries[x].kind
                                   /\ written[x].to = entries[x].to
                                   /\ T!Length(written[x]) = T!Length(entries[x]))'
    BY <1>2, <2>1, <2>2 DEF T!Length
  <2>7. (T!Total(written) <= MaxTotal)'
    BY <2>1, <2>3 DEF T!Total, T!Lengths, T!Files, T!Length
  <2> QED
    BY <1>2, <2>1, <2>2, <2>4, <2>5, <2>6, <2>7 DEF T!ExtractedIsValidated
<1> QED
  BY <1>3, <1>4, <1>6, <1>7 DEF TreesInv

LEMMA ChangesKeepTrees ==
  ASSUME T!TreesAssumption, TreesInv, T!ChangeSource \/ T!ChangeArchive
  PROVE  TreesInv'
<1>1. changes' \in Nat /\ changes' # 0 /\ stage' = stage /\ stage \in {"pack", "write"}
  BY DEF TreesInv, TreeTypes, T!ChangeSource, T!ChangeArchive
<1>2. UNCHANGED <<policy, entries, written, composed>>
  BY DEF T!ChangeSource, T!ChangeArchive
<1>3. Undisturbed' /\ T!ComposedIsExtracted' /\ T!ExtractedIsValidated'
  BY <1>1 DEF Undisturbed, T!ComposedIsExtracted, T!ExtractedIsValidated
<1>4. \A c \in Content : T!File(c) \in TreeNode
  BY DEF T!TreesAssumption, TreeNode, Reads
<1>5. CASE T!ChangeSource
  <2>1. PICK x \in T!Files(source), c \in Content : source' = [source EXCEPT ![x] = T!File(c)]
    BY <1>5 DEF T!ChangeSource
  <2>2. DOMAIN source' = DOMAIN source /\ source' \in [DOMAIN source' -> TreeNode]
    BY <1>4, <2>1 DEF TreesInv, TreeTypes
  <2>3. archive' = archive /\ stage = "pack"
    BY <1>5 DEF T!ChangeSource
  <2>4. TreeTypes'
    BY <1>1, <1>2, <2>2, <2>3 DEF TreesInv, TreeTypes
  <2>5. Decoded'
    BY <1>1, <2>3 DEF Decoded
  <2> QED
    BY <1>3, <2>4, <2>5 DEF TreesInv
<1>6. CASE T!ChangeArchive
  <2>1. PICK i \in DOMAIN archive, e \in {[at |-> x, node |-> T!File(c)] : x \in Path, c \in Content} :
          archive' \in {[archive EXCEPT ![i] = e], T!RemoveAt(archive, i), Append(archive, e)}
    BY <1>6 DEF T!ChangeArchive
  <2>2. e \in TreeEntry /\ e.node.kind = "file"
    BY <1>4 DEF TreeEntry, T!File
  <2>3. archive \in Seq(TreeEntry)
    BY DEF TreesInv, TreeTypes
  <2>4. /\ archive' \in Seq(TreeEntry)
        /\ \A k \in DOMAIN archive' : archive'[k] = e \/ \E j \in DOMAIN archive : archive'[k] = archive[j]
    <3>1. CASE archive' = [archive EXCEPT ![i] = e]
      BY <2>2, <2>3, <3>1
    <3>2. CASE archive' = T!RemoveAt(archive, i)
      BY <2>3, <3>2, RemoveAtFacts
    <3>3. CASE archive' = Append(archive, e)
      BY <2>2, <2>3, <3>3
    <3> QED
      BY <2>1, <3>1, <3>2, <3>3
  <2>5. TreeTypes'
    BY <1>1, <1>2, <1>6, <2>4 DEF TreesInv, TreeTypes, T!ChangeArchive
  <2>6. \A k \in DOMAIN archive' :
          \/ archive'[k].node.kind = "file"
          \/ archive'[k].at \in DOMAIN entries /\ archive'[k].node = entries[archive'[k].at]
    BY <1>1, <1>6, <2>2, <2>4 DEF TreesInv, Decoded, T!ChangeArchive
  <2>7. stage = "write"
    BY <1>6 DEF T!ChangeArchive
  <2>8. Decoded'
    BY <1>1, <1>2, <2>6, <2>7 DEF TreesInv, Decoded, T!LinkAllowed, T!Total, T!Lengths, T!Files, T!Length
  <2> QED
    BY <1>3, <2>5, <2>8 DEF TreesInv
<1> QED
  BY <1>5, <1>6

LEMMA TreesInvKept ==
  ASSUME T!TreesAssumption, TreesInv, [T!TreesNext]_<<ofTrees, changes>>
  PROVE  TreesInv'
<1>1. CASE T!TreesNext
  BY <1>1, CollectKeepsTrees, PackKeepsTrees, CloseKeepsTrees, DecodeKeepsTrees, WriteKeepsTrees,
     ChangesKeepTrees DEF T!TreesNext, T!TreesStep
<1>2. CASE UNCHANGED <<ofTrees, changes>>
  <2>1. UNCHANGED <<policy, source, stage, entries, archive, written, composed, changes>>
    BY <1>2 DEF ofTrees
  <2>2. TreeTypes'
    BY <2>1 DEF TreesInv, TreeTypes
  <2>3. Decoded'
    BY <2>1 DEF TreesInv, Decoded, T!LinkAllowed, T!Total, T!Lengths, T!Files, T!Length
  <2>4. Undisturbed'
    BY <2>1 DEF TreesInv, Undisturbed, OfSource, T!Packed, T!Collectable, T!IsSeed, T!LinkStays
  <2>5. T!ComposedIsExtracted'
    BY <2>1 DEF TreesInv, T!ComposedIsExtracted, T!Collectable, T!IsSeed, T!LinkStays
  <2>6. T!ExtractedIsValidated'
    BY <2>1 DEF TreesInv, T!ExtractedIsValidated, T!Total, T!Lengths, T!Files, T!Length
  <2> QED
    BY <2>2, <2>3, <2>4, <2>5, <2>6 DEF TreesInv
<1> QED
  BY <1>1, <1>2

-----------------------------------------------------------------------------
(* The medium.                                                              *)

AskPc == {"load", "compare", "read", "reserve", "measure", "extract", "failed", "done"}
WorkPc ==
  {"failed", "mark", "scaffold", "snapshot", "forget", "pool", "borrow", "check", "again", "reset",
   "seed", "rectify", "verify", "overlay", "verify2", "expire", "last", "persist", "manifest",
   "commit", "done"}
AskRun == [pc : AskPc, tool : Tool, resume : BOOLEAN, check : BOOLEAN]
WorkRun == [pc : WorkPc, p : M!Profile, tool : Tool, resume : BOOLEAN, check : {FALSE}]

TargetFields(t) ==
  [mark : [M!Mark -> {None, Torn} \cup M!Profile], manifest : {t.manifest}, tree : {t.tree},
   pool : {t.pool}, world : {t.world}, overlay : {t.overlay}, by : {t.by},
   authority : [M!Leaf -> {t.authority[l] : l \in M!Leaf}], exec : [M!Executor -> Tool \cup {None}]]
DiscFields(d) == [lock : {d.lock}, named : {d.named}, boot : {d.boot}, has : {d.has}]
SnapFields(s) == [lock : {s.lock}, boot : {s.boot}, has : {s.has}]
EfiFields(f) == [lock : {f.lock}, boot : {f.boot}, of : {"run", "dead", "system", "another"}]

FromMedium(lock, boot) == \E m \in Medium0 : m.lock = lock /\ m.boot = boot

MediumTypes ==
  /\ target \in TargetFields(target)
  /\ run = M!Idle \/ run \in AskRun \/ run \in WorkRun
  /\ disc \in DiscFields(disc) /\ FromMedium(disc.lock, disc.named)
  /\ efi = M!Nothing \/ efi \in EfiFields(efi)

\* What a run has read is of one medium, and what it installs is that.
OfDisc ==
  /\ run \in AskRun /\ run.pc \in {"compare", "read", "reserve", "measure", "extract", "done"} =>
       snap \in SnapFields(snap) /\ FromMedium(snap.lock, snap.boot)
  /\ run \in WorkRun =>
       snap \in SnapFields(snap) /\ FromMedium(snap.lock, snap.boot) /\ run.p = snap.lock

\* Nothing is written before a check has passed, and no check after.
Checking ==
  /\ run \in AskRun => (run.check <=> checked = M!Nothing)
  /\ run \in AskRun /\ run.pc = "done" => run.check
  /\ run \in AskRun /\ run.pc \in {"reserve", "measure", "extract"} => ~run.check
  /\ run \in WorkRun => checked # M!Nothing
  /\ efi # M!Nothing /\ efi.of \in {"run", "system"} => checked # M!Nothing

\* Past the reservation, the image is the run's or somebody's who put it there.
Reserving ==
  /\ \/ run \in AskRun /\ run.pc \in {"measure", "extract"}
     \/ run \in WorkRun /\ run.pc # "failed"
     => efi # M!Nothing /\ efi.of \in {"another", "run"} /\ (efi.of = "run" => efi.boot = snap.boot)
  /\ efi # M!Nothing /\ efi.of = "system" => FromMedium(target.mark["committed"], efi.boot)

\* What a target of a profile may hold.
Pieces(t, p) ==
  /\ t.tree \in {None, Torn, p["tree"]} /\ t.world \in {None, Torn, p["world"]}
  /\ t.overlay \in {None, Torn, p["overlay"]} /\ t.pool \in {None, p["cache"]}
Sought(p) == IF p["seed"] = None THEN {None} ELSE {<<"seed", p["seed"]>>, <<"fresh">>}
Channels(t, p) ==
  p["cache"] = None => \A l \in M!Leaf : t.authority[l] \in {None} \cup Sought(p)

Targeted ==
  /\ \A k \in M!Mark : target.mark[k] \in {None, Torn} \cup {m.lock : m \in Medium0}
  /\ (\A k \in M!Mark : target.mark[k] = None) => target = M!Blank
  /\ \A k \in M!Mark : target.mark[k] \notin {None, Torn} =>
       Pieces(target, target.mark[k]) /\ Channels(target, target.mark[k])

\* How far a run has come.
Past(pcs) == run \in WorkRun /\ run.pc \in pcs
PastMark == WorkPc \ {"mark", "failed"}
Halfway == {"verify", "overlay", "verify2", "expire", "last", "persist", "manifest", "commit", "done"}

OfOneLock ==
  /\ Past({"mark"}) => \/ target = M!Blank
                       \/ target = [M!Blank EXCEPT !.mark["early"] = Torn]
  /\ Past(PastMark) => /\ \E k \in M!Mark : target.mark[k] # None
                      /\ \A k \in M!Mark : target.mark[k] \in {None, run.p}
  /\ Past(PastMark \ {"scaffold"}) => target.mark["early"] = None
  /\ Past({"done"}) => target.mark["committed"] = run.p
InPlace ==
  /\ Past(PastMark \ {"scaffold", "snapshot"}) => target.tree = run.p["tree"]
  /\ Past(Halfway) => target.world = run.p["world"]
  /\ Past(Halfway \ {"verify", "overlay"}) => target.overlay = run.p["overlay"]
  /\ Past({"forget", "pool", "borrow", "check", "expire", "last"}) => run.p["cache"] # None
Authorised ==
  \/ Past({"persist", "manifest", "commit", "done"})
  \/ Past(Halfway \cup {"rectify"}) /\ run.p["cache"] = None
  => \A l \in M!Leaf : target.authority[l] \in Sought(run.p)
Signed ==
  /\ Past({"manifest", "commit", "done"}) => \A x \in M!Executor : target.exec[x] = run.tool
  /\ Past({"commit", "done"}) => target.manifest = M!Manifest(run)
Advanced == OfOneLock /\ InPlace /\ Authorised /\ Signed

MediumInv == MediumTypes /\ OfDisc /\ Checking /\ Reserving /\ Targeted /\ Advanced

\* A run that reads and a run that installs are told apart, and neither is idle.
LEMMA Apart ==
  /\ \A r \in WorkRun : r.pc \in WorkPc /\ r \notin AskRun /\ r # M!Idle
  /\ \A r \in AskRun : r.pc \in AskPc /\ r \notin WorkRun /\ r # M!Idle
  /\ M!Idle \notin AskRun /\ M!Idle \notin WorkRun /\ M!Idle.pc = "idle"
<1>1. \A r \in WorkRun : r.pc \in WorkPc /\ DOMAIN r = {"pc", "p", "tool", "resume", "check"}
      BY DEF WorkRun
<1>2. \A r \in AskRun : r.pc \in AskPc /\ DOMAIN r = {"pc", "tool", "resume", "check"}
      BY DEF AskRun
<1>3. DOMAIN M!Idle = {"pc"} /\ M!Idle.pc = "idle"
      BY DEF M!Idle
<1>4. /\ {"pc", "p", "tool", "resume", "check"} # {"pc", "tool", "resume", "check"}
      /\ {"pc"} # {"pc", "tool", "resume", "check"}
      /\ {"pc"} # {"pc", "p", "tool", "resume", "check"}
      OBVIOUS
<1> QED BY <1>1, <1>2, <1>3, <1>4

\* What the assumptions say of a medium and of the builds.
LEMMA FitMedium ==
  ASSUME NEW m \in Medium0
  PROVE  /\ m.lock \in M!Profile /\ m.lock # None /\ m.lock # Torn /\ m.boot \in Image
         /\ m.lock["world"] \in Version
BY InstallerIsFit DEF M!MediumAssumption, M!InstallerAssumption

LEMMA FitTool == None # Torn /\ None \notin Tool /\ Torn \notin Tool
                 /\ None \notin [profile : M!Profile, tool : Tool]
                 /\ None \notin Version /\ Torn \notin Version
                 /\ Packaged \in [Version -> Tool \cup {None}]
BY InstallerIsFit DEF M!MediumAssumption, M!InstallerAssumption

\* Nothing is installed and nothing was read at first.
LEMMA FirstMedium == M!MediumInit => MediumInv
<1> SUFFICES ASSUME M!MediumInit PROVE MediumInv
    OBVIOUS
<1>1. MediumTypes
      BY FitMedium DEF M!MediumInit, M!InstallerInit, MediumTypes, M!Blank, M!Idle, TargetFields,
         DiscFields, FromMedium, M!Composed, M!Nothing, M!Mark, M!Leaf, M!Executor
<1>2. run \notin AskRun /\ run \notin WorkRun
      BY DEF M!MediumInit, M!InstallerInit, M!Idle, AskRun, WorkRun, AskPc, WorkPc
<1>3. Targeted
      BY FitTool DEF M!MediumInit, M!InstallerInit, Targeted, M!Blank, M!Mark
<1> QED BY <1>1, <1>2, <1>3 DEF MediumInv, OfDisc, Checking, Reserving, Advanced, OfOneLock,
   InPlace, Authorised, Signed, Past, M!MediumInit

\* A step of an installation under way, over the medium it read.
Under ==
  /\ MediumInv /\ run \in WorkRun /\ run.pc # "failed" /\ UNCHANGED <<disc, snap, efi, checked>>
  /\ run' \in WorkRun /\ run'.p = run.p

\* What was read, what was checked and the image stay what they were under such a step.
LEMMA Undermost ==
  ASSUME Under
  PROVE  /\ OfDisc' /\ Checking' /\ Reserving'
         /\ (disc \in DiscFields(disc) /\ FromMedium(disc.lock, disc.named))'
         /\ (efi = M!Nothing \/ efi \in EfiFields(efi))'
<1> USE DEF Under, MediumInv
<1>0. run' \notin AskRun
      BY DEF WorkRun, AskRun, M!Profile
<1>1. OfDisc'
      BY <1>0 DEF OfDisc, SnapFields
<1>2. Checking'
      BY <1>0 DEF Checking, M!Nothing
<1>3. Reserving'
      BY <1>0 DEF Reserving, M!Nothing
<1> QED BY <1>1, <1>2, <1>3 DEF MediumTypes, M!Nothing, DiscFields, EfiFields, FromMedium

\* A work whose target keeps what Targeted asks of it.
LEMMA StillTargeted ==
  ASSUME Under, run.pc # "mark",
         \A k \in M!Mark : target'.mark[k] \in {None, run.p},
         \E k \in M!Mark : target'.mark[k] # None,
         Pieces(target', run.p), Channels(target', run.p)
  PROVE  Targeted'
<1> USE DEF Under, MediumInv
<1>1. PICK m \in Medium0 : run.p = m.lock
      BY DEF OfDisc, FromMedium
<1>2. run.p # None /\ run.p # Torn
      BY <1>1, FitMedium
<1> QED BY <1>1, <1>2 DEF Targeted, M!Mark

\* What is known of a target that is under way.
LEMMA UnderWay ==
  ASSUME Under, run.pc # "mark"
  PROVE  /\ run.p \in M!Profile /\ run.p # None /\ run.p # Torn /\ run.p["world"] \in Version
         /\ \A k \in M!Mark : target.mark[k] \in {None, run.p}
         /\ \E k \in M!Mark : target.mark[k] # None
         /\ Pieces(target, run.p) /\ Channels(target, run.p)
         /\ run' \notin AskRun /\ run'.p = run.p
<1> USE DEF Under, MediumInv
<1>1. PICK m \in Medium0 : run.p = m.lock
      BY DEF OfDisc, FromMedium
<1>2. run.p # None /\ run.p # Torn /\ run.p \in M!Profile /\ run.p["world"] \in Version
      BY <1>1, FitMedium
<1>3. Past(PastMark)
      BY DEF Past, PastMark, WorkRun
<1>4. /\ \A k \in M!Mark : target.mark[k] \in {None, run.p}
      /\ \E k \in M!Mark : target.mark[k] # None
      BY <1>3 DEF Advanced, OfOneLock
<1>5. Pieces(target, run.p) /\ Channels(target, run.p)
      BY <1>2, <1>4 DEF Targeted
<1> QED BY <1>2, <1>4, <1>5 DEF AskRun, WorkRun, M!Profile

\* The marks of a work between its first step and the commit.
LEMMA MarksKept ==
  ASSUME Under, run.pc \notin {"mark", "scaffold"}, run'.pc \notin {"mark", "done"},
         target'.mark = target.mark
  PROVE  OfOneLock'
<1>1. Past(PastMark) /\ Past(PastMark \ {"scaffold"})
      BY DEF Past, PastMark, Under, WorkRun
<1>2. ~Past({"mark"})' /\ ~Past({"done"})'
      BY DEF Past
<1> QED BY <1>1, <1>2 DEF MediumInv, Under, Advanced, OfOneLock

\* install_snapshot.
LEMMA StepSnapshot ==
  ASSUME MediumInv, M!Snapshot, UNCHANGED <<disc, snap, efi, checked>>, run \in WorkRun
  PROVE  MediumInv'
<1>1. Under /\ run.pc = "snapshot"
  <2>1. /\ run.pc = "snapshot"
        /\ \E label \in {"failed", "forget", "again"} : run' = [run EXCEPT !.pc = label]
        BY DEF M!Snapshot, M!At, M!Goto, M!Refuse
  <2>2. run' \in WorkRun /\ run'.p = run.p
        BY <2>1 DEF WorkRun, WorkPc
  <2> QED BY <2>1, <2>2 DEF Under
<1>2. CASE target.tree \notin {None, run.p["tree"]}
  <2>1. target' = target /\ run' = [run EXCEPT !.pc = "failed"]
        BY <1>2 DEF M!Snapshot, M!Goto, M!Refuse
  <2> QED BY <1>1, <2>1, Undermost, StillTargeted, UnderWay DEF MediumInv, Under, MediumTypes,
     Advanced, OfOneLock, InPlace, Authorised, Signed, Past, PastMark, Halfway, WorkRun
<1>3. CASE target.tree \in {None, run.p["tree"]}
  <2>1. /\ target' = [target EXCEPT !.tree = run.p["tree"]]
        /\ run' = [run EXCEPT !.pc = IF M!Offline THEN "forget" ELSE "again"]
        BY <1>3 DEF M!Snapshot, M!Goto, M!Put
  <2>2. target' \in TargetFields(target')
        BY <1>1, <2>1 DEF Under, MediumInv, MediumTypes, TargetFields
  <2>3. Pieces(target', run.p) /\ Channels(target', run.p) /\ target'.mark = target.mark
        BY <1>1, <2>1, UnderWay DEF Pieces, Channels, Under, MediumInv, MediumTypes, TargetFields
  <2>4. Targeted'
        BY <1>1, <2>3, UnderWay, StillTargeted
  <2>5. Advanced'
    <3>1. OfOneLock'
          BY <1>1, <2>1, <2>3, MarksKept DEF Under, WorkRun
    <3>2. InPlace'
          BY <1>1, <2>1, <2>3, UnderWay DEF MediumInv, Under, Advanced, InPlace, Past, PastMark,
             Halfway, WorkRun, WorkPc, M!Offline, MediumTypes, TargetFields
    <3>3. Authorised'
          BY <1>1, <2>1, <2>3, UnderWay DEF MediumInv, Under, Advanced, InPlace, Authorised, Past,
             Halfway, WorkRun, WorkPc, M!Offline, MediumTypes, TargetFields
    <3>4. Signed'
          BY <1>1, <2>1, <2>3, UnderWay DEF MediumInv, Under, Advanced, Signed, Past, WorkRun, WorkPc,
             M!Offline, MediumTypes, TargetFields
    <3> QED BY <3>1, <3>2, <3>3, <3>4 DEF Advanced
  <2> QED BY <1>1, <2>2, <2>4, <2>5, Undermost DEF MediumInv, MediumTypes, Under
<1> QED BY <1>2, <1>3

\* A refusal leaves everything in place.
LEMMA Refused ==
  ASSUME MediumInv, run \in WorkRun, run.pc \notin {"failed", "mark"},
         UNCHANGED <<target, disc, snap, efi, checked>>, M!Refuse
  PROVE  MediumInv'
<1>1. Under /\ run' = [run EXCEPT !.pc = "failed"] /\ target' = target
      BY DEF M!Refuse, M!Goto, Under, WorkRun, WorkPc
<1>2. Targeted'
      BY <1>1, StillTargeted, UnderWay DEF Under
<1>3. Advanced'
  <2>1. OfOneLock'
        BY <1>1 DEF Advanced, OfOneLock, Past, PastMark, Under, WorkRun
  <2>2. InPlace'
        BY <1>1 DEF Advanced, InPlace, Past, PastMark, Halfway, Under, WorkRun
  <2>3. Authorised'
        BY <1>1 DEF Advanced, InPlace, Authorised, Past, Halfway, Under, WorkRun
  <2>4. Signed'
        BY <1>1 DEF Advanced, Signed, Past, Under, WorkRun
  <2> QED BY <2>1, <2>2, <2>3, <2>4 DEF Advanced
<1>4. target \in TargetFields(target)
      BY <1>1 DEF Under, MediumInv, MediumTypes
<1> QED BY <1>1, <1>2, <1>3, <1>4, Undermost DEF MediumInv, MediumTypes, Under

\* A step that keeps the marks.
LEMMA Worked ==
  ASSUME Under, run.pc # "mark", target' \in TargetFields(target'), target'.mark = target.mark,
         Pieces(target', run.p), Channels(target', run.p), Advanced'
  PROVE  MediumInv'
BY Undermost, StillTargeted, UnderWay DEF MediumInv, MediumTypes, Under

\* remove_cache_authority, a leaf at a time.
LEMMA StepForget ==
  ASSUME MediumInv, UNCHANGED <<disc, snap, efi, checked>>, run \in WorkRun,
         NEW here, NEW next,
         <<here, next>> \in {<<"forget", "pool">>, <<"reset", "seed">>, <<"expire", "last">>},
         M!Forget(here, next)
  PROVE  MediumInv'
<1>1. Under /\ run.pc = here /\ here \notin {"mark", "failed"} /\ run'.pc \in {here, next}
      BY DEF M!Forget, Under, M!At, M!Goto, WorkRun, WorkPc
<1>2. /\ target' \in TargetFields(target') /\ target' = [target EXCEPT !.authority = target'.authority]
      /\ \A l \in M!Leaf : target'.authority[l] \in {None, target.authority[l]}
      BY <1>1 DEF M!Forget, MediumInv, MediumTypes, TargetFields, M!Goto
<1>3. Pieces(target', run.p) /\ Channels(target', run.p) /\ target'.mark = target.mark
      BY <1>1, <1>2, UnderWay DEF Pieces, Channels, MediumInv, MediumTypes, TargetFields
<1>4. /\ target'.tree = target.tree /\ target'.world = target.world /\ target'.overlay = target.overlay
      /\ target'.exec = target.exec /\ target'.manifest = target.manifest
      BY <1>2 DEF MediumInv, MediumTypes, TargetFields
<1>5. run'.tool = run.tool /\ run'.pc \in WorkPc \ {"mark", "failed", "scaffold"}
      BY <1>1 DEF M!Forget, M!Goto, Under, WorkRun
<1>6. ~Past(Halfway \ {"expire", "last"}) /\ ~Past(Halfway \ {"expire", "last"})' /\ ~Past({"rectify"})'
      BY <1>1 DEF Past, Halfway
<1>7. Past(Halfway)' => Past(Halfway)
      BY <1>1 DEF Past, Halfway
<1>8. Past({"forget", "pool", "borrow", "check", "expire", "last"})' => run.p["cache"] # None
      BY <1>1 DEF Past, Under, MediumInv, Advanced, InPlace
<1>9. OfOneLock' /\ InPlace'
  <2>1. OfOneLock'
        BY <1>1, <1>3, MarksKept
  <2>2. Past(Halfway \ {"verify", "overlay"})' => Past(Halfway \ {"verify", "overlay"})
        BY <1>1 DEF Past, Halfway
  <2>3. Past(PastMark \ {"scaffold", "snapshot"})
        BY <1>1 DEF Past, PastMark, Under, WorkRun
  <2> QED BY <1>1, <1>4, <1>7, <1>8, <2>1, <2>2, <2>3 DEF MediumInv, Under, Advanced, InPlace
<1>10. Authorised' /\ Signed'
      BY <1>1, <1>8 DEF Authorised, Signed, Past, Halfway, Under
<1> QED BY <1>1, <1>2, <1>3, <1>9, <1>10, Worked DEF Advanced

\* apply_entries of an authority, a leaf at a time.
LEMMA StepBring ==
  ASSUME MediumInv, UNCHANGED <<disc, snap, efi, checked>>, run \in WorkRun,
         NEW here, NEW piece, NEW next,
         <<here, piece, next>> \in
           {<<"borrow", "cache", "check">>, <<"seed", "seed", "rectify">>, <<"last", "seed", "persist">>},
         M!Bring(here, piece, next)
  PROVE  MediumInv'
<1> DEFINE wanted == M!Authority(piece)
<1>0. run.pc = here /\ here \notin {"mark", "failed"}
      BY DEF M!Bring, M!At
<1>1. CASE M!Refuse /\ target' = target
      BY <1>0, <1>1, Refused
<1>2. CASE /\ run' = run
           /\ \E l \in M!Leaf : /\ wanted[l] # None
                                /\ target' = [target EXCEPT !.authority[l] = wanted[l]]
  <2>1. Under
        BY <1>0, <1>2 DEF Under
  <2>2. PICK l \in M!Leaf : wanted[l] # None /\ target' = [target EXCEPT !.authority[l] = wanted[l]]
        BY <1>2
  <2>3. wanted[l] = <<piece, run.p[piece]>> /\ run.p[piece] # None
        BY <2>2 DEF M!Authority
  <2>4. /\ target' \in TargetFields(target')
        /\ target' = [target EXCEPT !.authority = target'.authority]
        /\ \A k \in M!Leaf : target'.authority[k] \in {<<piece, run.p[piece]>>, target.authority[k]}
        BY <2>2, <2>3 DEF MediumInv, MediumTypes, TargetFields
  <2>5. run.p["cache"] = None => piece = "seed"
        BY <2>1, <2>3
  <2>7. /\ target'.mark = target.mark /\ target'.tree = target.tree /\ target'.world = target.world
        /\ target'.overlay = target.overlay /\ target'.pool = target.pool
        BY <2>4 DEF MediumInv, MediumTypes, TargetFields
  <2>6. Pieces(target', run.p) /\ Channels(target', run.p) /\ target'.mark = target.mark
        BY <1>0, <2>1, <2>3, <2>4, <2>5, <2>7, UnderWay DEF Pieces, Channels, Sought
  <2>8. /\ target'.tree = target.tree /\ target'.world = target.world /\ target'.overlay = target.overlay
        /\ target'.exec = target.exec /\ target'.manifest = target.manifest
        BY <2>4 DEF MediumInv, MediumTypes, TargetFields
  <2>9. OfOneLock' /\ InPlace'
        BY <1>0, <1>2, <2>1, <2>6, <2>8 DEF MediumInv, Under, Advanced, OfOneLock, InPlace, Past
  <2>10. Authorised' /\ Signed'
        BY <1>0, <1>2, <2>1, <2>4, <2>8 DEF MediumInv, Under, Advanced, InPlace, Authorised, Signed,
           Past, Halfway
  <2>11. Advanced'
        BY <2>9, <2>10 DEF Advanced
  <2> QED BY <1>0, <2>1, <2>4, <2>6, <2>11, Worked
<1>3. CASE target.authority = wanted /\ target' = target /\ M!Goto(next)
  <2>1. Under /\ run' = [run EXCEPT !.pc = next]
        BY <1>0, <1>3 DEF Under, M!Goto, WorkRun, WorkPc
  <2>2. piece = "seed" => \A l \in M!Leaf : target.authority[l] \in Sought(run.p)
        BY <1>3 DEF M!Authority, Sought
  <2>3. Pieces(target', run.p) /\ Channels(target', run.p)
        BY <1>0, <1>3, <2>1, UnderWay DEF Pieces, Channels, Sought
  <2>4. Advanced'
    <3>1. OfOneLock'
          BY <1>0, <1>3, <2>1, MarksKept DEF Under, WorkRun
    <3>2. InPlace'
          BY <1>0, <1>3, <2>1, <2>2, UnderWay DEF MediumInv, Under, Advanced, InPlace, Past, PastMark,
             Halfway, WorkRun, WorkPc
    <3>3. Authorised'
          BY <1>0, <1>3, <2>1, <2>2, UnderWay DEF MediumInv, Under, Advanced, InPlace, Authorised, Past,
             Halfway, WorkRun, WorkPc
    <3>4. Signed'
          BY <1>0, <1>3, <2>1, <2>2, UnderWay DEF MediumInv, Under, Advanced, Signed, Past, WorkRun,
             WorkPc
    <3> QED BY <3>1, <3>2, <3>3, <3>4 DEF Advanced
  <2> QED BY <1>0, <1>3, <2>1, <2>3, <2>4, Worked DEF MediumInv, MediumTypes
<1> QED BY <1>1, <1>2, <1>3 DEF M!Bring, M!Authority

\* The objects of the cache.
LEMMA StepPool ==
  ASSUME MediumInv, UNCHANGED <<disc, snap, efi, checked>>, run \in WorkRun, M!Pool
  PROVE  MediumInv'
<1>1. Under /\ run.pc = "pool" /\ run' = [run EXCEPT !.pc = "borrow"]
      BY DEF M!Pool, Under, M!At, M!Goto, WorkRun, WorkPc
<1>0. target' = [target EXCEPT !.pool = run.p["cache"]]
      BY DEF M!Pool, M!Put
<1>2. target' \in TargetFields(target') /\ target' = [target EXCEPT !.pool = run.p["cache"]]
      BY <1>0 DEF MediumInv, MediumTypes, TargetFields
<1>3. Pieces(target', run.p) /\ Channels(target', run.p) /\ target'.mark = target.mark
      BY <1>1, <1>2, UnderWay DEF Pieces, Channels, MediumInv, MediumTypes, TargetFields
<1>4. Advanced'
  <2>1. OfOneLock'
        BY <1>1, <1>3, MarksKept DEF Under, WorkRun
  <2>2. InPlace'
        BY <1>1, <1>2, <1>3, UnderWay DEF MediumInv, Under, Advanced, InPlace, Past, PastMark,
           Halfway, WorkRun, WorkPc, MediumTypes, TargetFields
  <2>3. Authorised'
        BY <1>1, <1>2, <1>3, UnderWay DEF MediumInv, Under, Advanced, InPlace, Authorised, Past,
           Halfway, WorkRun, WorkPc, MediumTypes, TargetFields
  <2>4. Signed'
        BY <1>1, <1>2, <1>3, UnderWay DEF MediumInv, Under, Advanced, Signed, Past, WorkRun, WorkPc,
           MediumTypes, TargetFields
  <2> QED BY <2>1, <2>2, <2>3, <2>4 DEF Advanced
<1> QED BY <1>1, <1>2, <1>3, <1>4, Worked

\* Steps that only go on.
LEMMA StepOn ==
  ASSUME MediumInv, UNCHANGED <<disc, snap, efi, checked>>, run \in WorkRun,
         M!Again \/ M!CheckCache \/ M!Verify
  PROVE  MediumInv'
<1>1. target' = target /\ run.pc \in {"again", "check", "verify", "verify2"}
      BY DEF M!Again, M!CheckCache, M!Verify, M!At
<1>2. PICK next \in WorkPc \ {"failed", "mark"} :
        /\ run' = [run EXCEPT !.pc = next]
        /\ next \in {"rectify", "seed", "reset", "overlay", "expire", "persist"}
        /\ next = "overlay" => run.pc = "verify" /\ target.world = run.p["world"]
        /\ next \in {"expire", "persist"} => run.pc = "verify2" /\ target.world = run.p["world"]
        /\ next = "expire" => run.p["cache"] # None
        /\ next = "persist" => run.p["cache"] = None
        /\ next = "rectify" => run.pc = "check" \/ run.p["seed"] = None
        /\ next \in {"rectify", "seed", "reset"} => run.pc \in {"again", "check"}
      BY DEF M!Again, M!CheckCache, M!Verify, M!At, M!Goto, M!Offline, WorkPc
<1>3. Under
      BY <1>1, <1>2 DEF Under, WorkRun
<1>4. Pieces(target', run.p) /\ Channels(target', run.p)
      BY <1>1, <1>3, UnderWay
<1>5. run'.pc = "rectify" /\ run.p["cache"] = None =>
        \A l \in M!Leaf : target.authority[l] \in Sought(run.p)
  <2>1. SUFFICES ASSUME run'.pc = "rectify", run.p["cache"] = None
                 PROVE  \A l \in M!Leaf : target.authority[l] \in Sought(run.p)
        OBVIOUS
  <2>2. run.pc # "check"
        BY <2>1 DEF MediumInv, Advanced, InPlace, Past
  <2> QED BY <1>1, <1>2, <2>1, <2>2, <1>3, <1>4 DEF Channels, Sought, WorkRun
<1>6. Advanced'
  <2>1. OfOneLock'
        BY <1>1, <1>2, <1>3, MarksKept DEF Under, WorkRun
  <2>2. InPlace'
        BY <1>1, <1>2, <1>3, <1>5, UnderWay DEF MediumInv, Under, Advanced, InPlace, Past, PastMark,
           Halfway, WorkRun, WorkPc
  <2>3. Authorised'
        BY <1>1, <1>2, <1>3, <1>5, UnderWay DEF MediumInv, Under, Advanced, InPlace, Authorised, Past,
           Halfway, WorkRun, WorkPc
  <2>4. Signed'
        BY <1>1, <1>2, <1>3, <1>5, UnderWay DEF MediumInv, Under, Advanced, Signed, Past, WorkRun,
           WorkPc
  <2> QED BY <2>1, <2>2, <2>3, <2>4 DEF Advanced
<1> QED BY <1>1, <1>3, <1>4, <1>6, Worked DEF MediumInv, MediumTypes

\* rectify, whole or cut.
LEMMA RectifiedTarget ==
  ASSUME MediumInv, run \in WorkRun, run.pc = "rectify", NEW world, world \in {Torn, run.p["world"]},
         target' = M!Rectified(world), UNCHANGED <<disc, snap, efi, checked>>,
         NEW next \in {"failed", "verify"}, run' = [run EXCEPT !.pc = next],
         next = "verify" => world = run.p["world"]
  PROVE  MediumInv'
<1>1. Under /\ run' \in WorkRun
      BY DEF Under, WorkRun, WorkPc
<1>2. Packaged[run.p["world"]] \in Tool \cup {None} \/ world = Torn \/ run.p["world"] = None
      BY <1>1, UnderWay, FitTool DEF M!Profile, M!Piece
<1>3. /\ target'.mark = target.mark /\ target'.tree = target.tree /\ target'.pool = target.pool
      /\ target'.overlay = target.overlay /\ target'.world = world
      /\ target'.authority =
           [target.authority EXCEPT !["index"] = IF M!Offline \/ @ = None THEN @ ELSE <<"fresh">>]
      BY DEF M!Rectified, MediumInv, MediumTypes, TargetFields
<1>5. \A l \in M!Leaf : \/ target'.authority[l] = target.authority[l]
                        \/ target.authority[l] # None /\ target'.authority[l] = <<"fresh">>
      BY <1>3 DEF MediumInv, MediumTypes, TargetFields
<1>6. Pieces(target', run.p) /\ Channels(target', run.p)
      BY <1>1, <1>3, <1>5, UnderWay DEF Pieces, Channels, Sought
<1>7. Advanced'
  <2>1. OfOneLock'
        BY <1>1, <1>3, MarksKept DEF Under, WorkRun
  <2>2. InPlace'
        BY <1>1, <1>3, <1>5, <1>6, UnderWay DEF MediumInv, Under, Advanced, InPlace, Past, PastMark,
           Halfway, WorkRun, WorkPc, Sought
  <2>3. Authorised'
        BY <1>1, <1>3, <1>5, <1>6, UnderWay DEF MediumInv, Under, Advanced, InPlace, Authorised, Past,
           Halfway, WorkRun, WorkPc, Sought
  <2>4. Signed'
        BY <1>1, <1>3, <1>5, <1>6, UnderWay DEF MediumInv, Under, Advanced, Signed, Past, WorkRun,
           WorkPc, Sought
  <2> QED BY <2>1, <2>2, <2>3, <2>4 DEF Advanced
<1>4. target'.exec \in [M!Executor -> Tool \cup {None}]
      BY <1>1, UnderWay, FitTool DEF M!Rectified, MediumInv, MediumTypes, TargetFields
<1>9. target' = [target EXCEPT !.world = target'.world, !.by = target'.by,
                               !.authority = target'.authority, !.exec = target'.exec]
      BY DEF M!Rectified, MediumInv, MediumTypes, TargetFields
<1>10. target'.authority \in [M!Leaf -> {target'.authority[l] : l \in M!Leaf}]
      BY <1>3 DEF MediumInv, MediumTypes, TargetFields
<1>8. target' \in TargetFields(target')
  <2>1. target \in TargetFields(target)
        BY DEF MediumInv, MediumTypes
  <2> HIDE DEF M!Rectified
  <2> QED BY <1>3, <1>4, <1>9, <1>10, <2>1 DEF TargetFields
<1> QED BY <1>1, <1>3, <1>6, <1>7, <1>8, Worked

\* A rectify that succeeds.
LEMMA StepRectify ==
  ASSUME MediumInv, UNCHANGED <<disc, snap, efi, checked>>, run \in WorkRun, M!Rectify
  PROVE  MediumInv'
BY RectifiedTarget DEF M!Rectify, M!At, M!Goto

\* A command of minitrue that fails.
LEMMA StepFail ==
  ASSUME MediumInv, UNCHANGED <<disc, snap, efi, checked>>, M!Fail
  PROVE  MediumInv'
<1>1. run \in WorkRun
      BY DEF M!Fail, MediumInv, MediumTypes, M!Idle, AskRun, AskPc
<1>2. CASE target' = target
      BY <1>1, <1>2, Refused DEF M!Fail
<1>3. CASE run.pc = "rectify" /\ target' = M!Rectified(Torn)
      BY <1>1, <1>3, RectifiedTarget DEF M!Fail, M!Refuse, M!Goto
<1> QED BY <1>2, <1>3 DEF M!Fail, M!At

\* apply_entries of the overlay.
LEMMA StepOverlay ==
  ASSUME MediumInv, UNCHANGED <<disc, snap, efi, checked>>, run \in WorkRun, M!Overlay
  PROVE  MediumInv'
<1>1. Under /\ run.pc = "overlay" /\ run'.pc \in {"overlay", "verify2"} /\ run' = [run EXCEPT !.pc = run'.pc]
      BY DEF M!Overlay, Under, M!At, M!Goto, WorkRun, WorkPc
<1>2. PICK o \in {Torn, run.p["overlay"]} :
        /\ target' = [target EXCEPT !.overlay = o]
        /\ run'.pc = "verify2" => o = run.p["overlay"]
      BY <1>1 DEF M!Overlay, M!Put, M!Goto
<1>3. target' \in TargetFields(target')
      BY <1>2 DEF MediumInv, MediumTypes, TargetFields
<1>4. /\ target'.tree = target.tree /\ target'.world = target.world /\ target'.pool = target.pool
      /\ target'.overlay = o /\ target'.authority = target.authority /\ target'.mark = target.mark
      /\ target'.exec = target.exec /\ target'.manifest = target.manifest
      BY <1>2 DEF MediumInv, MediumTypes, TargetFields
<1>5. Pieces(target', run.p) /\ Channels(target', run.p)
      BY <1>1, <1>4, UnderWay DEF Pieces, Channels
<1>6. Advanced'
  <2>1. OfOneLock'
        BY <1>1, <1>4, MarksKept DEF Under, WorkRun
  <2>2. InPlace'
        BY <1>1, <1>2, <1>4 DEF MediumInv, Under, Advanced, InPlace, Past, PastMark, Halfway, WorkRun,
           WorkPc
  <2>3. Authorised'
        BY <1>1, <1>2, <1>4 DEF MediumInv, Under, Advanced, InPlace, Authorised, Past, Halfway,
           WorkRun, WorkPc
  <2>4. Signed'
        BY <1>1, <1>2, <1>4 DEF MediumInv, Under, Advanced, Signed, Past, WorkRun, WorkPc
  <2> QED BY <2>1, <2>2, <2>3, <2>4 DEF Advanced
<1> QED BY <1>1, <1>3, <1>4, <1>5, <1>6, Worked

\* persist_executor.
LEMMA StepPersist ==
  ASSUME MediumInv, UNCHANGED <<disc, snap, efi, checked>>, run \in WorkRun, M!Persist
  PROVE  MediumInv'
<1>0. run.pc = "persist"
      BY DEF M!Persist, M!At
<1>1. CASE target' = target /\ M!Refuse
      BY <1>0, <1>1, Refused
<1>2. CASE target' = target /\ M!Goto("manifest") /\ \A x \in M!Executor : target.exec[x] = run.tool
  <2>1. Under /\ run' = [run EXCEPT !.pc = "manifest"]
        BY <1>0, <1>2 DEF Under, M!Goto, WorkRun, WorkPc
  <2>2. Advanced'
    <3>1. OfOneLock'
          BY <1>0, <1>2, <2>1, MarksKept DEF Under, WorkRun
    <3>2. InPlace'
          BY <1>0, <1>2, <2>1 DEF MediumInv, Under, Advanced, InPlace, Past, PastMark, Halfway, WorkRun,
             WorkPc
    <3>3. Authorised'
          BY <1>0, <1>2, <2>1 DEF MediumInv, Under, Advanced, InPlace, Authorised, Past, Halfway,
             WorkRun, WorkPc
    <3>4. Signed'
          BY <1>0, <1>2, <2>1 DEF MediumInv, Under, Advanced, Signed, Past, WorkRun, WorkPc
    <3> QED BY <3>1, <3>2, <3>3, <3>4 DEF Advanced
  <2>3. target \in TargetFields(target)
        BY DEF MediumInv, MediumTypes
  <2> QED BY <1>0, <1>2, <2>1, <2>2, <2>3, Worked, UnderWay
<1>3. CASE run' = run /\ \E x \in M!Executor : target' = [target EXCEPT !.exec[x] = run.tool]
  <2>1. Under
        BY <1>0, <1>3 DEF Under
  <2>2. PICK x \in M!Executor : target' = [target EXCEPT !.exec[x] = run.tool]
        BY <1>3
  <2>3. target' \in TargetFields(target')
        BY <2>2 DEF MediumInv, MediumTypes, TargetFields, WorkRun
  <2>4. /\ target'.tree = target.tree /\ target'.world = target.world /\ target'.pool = target.pool
        /\ target'.overlay = target.overlay /\ target'.authority = target.authority
        /\ target'.mark = target.mark
        /\ target'.manifest = target.manifest
        BY <2>2 DEF MediumInv, MediumTypes, TargetFields
  <2>5. Pieces(target', run.p) /\ Channels(target', run.p)
        BY <1>0, <2>1, <2>4, UnderWay DEF Pieces, Channels
  <2>6. Advanced'
    <3>1. OfOneLock'
          BY <1>0, <1>3, <2>1, <2>4, MarksKept DEF Under, WorkRun
    <3>2. InPlace'
          BY <1>0, <1>3, <2>1, <2>4 DEF MediumInv, Under, Advanced, InPlace, Past, PastMark, Halfway,
             WorkRun, WorkPc
    <3>3. Authorised'
          BY <1>0, <1>3, <2>1, <2>4 DEF MediumInv, Under, Advanced, InPlace, Authorised, Past, Halfway,
             WorkRun, WorkPc
    <3>4. Signed'
          BY <1>0, <1>3, <2>1, <2>4 DEF MediumInv, Under, Advanced, Signed, Past, WorkRun, WorkPc
    <3> QED BY <3>1, <3>2, <3>3, <3>4 DEF Advanced
  <2> QED BY <1>0, <2>1, <2>3, <2>4, <2>5, <2>6, Worked
<1> QED BY <1>1, <1>2, <1>3 DEF M!Persist, M!Executor

\* The manifest, created and then written.
LEMMA StepManifest ==
  ASSUME MediumInv, UNCHANGED <<disc, snap, efi, checked>>, run \in WorkRun, M!WriteManifest
  PROVE  MediumInv'
<1>1. Under /\ run.pc = "manifest" /\ run'.pc \in {"manifest", "commit"} /\ run' = [run EXCEPT !.pc = run'.pc]
      BY DEF M!WriteManifest, Under, M!At, M!Goto, WorkRun, WorkPc
<1>2. PICK o \in {Torn, M!Manifest(run)} :
        /\ target' = [target EXCEPT !.manifest = o]
        /\ run'.pc = "commit" => o = M!Manifest(run)
      BY <1>1 DEF M!WriteManifest, M!Put, M!Goto
<1>3. target' \in TargetFields(target')
      BY <1>2 DEF MediumInv, MediumTypes, TargetFields
<1>4. /\ target'.tree = target.tree /\ target'.world = target.world /\ target'.pool = target.pool
      /\ target'.overlay = target.overlay /\ target'.authority = target.authority
      /\ target'.mark = target.mark
      /\ target'.exec = target.exec /\ target'.manifest = o
      BY <1>2 DEF MediumInv, MediumTypes, TargetFields
<1>5. Pieces(target', run.p) /\ Channels(target', run.p)
      BY <1>1, <1>4, UnderWay DEF Pieces, Channels
<1>7. M!Manifest(run)' = M!Manifest(run) /\ run'.tool = run.tool
      BY <1>1 DEF M!Manifest, Under, WorkRun
<1>6. Advanced'
  <2>1. OfOneLock'
        BY <1>1, <1>4, MarksKept DEF Under, WorkRun
  <2>2. InPlace'
        BY <1>1, <1>2, <1>4, <1>7 DEF MediumInv, Under, Advanced, InPlace, Past, PastMark, Halfway,
           WorkRun, WorkPc
  <2>3. Authorised'
        BY <1>1, <1>2, <1>4, <1>7 DEF MediumInv, Under, Advanced, InPlace, Authorised, Past, Halfway,
           WorkRun, WorkPc
  <2>4. Signed'
        BY <1>1, <1>2, <1>4, <1>7 DEF MediumInv, Under, Advanced, Signed, Past, WorkRun, WorkPc
  <2> QED BY <2>1, <2>2, <2>3, <2>4 DEF Advanced
<1> QED BY <1>1, <1>3, <1>4, <1>5, <1>6, Worked

\* The marks: the first, and the two renamings of it.
LEMMA Promoted ==
  ASSUME MediumInv, UNCHANGED <<disc, snap, efi, checked>>, run \in WorkRun,
         NEW from, NEW to, NEW next,
         <<run.pc, from, to, next>> \in
           {<<"scaffold", "early", "pending", "snapshot">>, <<"commit", "pending", "committed", "done">>},
         M!Promote(from, to), M!Goto(next)
  PROVE  MediumInv'
<1>1. /\ Under /\ run.pc # "mark" /\ run' = [run EXCEPT !.pc = next]
      /\ from # to /\ from \in M!Mark /\ to \in M!Mark
      BY DEF Under, M!Goto, WorkRun, WorkPc, M!Mark
<1>2. target' = [target EXCEPT !.mark = target'.mark]
      BY DEF M!Promote, MediumInv, MediumTypes, TargetFields
<1>3. target'.mark = IF target.mark[from] = None THEN target.mark
                     ELSE [target.mark EXCEPT ![to] = target.mark[from], ![from] = None]
      BY DEF M!Promote, MediumInv, MediumTypes, TargetFields
<1>4. /\ target'.tree = target.tree /\ target'.world = target.world /\ target'.pool = target.pool
      /\ target'.overlay = target.overlay /\ target'.authority = target.authority
      /\ target'.exec = target.exec /\ target'.manifest = target.manifest
      BY <1>2 DEF MediumInv, MediumTypes, TargetFields
<1>5. /\ \A k \in M!Mark : target'.mark[k] \in {None, run.p}
      /\ \E k \in M!Mark : target'.mark[k] # None
      /\ target'.mark \in [M!Mark -> {None, Torn} \cup M!Profile]
      /\ target'.mark[from] = None
      /\ next = "done" => target'.mark["committed"] = run.p
      /\ next = "done" => target'.mark["early"] = None
  <2>1. target.mark \in [M!Mark -> {None, Torn} \cup M!Profile]
        BY DEF MediumInv, MediumTypes, TargetFields
  <2>2. /\ next = "done" => target.mark["early"] = None
        BY <1>1 DEF Under, MediumInv, Advanced, OfOneLock, Past, PastMark, WorkRun
  <2> QED BY <1>1, <1>3, <2>1, <2>2, UnderWay DEF M!Mark
<1>6. target' \in TargetFields(target')
      BY <1>2, <1>5 DEF MediumInv, MediumTypes, TargetFields
<1>7. Targeted'
      BY <1>1, <1>4, <1>5, UnderWay, StillTargeted DEF Pieces, Channels
<1>8. Advanced'
  <2>1. OfOneLock'
        BY <1>1, <1>4, <1>5 DEF MediumInv, Under, Advanced, OfOneLock, Past, PastMark, WorkRun, WorkPc
  <2>2. InPlace'
        BY <1>1, <1>4, <1>5 DEF MediumInv, Under, Advanced, InPlace, Past, PastMark, Halfway, WorkRun,
           WorkPc
  <2>3. Authorised'
        BY <1>1, <1>4, <1>5 DEF MediumInv, Under, Advanced, InPlace, Authorised, Past, Halfway,
           WorkRun, WorkPc
  <2>4. Signed'
        BY <1>1, <1>4, <1>5 DEF MediumInv, Under, Advanced, Signed, Past, WorkRun, WorkPc, M!Manifest
  <2> QED BY <2>1, <2>2, <2>3, <2>4 DEF Advanced
<1> QED BY <1>1, <1>6, <1>7, <1>8, Undermost DEF MediumInv, MediumTypes, Under

\* The first marker, created and then written.
LEMMA StepMark ==
  ASSUME MediumInv, UNCHANGED <<disc, snap, efi, checked>>, run \in WorkRun, M!WriteMark
  PROVE  MediumInv'
<1>1. Under /\ run.pc = "mark" /\ run'.pc \in {"mark", "scaffold"} /\ run' = [run EXCEPT !.pc = run'.pc]
      BY DEF M!WriteMark, Under, M!At, M!Goto, WorkRun, WorkPc
<1>2. PICK m \in Medium0 : run.p = m.lock
      BY DEF MediumInv, OfDisc, FromMedium
<1>3. run.p \in M!Profile /\ run.p # None /\ run.p # Torn
      BY <1>2, FitMedium
<1>9. target = M!Blank \/ target = [M!Blank EXCEPT !.mark["early"] = Torn]
      BY <1>1 DEF MediumInv, Advanced, OfOneLock, Past, Under
<1>4. PICK o \in {Torn, run.p} :
        /\ target' = [M!Blank EXCEPT !.mark["early"] = o]
        /\ run'.pc = IF o = Torn THEN "mark" ELSE "scaffold"
  <2>1. CASE target = M!Blank
    <3>1. target.mark["early"] = None
          BY <2>1 DEF M!Blank, M!Mark
    <3> QED BY <1>1, <2>1, <3>1 DEF M!WriteMark
  <2>2. CASE target = [M!Blank EXCEPT !.mark["early"] = Torn]
    <3>1. target.mark["early"] = Torn
          BY <2>2 DEF M!Blank, M!Mark
    <3>2. target' = [target EXCEPT !.mark["early"] = run.p] /\ run' = [run EXCEPT !.pc = "scaffold"]
          BY <3>1, FitTool DEF M!WriteMark, M!Goto
    <3>3. target' = [M!Blank EXCEPT !.mark["early"] = run.p]
          BY <2>2, <3>2 DEF M!Blank, M!Mark
    <3>4. run'.pc = "scaffold"
          BY <1>1, <3>2 DEF Under, WorkRun
    <3> QED BY <1>3, <3>3, <3>4
  <2> QED BY <1>9, <2>1, <2>2
<1>5. /\ target'.mark = [k \in M!Mark |-> IF k = "early" THEN o ELSE None]
      /\ target'.tree = None /\ target'.world = None /\ target'.overlay = None /\ target'.pool = None
      /\ target'.authority = [l \in M!Leaf |-> None]
      BY <1>4 DEF M!Blank, M!Mark
<1>6. target' \in TargetFields(target')
      BY <1>3, <1>4, FitTool DEF M!Blank, TargetFields, M!Mark
<1>7. Targeted'
      BY <1>2, <1>3, <1>5, FitTool DEF Targeted, M!Mark, Pieces, Channels
<1>8. Advanced'
  <2>1. OfOneLock'
        BY <1>1, <1>3, <1>4, <1>5 DEF Under, Advanced, OfOneLock, Past, PastMark, M!Mark
  <2>2. InPlace'
        BY <1>1, <1>3, <1>4, <1>5 DEF Under, Advanced, InPlace, Past, PastMark, Halfway, M!Mark
  <2>3. Authorised'
        BY <1>1, <1>3, <1>4, <1>5 DEF Under, Advanced, InPlace, Authorised, Past, Halfway, M!Mark
  <2>4. Signed'
        BY <1>1, <1>3, <1>4, <1>5 DEF Under, Advanced, Signed, Past, M!Mark
  <2> QED BY <2>1, <2>2, <2>3, <2>4 DEF Advanced
<1> QED BY <1>1, <1>6, <1>7, <1>8, Undermost DEF MediumInv, MediumTypes, Under

\* Every step of an installation.
LEMMA StepInstall ==
  ASSUME MediumInv, UNCHANGED <<disc, snap, efi, checked>>, M!InstallStep
  PROVE  MediumInv'
<1>1. run \in WorkRun
      BY DEF M!InstallStep, MediumInv, MediumTypes, M!Idle, AskRun, AskPc, M!AuthorityStep, M!At,
         M!WriteMark, M!Scaffold, M!Snapshot, M!Forget, M!Pool, M!Bring, M!Again, M!CheckCache,
         M!Rectify, M!Verify, M!Overlay, M!Persist, M!WriteManifest, M!Commit
<1>2. CASE M!AuthorityStep
      BY <1>1, <1>2, StepForget, StepPool, StepBring, StepOn DEF M!AuthorityStep
<1>3. CASE M!Scaffold
      BY <1>1, <1>3, Promoted DEF M!Scaffold, M!At
<1>4. CASE M!Commit
      BY <1>1, <1>4, Promoted DEF M!Commit, M!At
<1> QED BY <1>1, <1>2, <1>3, <1>4, StepMark, StepSnapshot, StepOn, StepRectify, StepOverlay,
   StepPersist, StepManifest DEF M!InstallStep

-----------------------------------------------------------------------------
(* What a run reads before it is admitted, and what happens around it.      *)

\* A command is given.
LEMMA StepAsk ==
  ASSUME MediumInv, NEW r \in M!Request, M!Ask(r)
  PROVE  MediumInv'
<1>1. /\ run = M!Idle /\ target' = target /\ UNCHANGED <<disc, snap, efi, checked>>
      /\ run' = [r EXCEPT !.pc = "load"]
      BY DEF M!Ask, M!At, M!medium, MediumInv, MediumTypes, M!Idle, AskRun, WorkRun, AskPc, WorkPc
<1>2. run' \in AskRun /\ run' \notin WorkRun /\ run'.pc = "load" /\ run'.check = r.check
      BY <1>1 DEF M!Request, AskRun, AskPc, WorkRun
<1>3. run'.check <=> checked = M!Nothing
      BY <1>2 DEF M!Ask
<1>4. OfDisc' /\ Checking' /\ Reserving'
  <2>1. OfDisc'
        BY <1>2 DEF OfDisc
  <2>2. Checking'
        BY <1>1, <1>2, <1>3 DEF Checking, MediumInv, M!Nothing
  <2>3. Reserving'
        BY <1>1, <1>2 DEF Reserving, MediumInv, M!Nothing
  <2> QED BY <2>1, <2>2, <2>3
<1>5. MediumTypes'
      BY <1>1, <1>2 DEF MediumInv, MediumTypes, M!Nothing, TargetFields, DiscFields, EfiFields,
         FromMedium
<1>6. Targeted' /\ Advanced'
      BY <1>1, <1>2 DEF MediumInv, Targeted, Advanced, OfOneLock, InPlace, Authorised, Signed, Past
<1> QED BY <1>4, <1>5, <1>6 DEF MediumInv

\* A step of the reading, which touches neither the target nor the disc.
LEMMA Readings ==
  ASSUME MediumInv, run \in AskRun, UNCHANGED <<target, disc, efi, checked>>,
         run' \in AskRun, run'.check = run.check,
         run'.pc \in {"compare", "read", "reserve", "measure", "extract", "done"} =>
           (snap \in SnapFields(snap) /\ FromMedium(snap.lock, snap.boot))',
         run'.pc = "done" => run.check,
         run'.pc \in {"reserve", "measure", "extract"} => ~run.check,
         run'.pc \in {"measure", "extract"} => run.pc \in {"measure", "extract"} /\ snap'.boot = snap.boot
  PROVE  MediumInv'
<1>1. run' \notin WorkRun
      BY Apart
<1>2. OfDisc'
      BY <1>1 DEF OfDisc
<1>3. Checking'
      BY <1>1 DEF Checking, MediumInv, M!Nothing
<1>4. Reserving'
      BY <1>1 DEF Reserving, MediumInv, M!Nothing
<1>5. MediumTypes'
      BY DEF MediumInv, MediumTypes, M!Nothing, TargetFields, DiscFields, EfiFields, FromMedium
<1>6. Targeted' /\ Advanced'
      BY <1>1 DEF MediumInv, Targeted, Advanced, OfOneLock, InPlace, Authorised, Signed, Past
<1> QED BY <1>2, <1>3, <1>4, <1>5, <1>6 DEF MediumInv

\* Only a run that reads is at the steps before admission.
LEMMA Asking ==
  ASSUME MediumInv, run.pc \in {"load", "compare", "read", "reserve", "measure", "extract"}
  PROVE  run \in AskRun
BY Apart DEF MediumInv, MediumTypes, WorkPc

\* load_media.
LEMMA StepLoad ==
  ASSUME MediumInv, M!Load
  PROVE  MediumInv'
<1>1. /\ run.pc = "load" /\ run \in AskRun /\ UNCHANGED <<target, disc, efi, checked>>
      /\ run' = [run EXCEPT !.pc = IF disc.boot = disc.named THEN "compare" ELSE "failed"]
      /\ snap' = [lock |-> disc.lock, boot |-> disc.boot, has |-> disc.has]
      BY Asking DEF M!Load, M!At, M!Reading, M!Require, M!Goto
<1>2. run' \in AskRun /\ run'.check = run.check /\ run'.pc \in {"compare", "failed"}
      BY <1>1 DEF AskRun, AskPc
<1>3. (snap \in SnapFields(snap))'
      BY <1>1 DEF SnapFields
<1>4. run'.pc = "compare" => FromMedium(snap'.lock, snap'.boot)
      BY <1>1 DEF MediumInv, MediumTypes, AskRun
<1> QED BY <1>1, <1>2, <1>3, <1>4, Readings DEF FromMedium

\* The cache and the seed against the lock.
LEMMA StepCompare ==
  ASSUME MediumInv, M!Compare
  PROVE  MediumInv'
<1>1. /\ run.pc = "compare" /\ run \in AskRun /\ UNCHANGED <<target, disc, efi, checked>>
      /\ snap' = [snap EXCEPT !.has = disc.has]
      BY Asking DEF M!Compare, M!At, M!Reading
<1>2. run' \in AskRun /\ run'.check = run.check /\ run'.pc \in {"read", "failed"}
      BY <1>1 DEF M!Compare, M!Require, M!Goto, AskRun, AskPc
<1>3. snap \in SnapFields(snap) /\ FromMedium(snap.lock, snap.boot)
      BY <1>1 DEF MediumInv, OfDisc
<1>4. (snap \in SnapFields(snap) /\ FromMedium(snap.lock, snap.boot))'
      BY <1>1, <1>3 DEF SnapFields, FromMedium
<1> QED BY <1>1, <1>2, <1>4, Readings

\* The pieces kept in memory.
LEMMA StepRead ==
  ASSUME MediumInv, M!Read
  PROVE  MediumInv'
<1>1. /\ run.pc = "read" /\ run \in AskRun /\ UNCHANGED <<target, disc, efi, checked>>
      /\ \E h : snap' = [snap EXCEPT !.has = h]
      /\ run' = [run EXCEPT !.pc = IF run.check THEN "done" ELSE "reserve"]
      BY Asking DEF M!Read, M!At, M!Reading, M!Goto
<1>2. /\ run' \in AskRun /\ run'.check = run.check /\ run'.pc \in {"done", "reserve"}
      /\ run'.pc = "done" <=> run.check
      BY <1>1 DEF AskRun, AskPc
<1>3. snap \in SnapFields(snap) /\ FromMedium(snap.lock, snap.boot)
      BY <1>1 DEF MediumInv, OfDisc
<1>4. (snap \in SnapFields(snap) /\ FromMedium(snap.lock, snap.boot))'
      BY <1>1, <1>3 DEF SnapFields, FromMedium
<1> QED BY <1>1, <1>2, <1>4, Readings

\* The cache is measured.
LEMMA StepMeasure ==
  ASSUME MediumInv, M!Measure
  PROVE  MediumInv'
<1>1. /\ run.pc = "measure" /\ run \in AskRun /\ UNCHANGED <<target, disc, efi, checked>>
      /\ \E c : snap' = [snap EXCEPT !.has["cache"] = c]
      /\ run' = [run EXCEPT !.pc = "extract"]
      BY Asking DEF M!Measure, M!At, M!Reading, M!Goto
<1>2. /\ run' \in AskRun /\ run'.check = run.check /\ run'.pc = "extract"
      BY <1>1 DEF AskRun, AskPc
<1>3. snap \in SnapFields(snap) /\ FromMedium(snap.lock, snap.boot) /\ ~run.check
      BY <1>1 DEF MediumInv, OfDisc, Checking
<1>4. (snap \in SnapFields(snap) /\ FromMedium(snap.lock, snap.boot))' /\ snap'.boot = snap.boot
      BY <1>1, <1>3 DEF SnapFields, FromMedium
<1> QED BY <1>1, <1>2, <1>3, <1>4, Readings

\* The output of the image is taken.
LEMMA StepReserve ==
  ASSUME MediumInv, M!Reserve
  PROVE  MediumInv'
<1>1. /\ run.pc = "reserve" /\ run \in AskRun /\ UNCHANGED <<target, disc, snap, checked>>
      BY Asking DEF M!Reserve, M!At
<1>2. snap \in SnapFields(snap) /\ FromMedium(snap.lock, snap.boot) /\ ~run.check
      BY <1>1 DEF MediumInv, OfDisc, Checking
<1>3. CASE efi' = efi /\ M!Refuse
  <2>1. run' \in AskRun /\ run'.check = run.check /\ run'.pc = "failed"
        BY <1>1, <1>3 DEF AskRun, AskPc, M!Refuse, M!Goto
  <2> QED BY <1>1, <1>3, <2>1, Readings
<1>4. CASE efi' = [lock |-> snap.lock, boot |-> snap.boot, of |-> "run"] /\ M!Goto("measure")
  <2>1. run' \in AskRun /\ run' \notin WorkRun /\ run'.check = run.check /\ run'.pc = "measure"
        BY <1>1, <1>4 DEF AskRun, AskPc, M!Goto, WorkRun
  <2>2. efi' \in EfiFields(efi') /\ efi'.of = "run" /\ efi'.boot = snap.boot /\ efi' # M!Nothing
        BY <1>4 DEF EfiFields, M!Nothing
  <2>3. OfDisc'
        BY <1>1, <1>2, <2>1 DEF OfDisc, FromMedium, SnapFields
  <2>4. checked # M!Nothing
        BY <1>1, <1>2 DEF MediumInv, Checking
  <2>5. Checking' /\ Reserving'
        BY <1>1, <1>2, <2>1, <2>2, <2>4 DEF Checking, Reserving, M!Nothing
  <2>6. MediumTypes'
        BY <1>1, <2>1, <2>2 DEF MediumInv, MediumTypes, TargetFields, DiscFields, EfiFields, FromMedium
  <2>7. Targeted' /\ Advanced'
        BY <1>1, <2>1 DEF MediumInv, Targeted, Advanced, OfOneLock, InPlace, Authorised, Signed, Past
  <2> QED BY <2>3, <2>5, <2>6, <2>7 DEF MediumInv
<1> QED BY <1>3, <1>4 DEF M!Reserve

\* What was extracted reproduces the lock, or the run is refused.
LEMMA StepExtract ==
  ASSUME MediumInv, M!Extract
  PROVE  MediumInv'
<1>1. /\ run.pc = "extract" /\ run \in AskRun /\ UNCHANGED <<target, disc, snap, efi, checked>>
      BY Asking DEF M!Extract, M!At, M!medium, M!Admit, M!Refuse
<1>2. /\ snap \in SnapFields(snap) /\ FromMedium(snap.lock, snap.boot) /\ ~run.check /\ checked # M!Nothing
      BY <1>1 DEF MediumInv, OfDisc, Checking
<1>3. CASE M!Refuse
  <2>1. run' \in AskRun /\ run'.check = run.check /\ run'.pc = "failed"
        BY <1>1, <1>3 DEF AskRun, AskPc, M!Refuse, M!Goto
  <2> QED BY <1>1, <2>1, Readings
<1>4. CASE \E work : /\ work = snap.lock
                     /\ M!Admit([pc |-> "admit", p |-> work, tool |-> run.tool,
                                 resume |-> run.resume, check |-> FALSE])
  <2> DEFINE r == [pc |-> "admit", p |-> snap.lock, tool |-> run.tool, resume |-> run.resume, check |-> FALSE]
  <2>1. M!Admit(r)
        BY <1>4
  <2>2. PICK m \in Medium0 : snap.lock = m.lock
        BY <1>2 DEF FromMedium
  <2>3. snap.lock \in M!Profile /\ snap.lock # None /\ snap.lock # Torn
        BY <2>2, FitMedium
  <2>4. /\ run' = [pc |-> run'.pc, p |-> snap.lock, tool |-> run.tool, resume |-> run.resume, check |-> FALSE]
        /\ run'.pc \in {"failed", "mark", "scaffold"}
        /\ run'.pc # "failed" => M!Admissible(r)
        /\ run'.pc = "mark" => M!Marked = {}
        /\ run'.pc = "scaffold" => M!Marked # {}
        BY <2>1 DEF M!Admit
  <2>14. run.tool \in Tool /\ run.resume \in BOOLEAN
        BY <1>1 DEF AskRun
  <2>15. run'.pc \in WorkPc /\ run'.p = snap.lock
        BY <2>4 DEF WorkPc
  <2>16. run' \in WorkRun
    <3>1. PICK q \in WorkPc :
            run' = [pc |-> q, p |-> snap.lock, tool |-> run.tool, resume |-> run.resume, check |-> FALSE]
          BY <2>4, <2>15
    <3> QED BY <2>3, <2>14, <3>1 DEF WorkRun
  <2>5. run' \in WorkRun /\ run' \notin AskRun /\ run'.p = snap.lock
        BY <2>15, <2>16, Apart
  <2>6. OfDisc'
        BY <1>1, <1>2, <2>5 DEF OfDisc, FromMedium, SnapFields
  <2>7. Checking'
        BY <1>1, <1>2, <2>5 DEF Checking, MediumInv, M!Nothing
  <2>8. Reserving'
        BY <1>1, <2>5 DEF Reserving, MediumInv, M!Nothing
  <2>9. MediumTypes'
        BY <1>1, <2>5 DEF MediumInv, MediumTypes, M!Nothing, TargetFields, DiscFields, EfiFields,
           FromMedium
  <2>10. Targeted'
        BY <1>1 DEF MediumInv, Targeted
  <2>11. run'.pc = "mark" => target' = M!Blank
        BY <1>1, <2>4 DEF MediumInv, Targeted, M!Marked
  <2>12. run'.pc = "scaffold" => /\ \E k \in M!Mark : target'.mark[k] # None
                                 /\ \A k \in M!Mark : target'.mark[k] \in {None, snap.lock}
        BY <1>1, <2>4 DEF M!Marked, M!Admissible
  <2>13. Advanced'
    <3>1. OfOneLock'
          BY <2>4, <2>5, <2>11, <2>12 DEF Advanced, OfOneLock, Past, PastMark
    <3>2. InPlace'
          BY <2>4, <2>5, <2>11, <2>12 DEF Advanced, InPlace, Past, PastMark, Halfway
    <3>3. Authorised'
          BY <2>4, <2>5, <2>11, <2>12 DEF Advanced, InPlace, Authorised, Past, Halfway
    <3>4. Signed'
          BY <2>4, <2>5, <2>11, <2>12 DEF Advanced, Signed, Past
    <3> QED BY <3>1, <3>2, <3>3, <3>4 DEF Advanced
  <2> QED BY <2>6, <2>7, <2>8, <2>9, <2>10, <2>13 DEF MediumInv
<1> QED BY <1>3, <1>4 DEF M!Extract, M!Reproduces

\* A run ends.
LEMMA Ended ==
  ASSUME MediumInv, run' = M!Idle, MediumTypes', Checking', Reserving', target' \in {target, M!Blank}
  PROVE  MediumInv'
<1>1. run' \notin AskRun /\ run' \notin WorkRun
      BY Apart
<1>2. Targeted'
  <2>1. CASE target' = target
        BY <2>1 DEF MediumInv, Targeted
  <2>2. CASE target' = M!Blank
        BY <2>2, FitTool DEF Targeted, M!Blank, M!Mark
  <2> QED BY <2>1, <2>2
<1> QED BY <1>1, <1>2 DEF MediumInv, OfDisc, Advanced, OfOneLock, InPlace, Authorised, Signed, Past

\* A check, or an installation, is done.
LEMMA StepSucceed ==
  ASSUME MediumInv, M!Succeed
  PROVE  MediumInv'
<1>1. run.pc = "done" /\ run' = M!Idle /\ UNCHANGED <<disc, snap>>
      BY DEF M!Succeed, M!At
<1>0. run' \notin AskRun /\ run' \notin WorkRun
      BY <1>1, Apart
<1>2. CASE run.check
  <2>1. run \in AskRun /\ checked' = snap /\ target' = M!Blank /\ efi' = efi
    <3>1. run \in AskRun
          BY <1>1, <1>2, Apart DEF MediumInv, MediumTypes, WorkRun
    <3> QED BY <1>2, <3>1 DEF M!Succeed
  <2>2. checked = M!Nothing /\ snap \in SnapFields(snap)
        BY <1>1, <1>2, <2>1 DEF MediumInv, Checking, OfDisc
  <2>3. checked' # M!Nothing
        BY <2>1, <2>2 DEF SnapFields, M!Nothing
  <2>4. efi # M!Nothing => efi.of \notin {"run", "system"}
        BY <2>2 DEF MediumInv, Checking
  <2>5. Checking' /\ Reserving'
        BY <1>0, <2>1, <2>3, <2>4 DEF Checking, Reserving, M!Nothing
  <2>6. target' \in TargetFields(target')
        BY <2>1, FitTool DEF M!Blank, TargetFields
  <2>7. MediumTypes'
        BY <1>1, <2>1, <2>6 DEF MediumInv, MediumTypes, M!Nothing, DiscFields, EfiFields, FromMedium
  <2> QED BY <1>1, <2>1, <2>5, <2>7, Ended
<1>3. CASE ~run.check
  <2>1. run \in WorkRun
        BY <1>1, <1>3, Apart DEF MediumInv, MediumTypes, Checking
  <2>2. /\ efi' = (IF efi.of = "run" THEN [efi EXCEPT !.of = "system"] ELSE efi)
        /\ UNCHANGED <<target, checked>>
        BY <1>3 DEF M!Succeed
  <2>3. efi # M!Nothing /\ efi.of \in {"another", "run"} /\ (efi.of = "run" => efi.boot = snap.boot)
        BY <1>1, <2>1 DEF MediumInv, Reserving
  <2>4. /\ efi \in EfiFields(efi) /\ checked # M!Nothing
        /\ FromMedium(snap.lock, snap.boot) /\ run.p = snap.lock
        BY <2>1, <2>3 DEF MediumInv, MediumTypes, Checking, OfDisc
  <2>5. target.mark["committed"] = run.p
        BY <1>1, <2>1 DEF MediumInv, Advanced, OfOneLock, Past
  <2>6. /\ efi' \in EfiFields(efi') /\ efi'.of \in {"another", "system"} /\ efi' # M!Nothing
        /\ efi'.of = "system" => efi'.boot = snap.boot
        BY <2>2, <2>3, <2>4 DEF EfiFields, M!Nothing
  <2>7. Checking'
        BY <1>0, <2>2, <2>4 DEF Checking, M!Nothing
  <2>8. Reserving'
        BY <1>0, <1>1, <2>2, <2>4, <2>5, <2>6 DEF Reserving, FromMedium
  <2>9. MediumTypes'
        BY <1>1, <2>2, <2>6 DEF MediumInv, MediumTypes, M!Nothing, TargetFields, DiscFields, FromMedium
  <2> QED BY <1>1, <2>2, <2>7, <2>8, <2>9, Ended
<1> QED BY <1>2, <1>3

\* A failed run gives its reservation back.
LEMMA StepAbandon ==
  ASSUME MediumInv, M!Abandon
  PROVE  MediumInv'
<1>1. run' = M!Idle /\ UNCHANGED <<target, disc, snap, checked>> /\ efi' \in {efi, M!Nothing}
      BY DEF M!Abandon, M!Give
<1>2. run' \notin AskRun /\ run' \notin WorkRun
      BY <1>1, Apart
<1>3. Checking' /\ Reserving'
      BY <1>1, <1>2 DEF MediumInv, Checking, Reserving, M!Nothing
<1>4. MediumTypes'
      BY <1>1 DEF MediumInv, MediumTypes, M!Nothing, TargetFields, DiscFields, EfiFields, FromMedium
<1> QED BY <1>1, <1>3, <1>4, Ended

\* The process dies, or the machine.
LEMMA StepDie ==
  ASSUME MediumInv, M!Die
  PROVE  MediumInv'
<1>1. run' = M!Idle /\ UNCHANGED <<target, disc, snap>>
      BY DEF M!Die, M!Kill
<1>2. run' \notin AskRun /\ run' \notin WorkRun
      BY <1>1, Apart
<1>3. CASE efi' = M!Nothing
  <2>1. Checking' /\ Reserving'
        BY <1>2, <1>3 DEF Checking, Reserving, M!Nothing
  <2>2. MediumTypes'
        BY <1>1, <1>3 DEF MediumInv, MediumTypes, M!Nothing, TargetFields, DiscFields, FromMedium
  <2> QED BY <1>1, <2>1, <2>2, Ended
<1>4. CASE efi' = efi /\ checked' = checked /\ (efi = M!Nothing \/ efi.of # "run")
  <2>1. Checking' /\ Reserving'
        BY <1>1, <1>2, <1>4 DEF MediumInv, Checking, Reserving, M!Nothing
  <2>2. MediumTypes'
        BY <1>1, <1>4 DEF MediumInv, MediumTypes, M!Nothing, TargetFields, DiscFields, EfiFields,
           FromMedium
  <2> QED BY <1>1, <2>1, <2>2, Ended
<1>5. CASE efi' = [efi EXCEPT !.of = "dead"] /\ checked' = checked /\ efi # M!Nothing
  <2>0. efi' \in EfiFields(efi') /\ efi'.of = "dead"
        BY <1>5 DEF MediumInv, MediumTypes, EfiFields
  <2>1. Checking' /\ Reserving'
        BY <1>2, <2>0 DEF Checking, Reserving
  <2>2. MediumTypes'
        BY <1>1, <2>0 DEF MediumInv, MediumTypes, M!Nothing, TargetFields, DiscFields, FromMedium
  <2> QED BY <1>1, <2>1, <2>2, Ended
<1> QED BY <1>3, <1>4, <1>5 DEF M!Die

\* The medium and the reservation change under the run.
LEMMA StepOutside ==
  ASSUME MediumInv, M!Change \/ M!Replace \/ M!Clear
  PROVE  MediumInv'
<1>1. UNCHANGED <<target, run, snap, checked>>
      BY DEF M!Change, M!Replace, M!Clear, M!inst
<1>2. (disc \in DiscFields(disc) /\ FromMedium(disc.lock, disc.named))'
  <2>1. CASE M!Change
    <3>1. CASE \E m \in Medium0 : disc' = M!Composed(m)
          BY <3>1 DEF DiscFields, FromMedium, M!Composed
    <3>2. CASE \E f \in M!Carried, v \in Version : disc' = [disc EXCEPT !.has[f] = v]
          BY <3>2 DEF MediumInv, MediumTypes, DiscFields, FromMedium
    <3>3. CASE \E b0 \in Image : disc' = [disc EXCEPT !.boot = b0]
          BY <3>3 DEF MediumInv, MediumTypes, DiscFields, FromMedium
    <3> QED BY <2>1, <3>1, <3>2, <3>3 DEF M!Change
  <2>2. CASE disc' = disc
        BY <2>2 DEF MediumInv, MediumTypes, DiscFields, FromMedium
  <2> QED BY <2>1, <2>2 DEF M!Replace, M!Clear
<1>3. \/ efi' = efi
      \/ efi' = M!Nothing /\ run = M!Idle
      \/ efi' \in EfiFields(efi') /\ efi'.of = "another"
  <2>1. CASE M!Change
        BY <2>1 DEF M!Change
  <2>2. CASE M!Replace
        BY <2>2 DEF M!Replace, EfiFields
  <2>3. CASE M!Clear
        BY <2>3, Apart DEF M!Clear, M!At, MediumInv, MediumTypes, AskPc, WorkPc
  <2> QED BY <2>1, <2>2, <2>3
<1>4. OfDisc'
      BY <1>1 DEF MediumInv, OfDisc, SnapFields, FromMedium
<1>5. Targeted' /\ Advanced'
      BY <1>1 DEF MediumInv, Targeted, Advanced, OfOneLock, InPlace, Authorised, Signed, Past,
         M!Manifest
<1>6. Checking'
      BY <1>1, <1>3 DEF MediumInv, Checking, M!Nothing
<1>7. Reserving'
  <2>1. CASE efi' = efi
        BY <1>1, <2>1 DEF MediumInv, Reserving, M!Nothing, FromMedium
  <2>2. CASE efi' = M!Nothing /\ run = M!Idle
        BY <1>1, <2>2, Apart DEF Reserving
  <2>3. CASE efi' \in EfiFields(efi') /\ efi'.of = "another"
        BY <2>3 DEF Reserving, EfiFields, M!Nothing
  <2> QED BY <1>3, <2>1, <2>2, <2>3
<1>8. MediumTypes'
      BY <1>1, <1>2, <1>3 DEF MediumInv, MediumTypes, M!Nothing, TargetFields, EfiFields
<1> QED BY <1>4, <1>5, <1>6, <1>7, <1>8 DEF MediumInv

\* Every step of the medium.
LEMMA StepMedium ==
  ASSUME MediumInv, M!MediumNext
  PROVE  MediumInv'
<1>1. CASE M!InstallStep /\ UNCHANGED M!medium
      BY <1>1, StepInstall DEF M!medium
<1>2. CASE M!Fail /\ UNCHANGED M!medium
      BY <1>2, StepFail DEF M!medium
<1>3. CASE M!Load \/ M!Compare \/ M!Read \/ M!Reserve \/ M!Measure \/ M!Extract \/ M!Succeed \/ M!Abandon
      BY <1>3, StepLoad, StepCompare, StepRead, StepReserve, StepMeasure, StepExtract, StepSucceed,
         StepAbandon
<1>4. CASE \E r \in M!Request : M!Ask(r)
      BY <1>4, StepAsk
<1> QED BY <1>1, <1>2, <1>3, <1>4, StepOutside, StepDie DEF M!MediumNext, M!MediumStep

\* And every other step.
LEMMA UnchangedMedium ==
  ASSUME MediumInv, UNCHANGED <<target, run, disc, snap, efi, checked>>
  PROVE  MediumInv'
BY DEF MediumInv, MediumTypes, OfDisc, Checking, Reserving, Targeted, Advanced, OfOneLock, InPlace,
   Authorised, Signed, Past, M!Manifest, M!Nothing, TargetFields, DiscFields, SnapFields, EfiFields,
   FromMedium

\* The two promises.
LEMMA MediumPromised == MediumInv => M!OfOneMedium /\ M!ImageOfTheInstalled
<1> SUFFICES ASSUME MediumInv PROVE M!OfOneMedium /\ M!ImageOfTheInstalled
    OBVIOUS
<1>1. \A k \in M!Marked : target.mark[k] \in {d.lock : d \in Medium0} \cup {Torn}
      BY DEF MediumInv, Targeted, M!Marked
<1>2. M!OneProfile
      BY DEF MediumInv, Targeted, Pieces, M!OneProfile, M!Marked
<1>3. M!ImageOfTheInstalled
      BY DEF MediumInv, Reserving, FromMedium, M!ImageOfTheInstalled
<1> QED BY <1>1, <1>2, <1>3 DEF M!OfOneMedium

\* Only Commit makes a mark of a commit, and it finds everything in place.
LEMMA CommitIsComplete ==
  ASSUME MediumInv, M!MediumNext
  PROVE  M!CommitStep
<1>0. MediumInv'
      BY StepMedium
<1>1. SUFFICES ASSUME target'.mark["committed"] \notin {None, target.mark["committed"]}
               PROVE  M!Complete(target.mark["committed"])'
      BY DEF M!CommitStep
<1>2. M!Commit
  <2>0. target \in TargetFields(target)
        BY DEF MediumInv, MediumTypes
  <2>1. ASSUME target' \in {target, M!Blank} PROVE FALSE
        BY <1>1, <2>1 DEF M!Blank, M!Mark
  <2>2. ASSUME target'.mark = target.mark PROVE FALSE
        BY <1>1, <2>2
  <2>3. ASSUME M!WriteMark \/ M!Scaffold PROVE FALSE
    <3>1. \E o : target' = [target EXCEPT !.mark["early"] = o]
                \/ target' = [target EXCEPT !.mark["pending"] = target.mark["early"], !.mark["early"] = None]
                \/ target' = target
          BY <2>3 DEF M!WriteMark, M!Scaffold, M!Promote
    <3>2. target'.mark["committed"] = target.mark["committed"]
      <4>1. CASE \E o : target' = [target EXCEPT !.mark["early"] = o]
            BY <2>0, <4>1 DEF TargetFields, M!Mark
      <4>2. CASE target' = [target EXCEPT !.mark["pending"] = target.mark["early"], !.mark["early"] = None]
            BY <2>0, <4>2 DEF TargetFields, M!Mark
      <4> QED BY <3>1, <4>1, <4>2
    <3> QED BY <1>1, <3>2
  <2>4. ASSUME M!Snapshot \/ M!Pool \/ M!Overlay \/ M!WriteManifest PROVE target'.mark = target.mark
        BY <2>0, <2>4 DEF M!Snapshot, M!Pool, M!Overlay, M!WriteManifest, M!Put, TargetFields
  <2>5. ASSUME NEW here, NEW next, M!Forget(here, next) PROVE target'.mark = target.mark
        BY <2>0, <2>5 DEF M!Forget, TargetFields
  <2>6. ASSUME NEW here, NEW piece, NEW next, M!Bring(here, piece, next) PROVE target'.mark = target.mark
        BY <2>0, <2>6 DEF M!Bring, TargetFields
  <2>7. ASSUME NEW world, target' = M!Rectified(world) PROVE target'.mark = target.mark
        BY <2>0, <2>7 DEF M!Rectified, TargetFields
  <2>8. ASSUME M!Persist PROVE target'.mark = target.mark
        BY <2>0, <2>8 DEF M!Persist, TargetFields
  <2>9. CASE M!InstallStep
        BY <2>1, <2>2, <2>3, <2>4, <2>5, <2>6, <2>7, <2>8, <2>9
        DEF M!InstallStep, M!AuthorityStep, M!Again, M!CheckCache, M!Verify, M!Rectify
  <2>10. ASSUME M!Fail PROVE FALSE
        BY <2>1, <2>2, <2>7, <2>10 DEF M!Fail
  <2>11. ASSUME \/ M!Succeed \/ M!Abandon \/ M!Die \/ M!Change \/ M!Replace \/ M!Clear
                \/ \E r \in M!Request : M!Ask(r)
         PROVE  FALSE
        BY <2>1, <2>11 DEF M!Succeed, M!Abandon, M!Die, M!Kill, M!Change, M!Replace, M!Clear, M!Ask,
           M!inst
  <2>12. ASSUME M!Load \/ M!Compare \/ M!Read \/ M!Reserve \/ M!Measure \/ M!Extract PROVE FALSE
        BY <2>1, <2>12 DEF M!Load, M!Compare, M!Read, M!Reserve, M!Measure, M!Extract, M!Reading,
           M!Admit
  <2> QED BY <2>9, <2>10, <2>11, <2>12 DEF M!MediumNext, M!MediumStep
<1>3. run \in WorkRun /\ run.pc = "commit"
      BY <1>2, Apart DEF M!Commit, M!At, MediumInv, MediumTypes, AskPc
<1>4. /\ target' = [target EXCEPT !.mark["committed"] = target.mark["pending"], !.mark["pending"] = None]
      /\ target.mark["pending"] # None
      BY <1>1, <1>2 DEF M!Commit, M!Promote
<1>5. target \in TargetFields(target)
      BY DEF MediumInv, MediumTypes
<1>6. /\ target'.tree = target.tree /\ target'.world = target.world /\ target'.overlay = target.overlay
      /\ target'.authority = target.authority /\ target'.exec = target.exec
      /\ target'.manifest = target.manifest /\ target'.mark["committed"] = target.mark["pending"]
      BY <1>4, <1>5 DEF TargetFields, M!Mark
<1>7. target.mark["pending"] = run.p
      BY <1>3, <1>4 DEF MediumInv, Advanced, OfOneLock, Past, PastMark, WorkPc, M!Mark
<1>8. /\ target.tree = run.p["tree"] /\ target.world = run.p["world"] /\ target.overlay = run.p["overlay"]
      /\ \A l \in M!Leaf : target.authority[l] \in Sought(run.p)
      /\ \A x \in M!Executor : target.exec[x] = run.tool
      /\ target.manifest = M!Manifest(run)
      BY <1>3 DEF MediumInv, Advanced, InPlace, Authorised, Signed, Past, PastMark, Halfway, WorkPc
<1>9. M!Manifest(run).profile = run.p /\ M!Manifest(run).tool = run.tool /\ M!Manifest(run) # None
  <2>1. PICK m \in Medium0 : run.p = m.lock
        BY <1>3 DEF MediumInv, OfDisc, FromMedium
  <2>2. M!Manifest(run) \in [profile : M!Profile, tool : Tool]
        BY <1>3, <2>1, FitMedium DEF M!Manifest, WorkRun
  <2> QED BY <2>2, FitTool DEF M!Manifest
<1> QED BY <1>6, <1>7, <1>8, <1>9 DEF M!Complete, Sought

-----------------------------------------------------------------------------
(* The composition.                                                         *)

\* The part that runs never changes.
LEMMA PartStays ==
  ASSUME [Next]_vars
  PROVE  part' = part
BY DEF Next, vars, DiskTurn, MediumTurn, TreesTurn

\* For any disks, tables, sizes and bounds: what is laid out lies between the copies of the
\* table and is as large as was promised, what is formatted is on the disk that was chosen
\* and never on the medium, and a root that starts holds the whole system, wherever the
\* power was cut (partition.rs, install_disk.rs and the init).
THEOREM DisksAreSound == FairInstaller => []DiskIsSound
<1> DEFINE Inv == part = "disk" => DiskInv
<1>1. DiskAssumption
  BY InstallerIsFit
<1>2. Init => Inv
  BY <1>1, DiskInvAtFirst DEF Init
<1>3. Inv /\ [Next]_vars => Inv'
  <2> SUFFICES ASSUME Inv, [Next]_vars, part' = "disk"
               PROVE  DiskInv'
    OBVIOUS
  <2>1. part = "disk"
    BY PartStays
  <2>2. [DiskNext]_dvars
    BY <2>1 DEF Next, MediumTurn, TreesTurn, vars, ofDisk
  <2> QED
    BY <1>1, <2>1, <2>2, DiskInvKept
<1>4. Inv => DiskIsSound
  BY <1>1, DiskFollows DEF DiskIsSound
<1> QED
  BY <1>2, <1>3, <1>4, PTL DEF FairInstaller

\* For any paths, directories, archives and bounds: what the composer accepts the installer
\* extracts as it was when nothing changes on the way, and whatever changes, nothing is
\* extracted but what was validated (tree.rs, decode_entries and write_entries).
THEOREM ExtractedAsValidated == FairInstaller => []TreesAreKept
<1> DEFINE Inv == part = "trees" => TreesInv
<1>1. T!TreesAssumption
  BY InstallerIsFit
<1>2. Init => Inv
  BY <1>1, TreesInvAtFirst DEF Init
<1>3. Inv /\ [Next]_vars => Inv'
  <2> SUFFICES ASSUME Inv, [Next]_vars, part' = "trees"
               PROVE  TreesInv'
    OBVIOUS
  <2>1. part = "trees"
    BY PartStays
  <2>2. [T!TreesNext]_<<ofTrees, changes>>
    BY <2>1 DEF Next, DiskTurn, MediumTurn, vars
  <2> QED
    BY <1>1, <2>1, <2>2, TreesInvKept
<1>4. Inv => TreesAreKept
  BY DEF TreesInv, TreesAreKept
<1> QED
  BY <1>2, <1>3, <1>4, PTL DEF FairInstaller

\* For any media, locks, builds and bounds: whatever is put in the drive between two reads,
\* and wherever a run is cut, a target is marked with the lock of one medium as it was composed
\* and holds pieces of that lock only; the boot image a finished run leaves is that medium's;
\* and the commit is made over all of it (media_install.rs and install.rs).
THEOREM TargetOfOneMedium == FairInstaller => OfOneMedium
<1> DEFINE Inv == part = "medium" => MediumInv
<1>1. Init => Inv
      BY FirstMedium DEF Init
<1>2. ASSUME Inv, [Next]_vars PROVE Inv'
  <2>1. SUFFICES ASSUME part' = "medium" PROVE MediumInv'
        OBVIOUS
  <2>2. CASE UNCHANGED <<part, ofMedium>>
        BY <1>2, <2>1, <2>2, UnchangedMedium DEF ofMedium
  <2>3. CASE MediumTurn /\ M!MediumNext
        BY <1>2, <2>3, StepMedium DEF MediumTurn
  <2> QED BY <1>2, <2>1, <2>2, <2>3 DEF Next, vars, DiskTurn, TreesTurn
<1>3. Inv => (part = "medium" => M!OfOneMedium /\ M!ImageOfTheInstalled)
      BY MediumPromised
<1>4. Inv /\ [Next]_vars => [MediumTurn => M!CommitStep]_vars
  <2>1. SUFFICES ASSUME Inv, Next, MediumTurn PROVE M!CommitStep \/ UNCHANGED vars
        BY DEF vars
  <2>2. CASE M!MediumNext
        BY <2>1, <2>2, CommitIsComplete DEF MediumTurn
  <2> QED BY <2>1, <2>2 DEF Next, DiskTurn, TreesTurn, MediumTurn
<1> QED BY <1>1, <1>2, <1>3, <1>4, PTL DEF FairInstaller, OfOneMedium
=============================================================================
