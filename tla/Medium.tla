------------------------------- MODULE Medium -------------------------------
(***************************************************************************)
(* minipax install-media (src/minipax/src/media_install.rs) and the order  *)
(* the live system calls it in: the medium is checked, a disk is erased,   *)
(* and the medium is installed on it.  The medium is read piece by piece,  *)
(* and it may be changed for another or lose a piece between two reads;    *)
(* what is installed is what was extracted, if it reproduces the lock.     *)
(***************************************************************************)
EXTENDS Installer

CONSTANTS Boot,      \* images of the boot loader
          Medium0,   \* the media as composed: lock and boot image of each
          MaxChange

MediumAssumption ==
  /\ InstallerAssumption /\ MaxChange \in Nat
  /\ \A m \in Medium0 : m.boot \in Boot /\ m.lock \in Profile /\ m.lock["world"] \in Version

\* A medium names a lock and an image (media.meta), and carries the pieces
\* but the plan, which a lock may name and no medium carries.
Carried == Piece \ {"plan"}
Composed(m) ==
  [lock |-> m.lock, named |-> m.boot, boot |-> m.boot,
   has |-> [m.lock EXCEPT !["plan"] = None]]

VARIABLES disc,     \* the medium in the drive
          snap,     \* what the run has read of it
          efi,      \* the exported boot image, and whose it is
          checked,  \* what --check read, once it passed and the disk is erased
          changes

medium == <<disc, snap, efi, checked, changes>>

Nothing == [lock |-> None]

MediumInit ==
  /\ InstallerInit
  /\ disc \in {Composed(m) : m \in Medium0}
  /\ snap = Nothing /\ efi = Nothing /\ checked = Nothing /\ changes = 0

\* Another medium in the drive, or a piece that no longer reads as it did.
Change ==
  /\ changes < MaxChange /\ changes' = changes + 1
  /\ \/ disc' \in {Composed(m) : m \in Medium0} \ {disc}
     \/ \E f \in Carried, v \in Version :
          disc.has[f] \notin {None, v} /\ disc' = [disc EXCEPT !.has[f] = v]
     \/ \E b \in Boot : b # disc.boot /\ disc' = [disc EXCEPT !.boot = b]
  /\ UNCHANGED <<inst, snap, efi, checked>>

----------------------------------------------------------------------------
(* load_media: the lock and the boot image against media.meta, the cache   *)
(* and the seed against the lock.  The rest is read, and not compared.     *)

Ask(r) ==
  /\ At("idle") /\ r.check = (checked = Nothing)
  /\ run' = [r EXCEPT !.pc = "load"]
  /\ UNCHANGED <<target, kills, failures, medium>>

Require(held, next) == Goto(IF held THEN next ELSE "failed")
Reading == UNCHANGED <<target, kills, failures, disc, efi, checked, changes>>

Load ==
  /\ At("load") /\ Reading
  /\ snap' = [lock |-> disc.lock, boot |-> disc.boot, has |-> disc.has]
  /\ Require(disc.boot = disc.named, "compare")

Compare ==
  /\ At("compare") /\ Reading
  /\ snap' = [snap EXCEPT !.has = disc.has]
  /\ Require(\A f \in {"cache", "seed"} : disc.has[f] = snap.lock[f], "read")

\* The pieces kept in memory; the cache is too large, and stays there.
Read ==
  /\ At("read") /\ Reading
  /\ snap' = [snap EXCEPT !.has = [disc.has EXCEPT !["cache"] = snap.has["cache"],
                                                   !["seed"] = snap.has["seed"]]]
  /\ Goto(IF run.check THEN "done" ELSE "reserve")

\* The output of the image is taken before anything is written.
Reserve ==
  /\ At("reserve")
  /\ IF efi = Nothing
     THEN efi' = [lock |-> snap.lock, boot |-> snap.boot, of |-> "run"] /\ Goto("measure")
     ELSE UNCHANGED efi /\ Refuse
  /\ UNCHANGED <<target, kills, failures, disc, snap, checked, changes>>

\* The cache is gone through twice, once to measure it and once to write it.
Measure ==
  /\ At("measure") /\ Reading
  /\ snap' = [snap EXCEPT !.has["cache"] = disc.has["cache"]]
  /\ Goto("extract")

\* Mutant: what was extracted is not compared with the lock again.
ReproducesAnything(work) == TRUE

\* resolved_from_media: what was extracted must reproduce the lock.
Reproduces(work) == work = snap.lock

Extract ==
  /\ At("extract")
  /\ \E work \in {[snap.has EXCEPT !["cache"] = c] : c \in {snap.has["cache"], disc.has["cache"]}} :
       IF work["cache"] = disc.has["cache"] /\ Reproduces(work)
       THEN Admit([pc |-> "admit", p |-> work, tool |-> run.tool, resume |-> run.resume, check |-> FALSE])
       ELSE Refuse /\ UNCHANGED <<target, kills, failures>>
  /\ UNCHANGED medium

----------------------------------------------------------------------------
(* The ends of a run: the reservation is kept by success, and removed by   *)
(* failure if it is still the file the run made.                           *)

Succeed ==
  /\ At("done") /\ run' = Idle
  /\ IF run.check
     THEN checked' = snap /\ target' = Blank /\ UNCHANGED efi
     ELSE /\ efi' = IF efi.of = "run" THEN [efi EXCEPT !.of = "system"] ELSE efi
          /\ UNCHANGED <<target, checked>>
  /\ UNCHANGED <<kills, failures, disc, snap, changes>>

Give == IF efi # Nothing /\ efi.of = "run" THEN efi' = Nothing ELSE UNCHANGED efi

Abandon ==
  /\ At("failed") /\ run' = Idle /\ Give
  /\ UNCHANGED <<target, kills, failures, disc, snap, checked, changes>>

\* Someone puts a file of his own under the name.
Replace ==
  /\ changes < MaxChange /\ changes' = changes + 1
  /\ efi' = [lock |-> None, boot |-> None, of |-> "another"]
  /\ UNCHANGED <<inst, disc, snap, checked>>

\* The process dies and leaves its reservation, or the machine does, with
\* everything that was in memory.
Die ==
  /\ Kill
  /\ \/ efi' = (IF efi # Nothing /\ efi.of = "run" THEN [efi EXCEPT !.of = "dead"] ELSE efi)
        /\ UNCHANGED checked
     \/ efi' = Nothing /\ checked' = Nothing
  /\ UNCHANGED <<disc, snap, changes>>

\* The operator removes what a dead run, or another, left under the name.
Clear ==
  /\ At("idle") /\ efi # Nothing /\ efi.of # "system" /\ efi' = Nothing
  /\ UNCHANGED <<inst, disc, snap, checked, changes>>

Request == [pc : {"asked"}, tool : Tool, resume : BOOLEAN, check : BOOLEAN]

\* The command that fits the target: the build that is there, --resume over
\* a marker.
Fits(r) ==
  /\ r.resume = (Marked # {})
  /\ target.manifest \notin {None, Torn} => r.tool = target.manifest.tool
  /\ \A x \in Executor : target.exec[x] \in {None, r.tool}
  /\ Packaged[disc.lock["world"]] \in {None, r.tool}

MediumStep ==
  \/ Load \/ Compare \/ Read \/ Reserve \/ Measure \/ Extract \/ Succeed \/ Abandon
  \/ InstallStep /\ UNCHANGED medium

MediumNext ==
  \/ MediumStep \/ Change \/ Replace \/ Die \/ Clear
  \/ Fail /\ UNCHANGED medium
  \/ \E r \in Request : Ask(r)

mvars == <<inst, medium>>

FairMedium ==
  /\ MediumInit /\ [][MediumNext]_mvars
  /\ WF_mvars(MediumStep) /\ SF_mvars(Clear)
  /\ SF_mvars(\E r \in Request : Fits(r) /\ Ask(r))

----------------------------------------------------------------------------

\* A target is never made of two media: what marks it is the lock of one that
\* was composed, though the disc may change between any two reads, and every
\* piece in it is of that lock.
OfOneMedium ==
  /\ \A m \in Marked : target.mark[m] \in {d.lock : d \in Medium0} \cup {Torn}
  /\ OneProfile

\* The boot image a finished run leaves is that of the medium installed, and
\* the installation is complete; nobody else's file is removed or kept.
ImageOfTheInstalled ==
  efi # Nothing /\ efi.of = "system" =>
    \E m \in Medium0 : m.lock = target.mark["committed"] /\ m.boot = efi.boot

\* src/bootstrap/live/init:753: a disk is erased for a sound medium only.
CheckedIsSound == checked # Nothing => checked.has = checked.lock

\* Commands repeated on a medium that stays (Hopeful) end with the profile
\* installed, unless a marker or the manifest was cut in its write.
Hopeful ==
  /\ \E m \in Medium0 : disc = Composed(m) /\ m.lock["plan"] = None
  /\ \A k \in Marked : target.mark[k] = disc.lock
  /\ target.manifest # Torn \/ Working
Committed == target.mark["committed"] # None

TypeOK ==
  /\ target.mark \in [Mark -> {None, Torn} \cup [Piece -> Version \cup {None}]]
  /\ DOMAIN target = DOMAIN Blank /\ target.by \subseteq Tool
  /\ target.exec \in [Executor -> Tool \cup {None}]
  /\ efi = Nothing \/ efi.of \in {"run", "dead", "system", "another"}
  /\ kills \in 0..MaxKill /\ failures \in 0..MaxFail /\ changes \in 0..MaxChange
=============================================================================
