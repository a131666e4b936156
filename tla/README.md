# Distrópica: a TLA+ verification of its package manager and installer

Distrópica is a source-based Linux distribution. Its program is `minitrue`, the
package manager (`src/minitrue`, Rust); `minipax` (`src/minipax`) builds media,
installs the system and updates its boot entries; `newspeak` holds the recipes,
`bootstrap` the shell scripts that build the first root, `specs/SPEC-00xx` the
prose. This directory models the parts of it where an error destroys a system
or makes it say what is not so: what `minitrue` does to the live root, when two
packages want the same path and when the process dies in the middle; what a
plan, a record and a receipt claim; where sources, builds and channels come
from; how media, keys and images are published; and how a disk is installed.

Every definition is translated from the source; `PROJECT.json` ("map")
names the lines. The specifications in prose are used only as the statement of
what is promised. Unless said otherwise `install.rs` is
`src/minitrue/src/install.rs`.

## 1. Inventory

| Component | State it keeps | Operations | Hard part | What makes it correct | Module |
|---|---|---|---|---|---|
| Undo journal (install.rs 5220-5960) | `journal/<pkg>/{format,txid,log,backup/<n>}`, the live root | `begin`, `stash`, `place_*`, `ensure_dir`, `drop_path`, `commit`, `rollback`, `recover_all` | death between any two system calls, in the rollback too; copying across file systems | write-ahead; exact rollback; final commit; at most one active journal; every journal retired | `Journal` |
| World-B installation (`install_sealed_source`, `apply_stage`, `write_record`) | the STAGE, the old and the new manifest in memory; `records/<pkg>` | preflight, apply, removals, record, commit | many files, one commit mark; removals after placements; failure anywhere | atomic for everyone who recovers first; records describe the root; nothing orphaned | `WorldB` |
| Ownership, `D:` claims and cessions | manifests and baselines of all packages, recipes | index of claims, doublethink, `adopt_provisional_path`, proof of a cession | any order of packages, upgrades and refreshes; directories shared by rule | no two owners, a cession always proved | `WorldB` |
| Root lock and command entry (`RootLock`) | `flock` on the root and on the state directory | acquire, release on return or death | which commands sweep the journals and which do not | one writer; recovery before any change | in every module of `minitrue` |
| Removal (`memoryhole`) | records, world file; judged claims in memory | reverse dependencies, judge claims, remove paths, record, world | no journal: it may die half way, or be refused at a later name | edits survive; no path of another package removed; nothing left behind; a second run finishes | `Removal` |
| World A (`install_binary`) | `/opt/<p>/<v>`, `current`, links, record | place, switch `current`, links, record, retention | three kinds of renames and a record, without a journal | a command goes on answering; a link has one owner; the version a record names is there | `WorldA` |
| Plan (`plan.rs`) | nothing between commands: recipes, records and channel go in, a document comes out | resolve, verify, close whole or in part, observe libraries, emit | four places decide again what one of them decided | what one accepts the next accepts; what a record observed is so | `Plan` |
| Applied world (`plan.rs`, `rectify`) | records of formats 3 and 4, plan locks, receipts, the pointer `current` | install, bind, publish a receipt, rename the pointer, recover | a command that fails or dies between any two files | a receipt tells what is installed; a failure keeps the work done; repeated commands close | `Rectify` |
| Recipe tree (`arvore.rs`) and channels (`channel.rs`) | the tree, `.novo`, `.anterior`; the index and signature of each channel | download, authenticate, stage, exchange, repair | a site that publishes between two downloads; cuts; an older algorithm on the same names | a reader never pairs two generations; nothing accepted is lost; a record is explained by a sealed index | `Updates` |
| Cache of sources (`fetch.rs`) | sources by hash, signatures and signed manifests | download, authenticate, promote without replacing | several processes, a site that publishes again, edits | the cache holds what its names say | `Fetch` |
| Evidence of signatures (`recipe.rs`, `openpgp_schema.rs`, `fetch.rs`, `plan.rs`) | the inputs of a plan, their hashes or `pending`, the applied plan | load, state, authenticate, seal, reuse, verify | five mechanisms that may not be mixed; what is stated and what is asked are two lists written apart | the verifier admits whatever a recipe that loads makes the plan state; a sealed plan leaves nothing open | `Evidence` |
| Builds (`create_build_view`, `retain_local_stage`, `sealed_channel_snapshot`) | retained stages, `stages/`, emitted channels | view, build, seal, retain, install, emit, take back | files that change between two looks | a record says a fingerprint only of what was made of it | `Build` |
| `channel keygen`, `channel sign` (`sign.rs`) | a private directory with `OWNER`, `REQUEST`, `READY`; final files | prepare, seal, publish, erase, resume | kill and power cut anywhere; a message that changes | a pair is whole; a signature is of the message it lies beside | `Sign` |
| Publication of a medium (`media.rs`) | the same, and a tombstone | prepare, seal, promote, roll back, recover | four files, one of them the image; a stranger; no `renameat2` | the image never before its sidecars; a retry ends | `Media` |
| Licences of a medium (`licenses.rs`) | `media/<hash>` and its staging directory | lay out, prove, name, prove again | kills, power cuts, two installers | the named directory is whole | `Licenses` |
| Installation of a medium (`minipax` `install.rs`, `media_install.rs`) | early marker, `pending`, `profile.lock` | reserve, install, resume, complete | the medium changes as it is read; anything may fail | a complete target is of one medium; a resume ends | `Installer`, `Medium` |
| Trees of a medium (`tree.rs`) | the archive | collect, pack, decode, write | files change between two passes | what is extracted is what was sealed | `Trees` |
| Disk installation (`install_disk.rs`, `partition.rs`, `init`) | the decision, the partition table | screens, check, lay out, format | the kernel lags behind the table; power cut | only what was confirmed is destroyed; what is used fits | `DiskInstall` |
| Boot entries (`boot_update.rs`, `efi_boot.rs`) | the EFI partition, two NVRAM entries | stage, rotate, register | power cut on FAT; firmware that forgets | something boots | `Boot` |
| Live EFI publication (`bootstrap/live/live-lock-helper.c`, `command_publish`) | a journal directory with stages and marks; four outputs | stage, link, commit, reconcile, clean up | kill and power cut at every system call, a retry over what is there, a second publisher | the bootable output never without its sidecars; success is durable; a retry finishes | `Publish` |
| Records and their judges (`record_is_intact`, `verify_historical_record`, `migrate_*`, `verify`) | the five files of `records/<p>`, in formats 0 to 4 | judge, migrate, rebuild, close | three judges written apart; old formats; a death between two files; cessions | they agree on what this version closed; a migration loses no proof | `Records` |
| `/etc` (`materialize_etc`) | live `/etc`, factory, the proof of the previous default | three-way decision | administrator's edits against a new default, over upgrades, removals and successions | an edit is never lost; what is not edited follows | `Etc` |
| Syntax of recipes, ELF reader, `attest`, `pack`, TUI, live lock documents, scripts, recipes | none between steps | parsing, drawing, checking | none | inputs of the models | not modelled |

How they interact. A command takes `RootLock`, sweeps the journals
(`recover_all`), loads records, and only then plans. The plan (`rectify`) runs
one installation after the other, each of them one journal transaction.
`Journal` knows nothing of ownership except in two places: the commit mark it
looks for is the `TRANSACTION_ID` that `write_record` puts in the meta file, and
before it reverts an orphan it compares the log with the claims of all other
records. Cessions change *another* package's manifest inside the journal of
the successor. That triangle (journal, records, claims) is the core. Around it:
the tree and the channels (`Updates`) and the cache (`Fetch`) say what may be
installed, `Plan` decides it, `Evidence` says who signed it, `Build` makes it, `WorldB` and `WorldA` put it in
place, `Rectify` closes the whole with a receipt, `Removal` takes it away.
`minipax` starts a machine (`DiskInstall`, `Medium`, `Trees`, `Installer`,
`Licenses`) with what `Media`, `Sign` and `Publish` made, and keeps it booting
(`Boot`).

## 2. Modules

| Module | Role |
|---|---|
| `Journal`, `WorldB`, `AtomicInstall` | the core: `WorldB` is the caller `Journal` really has, and implements the abstract `AtomicInstall` |
| `Removal`, `WorldA`, `Rectify`, `Updates`, `Boot`, `Publish` | specifications of one component each |
| `Sign`, `Media` | the same, composed with `Boot` in `MCDesk` |
| `Installer` under `Medium`; `DiskInstall`, `Trees` | composed in `MCInstaller` |
| `Licenses` | composed with `Publish` in `MCPublish` |
| `Records`, `Etc` | composed with `Removal` in `MCRemoval` |
| `Plan`, `Fetch`, `Evidence`, `Build` | composed in `MCSupply` |
| `MCJournal`, `MCWorldB`, `MCRemoval`, `MCWorldA`, `MCRectify`, `MCUpdates` | instances for TLC |
| `WorldBProofs` (with `Journal`'s), `RectifyProofs`, `RemovalProofs`, `WorldAProofs`, `UpdatesProofs`, `FetchProofs` (with `Evidence`'s and `Build`'s), `ComposedProofs` (of `MCSupply` and of `MCDesk`'s `Sign` and `Boot`), `InstallerProofs` | theorems (section 4) |

A composition puts components side by side that share no step: each knows of
the others only that they ended, or nothing. Its state has a variable that says
which of them this behaviour is about, chosen at first, and every other
component stays at a fixed value; every interleaving of each is explored, and
no product of them.

### Journal

`fs` is the root, a function from paths to nodes. A node has a kind (absent,
partial, file, dir), the transaction that wrote it (`by`, which stands for the
bytes) and, for a manifest, the claims it lists. A record is its manifest and
its meta; the meta node's `by` is its `TRANSACTION_ID`, its `claims` are the
baseline `manifest@VERSION` that the meta binds by hash. `journal[p]` is
`journal/<p>`: id and log; `saved` of a log line is `backup/<n>`.

Each action is one system call, or a run of them of which no prefix can be told
apart. `Intend` is a primitive up to its first log line (`Stash` is `stash`);
`MoveAside`, or `CopyAside` and `UnlinkOriginal`, is `move_path` in one file
system or across two; `Create` and `Fill` write the leaf; `WriteTmp`,
`IntendSwap`, `Swap` are `place_bytes`; `Commit` is `commit`. `Fail` is any `?`
on the way, after which the caller calls `rollback`. `Undo*`, `ClearForRestore`,
`Restore`, `RestoreByCopy`, `UnlinkBackup`, `SkipRestored`, `UndoUnsafe` are
`replay_rollback` line by line, `Sweep*` are `recover_all`, and each `bail!` of
recovery is a value of `verdict`. `Crash` loses every variable of the process
and keeps `fs` and `journal`.

`CallerContract` is the only thing assumed of the caller: the meta file is
written once, last, by `place_bytes`; a path that its own transaction emptied is
not opened again; with `Reopen = FALSE` no path is replaced twice. `WorldB`
discharges it by model checking (`sharing`) and by proof (`ContractKept`).

### WorldB

`job` is what `install_sealed_source` holds in memory. `InstallBegin` is the
whole preflight and `Journal::begin`; `Cede`, `SkipCeded`, `PlaceLeaf`,
`MakeDir`, `KeepDir` are the branches of the loop of `apply_stage`; `StageDone`
and `DropOld` its second half; `RecordManifest` and `RecordMeta` are
`write_record` after the file names irrelevant here; `InstallCommit` and
`WorldAdd` the end. `Preflight` keeps the shape of the code: the index answers
with the nearest claim above (`Nearest`) or the first below (`FirstOf`), in byte
order (`Rank`), and it is that answer, not the set of all claims, which is
allowed or refused.

### AtomicInstall

One variable, the root; one action, `Install(p)`, which states the effect of an
installation as a relation between before and after. `WorldB` implements it with
`root <- View`, where `View` is the root as recovery will leave it: the undone
one while a transaction without commit mark is pending. All system calls but one
stutter; the rename of the meta file is the step. A missing directory may appear
without an owner: inside a `D:` of its dependency a package claims no empty
directory, and of one whose contents were all ceded it claims nothing either.

### Publish

The journal directory is `live` and, for each of the names it may hold, a
`slot`: the dot name a file is written under and the final name. `out` are the
hard links beside it, `file` the inodes. `proc[p]` is one run of the program:
where it is, and the tasks it still has to do. The straight-line parts of
`command_publish` are lists of tasks (`Publication`, `Reconciliation`,
`Finishing`, `Terminal`, `Cleanup`), one task per call of a helper, and each
helper is a few actions of one system call each (`put` is `ensure_state_file`
and `ensure_stage_file`: `Find`, `Discard`, `CreateTemp`, `WriteTemp`, `Flush`,
`VerifyTemp`, `RenameTemp`, `Confirm`, and the syncs between them). `Look`,
`Decide`, `Judge` and `Ready` are the branches that choose a list. Every
`die()` ends the run with the result `died`.

Durability is modelled: `since` keeps, for every directory entry, the values it
has had since its directory was last synced. A power cut (`PowerCut`) leaves
each entry at any of them, independently of the others, and may tear a file
that was not synced; a `Kill` loses the process only, as the failpoints of the
program's own test do. That test kills at named points and never cuts power.
`open` tells whether a process's descriptor is that of the directory now in
place: `rmdir` goes by name and leaves another publisher with a removed one.

### Removal

`record[p]` is what there is of `records/<p>`: the directory, `meta` (a record
counts if it is there) and `manifest` (without which a record that counts cannot
be read); `claims[p]` what the manifest lists. `run` is the memory of one
`memoryhole`: the names left, all that were asked for, the claims still to handle
and those found modified. `Memoryhole` is everything before the loop; `NoRecord`,
`Sustained`, `NoMeta` are its refusals; `Judge` is the judgement of all claims;
`RemovePath` one turn of the inner loop; `EraseRecord` one step of
`remove_dir_all`, in any order, as the directory's order is not specified;
`WorldRemove` the end of a name. `Crash` is death, or the error of a system call,
at any of them: nothing is undone.

It stands beside `WorldB`, not over it: installation is one step, which is what
the refinement of `AtomicInstall` allows, and no journal is pending, since the
command sweeps first. The administrator's edits, which `WorldB` leaves out, are
here (`Edit`), between commands: the repository's README (line 954) requires
exclusive control of the root during one.

### Records

`record` has the files of one record: `manifest` (what is claimed now), `base[v]`
(`manifest@v`, all that was claimed when version `v` was installed), `recipe`,
`recipeAt[v]` and `meta`, whose `sealed` stands for the hash of the baseline and
`bound` for the plan it is closed by. A claim is what its form shows of a path:
nothing (format 0), the content (1), content and mode (2 and later), or the mode
of a shared directory. Three operators judge: `Intact` (the fast path, before and
inside a command), `Historical` and `Clean` (no complaint of `verify`).
`MigrateTyped` and `MigrateLegacy` are the two migrations, tried before an
installation; `InstallSource` and `InstallUnjournaled` rebuild the package, the
latter followed by `WriteFile` for each file of the record, which a death
(`Stop`) may cut; `Close` observes what was written and binds it to the plan.
Between commands a successor takes paths of a provisional (`Cede`) or leaves, the
administrator edits, and another tree of recipes comes (`Newspeak`). It begins
with a record as an earlier version of the program left it.

### Etc

`factory` is the default a package brings, `seal` the proof its record has of it,
`live` the file of `/etc`, `beside` its `.new`. `Materialize` is the decision;
`since` is a history variable: why `live` may differ from the default, since it
last did not.

### WorldA

A recipe also stands for the tree its `install_pkg` unpacks. `dirs[p]` are the
directories of `/opt/p`, `cur` and `usr` the symlinks, `rec[p]` the files of its
record. The run is a program counter over `install_binary`: `Decide` is
everything before the first change (its refusals, and what stays in memory),
then the version is placed by one rename, `Cede` rewrites the record of a seed
being superseded, `current` is turned, each link is written, links no longer
wanted are removed, the record is written last, and old versions pruned. `Stop`
is a kill or a `?` anywhere; nothing is undone. `Memoryhole` is the world-A
branch of the removal.

### Rectify

`record` is of format 3 (written by an installation) or 4 (bound to a plan
lock); `locks`, `slices`, `receipts`, `current` and the temporaries are the
applied world. One installation is one step, which is what `AtomicInstall` allows. The
closing is file by file: lock, slices, meta of each bound record, receipt,
pointer. `Recover` is what a command does first with what a dead one left. A
command that fails closes in part (`Roots`): what it finished is bound, without
a receipt.

### Updates

`files` is what system calls see, `past` the set of what a power cut may leave
of it: directory operations reach the disk in order and an `fsync` brings the
earlier ones along (ext4), the data of an unsynced file may be lost. Both kinds
of object are a pair `[body, sig]`; the site publishes between any two
downloads. `Settle` is the repair of what a run of either algorithm left;
`Seal` is the sync that ends an exchange, `PersistLock` publishes the lock of a
selection, and only then does a record name it. `StartTree`, `StartRefresh`, `StartSync` are
the three commands.

### Plan

Three layers. `Resolve` is the resolver: which package is built, taken from the
channel, or kept, and by which evidence. `Accepted` is the verifier, which
derives the conditions again from the document alone. The machine is a life of
commands: a tree may change, a plan is applied package by package, may fail,
is closed whole or in part, and may be emitted as a channel another command
uses. A library is found in the first directory that has it and charged to the
package whose record claims the file: that is `Observe`, and `Reusable` when an
earlier observation may stand for a new one.

### Fetch

`cache` is a function from names to contents; a process goes through its
sources and the groups (artifact, signature, signed manifest) that authenticate
them, downloads under a temporary, checks, and promotes without replacing. The
site may publish again between any two downloads; two processes race for each
name; somebody may edit a file (the property excludes what was edited).

### Evidence

A recipe is its kind, how many sources, hashes and minisign signatures it has,
and its signature fields, each a family and an index. The operators follow the
code's division of labour: `Loads` is what `recipe.rs` and
`parse_signature_plan` refuse, `Inputs` what `plan` writes of a recipe that
loads, `Observed` what authentication looks at, and `Admitted` what the
verifier asks of the same inputs, knowing the document alone. The actions carry
one node through its life: `State`, then `Measure`, `Reuse` (the seal of the
plan applied before, if it covers all that is open) or `Pass` (a payload of a
channel), then `Apply`.

### Build

What a package is made of is a set of pairs (package, generation): a
fingerprint is what ought to go in, a content what did, and the hash of a
content is the content. A command freezes fingerprints of one tree, makes a
view of what the records of the build closure claim, builds, seals, retains,
installs and records; an emission (`Compress`, `Rename`) makes a channel of what is
retained, and another command takes it from there (`Receive`). The closure is
the least set closed under the providers. Edits change the source, the live
root, a retained stage, or the runner's files, between any two looks.

### Sign, Media, Boot (`MCDesk`)

`Sign` and `Media` publish by the same protocol, written twice in the code: a
private directory of a fixed name, controls that bind names, contents and
inodes, moves without replacement, erasure; a run that finds the directory of a
dead one resumes, starts over or refuses. In `Sign` power cuts are modelled (a
rename since the last sync of its directory may come undone, as a whole), in
`Media` kills, failures, a stranger and the fallback without `renameat2`.
`Boot` is `boot-update`: the partition is FAT, so the directories after a cut
are those of some moment since the last sync and an unsynced file may be torn;
the firmware may forget its list, and the machine boots what it finds.

### DiskInstall, Trees, Installer, Medium (`MCInstaller`)

`DiskInstall` has the screens (which decide and confirm), the kernel's view of
a table (which may be the one before), the init (which decides again) and the
layout. `Trees` follows one tree from the composer's directory to the
installer's: collect, pack, decode, write, with the files changing between the
passes. `Medium` reads the medium piece by piece, which may be exchanged
between two reads, and installs by `Installer`, in which a marker says how far
an installation went and `--resume` repeats it from the start.

### Licenses

`media` gives the directory under each of the two names, `tree` what a directory
has, `inode` the file each installer created in it, `disk` what of this was
synced. `run[p]` is one installer. The
staging directory has a name known beforehand, so that two installers of one
bundle work in one directory; one rename without replacement gives it its name.

### What is abstracted

Names, contents, hashes, modes and times are model values or conditions
wherever no property is about them. Per module:

- `Journal`, `WorldB`. A claim's integrity is that its file was written by the
  transaction its record names. A path is a directory or a leaf for good, and
  symbolic links inside paths are left out. Nobody but `minitrue` edits the root
  (the tests of integrity that preserve an administrator's file take their usual
  branch). Files of a record other than manifest and meta, the directory
  `records/<p>`, and the empty `.new-*` and `.committed-*` directories around
  the activation and the retirement of a journal (one rename each) are left out.
  The write-ahead order is that of the system calls: the code flushes but does
  not `fsync`, so a *process* may die, the kernel does not lose writes.
  `materialize_etc` is left out of `apply_stage`: a STAGE holds no `/etc`. `by`
  is typed by `Nat` and transaction ids grow: the code's id is pid, time and
  serial, used only for equality.
- `Removal`. World B and meta packages, installed afresh (no refresh or upgrade,
  no cessions, each path in one recipe); manifests are well formed (the code
  refuses others before the first removal).
- `Records`. One package, whose installation is one step but for the files of the
  record where no journal covers them; of the others only the successor, as a set of
  paths. A revision of the recipe stands for its fingerprint; a version may be
  that of several. The provenance of a channel, hashes of sources and the text of
  the files are left out; a death inside `Pruned` too (it comes with the
  installation). `Etc`. Extended attributes, kinds other than files and links,
  failures.
- `WorldA`. Staging and work directories, rebuilt by every run; collisions of
  `/opt/NAME` with claims of another package; records of older formats (they are in
  `Records`); `deps`.
- `Rectify`. One installation is one step; each publication is temporary, sync,
  rename, sync, so that a power cut leaves what a kill would.
- `Updates`. The unpacking of the tree and its limits, licences, the syntax of
  an index. A channel's content is its release.
- `Plan`. The text of the documents, virtual packages, versions. `Fetch`. HTTP
  and retries of a mirror; the OpenPGP engine (a signature is of one
  publication or of none); a waiver is static. `Evidence`. The values of fields
  and what a waiver says; identifiers the verifier admits and nothing writes;
  recipes without hashes (`--tofu`). `Build`. The toolchain and the
  sandbox.
- `Publish`. A request stands for the contents of the four outputs; files
  foreign to the program in the journal, and errors of system calls other than
  those a state of the model causes, are left out (a failed call ends the run,
  as `Kill` does anywhere).
- `Sign`, `Media`, `Licenses`. Modes, owners and foreign files, the formats of
  what is published, the cryptography; in `Media` power cuts.
- `Boot`. The parsing of a load option. `Installer`, `Medium`. Power cuts;
  installing straight from a profile's directory. `DiskInstall`. Drawing, CRCs
  and GUIDs; sizes are in sectors. The kernel has caught up when the init reads
  the table (a guard of `ReadDecision`): the init's own check compares them.
  A failure of the text interface is the typed disk. `Trees`. Owners, modes,
  tar headers.

## 3. Runs

| Run | Instance | Shows |
|---|---|---|
| `journal` | two packages, a directory and its file, an installed record; two transactions, each any legal sequence of primitives of up to 4 lines, two deaths, fairness. A second scene: any log of up to two lines over any root, one or two journals, a record of another package | nothing is lost, the rollback is exact, the commit final, every journal retired; over journals nobody can vouch for, no backup is lost |
| `succession` | provisional seed, its successor, a third package, three installations, a death | ownership, intact records, no orphan file, proved cessions, and the refinement of `AtomicInstall` |
| `sharing` | owner of a `D:` directory, direct dependent, stranger, three installations, a death; over an empty root and over one where the owner is installed | who may deposit below shared directories, and `WorldB` implements `Journal` |
| `publish` | one publisher, two requests, all four outputs, six runs, four kills or power cuts; or one installer of two licence files in two directories, three kills or cuts, with and without renames that do not replace; fairness | the bootable output is never without its sidecars and the licences' directory never in part; `COMMITTED` and the exit codes tell the truth; in the end what was asked is in place, durable |
| `publish_pair` | two publishers, two requests, one sidecar and the bootable output, three runs; or two installers of the same licences and one trouble | the same safety when two interleave at every system call |
| `removal` | `Removal` (owner of a shared directory with another inside, a dependent with a file there and an empty directory, a meta package; installations, edits, removals with the dependents named first, and deaths, without bound), `Records` (a package of each kind, provisional or not, three revisions in two versions, records of every format to start from, one path edited at a time) or `Etc` (files and links of three contents) | edits survive; nothing another record lists is taken; no file loses its owner; dependencies are kept; the judges of a record agree and a migration loses no proof; a default nobody edited is followed, and an edited one stays |
| `rectify` | two packages in two versions of the recipes, of which the second drops the dependency; one failing build, one kill, one new tree, one removal; fairness | receipts are true, a failure keeps the work, repeated commands close |
| `updates` | the tree and two channels, two releases, one kill or power cut, fairness | whole generations only; every record explained by a sealed lock; repeated commands converge |
| `world_a` | a provisional seed with two commands, its successor, a stranger, the package that adopts the executor; four runs, one stop | one owner of a link; commands go on answering; the version a record names stays |
| `desk` | `Sign` (two keys, two messages, three cuts), `Media` (two requests, four attempts, three kills, a stranger) or `Boot` (three releases, partitions of five and nine units); fairness | pairs of keys are whole; the image comes last; the machine boots; all end |
| `installer` | `DiskInstall` (two disks, of which one has room for a small swap and one for none, one edit of a table, one cut), `Trees` (a file, a link, an archive from elsewhere) or `Medium` (two media, two builds); fairness | only what was confirmed is written and what is used fits; what is extracted is what was sealed; a complete target is of one medium; a resume ends |
| `supply` | `Plan` (four packages, three commands, one new recipe, one trouble), `Fetch` (two processes of two runs, one kill, two republications, one edit), `Evidence` (recipes of every mechanism over up to two sources and with one or two fields more or less; waivers of each format) or `Build` (application, library, runner; three commands, one kill, one edit in one of five places) | what resolver, verifier, closing and emission each decide agrees; observations are true; the cache holds what its names say; what is stated of signatures is admitted; a record says what was built |

`OwnershipHolds` is `Disjoint`, `Intact` and `Accounted` of the `View`. A claim of
one package may lie inside another's only if that one is a shared directory;
*whose* claim may come there is a question of the moment it comes
(`DepositsAreDeclared`), since a recipe may drop a dependency later.

Every `MC` module starts from states the programs leave or find. Each property
has a mutant: a plausible bug, kept in the module next to the definition it
changes ("Mutant:"), under which TLC finds the property violated. Type
invariants (`TypeOK`, and `WTypeOK` in `WorldB`) are proved where a theorem
rests on them and can be added to any cfg.

**Bounds.** Two deaths are what it takes to interrupt a recovery (one in the
transaction, one in its rollback); a third meets a state the second already
left. `MaxLog` in the runs of `WorldB` is above the longest log a STAGE of the
instance produces, so it never cuts a behaviour; in `journal` four lines are
the directory, its file, the temporary and the commit mark, a whole
installation, and the second transaction meets what the first left. In
`publish`, `MaxRun` is one more than `MaxCut`, and one more for another
request, so that after the last cut a run may finish; three inodes of one name
are what is found at once (an output, a stage, a temporary), four with a second
publisher. `removal` has no bound but the instance, and `MaxEdited` in `Records`, where one
edited path is enough to tell two judges apart: no counter grows. Three revisions are
two of one version and one of another, which is where the files of a version and the
fingerprint part. In
`updates` two releases are what pairing a body with the signature of another
takes, and two channels what priority takes. In `world_a` four runs are an
installation, its successor, a retry of what was stopped, and one after it. In
`desk` the third cut falls in the recovery of a recovery. In `supply` a
slip in a recipe is one field too many, one missing or one for another, which
is two fields of difference, and a second source is what an index, a gap or two
mechanisms side by side take; three
commands are a build, a change and what reuses either. Deadlock is not checked
where a bound of the run, and not the program, makes it end.

**Fairness.** A process that runs goes on (the scheduler), and after a death or
a failure somebody runs the command again (what each of these programs assumes
when it leaves repair to its next run). Deaths are bounded, which here means
that a machine does not die in every recovery for ever.

| Run | Formula | Why |
|---|---|---|
| `journal` | `WF(Step)`, any step but a death | as above; made without cessions and `D:` claims, with which it does not hold (section 6) |
| `rectify` | `WF(Step)`, `SF(StartSync)` | the administrator runs `rectify --sync` again and again |
| `updates` | `WF(Step)`, `WF(PublishSignature(o))`, `SF(StartTree(FALSE))`, `SF(StartRefresh(Order))` | the site finishes a publication it began; the two updates are repeated |
| `desk` | weak for the steps of `Sign`, `Media`, `Boot` and for a new build; strong for `channel sign` | a signature is asked for again although keys come and go |
| `installer` | weak for the steps of `Medium`; strong for clearing a refused target and for asking with the medium that fits | the user removes what was refused and puts the right medium in |
| `publish` | weak for "start or step" of the image; weak for starting and for a step of each installer of licences | the program's own test retries after every failpoint |

`Published` is asked of one publisher only: two of one request may make each
other fail and leave outputs without a journal, which later runs refuse; the
program leaves concurrency within one uid to its caller
(live-lock-helper.c:19). `supply`, `publish_pair`, `world_a`, `succession`,
`sharing` and `removal` are safety only.

## 4. Theorems

Proved by TLAPS for every value of the constants that meets the assumptions
named in each module (`...Assumption`), which TLC evaluates on every run. They
ask for types and for what the code's own checks establish: that a manifest and
a meta file are paths of their own (`MetaAssumption`), that byte order puts a
directory before what is in it and that no two recipes of `Removal` claim one
path (the preflight refuses it), that there is at least one channel (a refresh
with none is refused, channel.rs:886), that a signed group lists something. The
assumptions of `WorldB`: what is above a path is a directory and sorts before it,
and records and temporaries are not payload (`PlaceAssumption`;
`ensure_stage_avoids_control_plane`, install.rs:5104); a STAGE lists a directory
before what is in it (`StageAssumption`; `pack` walks it so); the first root is
sound, that is, one that earlier commands left (`SoundRoots`). Of `Records`: a shared
directory is one the recipe brings, only world B has them, a metapackage brings
nothing, and a tree below `/opt` is that of a version (`RecordsAssumption`). Of `DiskInstall`: sizes are natural numbers and a
table of entries is smaller than a MiB (`DiskAssumption`). Of `Trees`: a directory
that is composed has the directories its entries are in, and what is above a
path is not below it (`TreesAssumption`). Of `Medium`: every medium as composed has a
lock with a world, which the code that reads a lock requires
(`MediumAssumption`). Of `Sign`: what stands for a file that is
not there, a torn one and the mark of an owner is none of the keys, signatures
and directories (`SignAssumption`).

Four theorems have a hypothesis, `NoMutualSuccession`: no two provisionals may
take from each other. It is about recipes, and the code does not check it; when
it fails, so does ownership (section 6).

| Theorem | Statement |
|---|---|
| `WorldBProofs!TypeCorrect` | `Spec => []TypeOK` |
| `WorldBProofs!OneJournal` | `Spec => []AtMostOneJournal` |
| `WorldBProofs!WriteAhead` | `Spec => []NothingLost` |
| `WorldBProofs!RollbackExact` | `Spec => RollbackRestores` |
| `WorldBProofs!CommitFinal` | `Spec => CommitIsFinal` |
| `WorldBProofs!ContractKept` | `WSpec => JournalSpec` (the installer implements the journal's specification) |
| `WorldBProofs!JobTyped` | `WSpec => []WTypeOK` |
| `WorldBProofs!InstallerIsSafe` | the four safety results above, of `WSpec` |
| `WorldBProofs!OwnershipIsKept` | `NoMutualSuccession` implies `WSpec => []OwnershipHolds` |
| `WorldBProofs!OnlyDependentsDeposit` | `NoMutualSuccession` implies `WSpec => DepositsAreDeclared` |
| `WorldBProofs!InstallerIsAtomic` | `NoMutualSuccession` implies `WSpec => InstallsAtomically` (`WorldB` implements `AtomicInstall`) |
| `WorldBProofs!CessionsStayProved` | `NoMutualSuccession` implies `WSpec => CessionsAreProved` |
| `RemovalProofs!EditsAreKept` | `Spec => EditsSurvive` |
| `RemovalProofs!OrphanFree` | `Spec => []NoOrphanFile` |
| `RemovalProofs!OthersAreKept` | `Spec => TakesOnlyItsOwn` |
| `RemovalProofs!NothingLeftBehind` | `Spec => NothingIsLeft` |
| `RemovalProofs!SupportIsKept` | `DependentsFirst` implies `Spec => []SupportKept` |
| `RemovalProofs!PartsAreRemoval` | `PartsSpec => Spec` (the composition implements `Removal`) |
| `RemovalProofs!DefaultsAreFollowed` | `PartsSpec => DefaultsFollow` |
| `RemovalProofs!RecordsAgree` | `PartsSpec => RecordsHold` |
| `WorldAProofs!ClaimsAreOurs` | `Spec => []ClaimIsOurs` |
| `WorldAProofs!CommandsStay` | `Spec => CommandStays` |
| `WorldAProofs!NamedStays` | `Spec => NamedVersionStays` |
| `WorldAProofs!OnlyItsOwn` | no step of a run changes another package's directories, links or record, cessions apart |
| `UpdatesProofs!GenerationsKept` | `Spec => []GenerationsSurvive` |
| `UpdatesProofs!RecordsExplained` | `Spec => []RecordIsExplained` |
| `UpdatesProofs!EveryPastIsSound` | every disk a power cut may leave is sound |
| `RectifyProofs!ReceiptsTrue` | `Spec => ReceiptsAreTrue` |
| `RectifyProofs!WorkIsKept` | `Spec => FailureKeepsWork` |
| `FetchProofs!CacheStaysAsNamed` | `FetchSpec => []CacheIsTrue` |
| `FetchProofs!StatementsAreAdmitted` | `EvidenceSpec => []InputsAreAdmitted` |
| `FetchProofs!RecordsSayWhatIsMade` | `BuildSpec => []BuiltIsDeclared` |
| `ComposedProofs!SourcesStayAsNamed` | `SupplySpec => []CacheStaysTrue` |
| `ComposedProofs!WhatIsStatedIsAdmitted` | `SupplySpec => []InputsAreAdmitted` |
| `ComposedProofs!WhatIsBuiltIsDeclared` | `SupplySpec => []BuiltAsDeclared` |
| `ComposedProofs!KeysStayWhole` | `FairDesk => []KeysAreWhole` |
| `ComposedProofs!MachineStaysBootable` | `FairDesk => MachineBoots` |
| `InstallerProofs!DisksAreSound` | `FairInstaller => []DiskIsSound` |
| `InstallerProofs!ExtractedAsValidated` | `FairInstaller => []TreesAreKept` |
| `InstallerProofs!TargetOfOneMedium` | `FairInstaller => OfOneMedium` |

### The arguments

*Journal.* `NothingLost` is not inductive: nothing in it says which line of a
path is the first, that a later backup goes before an earlier one, or what the
step in progress has already done. `Inductive` adds

- `LogInv`: only the first line of a path may be new, temporaries apart; backups
  of one path are consumed from the last to the first; the meta file has one
  line. The second part is what makes a rollback that starts again harmless.
- `Undoable`: `NothingLost` with the commit mark ignored, because the mark comes
  and goes with the very file the rollback removes.
- `TxInv`: ids grow, so that an older meta file is never taken for the mark.
- `TmpInv`: the temporary is there only while in use; without it a rollback
  could leave one behind, and `fs' = snap` would fail.
- `ProcessInv`, `ForwardInv`, `UndoInv`: what the position of the process says
  about the last line, the backup being made, and the part already undone.

The proof has one lemma per action, grouped by what the action touches, and
`IInv == TypeOK /\ Inductive`. The action properties follow from it: at the end
of a rollback `UndoInv` says that every path is as its first line tells, which
`Undoable` says is `snap`.

*The installer.* Each action of `WorldB` is mapped to an action of `Journal`
with an argument; that the argument is one `CallerContract` admits follows from
`JobInv` and `IInv`.

*Ownership.* Two views replace the live root. `Rest` is the root the last finished
transaction left (`ViewIsRest`: it is what the log gives back), `After` the root
the primitive in progress will leave (`PrimitiveAhead`: its system calls do not
change it). So the journal drops out of the argument: `Rest` changes in one step
only, the rename of the meta file, and `After` once per entry. `OwnershipInv` says
that `Rest` is `Sound`, and that an installation is `Going`:

- `Framed`: the records of others only lost lines since the preflight, so that
  what it found of the root it looked at (`Checked`) is still true of less.
- `Apart`: no new claim collides with what the others still have. For a leaf this
  is the preflight and the cession; for a directory, that it was missing or empty,
  so that by `Tree` nothing anybody claims is inside it; for a `D:`, that it is
  its owner's or was never another's (`SharedAllows`).
- `ParentsFree`: a directory above an entry came earlier in the STAGE, so its
  cedents have lost it by then, or was ceded, and then `NoMutualSuccession` says
  that no other cedent holds it. Without it the child of a cedent's directory
  would be placed inside that directory's claim.
- `AdoptedFree`, `StillIntact`, `StillAccounted`, `StagesInOrder`: between a
  cession and its leaf nobody owns the path; a leaf is of its record or of this
  transaction; every file is in a record, in the old manifest or in the new one.
  `StageDone` is where the third could break, as it says what is dropped.

`Sound(After)` follows from `Underway` when the meta is written (`MetaDone`), and
this is the root whose rename makes it `Rest`.

*Refinement.* `Effects` is the account of what changed between `snap` and `After`:
of other records, cessions only; of the payload, new leaves, missing directories
and what the old record alone listed; of the baseline, what was ceded before and
proved. With `Sound(After)` this is `Atomic!Install(pkg)` at the one step that is
seen (`SeenInstall`), and `CessionsAreProved` is read off the same account.

*Removal.* The invariant says what the run in progress knows: an edited claim
still to handle was judged modified, a directory judged modified stays so, and a
claim already handled is settled for good. The last part needs the order:
whatever is handled later comes before it in byte order, so it is not inside a
directory that was left alone for what is in it. `SupportIsKept` has an
invariant of its own (`Supported`): a name that was handled no longer counts,
and from its judgement on nobody but itself depends on the package at hand. Its
hypothesis cannot be dropped (section 6, `RefusalKeepsSupport`).

*Defaults.* `Follows` is inductive with the types alone. Its step is a
case on the two conditions of `materialize_etc`: where neither the new default nor
the one before is what is in `/etc`, the code names one of its four reasons.

*Records.* The three judges read different things, so that they agree is a fact
about what a record of format 4 can be. `Counts` says it of every record that
counts, between any two steps: what a source lists is its baseline, nothing it
lists is the successor's, and, once `Closed`, that the licence, the shared
directories and the types of the baseline were settled and that the plan sealed
the manifest it was closed with. What `verify` does not compare (the manifest of a
package that is not provisional with the baseline) follows from there: of a source
from the invariant, of a binary from the payload in the plan. `AsMade` says what an
installation left, of the record and of the root; `Torn` is the same of the record
still being written, file by file, and that what its new baseline has of the
successor's is what the old one had, so that a death between any two of the five
files leaves a record that `Counts`. A manifest has `D:` lines of directories only
(`IsManifest`), and a successor never takes one: hence the exception of
`WrittenIsObserved` is about bare paths and hashes of formats 0 and 1 alone. That
the trees of two revisions of one version are the same (`RecordsAssumption`) is
what keeps `prune` from the files of the version in use.

*World A.* One invariant for all four: types; what `Decide` found out, as long
as the run acts on it (the lock makes it stable); what the run has already put
in place; and `ClaimIsOurs` of the records at rest, which is what keeps the
removal of one package's links from taking another's.

*Updates.* The invariant is about every state of `past`, not only about the
disk: any of them may be the disk after a cut. `Sound` says that what is in use
is of one release; `Course` and `Ground` where the command stands and that its
remaining steps fit what is on disk; `SiteGoesOn` and `Fetched` that what it
downloaded is one release no older than the machine's; `Brought` that each pair
is still to be exchanged or already in use; `Sealed` that the lock is durable
before a record names it. The fsync order is where the proof is: a state that
`past` loses is one an `fsync` excludes, and only then may the next step rely on
it.

*Rectify.* `Installing` carries the order of the plan: nothing a command has written
needs, however far, what is still to install, and what is neither is kept. So the
closure of what is finished is finished (`FinishedIsKept`), and a command that fails
can close it (`Closing`): it has no refusal but that of a foreign temporary.
`Binding` says which records are still to bind and that the lock precedes the slice
and the slice the meta; `Sealing` that the receipt in hand is the world as it is,
which no other command can change, for the lock of the root. The guard of `Install`
matters here: with only the direct dependencies before a package, and a kept package
in between, a failure would leave finished work that its own closing refuses; the code's
order is that of the whole closure (`material_order`, plan.rs:1887).

*Fetch.* The cache only grows (`Grown`): nothing is replaced, edits apart. So
what a process has seen (`Seen`) stays seen, and what it put there was checked
before (`Clean`); the seal of a run is then the conjunction of what it saw
(`Complete`). `Untouched`, that nobody edited the cache, is a premise of the
property itself: the code does not check a file again that it knows.

*Evidence.* The recipe never changes, so `Stated` says that the node in hand and
the one applied before are what the recipe states, and that what a seal closed
is all that was open. Then each mechanism is a lemma (`WaiverAdmitted`,
`MinisignAdmitted`, `SumsAdmitted`, `SlotsAdmitted`, `NothingAdmitted`): from
the refusals of the parser alone it derives, for any number of sources, each
demand of the verifier. `Mechanisms` says that a recipe that loads has exactly
one of them.

*Build.* `FrozenOfOneTree` says that a command's fingerprints are those of one tree, and
`Viewed`, `Imaged` that what the view and the sealed image hold of each provider
is exactly what was frozen of it. The step that matters (`MadeOfWhatIsFrozen`)
is that the union of what the providers are made of is what the fingerprint of
the closure says; it rests on `ClosureFacts`: the closure is the least set
closed under providers, hence transitive, so that a provider's closure is within
the consumer's. `ShellUntouched`, that the runner's own files are not edited
during a build, is a premise of the property (section 6, `ShellIsDeclared`).

*Supply.* A step of the composition in which a part runs is a step of that part
(`SameFetch`, `SameEvidence`,
`SameBuild`), and no step changes which part runs.

*Keys.* What `keygen` and `sign` do is a list of steps, of six kinds with parts that
depend on what a run finds; so the invariant speaks of the rest of any of them
(`Sequel`: a rename is followed by the syncs of both directories, a report is the
last step, and nothing is filed before the private directory is made). `OneKey`
says that what is left in the private directory and under the final names is of one
key, so that a resumed run cannot join two. `Lasting` is about what a cut may
leave: a public key or a signature is there only if the secret key it goes with
is on the disk already. A step keeps that because of `SecretFirst`, which says of
the rest of the list that the rename of the secret key and the sync after it
precede the rename of the public one, and of `Lands`, that what will be reported is
synced or will be.

*Boot.* For any number of updates, cuts and killed processes, with the images, the
partitions and the first states of `MCDesk`. `WholeOrNone` says that in every past of
the partition, which is what a cut may bring back, a file under the two names is
synced or not there. Where the running image is depends on the session: until the
rotation (`BeforeRotation`) the current image is that of every past, and what the
firmware reported holds of it; after it (`AfterRotation`) the current one is the
package's or none, so that a second update has nothing to bring, or spares the
previous image because the current path is empty. The lemma
that matters is `Spared`: what `qual_rodando` answers, by the firmware or by the
kernel, is enough to tell whether the previous image may be dropped. That a machine is
lost only unlisted follows from `RunningSurvives` and the choice of the firmware. That
the package does not change again after this session's rotation is a constant of the
instance (`TwicePerBoot`); without it the property does not hold (section 6).

*Disk.* `Laying` says that what a whole disk was measured for (its capacity, the
swap chosen from it) is what was laid out and, once written, what the table is;
so the sizes follow from the capacity by the arithmetic of `Layout` alone
(`LayoutSound`, `LaidTableSound`: nothing overlaps, the table's copy at the end
is left free, and the root has what the payload needs but for that copy).
`Choosing` says that partitions chosen by hand are those of the last table,
which the init establishes by reading the table itself. `Marking` orders the files: what is marked was synced, so that a power
cut leaves a marker only beside a system and an image.

*Trees.* Two things hold at once, for different files. `Decoded` is about an archive
that changes: the entries that are no file are those the first pass judged, with
the links and the directories above each entry, so that what the second pass has
to refuse are files (`Delivers`), whatever was put in, taken out or exchanged.
`Undisturbed` is about one that does not: the archive holds, of every path once,
the node of the source (`OfSource`), hence `Packed` is the domain of the source
and the decoder, which could refuse only what the collector refused already,
gives the source back (`SourceIsDecodable`).

*Medium.* `OfDisc` says that what a run has read is of one medium as it was
composed, whichever the drive holds now: the bytes of each piece are compared
with the lock that was read first. `Checking` and `Reserving` say that nothing is
written before a check passed and whose the reserved boot image is. `Targeted` is
about the target at rest, with no run: any mark on it is the lock of one medium,
and all it holds is a piece of that lock or torn. `Advanced` is about a run: at
each of its steps what the steps before it bring is in place, so that the
commit finds all of them; a resume starts from the first step with what
`Targeted` says, which is why that part has to hold of every target with
a mark, and not only of complete ones.

### What stays with TLC

Liveness (every property named `Converges`, `Published`, `EveryJournalRetired`),
which the prover cannot do, and ENABLED with it. Not yet proved, by order of
what a proof would say: `PublicationHolds` (its parts `NothingComesInPart` and
`ReportsHold`, whose
invariant relates two interleaved task lists to every past of the directory);
`MediumComesWhole`; `PlansHold` (`ClosingsHold` and
`ObservedIsTrue` of `Plan`), most of which is
the resolver as a fixed point of recursive functions;
`FoundBackupsKept`.

## 5. Plan

Done: the core (`Journal`, `WorldB`, `AtomicInstall`, `Removal`, `Records`, `Etc`); machines and
what feeds them (`WorldA`, `Rectify`, `Updates`, `Plan`, `Fetch`, `Evidence`,
`Build`);
what is published and installed (`Publish`, `Licenses`, `Sign`, `Media`,
`Installer`, `Medium`, `DiskInstall`, `Trees`, `Boot`); the theorems of section 4.

Left, in this order:

1. The safety of `Publish` for any number of publishers.
2. `MediumComesWhole`.

## 6. Where code and documents disagree

No run is spent on these. Each is a definition of its module (in code font) that
the code does not meet, and can be put into a cfg as an INVARIANT or PROPERTY.

### The core

- `WorldB!ReplayIsIdempotent`. `replay_rollback` is documented as idempotent. A
  transaction that takes two claims from one provisional replaces its manifest
  twice. Undoing the second line restores the later backup; undoing the first
  removes that file and then moves the earlier backup in. Death between the two
  leaves the later line with neither backup nor destination, and every later
  replay stops there (`Journal!RecoveryNeverRefused` with `Reopen`).
- `WorldB!RollbackIsNeverLate`. The guard against a late rollback counts shared
  `D:` claims, so a crashed installation that had deposited below its
  dependency's directory is never rolled back. The same guard refuses a rollback
  that had restored the manifest of a cedent and died before `retire`: the
  cedent now owns a destination of the log.
- `Removal!RefusalKeepsSupport` (with `MCRemoval!DependencyFirst`). The reverse
  dependencies of each name are asked for when its turn comes, with the whole
  list excepted. A list that names a dependency first is refused at its second
  name after the first is gone.
- `Removal!InterruptedIsRecovered` (with `MCRemoval!WorldBOnly`). The
  repository's README promises a journal before every change of world B;
  `memoryhole` has none. Death after the manifest of a record was erased and
  before its meta leaves a record at which every later `rectify` and
  `memoryhole` stops.
- `WorldB!WorldIsInstalled`: a death between the commit and the world file, and
  the removal's order: the name leaves the world file after the record is gone
  ("Registro apagado por último", SPEC-0003-minitrue.md:275), so that a death
  between them leaves a name which a second removal says never existed.
- An empty directory ceded by a provisional and shipped by the successor is
  claimed by nobody, since `ensure_dir` does not let it claim a directory that
  was there ("o sucessor o assume", SPEC-0003-minitrue.md:551);
  `CessionsAreProved` leaves directories out for that reason.
- `WorldB!OwnerDeclared`. "Somente uma receita que declare o dono como `DEPS`
  direta pode instalar descendentes" (SPEC-0003-minitrue.md:572), and a file put
  there without declaring it "continua sendo sobreposição" (install.rs:6409). A
  stranger that comes first leaves its file in an ordinary directory; the package
  that declares it `D:` comes later, and if its own STAGE has anything inside that
  directory, `stage_dirs_with_children` skips the look below (6414). Afterwards
  the stranger lives in the shared directory of an owner it does not depend on.
- Below a `D:` inside another package's `D:` only the owner of the deeper one is
  asked for (`Nearest`; install.rs:6357). `DepositsAreDeclared` says no more.
- Without `NoMutualSuccession` ownership does not hold: of two provisionals each
  of which supersedes the other, the first cedes a directory to the second, and on
  its own refresh skips that directory and places the files inside it, which the
  second still claims whole. No recipe does this today, and nothing refuses one.

### World A

- A kill between the rename of the version and the record leaves `/opt/p/V`
  without an owner, and the retry is refused (install.rs:2340-2351); a kill
  between the cession and the link's switch refuses the successor for ever.
- A downgrade to a retained version is refused. A rebuild of the same version
  makes its commands absent for a moment, against SPEC-0003-minitrue.md:214-216.

### Plans, receipts and records

- `Rectify!RetryCloses`. The temporary of a receipt is foreign to
  `preflight_applied_plan_namespace`, so a death there refuses every later
  closing (plan_faultpoints.rs:153, 0.13.md:524, SPEC-0013:345-346 say the
  retry closes).
- `Rectify!RequestedIsWanted`: a requested package that the plan keeps is passed
  over before it would enter the world file (install.rs about 1385;
  SPEC-0003-minitrue.md:133, 254). `Rectify!EmptyIsVerified`: when world and
  records become empty the pointer is removed, "e é isso que o verify aceita"
  (install.rs:7750), but the receipts stay beside it and the verification
  refuses them (plan.rs 5820-5830; SPEC-0013:336-338).
- `rectify C` over a closure of the world that is not `Keep` fails its closing
  with code 5. A `memoryhole` killed before `world_remove` is undone by the next
  sync.
- `Plan!PlansAreAccepted`: an only-binary command with an intact locally built
  package in its closure is kept by the resolver and refused by
  `verify_canonical`; so is a `Keep` package whose provider is not `Keep`
  (plan.rs 8026-8085, whose comment speaks of the same wall).
- `Plan!AllClosingsAreAccepted`: a complete closing refused for a pending ABI
  has no partial closing (install.rs about 1390-1400).
- `Plan!ObservedIsTrueAnywhereStep`: the incremental reuse of observations
  (plan.rs 2217-2235, "NADA que a sustenta mudou") ignores a new package that shadows a library
  from an earlier search directory.
- `Plan!ReemittedIsComposable`: a channel emitted by a machine that took a
  signed package from a channel cannot be composed into a strict medium (plan.rs
  3137-3165 beside 2465-2686).
- `Evidence!EveryInputIsAdmitted`: a waiver of the format v1 in an indexed field
  loads, and is stated without a `signature-evidence` input (fetch.rs:520),
  which the verifier asks of every indexed waiver (plan.rs:7050): the plan that
  was made is refused when it is written. SPEC-0004-newspeak.md (lines 316 to
  328) allows the form; no recipe of the tree has it today, and
  `InputsAreAdmitted` leaves it out.
- A package of an index of format 2 without REPROCORR is never `Keep`, so that
  sync reinstalls it always and its closing fails with code 5. `--sync` refuses
  when any installed record has an edited file (deliberate).
- A `Keep` of a record of format 2 never becomes format 4 (plan.rs 6236 and 5419,
  beside the comment at install.rs 9531-9532). `install_meta` refuses a directory of a
  record without meta (install.rs 1875-1886), so that a first installation of a
  meta package killed inside `write_record` can never be repeated; nor can it be
  removed.
- `Records!RefreshIsAccepted`. A provisional whose record is of format 0 or 1 and
  that ceded something stays as it was (SPEC-0003-minitrue.md:376-379); the code
  rebuilds it when its fingerprint is absent or another (install.rs 2048-2091,
  6006-6031). The lines of what was ceded are copied as they were, untyped, and
  `observe_written_record` refuses the record it was just written into. With an
  equal fingerprint a binary one is left as it is and refused there as well, so
  that every command over it fails.
- A record of format 2 without the field LICENSE is intact for the fast path and
  refused by the reader of historical records (install.rs:9603), and a migrated
  one (format 3) is not intact for the fast path that follows, so that what was
  migrated is built again at once. `verify` compares the manifest with the
  baseline only of a provisional, and the two copies of the recipe only of a
  meta package: `JudgesAgree` is of records whose copies agree (`Untorn`).

### /etc

- `Etc!Follows` has to except four reasons (`Reasons`). "Se difere das duas, aí sim houve edição" (install.rs:6940-6942).
  A default that changes only its mode is not followed, since contents alone are
  compared with the new one; the next default then finds a file of another mode
  than the proof, and takes it for edited. A link is compared with the new
  default only (6880), so that no change of a link is ever followed. After a
  removal and a new installation, or when a successor brings the file, there is
  no proof of the previous default.

### Updates, cache and builds

- `Updates!IndexIsFrozen`: what a long command reads of a channel may change
  under it (SPEC-0009-canais-binarios.md:161-162). The fingerprint reads recipes
  without the tree's lock (arvore.rs 203-208). The documents name ext2 as the
  root's file system (SPEC-0005:753, SPEC-0008:583), the init formats ext4, on
  which the order of `Updates` rests. Temporaries of killed channel refreshes are never
  removed.
- `Fetch!NeverStranded` (fetch.rs:1998-2010). A source that is in the cache with
  a signature of another publication, left by a racing or a killed process, is
  refused with code 7 by every retry.
- `Build!ShellIsDeclared`: `create_build_view` copies the runner's shell from
  the live root last (install.rs 3661-3700; comment 3465-3467), unfingerprinted.
  `Build!EmittedIsWhole`: a retained stage edited between its hash and its
  compression is emitted (the consumer refuses it, code 8). A lost retained
  stage refuses `channel emit --release` for ever (deliberate). Files of an
  emission are not synced before its rename, and a killed emission leaves its
  temporary directory.

### Keys, media, licences, images

- `Sign!KeygenRepeats`: a keygen killed inside the write of the public key,
  `REQUEST` or `READY`, or after the first removal of the erasure, can never be
  repeated (test `keygen_recupera_todos_os_killpoints`, sign.rs:3576; comment
  about 1994; 0.13.md:524).
- `Media!FallbackConverges`: without `renameat2`, a kill between the link and
  the unlink of the image leaves a link count that is refused before the repair
  (media.rs:2105-2128; STATUS.md:1059; the test at 3194 covers a sidecar only).
  A rollback killed between the rename to `.rollback` and its unlink is refused
  for ever. After a kill, a changed request is refused until the stage is
  removed (deliberate).
- `Licenses!NeverRefused`: two installers of one bundle may refuse each other
  (licenses.rs:1250-1297, 1434-1490). `Licenses!ReportedIsDurable`: a run that
  finds the generation named reports it without a sync of `media/` (1749). The
  fallback without `renameat2` lays all files and then always refuses to publish
  (1750). A second staging directory made in a race is never removed.
- `Publish!RefusedOnlyForAnother` holds of one publisher only.

### Installation and boot

- `Medium!CheckedIsSound`: `--check` is said to verify "os hashes de cada peça"
  (init:753-757, media_install.rs:1110-1114); `load_media` compares cache, seed
  and boot only.
- `Installer!OneExecutor` (SPEC-0010:304-308): a resumed installation may leave
  the executor of another build. A profile with `plan.lock` gives a lock no
  medium reproduces. A kill inside the write of the early marker or of the
  manifest is never resumable. Without `renameat2`, `publish_noreplace` leaves
  two links, which `read_state_file` refuses. `--resume` over a completed target
  leaves it, when killed, marked complete and without authority. An online
  installation whose cache has an authority of its own collides on resume.
- `DiskInstall!GivenUpIsUntouched`: "Nada foi escrito" after cfdisk wrote
  (install_disk.rs:680). `DiskInstall!DestroyedIsListed`: the screen of
  destruction lists stale partitions (install_disk.rs:214).
  `DiskInstall!InterruptedHasNoTable`: the comment at partition.rs:244 is false
  over an old GPT, and under a power cut with a single sync. `cabe_disco_inteiro`
  and the init ignore the backup table.
- `Boot!CarriedOver`: a partition of two images has no room for the third, while
  the previous is kept (SPEC-0011:230-235). `Boot!RunningSurvives` with
  `TwicePerBoot`: two updates between boots remove the running image
  (boot_update.rs:23-24, SPEC-0008-instalador.md:560, SPEC-0011:233-234). A left
  temporary counts against the space before it is removed (boot_update.rs
  175-203 beside 106); registration comes after what the comment at 155-157 says.

## 7. Not modelled

Listed with reasons in `PROJECT.json` ("components"): the syntax of recipes, ELF
reading, attestation and packing are inputs or one-shot producers; the text
interface is input and output of the screens in `DiskInstall`; recipes, profiles
and bootstrap scripts are data or sequential drivers; the documents of the live
lock are a precondition of `Publish`.
