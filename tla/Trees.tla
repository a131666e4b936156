-------------------------------- MODULE Trees --------------------------------
(***************************************************************************)
(* The trees of a medium, from the directory of the composer to the one of *)
(* the installer: collected and packed by src/minipax/src/tree.rs, decoded *)
(* and written by src/minipax/src/media_install.rs, which repeats the      *)
(* rules for what an archive from elsewhere might hold.                    *)
(*                                                                         *)
(* An overlay is read at once, a cache is only measured: its contents are  *)
(* read when it is packed, and again when it is written, and the files may *)
(* change in between.  A content is a length and what is read; a link      *)
(* points to the path its target normalises to, or out of the tree.        *)
(***************************************************************************)
EXTENDS Naturals, FiniteSetsExt, SequencesExt

CONSTANTS Path, Above,       \* paths, and the directories strictly above each
          Administrative,    \* what an overlay may write
          Seeds,             \* the sets of files that make the bootstrap of a channel
          Content,           \* pairs of a length and what is read
          Sources, Foreign,  \* directories to compose, archives from elsewhere
          MaxTotal, MaxEntries, MaxChange,
          Out, None

Policy == {"overlay", "cache", "seed"}
Dir == [kind |-> "dir", content |-> None, to |-> None]
File(c) == [kind |-> "file", content |-> c, to |-> None]
Link(x) == [kind |-> "link", content |-> None, to |-> x]
Odd == [kind |-> "odd", content |-> None, to |-> None]  \* a device, a file of two names
Node == {Dir, Odd} \cup {Link(x) : x \in Path \cup {Out}} \cup {File(c) : c \in Content}

\* A directory that is composed has the directories its entries are in.
TreesAssumption ==
  /\ Above \in [Path -> SUBSET Path] /\ Administrative \subseteq Path
  /\ \A x \in Path : \A y \in Above[x] : x \notin Above[y] /\ Above[y] \subseteq Above[x]
  /\ \A c \in Content : c[1] \in Nat /\ c = <<c[1], c[2]>>
  /\ \A s \in Sources : /\ DOMAIN s \in SUBSET Path /\ IsFiniteSet(DOMAIN s)
                        /\ s \in [DOMAIN s -> Node]
                        /\ \A x \in DOMAIN s : \A y \in Above[x] : y \in DOMAIN s /\ s[y] = Dir
  /\ Foreign \subseteq Seq([at : Path, node : Node])
  /\ None \notin Node
  /\ {MaxTotal, MaxEntries, MaxChange} \subseteq Nat

VARIABLES policy, source,  \* what the tree is, and the directory that is composed
          step,            \* collect, pack, decode, write, done or refused
          entries,         \* what was collected or decoded: a node at each path
          archive,         \* the tar: a sequence of [at, node]
          written,         \* the directory that was extracted
          composed, changes

tvars == <<policy, source, step, entries, archive, written, composed, changes>>

Nowhere == [x \in {} |-> Dir]
Length(node) == IF node.kind = "file" THEN node.content[1] ELSE 0
Files(nodes) == {x \in DOMAIN nodes : nodes[x].kind = "file"}
Lengths(nodes) == [x \in Files(nodes) |-> Length(nodes[x])]
Sum(numbers) == FoldFunction(+, 0, numbers)
Total(nodes) == Sum(Lengths(nodes))

TreesInit ==
  /\ policy \in Policy /\ entries = Nowhere /\ written = Nowhere /\ changes = 0
  /\ \/ composed = TRUE /\ source \in Sources /\ archive = <<>> /\ step = "collect"
     \/ composed = FALSE /\ source = Nowhere /\ archive \in Foreign /\ step = "decode"

Judge(accepted, next) == step' = IF accepted THEN next ELSE "refused"

----------------------------------------------------------------------------
(* The composer.                                                           *)

\* validate_symlink of tree.rs: only overlays have links, and they stay inside.
LinkStays(node) == node.kind = "link" => policy = "overlay" /\ node.to \in Administrative

\* validate_channel_bootstrap: the pieces of a seed, all of them, and no
\* directory but theirs.
IsSeed(nodes) ==
  policy = "seed" => /\ Files(nodes) \in Seeds
                     /\ \A x \in DOMAIN nodes \ Files(nodes) :
                          nodes[x] = Dir /\ \E y \in Files(nodes) : x \in Above[y]

\* collect: every entry of the directory, its links and its sizes checked.
Collectable(nodes) ==
  /\ Cardinality(DOMAIN nodes) <= MaxEntries /\ Total(nodes) <= MaxTotal
  /\ \A x \in DOMAIN nodes : /\ policy = "overlay" => x \in Administrative
                             /\ nodes[x] # Odd /\ LinkStays(nodes[x])

Collect ==
  /\ step = "collect" /\ entries' = source
  /\ Judge(Collectable(source) /\ IsSeed(source), "pack")
  /\ UNCHANGED <<policy, source, archive, written, composed, changes>>

\* pack_into: the next entry, parents first.  A file that was only measured is
\* opened now, and must still have the bytes its header promises.
Packed == {archive[i].at : i \in DOMAIN archive}
Reading(x) == IF policy = "overlay" \/ entries[x].kind # "file" THEN entries[x]
              ELSE IF x \notin Files(source) THEN None ELSE source[x]
Fills(node, x) == node # None /\ Length(node) >= Length(entries[x])
Cropped(node, x) ==
  IF node.kind = "file" THEN File(<<Length(entries[x]), node.content[2]>>) ELSE node

Pack ==
  /\ step = "pack" /\ Packed # DOMAIN entries
  /\ \E x \in DOMAIN entries \ Packed :
       /\ Above[x] \subseteq Packed
       /\ Judge(Fills(Reading(x), x), "pack")
       /\ archive' = IF Fills(Reading(x), x)
                     THEN Append(archive, [at |-> x, node |-> Cropped(Reading(x), x)]) ELSE archive
  /\ UNCHANGED <<policy, source, entries, written, composed, changes>>

Close ==
  /\ step = "pack" /\ Packed = DOMAIN entries /\ step' = "decode"
  /\ UNCHANGED <<policy, source, entries, archive, written, composed, changes>>

----------------------------------------------------------------------------
(* The installer, which trusts no archive.                                 *)

\* The validate_symlink and overlay_path_allowed of media_install.rs.
LinkAllowed(node) == node.kind = "link" => policy = "overlay" /\ node.to \in Administrative
PathAllowed(x) == policy = "overlay" => x \in Administrative

Nodes(tar) == [x \in {tar[i].at : i \in DOMAIN tar} |->
                 (CHOOSE e \in ToSet(tar) : e.at = x).node]

\* decode_entries: limits, paths, kinds, no path twice, and nothing under what
\* is no directory, before anything is written.
Decodable(tar) ==
  LET nodes == Nodes(tar)
  IN /\ Len(tar) <= MaxEntries /\ Cardinality(DOMAIN nodes) = Len(tar)
     /\ \A x \in DOMAIN nodes :
          /\ PathAllowed(x) /\ nodes[x] # Odd /\ LinkAllowed(nodes[x])
          /\ \A y \in Above[x] \cap DOMAIN nodes : nodes[y] = Dir
     /\ Total(nodes) <= MaxTotal

Decode ==
  /\ step = "decode"
  /\ LET sound == Decodable(archive) /\ IsSeed(Nodes(archive))
     IN Judge(sound, "write") /\ entries' = IF sound THEN Nodes(archive) ELSE Nowhere
  /\ UNCHANGED <<policy, source, archive, written, composed, changes>>

\* write_entries: directories, files, links.  The contents of a large archive
\* are read again, and every file must be one that was decoded, of the length
\* it had, and be there at the end.
Streamed == policy = "cache"
Again == {i \in DOMAIN archive : archive[i].node.kind = "file"}
\* Mutant: a file may have another length than it had.
DeliversAnyLength ==
  /\ {archive[i].at : i \in Again} = Files(entries)
  /\ \A i, j \in Again : archive[i].at = archive[j].at => i = j

Delivers ==
  /\ \A i \in Again : /\ archive[i].at \in Files(entries)
                      /\ Length(archive[i].node) = Length(entries[archive[i].at])
  /\ {archive[i].at : i \in Again} = Files(entries)
  /\ \A i, j \in Again : archive[i].at = archive[j].at => i = j

Extracted ==
  [x \in DOMAIN entries \cup UNION {Above[y] : y \in DOMAIN entries} |->
     IF x \notin DOMAIN entries THEN Dir
     ELSE IF Streamed /\ x \in Files(entries) THEN Nodes(archive)[x] ELSE entries[x]]

Write ==
  /\ step = "write"
  /\ LET whole == Streamed => Delivers
     IN Judge(whole, "done") /\ written' = IF whole THEN Extracted ELSE Nowhere
  /\ UNCHANGED <<policy, source, entries, archive, composed, changes>>

----------------------------------------------------------------------------
(* Files that change between two reads.                                    *)

ChangeSource ==
  /\ step = "pack" /\ changes < MaxChange /\ changes' = changes + 1
  /\ \E x \in Files(source), c \in Content : source' = [source EXCEPT ![x] = File(c)]
  /\ UNCHANGED <<policy, step, entries, archive, written, composed>>

ChangeArchive ==
  /\ step = "write" /\ changes < MaxChange /\ changes' = changes + 1
  /\ \E i \in DOMAIN archive, e \in {[at |-> x, node |-> File(c)] : x \in Path, c \in Content} :
       archive' \in {[archive EXCEPT ![i] = e], RemoveAt(archive, i), Append(archive, e)}
  /\ UNCHANGED <<policy, source, step, entries, written, composed>>

TreesStep == Collect \/ Pack \/ Close \/ Decode \/ Write
TreesNext == TreesStep \/ ChangeSource \/ ChangeArchive

----------------------------------------------------------------------------

\* The two sides agree: what the composer accepts the installer accepts, and
\* extracts as it was, when nothing changes on the way.
ComposedIsExtracted ==
  composed /\ changes = 0 =>
    /\ step = "refused" => ~Collectable(source) \/ ~IsSeed(source)
    /\ step = "done" => written = source

\* Whatever changed between two reads, what is extracted are the paths, kinds
\* and lengths that were validated, in directories, and links that stay inside.
ExtractedIsValidated ==
  step = "done" =>
    /\ \A x \in DOMAIN entries : /\ written[x].kind = entries[x].kind
                                 /\ written[x].to = entries[x].to
                                 /\ Length(written[x]) = Length(entries[x])
    /\ \A x \in DOMAIN written :
         /\ \A y \in Above[x] : y \in DOMAIN written /\ written[y] = Dir
         /\ written[x].kind = "link" => written[x].to \in Administrative
    /\ Total(written) <= MaxTotal
=============================================================================
