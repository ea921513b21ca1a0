---------------------------- MODULE ImageReader ----------------------------
(***************************************************************************)
(* OpenCvImageReader (src/media/opencv_image_reader.cpp) as PullSource     *)
(* uses it; Ingress.tla composes it with its caller.  Open is a step per   *)
(* entry of the path list, Next a step per image it tries, for it calls    *)
(* itself again after an image that cannot be read.  Images stand for      *)
(* their path names and are ordered as std::sort orders these.             *)
(***************************************************************************)
EXTENDS Integers, Sequences, FiniteSets

CONSTANTS
  Image,       \* naturals standing for the regular files, in path order
  Matching,    \* those whose name ends with the suffix of the glob "*suffix"
  Readable,    \* Readable[p]: what imread of p may come to (BOOLEAN or a part)
  EntryLists,  \* values of "paths": sequences of entries
  Loops,       \* values of "loop"
  MaxFrames    \* bound: frames that Next yields after one Open

EntryKind == {"file", "directory", "any", "glob", "missing", "denied"}

ASSUME ImageAssumption ==
  /\ Image \subseteq Nat /\ IsFiniteSet(Image)
  /\ Matching \subseteq Image
  /\ Readable \in [Image -> SUBSET BOOLEAN]
  /\ EntryLists \subseteq Seq([kind : EntryKind, images : SUBSET Image])
  /\ \A list \in EntryLists : \A i \in DOMAIN list :
       list[i].kind = "file" => Cardinality(list[i].images) = 1
  /\ Loops \subseteq BOOLEAN
  /\ MaxFrames \in Nat

VARIABLES
  rdpc,         \* "closed": no reader; "collect": in Open; "failed" or "threw": how
                \* Open came to nothing; "idle" between calls; "read": in Next;
                \* "ended" after the end-of-stream sample
  entries,      \* entries Open has still to collect
  paths,        \* paths_
  cursor,       \* cursor_
  frame_index,  \* frame_index_
  loop,         \* loop_
  last,         \* the last sample: frame_index, eos
  given         \* positions in paths of the samples so far

imageVars == <<rdpc, entries, paths, cursor, frame_index, loop, last, given>>

None == [index |-> 0, eos |-> FALSE]

ImageInit ==
  /\ rdpc = "closed"
  /\ entries = <<>>
  /\ paths = <<>>
  /\ cursor = 0
  /\ frame_index = 0
  /\ loop = FALSE
  /\ last = None
  /\ given = <<>>

\* The number of elements that come before the i-th once s is sorted.
Ahead(s, i) == Cardinality({j \in DOMAIN s : s[j] < s[i] \/ (s[j] = s[i] /\ j < i)})

Sorted(s) == [k \in DOMAIN s |-> s[CHOOSE i \in DOMAIN s : Ahead(s, i) = k - 1]]

\* The images of a directory, in directory_iterator's order (any order will do:
\* they are sorted before use).
Listing(S) == CHOOSE s \in [1..Cardinality(S) -> S] : \A p \in S : \E i \in DOMAIN s : s[i] = p

\* Seeded bug: a directory replaces what earlier entries gave.
CollectPathsAnew(e, out) ==
  CASE e.kind = "file" -> Append(out, CHOOSE p \in e.images : TRUE)
    [] e.kind \in {"directory", "any"} -> Sorted(Listing(e.images))
    [] e.kind = "glob" -> Sorted(Listing(e.images \ Matching))
    [] OTHER -> out

\* CollectPaths.  The whole list is sorted, not only what the entry adds; a glob
\* "*suffix" takes the names that do not end with the suffix, for
\* std::string::compare is 0, false, for those that do.
CollectPaths(e, out) ==
  CASE e.kind = "file" -> Append(out, CHOOSE p \in e.images : TRUE)
    [] e.kind \in {"directory", "any"} -> Sorted(out \o Listing(e.images))
    [] e.kind = "glob" -> Sorted(out \o Listing(e.images \ Matching))
    [] OTHER -> out

\* Open of a new reader begins.
Open ==
  /\ entries' \in EntryLists
  /\ loop' \in Loops
  /\ paths' = <<>>
  /\ cursor' = 0
  /\ frame_index' = 0
  /\ last' = None
  /\ given' = <<>>
  /\ rdpc' = "collect"

\* One entry; after the last, Open fails if no image was found.  An entry whose
\* directory may not be listed makes directory_iterator throw out of Open.
Collect ==
  /\ rdpc = "collect"
  /\ IF entries = <<>>
     THEN rdpc' = (IF paths = <<>> THEN "failed" ELSE "idle") /\ UNCHANGED <<entries, paths>>
     ELSE /\ paths' = CollectPaths(Head(entries), paths)
          /\ entries' = Tail(entries)
          /\ rdpc' = IF Head(entries).kind = "denied" THEN "threw" ELSE rdpc
  /\ UNCHANGED <<cursor, frame_index, loop, last, given>>

\* ReaderLoop calls Next.
CallNext ==
  /\ rdpc = "idle"
  /\ rdpc' = "read"
  /\ UNCHANGED <<entries, paths, cursor, frame_index, loop, last, given>>

\* Seeded bug: the image that could not be read uses up a frame_index.
MakeFrameCounted(p, ok) ==
  /\ frame_index' = frame_index + 1
  /\ IF ok
     THEN /\ last' = [index |-> frame_index, eos |-> FALSE]
          /\ given' = Append(given, p)
          /\ rdpc' = "idle"
     ELSE UNCHANGED <<last, given, rdpc>>

\* imread of the p-th path: a frame, or Next calls itself.
MakeFrame(p, ok) ==
  IF ok
  THEN /\ last' = [index |-> frame_index, eos |-> FALSE]
       /\ frame_index' = frame_index + 1
       /\ given' = Append(given, p)
       /\ rdpc' = "idle"
  ELSE UNCHANGED <<last, frame_index, given, rdpc>>

AtEnd == cursor >= Len(paths)

MakeEosSample ==
  /\ rdpc = "read"
  /\ AtEnd
  /\ ~loop
  /\ last' = [index |-> frame_index, eos |-> TRUE]
  /\ rdpc' = "ended"
  /\ UNCHANGED <<entries, paths, cursor, frame_index, loop, given>>

\* Seeded bug: the cursor stays on an image that cannot be read.
ReadImageStuck ==
  /\ rdpc = "read"
  /\ ~AtEnd \/ loop
  /\ LET p == IF AtEnd THEN 1 ELSE cursor + 1
     IN  \E ok \in Readable[paths[p]] :
           /\ cursor' = IF ok THEN p ELSE p - 1
           /\ MakeFrame(p, ok)
  /\ UNCHANGED <<entries, paths, loop>>

\* Seeded bug: after an unreadable image the cursor is advanced again.
ReadImageSkips ==
  /\ rdpc = "read"
  /\ ~AtEnd \/ loop
  /\ LET p == IF AtEnd THEN 1 ELSE cursor + 1
     IN  \E ok \in Readable[paths[p]] :
           /\ cursor' = IF ok \/ p = Len(paths) THEN p ELSE p + 1
           /\ MakeFrame(p, ok)
  /\ UNCHANGED <<entries, paths, loop>>

\* Next, from paths_[cursor_++] on; with loop_ the list starts over.
ReadImage ==
  /\ rdpc = "read"
  /\ ~AtEnd \/ loop
  /\ LET p == IF AtEnd THEN 1 ELSE cursor + 1
     IN  /\ cursor' = p
         /\ \E ok \in Readable[paths[p]] : MakeFrame(p, ok)
  /\ UNCHANGED <<entries, paths, loop>>

\* Seeded bug: the cursor is kept.
CloseKeepsCursor ==
  /\ paths' = <<>>
  /\ rdpc' = "closed"
  /\ UNCHANGED <<entries, cursor, frame_index, loop, last, given>>

\* Close, and the end of the reader.
Close ==
  /\ paths' = <<>>
  /\ cursor' = 0
  /\ rdpc' = "closed"
  /\ UNCHANGED <<entries, frame_index, loop, last, given>>

-----------------------------------------------------------------------------
(* Properties.                                                             *)

\* Type invariant of the reader.
ImageTypeOK ==
  /\ rdpc \in {"closed", "collect", "failed", "threw", "idle", "read", "ended"}
  /\ paths \in Seq(Image)
  /\ cursor \in 0..Len(paths)
  /\ frame_index \in 0..MaxFrames
  /\ last \in [index : 0..MaxFrames, eos : BOOLEAN]
  /\ given \in Seq(Nat \ {0})

\* Without loop, every image that can always be read and that Next has passed has
\* been yielded, in the order of the list and once per entry of the list: skipping
\* an unreadable image loses no other (Next).
YieldsInOrder ==
  ~loop /\ rdpc \in {"idle", "read", "ended"} =>
    /\ \A i \in 1..(Len(given) - 1) : given[i] < given[i + 1]
    /\ \A p \in 1..cursor : Readable[paths[p]] = {TRUE} => \E i \in DOMAIN given : given[i] = p
    /\ rdpc = "ended" => cursor = Len(paths)

\* Every image an entry names is in the list that Next walks, whatever else the
\* entries name; a glob's are left out of this (CollectPaths).
CollectsAll ==
  [][Collect /\ entries # <<>> =>
       /\ \A i \in DOMAIN paths : \E j \in DOMAIN paths' : paths'[j] = paths[i]
       /\ Head(entries).kind \in {"file", "directory"} =>
            \A p \in Head(entries).images : \E j \in DOMAIN paths' : paths'[j] = p]_imageVars

\* Next returns if the list has an image that can always be read, or loop is off:
\* it skips unreadable images only until a readable one, or the end of the list
\* (Next's call of itself; with loop and no readable image it never returns).
NextReturns ==
  (rdpc = "read" /\ (~loop \/ \E i \in DOMAIN paths : Readable[paths[i]] = {TRUE})) ~> (rdpc # "read")
=============================================================================
