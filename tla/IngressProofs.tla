--------------------------- MODULE IngressProofs ---------------------------
(***************************************************************************)
(* Theorems about Ingress.tla for any files, path lists, video parameters, *)
(* captures and rates, and any number of frames, sessions and patches.     *)
(***************************************************************************)
EXTENDS Ingress, FiniteSetTheorems, TLAPS

-----------------------------------------------------------------------------
(***************************************************************************)
(* What the operators of ImageReader.tla compute, for any list of naturals *)
(* and any finite set of images: Open sorts the list of paths after every  *)
(* directory it has read, and loses none of them by it.                    *)
(***************************************************************************)
\* Counting the elements ahead of an element numbers the elements.
LEMMA AheadNumbers ==
  ASSUME NEW s \in Seq(Nat)
  PROVE  /\ \A i \in DOMAIN s : Ahead(s, i) \in 0..(Len(s) - 1)
         /\ \A i, j \in DOMAIN s :
              s[j] < s[i] \/ (s[j] = s[i] /\ j < i) => Ahead(s, j) < Ahead(s, i)
         /\ \A k \in DOMAIN s : \E i \in DOMAIN s : Ahead(s, i) = k - 1
<1> DEFINE D == 1..Len(s)
           Before(i) == {j \in D : s[j] < s[i] \/ (s[j] = s[i] /\ j < i)}
<1>1. DOMAIN s = D /\ Len(s) \in Nat /\ \A i \in D : s[i] \in Nat
  OBVIOUS
<1>2. IsFiniteSet(D) /\ Cardinality(D) = Len(s)
  BY <1>1, FS_Interval
<1>3. \A i \in D : Ahead(s, i) = Cardinality(Before(i))
  BY <1>1 DEF Ahead
<1>4. \A i \in D : Before(i) \subseteq D \ {i}
  BY <1>1
<1>5. \A i, j \in D : j \in Before(i) => Before(j) \subseteq Before(i)
  <2>1. ASSUME NEW i \in D, NEW j \in D, j \in Before(i), NEW k \in Before(j)
        PROVE  k \in Before(i)
    <3>1. s[i] \in Nat /\ s[j] \in Nat /\ s[k] \in Nat /\ k \in D /\ i \in Nat /\ j \in Nat /\ k \in Nat
      BY <1>1, <2>1
    <3> QED
      BY <2>1, <3>1
  <2> QED
    BY <2>1
<1>6. \A i, j \in D : i = j \/ i \in Before(j) \/ j \in Before(i)
  BY <1>1
<1> HIDE DEF Before
<1>7. \A i \in D : IsFiniteSet(Before(i)) /\ Cardinality(Before(i)) \in 0..(Len(s) - 1)
  <2> TAKE i \in D
  <2>1. IsFiniteSet(D \ {i}) /\ Cardinality(D \ {i}) = Len(s) - 1
    BY <1>2, FS_RemoveElement
  <2>2. IsFiniteSet(Before(i)) /\ Cardinality(Before(i)) <= Len(s) - 1
    BY <2>1, <1>4, FS_Subset
  <2>3. Cardinality(Before(i)) \in Nat
    BY <2>2, FS_CardinalityType
  <2> QED
    BY <1>1, <2>2, <2>3
<1>8. \A i, j \in D : j \in Before(i) => Cardinality(Before(j)) < Cardinality(Before(i))
  <2> SUFFICES ASSUME NEW i \in D, NEW j \in D, j \in Before(i)
               PROVE  Cardinality(Before(j)) < Cardinality(Before(i))
    OBVIOUS
  <2>1. Before(j) \subseteq Before(i) /\ Before(j) # Before(i)
    BY <1>4, <1>5
  <2>2. Cardinality(Before(j)) <= Cardinality(Before(i))
    BY <2>1, <1>7, FS_Subset
  <2>3. Cardinality(Before(j)) # Cardinality(Before(i))
    BY <2>1, <1>7, FS_Subset
  <2> QED
    BY <2>2, <2>3, <1>7
<1> DEFINE f == [i \in D |-> Cardinality(Before(i)) + 1]
<1>9. f \in Injection(D, D)
  <2>1. f \in [D -> D]
    BY <1>1, <1>7
  <2>2. \A i, j \in D : f[i] = f[j] => i = j
    BY <1>6, <1>7, <1>8
  <2> QED
    BY <2>1, <2>2 DEF Injection, IsInjective
<1>10. f \in Surjection(D, D)
  BY <1>2, <1>9, FS_Injection
<1>11. \A k \in D : \E i \in D : Ahead(s, i) = k - 1
  <2> TAKE k \in D
  <2>1. PICK i \in D : f[i] = k
    BY <1>10 DEF Surjection
  <2>2. Cardinality(Before(i)) + 1 = k /\ Cardinality(Before(i)) \in Nat
    BY <2>1, <1>7
  <2> QED
    BY <1>3, <2>2
<1>12. \A i, j \in D : s[j] < s[i] \/ (s[j] = s[i] /\ j < i) => Ahead(s, j) < Ahead(s, i)
  BY <1>3, <1>8 DEF Before
<1> QED
  BY <1>1, <1>3, <1>7, <1>11, <1>12

\* What std::sort is used for: the sorted list has the elements of the list, all of
\* them, and in order.
LEMMA SortedSorts ==
  ASSUME NEW S \in SUBSET Nat, NEW s \in Seq(S)
  PROVE  /\ Sorted(s) \in Seq(S)
         /\ Len(Sorted(s)) = Len(s)
         /\ \A i \in DOMAIN s : \E k \in DOMAIN Sorted(s) : Sorted(s)[k] = s[i]
         /\ \A j, k \in DOMAIN Sorted(s) : j < k => Sorted(s)[j] <= Sorted(s)[k]
<1> DEFINE D == DOMAIN s
           at(k) == CHOOSE i \in D : Ahead(s, i) = k - 1
<1>0. s \in Seq(Nat) /\ D = 1..Len(s) /\ Len(s) \in Nat /\ \A i \in D : s[i] \in S
  <2>1. D = 1..Len(s) /\ Len(s) \in Nat
    OBVIOUS
  <2>2. \A i \in 1..Len(s) : s[i] \in S
    OBVIOUS
  <2>3. s \in [1..Len(s) -> Nat]
    <3>1. s \in [1..Len(s) -> S]
      OBVIOUS
    <3> QED
      BY <3>1
  <2>4. s \in Seq(Nat)
    BY <2>1, <2>3
  <2> QED
    BY <2>1, <2>2, <2>4
<1>1. \A k \in D : at(k) \in D /\ Ahead(s, at(k)) = k - 1
  BY <1>0, AheadNumbers
<1>2. \A i, j \in D : s[j] < s[i] \/ (s[j] = s[i] /\ j < i) => Ahead(s, j) < Ahead(s, i)
  BY <1>0, AheadNumbers
<1>3. \A i \in D : Ahead(s, i) + 1 \in D /\ Ahead(s, i) \in Nat
  <2>1. \A i \in D : Ahead(s, i) \in 0..(Len(s) - 1)
    BY <1>0, AheadNumbers
  <2> QED
    BY <1>0, <2>1
<1>4. Sorted(s) = [k \in D |-> s[at(k)]]
  BY DEF Sorted
<1> HIDE DEF at
<1>5. \A i, j \in D : Ahead(s, i) = Ahead(s, j) => i = j
  <2> SUFFICES ASSUME NEW i \in D, NEW j \in D, i # j PROVE Ahead(s, i) # Ahead(s, j)
    OBVIOUS
  <2>1. s[i] \in Nat /\ s[j] \in Nat /\ i \in Nat /\ j \in Nat
    BY <1>0
  <2>2. (s[j] < s[i] \/ (s[j] = s[i] /\ j < i)) \/ (s[i] < s[j] \/ (s[i] = s[j] /\ i < j))
    BY <2>1
  <2> QED
    BY <1>2, <1>3, <2>2
<1>6. \A i \in D : at(Ahead(s, i) + 1) = i
  <2> TAKE i \in D
  <2>1. Ahead(s, i) + 1 \in D /\ Ahead(s, i) \in Nat
    BY <1>3
  <2>2. at(Ahead(s, i) + 1) \in D /\ Ahead(s, at(Ahead(s, i) + 1)) = Ahead(s, i)
    BY <1>1, <2>1
  <2> QED
    BY <1>5, <2>2
<1>7. \A i \in D : \E k \in D : Sorted(s)[k] = s[i]
  <2> TAKE i \in D
  <2>1. Ahead(s, i) + 1 \in D
    BY <1>3
  <2>2. Sorted(s)[Ahead(s, i) + 1] = s[i]
    BY <1>4, <1>6, <2>1
  <2> QED
    BY <2>1, <2>2
<1>8. Sorted(s) \in Seq(S) /\ Len(Sorted(s)) = Len(s) /\ DOMAIN Sorted(s) = D
  <2>1. \A k \in D : s[at(k)] \in S
    BY <1>1
  <2> QED
    BY <1>0, <1>4, <2>1
<1>9. ASSUME NEW j \in D, NEW k \in D, j < k PROVE Sorted(s)[j] <= Sorted(s)[k]
  <2>1. at(j) \in D /\ at(k) \in D /\ Ahead(s, at(j)) = j - 1 /\ Ahead(s, at(k)) = k - 1
    BY <1>1
  <2>2. ~(s[at(k)] < s[at(j)])
    BY <1>0, <1>2, <1>9, <2>1
  <2>3. s[at(k)] \in Nat /\ s[at(j)] \in Nat
    BY <1>0, <2>1
  <2> QED
    BY <1>4, <2>2, <2>3
<1> QED
  BY <1>7, <1>8, <1>9

\* The listing of a finite directory has its files and no others.
LEMMA ListingLists ==
  ASSUME NEW S, IsFiniteSet(S)
  PROVE  /\ Listing(S) \in Seq(S)
         /\ \A p \in S : \E i \in DOMAIN Listing(S) : Listing(S)[i] = p
<1> DEFINE n == Cardinality(S)
           IsListing(s) == \A p \in S : \E i \in DOMAIN s : s[i] = p
<1>1. n \in Nat /\ ExistsBijection(1..n, S)
  BY FS_CardinalityType
<1>2. \E s \in [1..n -> S] : IsListing(s)
  BY <1>1 DEF ExistsBijection, Bijection, Surjection
<1>3. Listing(S) \in [1..n -> S] /\ IsListing(Listing(S))
  <2>1. Listing(S) = CHOOSE s \in [1..n -> S] : IsListing(s)
    BY DEF Listing
  <2> HIDE DEF IsListing, n
  <2> QED
    BY <1>2, <2>1
<1> QED
  BY <1>1, <1>3

-----------------------------------------------------------------------------
(***************************************************************************)
(* CollectPaths.                                                           *)
(***************************************************************************)
\* The entries of a "paths" parameter.
EntryType == {e \in [kind : EntryKind, images : SUBSET Image] :
                e.kind = "file" => Cardinality(e.images) = 1}

LEMMA EntriesOfLists ==
  ASSUME NEW list \in EntryLists
  PROVE  list \in Seq(EntryType)
<1> DEFINE R == [kind : EntryKind, images : SUBSET Image]
<1>1. list \in Seq(R)
  BY ImageAssumption
<1>2. \A i \in DOMAIN list : list[i].kind = "file" => Cardinality(list[i].images) = 1
  BY ImageAssumption
<1>3. EntryType = {e \in R : e.kind = "file" => Cardinality(e.images) = 1}
  BY DEF EntryType
<1> HIDE DEF R
<1>4. \A i \in DOMAIN list : list[i] \in EntryType
  BY <1>1, <1>2, <1>3
<1> QED
  BY <1>1, <1>4

\* The list of paths has the images of a set added to it, and is sorted.
LEMMA SortedListing ==
  ASSUME NEW out \in Seq(Image), NEW S \in SUBSET Image
  PROVE  /\ Sorted(out \o Listing(S)) \in Seq(Image)
         /\ \A i \in DOMAIN out : \E k \in DOMAIN Sorted(out \o Listing(S)) :
              Sorted(out \o Listing(S))[k] = out[i]
         /\ \A p \in S : \E k \in DOMAIN Sorted(out \o Listing(S)) :
              Sorted(out \o Listing(S))[k] = p
<1> DEFINE l == Listing(S)
           o == out \o l
<1>1. Image \subseteq Nat /\ IsFiniteSet(S)
  BY ImageAssumption, FS_Subset
<1>2. l \in Seq(S) /\ \A p \in S : \E i \in DOMAIN l : l[i] = p
  BY <1>1, ListingLists
<1> HIDE DEF l
<1>3. l \in Seq(Image)
  BY <1>2
<1>4. o \in Seq(Image) /\ \A i \in DOMAIN out : i \in DOMAIN o /\ o[i] = out[i]
  BY <1>3
<1>5. \A i \in DOMAIN l : Len(out) + i \in DOMAIN o /\ o[Len(out) + i] = l[i]
  BY <1>3
<1> HIDE DEF o
<1>6. /\ Sorted(o) \in Seq(Image)
      /\ \A i \in DOMAIN o : \E k \in DOMAIN Sorted(o) : Sorted(o)[k] = o[i]
  BY <1>1, <1>4, SortedSorts
<1>7. \A i \in DOMAIN out : \E k \in DOMAIN Sorted(o) : Sorted(o)[k] = out[i]
  BY <1>4, <1>6
<1>8. \A p \in S : \E k \in DOMAIN Sorted(o) : Sorted(o)[k] = p
  BY <1>2, <1>5, <1>6
<1> QED
  BY <1>6, <1>7, <1>8 DEF o, l

\* An entry loses no path that is in the list, and adds its images; a glob may leave
\* some of them out.
LEMMA CollectPathsCollects ==
  ASSUME NEW e \in EntryType, NEW out \in Seq(Image)
  PROVE  /\ CollectPaths(e, out) \in Seq(Image)
         /\ \A i \in DOMAIN out : \E k \in DOMAIN CollectPaths(e, out) : CollectPaths(e, out)[k] = out[i]
         /\ e.kind \in {"file", "directory", "any"} =>
              \A p \in e.images : \E k \in DOMAIN CollectPaths(e, out) : CollectPaths(e, out)[k] = p
<1>1. e.images \in SUBSET Image /\ e.images \ Matching \in SUBSET Image
  BY DEF EntryType
<1>2. CASE e.kind = "file"
  <2>1. IsFiniteSet(e.images) /\ Cardinality(e.images) = 1
    BY <1>1, <1>2, ImageAssumption, FS_Subset DEF EntryType
  <2>2. PICK p : e.images = {p}
    BY <2>1, FS_Singleton
  <2>3. CollectPaths(e, out) = Append(out, p) /\ p \in Image
    BY <1>1, <1>2, <2>2 DEF CollectPaths
  <2>4. /\ Append(out, p) \in Seq(Image)
        /\ \A i \in DOMAIN out : i \in DOMAIN Append(out, p) /\ Append(out, p)[i] = out[i]
        /\ Len(out) + 1 \in DOMAIN Append(out, p) /\ Append(out, p)[Len(out) + 1] = p
    BY <2>3
  <2> QED
    BY <2>2, <2>3, <2>4
<1>3. CASE e.kind \in {"directory", "any"}
  <2>1. CollectPaths(e, out) = Sorted(out \o Listing(e.images))
    BY <1>3 DEF CollectPaths
  <2> QED
    BY <1>1, <2>1, SortedListing
<1>4. CASE e.kind = "glob"
  <2> DEFINE G == e.images \ Matching
  <2>1. CollectPaths(e, out) = Sorted(out \o Listing(G)) /\ G \in SUBSET Image
    BY <1>1, <1>4 DEF CollectPaths
  <2> HIDE DEF G
  <2>2. /\ CollectPaths(e, out) \in Seq(Image)
        /\ \A i \in DOMAIN out : \E k \in DOMAIN CollectPaths(e, out) : CollectPaths(e, out)[k] = out[i]
    BY <2>1, SortedListing
  <2>3. e.kind \notin {"file", "directory", "any"}
    BY <1>4
  <2> QED
    BY <2>2, <2>3
<1>5. CASE e.kind \in {"missing", "denied"}
  <2>1. CollectPaths(e, out) = out
    BY <1>5 DEF CollectPaths
  <2> QED
    BY <1>5, <2>1
<1> QED
  BY <1>2, <1>3, <1>4, <1>5 DEF EntryType, EntryKind

-----------------------------------------------------------------------------
(***************************************************************************)
(* The inductive invariant.                                                *)
(***************************************************************************)
SampleType == [index : 0..MaxFrames, eos : BOOLEAN]

\* The types of the variables, those included that IngressTypeOK does not name.
Typed ==
  /\ IngressTypeOK
  /\ entries \in Seq(EntryType)
  /\ loop \in BOOLEAN
  /\ max_frames \in Int
  /\ vlast \in SampleType
  /\ dried \in BOOLEAN
  /\ kind \in {"image_src", "video_src"}
  /\ stopReq \in BOOLEAN
  /\ injected \in Seq(SampleType)

\* The source owns one reader at most: of its kind, and with nothing open once closed.
OneReader ==
  /\ kind = "image_src" => vpc = "closed"
  /\ kind = "video_src" => rdpc = "closed"
  /\ rdpc = "closed" => paths = <<>>
  /\ vpc = "closed" => capture = NotGiven

\* What Open has to start from, and what Next may rely on.
ReaderReady ==
  /\ rdpc = "collect" => cursor = 0 /\ frame_index = 0 /\ given = <<>> /\ last = None
  /\ rdpc \in {"idle", "read", "ended"} => paths # <<>>
  /\ rdpc = "read" => frame_index < MaxFrames
  /\ vpc = "read" => vframe_index < MaxFrames

\* Where the host, the reader thread and the reader can be at the same time.
Phases ==
  /\ spc = "stopped" => rpc = "off" /\ ReaderState = "closed"
  /\ spc = "opening" => rpc = "off" /\ ReaderState \in {"collect", "idle", "failed", "threw"}
  /\ spc = "aborted" => rpc = "off" /\ ReaderState = "threw"
  /\ spc = "running" /\ rpc = "off" => ReaderState = "closed"
  /\ spc = "joining" /\ rpc = "off" => ReaderState \in {"closed", "threw"}
  /\ rpc \in {"top", "pace", "divide", "crashed"} => ReaderState = "idle"
  /\ rpc = "next" => ReaderState \in {"idle", "read", "ended"}
  /\ rpc = "done" => ReaderState \in {"idle", "ended"}

\* How the injected frames compare with those that the reader has yielded.
NoEos == \A i \in DOMAIN injected : ~injected[i].eos

Counted ==
  /\ \A i \in DOMAIN injected : injected[i].index = i - 1 /\ (injected[i].eos => i = Len(injected))
  /\ spc = "opening" => injected = <<>> /\ FrameIndex = 0
  /\ rpc \in {"top", "pace", "divide", "next"} => NoEos
  /\ rpc \in {"top", "pace", "divide"} => Len(injected) = FrameIndex
  /\ rpc = "next" =>
       CASE ReaderState = "idle"  -> Len(injected) + 1 = FrameIndex /\ Sample = [index |-> Len(injected), eos |-> FALSE]
         [] ReaderState = "ended" -> Len(injected) = FrameIndex /\ Sample = [index |-> Len(injected), eos |-> TRUE]
         [] OTHER -> Len(injected) = FrameIndex
  /\ rpc = "done" /\ ~stopReq => injected # <<>> /\ injected[Len(injected)].eos

\* YieldsInOrder, and that Next has yielded nothing from beyond the cursor.
Yielded ==
  /\ YieldsInOrder
  /\ ~loop /\ rdpc \in {"idle", "read", "ended"} => \A i \in DOMAIN given : given[i] <= cursor

IngressInv ==
  /\ Typed
  /\ OneReader
  /\ ReaderReady
  /\ Phases
  /\ Counted
  /\ Yielded
  /\ HonoursMaxFrames

-----------------------------------------------------------------------------
(***************************************************************************)
(* Type correctness.                                                       *)
(***************************************************************************)
LEMMA Constants ==
  /\ MaxFrames \in Nat
  /\ FpsValues \subseteq Int
  /\ Loops \subseteq BOOLEAN
  /\ 0 \in 0..MaxFrames
  /\ None \in SampleType
BY ImageAssumption, IngressAssumption DEF None, SampleType

LEMMA NamedType ==
  ASSUME NEW params \in VideoParams
  PROVE  /\ Named(params) \in Medium \cup {"device", NotGiven}
         /\ params.max_frames \in Int \cup {NotGiven}
<1>1. /\ params.uri \in Medium \cup {EmptyName, NotGiven}
      /\ params.path \in Medium \cup {EmptyName, NotGiven}
      /\ params.max_frames \in Int \cup {NotGiven}
  BY VideoAssumption
<1> QED
  BY <1>1 DEF Named

\* The types of each reader's variables, as a step of the other leaves them.
ImageTyped == ImageTypeOK /\ entries \in Seq(EntryType) /\ loop \in BOOLEAN

VideoTyped ==
  /\ vpc \in {"closed", "failed", "threw", "idle", "read", "ended"}
  /\ capture \in Medium \cup {"device", NotGiven}
  /\ vframe_index \in 0..MaxFrames
  /\ max_frames \in Int
  /\ vlast \in SampleType
  /\ dried \in BOOLEAN

LEMMA OpenTyped == Open => ImageTyped'
<1> SUFFICES ASSUME Open PROVE ImageTyped'
  OBVIOUS
<1>1. entries' \in Seq(EntryType)
  BY EntriesOfLists DEF Open
<1> QED
  BY <1>1, Constants DEF Open, ImageTyped, ImageTypeOK, SampleType

LEMMA OpenVideoTyped == OpenVideo => VideoTyped'
<1> SUFFICES ASSUME NEW params \in VideoParams,
                    capture' \in {Named(params), NotGiven},
                    vpc' \in {"failed", "threw", "idle"},
                    max_frames' = IF params.max_frames = NotGiven THEN -1 ELSE params.max_frames,
                    vframe_index' = 0,
                    vlast' = None,
                    dried' = FALSE
             PROVE  VideoTyped'
  BY DEF OpenVideo, None
<1>1. capture' \in Medium \cup {"device", NotGiven}
  BY NamedType
<1>2. max_frames' \in Int
  BY NamedType
<1>3. vlast' \in SampleType /\ vframe_index' \in 0..MaxFrames
  BY Constants
<1> QED
  BY <1>1, <1>2, <1>3 DEF VideoTyped

LEMMA CloseTyped ==
  /\ ImageTyped /\ Close => ImageTyped'
  /\ VideoTyped /\ CloseVideo => VideoTyped'
<1>1. ImageTyped /\ Close => ImageTyped'
  BY DEF ImageTyped, ImageTypeOK, Close
<1>2. VideoTyped /\ CloseVideo => VideoTyped'
  BY DEF VideoTyped, CloseVideo
<1> QED
  BY <1>1, <1>2

LEMMA CallTyped ==
  /\ ImageTyped /\ CallNext => ImageTyped'
  /\ VideoTyped /\ CallNextVideo => VideoTyped'
<1>1. ImageTyped /\ CallNext => ImageTyped'
  BY DEF ImageTyped, ImageTypeOK, CallNext
<1>2. VideoTyped /\ CallNextVideo => VideoTyped'
  BY DEF VideoTyped, CallNextVideo
<1> QED
  BY <1>1, <1>2

LEMMA CollectTyped == ImageTyped /\ ReaderReady /\ Collect => ImageTyped'
<1> SUFFICES ASSUME ImageTyped, ReaderReady, Collect PROVE ImageTyped'
  OBVIOUS
<1>1. CASE entries = <<>>
  BY <1>1 DEF Collect, ImageTyped, ImageTypeOK
<1>2. CASE entries # <<>>
  <2>1. Head(entries) \in EntryType /\ Tail(entries) \in Seq(EntryType)
    BY <1>2 DEF ImageTyped
  <2>2. paths' \in Seq(Image)
    BY <1>2, <2>1, CollectPathsCollects DEF Collect, ImageTyped, ImageTypeOK
  <2>3. cursor' = 0 /\ cursor' \in 0..Len(paths')
    BY <2>2 DEF Collect, ReaderReady
  <2> QED
    BY <1>2, <2>1, <2>2, <2>3 DEF Collect, ImageTyped, ImageTypeOK
<1> QED
  BY <1>1, <1>2

LEMMA MakeEosTyped == ImageTyped /\ MakeEosSample => ImageTyped'
BY DEF ImageTyped, ImageTypeOK, MakeEosSample

\* The position that Next takes is one of the list.
LEMMA PositionInList ==
  ASSUME ImageTyped, ReaderReady, rdpc = "read"
  PROVE  (IF AtEnd THEN 1 ELSE cursor + 1) \in 1..Len(paths)
BY DEF ImageTyped, ImageTypeOK, ReaderReady, AtEnd

LEMMA ReadImageTyped == ImageTyped /\ ReaderReady /\ ReadImage => ImageTyped'
<1> SUFFICES ASSUME ImageTyped, ReaderReady, ReadImage PROVE ImageTyped'
  OBVIOUS
<1> DEFINE p == IF AtEnd THEN 1 ELSE cursor + 1
<1>1. p \in 1..Len(paths)
  BY PositionInList DEF ReadImage
<1>2. cursor' = p
  BY DEF ReadImage
<1>a. PICK ok : MakeFrame(p, ok)
  BY DEF ReadImage
<1> HIDE DEF p
<1>3. frame_index < MaxFrames
  BY DEF ReadImage, ReaderReady
<1>4. /\ frame_index' \in 0..MaxFrames
      /\ last' \in [index : 0..MaxFrames, eos : BOOLEAN]
      /\ given' \in Seq(Nat \ {0})
      /\ rdpc' \in {"idle", "read"}
  <2>1. CASE ok
    <3>1. last' = [index |-> frame_index, eos |-> FALSE] /\ frame_index' = frame_index + 1
          /\ given' = Append(given, p) /\ rdpc' = "idle"
      BY <1>a, <2>1 DEF MakeFrame
    <3>2. frame_index \in 0..MaxFrames /\ given \in Seq(Nat \ {0}) /\ p \in Nat \ {0}
      BY <1>1 DEF ImageTyped, ImageTypeOK
    <3> QED
      BY <1>3, <3>1, <3>2, Constants
  <2>2. CASE ~ok
    BY <1>a, <2>2 DEF MakeFrame, ReadImage, ImageTyped, ImageTypeOK
  <2> QED
    BY <2>1, <2>2
<1>5. /\ cursor' \in 0..Len(paths') /\ paths' = paths
      /\ entries' = entries /\ loop' = loop
  BY <1>1, <1>2 DEF ReadImage
<1> QED
  BY <1>4, <1>5 DEF ImageTyped, ImageTypeOK

LEMMA ReadVideoTyped == VideoTyped /\ ReaderReady /\ ReadVideo => VideoTyped'
<1> SUFFICES ASSUME VideoTyped, ReaderReady, ReadVideo PROVE VideoTyped'
  OBVIOUS
<1>1. vframe_index < MaxFrames /\ MaxFrames \in Nat
  BY Constants DEF ReadVideo, NextMaxFrames, NextDried, NextFrame, ReaderReady
<1> USE DEF VideoTyped, SampleType
<1>2. CASE NextMaxFrames
  BY <1>1, <1>2 DEF NextMaxFrames, EndVideo
<1>3. CASE NextDried
  BY <1>1, <1>3 DEF NextDried, EndVideo
<1>4. CASE NextFrame
  <2>1. vframe_index' \in 0..MaxFrames /\ vlast' \in SampleType
    BY <1>1, <1>4 DEF NextFrame
  <2> QED
    BY <1>4, <2>1 DEF NextFrame
<1> QED
  BY <1>2, <1>3, <1>4 DEF ReadVideo

LEMMA TypedParts ==
  Typed <=> /\ ImageTyped
            /\ VideoTyped
            /\ spc \in {"stopped", "opening", "running", "joining", "aborted"}
            /\ rpc \in {"off", "top", "next", "pace", "divide", "done", "crashed"}
            /\ fps \in FpsValues
            /\ Len(injected) <= MaxFrames + 1
            /\ kind \in {"image_src", "video_src"}
            /\ stopReq \in BOOLEAN
            /\ injected \in Seq(SampleType)
BY DEF Typed, IngressTypeOK, ImageTyped, VideoTyped

\* An unchanged reader keeps its types.
LEMMA ReaderKept ==
  /\ ImageTyped /\ UNCHANGED imageVars => ImageTyped'
  /\ VideoTyped /\ UNCHANGED videoVars => VideoTyped'
BY DEF ImageTyped, ImageTypeOK, VideoTyped, imageVars, videoVars

\* The calls of PullSource keep the types of both readers.
LEMMA CallsTyped ==
  ASSUME ImageTyped, VideoTyped, ReaderOpen \/ ReaderCall \/ ReaderClose
  PROVE  ImageTyped' /\ VideoTyped'
BY OpenTyped, OpenVideoTyped, CallTyped, CloseTyped, ReaderKept DEF ReaderOpen, ReaderCall, ReaderClose

\* A step inside Open or Next.
LEMMA ReaderStepTyped ==
  ASSUME ImageTyped, VideoTyped, ReaderReady, ReaderStep
  PROVE  ImageTyped' /\ VideoTyped' /\ UNCHANGED sourceVars
BY CollectTyped, MakeEosTyped, ReadImageTyped, ReadVideoTyped, ReaderKept DEF ReaderStep

LEMMA TypedInit == IngressInit => Typed
<1> SUFFICES ASSUME IngressInit PROVE Typed
  OBVIOUS
<1>1. ImageTyped
  <2>1. last \in [index : 0..MaxFrames, eos : BOOLEAN]
    BY Constants DEF IngressInit, ImageInit, SampleType
  <2>2. loop \in BOOLEAN
    BY DEF IngressInit, ImageInit
  <2>3. /\ rdpc = "closed" /\ entries = <<>> /\ paths = <<>>
        /\ cursor = 0 /\ frame_index = 0 /\ given = <<>>
    BY DEF IngressInit, ImageInit
  <2>4. frame_index \in 0..MaxFrames /\ cursor \in 0..Len(paths)
    BY <2>3, Constants
  <2> QED
    BY <2>1, <2>2, <2>3, <2>4 DEF ImageTyped, ImageTypeOK
<1>2. VideoTyped
  <2>1. vlast \in SampleType
    BY Constants DEF IngressInit, VideoInit, None
  <2>2. dried \in BOOLEAN
    BY DEF IngressInit, VideoInit
  <2>3. vpc = "closed" /\ capture = NotGiven /\ max_frames = -1 /\ vframe_index = 0
    BY DEF IngressInit, VideoInit
  <2>4. vframe_index \in 0..MaxFrames /\ max_frames \in Int
    BY <2>3, Constants
  <2> QED
    BY <2>1, <2>2, <2>3, <2>4 DEF VideoTyped
<1>3. injected \in Seq(SampleType) /\ Len(injected) <= MaxFrames + 1
  BY Constants DEF IngressInit
<1> QED
  BY <1>1, <1>2, <1>3, TypedParts DEF IngressInit

LEMMA TypedStep == IngressInv /\ [IngressNext]_ingressVars => Typed'
<1> SUFFICES ASSUME Typed, ReaderReady, Counted, Phases, [IngressNext]_ingressVars
             PROVE  Typed'
  BY DEF IngressInv
<1> DEFINE Host ==
             /\ spc \in {"stopped", "opening", "running", "joining", "aborted"}
             /\ rpc \in {"off", "top", "next", "pace", "divide", "done", "crashed"}
             /\ fps \in FpsValues
             /\ kind \in {"image_src", "video_src"}
             /\ stopReq \in BOOLEAN
           Stream == injected \in Seq(SampleType) /\ Len(injected) <= MaxFrames + 1
<1>1. ImageTyped /\ VideoTyped /\ Host /\ Stream /\ MaxFrames \in Nat
  BY TypedParts, Constants
<1>2. SUFFICES ImageTyped' /\ VideoTyped' /\ Host' /\ Stream'
  BY DEF Typed, IngressTypeOK, ImageTyped, VideoTyped
<1>3. CASE Start
  <2>1. ImageTyped' /\ VideoTyped'
    BY <1>1, <1>3, CallsTyped DEF Start
  <2>2. Host'
    BY <1>1, <1>3 DEF Start
  <2>3. Stream'
    <3>1. injected' = <<>>
      BY <1>3 DEF Start
    <3> QED
      BY <1>1, <3>1
  <2> QED
    BY <2>1, <2>2, <2>3
<1>4. CASE Opened
  <2>1. ImageTyped' /\ VideoTyped'
    BY <1>1, <1>4, CallsTyped, ReaderKept DEF Opened
  <2>2. Host' /\ Stream'
    BY <1>1, <1>4 DEF Opened
  <2> QED
    BY <2>1, <2>2
<1>5. CASE AskReader
  <2>1. ImageTyped' /\ VideoTyped'
    BY <1>1, <1>5, ReaderKept DEF AskReader
  <2>2. Host' /\ Stream'
    BY <1>1, <1>5 DEF AskReader
  <2> QED
    BY <2>1, <2>2
<1>6. CASE JoinAndClose
  <2>1. ImageTyped' /\ VideoTyped'
    BY <1>1, <1>6, CallsTyped, ReaderKept DEF JoinAndClose
  <2>2. Host' /\ Stream'
    BY <1>1, <1>6 DEF JoinAndClose
  <2> QED
    BY <2>1, <2>2
<1>7. CASE Configure
  <2>1. ImageTyped' /\ VideoTyped'
    BY <1>1, <1>7, ReaderKept DEF Configure
  <2>2. Host' /\ Stream'
    BY <1>1, <1>7 DEF Configure
  <2> QED
    BY <2>1, <2>2
<1>8. CASE LoopTop
  <2>1. ImageTyped' /\ VideoTyped'
    BY <1>1, <1>8, CallsTyped, ReaderKept DEF LoopTop
  <2>2. Host' /\ Stream'
    BY <1>1, <1>8 DEF LoopTop
  <2> QED
    BY <2>1, <2>2
<1>9. CASE InjectSample
  <2>1. ImageTyped' /\ VideoTyped'
    BY <1>1, <1>9, ReaderKept DEF InjectSample
  <2>2. Host'
    BY <1>1, <1>9 DEF InjectSample
  <2>3. Sample \in SampleType /\ FrameIndex \in 0..MaxFrames
    BY <1>1 DEF Sample, FrameIndex, ImageTyped, ImageTypeOK, VideoTyped, SampleType
  <2>4. Len(injected) <= FrameIndex
    <3>1. Len(injected) \in Nat
      BY <1>1
    <3> QED
      BY <1>9, <2>3, <3>1 DEF InjectSample, Counted
  <2>5. Stream'
    BY <1>1, <1>9, <2>3, <2>4 DEF InjectSample
  <2> QED
    BY <2>1, <2>2, <2>5
<1>10. CASE PaceTest \/ PaceDivide
  <2>1. ImageTyped' /\ VideoTyped'
    BY <1>1, <1>10, ReaderKept DEF PaceTest, PaceDivide
  <2>2. Host' /\ Stream'
    BY <1>1, <1>10 DEF PaceTest, PaceDivide
  <2> QED
    BY <2>1, <2>2
<1>11. CASE ReaderStep
  <2>1. ImageTyped' /\ VideoTyped' /\ UNCHANGED sourceVars
    BY <1>1, <1>11, ReaderStepTyped
  <2>2. Host' /\ Stream'
    BY <1>1, <2>1 DEF sourceVars
  <2> QED
    BY <2>1, <2>2
<1>12. CASE UNCHANGED ingressVars
  <2>1. ImageTyped' /\ VideoTyped'
    BY <1>1, <1>12, ReaderKept DEF ingressVars
  <2>2. Host' /\ Stream'
    BY <1>1, <1>12 DEF ingressVars, sourceVars
  <2> QED
    BY <2>1, <2>2
<1> QED
  BY <1>3, <1>4, <1>5, <1>6, <1>7, <1>8, <1>9, <1>10, <1>11, <1>12 DEF IngressNext, LoopStep

-----------------------------------------------------------------------------
(***************************************************************************)
(* One reader, and the phases of host, thread and reader.                  *)
(***************************************************************************)
\* What the calls of PullSource make of the reader, whichever it is.
LEMMA OpenGives ==
  ASSUME OneReader, kind \in {"image_src", "video_src"}, kind' = kind, ReaderOpen
  PROVE  /\ OneReader'
         /\ ReaderState' \in {"collect", "idle", "failed", "threw"}
         /\ FrameIndex' = 0 /\ Sample' = None
BY DEF OneReader, ReaderOpen, Open, OpenVideo, videoVars, imageVars, ReaderState, FrameIndex, Sample, None

LEMMA CallGives ==
  ASSUME OneReader, kind \in {"image_src", "video_src"}, kind' = kind, ReaderCall
  PROVE  /\ OneReader'
         /\ ReaderState = "idle" /\ ReaderState' = "read"
         /\ FrameIndex' = FrameIndex /\ Sample' = Sample
BY DEF OneReader, ReaderCall, CallNext, CallNextVideo, videoVars, imageVars, ReaderState, FrameIndex, Sample

LEMMA CloseGives ==
  ASSUME OneReader, kind \in {"image_src", "video_src"}, kind' = kind, ReaderClose
  PROVE  OneReader' /\ ReaderState' = "closed" /\ FrameIndex' = FrameIndex
BY DEF OneReader, ReaderClose, Close, CloseVideo, videoVars, imageVars, ReaderState, FrameIndex

LEMMA ReaderSame ==
  ASSUME OneReader, kind' = kind, UNCHANGED <<imageVars, videoVars>>
  PROVE  /\ OneReader'
         /\ ReaderState' = ReaderState /\ FrameIndex' = FrameIndex /\ Sample' = Sample
BY DEF OneReader, videoVars, imageVars, ReaderState, FrameIndex, Sample

\* What a step inside Open or Next comes to: the reader goes on, or it yields a frame
\* or the end of the stream.
ReaderGoesOn ==
  /\ ReaderState \in {"collect", "read"}
  /\ \/ ReaderState' = ReaderState
     \/ ReaderState = "collect" /\ ReaderState' \in {"idle", "failed", "threw"}
  /\ FrameIndex' = FrameIndex /\ Sample' = Sample

ReaderYields ==
  /\ ReaderState = "read" /\ ReaderState' = "idle"
  /\ FrameIndex' = FrameIndex + 1 /\ Sample' = [index |-> FrameIndex, eos |-> FALSE]

ReaderEnds ==
  /\ ReaderState = "read" /\ ReaderState' = "ended"
  /\ FrameIndex' = FrameIndex /\ Sample' = [index |-> FrameIndex, eos |-> TRUE]

LEMMA ReaderStepGives ==
  ASSUME OneReader, kind \in {"image_src", "video_src"}, ReaderStep
  PROVE  /\ OneReader'
         /\ ReaderGoesOn \/ ReaderYields \/ ReaderEnds
<1>1. ASSUME Collect, UNCHANGED <<videoVars, sourceVars>>
      PROVE  OneReader' /\ ReaderGoesOn
  BY <1>1 DEF OneReader, Collect, videoVars, sourceVars, ReaderState, FrameIndex, Sample, ReaderGoesOn
<1>2. ASSUME MakeEosSample, UNCHANGED <<videoVars, sourceVars>>
      PROVE  OneReader' /\ ReaderEnds
  BY <1>2 DEF OneReader, MakeEosSample, videoVars, sourceVars, ReaderState, FrameIndex, Sample, ReaderEnds
<1>3. ASSUME ReadImage, UNCHANGED <<videoVars, sourceVars>>
      PROVE  OneReader' /\ (ReaderGoesOn \/ ReaderYields)
  <2>1. PICK p, ok : MakeFrame(p, ok)
    BY <1>3 DEF ReadImage
  <2>2. rdpc = "read" /\ kind = "image_src" /\ rdpc' \in {"read", "idle"} /\ kind' = kind /\ vpc' = vpc /\ capture' = capture
    BY <1>3, <2>1 DEF OneReader, ReadImage, MakeFrame, videoVars, sourceVars
  <2>3. OneReader'
    BY <2>2 DEF OneReader
  <2>a. /\ ReaderState = rdpc /\ FrameIndex = frame_index /\ Sample = last
        /\ ReaderState' = rdpc' /\ FrameIndex' = frame_index' /\ Sample' = last'
    BY <2>2 DEF ReaderState, FrameIndex, Sample
  <2>4. CASE ok
    <3>1. last' = [index |-> frame_index, eos |-> FALSE] /\ frame_index' = frame_index + 1 /\ rdpc' = "idle"
      BY <2>1, <2>4 DEF MakeFrame
    <3> QED
      BY <2>2, <2>3, <2>a, <3>1 DEF ReaderYields
  <2>5. CASE ~ok
    <3>1. UNCHANGED <<last, frame_index, rdpc>>
      BY <2>1, <2>5 DEF MakeFrame
    <3> QED
      BY <2>2, <2>3, <2>a, <3>1 DEF ReaderGoesOn
  <2> QED
    BY <2>3, <2>4, <2>5
<1>4. ASSUME ReadVideo, UNCHANGED <<imageVars, sourceVars>>
      PROVE  OneReader' /\ (ReaderYields \/ ReaderEnds)
  BY <1>4 DEF OneReader, ReadVideo, NextMaxFrames, NextDried, NextFrame, EndVideo, imageVars, sourceVars,
              ReaderState, FrameIndex, Sample, ReaderYields, ReaderEnds
<1> QED
  BY <1>1, <1>2, <1>3, <1>4 DEF ReaderStep

LEMMA PhasesInit == IngressInit => OneReader /\ ReaderReady /\ Phases
<1> SUFFICES ASSUME IngressInit PROVE OneReader /\ ReaderReady /\ Phases
  OBVIOUS
<1>1. ReaderState = "closed" /\ spc = "stopped" /\ rpc = "off"
  BY DEF IngressInit, ImageInit, VideoInit, ReaderState
<1> QED
  BY <1>1 DEF IngressInit, ImageInit, VideoInit, OneReader, ReaderReady, Phases

LEMMA PhasesStep ==
  ASSUME IngressInv, [IngressNext]_ingressVars
  PROVE  OneReader' /\ Phases'
<1>0. OneReader /\ Phases /\ kind \in {"image_src", "video_src"}
  BY DEF IngressInv, Typed
<1>1. CASE Start
  <2>1. /\ OneReader' /\ ReaderState' \in {"collect", "idle", "failed", "threw"}
        /\ spc' = "opening" /\ rpc' = rpc /\ spc \in {"stopped", "aborted"}
    BY <1>0, <1>1, OpenGives DEF Start
  <2> QED
    BY <1>0, <2>1 DEF Phases
<1>2. CASE Opened
  <2>1. CASE ReaderState = "failed" /\ spc' = "running" /\ ReaderClose /\ UNCHANGED rpc
    <3>1. OneReader' /\ ReaderState' = "closed"
      BY <1>0, <1>2, <2>1, CloseGives DEF Opened
    <3> QED
      BY <1>0, <1>2, <2>1, <3>1 DEF Phases, Opened
  <2>2. CASE UNCHANGED <<imageVars, videoVars>>
    <3>1. OneReader' /\ ReaderState' = ReaderState
      BY <1>0, <1>2, <2>2, ReaderSame DEF Opened
    <3>2. \/ ReaderState = "idle" /\ spc' = "running" /\ rpc' = "top"
          \/ ReaderState = "threw" /\ spc' = "aborted" /\ rpc' = rpc
          \/ ReaderState = "failed" /\ ReaderClose
      BY <1>2 DEF Opened
    <3>3. ~(ReaderState = "failed" /\ ReaderClose)
      BY <1>0, <1>2, <3>1, CloseGives DEF Opened
    <3> QED
      BY <1>0, <1>2, <3>1, <3>2, <3>3 DEF Phases, Opened
  <2> QED
    BY <1>2, <2>1, <2>2 DEF Opened
<1>3. CASE AskReader
  <2>1. OneReader' /\ ReaderState' = ReaderState
    BY <1>0, <1>3, ReaderSame DEF AskReader
  <2> QED
    BY <1>0, <1>3, <2>1 DEF AskReader, Phases
<1>4. CASE JoinAndClose
  <2>1. OneReader' /\ ReaderState' = "closed"
    BY <1>0, <1>4, ReaderSame, CloseGives DEF JoinAndClose
  <2> QED
    BY <1>4, <2>1 DEF JoinAndClose, Phases
<1>5. CASE Configure \/ InjectSample \/ PaceTest \/ PaceDivide
  <2>1. UNCHANGED <<imageVars, videoVars>> /\ kind' = kind /\ spc' = spc
    BY <1>5 DEF Configure, InjectSample, PaceTest, PaceDivide
  <2>2. OneReader' /\ ReaderState' = ReaderState
    BY <1>0, <2>1, ReaderSame
  <2>3. CASE Configure
    BY <1>0, <2>1, <2>2, <2>3 DEF Configure, Phases
  <2>4. CASE InjectSample
    <3>1. Sample.eos => ReaderState = "ended"
      BY <2>4 DEF InjectSample, IngressInv, Counted
    <3>2. ~Sample.eos => ReaderState = "idle"
      BY <2>4 DEF InjectSample, IngressInv, Counted
    <3> QED
      BY <1>0, <2>1, <2>2, <2>4, <3>1, <3>2 DEF InjectSample, Phases
  <2>5. CASE PaceTest \/ PaceDivide
    BY <1>0, <2>1, <2>2, <2>5 DEF PaceTest, PaceDivide, Phases
  <2> QED
    BY <1>5, <2>3, <2>4, <2>5
<1>6. CASE LoopTop
  <2>1. CASE stopReq
    <3>1. OneReader' /\ ReaderState' = ReaderState
      BY <1>0, <1>6, <2>1, ReaderSame DEF LoopTop
    <3> QED
      BY <1>0, <1>6, <2>1, <3>1 DEF LoopTop, Phases
  <2>2. CASE ~stopReq
    <3>1. OneReader' /\ ReaderState' = "read"
      BY <1>0, <1>6, <2>2, CallGives DEF LoopTop
    <3> QED
      BY <1>0, <1>6, <2>2, <3>1 DEF LoopTop, Phases
  <2> QED
    BY <2>1, <2>2
<1>7. CASE ReaderStep
  <2>1. OneReader' /\ (ReaderGoesOn \/ ReaderYields \/ ReaderEnds) /\ UNCHANGED sourceVars
    BY <1>0, <1>7, ReaderStepGives DEF ReaderStep
  <2> QED
    BY <1>0, <2>1 DEF Phases, ReaderGoesOn, ReaderYields, ReaderEnds, sourceVars
<1>8. CASE UNCHANGED ingressVars
  <2>1. OneReader' /\ ReaderState' = ReaderState /\ UNCHANGED sourceVars
    BY <1>0, <1>8, ReaderSame DEF ingressVars, sourceVars
  <2> QED
    BY <1>0, <2>1 DEF Phases, sourceVars
<1> QED
  BY <1>1, <1>2, <1>3, <1>4, <1>5, <1>6, <1>7, <1>8 DEF IngressNext, LoopStep

-----------------------------------------------------------------------------
(***************************************************************************)
(* What the readers may rely on.                                           *)
(***************************************************************************)
LEMMA ReaderReadyStep ==
  ASSUME IngressInv, [IngressNext]_ingressVars
  PROVE  ReaderReady'
<1>0. ReaderReady /\ Typed /\ OneReader /\ ImageTyped
  BY TypedParts DEF IngressInv
<1>1. ASSUME ReaderOpen PROVE ReaderReady'
  BY <1>0, <1>1 DEF ReaderOpen, Open, OpenVideo, ReaderReady, OneReader, Typed, videoVars, imageVars
<1>2. ASSUME ReaderClose PROVE ReaderReady'
  BY <1>0, <1>2 DEF ReaderClose, Close, CloseVideo, ReaderReady, OneReader, Typed, videoVars, imageVars
<1>3. ASSUME ReaderCall, FrameIndex < MaxFrames PROVE ReaderReady'
  BY <1>0, <1>3 DEF ReaderCall, CallNext, CallNextVideo, FrameIndex, ReaderReady, OneReader, Typed, videoVars, imageVars
<1>4. ASSUME UNCHANGED <<imageVars, videoVars>> PROVE ReaderReady'
  BY <1>0, <1>4 DEF ReaderReady, videoVars, imageVars
<1>5. ASSUME Collect, UNCHANGED videoVars PROVE ReaderReady'
  BY <1>0, <1>5 DEF ReaderReady, Collect, videoVars
<1>6. ASSUME MakeEosSample \/ ReadImage, UNCHANGED videoVars PROVE ReaderReady'
  <2>1. paths' = paths /\ rdpc = "read" /\ rdpc' \in {"read", "idle", "ended"}
        /\ (rdpc' = "read" => frame_index' = frame_index)
    BY <1>6 DEF MakeEosSample, ReadImage, MakeFrame
  <2> QED
    BY <1>0, <1>6, <2>1 DEF ReaderReady, videoVars
<1>7. ASSUME ReadVideo, UNCHANGED imageVars PROVE ReaderReady'
  BY <1>0, <1>7 DEF ReadVideo, NextMaxFrames, NextDried, NextFrame, EndVideo, ReaderReady, imageVars
<1> QED
  BY <1>1, <1>2, <1>3, <1>4, <1>5, <1>6, <1>7
  DEF IngressNext, LoopStep, Start, Opened, AskReader, JoinAndClose, Configure, LoopTop, InjectSample,
      PaceTest, PaceDivide, ReaderStep, ingressVars

-----------------------------------------------------------------------------
(***************************************************************************)
(* The injected frames.                                                    *)
(***************************************************************************)
LEMMA FrameIndexType == IngressInv => FrameIndex \in 0..MaxFrames /\ Len(injected) \in Nat
<1> SUFFICES ASSUME IngressInv PROVE FrameIndex \in 0..MaxFrames /\ Len(injected) \in Nat
  OBVIOUS
<1>1. injected \in Seq(SampleType) /\ ImageTypeOK /\ vframe_index \in 0..MaxFrames
  BY DEF IngressInv, Typed, IngressTypeOK
<1> QED
  BY <1>1 DEF FrameIndex, ImageTypeOK

\* A step of the host or of the thread that touches neither the frames nor the reader.
LEMMA CountedKept ==
  ASSUME Counted, OneReader, UNCHANGED <<imageVars, videoVars, kind, injected>>,
         rpc' = "next" => rpc = "next",
         rpc' \in {"top", "pace", "divide"} => rpc \in {"top", "pace", "divide"} \/ spc = "opening",
         rpc' = "done" /\ ~stopReq' => rpc = "done" /\ ~stopReq,
         spc' = "opening" => spc = "opening"
  PROVE  Counted'
<1>1. ReaderState' = ReaderState /\ FrameIndex' = FrameIndex /\ Sample' = Sample
  BY ReaderSame
<1>2. NoEos' = NoEos
  BY DEF NoEos
<1>3. spc = "opening" => NoEos /\ Len(injected) = FrameIndex
  BY DEF Counted, NoEos
<1> QED
  BY <1>1, <1>2, <1>3 DEF Counted

LEMMA CountedInit == IngressInit => Counted
BY DEF IngressInit, Counted, NoEos

LEMMA CountedInject ==
  ASSUME IngressInv, InjectSample
  PROVE  Counted'
<1>1. injected \in Seq(SampleType) /\ injected' = Append(injected, Sample) /\ spc' = spc /\ stopReq' = stopReq
  BY DEF IngressInv, Typed, InjectSample
<1>2. FrameIndex' = FrameIndex /\ OneReader /\ Counted /\ Phases
  BY ReaderSame DEF IngressInv, InjectSample
<1>3. FrameIndex \in 0..MaxFrames /\ Len(injected) \in Nat /\ MaxFrames \in Nat
  BY FrameIndexType, Constants
<1>4. /\ NoEos
      /\ Sample.index = Len(injected)
      /\ Sample.eos \/ Len(injected) + 1 = FrameIndex
      /\ spc # "opening" /\ rpc' = (IF Sample.eos THEN "done" ELSE "pace")
  BY <1>2 DEF InjectSample, Counted, Phases
<1> DEFINE n == Len(injected)
<1>5. Len(injected') = n + 1 /\ injected'[n + 1] = Sample
      /\ \A i \in 1..n : injected'[i] = injected[i]
  BY <1>1
<1>6. DOMAIN injected' = 1..(n + 1) /\ DOMAIN injected = 1..n
  BY <1>1, <1>5
<1>7. \A i \in 1..n : injected[i].index = i - 1 /\ ~injected[i].eos
  BY <1>2, <1>4, <1>6 DEF Counted, NoEos
<1> HIDE DEF n
<1>8. \A i \in 1..n : injected'[i].index = i - 1 /\ ~injected'[i].eos
  BY <1>5, <1>7
<1>9. injected'[n + 1].index = n /\ injected'[n + 1].eos = Sample.eos /\ n \in Nat
  BY <1>3, <1>4, <1>5 DEF n
<1>10. \A i \in DOMAIN injected' :
         injected'[i].index = i - 1 /\ (injected'[i].eos => i = Len(injected'))
  <2> TAKE i \in DOMAIN injected'
  <2>1. CASE i \in 1..n
    BY <1>8, <2>1
  <2>2. CASE i = n + 1
    BY <1>5, <1>9, <2>2
  <2> QED
    BY <1>6, <1>9, <2>1, <2>2
<1>11. CASE Sample.eos
  <2>1. rpc' = "done"
    BY <1>4, <1>11
  <2>2. injected' # <<>> /\ injected'[Len(injected')].eos
    <3>1. injected' # <<>>
      BY <1>1
    <3> QED
      BY <1>5, <1>9, <1>11, <3>1
  <2> QED
    BY <1>1, <1>4, <1>10, <2>1, <2>2 DEF Counted
<1>12. CASE ~Sample.eos
  <2>1. rpc' = "pace"
    BY <1>4, <1>12
  <2>2. NoEos'
    <3> SUFFICES ASSUME NEW i \in DOMAIN injected' PROVE ~injected'[i].eos
      BY DEF NoEos
    <3>1. CASE i \in 1..n
      BY <1>8, <3>1
    <3>2. CASE i = n + 1
      BY <1>9, <1>12, <3>2
    <3> QED
      BY <1>6, <1>9, <3>1, <3>2
  <2>3. Len(injected') = FrameIndex'
    BY <1>2, <1>4, <1>5, <1>12 DEF n
  <2> QED
    BY <1>1, <1>4, <1>10, <2>1, <2>2, <2>3 DEF Counted
<1> QED
  BY <1>11, <1>12

LEMMA CountedReader ==
  ASSUME IngressInv, ReaderStep
  PROVE  Counted'
<1>1. (ReaderGoesOn \/ ReaderYields \/ ReaderEnds) /\ UNCHANGED sourceVars
  BY ReaderStepGives DEF IngressInv, Typed, ReaderStep
<1>2. rpc' = rpc /\ spc' = spc /\ injected' = injected /\ stopReq' = stopReq /\ NoEos' = NoEos
  BY <1>1 DEF sourceVars, NoEos
<1>3. FrameIndex \in 0..MaxFrames /\ Len(injected) \in Nat /\ Counted /\ Phases
  BY FrameIndexType DEF IngressInv
<1>4. ReaderState \in {"collect", "read"}
  BY <1>1 DEF ReaderGoesOn, ReaderYields, ReaderEnds
<1>5. rpc \in {"off", "next"}
  BY <1>3, <1>4 DEF Phases, IngressInv, Typed, IngressTypeOK
<1>6. CASE ReaderGoesOn
  <2>1. rpc = "next" => ReaderState' = "read" /\ ReaderState = "read"
    BY <1>3, <1>6 DEF Phases, ReaderGoesOn
  <2> QED
    BY <1>2, <1>3, <1>5, <1>6, <2>1 DEF Counted, ReaderGoesOn
<1>7. CASE ReaderYields \/ ReaderEnds
  <2>1. rpc = "next" /\ spc # "opening"
    BY <1>3, <1>5, <1>7 DEF Phases, ReaderYields, ReaderEnds, IngressInv, Typed, IngressTypeOK
  <2>2. Len(injected) = FrameIndex /\ NoEos
    BY <1>3, <1>7, <2>1 DEF Counted, ReaderYields, ReaderEnds
  <2>3. CASE ReaderYields
    <3>1. Len(injected') + 1 = FrameIndex' /\ Sample' = [index |-> Len(injected'), eos |-> FALSE]
          /\ ReaderState' = "idle"
      BY <1>2, <2>2, <2>3 DEF ReaderYields
    <3> QED
      BY <1>2, <1>3, <2>1, <2>2, <3>1 DEF Counted
  <2>4. CASE ReaderEnds
    <3>1. Len(injected') = FrameIndex' /\ Sample' = [index |-> Len(injected'), eos |-> TRUE]
          /\ ReaderState' = "ended"
      BY <1>2, <2>2, <2>4 DEF ReaderEnds
    <3> QED
      BY <1>2, <1>3, <2>1, <2>2, <3>1 DEF Counted
  <2> QED
    BY <1>7, <2>3, <2>4
<1> QED
  BY <1>1, <1>6, <1>7

LEMMA CountedStep ==
  ASSUME IngressInv, [IngressNext]_ingressVars
  PROVE  Counted'
<1>0. OneReader /\ Phases /\ Counted /\ kind \in {"image_src", "video_src"}
  BY DEF IngressInv, Typed
<1>1. CASE Start
  <2>1. FrameIndex' = 0 /\ injected' = <<>> /\ rpc' = "off"
    BY <1>0, <1>1, OpenGives DEF Start, Phases
  <2> QED
    BY <2>1 DEF Counted
<1>2. CASE Opened
  <2>1. CASE spc' = "running" /\ ReaderClose /\ UNCHANGED rpc
    <3>1. rpc' = "off" /\ spc' = "running" /\ injected' = <<>>
      BY <1>0, <1>2, <2>1, CloseGives DEF Opened, Phases, Counted
    <3> QED
      BY <3>1 DEF Counted
  <2>2. CASE UNCHANGED <<imageVars, videoVars>>
    <3>1. /\ rpc' \in {"top", rpc} /\ spc' \in {"running", "aborted"} /\ spc = "opening"
          /\ UNCHANGED <<kind, stopReq, injected>>
      BY <1>2 DEF Opened
    <3> QED
      BY <1>0, <2>2, <3>1, CountedKept
  <2> QED
    BY <1>2, <2>1, <2>2 DEF Opened
<1>3. CASE AskReader
  <2>1. /\ UNCHANGED <<imageVars, videoVars, kind, injected, rpc>>
        /\ spc' = "joining" /\ stopReq'
    BY <1>3 DEF AskReader
  <2> QED
    BY <1>0, <2>1, CountedKept
<1>4. CASE JoinAndClose
  <2>1. rpc' = "off" /\ spc' = "stopped" /\ injected' = injected
    BY <1>4 DEF JoinAndClose
  <2> QED
    BY <1>0, <2>1 DEF Counted
<1>5. CASE Configure
  BY <1>0, <1>5, CountedKept DEF Configure
<1>6. CASE LoopTop
  <2>1. CASE stopReq
    BY <1>0, <1>6, <2>1, CountedKept DEF LoopTop
  <2>2. CASE ~stopReq
    <3>1. /\ ReaderState' = "read" /\ FrameIndex' = FrameIndex
          /\ UNCHANGED <<spc, injected>> /\ rpc' = "next" /\ rpc = "top"
      BY <1>0, <1>6, <2>2, CallGives DEF LoopTop
    <3>2. spc # "opening" /\ NoEos' = NoEos
      BY <1>0, <3>1 DEF Phases, NoEos
    <3> QED
      BY <1>0, <3>1, <3>2 DEF Counted
  <2> QED
    BY <2>1, <2>2
<1>7. CASE InjectSample
  BY <1>7, CountedInject
<1>8. CASE PaceTest \/ PaceDivide
  <2>1. /\ UNCHANGED <<imageVars, videoVars, kind, injected, stopReq, spc>>
        /\ rpc \in {"pace", "divide"} /\ rpc' \in {"divide", "top", "crashed"}
    BY <1>8 DEF PaceTest, PaceDivide
  <2> QED
    BY <1>0, <2>1, CountedKept
<1>9. CASE ReaderStep
  BY <1>9, CountedReader
<1>10. CASE UNCHANGED ingressVars
  BY <1>0, <1>10, CountedKept DEF ingressVars, sourceVars
<1> QED
  BY <1>1, <1>2, <1>3, <1>4, <1>5, <1>6, <1>7, <1>8, <1>9, <1>10 DEF IngressNext, LoopStep

-----------------------------------------------------------------------------
(***************************************************************************)
(* The images a session has yielded.                                       *)
(***************************************************************************)
LEMMA YieldedRead ==
  ASSUME ImageTyped, ReaderReady, Yielded, ReadImage
  PROVE  Yielded'
<1> DEFINE p == IF AtEnd THEN 1 ELSE cursor + 1
<1>1. p \in 1..Len(paths) /\ Len(paths) \in Nat /\ cursor \in Nat /\ given \in Seq(Nat \ {0})
  BY PositionInList DEF ReadImage, ImageTyped, ImageTypeOK
<1>2. cursor' = p /\ UNCHANGED <<paths, loop>> /\ rdpc = "read"
  BY DEF ReadImage
<1>3. PICK ok \in Readable[paths[p]] : MakeFrame(p, ok)
  BY DEF ReadImage
<1>4. rdpc' \in {"read", "idle"}
  BY <1>2, <1>3 DEF MakeFrame
<1>5. SUFFICES ASSUME ~loop PROVE Yielded'
  BY <1>2 DEF Yielded, YieldsInOrder
<1>6. p = cursor + 1
  BY <1>5 DEF ReadImage
<1>7. /\ \A i \in 1..(Len(given) - 1) : given[i] < given[i + 1]
      /\ \A q \in 1..cursor : Readable[paths[q]] = {TRUE} => \E i \in DOMAIN given : given[i] = q
      /\ \A i \in DOMAIN given : given[i] <= cursor
  BY <1>2, <1>5 DEF Yielded, YieldsInOrder
<1> HIDE DEF p
<1>8. CASE ok
  <2> DEFINE n == Len(given)
  <2>1. given' = Append(given, p)
    BY <1>3, <1>8 DEF MakeFrame
  <2>2. /\ Len(given') = n + 1 /\ given'[n + 1] = p /\ n \in Nat
        /\ DOMAIN given' = 1..(n + 1) /\ DOMAIN given = 1..n
        /\ \A i \in 1..n : given'[i] = given[i] /\ given[i] \in Nat
    BY <1>1, <2>1
  <2> HIDE DEF n
  <2>3. \A i \in 1..(Len(given') - 1) : given'[i] < given'[i + 1]
    <3> SUFFICES ASSUME NEW i \in 1..n PROVE given'[i] < given'[i + 1]
      BY <2>2
    <3>1. CASE i = n
      BY <1>1, <1>6, <1>7, <2>2, <3>1
    <3>2. CASE i < n
      <4>1. i \in 1..(n - 1) /\ i + 1 \in 1..n
        BY <2>2, <3>2
      <4> QED
        BY <1>7, <2>2, <4>1 DEF n
    <3> QED
      BY <2>2, <3>1, <3>2
  <2>4. \A i \in DOMAIN given' : given'[i] <= cursor'
    <3> TAKE i \in DOMAIN given'
    <3>1. CASE i \in 1..n
      <4>1. given'[i] = given[i] /\ given[i] <= cursor /\ given[i] \in Nat
        BY <1>7, <2>2, <3>1
      <4> QED
        BY <1>1, <1>2, <1>6, <4>1
    <3>2. CASE i = n + 1
      BY <1>1, <1>2, <2>2, <3>2
    <3> QED
      BY <2>2, <3>1, <3>2
  <2>5. \A q \in 1..cursor' : Readable[paths'[q]] = {TRUE} => \E i \in DOMAIN given' : given'[i] = q
    <3> SUFFICES ASSUME NEW q \in 1..cursor', Readable[paths[q]] = {TRUE}
                 PROVE  \E i \in DOMAIN given' : given'[i] = q
      BY <1>2
    <3>1. CASE q = p
      BY <2>2, <3>1
    <3>2. CASE q \in 1..cursor
      <4>1. PICK i \in DOMAIN given : given[i] = q
        BY <1>7, <3>2
      <4>2. i \in DOMAIN given' /\ given'[i] = q
        BY <2>2, <4>1
      <4> QED
        BY <4>2
    <3> QED
      BY <1>1, <1>2, <1>6, <3>1, <3>2
  <2> QED
    BY <1>4, <2>3, <2>4, <2>5 DEF Yielded, YieldsInOrder
<1>9. CASE ~ok
  <2>1. given' = given
    BY <1>3, <1>9 DEF MakeFrame
  <2>2. Readable[paths[p]] # {TRUE}
    <3> SUFFICES ASSUME Readable[paths[p]] = {TRUE} PROVE FALSE
      OBVIOUS
    <3>1. ok = TRUE
      BY <1>3
    <3> QED
      BY <1>9, <3>1
  <2>3. \A q \in 1..cursor' : Readable[paths'[q]] = {TRUE} => \E i \in DOMAIN given' : given'[i] = q
    <3> SUFFICES ASSUME NEW q \in 1..cursor', Readable[paths[q]] = {TRUE}
                 PROVE  \E i \in DOMAIN given : given[i] = q
      BY <1>2, <2>1
    <3>1. q # p
      BY <2>2
    <3>2. q \in 1..cursor
      BY <1>1, <1>2, <1>6, <3>1
    <3> QED
      BY <1>7, <3>2
  <2>4. \A i \in DOMAIN given' : given'[i] <= cursor'
    <3> TAKE i \in DOMAIN given'
    <3>1. given[i] <= cursor /\ given[i] \in Nat
      BY <1>1, <1>7, <2>1
    <3> QED
      BY <1>1, <1>2, <1>6, <2>1, <3>1
  <2> QED
    BY <1>4, <1>7, <2>1, <2>3, <2>4 DEF Yielded, YieldsInOrder
<1> QED
  BY <1>8, <1>9

LEMMA YieldedInit == IngressInit => Yielded
BY DEF IngressInit, ImageInit, Yielded, YieldsInOrder

LEMMA YieldedStep ==
  ASSUME IngressInv, [IngressNext]_ingressVars
  PROVE  Yielded'
<1>0. Yielded /\ ReaderReady /\ ImageTyped
  BY TypedParts DEF IngressInv
<1>1. ASSUME UNCHANGED imageVars PROVE Yielded'
  BY <1>0, <1>1 DEF Yielded, YieldsInOrder, imageVars
<1>2. ASSUME Open \/ Close PROVE Yielded'
  BY <1>2 DEF Open, Close, Yielded, YieldsInOrder
<1>3. ASSUME CallNext PROVE Yielded'
  BY <1>0, <1>3 DEF CallNext, Yielded, YieldsInOrder
<1>4. ASSUME Collect PROVE Yielded'
  <2>1. /\ rdpc' = "idle" => given' = <<>> /\ cursor' = 0
        /\ rdpc' \in {"collect", "failed", "idle", "threw"}
    BY <1>0, <1>4 DEF Collect, ReaderReady
  <2>2. CASE rdpc' = "idle"
    <3>1. /\ Len(given') = 0 /\ DOMAIN given' = {}
          /\ 1..cursor' = {} /\ 1..(Len(given') - 1) = {}
      BY <2>1, <2>2
    <3> QED
      BY <2>2, <3>1 DEF Yielded, YieldsInOrder
  <2>3. CASE rdpc' # "idle"
    BY <2>1, <2>3 DEF Yielded, YieldsInOrder
  <2> QED
    BY <2>2, <2>3
<1>5. ASSUME MakeEosSample PROVE Yielded'
  <2>1. cursor = Len(paths)
    BY <1>0, <1>5 DEF MakeEosSample, AtEnd, ImageTyped, ImageTypeOK
  <2> QED
    BY <1>0, <1>5, <2>1 DEF MakeEosSample, Yielded, YieldsInOrder
<1>6. ASSUME ReadImage PROVE Yielded'
  BY <1>0, <1>6, YieldedRead
<1> QED
  BY <1>1, <1>2, <1>3, <1>4, <1>5, <1>6
  DEF IngressNext, LoopStep, Start, Opened, AskReader, JoinAndClose, Configure, LoopTop, InjectSample,
      PaceTest, PaceDivide, ReaderStep, ReaderOpen, ReaderCall, ReaderClose, ingressVars

-----------------------------------------------------------------------------
(***************************************************************************)
(* max_frames.                                                             *)
(***************************************************************************)
LEMMA HonoursStep ==
  ASSUME IngressInv, [IngressNext]_ingressVars
  PROVE  HonoursMaxFrames'
<1>0. HonoursMaxFrames /\ vframe_index \in Nat /\ max_frames \in Int
  BY Constants DEF IngressInv, Typed, IngressTypeOK
<1>1. kind' = kind
  BY DEF IngressNext, LoopStep, Start, Opened, AskReader, JoinAndClose, Configure, LoopTop, InjectSample,
         PaceTest, PaceDivide, ReaderStep, ingressVars, sourceVars
<1>2. ASSUME UNCHANGED videoVars PROVE HonoursMaxFrames'
  BY <1>0, <1>1, <1>2 DEF HonoursMaxFrames, videoVars
<1>3. ASSUME OpenVideo PROVE HonoursMaxFrames'
  <2>1. vframe_index' = 0 /\ vpc' # "ended" /\ max_frames' \in Int
    BY <1>3, NamedType DEF OpenVideo
  <2> QED
    BY <2>1 DEF HonoursMaxFrames
<1>4. ASSUME CloseVideo PROVE HonoursMaxFrames'
  BY <1>4 DEF CloseVideo, HonoursMaxFrames
<1>5. ASSUME CallNextVideo PROVE HonoursMaxFrames'
  BY <1>0, <1>1, <1>5 DEF CallNextVideo, HonoursMaxFrames
<1>6. ASSUME ReadVideo PROVE HonoursMaxFrames'
  <2>1. CASE NextMaxFrames
    BY <1>0, <1>1, <2>1 DEF NextMaxFrames, AtMaxFrames, EndVideo, HonoursMaxFrames
  <2>2. CASE NextDried
    BY <1>0, <1>1, <2>2 DEF NextDried, EndVideo, HonoursMaxFrames
  <2>3. CASE NextFrame
    BY <1>0, <1>1, <2>3 DEF NextFrame, AtMaxFrames, HonoursMaxFrames
  <2> QED
    BY <1>6, <2>1, <2>2, <2>3 DEF ReadVideo
<1> QED
  BY <1>2, <1>3, <1>4, <1>5, <1>6
  DEF IngressNext, LoopStep, Start, Opened, AskReader, JoinAndClose, Configure, LoopTop, InjectSample,
      PaceTest, PaceDivide, ReaderStep, ReaderOpen, ReaderCall, ReaderClose, ingressVars

-----------------------------------------------------------------------------
(***************************************************************************)
(* The theorems.                                                           *)
(***************************************************************************)
LEMMA IngressInvInit == IngressInit => IngressInv
<1>1. IngressInit => HonoursMaxFrames
  BY DEF IngressInit, VideoInit, HonoursMaxFrames
<1> QED
  BY <1>1, TypedInit, PhasesInit, CountedInit, YieldedInit DEF IngressInv

LEMMA IngressInvStep == IngressInv /\ [IngressNext]_ingressVars => IngressInv'
BY TypedStep, PhasesStep, ReaderReadyStep, CountedStep, YieldedStep, HonoursStep DEF IngressInv

LEMMA AlwaysIngressInv == IngressSpec => []IngressInv
BY IngressInvInit, IngressInvStep, PTL DEF IngressSpec

\* Every variable of the source and of its readers keeps its type: no position beyond
\* the list of paths, whatever Open, Next and Close do to either.
THEOREM IngressTypeCorrect == IngressSpec => []IngressTypeOK
<1>1. IngressInv => IngressTypeOK
  BY DEF IngressInv, Typed
<1> QED
  BY <1>1, AlwaysIngressInv, PTL

\* What a session injects is what its reader yielded, frame for frame, for any reader,
\* path list and moment of a stop.
THEOREM AlwaysInjectsStream == IngressSpec => []InjectsStream
<1>1. IngressInv => InjectsStream
  BY DEF IngressInv, Counted, InjectsStream
<1> QED
  BY <1>1, AlwaysIngressInv, PTL

\* No reader is closed or replaced under its thread, and a stopped source holds
\* nothing open, after any sequence of starts that succeed, fail or throw, and stops.
THEOREM AlwaysReaderInUse == IngressSpec => []ReaderInUse
<1>1. IngressInv => ReaderInUse
  <2> SUFFICES ASSUME OneReader, Phases, kind \in {"image_src", "video_src"} PROVE ReaderInUse
    BY DEF IngressInv, Typed
  <2>1. ReaderState = "closed" => capture = NotGiven /\ paths = <<>>
    BY DEF OneReader, ReaderState
  <2> QED
    BY <2>1 DEF Phases, ReaderInUse
<1> QED
  BY <1>1, AlwaysIngressInv, PTL

\* An image source that does not loop yields every readable image it passes, in
\* the order of its list and once: for any list, and any images that fail to be read.
THEOREM AlwaysYieldsInOrder == IngressSpec => []YieldsInOrder
<1>1. IngressInv => YieldsInOrder
  BY DEF IngressInv, Yielded
<1> QED
  BY <1>1, AlwaysIngressInv, PTL

\* A video source never exceeds max_frames, and only a failed read ends it earlier.
THEOREM AlwaysHonoursMaxFrames == IngressSpec => []HonoursMaxFrames
<1>1. IngressInv => HonoursMaxFrames
  BY DEF IngressInv
<1> QED
  BY <1>1, AlwaysIngressInv, PTL

\* Every image that a "paths" entry names gets into the list, whatever the others name:
\* the sort that follows a directory drops and repeats nothing.
THEOREM AlwaysCollectsAll == IngressSpec => CollectsAll
<1> DEFINE Kept ==
      Collect /\ entries # <<>> =>
        /\ \A i \in DOMAIN paths : \E j \in DOMAIN paths' : paths'[j] = paths[i]
        /\ Head(entries).kind \in {"file", "directory"} =>
             \A p \in Head(entries).images : \E j \in DOMAIN paths' : paths'[j] = p
<1>1. IngressInv /\ [IngressNext]_ingressVars => [Kept]_imageVars
  <2> SUFFICES ASSUME IngressInv, Collect, entries # <<>> PROVE Kept
    OBVIOUS
  <2>1. paths \in Seq(Image) /\ entries \in Seq(EntryType) /\ Head(entries) \in EntryType
    BY DEF IngressInv, Typed, IngressTypeOK, ImageTypeOK
  <2>2. paths' = CollectPaths(Head(entries), paths)
    BY DEF Collect
  <2>3. \A i \in DOMAIN paths : \E j \in DOMAIN paths' : paths'[j] = paths[i]
    BY <2>1, <2>2, CollectPathsCollects
  <2>4. Head(entries).kind \in {"file", "directory"} =>
          \A p \in Head(entries).images : \E j \in DOMAIN paths' : paths'[j] = p
    BY <2>1, <2>2, CollectPathsCollects
  <2> QED
    BY <2>3, <2>4
<1> QED
  BY <1>1, AlwaysIngressInv, PTL DEF IngressSpec, CollectsAll

-----------------------------------------------------------------------------
(***************************************************************************)
(* Refinement of MediaStream.                                              *)
(***************************************************************************)
Phase == CASE ~ReaderIsOpen -> "closed"
           [] ReaderState = "ended" -> "ended"
           [] OTHER -> "open"
Frames == IF ReaderIsOpen THEN FrameIndex ELSE 0
LastSample == IF ReaderIsOpen THEN Sample ELSE None

LEMMA MediaInitial == IngressInit => Media!MediaInit
<1> SUFFICES ASSUME IngressInit PROVE Media!MediaInit
  OBVIOUS
<1>1. ~ReaderIsOpen
  BY DEF IngressInit, ImageInit, VideoInit, ReaderState, ReaderIsOpen
<1> QED
  BY <1>1 DEF Media!MediaInit, Media!NoSample, None, ReaderIsOpen

\* The steps of the stream in terms of the reader's state.
LEMMA MediaStutters ==
  ASSUME Phase' = Phase, Frames' = Frames, LastSample' = LastSample
  PROVE  UNCHANGED Media!mediaVars
BY DEF Media!mediaVars, Phase, Frames, LastSample

LEMMA MediaSteps ==
  ASSUME \/ Phase = "closed" /\ Phase' = "open" /\ Frames' = Frames /\ LastSample' = LastSample
         \/ /\ Phase = "open" /\ Phase' = "open" /\ Frames' = Frames + 1
            /\ LastSample' = [index |-> Frames, eos |-> FALSE]
         \/ /\ Phase = "open" /\ Phase' = "ended" /\ Frames' = Frames
            /\ LastSample' = [index |-> Frames, eos |-> TRUE]
         \/ Phase # "closed" /\ Phase' = "closed" /\ Frames' = 0 /\ LastSample' = None
  PROVE  Media!MediaNext
BY DEF Media!MediaNext, Media!OpenMedia, Media!NextFrame, Media!EndOfStream, Media!CloseMedia, Media!NoSample,
       Phase, Frames, LastSample, None

\* A reader that is closed, or opened anew, shows the stream nothing before Open is over.
LEMMA MediaUnseen ==
  ASSUME ~ReaderIsOpen, ~ReaderIsOpen'
  PROVE  UNCHANGED Media!mediaVars
BY MediaStutters DEF Phase, Frames, LastSample, ReaderIsOpen

LEMMA MediaStep ==
  ASSUME IngressInv, [IngressNext]_ingressVars
  PROVE  Media!MediaNext \/ UNCHANGED Media!mediaVars
<1>0. OneReader /\ Phases /\ kind \in {"image_src", "video_src"} /\ ReaderReady
  BY DEF IngressInv, Typed
<1>a. ASSUME kind' = kind, UNCHANGED <<imageVars, videoVars>>
      PROVE  UNCHANGED Media!mediaVars
  <2>1. ReaderState' = ReaderState /\ FrameIndex' = FrameIndex /\ Sample' = Sample
    BY <1>0, <1>a, ReaderSame
  <2> QED
    BY <2>1, MediaStutters DEF Phase, Frames, LastSample, ReaderIsOpen
<1>b. ASSUME kind' = kind, ReaderClose
      PROVE  Media!MediaNext \/ UNCHANGED Media!mediaVars
  <2>1. ReaderState' = "closed"
    BY <1>0, <1>b, CloseGives
  <2>2. ~ReaderIsOpen'
    BY <2>1 DEF ReaderIsOpen
  <2>3. CASE ReaderIsOpen
    BY <2>2, <2>3, MediaSteps DEF Phase, Frames, LastSample, ReaderIsOpen
  <2>4. CASE ~ReaderIsOpen
    BY <2>2, <2>4, MediaUnseen
  <2> QED
    BY <2>3, <2>4
<1>1. CASE Start
  <2>1. /\ ReaderState' \in {"collect", "idle", "failed", "threw"}
        /\ FrameIndex' = 0 /\ Sample' = None /\ ReaderState \in {"closed", "threw"}
    BY <1>0, <1>1, OpenGives DEF Start, Phases
  <2>2. ~ReaderIsOpen
    BY <2>1 DEF ReaderIsOpen
  <2>3. CASE ReaderState' = "idle"
    BY <2>1, <2>2, <2>3, MediaSteps DEF Phase, Frames, LastSample, ReaderIsOpen
  <2>4. CASE ReaderState' # "idle"
    <3>1. ~ReaderIsOpen'
      BY <2>1, <2>4 DEF ReaderIsOpen
    <3> QED
      BY <2>2, <3>1, MediaUnseen
  <2> QED
    BY <2>3, <2>4
<1>2. CASE Opened
  BY <1>2, <1>a, <1>b DEF Opened
<1>3. CASE AskReader \/ Configure \/ InjectSample \/ PaceTest \/ PaceDivide
  BY <1>3, <1>a DEF AskReader, Configure, InjectSample, PaceTest, PaceDivide
<1>4. CASE JoinAndClose
  BY <1>4, <1>a, <1>b DEF JoinAndClose
<1>5. CASE LoopTop
  <2>1. CASE stopReq
    BY <1>5, <2>1, <1>a DEF LoopTop
  <2>2. CASE ~stopReq
    <3>1. /\ ReaderState = "idle" /\ ReaderState' = "read"
          /\ FrameIndex' = FrameIndex /\ Sample' = Sample
      BY <1>0, <1>5, <2>2, CallGives DEF LoopTop
    <3> QED
      BY <3>1, MediaStutters DEF Phase, Frames, LastSample, ReaderIsOpen
  <2> QED
    BY <2>1, <2>2
<1>6. CASE ReaderStep
  <2>1. CASE ReaderGoesOn
    <3>1. CASE ReaderState = "read"
      BY <2>1, <3>1, MediaStutters DEF Phase, Frames, LastSample, ReaderIsOpen, ReaderGoesOn
    <3>2. CASE ReaderState = "collect"
      <4>1. kind = "image_src" /\ ~ReaderIsOpen
        BY <1>0, <3>2 DEF ReaderState, ReaderIsOpen, IngressInv, Typed, IngressTypeOK
      <4>2. FrameIndex = 0 /\ Sample = None
        BY <1>0, <3>2, <4>1 DEF ReaderState, FrameIndex, Sample, ReaderReady
      <4>3. FrameIndex' = 0 /\ Sample' = None /\ ReaderState' \in {"collect", "idle", "failed", "threw"}
        BY <2>1, <3>2, <4>2 DEF ReaderGoesOn
      <4>4. CASE ReaderState' = "idle"
        BY <4>1, <4>3, <4>4, MediaSteps DEF Phase, Frames, LastSample, ReaderIsOpen
      <4>5. CASE ReaderState' # "idle"
        <5>1. ~ReaderIsOpen'
          BY <4>3, <4>5 DEF ReaderIsOpen
        <5> QED
          BY <4>1, <5>1, MediaUnseen
      <4> QED
        BY <4>4, <4>5
    <3> QED
      BY <2>1, <3>1, <3>2 DEF ReaderGoesOn
  <2>2. CASE ReaderYields
    BY <2>2, MediaSteps DEF Phase, Frames, LastSample, ReaderIsOpen, ReaderYields
  <2>3. CASE ReaderEnds
    BY <2>3, MediaSteps DEF Phase, Frames, LastSample, ReaderIsOpen, ReaderEnds
  <2> QED
    BY <1>0, <1>6, <2>1, <2>2, <2>3, ReaderStepGives
<1>7. CASE UNCHANGED ingressVars
  BY <1>7, <1>a DEF ingressVars, sourceVars
<1> QED
  BY <1>1, <1>2, <1>3, <1>4, <1>5, <1>6, <1>7 DEF IngressNext, LoopStep

\* Either reader is a MediaStream, the one from which ReaderInject of Pipeline.tla takes
\* its frames: numbered from 0, one end at most and nothing after it, whatever the
\* files, the captures and the moments of starts and stops.
THEOREM IngressRefinesMediaStream == IngressSpec => ImplementsMediaStream
<1>1. IngressInv /\ [IngressNext]_ingressVars => [Media!MediaNext]_Media!mediaVars
  BY MediaStep
<1> QED
  BY <1>1, MediaInitial, AlwaysIngressInv, PTL DEF IngressSpec, ImplementsMediaStream, Media!MediaSpec
=============================================================================
