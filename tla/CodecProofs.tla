----------------------------- MODULE CodecProofs -----------------------------
(***************************************************************************)
(* Proofs about Codec, for any contents, names, sizes of frames and cap.   *)
(* RowOK says what a PUT can have left in the row, and so that it reads    *)
(* back; ReaderOK and HeldOK follow a tag from an answer through the copy  *)
(* of the client into the next conditional GET. PathsAreClean says the     *)
(* recursive Paths are the names with no fault at any character, by the    *)
(* least length at which they would differ.                                *)
(***************************************************************************)
EXTENDS Codec, SequenceTheorems, WellFoundedInduction, TLAPS

IsFrameOf(b, v) == \E n \in Nat : b = [kind |-> v.kind, sizes |-> <<n>> \o v.sizes]

\* A row holds its content or a frame of it, and a content that begins like a frame
\* only as a frame, unless zstd failed.
RowOK(r) ==
    r # NoRow =>
        /\ r.content \in Values
        /\ r.bytes = r.content \/ IsFrameOf(r.bytes, r.content)
        /\ r.bytes = r.content /\ StartsWithMagic(r.content) => r.zstd = "failed"

\* A conditional GET asks for the tag of the client's copy.
ReaderOK ==
    /\ reader = [pc |-> reader.pc, tag |-> reader.tag]
    /\ reader.pc = "metadata" => held # NoCopy /\ reader.tag = held.tag

\* The copy is what its tag says, and so is the row of the last answer.
HeldOK ==
    /\ held = NoCopy => saw = NoRow
    /\ held # NoCopy =>
           /\ held.tag = saw.content
           /\ held.decompressor = "ok" /\ ~ Unreadable(held.from) => held.value = held.tag

CInv == RowOK(row) /\ ReaderOK /\ HeldOK

-----------------------------------------------------------------------------
LEMMA ValueFacts ==
    ASSUME NEW v \in Values
    PROVE  /\ v = [kind |-> v.kind, sizes |-> v.sizes] /\ v # None
           /\ v.sizes \in Seq(Nat) /\ Len(v.sizes) \in Nat /\ Len(v.sizes) >= 1
           /\ v.sizes[1] \in Nat
           /\ StartsWithMagic(v) => SizeOf(v) # 0
           /\ Cap \in Nat /\ MaxSize \in Nat
<1>1. /\ v = [kind |-> v.kind, sizes |-> v.sizes] /\ v # None
      /\ v.sizes \in Seq(Nat) /\ v.sizes # <<>> /\ Cap \in Nat /\ MaxSize \in Nat
      /\ v.kind = "magic" \/ Len(v.sizes) > 1 => v.sizes[1] # 0
  BY CodecAssumption
<1>2. Len(v.sizes) \in Nat \ {0}
  BY <1>1, EmptySeq
<1>3. v.sizes[1] \in Nat
  <2>1. 1 \in 1 .. Len(v.sizes)
    BY <1>2
  <2> QED
    BY <1>1, <2>1, ElementOfSeq
<1> QED
  BY <1>1, <1>2, <1>3 DEF StartsWithMagic, SizeOf

\* What decompress makes of a frame: its content, if that fits.
LEMMA FrameFacts ==
    ASSUME NEW v \in Values, NEW n \in Nat
    PROVE  LET b == [kind |-> v.kind, sizes |-> <<n>> \o v.sizes]
           IN  /\ b # v
               /\ SizeOf(v) <= Cap => Decompress(b) = v
<1> DEFINE b == [kind |-> v.kind, sizes |-> <<n>> \o v.sizes]
<1>1. /\ <<n>> \o v.sizes \in Seq(Nat) /\ Len(<<n>> \o v.sizes) = Len(v.sizes) + 1
      /\ (<<n>> \o v.sizes)[2] = v.sizes[1]
      /\ Tail(<<n>> \o v.sizes) = v.sizes
  BY ValueFacts
<1>2. b.sizes = <<n>> \o v.sizes /\ b.kind = v.kind
  OBVIOUS
<1>3. b # v
  BY <1>1, <1>2, ValueFacts
<1>4. [kind |-> b.kind, sizes |-> Tail(b.sizes)] = [kind |-> v.kind, sizes |-> v.sizes]
  BY <1>1, <1>2
<1> HIDE DEF b
<1>5. SizeOf(v) <= Cap => Decompress(b) = v
  BY <1>1, <1>2, <1>4, ValueFacts DEF Decompress, SizeOf
<1> QED
  BY <1>3, <1>5 DEF b

LEMMA RowReadsBack ==
    ASSUME NEW r, RowOK(r), r # NoRow, ~ Unreadable(r)
    PROVE  Decompress(r.bytes) = r.content
<1>1. r.content \in Values
  BY DEF RowOK
<1>2. CASE r.bytes = r.content
  <2>1. ~ StartsWithMagic(r.content)
    BY <1>2 DEF RowOK, Unreadable
  <2>2. ~ Len(r.content.sizes) > 1
    BY <2>1 DEF StartsWithMagic
  <2> QED
    BY <1>2, <2>2 DEF Decompress
<1>3. CASE IsFrameOf(r.bytes, r.content)
  <2>1. PICK n \in Nat : r.bytes = [kind |-> r.content.kind, sizes |-> <<n>> \o r.content.sizes]
    BY <1>3 DEF IsFrameOf
  <2>2. r.bytes # r.content
    BY <1>1, <2>1, FrameFacts
  <2>3. SizeOf(r.content) <= Cap
    <3>1. SizeOf(r.content) \in Nat /\ Cap \in Nat
      BY <1>1, ValueFacts DEF SizeOf
    <3> QED
      BY <2>2, <3>1 DEF Unreadable
  <2> QED
    BY <1>1, <2>1, <2>3, FrameFacts
<1> QED
  BY <1>2, <1>3 DEF RowOK

LEMMA PutRow ==
    ASSUME NEW v \in Values, Put(v)
    PROVE  RowOK(row')
<1>1. CASE \E b \in Compressed(v) : row' = [content |-> v, bytes |-> b, zstd |-> "ok"]
  <2>1. PICK b \in Compressed(v) : row' = [content |-> v, bytes |-> b, zstd |-> "ok"]
    BY <1>1
  <2>2. row'.content = v /\ row'.bytes = b
    BY <2>1
  <2>3. CASE CallsZstd(v)
    <3>1. PICK f \in Frames(v) : b = IF Smaller(v, f) THEN f ELSE v
      BY <2>3 DEF Compressed
    <3>2. IsFrameOf(f, v)
      <4>1. PICK n \in 1 .. MaxSize : f = [kind |-> v.kind, sizes |-> <<n>> \o v.sizes]
        BY DEF Frames
      <4>2. n \in Nat
        BY ValueFacts
      <4> QED
        BY <4>1, <4>2 DEF IsFrameOf
    <3>3. StartsWithMagic(v) => b = f
      BY <3>1 DEF Smaller, MustDisambiguate
    <3>4. f # v
      BY <3>2, FrameFacts DEF IsFrameOf
    <3> QED
      BY <2>2, <3>1, <3>2, <3>3, <3>4 DEF RowOK
  <2>4. CASE ~ CallsZstd(v)
    <3>1. b = v
      BY <2>4 DEF Compressed
    <3>2. ~ StartsWithMagic(v)
      BY <2>4, ValueFacts DEF CallsZstd, MustDisambiguate
    <3> QED
      BY <2>2, <3>1, <3>2 DEF RowOK
  <2> QED
    BY <2>3, <2>4
<1>2. CASE row' = [content |-> v, bytes |-> v, zstd |-> "failed"]
  BY <1>2 DEF RowOK
<1> QED
  BY <1>1, <1>2 DEF Put

-----------------------------------------------------------------------------
LEMMA InitCInv == Init => CInv
BY DEF Init, CInv, RowOK, ReaderOK, HeldOK, AtRest

LEMMA NextCInv == CInv /\ [Next]_vars => CInv'
<1> SUFFICES ASSUME CInv, [Next]_vars PROVE CInv'
  OBVIOUS
<1> USE DEF CInv
<1>1. ASSUME NEW v \in Values, Put(v) PROVE CInv'
  <2>1. RowOK(row)'
    BY <1>1, PutRow DEF RowOK, IsFrameOf
  <2> QED
    BY <1>1, <2>1 DEF Put, ReaderOK, HeldOK
<1>2. CASE Delete
  BY <1>2 DEF Delete, RowOK, ReaderOK, HeldOK
<1>3. CASE Restart
  BY <1>3 DEF Restart, RowOK, ReaderOK, HeldOK, AtRest, IsFrameOf
<1>4. CASE Get
  <2>1. /\ row' = row /\ held' = held /\ saw' = saw
        /\ \/ reader' = [pc |-> "full", tag |-> None]
           \/ held # NoCopy /\ reader' = [pc |-> "metadata", tag |-> held.tag]
    BY <1>4 DEF Get
  <2>2. ReaderOK'
    BY <2>1 DEF ReaderOK
  <2> QED
    BY <2>1, <2>2 DEF RowOK, HeldOK, IsFrameOf
<1>5. CASE NotFound
  BY <1>5 DEF NotFound, Answer, RowOK, ReaderOK, HeldOK, AtRest
<1>6. CASE NotModified
  <2>1. /\ held' = held /\ saw' = row /\ row' = row /\ reader' = [pc |-> "idle", tag |-> None]
        /\ held # NoCopy /\ held.tag = row.content
    BY <1>6 DEF NotModified, Unmodified, Answer, AtRest, ReaderOK
  <2> QED
    BY <2>1 DEF RowOK, ReaderOK, HeldOK, IsFrameOf
<1>7. CASE Modified
  <2>1. reader' = [pc |-> "full", tag |-> reader.tag]
    BY <1>7 DEF Modified, ReaderOK
  <2> QED
    BY <1>7, <2>1 DEF Modified, RowOK, ReaderOK, HeldOK, IsFrameOf
<1>8. CASE SendValue
  <2>1. /\ saw' = row /\ row' = row /\ reader' = [pc |-> "idle", tag |-> None] /\ row # NoRow
        /\ held'.tag = row.content /\ held'.from = row
    BY <1>8 DEF SendValue, Answer, AtRest
  <2>2. held'.decompressor = "ok" => held'.value = Decompress(row.bytes)
    BY <1>8 DEF SendValue, Answer
  <2>3. row.content \in Values /\ row.content # None
    BY <2>1, ValueFacts DEF RowOK
  <2>4. held' # NoCopy
    BY <2>1, <2>3 DEF NoCopy
  <2>5. ~ Unreadable(row) => Decompress(row.bytes) = row.content
    BY <2>1, RowReadsBack
  <2> QED
    BY <2>1, <2>2, <2>4, <2>5 DEF RowOK, ReaderOK, HeldOK, IsFrameOf
<1>9. CASE FailGet
  BY <1>9 DEF FailGet, RowOK, ReaderOK, HeldOK, AtRest, IsFrameOf
<1>10. CASE Rest \/ UNCHANGED vars
  BY <1>10 DEF Rest, vars, RowOK, ReaderOK, HeldOK, IsFrameOf
<1> QED
  BY <1>1, <1>2, <1>3, <1>4, <1>5, <1>6, <1>7, <1>8, <1>9, <1>10 DEF Next

\* The invariant holds in every state that requests and restarts reach.
THEOREM CInvAlways == Spec => []CInv
<1>1. Init => CInv
  BY InitCInv
<1>2. CInv /\ [Next]_vars => CInv'
  BY NextCInv
<1> QED
  BY <1>1, <1>2, PTL DEF Spec

\* Whatever is stored reads back, if it was let in by the size and zstd did not fail
\* on it: in particular contents that are frames or begin like one.
THEOREM StoredContentsReadBack == Spec => []ReadsBack
<1>1. CInv => ReadsBack
  BY RowReadsBack DEF CInv, ReadsBack
<1> QED
  BY <1>1, CInvAlways, PTL

\* A copy that a tag confirms is the content that was stored when it was confirmed.
THEOREM CopiesAreContents == Spec => []HeldIsWhatWasStored
<1>1. CInv => HeldIsWhatWasStored
  BY DEF CInv, HeldOK, HeldIsWhatWasStored
<1> QED
  BY <1>1, CInvAlways, PTL

-----------------------------------------------------------------------------
(* Key names. *)

LEMMA SmallestNumber ==
    ASSUME NEW T \in SUBSET Nat, T # {}
    PROVE  \E n \in T : \A m \in T : n <= m
<1> DEFINE R == OpToRel(<, Nat)
<1>1. \A m, n \in Nat : m < n => <<m, n>> \in R
  BY DEF OpToRel
<1>2. IsWellFoundedOn(R, Nat)
  BY NatLessThanWellFounded
<1> HIDE DEF R
<1>3. PICK n \in T : \A m \in T : ~ (<<m, n>> \in R)
  BY <1>2, WFMin
<1>4. ASSUME NEW m \in T, ~ n <= m PROVE FALSE
  <2>1. m < n /\ m \in Nat /\ n \in Nat
    BY <1>4
  <2>2. <<m, n>> \in R
    BY <1>1, <2>1, Zenon
  <2> QED
    BY <1>3, <2>2, Zenon
<1> QED
  BY <1>4

\* What the rules of validate_key come to, seen from each character.
Clean(k) ==
    /\ Len(k) >= 1 /\ k[1] = "a" /\ k[Len(k)] # "/"
    /\ \A i \in 1 .. Len(k) : k[i] # "!"
    /\ \A i \in 2 .. Len(k) : /\ k[i] = "." => k[i - 1] = "a"
                              /\ k[i] = "/" => k[i - 1] # "/"

LEMMA ValidIsClean ==
    ASSUME NEW k \in Seq(Characters)
    PROVE  ValidKey(k) <=> Clean(k) /\ Len(k) <= MaxName
<1>0. /\ Len(k) \in Nat /\ (k # <<>> <=> Len(k) >= 1)
      /\ \A i \in 1 .. Len(k) : k[i] \in {"a", ".", "/", "!"}
  BY DEF Characters
<1>1. ASSUME ValidKey(k) PROVE Clean(k) /\ Len(k) <= MaxName
  <2>1. Len(k) >= 1 /\ Len(k) <= MaxName /\ k[Len(k)] # "/" /\ \A i \in 1 .. Len(k) : k[i] # "!"
    BY <1>0, <1>1 DEF ValidKey
  <2>2. k[1] = "a"
    <3>1. 1 \in 1 .. Len(k) + 1 /\ ~ (1 > Len(k)) /\ 1 \in 1 .. Len(k)
      BY <1>0, <2>1
    <3>2. k[1] \notin {"/", "."}
      BY <1>1, <3>1 DEF ValidKey, BadSegment
    <3> QED
      BY <1>0, <2>1, <3>1, <3>2
  <2>3. ASSUME NEW i \in 2 .. Len(k)
        PROVE  (k[i] = "." => k[i - 1] = "a") /\ (k[i] = "/" => k[i - 1] # "/")
    <3>1. /\ i \in 1 .. Len(k) + 1 /\ i - 1 \in 1 .. Len(k) - 1 /\ i - 1 \in 1 .. Len(k)
          /\ i - 1 + 1 = i /\ ~ (i > Len(k))
      BY <1>0
    <3>2. ~ (k[i - 1] = "." /\ k[i] = ".") /\ ~ (k[i - 1] = "/" /\ k[i] = "/")
      BY <1>1, <3>1 DEF ValidKey, Contains
    <3>3. k[i - 1] = "/" => k[i] \notin {"/", "."}
      BY <1>1, <3>1 DEF ValidKey, BadSegment
    <3> QED
      BY <1>0, <2>1, <3>1, <3>2, <3>3
  <2> QED
    BY <2>1, <2>2, <2>3 DEF Clean
<1>2. ASSUME Clean(k), Len(k) <= MaxName PROVE ValidKey(k)
  <2>1. \A i \in 1 .. Len(k) - 1 : i + 1 \in 2 .. Len(k) /\ i + 1 - 1 = i
    BY <1>0
  <2>2. \A i \in 1 .. Len(k) - 1 : ~ (k[i] = "." /\ k[i + 1] = ".") /\ ~ (k[i] = "/" /\ k[i + 1] = "/")
    BY <1>2, <2>1 DEF Clean
  <2>3. ~ Contains(k, ".", ".") /\ ~ Contains(k, "/", "/")
    BY <2>2 DEF Contains
  <2>4. ASSUME NEW i \in 1 .. Len(k) + 1, i = 1 \/ k[i - 1] = "/",
               i > Len(k) \/ k[i] \in {"/", "."}
        PROVE  FALSE
    <3>1. CASE i = 1
      BY <1>0, <1>2, <2>4, <3>1 DEF Clean
    <3>2. CASE i # 1 /\ i > Len(k)
      <4>1. i - 1 = Len(k)
        BY <1>0, <3>2
      <4> QED
        BY <1>2, <2>4, <3>2, <4>1 DEF Clean
    <3>3. CASE i # 1 /\ ~ (i > Len(k))
      <4>1. i \in 2 .. Len(k)
        BY <1>0, <3>3
      <4> QED
        BY <1>2, <2>4, <3>3, <4>1 DEF Clean
    <3> QED
      BY <3>1, <3>2, <3>3
  <2>5. ~ BadSegment(k)
    BY <2>4 DEF BadSegment
  <2> QED
    BY <1>0, <1>2, <2>3, <2>5 DEF ValidKey, Clean
<1> QED
  BY <1>1, <1>2

\* The clean names of n characters, by length.
CleanNames == [n \in Nat |-> {k \in [1 .. n -> Characters \ {"!"}] : Clean(k)}]

\* The paths of n characters, given the shorter ones.
Longer(paths, n) == Segments(n) \cup UNION {Joins(paths, n, m) : m \in 1 .. n - 2}

LEMMA JoinsFacts ==
    ASSUME NEW paths, NEW n \in Nat, NEW m, NEW k
    PROVE  k \in Joins(paths, n, m) <=>
               \E p \in paths[m], s \in Segments(n - m - 1) : k = Join(p, s)
BY DEF Joins

LEMMA LongerFacts ==
    ASSUME NEW paths, NEW n \in Nat, NEW k
    PROVE  k \in Longer(paths, n) <=>
               \/ k \in Segments(n)
               \/ \E m \in 1 .. n - 2 : \E p \in paths[m], s \in Segments(n - m - 1) : k = Join(p, s)
<1>1. k \in Longer(paths, n) <=> k \in Segments(n) \/ \E m \in 1 .. n - 2 : k \in Joins(paths, n, m)
  BY Zenon DEF Longer
<1> QED
  BY <1>1, JoinsFacts

LEMMA NamesAreSeqs ==
    \A S, n : n \in Nat => \A k \in [1 .. n -> S] : k \in Seq(S) /\ Len(k) = n
OBVIOUS

\* A path joined to a segment.
LEMMA Joined ==
    ASSUME NEW m \in Nat, NEW j \in Nat,
           NEW p \in [1 .. m -> Characters \ {"!"}], NEW s \in [1 .. j -> {"a", "."}]
    PROVE  LET k == p \o <<"/">> \o s
           IN  /\ k \in [1 .. m + 1 + j -> Characters \ {"!"}] /\ Len(k) = m + 1 + j
               /\ \A i \in 1 .. m : k[i] = p[i]
               /\ k[m + 1] = "/"
               /\ \A i \in m + 2 .. m + 1 + j : k[i] = s[i - m - 1]
<1> DEFINE C == Characters \ {"!"}
           q == p \o <<"/">>
           k == q \o s
<1>1. {"a", "."} \subseteq C /\ "/" \in C
  BY DEF Characters
<1> HIDE DEF C
<1>2. p \in Seq(C) /\ Len(p) = m /\ s \in Seq(C) /\ Len(s) = j /\ <<"/">> \in Seq(C) /\ Len(<<"/">>) = 1
  <2>1. p \in [1 .. m -> C] /\ s \in [1 .. j -> C]
    BY <1>1 DEF C
  <2> QED
    BY <1>1, <2>1
<1>3. q \in Seq(C) /\ Len(q) = m + 1 /\ q[m + 1] = "/" /\ \A i \in 1 .. m : q[i] = p[i]
  BY <1>2
<1> HIDE DEF q
<1>4. k \in Seq(C) /\ Len(k) = m + 1 + j
  BY <1>2, <1>3
<1>5. /\ \A i \in 1 .. m + 1 : k[i] = q[i]
      /\ \A i \in m + 2 .. m + 1 + j : k[i] = s[i - m - 1]
  BY <1>2, <1>3
<1> HIDE DEF k
<1>6. k \in [1 .. m + 1 + j -> C]
  BY <1>4
<1>7. k[m + 1] = "/" /\ \A i \in 1 .. m : k[i] = p[i]
  BY <1>3, <1>5
<1> QED
  BY <1>4, <1>5, <1>6, <1>7 DEF k, q, C

LEMMA SegmentIsClean ==
    ASSUME NEW n \in Nat, NEW k \in Segments(n)
    PROVE  k \in CleanNames[n]
<1>1. k \in [1 .. n -> {"a", "."}] /\ k \in Seq({"a", "."}) /\ Len(k) = n /\ PathName(k)
  BY NamesAreSeqs DEF Segments
<1>2. k \in [1 .. n -> Characters \ {"!"}] /\ \A i \in 1 .. n : k[i] # "!" /\ k[i] # "/"
  BY <1>1 DEF Characters
<1>3. n >= 1 /\ k[1] = "a"
  BY <1>1 DEF PathName
<1>4. \A i \in 2 .. n : i \in 1 .. n /\ (k[i] = "." => k[i - 1] = "a")
  BY <1>1 DEF PathName
<1> QED
  BY <1>1, <1>2, <1>3, <1>4 DEF Clean, CleanNames

LEMMA JoinedIsClean ==
    ASSUME NEW n \in Nat, NEW m \in 1 .. n - 2, NEW p \in CleanNames[m], NEW s \in Segments(n - m - 1)
    PROVE  Join(p, s) \in CleanNames[n]
<1> DEFINE k == p \o <<"/">> \o s
           j == n - m - 1
<1>1. m \in Nat /\ m >= 1 /\ j \in Nat /\ j >= 1 /\ m + 1 + j = n
  OBVIOUS
<1> HIDE DEF j
<1>2. /\ p \in [1 .. m -> Characters \ {"!"}] /\ Clean(p) /\ Len(p) = m
      /\ s \in [1 .. j -> {"a", "."}] /\ PathName(s) /\ Len(s) = j
  BY <1>1, NamesAreSeqs DEF CleanNames, Segments, j
<1>3. /\ k \in [1 .. n -> Characters \ {"!"}] /\ Len(k) = n
      /\ \A i \in 1 .. m : k[i] = p[i]
      /\ k[m + 1] = "/"
      /\ \A i \in m + 2 .. n : k[i] = s[i - m - 1]
  BY <1>1, <1>2, Joined
<1> HIDE DEF k
<1>4. k[1] = "a"
  BY <1>1, <1>2, <1>3 DEF Clean
<1>5. k[n] # "/"
  <2>1. n \in m + 2 .. n /\ n - m - 1 = j /\ j \in 1 .. j
    BY <1>1
  <2>2. k[n] = s[j] /\ s[j] \in {"a", "."}
    BY <1>2, <1>3, <2>1
  <2> QED
    BY <2>2
<1>6. ASSUME NEW i \in 2 .. n
      PROVE  (k[i] = "." => k[i - 1] = "a") /\ (k[i] = "/" => k[i - 1] # "/")
  <2>1. CASE i <= m
    <3>1. i \in 2 .. m /\ i \in 1 .. m /\ i - 1 \in 1 .. m
      BY <1>1, <2>1
    <3> QED
      BY <1>2, <1>3, <3>1 DEF Clean
  <2>2. CASE i = m + 1
    <3>1. i - 1 = m /\ m \in 1 .. m
      BY <1>1, <2>2
    <3> QED
      BY <1>2, <1>3, <2>2, <3>1 DEF Clean
  <2>3. CASE i = m + 2
    <3>1. i \in m + 2 .. n /\ i - m - 1 = 1
      BY <1>1, <2>3
    <3>2. k[i] = "a"
      BY <1>2, <1>3, <3>1 DEF PathName
    <3> QED
      BY <3>2
  <2>4. CASE i > m + 2
    <3>1. /\ i \in m + 2 .. n /\ i - 1 \in m + 2 .. n
          /\ i - m - 1 \in 2 .. j /\ i - m - 1 - 1 = i - 1 - m - 1
      BY <1>1, <2>4
    <3>2. k[i] = s[i - m - 1] /\ k[i - 1] = s[i - m - 1 - 1]
      BY <1>3, <3>1
    <3>3. s[i - m - 1] = "a" \/ (s[i - m - 1] = "." /\ s[i - m - 1 - 1] = "a")
      BY <1>2, <3>1 DEF PathName
    <3> QED
      BY <3>2, <3>3
  <2> QED
    BY <1>1, <2>1, <2>2, <2>3, <2>4
<1>7. n \in Nat /\ n >= 1 /\ \A i \in 1 .. n : k[i] # "!"
  BY <1>1, <1>3
<1> QED
  BY <1>3, <1>4, <1>5, <1>6, <1>7 DEF Clean, CleanNames, Join, k

\* A clean name without a slash is a segment; any other is split at its last slash.
LEMMA CleanSplits ==
    ASSUME NEW n \in Nat, NEW k \in CleanNames[n]
    PROVE  \/ k \in Segments(n)
           \/ \E m \in 1 .. n - 2 : \E p \in CleanNames[m], s \in Segments(n - m - 1) :
                  k = Join(p, s)
<1>1. /\ k \in [1 .. n -> Characters \ {"!"}] /\ Clean(k) /\ Len(k) = n /\ n >= 1
      /\ k \in Seq(Characters \ {"!"})
      /\ \A i \in 1 .. n : k[i] \in {"a", ".", "/"}
  BY NamesAreSeqs DEF CleanNames, Clean, Characters
<1>4. \A i \in 2 .. n : k[i] = "." => k[i - 1] = "a"
  BY <1>1 DEF Clean
<1>2. CASE \A i \in 1 .. n : k[i] # "/"
  <2>1. \A i \in 2 .. n : k[i] = "a" \/ (k[i] = "." /\ k[i - 1] = "a")
    BY <1>1, <1>2 DEF Clean
  <2>2. k \in [1 .. n -> {"a", "."}]
    BY <1>1, <1>2
  <2>3. PathName(k)
    BY <1>1, <2>1 DEF PathName, Clean
  <2> QED
    BY <2>2, <2>3 DEF Segments
<1>3. CASE \E i \in 1 .. n : k[i] = "/"
  <2> DEFINE Ends == {d \in Nat : d < n /\ k[n - d] = "/"}
  <2>1. Ends # {}
    <3>1. PICK i \in 1 .. n : k[i] = "/"
      BY <1>3
    <3>2. n - i \in Nat /\ n - i < n /\ n - (n - i) = i
      OBVIOUS
    <3> QED
      BY <3>1, <3>2
  <2>2. PICK d \in Ends : \A e \in Ends : d <= e
    BY <2>1, SmallestNumber
  <2> DEFINE j == n - d
             m == j - 1
             p == [i \in 1 .. m |-> k[i]]
             s == [i \in 1 .. d |-> k[j + i]]
  <2>3. d \in Nat /\ d < n /\ j \in 1 .. n /\ k[j] = "/"
    BY <2>2
  <2>4. \A i \in 1 .. n : i > j => k[i] # "/"
    <3> SUFFICES ASSUME NEW i \in 1 .. n, i > j, k[i] = "/" PROVE FALSE
      OBVIOUS
    <3>1. n - i \in Nat /\ n - i < n /\ n - (n - i) = i /\ n - i < d
      BY <2>3
    <3>2. n - i \in Ends
      BY <3>1
    <3> HIDE DEF Ends
    <3> QED
      BY <2>2, <2>3, <3>1, <3>2
  <2> HIDE DEF Ends
  <2>5. j # 1 /\ j # n
    BY <1>1, <2>3 DEF Clean
  <2>6. m \in 1 .. n - 2 /\ d = n - m - 1 /\ d >= 1 /\ m \in Nat /\ m + 1 = j /\ m + 1 + d = n
    BY <2>3, <2>5
  <2>7. p \in [1 .. m -> Characters \ {"!"}] /\ \A i \in 1 .. m : p[i] = k[i]
    BY <1>1, <2>6
  <2>8. \A i \in 1 .. d : s[i] = k[j + i] /\ j + i \in 1 .. n /\ j + i > j
    <3>1. j \in Nat /\ j + d = n
      BY <2>3
    <3> HIDE DEF j
    <3> QED
      BY <2>3, <3>1
  <2>9. s \in [1 .. d -> {"a", "."}]
    <3>1. \A i \in 1 .. d : k[j + i] \in {"a", "."}
      BY <1>1, <2>4, <2>8
    <3> QED
      BY <3>1
  <2> HIDE DEF j, m, p, s
  <2>10. p \in CleanNames[m]
    <3>1. Len(p) = m
      BY <2>6, <2>7, NamesAreSeqs
    <3>2. \A i \in 1 .. m : i \in 1 .. n
      BY <2>6
    <3>3. 1 \in 1 .. m /\ m \in 1 .. m /\ j \in 2 .. n /\ j - 1 = m
      BY <2>3, <2>5, <2>6
    <3>4. p[1] = "a" /\ p[m] # "/"
      BY <1>1, <2>3, <2>7, <3>3 DEF Clean
    <3>5. \A i \in 2 .. m : i \in 2 .. n /\ i \in 1 .. m /\ i - 1 \in 1 .. m
      BY <2>6
    <3>6. \A i \in 2 .. m : (p[i] = "." => p[i - 1] = "a") /\ (p[i] = "/" => p[i - 1] # "/")
      BY <1>1, <2>7, <3>5 DEF Clean
    <3>7. \A i \in 1 .. m : p[i] # "!"
      BY <2>7
    <3> QED
      BY <2>6, <2>7, <3>1, <3>4, <3>6, <3>7 DEF Clean, CleanNames
  <2>11. s \in Segments(d)
    <3>1. Len(s) = d /\ s # <<>>
      <4>1. s \in Seq({"a", "."}) /\ Len(s) = d
        BY <2>3, <2>9, NamesAreSeqs
      <4> QED
        BY <2>6, <4>1
    <3>2. ASSUME NEW i \in 1 .. d
          PROVE  j + i \in 2 .. n /\ j + i - 1 = (IF i = 1 THEN j ELSE j + (i - 1))
      BY <2>3, <2>6
    <3>3. s[1] = "a"
      <4>1. 1 \in 1 .. d /\ j + 1 \in 2 .. n /\ j + 1 - 1 = j
        BY <2>3, <2>6
      <4>2. s[1] = k[j + 1] /\ s[1] \in {"a", "."}
        BY <2>8, <2>9, <4>1
      <4>3. k[j + 1] = "." => k[j + 1 - 1] = "a"
        BY <1>4, <2>3, <4>1
      <4> QED
        BY <2>3, <4>1, <4>2, <4>3
    <3>4. ASSUME NEW i \in 2 .. d PROVE s[i] = "a" \/ (s[i] = "." /\ s[i - 1] = "a")
      <4>1. i \in 1 .. d /\ i - 1 \in 1 .. d /\ j + i \in 2 .. n /\ j + i - 1 = j + (i - 1)
        BY <2>3, <2>6
      <4>2. s[i] = k[j + i] /\ s[i - 1] = k[j + i - 1] /\ s[i] \in {"a", "."}
        BY <2>8, <2>9, <4>1
      <4>3. k[j + i] = "." => k[j + i - 1] = "a"
        BY <1>4, <2>3, <4>1
      <4> QED
        BY <4>2, <4>3
    <3> QED
      BY <2>9, <3>1, <3>3, <3>4 DEF PathName, Segments
  <2>12. k = Join(p, s)
    <3> DEFINE q == p \o <<"/">> \o s
    <3>1. /\ q \in [1 .. n -> Characters \ {"!"}]
          /\ \A i \in 1 .. m : q[i] = p[i]
          /\ q[m + 1] = "/"
          /\ \A i \in m + 2 .. n : q[i] = s[i - m - 1]
      BY <2>3, <2>6, <2>7, <2>9, Joined
    <3> HIDE DEF q
    <3>2. ASSUME NEW i \in 1 .. n PROVE k[i] = q[i]
      <4>1. CASE i <= m
        BY <2>6, <2>7, <3>1, <4>1
      <4>2. CASE i = m + 1
        BY <2>3, <2>6, <3>1, <4>2
      <4>3. CASE i > m + 1
        <5>1. i \in m + 2 .. n /\ i - m - 1 \in 1 .. d /\ j + (i - m - 1) = i
          BY <2>6, <4>3
        <5> QED
          BY <2>8, <3>1, <5>1
      <4> QED
        BY <2>6, <4>1, <4>2, <4>3
    <3>3. k = q
      BY <1>1, <3>1, <3>2
    <3> QED
      BY <3>3 DEF q, Join
  <2> QED
    BY <2>6, <2>10, <2>11, <2>12
<1> QED
  BY <1>2, <1>3

\* The paths are the clean names: the clean names are built up as the paths are, and
\* there is one way to do so.
LEMMA PathsAreClean == \A n \in Nat : Paths[n] = CleanNames[n]
<1>1. ASSUME NEW n \in Nat PROVE CleanNames[n] = Longer(CleanNames, n)
  <2>1. ASSUME NEW k PROVE k \in CleanNames[n] <=> k \in Longer(CleanNames, n)
    <3>1. ASSUME k \in CleanNames[n] PROVE k \in Longer(CleanNames, n)
      <4>1. \/ k \in Segments(n)
            \/ \E m \in 1 .. n - 2 : \E p \in CleanNames[m], s \in Segments(n - m - 1) :
                   k = Join(p, s)
        BY <3>1, CleanSplits, Zenon
      <4> QED
        BY <4>1, LongerFacts, Zenon
    <3>2. ASSUME k \in Longer(CleanNames, n) PROVE k \in CleanNames[n]
      <4>1. CASE k \in Segments(n)
        BY <4>1, SegmentIsClean, Zenon
      <4>2. CASE k \notin Segments(n)
        <5>1. PICK m \in 1 .. n - 2 : \E p \in CleanNames[m], s \in Segments(n - m - 1) :
                   k = Join(p, s)
          BY <3>2, <4>2, LongerFacts
        <5>2. PICK p \in CleanNames[m], s \in Segments(n - m - 1) : k = Join(p, s)
          BY <5>1
        <5> QED
          BY <5>2, JoinedIsClean, Zenon
      <4> QED
        BY <4>1, <4>2
    <3> QED
      BY <3>1, <3>2
  <2> QED
    BY <2>1
<1>2. CleanNames = [n \in Nat |-> Longer(CleanNames, n)]
  <2>1. CleanNames = [n \in Nat |-> CleanNames[n]]
    BY DEF CleanNames
  <2> QED
    BY <1>1, <2>1
<1>3. Paths = [n \in Nat |-> Longer(Paths, n)]
  BY <1>2, Zenon DEF Paths, Longer
<1> DEFINE Bad == {n \in Nat : Paths[n] # CleanNames[n]}
<1>4. Bad = {}
  <2> SUFFICES ASSUME Bad # {} PROVE FALSE
    OBVIOUS
  <2>1. PICK n \in Bad : \A m \in Bad : n <= m
    BY SmallestNumber
  <2>2. n \in Nat /\ Paths[n] # CleanNames[n]
    OBVIOUS
  <2>3. \A m \in 1 .. n - 2 : Paths[m] = CleanNames[m]
    <3>1. \A m \in 1 .. n - 2 : m \in Nat /\ ~ n <= m
      BY <2>2
    <3> QED
      BY <2>1, <3>1
  <2> HIDE DEF Bad
  <2>4. Paths[n] = Longer(Paths, n) /\ CleanNames[n] = Longer(CleanNames, n)
    BY <1>1, <1>3, <2>2, Zenon
  <2>5. Longer(Paths, n) = Longer(CleanNames, n)
    <3>1. \A m \in 1 .. n - 2 : Joins(Paths, n, m) = Joins(CleanNames, n, m)
      <4> SUFFICES ASSUME NEW m \in 1 .. n - 2 PROVE Joins(Paths, n, m) = Joins(CleanNames, n, m)
        OBVIOUS
      <4>1. Paths[m] = CleanNames[m]
        BY <2>3
      <4>2. ASSUME NEW k PROVE k \in Joins(Paths, n, m) <=> k \in Joins(CleanNames, n, m)
        BY <2>2, <4>1, JoinsFacts
      <4> QED
        BY <4>2
    <3>2. ASSUME NEW k PROVE k \in Longer(Paths, n) <=> k \in Longer(CleanNames, n)
      BY <3>1, Zenon DEF Longer
    <3> QED
      BY <3>2
  <2> QED
    BY <2>2, <2>4, <2>5
<1> QED
  BY <1>4

LEMMA NamesStay == Spec => [](name \in Names)
<1>1. Init => name \in Names
  BY DEF Init
<1>2. name \in Names /\ [Next]_vars => (name \in Names)'
  BY DEF Next, vars, Put, Delete, Restart, Get, NotFound, NotModified, Modified, SendValue,
         FailGet, Answer, Rest
<1> QED
  BY <1>1, <1>2, PTL DEF Spec

\* validate_key accepts exactly the clean paths of at most MAX_KEY_NAME_LEN characters,
\* for names of any length.
THEOREM ValidKeysAreCleanPaths == Spec => []KeysAreCleanPaths
<1>1. name \in Names => KeysAreCleanPaths
  <2> SUFFICES ASSUME name \in Names PROVE KeysAreCleanPaths
    OBVIOUS
  <2>1. name \in Seq(Characters) /\ Len(name) \in Nat
    BY CodecAssumption
  <2>2. name \in CleanNames[Len(name)] <=> Clean(name)
    <3>1. Clean(name) => name \in [1 .. Len(name) -> Characters \ {"!"}]
      BY <2>1 DEF Clean
    <3> QED
      BY <2>1, <3>1 DEF CleanNames
  <2>3. Paths[Len(name)] = CleanNames[Len(name)]
    BY <2>1, PathsAreClean
  <2> QED
    BY <2>1, <2>2, <2>3, ValidIsClean DEF KeysAreCleanPaths
<1> QED
  BY <1>1, NamesStay, PTL

=============================================================================
