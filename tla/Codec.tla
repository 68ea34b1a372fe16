-------------------------------- MODULE Codec --------------------------------
(***************************************************************************)
(* One key of /v2/data from the bytes a client puts to the bytes a client  *)
(* gets: validate_key, compress and decompress (src/lib/utils.rs), and the *)
(* two reads of GET /v2/data/{key} (src/routes/v2/data.rs). A PUT stores   *)
(* its content as it is or as a zstd frame, whichever COMPRESSION_ENABLED  *)
(* and the sizes suggest, and a read recognises a frame by its first       *)
(* bytes. The server may be started again with the other setting. How a    *)
(* PUT writes the row is the subject of DataKeys: here it is one step.     *)
(*                                                                         *)
(* Bytes are what the code tells apart: the sizes of the zstd frames they  *)
(* are nested in, from the outermost to what is inside, and whether the    *)
(* inside begins like a frame without being one. A checksum stands for the *)
(* content it was computed from.                                           *)
(***************************************************************************)
EXTENDS Integers, Sequences

CONSTANTS
    Names,      \* the names clients use for the key: sequences of characters
    MaxName,    \* MAX_KEY_NAME_LEN
    Values,     \* the contents clients put
    MaxSize,    \* bound on the size of a frame
    Cap,        \* MAX_DECOMPRESSION_SIZE
    None        \* no content

\* Characters: "a" stands for those that are allowed, "!" for those that are not.
Characters == {"a", ".", "/", "!"}

ASSUME CodecAssumption ==
    /\ Names \subseteq Seq(Characters)
    /\ MaxName \in Nat /\ MaxSize \in Nat /\ Cap \in Nat
    /\ None \notin Values
    /\ \A v \in Values :
           /\ v = [kind |-> v.kind, sizes |-> v.sizes]
           /\ v.kind \in {"text", "magic"} /\ v.sizes \in Seq(Nat) \ {<<>>}
           /\ v.kind = "magic" \/ Len(v.sizes) > 1 => v.sizes[1] # 0

VARIABLES
    enabled,   \* CONFIG.compression_enabled
    name,      \* the name of the key
    row,       \* the row of table data
    reader,    \* the handler of a GET: where it stands, and its If-None-Match
    held,      \* the copy the client holds, and the tag that came with it
    saw        \* history: the row the last answer was decided upon

vars == <<enabled, name, row, reader, held, saw>>

-----------------------------------------------------------------------------
(* Key names. *)

Contains(k, a, b) == \E i \in 1 .. Len(k) - 1 : k[i] = a /\ k[i + 1] = b

\* Fault: segments may begin with a dot.
BadSegment_Empty(k) == \E i \in 1 .. Len(k) : k[i] = "/" /\ (i = Len(k) \/ k[i + 1] = "/")

\* A segment, from the start or after a slash, is empty or begins with a dot.
BadSegment(k) ==
    \E i \in 1 .. Len(k) + 1 :
        /\ i = 1 \/ k[i - 1] = "/"
        /\ i > Len(k) \/ k[i] \in {"/", "."}

ValidKey(k) ==
    /\ k # <<>> /\ Len(k) <= MaxName
    /\ \A i \in 1 .. Len(k) : k[i] # "!"
    /\ ~ Contains(k, ".", ".") /\ ~ Contains(k, "/", "/")
    /\ k[1] # "/" /\ k[Len(k)] # "/"
    /\ ~ BadSegment(k)

-----------------------------------------------------------------------------
(* Compression. *)

SizeOf(b) == b.sizes[1]

StartsWithMagic(b) == Len(b.sizes) > 1 \/ b.kind = "magic"

\* Fault: contents that look like a frame are not told from frames.
MustDisambiguate_Never(b) == FALSE

MustDisambiguate(b) == StartsWithMagic(b)

\* compress calls zstd for anything but nothing, if it is enabled or must be.
CallsZstd(b) == SizeOf(b) # 0 /\ (enabled \/ MustDisambiguate(b))

\* A frame, whose size is up to zstd, or the bytes themselves if they are no
\* larger and no frame will be suspected.
Frames(b) == {[kind |-> b.kind, sizes |-> <<n>> \o b.sizes] : n \in 1 .. MaxSize}

Smaller(b, frame) == MustDisambiguate(b) \/ SizeOf(frame) < SizeOf(b)

Compressed(b) ==
    IF CallsZstd(b) THEN {IF Smaller(b, f) THEN f ELSE b : f \in Frames(b)} ELSE {b}

\* decompress: what is not a frame, or does not fit the buffer, comes back as it is.
Decompress(b) ==
    IF Len(b.sizes) > 1 /\ b.sizes[2] <= Cap
    THEN [kind |-> b.kind, sizes |-> Tail(b.sizes)]
    ELSE b

-----------------------------------------------------------------------------
NoRow == [content |-> None, bytes |-> None, zstd |-> "ok"]

NoCopy == [tag |-> None, value |-> None, from |-> NoRow, decompressor |-> "ok"]

AtRest == [pc |-> "idle", tag |-> None]

Init ==
    /\ enabled \in BOOLEAN
    /\ name \in Names
    /\ row = NoRow
    /\ reader = AtRest
    /\ held = NoCopy
    /\ saw = NoRow

\* Should zstd fail, the content is stored as it is.
Put(v) ==
    /\ ValidKey(name)
    /\ \/ \E b \in Compressed(v) : row' = [content |-> v, bytes |-> b, zstd |-> "ok"]
       \/ CallsZstd(v) /\ row' = [content |-> v, bytes |-> v, zstd |-> "failed"]
    /\ UNCHANGED <<enabled, name, reader, held, saw>>

Delete ==
    /\ ValidKey(name)
    /\ row # NoRow
    /\ row' = NoRow
    /\ UNCHANGED <<enabled, name, reader, held, saw>>

\* The server is started again with the other setting; a GET under way is lost.
Restart ==
    /\ enabled' = ~ enabled
    /\ reader' = AtRest
    /\ UNCHANGED <<name, row, held, saw>>

\* A client with a copy may ask whether it is still the one stored.
Get ==
    /\ reader.pc = "idle"
    /\ ValidKey(name)
    /\ \/ reader' = [pc |-> "full", tag |-> None]
       \/ held # NoCopy /\ reader' = [pc |-> "metadata", tag |-> held.tag]
    /\ UNCHANGED <<enabled, name, row, held, saw>>

\* The row the answer is about, and the copy of the client after it.
Answer(copy) ==
    /\ reader' = AtRest
    /\ saw' = row
    /\ held' = copy
    /\ UNCHANGED <<enabled, name, row>>

NotFound ==
    /\ reader.pc \in {"metadata", "full"}
    /\ row = NoRow
    /\ Answer(NoCopy)

\* Fault: any tag will do.
Unmodified_Any == TRUE

Unmodified == row.content = reader.tag

NotModified ==
    /\ reader.pc = "metadata"
    /\ row # NoRow /\ Unmodified
    /\ Answer(held)

Modified ==
    /\ reader.pc = "metadata"
    /\ row # NoRow /\ ~ Unmodified
    /\ reader' = [reader EXCEPT !.pc = "full"]
    /\ UNCHANGED <<enabled, name, row, held, saw>>

\* The value, or, should zstd not initialise, the bytes as they are stored.
SendValue ==
    /\ reader.pc = "full"
    /\ row # NoRow
    /\ \/ Answer([tag |-> row.content, value |-> Decompress(row.bytes), from |-> row,
                  decompressor |-> "ok"])
       \/ /\ StartsWithMagic(row.bytes)
          /\ Answer([tag |-> row.content, value |-> row.bytes, from |-> row,
                     decompressor |-> "failed"])

\* A database error, or a client that hangs up.
FailGet ==
    /\ reader.pc # "idle"
    /\ reader' = AtRest
    /\ UNCHANGED <<enabled, name, row, held, saw>>

\* A name that is not valid is answered 400, whatever the request.
Rest == ~ ValidKey(name) /\ UNCHANGED vars

Next ==
    \/ \E v \in Values : Put(v)
    \/ Delete \/ Restart
    \/ Get \/ NotFound \/ NotModified \/ Modified \/ SendValue \/ FailGet
    \/ Rest

Spec == Init /\ [][Next]_vars

-----------------------------------------------------------------------------
(* Correctness. *)

\* The paths of n characters, built up: names without a leading dot and without
\* two dots in a row, joined by single slashes.
PathName(s) ==
    /\ s # <<>> /\ s[1] = "a"
    /\ \A i \in 2 .. Len(s) : s[i] = "a" \/ (s[i] = "." /\ s[i - 1] = "a")

Segments(n) == {s \in [1 .. n -> {"a", "."}] : PathName(s)}
Join(p, s) == p \o <<"/">> \o s
Joins(paths, n, m) == {Join(p, s) : p \in paths[m], s \in Segments(n - m - 1)}
Paths[n \in Nat] == Segments(n) \cup UNION {Joins(Paths, n, m) : m \in 1 .. n - 2}

\* validate_key, a list of things to refuse, accepts exactly the clean paths of at
\* most MaxName characters: no empty, hidden or parent segment gets through any
\* of its rules, and no clean path is refused.
KeysAreCleanPaths == ValidKey(name) <=> Len(name) <= MaxName /\ name \in Paths[Len(name)]

\* When the bytes of a row may not read back as its content: it was compressed and
\* is larger than the buffer may grow, or it looks like a frame and zstd failed
\* (which the code warns of).
Unreadable(r) ==
    \/ r.bytes # r.content /\ SizeOf(r.content) > Cap
    \/ r.zstd = "failed" /\ StartsWithMagic(r.content)

\* Decompressing undoes compressing, for contents that are frames themselves or
\* look like one, under either setting at the time of the PUT and at the time of
\* the GET.
ReadsBack ==
    row # NoRow /\ ~ Unreadable(row) => Decompress(row.bytes) = row.content

\* After an answer the client holds the content the server had when it decided,
\* though its copy may be from a row long replaced, and be confirmed by its tag
\* alone: a copy is wrong only if it was when it was sent.
HeldIsWhatWasStored ==
    /\ held = NoCopy => saw = NoRow
    /\ held # NoCopy /\ held.decompressor = "ok" /\ ~ Unreadable(held.from) =>
           held.value = saw.content

=============================================================================
