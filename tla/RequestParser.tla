--------------------------- MODULE RequestParser ---------------------------
(***************************************************************************)
(* The incremental request parser of core/src/http/request.rs: parse_with   *)
(* over the bytes of one request that have arrived, and expect_action.      *)
(*                                                                          *)
(* A request on the wire is a record of the lengths and of the facts the    *)
(* parser finds in it:                                                      *)
(*   head        bytes of the request line and header block                 *)
(*   fault       the first check of the head that fails, or "none"          *)
(*   version, connection   what Request::keep_alive looks at                *)
(*   expect      the Expect field: "none", "continue" or "unsupported"      *)
(*   framing     "fixed" (len bytes of body) or "chunked"                   *)
(*   chunks      [line, size, broken]: the length of the size line, the     *)
(*               size it gives, and what is wrong with the chunk            *)
(*   trailers    lengths of the trailer lines, none of them blank           *)
(* CRLF is 2 bytes and the blank line that ends a head is 4, as on the wire.*)
(***************************************************************************)
EXTENDS Integers, Sequences, FiniteSets

CONSTANTS
    MaxHead,        \* MAX_HEAD_BYTES
    MaxChunkLine,   \* MAX_CHUNK_LINE_BYTES
    MaxBody         \* max_body, from server.request_max_bytes

ASSUME LimitAssumption == MaxHead \in Nat /\ MaxChunkLine \in Nat \ {0} /\ MaxBody \in Nat

CRLF == 2
HeadEnd(r) == r.head + 4        \* where the body starts

\* ParseError, as far as error_status of conn.rs tells the errors apart.
HeadFaults == {"BareCr", "MalformedRequestLine", "UnknownMethod", "TargetTooLong",
               "UnsupportedVersion", "MalformedHeader", "TooManyHeaders", "BadHost",
               "BadContentLength", "ConflictingFraming", "UnsupportedTransferEncoding"}

ErrorStatus(error) ==
    CASE error = "UnsupportedVersion"                                -> 505
      [] error \in {"UnknownMethod", "UnsupportedTransferEncoding"}  -> 501
      [] error = "BodyTooLarge"                                      -> 413
      [] error = "TargetTooLong"                                     -> 414
      [] error \in {"HeadTooLarge", "TooManyHeaders"}                -> 431
      [] OTHER                                                       -> 400

Chunk == [line : Nat, size : Nat, broken : {"no", "size", "end"}]

Request == [head : Nat, fault : HeadFaults \cup {"none"},
            version : {"1.0", "1.1"}, connection : {"none", "close", "keep-alive"},
            expect : {"none", "continue", "unsupported"},
            framing : {"fixed", "chunked"}, len : Nat,
            chunks : Seq(Chunk), trailers : Seq(Nat \ {0})]

\* The chunks of a chunked body end with the one of size 0, which has no data.
WellFormed(r) ==
    r.framing = "chunked" =>
        /\ r.chunks # <<>>
        /\ \A i \in DOMAIN r.chunks : r.chunks[i].size = 0 <=> i = Len(r.chunks)
        /\ r.chunks[Len(r.chunks)].broken # "end"

KeepAlive(r) ==
    \/ r.connection = "keep-alive"
    \/ r.connection = "none" /\ r.version = "1.1"

-----------------------------------------------------------------------------
\* The parser's answers.
Partial == [kind |-> "partial"]
Complete(n) == [kind |-> "complete", consumed |-> n]
Failed(error) == [kind |-> "error", error |-> error]

\* An unterminated line of a chunked body that began at pos: not yet over, or
\* already too long.
Unterminated(avail, pos) ==
    IF avail - pos > MaxChunkLine THEN Failed("MalformedChunk") ELSE Partial

\* ChunkPos(r)[i]: where the size line of chunk i starts, from the head's end.
ChunkBytes(c) == c.line + CRLF + IF c.size = 0 THEN 0 ELSE c.size + CRLF

ChunkPos(r) ==
    LET pos[i \in 1 .. Len(r.chunks) + 1] ==
            IF i = 1 THEN 0 ELSE pos[i - 1] + ChunkBytes(r.chunks[i - 1])
    IN  pos

\* BodyLen(r)[i]: how much body the first i chunks decode to.
BodyLen(r) ==
    LET len[i \in 0 .. Len(r.chunks)] ==
            IF i = 0 THEN 0 ELSE len[i - 1] + r.chunks[i].size
    IN  len

\* TrailerPos(r)[i]: where line i after the last chunk starts; line
\* Len(trailers) + 1 is the blank one.
TrailerPos(r) ==
    LET pos[i \in 1 .. Len(r.trailers) + 1] ==
            IF i = 1 THEN ChunkPos(r)[Len(r.chunks) + 1]
                     ELSE pos[i - 1] + (r.trailers[i - 1] + CRLF)
    IN  pos

TrailerEnd(r, i) ==
    TrailerPos(r)[i] + CRLF + IF i > Len(r.trailers) THEN 0 ELSE r.trailers[i]

ParseTrailers(r, avail) ==
    LET missing == {i \in 1 .. Len(r.trailers) + 1 : avail < TrailerEnd(r, i)}
    IN  IF missing # {}
        THEN Unterminated(avail, TrailerPos(r)[CHOOSE i \in missing : \A j \in missing : i <= j])
        ELSE Complete(HeadEnd(r) + TrailerEnd(r, Len(r.trailers) + 1))

\* decode_chunked: chunk i, with avail bytes after the head.
LineMissing(r, i, avail) == avail < ChunkPos(r)[i] + r.chunks[i].line + CRLF
DataMissing(r, i, avail) == avail < ChunkPos(r)[i] + ChunkBytes(r.chunks[i])

\* The loop goes on to the next chunk.
ChunkDecoded(r, i, avail) ==
    /\ ~ LineMissing(r, i, avail) /\ ~ DataMissing(r, i, avail)
    /\ r.chunks[i].broken = "no"
    /\ r.chunks[i].size # 0
    /\ BodyLen(r)[i] <= MaxBody

\* What the loop returns at chunk i when it does not go on.
ChunkVerdict(r, i, avail) ==
    LET c == r.chunks[i]
    IN  IF LineMissing(r, i, avail) THEN Unterminated(avail, ChunkPos(r)[i])
        ELSE IF c.broken = "size"   THEN Failed("MalformedChunk")
        ELSE IF c.size = 0          THEN ParseTrailers(r, avail)
        ELSE IF DataMissing(r, i, avail) THEN Partial
        ELSE IF c.broken = "end"    THEN Failed("MalformedChunk")
        ELSE Failed("BodyTooLarge")

\* Faulty variant: the size of a chunk is checked, the total is not.
ParseChunkedPerChunk(r, avail) ==
    LET ends == {i \in DOMAIN r.chunks :
                    ~ (\/ ChunkDecoded(r, i, avail)
                       \/ /\ ~ DataMissing(r, i, avail) /\ r.chunks[i].broken = "no"
                          /\ r.chunks[i].size \in 1 .. MaxBody)}
    IN  ChunkVerdict(r, CHOOSE i \in ends : \A j \in ends : i <= j, avail)

ParseChunked(r, avail) ==
    LET ends == {i \in DOMAIN r.chunks : ~ ChunkDecoded(r, i, avail)}
    IN  ChunkVerdict(r, CHOOSE i \in ends : \A j \in ends : i <= j, avail)

\* Faulty variant: the body is not waited for.
ParseFixedEager(r, avail) ==
    IF r.len > MaxBody THEN Failed("BodyTooLarge") ELSE Complete(HeadEnd(r) + r.len)

ParseFixed(r, avail) ==
    IF r.len > MaxBody THEN Failed("BodyTooLarge")
    ELSE IF avail < r.len THEN Partial
    ELSE Complete(HeadEnd(r) + r.len)

\* parse_with: avail bytes of the buffer start at the head of r.
Parse(r, avail) ==
    IF avail < HeadEnd(r)
    THEN IF avail > MaxHead THEN Failed("HeadTooLarge") ELSE Partial
    ELSE IF r.head > MaxHead THEN Failed("HeadTooLarge")
    ELSE IF r.fault # "none" THEN Failed(r.fault)
    ELSE IF r.framing = "fixed" THEN ParseFixed(r, avail - HeadEnd(r))
    ELSE ParseChunked(r, avail - HeadEnd(r))

\* expect_action.
ExpectAction(r, avail) == IF avail < HeadEnd(r) THEN "none" ELSE r.expect

-----------------------------------------------------------------------------
\* What a client puts on the wire for r: independent of the parser, which has
\* to consume exactly this much.
Wire(r) ==
    HeadEnd(r) + IF r.framing = "fixed"
                 THEN r.len
                 ELSE TrailerEnd(r, Len(r.trailers) + 1)
=============================================================================
