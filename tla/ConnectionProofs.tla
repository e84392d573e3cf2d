-------------------------- MODULE ConnectionProofs --------------------------
(***************************************************************************)
(* Proofs about Connection and the RequestParser under it, for any streams  *)
(* of requests, any limits and any segmentation of the bytes.               *)
(***************************************************************************)
EXTENDS Connection, NaturalFacts, SequenceTheorems, FiniteSetTheorems

(* Bytes that go further than a limit, within a line and its end. *)
LEMMA PastLimit ==
    ASSUME NEW avail \in Nat, NEW pos \in Nat, NEW line \in Nat, NEW limit \in Nat,
           avail < pos + line + CRLF \/ avail < pos + CRLF + line, avail - pos > limit
    PROVE  line + 1 > limit
BY DEF CRLF

(* The positions of the chunks and of the trailer lines of a request: the   *)
(* recursive functions have solutions, so they satisfy their equations.     *)

LEMMA RequestTypes ==
    ASSUME NEW r \in Request
    PROVE  /\ r.head \in Nat /\ r.len \in Nat
           /\ r.chunks \in Seq(Chunk) /\ Len(r.chunks) \in Nat
           /\ DOMAIN r.chunks = 1 .. Len(r.chunks)
           /\ \A i \in 1 .. Len(r.chunks) :
                 /\ r.chunks[i].line \in Nat /\ r.chunks[i].size \in Nat
                 /\ r.chunks[i].broken \in {"no", "size", "end"}
                 /\ ChunkBytes(r.chunks[i]) \in Nat
                 /\ r.chunks[i].line + CRLF <= ChunkBytes(r.chunks[i])
           /\ Len(r.trailers) \in Nat
           /\ DOMAIN r.trailers = 1 .. Len(r.trailers)
           /\ \A i \in 1 .. Len(r.trailers) : r.trailers[i] \in Nat
           /\ HeadEnd(r) \in Nat /\ HeadEnd(r) >= 4
           /\ r.framing \in {"fixed", "chunked"}
<1>1. /\ r.head \in Nat /\ r.len \in Nat /\ r.framing \in {"fixed", "chunked"}
      /\ r.chunks \in Seq(Chunk) /\ r.trailers \in Seq(Nat \ {0})
  BY DEF Request
<1>2. /\ Len(r.chunks) \in Nat /\ DOMAIN r.chunks = 1 .. Len(r.chunks)
      /\ Len(r.trailers) \in Nat /\ DOMAIN r.trailers = 1 .. Len(r.trailers)
  BY <1>1, LenProperties
<1>3. ASSUME NEW i \in 1 .. Len(r.chunks)
      PROVE  /\ r.chunks[i].line \in Nat /\ r.chunks[i].size \in Nat
             /\ r.chunks[i].broken \in {"no", "size", "end"}
             /\ ChunkBytes(r.chunks[i]) \in Nat
             /\ r.chunks[i].line + CRLF <= ChunkBytes(r.chunks[i])
  <2> DEFINE c == r.chunks[i]
  <2>1. c \in Chunk
    BY <1>1, <1>2, ElementOfSeq
  <2> HIDE DEF c
  <2>2. c.line \in Nat /\ c.size \in Nat /\ c.broken \in {"no", "size", "end"}
    BY <2>1 DEF Chunk
  <2>3. ChunkBytes(c) \in Nat /\ c.line + CRLF <= ChunkBytes(c)
    BY <2>2 DEF ChunkBytes, CRLF
  <2>4. QED
    BY <2>2, <2>3 DEF c
<1>5. ASSUME NEW i \in 1 .. Len(r.trailers) PROVE r.trailers[i] \in Nat
  <2>1. r.trailers[i] \in Nat \ {0}
    BY <1>1, <1>2, ElementOfSeq
  <2>2. QED
    BY <2>1
<1>6. HeadEnd(r) \in Nat /\ HeadEnd(r) >= 4
  BY <1>1 DEF HeadEnd
<1>7. QED
  BY <1>1, <1>2, <1>3, <1>5, <1>6

LEMMA ChunkPosFacts ==
    ASSUME NEW r \in Request
    PROVE  /\ ChunkPos(r) \in [1 .. Len(r.chunks) + 1 -> Nat]
           /\ ChunkPos(r)[1] = 0
           /\ \A i \in 1 .. Len(r.chunks) :
                 ChunkPos(r)[i + 1] = ChunkPos(r)[i] + ChunkBytes(r.chunks[i])
<1> DEFINE m == Len(r.chunks)
           d == [k \in 1 .. m |-> ChunkBytes(r.chunks[k])]
<1>1. m \in Nat /\ d \in [1 .. m -> Nat] /\ 0 \in Nat
  BY RequestTypes
<1>2. \E g \in [1 .. m + 1 -> Nat] :
          g = [k \in 1 .. m + 1 |-> IF k = 1 THEN 0 ELSE g[k - 1] + d[k - 1]]
  <2> HIDE DEF m, d
  <2>1. PICK f \in [1 .. m + 1 -> Nat] : Solution(f, m, 0, d)
    BY <1>1, TotalsExist, Zenon
  <2>2. QED
    BY <2>1, Zenon DEF Solution
<1>3. PICK g \in [1 .. m + 1 -> Nat] :
          g = [k \in 1 .. m + 1 |-> IF k = 1 THEN 0 ELSE g[k - 1] + d[k - 1]]
  BY <1>2
<1>4. g = [i \in 1 .. m + 1 |-> IF i = 1 THEN 0 ELSE g[i - 1] + ChunkBytes(r.chunks[i - 1])]
  <2>1. \A i \in 1 .. m + 1 : i # 1 => d[i - 1] = ChunkBytes(r.chunks[i - 1])
    BY <1>1
  <2>2. QED
    BY <1>3, <2>1
<1> DEFINE pos == ChunkPos(r)
<1>5. pos = [i \in 1 .. m + 1 |-> IF i = 1 THEN 0 ELSE pos[i - 1] + ChunkBytes(r.chunks[i - 1])]
  BY <1>4 DEF ChunkPos
<1> HIDE DEF pos
<1>6. pos = [i \in 1 .. m + 1 |-> IF i = 1 THEN 0 ELSE pos[i - 1] + d[i - 1]]
  <2>1. \A i \in 1 .. m + 1 : i # 1 => d[i - 1] = ChunkBytes(r.chunks[i - 1])
    BY <1>1
  <2>2. QED
    BY <1>5, <2>1
<1>7. \A i \in 1 .. m : d[i] = ChunkBytes(r.chunks[i])
  OBVIOUS
<1>8. pos \in [1 .. m + 1 -> Nat] /\ pos[1] = 0 /\ \A k \in 1 .. m : pos[k + 1] = pos[k] + d[k]
  <2>1. 0 \in Nat /\ Totals(pos, m, 0, d)
    BY <1>6 DEF Totals
  <2> HIDE DEF d, m
  <2>2. (\A i \in 1 .. m + 1 : pos[i] \in Nat) /\ pos[1] = 0 /\ \A k \in 1 .. m : pos[k + 1] = pos[k] + d[k]
    <3>1. pos[1] = 0
      BY <1>1, <2>1, TotalsType
    <3>2. \A i \in 1 .. m + 1 : pos[i] \in Nat
      BY <1>1, <2>1, TotalsType
    <3>3. ASSUME NEW k \in 1 .. m PROVE pos[k + 1] = pos[k] + d[k]
      <4>1. k + 1 \in 1 .. m + 1 /\ k + 1 # 1 /\ (k + 1) - 1 = k
        BY <1>1
      <4>2. QED
        BY <2>1, <4>1 DEF Totals
    <3>4. QED
      BY <3>1, <3>2, <3>3
  <2>3. QED
    BY <1>6, <2>2
<1>9. QED
  BY <1>7, <1>8 DEF pos

LEMMA TrailerPosFacts ==
    ASSUME NEW r \in Request
    PROVE  /\ TrailerPos(r) \in [1 .. Len(r.trailers) + 1 -> Nat]
           /\ TrailerPos(r)[1] = ChunkPos(r)[Len(r.chunks) + 1]
           /\ \A i \in 1 .. Len(r.trailers) :
                 TrailerPos(r)[i + 1] = TrailerPos(r)[i] + (r.trailers[i] + CRLF)
<1> DEFINE m == Len(r.trailers)
           c == ChunkPos(r)[Len(r.chunks) + 1]
           d == [k \in 1 .. m |-> r.trailers[k] + CRLF]
<1>1. m \in Nat /\ d \in [1 .. m -> Nat]
  BY RequestTypes DEF CRLF
<1>2. c \in Nat
  <2>1. Len(r.chunks) + 1 \in 1 .. Len(r.chunks) + 1
    BY RequestTypes
  <2>2. QED
    BY <2>1, ChunkPosFacts
<1>3. \E g \in [1 .. m + 1 -> Nat] :
          g = [k \in 1 .. m + 1 |-> IF k = 1 THEN c ELSE g[k - 1] + d[k - 1]]
  <2> HIDE DEF m, c, d
  <2>1. PICK f \in [1 .. m + 1 -> Nat] : Solution(f, m, c, d)
    BY <1>1, <1>2, TotalsExist, Zenon
  <2>2. QED
    BY <2>1, Zenon DEF Solution
<1>4. PICK g \in [1 .. m + 1 -> Nat] :
          g = [k \in 1 .. m + 1 |-> IF k = 1 THEN c ELSE g[k - 1] + d[k - 1]]
  BY <1>3
<1> DEFINE pos == TrailerPos(r)
<1>5. g = [i \in 1 .. m + 1 |-> IF i = 1 THEN c ELSE g[i - 1] + (r.trailers[i - 1] + CRLF)]
  <2>1. \A i \in 1 .. m + 1 : i # 1 => d[i - 1] = r.trailers[i - 1] + CRLF
    BY <1>1
  <2>2. QED
    BY <1>4, <2>1
<1>6. pos = [i \in 1 .. m + 1 |-> IF i = 1 THEN c ELSE pos[i - 1] + (r.trailers[i - 1] + CRLF)]
  BY <1>5 DEF TrailerPos
<1> HIDE DEF pos, c
<1>7. pos = [i \in 1 .. m + 1 |-> IF i = 1 THEN c ELSE pos[i - 1] + d[i - 1]]
  <2>1. \A i \in 1 .. m + 1 : i # 1 => d[i - 1] = r.trailers[i - 1] + CRLF
    BY <1>1
  <2>2. QED
    BY <1>6, <2>1
<1>8. \A i \in 1 .. m : d[i] = r.trailers[i] + CRLF
  OBVIOUS
<1>9. pos \in [1 .. m + 1 -> Nat] /\ pos[1] = c /\ \A k \in 1 .. m : pos[k + 1] = pos[k] + d[k]
  <2>1. Totals(pos, m, c, d)
    BY <1>7 DEF Totals
  <2> HIDE DEF d, m
  <2>2. (\A i \in 1 .. m + 1 : pos[i] \in Nat) /\ pos[1] = c /\ \A k \in 1 .. m : pos[k + 1] = pos[k] + d[k]
    <3>1. pos[1] = c
      BY <1>1, <1>2, <2>1, TotalsType
    <3>2. \A i \in 1 .. m + 1 : pos[i] \in Nat
      BY <1>1, <1>2, <2>1, TotalsType
    <3>3. ASSUME NEW k \in 1 .. m PROVE pos[k + 1] = pos[k] + d[k]
      <4>1. k + 1 \in 1 .. m + 1 /\ k + 1 # 1 /\ (k + 1) - 1 = k
        BY <1>1
      <4>2. QED
        BY <2>1, <4>1 DEF Totals
    <3>4. QED
      BY <3>1, <3>2, <3>3
  <2>3. QED
    BY <1>7, <2>2
<1>10. QED
  BY <1>8, <1>9 DEF pos, c

LEMMA BodyLenFacts ==
    ASSUME NEW r \in Request
    PROVE  /\ BodyLen(r) \in [0 .. Len(r.chunks) -> Nat]
           /\ BodyLen(r)[0] = 0
           /\ \A i \in 1 .. Len(r.chunks) : BodyLen(r)[i] = BodyLen(r)[i - 1] + r.chunks[i].size
           /\ \A i \in 0 .. Len(r.chunks) : \A j \in i .. Len(r.chunks) :
                 BodyLen(r)[i] <= BodyLen(r)[j]
<1> DEFINE m == Len(r.chunks)
           d == [k \in 1 .. m |-> r.chunks[k].size]
           len == BodyLen(r)
<1>1. m \in Nat /\ d \in [1 .. m -> Nat]
  BY RequestTypes
<1>2. PICK g \in [0 .. m -> Nat] : g = [i \in 0 .. m |-> IF i = 0 THEN 0 ELSE g[i - 1] + d[i]]
  <2> HIDE DEF m, d
  <2>1. QED
    BY <1>1, CountsExist
<1>3. g = [i \in 0 .. m |-> IF i = 0 THEN 0 ELSE g[i - 1] + r.chunks[i].size]
  <2>1. \A i \in 0 .. m : i # 0 => d[i] = r.chunks[i].size
    BY <1>1
  <2>2. QED
    BY <1>2, <2>1
<1>4. len = [i \in 0 .. m |-> IF i = 0 THEN 0 ELSE len[i - 1] + r.chunks[i].size]
  BY <1>3 DEF BodyLen
<1> HIDE DEF len
<1>5. len = [i \in 0 .. m |-> IF i = 0 THEN 0 ELSE len[i - 1] + d[i]]
  <2>1. \A i \in 0 .. m : i # 0 => d[i] = r.chunks[i].size
    BY <1>1
  <2>2. QED
    BY <1>4, <2>1
<1>6. \A i \in 1 .. m : d[i] = r.chunks[i].size
  OBVIOUS
<1>7. len \in [0 .. m -> Nat] /\ len[0] = 0 /\ \A k \in 1 .. m : len[k] = len[k - 1] + d[k]
  <2>1. \A i \in 0 .. m : len[i] = IF i = 0 THEN 0 ELSE len[i - 1] + d[i]
    BY <1>5
  <2> HIDE DEF d, m
  <2>2. (\A i \in 0 .. m : len[i] \in Nat) /\ len[0] = 0 /\ \A k \in 1 .. m : len[k] = len[k - 1] + d[k]
    BY <1>1, <2>1, CountsType, ZenonT(40)
  <2>3. QED
    BY <1>5, <2>2
<1>8. \A i \in 0 .. m : \A j \in i .. m : len[i] <= len[j]
  <2> HIDE DEF d, m
  <2>1. QED
    BY <1>1, <1>7, CountsGrow
<1>9. QED
  BY <1>6, <1>7, <1>8 DEF len

-----------------------------------------------------------------------------
(* What the parser answers. *)

\* Where a chunked body ends, from the head's end.
BodyEnd(r) == TrailerEnd(r, Len(r.trailers) + 1)

\* The end of the body is past every chunk and every trailer line.
LEMMA Positions ==
    ASSUME NEW r \in Request
    PROVE  /\ BodyEnd(r) \in Nat
           /\ \A i \in 1 .. Len(r.chunks) : ChunkPos(r)[i] \in Nat
           /\ \A i \in 1 .. Len(r.chunks) : ChunkPos(r)[i] + ChunkBytes(r.chunks[i]) <= BodyEnd(r)
           /\ \A i \in 1 .. Len(r.trailers) + 1 : TrailerPos(r)[i] \in Nat /\ TrailerEnd(r, i) <= BodyEnd(r)
<1> DEFINE n == Len(r.chunks)
           t == Len(r.trailers)
           cp == ChunkPos(r)
           tp == TrailerPos(r)
           cd == [k \in 1 .. n |-> ChunkBytes(r.chunks[k])]
           td == [k \in 1 .. t |-> r.trailers[k] + CRLF]
<1>1. n \in Nat /\ t \in Nat /\ cd \in [1 .. n -> Nat] /\ td \in [1 .. t -> Nat]
  BY RequestTypes DEF CRLF
<1>2. cp \in [1 .. n + 1 -> Nat] /\ \A k \in 1 .. n : cp[k + 1] = cp[k] + cd[k]
  BY ChunkPosFacts
<1>3. tp \in [1 .. t + 1 -> Nat] /\ tp[1] = cp[n + 1] /\ \A k \in 1 .. t : tp[k + 1] = tp[k] + td[k]
  BY TrailerPosFacts
<1>4. \A k \in 1 .. n : cd[k] = ChunkBytes(r.chunks[k])
  OBVIOUS
<1>5. \A k \in 1 .. t : td[k] = r.trailers[k] + CRLF
  OBVIOUS
<1> HIDE DEF cp, tp, cd, td, n, t
<1>6. \A i \in 1 .. n + 1 : \A j \in i .. n + 1 : cp[i] <= cp[j]
  BY <1>1, <1>2, TotalsGrow
<1>7. \A i \in 1 .. t + 1 : \A j \in i .. t + 1 : tp[i] <= tp[j]
  BY <1>1, <1>3, TotalsGrow
<1>8. tp[t + 1] \in Nat /\ BodyEnd(r) = tp[t + 1] + CRLF
  <2>1. t + 1 \in 1 .. t + 1 /\ t + 1 > t
    BY <1>1
  <2>2. TrailerEnd(r, t + 1) = tp[t + 1] + CRLF + 0
    BY <2>1 DEF TrailerEnd, tp, t
  <2>3. tp[t + 1] \in Nat
    BY <1>3, <2>1
  <2>4. QED
    BY <2>2, <2>3 DEF BodyEnd, t, CRLF
<1>9. ASSUME NEW i \in 1 .. n PROVE cp[i] \in Nat /\ cp[i] + ChunkBytes(r.chunks[i]) <= BodyEnd(r)
  <2>1. i \in 1 .. n + 1 /\ i + 1 \in 1 .. n + 1 /\ n + 1 \in (i + 1) .. (n + 1)
    BY <1>1
  <2>2. cp[i] + ChunkBytes(r.chunks[i]) = cp[i + 1] /\ cp[i + 1] <= cp[n + 1]
    BY <1>2, <1>4, <1>6, <2>1
  <2>3. 1 \in 1 .. t + 1 /\ t + 1 \in 1 .. t + 1
    BY <1>1
  <2>4. cp[n + 1] <= tp[t + 1]
    BY <1>3, <1>7, <2>3
  <2>5. cp[i] \in Nat /\ cp[i + 1] \in Nat /\ cp[n + 1] \in Nat
    BY <1>1, <1>2, <2>1
  <2>6. QED
    BY <1>8, <2>2, <2>4, <2>5 DEF CRLF
<1>10. ASSUME NEW i \in 1 .. t + 1 PROVE tp[i] \in Nat /\ TrailerEnd(r, i) <= BodyEnd(r)
  <2>1. tp[i] \in Nat
    BY <1>3
  <2>2. CASE i = t + 1
    <3>1. TrailerEnd(r, i) = BodyEnd(r)
      BY <2>2 DEF BodyEnd, t
    <3>2. QED
      BY <1>8, <2>1, <3>1 DEF CRLF
  <2>3. CASE i # t + 1
    <3>1. i \in 1 .. t /\ i + 1 \in 1 .. t + 1 /\ t + 1 \in (i + 1) .. (t + 1) /\ ~ (i > t)
      BY <1>1, <2>3
    <3>2. TrailerEnd(r, i) = tp[i] + CRLF + r.trailers[i]
      BY <3>1 DEF TrailerEnd, tp, t
    <3>3. r.trailers[i] \in Nat
      BY <3>1, RequestTypes DEF t
    <3>4. tp[i + 1] = tp[i] + (r.trailers[i] + CRLF) /\ tp[i + 1] <= tp[t + 1] /\ tp[i + 1] \in Nat
      BY <1>3, <1>5, <1>7, <3>1
    <3>5. QED
      BY <1>8, <2>1, <3>2, <3>3, <3>4 DEF CRLF
  <2>4. QED
    BY <2>2, <2>3
<1>11. QED
  BY <1>8, <1>9, <1>10 DEF cp, tp, n, t, CRLF

\* The trailer section is complete, or one of its lines is missing.
LEMMA TrailersOutcome ==
    ASSUME NEW r \in Request, NEW avail \in Nat
    PROVE  \/ avail >= BodyEnd(r) /\ ParseTrailers(r, avail) = Complete(HeadEnd(r) + BodyEnd(r))
           \/ /\ avail < BodyEnd(r)
              /\ \E i \in 1 .. Len(r.trailers) + 1 :
                    /\ avail < TrailerEnd(r, i)
                    /\ ParseTrailers(r, avail) = Unterminated(avail, TrailerPos(r)[i])
<1> DEFINE t == Len(r.trailers)
           missing == {i \in 1 .. t + 1 : avail < TrailerEnd(r, i)}
<1>1. t \in Nat /\ t + 1 \in 1 .. t + 1
  BY RequestTypes
<1>2. CASE missing = {}
  <2>1. ~ (avail < BodyEnd(r))
    BY <1>1, <1>2 DEF BodyEnd
  <2>2. ParseTrailers(r, avail) = Complete(HeadEnd(r) + BodyEnd(r))
    BY <1>2 DEF ParseTrailers, BodyEnd
  <2>3. QED
    BY <2>1, <2>2, Positions
<1>3. CASE missing # {}
  <2> DEFINE i == CHOOSE i \in missing : \A j \in missing : i <= j
  <2>1. missing \subseteq Nat
    BY <1>1
  <2>2. i \in missing
    <3> HIDE DEF missing
    <3>1. QED
      BY <1>3, <2>1, LeastChosen
  <2>3. ParseTrailers(r, avail) = Unterminated(avail, TrailerPos(r)[i])
    BY <1>3 DEF ParseTrailers
  <2> HIDE DEF i
  <2>4. i \in 1 .. t + 1 /\ avail < TrailerEnd(r, i) /\ TrailerEnd(r, i) <= BodyEnd(r)
    BY <2>2, Positions
  <2>5. TrailerEnd(r, i) \in Int
    <3>1. TrailerPos(r)[i] \in Nat /\ (i <= t => r.trailers[i] \in Nat)
      BY <2>4, Positions, RequestTypes
    <3>2. QED
      BY <1>1, <2>4, <3>1 DEF TrailerEnd, CRLF
  <2>6. avail < BodyEnd(r)
    BY <2>4, <2>5, Positions
  <2>7. QED
    BY <2>3, <2>4, <2>6
<1>4. QED
  BY <1>2, <1>3

\* decode_chunked decodes some chunks and stops at the first it cannot.
LEMMA ChunksDecoded ==
    ASSUME NEW r \in Request, WellFormed(r), r.framing = "chunked", NEW avail \in Nat
    PROVE  \E e \in 1 .. Len(r.chunks) :
              /\ ParseChunked(r, avail) = ChunkVerdict(r, e, avail)
              /\ ~ ChunkDecoded(r, e, avail)
              /\ \A j \in 1 .. e - 1 : ChunkDecoded(r, j, avail)
<1> DEFINE n == Len(r.chunks)
           ends == {i \in DOMAIN r.chunks : ~ ChunkDecoded(r, i, avail)}
           e == CHOOSE i \in ends : \A j \in ends : i <= j
<1>1. n \in Nat /\ DOMAIN r.chunks = 1 .. n /\ n # 0
  BY RequestTypes, EmptySeq DEF WellFormed
<1>2. n \in ends
  BY <1>1 DEF WellFormed, ChunkDecoded
<1>3. ends \subseteq Nat
  BY <1>1
<1>4. e \in ends /\ \A j \in ends : e <= j
  <2> HIDE DEF ends
  <2>1. QED
    BY <1>2, <1>3, LeastChosen
<1>5. ParseChunked(r, avail) = ChunkVerdict(r, e, avail)
  BY DEF ParseChunked
<1> HIDE DEF e
<1>6. ASSUME NEW j \in 1 .. e - 1 PROVE ChunkDecoded(r, j, avail)
  <2>1. j \in 1 .. n /\ ~ (e <= j)
    BY <1>1, <1>4
  <2>2. QED
    BY <1>1, <1>4, <2>1
<1>7. QED
  BY <1>1, <1>4, <1>5, <1>6

\* An unterminated line is not yet over, or longer than the limit.
LEMMA UnterminatedOutcome ==
    ASSUME NEW avail \in Nat, NEW pos \in Nat
    PROVE  \/ Unterminated(avail, pos) = Partial
           \/ Unterminated(avail, pos) = Failed("MalformedChunk") /\ avail - pos > MaxChunkLine
BY DEF Unterminated

\* decode_chunked on any part of a chunked body: it waits only for what is
\* still to come, consumes exactly the body, and fails on what is wrong with
\* the body as a whole or with an over-long line.
LEMMA ChunkedOutcome ==
    ASSUME NEW r \in Request, WellFormed(r), r.framing = "chunked", NEW avail \in Nat
    PROVE  \/ ParseChunked(r, avail) = Partial /\ avail < BodyEnd(r)
           \/ /\ ParseChunked(r, avail) = Complete(HeadEnd(r) + BodyEnd(r)) /\ avail >= BodyEnd(r)
              /\ ~ Broken(r) /\ ~ Oversized(r)
           \/ /\ ParseChunked(r, avail) = Failed("MalformedChunk")
              /\ Broken(r) \/ OnLineEdge(r)
           \/ /\ ParseChunked(r, avail) = Failed("BodyTooLarge")
              /\ ~ Broken(r) /\ Oversized(r)
<1> DEFINE n == Len(r.chunks)
<1>1. n \in Nat /\ DOMAIN r.chunks = 1 .. n /\ n # 0
  BY RequestTypes, EmptySeq DEF WellFormed
<1>2. PICK e \in 1 .. n :
          /\ ParseChunked(r, avail) = ChunkVerdict(r, e, avail)
          /\ ~ ChunkDecoded(r, e, avail)
          /\ \A j \in 1 .. e - 1 : ChunkDecoded(r, j, avail)
  BY ChunksDecoded
<1> DEFINE c == r.chunks[e]
           pos == ChunkPos(r)[e]
           len == BodyLen(r)
<1>3. /\ c.line \in Nat /\ c.size \in Nat /\ c.broken \in {"no", "size", "end"}
      /\ ChunkBytes(c) \in Nat /\ c.line + CRLF <= ChunkBytes(c)
  BY <1>1, RequestTypes
<1>4. pos \in Nat /\ pos + ChunkBytes(c) <= BodyEnd(r) /\ BodyEnd(r) \in Nat
  BY <1>1, Positions
<1>5. /\ len \in [0 .. n -> Nat] /\ len[0] = 0
      /\ \A i \in 1 .. n : len[i] = len[i - 1] + r.chunks[i].size
      /\ \A i \in 0 .. n : \A j \in i .. n : len[i] <= len[j]
  BY BodyLenFacts
<1>6. len[e - 1] <= MaxBody /\ len[e - 1] \in Nat
  <2>1. CASE e = 1
    BY <1>5, <2>1, LimitAssumption
  <2>2. CASE e # 1
    <3>1. e - 1 \in 1 .. e - 1 /\ e - 1 \in 0 .. n
      BY <1>1, <2>2
    <3>2. QED
      BY <1>2, <1>5, <3>1 DEF ChunkDecoded
  <2>3. QED
    BY <2>1, <2>2
<1>7. \A j \in 1 .. e - 1 : r.chunks[j].broken = "no"
  BY <1>2 DEF ChunkDecoded
<1>8. c.broken # "no" => Broken(r)
  BY <1>1, <1>6 DEF Broken
<1>9. CASE LineMissing(r, e, avail)
  <2>1. avail < pos + c.line + CRLF
    BY <1>9 DEF LineMissing
  <2>2. avail < BodyEnd(r)
    BY <1>3, <1>4, <2>1 DEF CRLF
  <2>3. ParseChunked(r, avail) = Unterminated(avail, pos)
    BY <1>2, <1>9 DEF ChunkVerdict
  <2>4. ASSUME avail - pos > MaxChunkLine PROVE OnLineEdge(r)
    <3>1. c.line + 1 > MaxChunkLine
      BY <1>3, <1>4, <2>1, <2>4, LimitAssumption, PastLimit, Zenon
    <3>2. QED
      BY <1>1, <3>1 DEF OnLineEdge
  <2> HIDE DEF pos
  <2>5. QED
    BY <1>4, <2>2, <2>3, <2>4, UnterminatedOutcome
<1>10. CASE ~ LineMissing(r, e, avail) /\ c.broken = "size"
  BY <1>2, <1>8, <1>10 DEF ChunkVerdict
<1>11. CASE ~ LineMissing(r, e, avail) /\ c.broken # "size" /\ c.size = 0
  <2>1. e = n
    BY <1>1, <1>11 DEF WellFormed
  <2>2. ParseChunked(r, avail) = ParseTrailers(r, avail)
    BY <1>2, <1>11 DEF ChunkVerdict
  <2>3. ~ Broken(r)
    <3>1. c.broken = "no"
      BY <1>3, <1>11, <2>1 DEF WellFormed
    <3>2. \A i \in 1 .. n : i \in 1 .. e - 1 \/ i = e
      BY <1>1, <2>1
    <3>3. QED
      BY <1>1, <1>7, <3>1, <3>2 DEF Broken
  <2>4. ~ Oversized(r)
    <3>1. len[n] = len[n - 1] + 0
      BY <1>1, <1>5, <1>11, <2>1
    <3>2. len[n] <= MaxBody /\ len[n] \in Nat
      BY <1>6, <2>1, <3>1
    <3>3. ~ (len[n] > MaxBody)
      BY <3>2, LimitAssumption
    <3>4. QED
      BY <3>3 DEF Oversized
  <2>5. CASE avail >= BodyEnd(r) /\ ParseTrailers(r, avail) = Complete(HeadEnd(r) + BodyEnd(r))
    BY <2>2, <2>3, <2>4, <2>5
  <2>6. ASSUME avail < BodyEnd(r), NEW i \in 1 .. Len(r.trailers) + 1, avail < TrailerEnd(r, i),
               ParseTrailers(r, avail) = Unterminated(avail, TrailerPos(r)[i])
        PROVE  \/ ParseChunked(r, avail) = Partial
               \/ ParseChunked(r, avail) = Failed("MalformedChunk") /\ OnLineEdge(r)
    <3> DEFINE tpos == TrailerPos(r)[i]
    <3>1. tpos \in Nat
      BY Positions
    <3>2. ASSUME avail - tpos > MaxChunkLine PROVE OnLineEdge(r)
      <4>1. CASE i > Len(r.trailers)
        <5>1. avail < tpos + CRLF + 0
          BY <2>6, <4>1 DEF TrailerEnd
        <5>2. QED
          BY <3>1, <3>2, <5>1, LimitAssumption DEF CRLF
      <4>2. CASE ~ (i > Len(r.trailers))
        <5>1. i \in 1 .. Len(r.trailers)
          BY <4>2, RequestTypes
        <5>2. avail < tpos + CRLF + r.trailers[i] /\ r.trailers[i] \in Nat
          BY <2>6, <4>2, <5>1, RequestTypes DEF TrailerEnd
        <5>3. r.trailers[i] + 1 > MaxChunkLine
          BY <3>1, <3>2, <5>2, LimitAssumption, PastLimit, Zenon
        <5>4. QED
          BY <5>1, <5>3, RequestTypes DEF OnLineEdge
      <4>3. QED
        BY <4>1, <4>2
    <3>3. ParseChunked(r, avail) = Unterminated(avail, tpos)
      BY <2>2, <2>6
    <3> HIDE DEF tpos
    <3>4. QED
      BY <3>1, <3>2, <3>3, UnterminatedOutcome
  <2>7. QED
    BY <2>5, <2>6, TrailersOutcome
<1>12. CASE ~ LineMissing(r, e, avail) /\ c.broken # "size" /\ c.size # 0 /\ DataMissing(r, e, avail)
  <2>1. avail < pos + ChunkBytes(c)
    BY <1>12 DEF DataMissing
  <2>2. avail < BodyEnd(r)
    BY <1>3, <1>4, <2>1
  <2>3. ParseChunked(r, avail) = Partial
    BY <1>2, <1>12 DEF ChunkVerdict
  <2>4. QED
    BY <2>2, <2>3
<1>13. CASE ~ LineMissing(r, e, avail) /\ c.broken = "end" /\ c.size # 0 /\ ~ DataMissing(r, e, avail)
  BY <1>2, <1>8, <1>13 DEF ChunkVerdict
<1>14. CASE ~ LineMissing(r, e, avail) /\ c.broken = "no" /\ c.size # 0 /\ ~ DataMissing(r, e, avail)
  <2>1. ParseChunked(r, avail) = Failed("BodyTooLarge")
    BY <1>2, <1>14 DEF ChunkVerdict
  <2>2. ~ (len[e] <= MaxBody)
    BY <1>2, <1>14 DEF ChunkDecoded
  <2>3. \A j \in e .. n : ~ (len[j] <= MaxBody) /\ len[j] > MaxBody
    <3>1. TAKE j \in e .. n
    <3>2. e \in 0 .. n /\ j \in 0 .. n
      BY <1>1
    <3>3. len[e] <= len[j] /\ len[e] \in Nat /\ len[j] \in Nat
      BY <1>5, <3>2
    <3>4. QED
      BY <2>2, <3>3, LimitAssumption
  <2>4. ASSUME NEW i \in 1 .. n, r.chunks[i].broken # "no" PROVE ~ (len[i - 1] <= MaxBody)
    <3>1. i \notin 1 .. e - 1 /\ i # e
      BY <1>7, <1>14, <2>4
    <3>2. i - 1 \in e .. n
      BY <1>1, <3>1
    <3>3. QED
      BY <2>3, <3>2
  <2>5. ~ Broken(r)
    BY <1>1, <2>4 DEF Broken
  <2>6. Oversized(r)
    <3>1. len[n] > MaxBody
      BY <1>1, <2>3
    <3>2. QED
      BY <3>1 DEF Oversized
  <2>7. QED
    BY <2>1, <2>5, <2>6
<1>15. QED
  BY <1>3, <1>9, <1>10, <1>11, <1>12, <1>13, <1>14

\* The errors of the parser.
Errors == HeadFaults \cup {"HeadTooLarge", "MalformedChunk", "BodyTooLarge"}

LEMMA WireFacts ==
    ASSUME NEW r \in Request
    PROVE  /\ Wire(r) \in Nat /\ Wire(r) >= 4 /\ HeadEnd(r) <= Wire(r)
           /\ r.framing = "fixed" => Wire(r) = HeadEnd(r) + r.len
           /\ r.framing = "chunked" => Wire(r) = HeadEnd(r) + BodyEnd(r)
<1>1. HeadEnd(r) \in Nat /\ HeadEnd(r) >= 4 /\ r.len \in Nat /\ BodyEnd(r) \in Nat
  BY RequestTypes, Positions
<1>2. CASE r.framing = "fixed"
  BY <1>1, <1>2 DEF Wire
<1>3. CASE r.framing = "chunked"
  BY <1>1, <1>3 DEF Wire, BodyEnd
<1>4. QED
  BY <1>2, <1>3, RequestTypes

\* parse_with on any part of a request, and more: it waits only for what is
\* still to come, a complete request is consumed exactly and has no defect, and
\* an error names the defect the request has, or the request is one of those
\* that are answered according to their segmentation.
THEOREM ParseOutcome ==
    ASSUME NEW r \in Request, WellFormed(r), NEW avail \in Nat
    PROVE  \/ /\ Parse(r, avail) = Partial /\ avail < Wire(r)
              /\ avail >= HeadEnd(r) /\ r.framing = "fixed" => Defect(r) = "none"
           \/ /\ Parse(r, avail) = Complete(Wire(r)) /\ Wire(r) <= avail
              /\ Defect(r) = "none"
           \/ \E error \in Errors :
                 /\ Parse(r, avail) = Failed(error)
                 /\ Defect(r) = error \/ SegmentationDependent(r)
<1>1. HeadEnd(r) \in Nat /\ r.head \in Nat /\ r.len \in Nat /\ HeadEnd(r) = r.head + 4
  BY RequestTypes DEF HeadEnd
<1>2. Wire(r) \in Nat /\ HeadEnd(r) <= Wire(r)
  BY WireFacts
<1>3. r.fault \in HeadFaults \cup {"none"}
  BY DEF Request
<1>4. CASE avail < HeadEnd(r)
  <2>1. CASE avail > MaxHead
    <3>1. Parse(r, avail) = Failed("HeadTooLarge")
      BY <1>4, <2>1 DEF Parse
    <3>2. r.head > MaxHead \/ OnHeadEdge(r)
      BY <1>1, <1>4, <2>1, LimitAssumption DEF OnHeadEdge
    <3>3. Defect(r) = "HeadTooLarge" \/ SegmentationDependent(r)
      BY <3>2 DEF Defect, SegmentationDependent
    <3>4. QED
      BY <3>1, <3>3 DEF Errors
  <2>2. CASE ~ (avail > MaxHead)
    <3>1. Parse(r, avail) = Partial
      BY <1>4, <2>2 DEF Parse
    <3>2. avail < Wire(r) /\ ~ (avail >= HeadEnd(r))
      BY <1>1, <1>2, <1>4
    <3>3. QED
      BY <3>1, <3>2
  <2>3. QED
    BY <2>1, <2>2
<1>5. CASE ~ (avail < HeadEnd(r)) /\ r.head > MaxHead
  BY <1>5 DEF Parse, Defect, Errors
<1>6. CASE ~ (avail < HeadEnd(r)) /\ ~ (r.head > MaxHead) /\ r.fault # "none"
  BY <1>3, <1>6 DEF Parse, Defect, Errors
<1>7. CASE ~ (avail < HeadEnd(r)) /\ ~ (r.head > MaxHead) /\ r.fault = "none" /\ r.framing = "fixed"
  <2>1. Parse(r, avail) = ParseFixed(r, avail - HeadEnd(r))
    BY <1>7 DEF Parse
  <2>2. Defect(r) = IF r.len > MaxBody THEN "BodyTooLarge" ELSE "none"
    BY <1>7 DEF Defect, Broken, Oversized
  <2>3. Wire(r) = HeadEnd(r) + r.len
    BY <1>7, WireFacts
  <2>4. CASE r.len > MaxBody
    BY <2>1, <2>2, <2>4 DEF ParseFixed, Errors
  <2>5. CASE ~ (r.len > MaxBody) /\ avail - HeadEnd(r) < r.len
    BY <1>1, <2>1, <2>2, <2>3, <2>5 DEF ParseFixed
  <2>6. CASE ~ (r.len > MaxBody) /\ ~ (avail - HeadEnd(r) < r.len)
    BY <1>1, <2>1, <2>2, <2>3, <2>6 DEF ParseFixed
  <2>7. QED
    BY <2>4, <2>5, <2>6
<1>8. CASE ~ (avail < HeadEnd(r)) /\ ~ (r.head > MaxHead) /\ r.fault = "none" /\ r.framing = "chunked"
  <2> DEFINE a == avail - HeadEnd(r)
  <2>1. Parse(r, avail) = ParseChunked(r, a) /\ a \in Nat
    BY <1>1, <1>8 DEF Parse
  <2>2. Defect(r) = IF Broken(r) THEN "MalformedChunk" ELSE IF Oversized(r) THEN "BodyTooLarge" ELSE "none"
    BY <1>8 DEF Defect
  <2>3. Wire(r) = HeadEnd(r) + BodyEnd(r) /\ BodyEnd(r) \in Nat
    BY <1>8, WireFacts, Positions
  <2>4. a < BodyEnd(r) <=> avail < Wire(r)
    BY <1>1, <2>3
  <2>5. a >= BodyEnd(r) <=> Wire(r) <= avail
    BY <1>1, <2>3
  <2> HIDE DEF a
  <2>6. CASE ParseChunked(r, a) = Partial /\ a < BodyEnd(r)
    BY <1>8, <2>1, <2>4, <2>6
  <2>7. CASE /\ ParseChunked(r, a) = Complete(HeadEnd(r) + BodyEnd(r)) /\ a >= BodyEnd(r)
             /\ ~ Broken(r) /\ ~ Oversized(r)
    BY <2>1, <2>2, <2>3, <2>5, <2>7
  <2>8. CASE ParseChunked(r, a) = Failed("MalformedChunk") /\ (Broken(r) \/ OnLineEdge(r))
    BY <2>1, <2>2, <2>8 DEF Errors, SegmentationDependent
  <2>9. CASE ParseChunked(r, a) = Failed("BodyTooLarge") /\ ~ Broken(r) /\ Oversized(r)
    BY <2>1, <2>2, <2>9 DEF Errors
  <2>10. QED
    BY <1>8, <2>1, <2>6, <2>7, <2>8, <2>9, ChunkedOutcome
<1>9. QED
  BY <1>4, <1>5, <1>6, <1>7, <1>8, RequestTypes

-----------------------------------------------------------------------------
(* The stream and the buffer. *)

LEMMA StreamFacts ==
    ASSUME stream \in Streams
    PROVE  /\ stream \in Seq(Request) /\ Len(stream) \in Nat /\ DOMAIN stream = 1 .. Len(stream)
           /\ \A k \in 1 .. Len(stream) : stream[k] \in Request /\ WellFormed(stream[k]) /\ Wire(stream[k]) \in Nat
<1>1. stream \in Seq(Request) /\ \A k \in DOMAIN stream : WellFormed(stream[k])
  BY StreamsAssumption
<1>2. Len(stream) \in Nat /\ DOMAIN stream = 1 .. Len(stream)
  BY <1>1, LenProperties
<1>3. \A k \in 1 .. Len(stream) : stream[k] \in Request
  BY <1>1, <1>2, ElementOfSeq
<1>4. QED
  BY <1>1, <1>2, <1>3, WireFacts

LEMMA StartFacts ==
    ASSUME stream \in Streams
    PROVE  /\ \A k \in 1 .. Len(stream) + 1 : StartOf[k] \in Nat
           /\ StartOf[1] = 0
           /\ \A k \in 1 .. Len(stream) : StartOf[k + 1] = StartOf[k] + Wire(stream[k])
           /\ \A i \in 1 .. Len(stream) + 1 : \A j \in i .. Len(stream) + 1 : StartOf[i] <= StartOf[j]
<1> DEFINE m == Len(stream)
           d == [k \in 1 .. m |-> Wire(stream[k])]
           start == StartOf
<1>1. m \in Nat /\ d \in [1 .. m -> Nat] /\ 0 \in Nat
  BY StreamFacts
<1>2. PICK g \in [1 .. m + 1 -> Nat] :
          g = [k \in 1 .. m + 1 |-> IF k = 1 THEN 0 ELSE g[k - 1] + d[k - 1]]
  <2> HIDE DEF m, d
  <2>1. PICK f \in [1 .. m + 1 -> Nat] : Solution(f, m, 0, d)
    BY <1>1, TotalsExist, Zenon
  <2>2. QED
    BY <2>1, Zenon DEF Solution
<1>3. \A i \in 1 .. m + 1 : i # 1 => d[i - 1] = Wire(stream[i - 1])
  BY <1>1
<1>4. g = [k \in 1 .. m + 1 |-> IF k = 1 THEN 0 ELSE g[k - 1] + Wire(stream[k - 1])]
  BY <1>2, <1>3
<1>5. start = [k \in 1 .. m + 1 |-> IF k = 1 THEN 0 ELSE start[k - 1] + Wire(stream[k - 1])]
  BY <1>4 DEF StartOf
<1> HIDE DEF start
<1>6. start = [k \in 1 .. m + 1 |-> IF k = 1 THEN 0 ELSE start[k - 1] + d[k - 1]]
  BY <1>3, <1>5
<1>7. Totals(start, m, 0, d)
  BY <1>6 DEF Totals
<1>8. \A k \in 1 .. m : d[k] = Wire(stream[k])
  OBVIOUS
<1> HIDE DEF d, m
<1>9. start[1] = 0
  BY <1>1, <1>7, TotalsType
<1>10. \A k \in 1 .. m + 1 : start[k] \in Nat
  BY <1>1, <1>7, TotalsType
<1>11. ASSUME NEW k \in 1 .. m PROVE start[k + 1] = start[k] + d[k]
  <2>1. k + 1 \in 1 .. m + 1 /\ k + 1 # 1 /\ (k + 1) - 1 = k
    BY <1>1
  <2>2. QED
    BY <1>7, <2>1 DEF Totals
<1>12. start \in [1 .. m + 1 -> Nat]
  BY <1>6, <1>10
<1>13. \A i \in 1 .. m + 1 : \A j \in i .. m + 1 : start[i] <= start[j]
  BY <1>1, <1>11, <1>12, TotalsGrow
<1>14. QED
  BY <1>8, <1>9, <1>10, <1>11, <1>13 DEF start, m

\* No two requests start at the same byte, so the one at the front is known.
LEMMA FrontFacts ==
    ASSUME stream \in Streams, NEW m \in 0 .. Len(stream), base = StartOf[m + 1]
    PROVE  /\ m < Len(stream) =>
                 /\ AtFront(m + 1) /\ Front = m + 1
                 /\ Parsed = Parse(stream[m + 1], Buffered)
                 /\ Expectation = ExpectAction(stream[m + 1], Buffered)
           /\ m = Len(stream) =>
                 /\ Expectation = "none"
                 /\ Buffered = 0 => Parsed = Partial
<1> DEFINE n == Len(stream)
<1>1. n \in Nat /\ DOMAIN stream = 1 .. n
  BY StreamFacts
<1>2. ASSUME NEW k \in 1 .. n, StartOf[k] = StartOf[m + 1] PROVE k = m + 1
  <2>1. m + 1 \in 1 .. n + 1 /\ k \in 1 .. n + 1 /\ k + 1 \in 1 .. n + 1
    BY <1>1
  <2>2. /\ StartOf[k] \in Nat /\ StartOf[k + 1] \in Nat /\ StartOf[m + 1] \in Nat
        /\ StartOf[k + 1] = StartOf[k] + Wire(stream[k]) /\ Wire(stream[k]) \in Nat /\ Wire(stream[k]) >= 4
    BY <2>1, StartFacts, StreamFacts, WireFacts
  <2>3. ~ (m + 1 > k)
    <3>1. SUFFICES ASSUME m + 1 > k PROVE FALSE
      OBVIOUS
    <3>2. m + 1 \in (k + 1) .. (n + 1)
      BY <1>1, <3>1
    <3>3. StartOf[k + 1] <= StartOf[m + 1]
      BY <2>1, <3>2, StartFacts
    <3>4. QED
      BY <1>2, <2>2, <3>3
  <2>4. ~ (m + 1 < k)
    <3>1. SUFFICES ASSUME m + 1 < k PROVE FALSE
      OBVIOUS
    <3>2. m + 1 \in 1 .. n /\ (m + 1) + 1 \in 1 .. n + 1 /\ k \in ((m + 1) + 1) .. (n + 1)
      BY <1>1, <3>1
    <3>3. /\ StartOf[(m + 1) + 1] = StartOf[m + 1] + Wire(stream[m + 1])
          /\ StartOf[(m + 1) + 1] <= StartOf[k]
          /\ Wire(stream[m + 1]) \in Nat /\ Wire(stream[m + 1]) >= 4
      BY <3>2, StartFacts, StreamFacts, WireFacts
    <3>4. QED
      BY <1>2, <2>2, <3>3
  <2>5. QED
    BY <1>1, <2>3, <2>4
<1>3. \A k \in DOMAIN stream : AtFront(k) => k = m + 1
  BY <1>1, <1>2 DEF AtFront
<1>4. CASE m < n
  <2>1. m + 1 \in 1 .. n /\ m # n
    <3>1. m \in 0 .. n
      OBVIOUS
    <3> HIDE DEF n
    <3>2. QED
      BY ONLY <1>1, <1>4, <3>1
  <2>2. m + 1 \in DOMAIN stream /\ AtFront(m + 1)
    BY <1>1, <2>1 DEF AtFront
  <2>3. (CHOOSE k \in DOMAIN stream : AtFront(k)) = m + 1
    BY <1>3, <2>2
  <2>4. QED
    BY <2>1, <2>2, <2>3 DEF Front, Parsed, Expectation
<1>5. CASE m = n
  <2>1. ~ \E k \in DOMAIN stream : AtFront(k)
    BY <1>1, <1>3, <1>5
  <2>2. ~ (m < n)
    BY <1>1, <1>5
  <2>3. QED
    BY <2>1, <2>2 DEF Parsed, Expectation
<1>6. QED
  BY <1>1, <1>4, <1>5

-----------------------------------------------------------------------------
(* The invariant. *)

\* The requests answered for good.
Served == Cardinality(Finals(Len(out)))

ResponseType == [req : DOMAIN stream, status : Nat, close : BOOLEAN]

Types ==
    /\ stream \in Streams
    /\ got \in Nat /\ base \in Nat /\ base <= got /\ got <= Total
    /\ continue_sent \in BOOLEAN /\ stepping \in BOOLEAN /\ closed \in BOOLEAN
    /\ out \in Seq(ResponseType)

\* While the connection is open, the buffer starts at the first request that
\* has no final response; what was returned for that one is at most a 100, and
\* continue_sent remembers it.
InStep ==
    ~ closed =>
        /\ Served \in 0 .. Len(stream)
        /\ base = StartOf[Served + 1]
        /\ \A i \in DOMAIN out :
              out[i].req <= Served \/ (out[i] = Response(Served + 1, 100, FALSE) /\ continue_sent)
        /\ continue_sent => \E i \in DOMAIN out : out[i] = Response(Served + 1, 100, FALSE)

\* What ended the last loop over step still holds.
Waiting ==
    ~ stepping /\ ~ closed =>
        /\ Parsed.kind = "partial"
        /\ Expectation = "continue" => continue_sent

ConnInv == Types /\ InStep /\ AnswersAsSent /\ InterimInPlace /\ Waiting

\* What one more response changes.
LEMMA WriteFacts ==
    ASSUME out \in Seq(ResponseType), NEW w \in ResponseType, Write(w), UNCHANGED stream
    PROVE  /\ out' \in Seq(ResponseType') /\ closed' = w.close
           /\ Len(out) \in Nat /\ DOMAIN out = 1 .. Len(out) /\ DOMAIN out' = 1 .. Len(out) + 1
           /\ \A i \in 1 .. Len(out) : out'[i] = out[i] /\ Finals(i)' = Finals(i)
           /\ out'[Len(out) + 1] = w
           /\ Served \in Nat
           /\ w.status = 100 => Served' = Served
           /\ w.status # 100 => Served' = Served + 1
           /\ Finals(Len(out))' = {j \in 1 .. Len(out) + 1 : out'[j].status # 100}
<1> DEFINE n == Len(out)
           after == {j \in 1 .. n + 1 : out'[j].status # 100}
<1>1. out' = Append(out, w) /\ closed' = w.close
  BY DEF Write
<1>2. n \in Nat /\ DOMAIN out = 1 .. n
  BY LenProperties
<1>3. /\ out' \in Seq(ResponseType) /\ Len(out') = n + 1 /\ out'[n + 1] = w
      /\ \A i \in 1 .. n : out'[i] = out[i]
  BY <1>1, AppendProperties
<1>4. DOMAIN out' = 1 .. n + 1 /\ out' \in Seq(ResponseType')
  BY <1>3, LenProperties DEF ResponseType
<1> HIDE DEF n
<1>5. ASSUME NEW i \in 1 .. n PROVE Finals(i)' = Finals(i)
  <2>1. \A j \in 1 .. i : out'[j] = out[j]
    BY <1>2, <1>3
  <2>2. QED
    BY <2>1 DEF Finals
<1>6. \A j \in 1 .. n : out'[j] = out[j]
  BY <1>3
<1>7. IsFiniteSet(Finals(n)) /\ Cardinality(Finals(n)) \in Nat /\ n + 1 \notin Finals(n)
  <2>1. IsFiniteSet(1 .. n)
    BY <1>2, FS_Interval
  <2>2. Finals(n) \subseteq 1 .. n
    BY DEF Finals
  <2>3. QED
    BY <1>2, <2>1, <2>2, FS_Subset, FS_CardinalityType
<1>8. Served = Cardinality(Finals(n)) /\ Finals(Len(out))' = after /\ Served' = Cardinality(after)
  BY <1>3 DEF Served, Finals, n
<1>9. 1 .. n + 1 = (1 .. n) \cup {n + 1}
  BY <1>2
<1>10. CASE w.status = 100
  <2>1. after = Finals(n)
    BY <1>3, <1>6, <1>9, <1>10 DEF Finals
  <2>2. QED
    BY <1>1, <1>2, <1>3, <1>4, <1>5, <1>7, <1>8, <1>10, <2>1 DEF n
<1>11. CASE w.status # 100
  <2>1. after = Finals(n) \cup {n + 1}
    BY <1>3, <1>6, <1>9, <1>11 DEF Finals
  <2>2. Cardinality(after) = Cardinality(Finals(n)) + 1
    BY <1>7, <2>1, FS_AddElement
  <2>3. QED
    BY <1>1, <1>2, <1>3, <1>4, <1>5, <1>7, <1>8, <1>11, <2>2 DEF n
<1>12. QED
  BY <1>10, <1>11

\* What the parser sees of an open connection.
LEMMA AtStep ==
    ASSUME Types, InStep, ~ closed
    PROVE  /\ Served \in Nat /\ Served <= Len(stream) /\ Len(stream) \in Nat /\ Buffered \in Nat
           /\ \/ /\ Served < Len(stream) /\ Served + 1 \in DOMAIN stream
                 /\ stream[Served + 1] \in Request /\ WellFormed(stream[Served + 1])
                 /\ Front = Served + 1
                 /\ Parsed = Parse(stream[Served + 1], Buffered)
                 /\ Expectation = ExpectAction(stream[Served + 1], Buffered)
              \/ /\ Served = Len(stream)
                 /\ Parsed = Partial /\ Expectation = "none"
<1>1. stream \in Streams /\ Served \in 0 .. Len(stream) /\ base = StartOf[Served + 1]
  BY DEF Types, InStep
<1>2. Len(stream) \in Nat /\ DOMAIN stream = 1 .. Len(stream)
  BY <1>1, StreamFacts
<1>3. Buffered \in Nat
  BY DEF Types, Buffered
<1> DEFINE m == Served
           n == Len(stream)
<1>4. m \in 0 .. n /\ base = StartOf[m + 1]
  BY <1>1
<1>5. Total = StartOf[n + 1]
  BY DEF Total
<1> HIDE DEF m, n
<1>6. n \in Nat /\ m \in Nat /\ m <= n /\ (m < n \/ m = n)
  <2>1. n \in Nat
    BY <1>2 DEF n
  <2>2. QED
    BY ONLY <1>4, <2>1
<1>7. CASE m < n
  <2>1. m + 1 \in 1 .. n
    BY ONLY <1>6, <1>7
  <2>2. stream[m + 1] \in Request /\ WellFormed(stream[m + 1])
    BY <1>1, <2>1, StreamFacts DEF n
  <2>3. /\ Front = m + 1
        /\ Parsed = Parse(stream[m + 1], Buffered)
        /\ Expectation = ExpectAction(stream[m + 1], Buffered)
    BY <1>1, <1>4, <1>7, FrontFacts DEF n
  <2>4. QED
    BY <1>2, <1>3, <1>6, <1>7, <2>1, <2>2, <2>3 DEF m, n
<1>8. CASE m = n
  <2>1. got <= base /\ base <= got /\ got \in Nat /\ base \in Nat
    BY <1>4, <1>5, <1>8 DEF Types
  <2>2. Buffered = 0
    BY <2>1 DEF Buffered
  <2>3. Parsed = Partial /\ Expectation = "none"
    BY <1>1, <1>4, <1>8, <2>2, FrontFacts DEF n
  <2>4. QED
    BY <1>2, <1>3, <1>6, <1>8, <2>3 DEF m, n
<1>9. QED
  BY <1>6, <1>7, <1>8

\* A final response to the request at the front keeps the order and the interim
\* responses in place.
LEMMA FinalWrite ==
    ASSUME Types, InStep, AnswersAsSent, InterimInPlace, ~ closed,
           NEW w \in ResponseType, w.req = Served + 1, w.status # 100,
           SegmentationDependent(stream[Served + 1]) \/ w = Due(Served + 1),
           Write(w), UNCHANGED stream
    PROVE  AnswersAsSent' /\ InterimInPlace'
<1> DEFINE n == Len(out)
<1>1. out \in Seq(ResponseType)
  BY DEF Types
<1>2. /\ n \in Nat /\ DOMAIN out = 1 .. n /\ DOMAIN out' = 1 .. n + 1
      /\ \A i \in 1 .. n : out'[i] = out[i] /\ Finals(i)' = Finals(i)
      /\ out'[n + 1] = w
      /\ Len(out') = n + 1 /\ Served' = Served + 1
  BY <1>1, WriteFacts, LenProperties
<1>3. \A i \in 1 .. n + 1 : i \in 1 .. n \/ i = n + 1
  BY <1>2
<1>4. \A k : Due(k)' = Due(k)
  BY DEF Due
<1> HIDE DEF n
<1>5. ASSUME NEW i \in DOMAIN out', out'[i].status # 100
      PROVE  \A k : k = out'[i].req =>
                /\ k = Cardinality(Finals(i)')
                /\ SegmentationDependent(stream'[k]) \/ out'[i] = Due(k)'
  <2>1. CASE i \in 1 .. n
    BY <1>2, <1>4, <1>5, <2>1 DEF AnswersAsSent
  <2>2. CASE i = n + 1
    <3>1. Finals(i)' = Finals(Len(out))'
      BY <1>2, <2>2 DEF Finals
    <3>2. QED
      BY <1>2, <1>4, <2>2, <3>1 DEF Served
  <2>3. QED
    BY <1>2, <1>3, <2>1, <2>2
<1>6. ASSUME NEW i \in DOMAIN out', out'[i].status = 100
      PROVE  /\ stream'[out'[i].req].expect = "continue"
             /\ \A j \in DOMAIN out' \ {i} : out'[j].req = out'[i].req => j > i /\ out'[j].status # 100
             /\ stream'[out'[i].req].framing = "fixed" => Defect(stream'[out'[i].req]) = "none"
  <2>1. i \in 1 .. n
    BY <1>2, <1>3, <1>6
  <2>2. out'[i] = out[i] /\ i < n + 1
    BY <1>2, <2>1
  <2>3. /\ stream[out[i].req].expect = "continue"
        /\ \A j \in (1 .. n) \ {i} : out[j].req = out[i].req => j > i /\ out[j].status # 100
        /\ stream[out[i].req].framing = "fixed" => Defect(stream[out[i].req]) = "none"
    BY <1>2, <1>6, <2>1, <2>2 DEF InterimInPlace
  <2>4. ASSUME NEW j \in DOMAIN out' \ {i}, out'[j].req = out'[i].req
        PROVE  j > i /\ out'[j].status # 100
    <3>1. CASE j \in 1 .. n
      BY <1>2, <2>2, <2>3, <2>4, <3>1
    <3>2. CASE j = n + 1
      BY <1>2, <2>1, <3>2
    <3>3. QED
      BY <1>2, <1>3, <3>1, <3>2
  <2>5. QED
    BY <2>2, <2>3, <2>4
<1>7. AnswersAsSent'
  BY <1>5 DEF AnswersAsSent, Due
<1>8. InterimInPlace'
  BY <1>6 DEF InterimInPlace
<1>9. QED
  BY <1>7, <1>8

\* So does a 100 to the request at the front, the first it gets.
LEMMA InterimWrite ==
    ASSUME Types, InStep, AnswersAsSent, InterimInPlace, ~ closed, ~ continue_sent,
           NEW w \in ResponseType, w.req = Served + 1, w.status = 100,
           stream[Served + 1].expect = "continue",
           stream[Served + 1].framing = "fixed" => Defect(stream[Served + 1]) = "none",
           Write(w), UNCHANGED stream
    PROVE  AnswersAsSent' /\ InterimInPlace'
<1> DEFINE n == Len(out)
<1>1. out \in Seq(ResponseType)
  BY DEF Types
<1>2. /\ n \in Nat /\ DOMAIN out = 1 .. n /\ DOMAIN out' = 1 .. n + 1
      /\ \A i \in 1 .. n : out'[i] = out[i] /\ Finals(i)' = Finals(i)
      /\ out'[n + 1] = w
      /\ Served \in Nat
  BY <1>1, WriteFacts
<1>3. \A i \in 1 .. n + 1 : i \in 1 .. n \/ i = n + 1
  BY <1>2
<1>4. \A k : Due(k)' = Due(k)
  BY DEF Due
<1> HIDE DEF n
<1>5. \A i \in 1 .. n : out[i].req # Served + 1
  <2>1. \A i \in 1 .. n : out[i].req <= Served
    BY <1>2 DEF InStep
  <2>2. \A i \in 1 .. n : out[i].req \in Nat
    <3>1. DOMAIN stream \subseteq Nat
      BY StreamFacts DEF Types
    <3>2. \A i \in 1 .. n : out[i] \in ResponseType
      BY <1>1, ElementOfSeq DEF n
    <3>3. QED
      BY <3>1, <3>2 DEF ResponseType
  <2>3. QED
    BY <1>2, <2>1, <2>2
<1>6. ASSUME NEW i \in DOMAIN out', out'[i].status # 100
      PROVE  \A k : k = out'[i].req =>
                /\ k = Cardinality(Finals(i)')
                /\ SegmentationDependent(stream'[k]) \/ out'[i] = Due(k)'
  <2>1. i \in 1 .. n
    BY <1>2, <1>3, <1>6
  <2>2. QED
    BY <1>2, <1>4, <1>6, <2>1 DEF AnswersAsSent
<1>7. ASSUME NEW i \in DOMAIN out', out'[i].status = 100
      PROVE  /\ stream'[out'[i].req].expect = "continue"
             /\ \A j \in DOMAIN out' \ {i} : out'[j].req = out'[i].req => j > i /\ out'[j].status # 100
             /\ stream'[out'[i].req].framing = "fixed" => Defect(stream'[out'[i].req]) = "none"
  <2>1. CASE i = n + 1
    <3>1. \A j \in DOMAIN out' \ {i} : out'[j].req # Served + 1
      BY <1>2, <1>3, <1>5, <2>1
    <3>2. QED
      BY <1>2, <2>1, <3>1
  <2>2. CASE i \in 1 .. n
    <3>1. out'[i] = out[i]
      BY <1>2, <2>2
    <3>2. /\ stream[out[i].req].expect = "continue"
          /\ \A j \in (1 .. n) \ {i} : out[j].req = out[i].req => j > i /\ out[j].status # 100
          /\ stream[out[i].req].framing = "fixed" => Defect(stream[out[i].req]) = "none"
      BY <1>2, <1>7, <2>2, <3>1 DEF InterimInPlace
    <3>3. ASSUME NEW j \in DOMAIN out' \ {i}, out'[j].req = out'[i].req
          PROVE  j > i /\ out'[j].status # 100
      <4>1. j # n + 1
        BY <1>2, <1>5, <2>2, <3>1, <3>3
      <4>2. j \in 1 .. n
        BY <1>2, <1>3, <4>1
      <4>3. QED
        BY <1>2, <3>1, <3>2, <3>3, <4>2
    <3>4. QED
      BY <3>1, <3>2, <3>3
  <2>3. QED
    BY <1>2, <1>3, <2>1, <2>2
<1>8. AnswersAsSent'
  BY <1>6 DEF AnswersAsSent, Due
<1>9. InterimInPlace'
  BY <1>7 DEF InterimInPlace
<1>10. QED
  BY <1>8, <1>9

\* What step finds at the front of an open connection.
LEMMA StepOutcome ==
    ASSUME Types, InStep, ~ closed
    PROVE  /\ Parsed.kind = "partial" /\ Expectation # "none" =>
                 /\ Served + 1 \in DOMAIN stream /\ Front = Served + 1
                 /\ stream[Served + 1].expect = Expectation
                 /\ stream[Served + 1].framing = "fixed" => Defect(stream[Served + 1]) = "none"
           /\ Parsed.kind = "partial" /\ Served < Len(stream) => Buffered < Wire(stream[Served + 1])
           /\ Parsed.kind = "complete" =>
                 /\ Served + 1 \in DOMAIN stream /\ Front = Served + 1
                 /\ Parsed.consumed = Wire(stream[Served + 1]) /\ Wire(stream[Served + 1]) <= Buffered
                 /\ Defect(stream[Served + 1]) = "none"
           /\ Parsed.kind = "error" =>
                 /\ Served + 1 \in DOMAIN stream /\ Front = Served + 1
                 /\ Parsed.error \in Errors
                 /\ Defect(stream[Served + 1]) = Parsed.error \/ SegmentationDependent(stream[Served + 1])
<1> DEFINE r == stream[Served + 1]
<1>1. Buffered \in Nat
  BY AtStep
<1>2. CASE /\ Served < Len(stream) /\ Served + 1 \in DOMAIN stream
           /\ r \in Request /\ WellFormed(r) /\ Front = Served + 1
           /\ Parsed = Parse(r, Buffered) /\ Expectation = ExpectAction(r, Buffered)
  <2>1. HeadEnd(r) \in Nat
    BY <1>2, RequestTypes
  <2>2. Expectation # "none" => Expectation = r.expect /\ Buffered >= HeadEnd(r)
    BY <1>1, <1>2, <2>1 DEF ExpectAction
  <2> HIDE DEF r
  <2>3. CASE /\ Parsed = Partial /\ Buffered < Wire(r)
             /\ Buffered >= HeadEnd(r) /\ r.framing = "fixed" => Defect(r) = "none"
    <3>1. Parsed.kind = "partial"
      BY <2>3 DEF Partial
    <3>2. QED
      BY <1>2, <2>2, <2>3, <3>1 DEF r
  <2>4. CASE Parsed = Complete(Wire(r)) /\ Wire(r) <= Buffered /\ Defect(r) = "none"
    <3>1. Parsed.kind = "complete" /\ Parsed.consumed = Wire(r)
      BY <2>4 DEF Complete
    <3>2. QED
      BY <1>2, <2>4, <3>1 DEF r
  <2>5. CASE \E error \in Errors : Parsed = Failed(error) /\ (Defect(r) = error \/ SegmentationDependent(r))
    <3>1. Parsed.kind = "error" /\ Parsed.error \in Errors /\ (Defect(r) = Parsed.error \/ SegmentationDependent(r))
      BY <2>5 DEF Failed
    <3>2. QED
      BY <1>2, <3>1 DEF r
  <2>6. QED
    BY <1>1, <1>2, <2>3, <2>4, <2>5, ParseOutcome
<1>3. CASE Served = Len(stream) /\ Parsed = Partial /\ Expectation = "none"
  <2>1. Parsed.kind = "partial" /\ ~ (Served < Len(stream))
    <3>1. Parsed.kind = "partial"
      BY <1>3 DEF Partial
    <3>2. ~ (Served < Len(stream))
      BY <1>3, AtStep
    <3>3. QED
      BY <3>1, <3>2
  <2>2. QED
    BY <1>3, <2>1
<1>4. QED
  BY <1>2, <1>3, AtStep

LEMMA ErrorStatusFacts ==
    ASSUME NEW error PROVE ErrorStatus(error) \in Nat /\ ErrorStatus(error) # 100
BY DEF ErrorStatus

-----------------------------------------------------------------------------
(* Every step keeps the invariant. *)

LEMMA InitInv == Init => ConnInv
<1> SUFFICES ASSUME Init PROVE ConnInv
  OBVIOUS
<1>1. stream \in Streams /\ got = 0 /\ base = 0 /\ out = <<>> /\ closed = FALSE /\ continue_sent = FALSE /\ stepping = FALSE
  BY DEF Init
<1>2. Len(stream) \in Nat /\ Len(stream) + 1 \in 1 .. Len(stream) + 1
  BY <1>1, StreamFacts
<1>3. StartOf[1] = 0 /\ Total \in Nat
  BY <1>1, <1>2, StartFacts DEF Total
<1>4. Types
  <2>1. out \in Seq(ResponseType)
    BY <1>1, EmptySeq
  <2>2. got \in Nat /\ base \in Nat /\ base <= got /\ got <= Total
    BY <1>1, <1>3
  <2>3. QED
    BY <1>1, <2>1, <2>2 DEF Types
<1>5. Finals(Len(out)) = {} /\ DOMAIN out = {}
  BY <1>1 DEF Finals
<1>6. Served = 0
  BY <1>5, FS_EmptySet DEF Served
<1>7. InStep
  BY <1>1, <1>2, <1>3, <1>5, <1>6 DEF InStep
<1>8. AnswersAsSent /\ InterimInPlace
  BY <1>5 DEF AnswersAsSent, InterimInPlace
<1>9. Waiting
  <2>1. Buffered = 0
    BY <1>1 DEF Buffered
  <2>2. CASE /\ stream[Served + 1] \in Request
             /\ Parsed = Parse(stream[Served + 1], Buffered)
             /\ Expectation = ExpectAction(stream[Served + 1], Buffered)
    <3>1. HeadEnd(stream[Served + 1]) \in Nat /\ HeadEnd(stream[Served + 1]) >= 4
      BY <2>2, RequestTypes
    <3>2. 0 < HeadEnd(stream[Served + 1]) /\ ~ (0 > MaxHead)
      BY <3>1, LimitAssumption
    <3>3. QED
      BY <2>1, <2>2, <3>2 DEF Waiting, Parse, ExpectAction, Partial
  <2>3. CASE Parsed = Partial /\ Expectation = "none"
    BY <2>3 DEF Waiting, Partial
  <2>4. QED
    BY <1>1, <1>4, <1>7, <2>2, <2>3, AtStep
<1>10. QED
  BY <1>4, <1>7, <1>8, <1>9 DEF ConnInv

\* A step that returns no response leaves what was returned in place.
LEMMA NoResponse ==
    ASSUME UNCHANGED <<stream, out>>
    PROVE  /\ AnswersAsSent => AnswersAsSent'
           /\ InterimInPlace => InterimInPlace'
           /\ Served' = Served /\ StartOf' = StartOf /\ Total' = Total /\ ResponseType' = ResponseType
<1>1. \A i : Finals(i)' = Finals(i)
  BY DEF Finals
<1>2. \A k : Due(k)' = Due(k)
  BY DEF Due
<1>3. Served' = Served
  BY DEF Served, Finals
<1>4. AnswersAsSent => AnswersAsSent'
  BY <1>1, <1>2 DEF AnswersAsSent
<1>5. InterimInPlace => InterimInPlace'
  BY DEF InterimInPlace
<1>6. StartOf' = StartOf /\ Total' = Total
  BY DEF StartOf, Total
<1>7. QED
  BY <1>3, <1>4, <1>5, <1>6 DEF ResponseType

LEMMA FeedInv ==
    ASSUME ConnInv, NEW n \in 1 .. Total - got, Feed(n) PROVE ConnInv'
<1>1. Types /\ InStep /\ AnswersAsSent /\ InterimInPlace
  BY DEF ConnInv
<1>2. /\ got + n <= Total /\ got' = got + n /\ stepping' = TRUE
      /\ UNCHANGED <<stream, base, continue_sent, closed, out>>
  BY DEF Feed
<1>3. /\ AnswersAsSent' /\ InterimInPlace'
      /\ Served' = Served /\ StartOf' = StartOf /\ Total' = Total /\ ResponseType' = ResponseType
  BY <1>1, <1>2, NoResponse
<1>4. Types'
  <2>1. stream \in Streams /\ got \in Nat /\ base \in Nat /\ base <= got
    BY <1>1 DEF Types
  <2>2. Total \in Nat
    BY <2>1, StreamFacts, StartFacts DEF Total
  <2>3. got' \in Nat /\ base <= got'
    BY <1>2, <2>1, <2>2
  <2>4. QED
    BY <1>1, <1>2, <1>3, <2>3 DEF Types
<1>5. InStep'
  BY <1>1, <1>2, <1>3 DEF InStep
<1>6. Waiting'
  BY <1>2 DEF Waiting
<1>7. QED
  BY <1>3, <1>4, <1>5, <1>6 DEF ConnInv

LEMMA NeedMoreInv ==
    ASSUME ConnInv, StepNeedMore PROVE ConnInv'
<1>1. Types /\ InStep /\ AnswersAsSent /\ InterimInPlace
  BY DEF ConnInv
<1>2. /\ Parsed.kind = "partial" /\ (Expectation = "continue" => continue_sent)
      /\ stepping' = FALSE /\ UNCHANGED <<stream, got, base, continue_sent, closed, out>>
  BY DEF StepNeedMore
<1>3. /\ AnswersAsSent' /\ InterimInPlace'
      /\ Served' = Served /\ StartOf' = StartOf /\ Total' = Total /\ ResponseType' = ResponseType
  BY <1>1, <1>2, NoResponse
<1>4. Types'
  BY <1>1, <1>2, <1>3 DEF Types
<1>5. InStep'
  BY <1>1, <1>2, <1>3 DEF InStep
<1>6. Parsed' = Parsed /\ Expectation' = Expectation
  <2>1. Buffered' = Buffered
    BY <1>2 DEF Buffered
  <2>2. \A k : AtFront(k)' <=> AtFront(k)
    BY <1>2, <1>3 DEF AtFront
  <2>3. QED
    BY <1>2, <2>1, <2>2 DEF Parsed, Expectation
<1>7. Waiting'
  BY <1>2, <1>6 DEF Waiting
<1>8. QED
  BY <1>3, <1>4, <1>5, <1>7 DEF ConnInv

\* A response leaves the types alone, whatever it drains from the buffer.
LEMMA WriteTypes ==
    ASSUME Types, NEW w \in ResponseType, Write(w), UNCHANGED <<stream, got>>,
           base' \in Nat, base' <= got, continue_sent' \in BOOLEAN, stepping' \in BOOLEAN
    PROVE  Types' /\ StartOf' = StartOf
<1>1. out \in Seq(ResponseType) /\ w.close \in BOOLEAN
  BY DEF Types, ResponseType
<1>2. out' \in Seq(ResponseType') /\ closed' = w.close
  BY <1>1, WriteFacts
<1>3. StartOf' = StartOf /\ Total' = Total
  BY DEF StartOf, Total
<1>4. QED
  BY <1>1, <1>2, <1>3 DEF Types

LEMMA ResponseTyped ==
    ASSUME NEW k \in DOMAIN stream, NEW status \in Nat, NEW close \in BOOLEAN
    PROVE  /\ Response(k, status, close) \in ResponseType
           /\ Response(k, status, close).req = k
           /\ Response(k, status, close).status = status
           /\ Response(k, status, close).close = close
BY DEF Response, ResponseType

\* The response closes the connection, so that nothing more is asked of it.
LEMMA ClosingInv ==
    ASSUME ConnInv, ~ closed, Served + 1 \in DOMAIN stream,
           NEW status \in Nat, status # 100,
           \/ SegmentationDependent(stream[Served + 1])
           \/ Response(Served + 1, status, TRUE) = Due(Served + 1),
           Write(Response(Served + 1, status, TRUE)),
           UNCHANGED <<stream, got, base, continue_sent, stepping>>
    PROVE  ConnInv'
<1> DEFINE w == Response(Served + 1, status, TRUE)
<1>1. Types /\ InStep /\ AnswersAsSent /\ InterimInPlace
  BY DEF ConnInv
<1>2. w \in ResponseType /\ w.req = Served + 1 /\ w.status = status /\ w.close = TRUE
  BY ResponseTyped
<1>3. w.status # 100 /\ (SegmentationDependent(stream[Served + 1]) \/ w = Due(Served + 1)) /\ Write(w)
  BY <1>2
<1> HIDE DEF w
<1>4. AnswersAsSent' /\ InterimInPlace'
  BY <1>1, <1>2, <1>3, FinalWrite
<1>5. Types'
  <2>1. base' \in Nat /\ base' <= got /\ continue_sent' \in BOOLEAN /\ stepping' \in BOOLEAN
    BY <1>1 DEF Types
  <2>2. QED
    BY <1>1, <1>2, <1>3, <2>1, WriteTypes
<1>6. closed' = TRUE
  BY <1>2, <1>3 DEF Write
<1>7. QED
  BY <1>4, <1>5, <1>6 DEF ConnInv, InStep, Waiting

LEMMA RefuseInv ==
    ASSUME ConnInv, StepRefuse PROVE ConnInv'
<1>1. /\ ~ closed /\ Parsed.kind = "partial" /\ Expectation = "unsupported"
      /\ Write(Response(Front, 417, TRUE))
      /\ UNCHANGED <<stream, got, base, continue_sent, stepping>>
  BY DEF StepRefuse
<1>2. /\ Served + 1 \in DOMAIN stream /\ Front = Served + 1
      /\ stream[Served + 1].expect = "unsupported"
  BY <1>1, StepOutcome DEF ConnInv
<1> DEFINE status == 417
<1>3. SegmentationDependent(stream[Served + 1]) /\ Write(Response(Served + 1, status, TRUE))
  BY <1>1, <1>2 DEF SegmentationDependent
<1>4. status \in Nat /\ status # 100
  OBVIOUS
<1> HIDE DEF status
<1>5. QED
  BY <1>1, <1>2, <1>3, <1>4, ClosingInv

LEMMA ErrorInv ==
    ASSUME ConnInv, StepError PROVE ConnInv'
<1>1. /\ ~ closed /\ Parsed.kind = "error"
      /\ Write(Response(Front, ErrorStatus(Parsed.error), TRUE))
      /\ UNCHANGED <<stream, got, base, continue_sent, stepping>>
  BY DEF StepError
<1>2. /\ Served + 1 \in DOMAIN stream /\ Front = Served + 1
      /\ Parsed.error \in Errors
      /\ Defect(stream[Served + 1]) = Parsed.error \/ SegmentationDependent(stream[Served + 1])
  BY <1>1, StepOutcome DEF ConnInv
<1> DEFINE status == ErrorStatus(Parsed.error)
<1>3. status \in Nat /\ status # 100
  BY ErrorStatusFacts
<1>4. Parsed.error # "none"
  BY <1>2 DEF Errors, HeadFaults
<1>5. SegmentationDependent(stream[Served + 1]) \/ Response(Served + 1, status, TRUE) = Due(Served + 1)
  BY <1>2, <1>4 DEF Due
<1>6. Write(Response(Served + 1, status, TRUE))
  BY <1>1, <1>2
<1> HIDE DEF status
<1>7. QED
  BY <1>1, <1>2, <1>3, <1>5, <1>6, ClosingInv

LEMMA ContinueInv ==
    ASSUME ConnInv, StepContinue PROVE ConnInv'
<1> DEFINE w == Response(Served + 1, 100, FALSE)
           n == Len(out)
<1>1. Types /\ InStep /\ AnswersAsSent /\ InterimInPlace
  BY DEF ConnInv
<1>2. /\ stepping /\ ~ closed /\ Parsed.kind = "partial" /\ Expectation = "continue" /\ ~ continue_sent
      /\ continue_sent' = TRUE /\ Write(Response(Front, 100, FALSE))
      /\ UNCHANGED <<stream, got, base, stepping>>
  BY DEF StepContinue
<1>3. /\ Served + 1 \in DOMAIN stream /\ Front = Served + 1
      /\ stream[Served + 1].expect = "continue"
      /\ stream[Served + 1].framing = "fixed" => Defect(stream[Served + 1]) = "none"
  BY <1>1, <1>2, StepOutcome
<1>4. w \in ResponseType /\ w.req = Served + 1 /\ w.status = 100 /\ w.close = FALSE /\ Write(w)
  BY <1>2, <1>3, ResponseTyped, ZenonT(40)
<1>5. out \in Seq(ResponseType) /\ Served \in 0 .. Len(stream) /\ base = StartOf[Served + 1]
  BY <1>1, <1>2 DEF Types, InStep
<1>6. \A i \in DOMAIN out : out[i].req <= Served
  BY <1>1, <1>2 DEF InStep
<1> HIDE DEF w
<1>7. AnswersAsSent' /\ InterimInPlace'
  BY <1>1, <1>2, <1>3, <1>4, InterimWrite
<1>8. Types' /\ StartOf' = StartOf
  <2>1. base' \in Nat /\ base' <= got /\ continue_sent' \in BOOLEAN /\ stepping' \in BOOLEAN
    BY <1>1, <1>2 DEF Types
  <2>2. QED
    BY <1>1, <1>2, <1>4, <2>1, WriteTypes
<1>9. /\ n \in Nat /\ DOMAIN out = 1 .. n /\ DOMAIN out' = 1 .. n + 1
      /\ \A i \in 1 .. n : out'[i] = out[i]
      /\ out'[n + 1] = w /\ Served' = Served
  BY <1>2, <1>4, <1>5, WriteFacts
<1>10. \A i \in 1 .. n + 1 : i \in 1 .. n \/ i = n + 1
  BY <1>9
<1>11. n + 1 \in DOMAIN out'
  BY <1>9
<1> HIDE DEF n
<1>12. \A i \in DOMAIN out' : out'[i].req <= Served \/ out'[i] = w
  BY <1>6, <1>9, <1>10
<1>13. w = Response(Served' + 1, 100, FALSE)
  BY <1>9 DEF w
<1>14. /\ Served' \in 0 .. Len(stream') /\ base' = StartOf'[Served' + 1]
       /\ \A i \in DOMAIN out' :
             out'[i].req <= Served' \/ (out'[i] = Response(Served' + 1, 100, FALSE) /\ continue_sent')
       /\ \E i \in DOMAIN out' : out'[i] = Response(Served' + 1, 100, FALSE)
  <2>1. Served' \in 0 .. Len(stream') /\ base' = StartOf'[Served' + 1]
    BY <1>2, <1>5, <1>8, <1>9
  <2>2. QED
    BY <1>2, <1>9, <1>11, <1>12, <1>13, <2>1
<1>15. InStep'
  BY <1>14 DEF InStep, Response
<1>16. Waiting'
  BY <1>2 DEF Waiting
<1>17. QED
  BY <1>7, <1>8, <1>15, <1>16 DEF ConnInv

LEMMA CompleteInv ==
    ASSUME ConnInv, StepComplete PROVE ConnInv'
<1> DEFINE close == ~ KeepAlive(stream[Served + 1])
           w == Response(Served + 1, Answered, close)
           n == Len(out)
<1>1. Types /\ InStep /\ AnswersAsSent /\ InterimInPlace
  BY DEF ConnInv
<1>2. /\ stepping /\ ~ closed /\ Parsed.kind = "complete"
      /\ base' = base + Parsed.consumed /\ continue_sent' = FALSE
      /\ Write(Response(Front, Answered, ~ KeepAlive(stream[Front])))
      /\ UNCHANGED <<stream, got, stepping>>
  BY DEF StepComplete
<1>3. /\ Served + 1 \in DOMAIN stream /\ Front = Served + 1
      /\ Parsed.consumed = Wire(stream[Served + 1]) /\ Wire(stream[Served + 1]) <= Buffered
      /\ Defect(stream[Served + 1]) = "none"
  BY <1>1, <1>2, StepOutcome
<1>4. close \in BOOLEAN /\ Answered \in Nat /\ Answered # 100
  BY DEF Answered, KeepAlive
<1>5. w \in ResponseType /\ w.req = Served + 1 /\ w.status # 100 /\ w.close = close
  <2> HIDE DEF close
  <2>1. QED
    BY <1>3, <1>4, ResponseTyped
<1>6. Write(w) /\ w = Due(Served + 1)
  BY <1>2, <1>3 DEF Due
<1>7. out \in Seq(ResponseType) /\ Served \in 0 .. Len(stream) /\ base = StartOf[Served + 1]
  BY <1>1, <1>2 DEF Types, InStep
<1>8. \A i \in DOMAIN out : out[i].req <= Served \/ out[i] = Response(Served + 1, 100, FALSE)
  BY <1>1, <1>2 DEF InStep
<1>9. stream \in Streams /\ Len(stream) \in Nat /\ DOMAIN stream = 1 .. Len(stream)
  BY <1>1, StreamFacts DEF Types
<1> HIDE DEF w, close
<1>10. AnswersAsSent' /\ InterimInPlace'
  BY <1>1, <1>2, <1>5, <1>6, FinalWrite
<1>11. base' = StartOf[(Served + 1) + 1]
  BY <1>2, <1>3, <1>7, <1>9, StartFacts
<1>12. Types' /\ StartOf' = StartOf
  <2>1. Wire(stream[Served + 1]) \in Nat
    BY <1>3, <1>9, StreamFacts
  <2>2. base \in Nat /\ got \in Nat /\ Buffered = got - base
    BY <1>1 DEF Types, Buffered
  <2>3. base' \in Nat /\ base' <= got
    BY <1>2, <1>3, <2>1, <2>2
  <2>4. continue_sent' \in BOOLEAN /\ stepping' \in BOOLEAN
    BY <1>1, <1>2 DEF Types
  <2>5. QED
    BY <1>1, <1>2, <1>5, <1>6, <2>3, <2>4, WriteTypes
<1>13. /\ n \in Nat /\ DOMAIN out = 1 .. n /\ DOMAIN out' = 1 .. n + 1
       /\ \A i \in 1 .. n : out'[i] = out[i]
       /\ out'[n + 1] = w /\ Served' = Served + 1 /\ Served \in Nat
  BY <1>2, <1>5, <1>6, <1>7, WriteFacts
<1>14. \A i \in 1 .. n + 1 : i \in 1 .. n \/ i = n + 1
  BY <1>13
<1> HIDE DEF n
<1>15. ASSUME NEW i \in DOMAIN out' PROVE out'[i].req <= Served'
  <2>1. CASE i = n + 1
    BY <1>5, <1>13, <2>1
  <2>2. CASE i \in 1 .. n /\ out[i] = Response(Served + 1, 100, FALSE)
    <3>1. out[i].req = Served + 1
      BY <2>2 DEF Response
    <3>2. out'[i] = out[i]
      BY <1>13, <2>2
    <3>3. Served' = Served + 1 /\ Served' \in Nat
      BY <1>13
    <3>4. out'[i].req = Served'
      BY <3>1, <3>2, <3>3
    <3>5. QED
      BY <3>3, <3>4
  <2>3. CASE i \in 1 .. n /\ out[i].req <= Served
    <3>1. out[i].req \in Nat
      <4>1. out[i] \in ResponseType
        BY <1>7, <2>3, ElementOfSeq DEF n
      <4>2. QED
        BY <1>9, <4>1 DEF ResponseType
    <3>2. QED
      BY <1>13, <2>3, <3>1
  <2>4. QED
    BY <1>8, <1>13, <1>14, <2>1, <2>2, <2>3
<1>16. /\ Served' \in 0 .. Len(stream') /\ base' = StartOf'[Served' + 1]
       /\ \A i \in DOMAIN out' : out'[i].req <= Served'
  <2>1. Served + 1 \in 0 .. Len(stream)
    BY <1>3, <1>9
  <2>2. QED
    BY <1>2, <1>11, <1>12, <1>13, <1>15, <2>1
<1>17. InStep'
  BY <1>2, <1>16 DEF InStep
<1>18. Waiting'
  BY <1>2 DEF Waiting
<1>19. QED
  BY <1>10, <1>12, <1>17, <1>18 DEF ConnInv

LEMMA StepInv == ConnInv /\ [Next]_vars => ConnInv'
<1> SUFFICES ASSUME ConnInv, [Next]_vars PROVE ConnInv'
  OBVIOUS
<1>1. CASE \E n \in 1 .. Total - got : Feed(n)
  BY <1>1, FeedInv
<1>2. CASE StepContinue
  BY <1>2, ContinueInv
<1>3. CASE StepRefuse
  BY <1>3, RefuseInv
<1>4. CASE StepNeedMore
  BY <1>4, NeedMoreInv
<1>5. CASE StepComplete
  BY <1>5, CompleteInv
<1>6. CASE StepError
  BY <1>6, ErrorInv
<1>7. CASE UNCHANGED vars
  <2>1. UNCHANGED <<stream, got, base, continue_sent, stepping, closed, out>>
    BY <1>7 DEF vars
  <2>2. Types /\ InStep /\ AnswersAsSent /\ InterimInPlace /\ Waiting
    BY DEF ConnInv
  <2>3. /\ AnswersAsSent' /\ InterimInPlace'
        /\ Served' = Served /\ StartOf' = StartOf /\ Total' = Total /\ ResponseType' = ResponseType
    BY <2>1, <2>2, NoResponse
  <2>4. Types'
    BY <2>1, <2>2, <2>3 DEF Types
  <2>5. InStep'
    BY <2>1, <2>2, <2>3 DEF InStep
  <2>6. Buffered' = Buffered /\ \A k : AtFront(k)' <=> AtFront(k)
    BY <2>1, <2>3 DEF Buffered, AtFront
  <2>7. Parsed' = Parsed /\ Expectation' = Expectation
    BY <2>1, <2>6 DEF Parsed, Expectation
  <2>8. Waiting'
    BY <2>1, <2>2, <2>7 DEF Waiting
  <2>9. QED
    BY <2>3, <2>4, <2>5, <2>8 DEF ConnInv
<1>8. QED
  BY <1>1, <1>2, <1>3, <1>4, <1>5, <1>6, <1>7 DEF Next, Step

LEMMA ConnectionInvariant == Spec => []ConnInv
BY InitInv, StepInv, PTL DEF Spec

\* A client that withholds a body has been sent its 100 Continue by the time
\* the connection waits for bytes.
LEMMA NobodyWaits ==
    ASSUME Types, InStep, Waiting, ~ stepping, ~ closed
    PROVE  ~ Withheld
<1> DEFINE m == Served
           n == Len(stream)
<1>1. SUFFICES ASSUME Withheld PROVE FALSE
  OBVIOUS
<1>2. PICK k \in DOMAIN stream :
          /\ stream[k].expect = "continue"
          /\ got = StartOf[k] + HeadEnd(stream[k])
          /\ got < StartOf[k + 1]
          /\ \A i \in DOMAIN out : out[i] # Response(k, 100, FALSE)
  BY <1>1 DEF Withheld
<1>3. Parsed.kind = "partial" /\ (Expectation = "continue" => continue_sent)
  BY DEF Waiting
<1>4. stream \in Streams /\ got \in Nat /\ base \in Nat /\ base <= got /\ Buffered = got - base
  BY DEF Types, Buffered
<1>5. m \in 0 .. n /\ base = StartOf[m + 1] /\ n \in Nat /\ k \in 1 .. n
  BY <1>4, StreamFacts DEF InStep
<1>6. m < n => Buffered < Wire(stream[m + 1])
  BY <1>3, StepOutcome
<1>7. m < n => Expectation = ExpectAction(stream[m + 1], Buffered)
  BY <1>4, <1>5, FrontFacts
<1>8. continue_sent => \E i \in DOMAIN out : out[i] = Response(m + 1, 100, FALSE)
  BY DEF InStep
<1>9. /\ \A i \in 1 .. n + 1 : StartOf[i] \in Nat
      /\ \A i \in 1 .. n : StartOf[i + 1] = StartOf[i] + Wire(stream[i])
      /\ \A i \in 1 .. n + 1 : \A j \in i .. n + 1 : StartOf[i] <= StartOf[j]
  BY <1>4, StartFacts
<1>10. /\ HeadEnd(stream[k]) \in Nat
       /\ \A i \in 1 .. n : Wire(stream[i]) \in Nat
  BY <1>4, <1>5, StreamFacts, RequestTypes
<1> HIDE DEF m, n
<1>11. ~ (k < m + 1)
  <2>1. SUFFICES ASSUME k < m + 1 PROVE FALSE
    OBVIOUS
  <2>2. k + 1 \in 1 .. n + 1 /\ m + 1 \in (k + 1) .. (n + 1)
    BY ONLY <1>5, <2>1
  <2>3. StartOf[k + 1] <= base /\ StartOf[k + 1] \in Nat
    BY <1>5, <1>9, <2>2
  <2>4. QED
    BY ONLY <1>2, <1>4, <2>3
<1>12. ~ (k > m + 1)
  <2>1. SUFFICES ASSUME k > m + 1 PROVE FALSE
    OBVIOUS
  <2>2. m < n /\ m + 1 \in 1 .. n /\ (m + 1) + 1 \in 1 .. n + 1 /\ k \in ((m + 1) + 1) .. (n + 1) /\ k \in 1 .. n + 1
    BY ONLY <1>5, <2>1
  <2>3. /\ StartOf[(m + 1) + 1] = base + Wire(stream[m + 1]) /\ StartOf[(m + 1) + 1] <= StartOf[k]
        /\ Wire(stream[m + 1]) \in Nat /\ StartOf[k] \in Nat
        /\ got - base < Wire(stream[m + 1])
    BY <1>4, <1>5, <1>6, <1>9, <1>10, <2>2
  <2>4. QED
    BY ONLY <1>2, <1>4, <1>10, <2>3
<1>13. k = m + 1 /\ m < n
  BY ONLY <1>5, <1>11, <1>12
<1>14. ~ (Buffered < HeadEnd(stream[k]))
  <2>1. got = base + HeadEnd(stream[k])
    BY <1>2, <1>5, <1>13
  <2>2. QED
    BY ONLY <1>4, <1>10, <2>1
<1>15. Expectation = "continue"
  BY <1>2, <1>7, <1>13, <1>14 DEF ExpectAction
<1>16. QED
  BY <1>2, <1>3, <1>8, <1>13, <1>15

-----------------------------------------------------------------------------
(* The theorems. *)

\* Connection's variables have their types: in particular step never drains
\* more than was fed, and names a request of the stream in every response.
THEOREM ConnectionTypeCorrect == Spec => []TypeOK
<1>1. ConnInv => TypeOK
  BY DEF ConnInv, Types, TypeOK, ResponseType
<1>2. QED
  BY <1>1, ConnectionInvariant, PTL

\* Connection::step answers pipelined requests in order, one final response
\* each, and the answer does not depend on how feed received the bytes, but for
\* the requests SegmentationDependent names.
THEOREM AnswersTheorem == Spec => []AnswersAsSent
BY ConnectionInvariant, PTL DEF ConnInv

\* continue_sent keeps the 100 Continue of Connection::step unique, ahead of the
\* final response, and away from a declared body that will be refused.
THEOREM InterimTheorem == Spec => []InterimInPlace
BY ConnectionInvariant, PTL DEF ConnInv

\* A transport that steps until NeedMore leaves nothing in the buffer that could
\* be answered, and no client waiting for a 100 Continue.
THEOREM NothingLeftTheorem == Spec => []NothingLeftBehind
<1>1. ConnInv => NothingLeftBehind
  BY NobodyWaits DEF ConnInv, NothingLeftBehind, Waiting
<1>2. QED
  BY <1>1, ConnectionInvariant, PTL
=============================================================================
