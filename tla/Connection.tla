----------------------------- MODULE Connection -----------------------------
(***************************************************************************)
(* The sans-IO connection of core/src/conn.rs: bytes are fed to it in any   *)
(* segmentation and step() turns them into responses, one at a time.  The   *)
(* driver is a transport that keeps the contract of the reactor             *)
(* (transport_mio.rs, handle_ready): after feeding, it steps until the      *)
(* connection needs more bytes or asks to be closed.                        *)
(*                                                                          *)
(* The bytes are not spelled out.  The client sends the requests of stream  *)
(* back to back; got bytes of it have been fed and base of them drained, so *)
(* the buffer holds bytes base + 1 to got of the stream.                    *)
(***************************************************************************)
EXTENDS RequestParser

CONSTANT Streams        \* the sequences of requests a client may send

ASSUME StreamsAssumption ==
    \A s \in Streams : s \in Seq(Request) /\ \A k \in DOMAIN s : WellFormed(s[k])

VARIABLES
    stream,         \* what this client sends
    got,            \* bytes fed so far
    base,           \* bytes drained from the front of the buffer
    continue_sent,  \* Connection.continue_sent
    stepping,       \* the transport is in its step loop
    closed,         \* a Write with close: true was returned
    out             \* the responses returned, in order

vars == <<stream, got, base, continue_sent, stepping, closed, out>>

\* StartOf[k]: where request k starts in the stream.
StartOf ==
    LET start[k \in 1 .. Len(stream) + 1] ==
            IF k = 1 THEN 0 ELSE start[k - 1] + Wire(stream[k - 1])
    IN  start

Total == StartOf[Len(stream) + 1]

Buffered == got - base

\* The request whose first byte is at the front of the buffer.
AtFront(k) == k \in DOMAIN stream /\ StartOf[k] = base

\* A buffer that does not start at a request is garbage to the parser; an
\* empty one is an incomplete head.
Parsed ==
    IF \E k \in DOMAIN stream : AtFront(k)
    THEN Parse(stream[CHOOSE k \in DOMAIN stream : AtFront(k)], Buffered)
    ELSE IF Buffered = 0 THEN Partial ELSE Failed("MalformedRequestLine")

Expectation ==
    IF \E k \in DOMAIN stream : AtFront(k)
    THEN ExpectAction(stream[CHOOSE k \in DOMAIN stream : AtFront(k)], Buffered)
    ELSE "none"

Front == IF \E k \in DOMAIN stream : AtFront(k)
         THEN CHOOSE k \in DOMAIN stream : AtFront(k)
         ELSE 0

\* A handler's answer: the status is the service's business, and not told apart.
Answered == 200

Response(k, status, close) == [req |-> k, status |-> status, close |-> close]

Write(response) ==
    /\ out' = Append(out, response)
    /\ closed' = response.close

-----------------------------------------------------------------------------
Init ==
    /\ stream \in Streams
    /\ got = 0 /\ base = 0
    /\ continue_sent = FALSE
    /\ stepping = FALSE /\ closed = FALSE
    /\ out = <<>>

\* feed: any number of the bytes still to come arrive in one segment.
Feed(n) ==
    /\ ~ stepping /\ ~ closed
    /\ got + n <= Total
    /\ got' = got + n
    /\ stepping' = TRUE
    /\ UNCHANGED <<stream, base, continue_sent, closed, out>>

\* Faulty variant: the flag that makes the interim response unique is ignored.
StepContinueAgain ==
    /\ stepping /\ ~ closed
    /\ Parsed.kind = "partial" /\ Expectation = "continue"
    /\ Len(out) < 4
    /\ continue_sent' = TRUE
    /\ Write(Response(Front, 100, FALSE))
    /\ UNCHANGED <<stream, got, base, stepping>>

\* step: 100 Continue, once, while the body is still to come.
StepContinue ==
    /\ stepping /\ ~ closed
    /\ Parsed.kind = "partial" /\ Expectation = "continue" /\ ~ continue_sent
    /\ continue_sent' = TRUE
    /\ Write(Response(Front, 100, FALSE))
    /\ UNCHANGED <<stream, got, base, stepping>>

\* step: an expectation the server does not support, body still to come.
StepRefuse ==
    /\ stepping /\ ~ closed
    /\ Parsed.kind = "partial" /\ Expectation = "unsupported"
    /\ Write(Response(Front, 417, TRUE))
    /\ UNCHANGED <<stream, got, base, continue_sent, stepping>>

\* step: NeedMore ends the transport's loop.
StepNeedMore ==
    /\ stepping /\ ~ closed
    /\ Parsed.kind = "partial"
    /\ Expectation # "unsupported"
    /\ Expectation = "continue" => continue_sent
    /\ stepping' = FALSE
    /\ UNCHANGED <<stream, got, base, continue_sent, closed, out>>

\* Faulty variants: the transport leaves its loop after one response; the
\* interim flag outlives the request it was for.
StepCompleteOnce ==
    /\ stepping /\ ~ closed
    /\ Parsed.kind = "complete"
    /\ base' = base + Parsed.consumed
    /\ continue_sent' = FALSE
    /\ stepping' = FALSE
    /\ Write(Response(Front, Answered, ~ KeepAlive(stream[Front])))
    /\ UNCHANGED <<stream, got>>

StepCompleteKeepsFlag ==
    /\ stepping /\ ~ closed
    /\ Parsed.kind = "complete"
    /\ base' = base + Parsed.consumed
    /\ Write(Response(Front, Answered, ~ KeepAlive(stream[Front])))
    /\ UNCHANGED <<stream, got, continue_sent, stepping>>

\* step: a complete request is drained, dispatched and answered.
StepComplete ==
    /\ stepping /\ ~ closed
    /\ Parsed.kind = "complete"
    /\ base' = base + Parsed.consumed
    /\ continue_sent' = FALSE
    /\ Write(Response(Front, Answered, ~ KeepAlive(stream[Front])))
    /\ UNCHANGED <<stream, got, stepping>>

\* step: the stream cannot be resynchronised after a parse error; the buffer
\* is left as it is.
StepError ==
    /\ stepping /\ ~ closed
    /\ Parsed.kind = "error"
    /\ Write(Response(Front, ErrorStatus(Parsed.error), TRUE))
    /\ UNCHANGED <<stream, got, base, continue_sent, stepping>>

Step == StepContinue \/ StepRefuse \/ StepNeedMore \/ StepComplete \/ StepError

Next == (\E n \in 1 .. Total - got : Feed(n)) \/ Step

Spec == Init /\ [][Next]_vars

\* A client that sent Expect: 100-continue may hold back the body until the
\* interim response; every other byte it does send in the end.
Withheld ==
    \E k \in DOMAIN stream :
        /\ stream[k].expect = "continue"
        /\ got = StartOf[k] + HeadEnd(stream[k])
        /\ got < StartOf[k + 1]
        /\ \A i \in DOMAIN out : out[i] # Response(k, 100, FALSE)

FeedFreely == ~ Withheld /\ \E n \in 1 .. Total - got : Feed(n)

FairSpec == Spec /\ WF_vars(Step) /\ WF_vars(FeedFreely)

-----------------------------------------------------------------------------
\* The final responses among the first i.
Finals(i) == {j \in 1 .. i : out[j].status # 100}

TypeOK ==
    /\ base \in 0 .. got /\ got \in 0 .. Total
    /\ continue_sent \in BOOLEAN /\ stepping \in BOOLEAN /\ closed \in BOOLEAN
    /\ out \in Seq([req : DOMAIN stream, status : Nat, close : BOOLEAN])

\* What is wrong with r, told from the whole of it and not from its arrival.
Broken(r) ==
    /\ r.framing = "chunked"
    /\ \E i \in DOMAIN r.chunks :
          r.chunks[i].broken # "no" /\ BodyLen(r)[i - 1] <= MaxBody

Oversized(r) ==
    IF r.framing = "fixed" THEN r.len > MaxBody
                           ELSE BodyLen(r)[Len(r.chunks)] > MaxBody

Defect(r) ==
    IF r.head > MaxHead THEN "HeadTooLarge"
    ELSE IF r.fault # "none" THEN r.fault
    ELSE IF Broken(r) THEN "MalformedChunk"
    ELSE IF Oversized(r) THEN "BodyTooLarge"
    ELSE "none"

\* How r should be answered, however its bytes are segmented.
Due(k) ==
    IF Defect(stream[k]) = "none"
    THEN Response(k, Answered, ~ KeepAlive(stream[k]))
    ELSE Response(k, ErrorStatus(Defect(stream[k])), TRUE)

\* Requests the code answers according to their segmentation.  The head limit
\* counts a terminator that has arrived in part, so it is up to 3 bytes short;
\* the line limits of a chunked body apply to unterminated lines only; and 417
\* is sent only while the body is incomplete.
OnHeadEdge(r) == r.head <= MaxHead /\ r.head + 3 > MaxHead
OnLineEdge(r) ==
    /\ r.framing = "chunked"
    /\ \/ \E i \in DOMAIN r.chunks : r.chunks[i].line + 1 > MaxChunkLine
       \/ \E i \in DOMAIN r.trailers : r.trailers[i] + 1 > MaxChunkLine
SegmentationDependent(r) ==
    OnHeadEdge(r) \/ OnLineEdge(r) \/ r.expect = "unsupported"

\* Pipelined requests are answered in order, one final response each, and the
\* answer to a request does not depend on how its bytes arrived.
AnswersAsSent ==
    \A i \in DOMAIN out : out[i].status # 100 =>
        LET k == out[i].req
        IN  /\ k = Cardinality(Finals(i))
            /\ SegmentationDependent(stream[k]) \/ out[i] = Due(k)

\* A 100 Continue is sent at most once for a request, only to a request that
\* asked for it, never after its final response, and never to one whose
\* declared body will be refused anyway.
InterimInPlace ==
    \A i \in DOMAIN out : out[i].status = 100 =>
        LET k == out[i].req
        IN  /\ stream[k].expect = "continue"
            /\ \A j \in DOMAIN out \ {i} : out[j].req = k => j > i /\ out[j].status # 100
            /\ stream[k].framing = "fixed" => Defect(stream[k]) = "none"

\* While the connection waits for bytes, nothing that could be answered is
\* left in its buffer: no complete request, no error, no client waiting for a
\* 100 Continue.
NothingLeftBehind ==
    ~ stepping /\ ~ closed =>
        /\ Parsed.kind = "partial"
        /\ ~ Withheld

\* A client that keeps sending, and waits for 100 Continue when it asked for
\* it, has every request answered up to a response that closes.
EveryRequestAnswered == <>(closed \/ Cardinality(Finals(Len(out))) = Len(stream))

\* An unsupported expectation is refused with 417, "not silently ignored"
\* (conn.rs 407-408).  This does not hold, and no run checks it: a request whose
\* body is at hand when its head is parsed is answered like any other.
UnsupportedExpectationRefused ==
    \A i \in DOMAIN out :
        stream[out[i].req].expect = "unsupported" => out[i].status # Answered
=============================================================================
