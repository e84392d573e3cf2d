---------------------------- MODULE Conditional -----------------------------
(***************************************************************************)
(* Preconditions and ranges, core/src/http/conditional.rs, applied to a     *)
(* 200 response for a static file.  A request has its fields as a function, *)
(* like a response:                                                         *)
(*   "if-none-match"      [any, tags]: whether it is "*", and its tags      *)
(*   "if-modified-since"  a date of HttpDate                                *)
(*   "range"              [single, first, last]: single when the value is   *)
(*                        "bytes=", no comma and a dash; the two sides are  *)
(*                        numbers, Empty or Garbled                         *)
(* An entity tag is [weak, len, mtime].                                     *)
(***************************************************************************)
EXTENDS HttpDate, HttpResponse

Empty == -1         \* nothing before or after the dash
Garbled == -2       \* not the decimal of a u64

WeakEq(a, b) == [a EXCEPT !.weak = FALSE] = [b EXCEPT !.weak = FALSE]

\* If-None-Match takes precedence, even if it does not match.
NotModified(request, response) ==
    IF Has(request, "if-none-match")
    THEN LET inm == request.headers["if-none-match"]
         IN  \/ inm.any
             \/ /\ Has(response, "ETag")
                /\ \E tag \in inm.tags : WeakEq(tag, response.headers["ETag"])
    ELSE /\ Has(request, "if-modified-since")
         /\ Has(response, "Last-Modified")
         /\ LET ims == parse_http_date(request.headers["if-modified-since"])
                lm == parse_http_date(response.headers["Last-Modified"])
            IN  ims # NotADate /\ lm # NotADate /\ lm <= ims

ToNotModified(response) ==
    [Response(304) EXCEPT !.headers =
        Only(response.headers, {"ETag", "Last-Modified", "Cache-Control", "Vary"})]

Ignored == [kind |-> "ignored"]                \* None
Unsatisfiable == [kind |-> "unsatisfiable"]
Satisfiable(start, end) == [kind |-> "satisfiable", start |-> start, end |-> end]

Lower(a, b) == IF a < b THEN a ELSE b

\* "-n": the last n bytes.
SuffixRange(n, len) ==
    IF n < 0 THEN Ignored
    ELSE IF n = 0 \/ len = 0 THEN Unsatisfiable
    ELSE Satisfiable(len - Lower(n, len), len - 1)

\* Faulty variant: a range of one byte is taken for an empty one.
FromRangeStrict(first, last, len) ==
    IF first = Garbled THEN Ignored
    ELSE IF first >= len THEN Unsatisfiable
    ELSE IF last = Empty THEN Satisfiable(first, len - 1)
    ELSE IF last = Garbled THEN Ignored
    ELSE IF last <= first THEN Unsatisfiable
    ELSE Satisfiable(first, Lower(last, len - 1))

\* "first-last" or "first-": the end is not read when the start is past the file.
FromRange(first, last, len) ==
    IF first = Garbled THEN Ignored
    ELSE IF first >= len THEN Unsatisfiable
    ELSE IF last = Empty THEN Satisfiable(first, len - 1)
    ELSE IF last = Garbled THEN Ignored
    ELSE IF last < first THEN Unsatisfiable
    ELSE Satisfiable(first, Lower(last, len - 1))

ParseSingleRange(range, len) ==
    IF ~range.single THEN Ignored
    ELSE IF range.first = Empty THEN SuffixRange(range.last, len)
         ELSE FromRange(range.first, range.last, len)

Partial(response, r) ==
    [status |-> 206,
     headers |-> Joined(Joined(Field("Accept-Ranges", "bytes"),
                               Field("Content-Range", [start |-> r.start, end |-> r.end,
                                                       len |-> Len(response.body)])),
                        Only(response.headers, {"Content-Type", "ETag", "Last-Modified"})),
     body |-> SubSeq(response.body, r.start + 1, r.end + 1)]

NotSatisfiable(response) ==
    WithHeader(Response(416), "Content-Range",
               [start |-> Empty, end |-> Empty, len |-> Len(response.body)])

ApplyRange(request, response) ==
    IF ~Has(request, "range") THEN response
    ELSE LET r == ParseSingleRange(request.headers["range"], Len(response.body))
         IN  CASE r.kind = "satisfiable"   -> Partial(response, r)
               [] r.kind = "unsatisfiable" -> NotSatisfiable(response)
               [] r.kind = "ignored"       -> response

Evaluate(request, response) ==
    IF response.status # 200 THEN response
    ELSE IF NotModified(request, response) THEN ToNotModified(response)
    ELSE ApplyRange(request, response)
=============================================================================
