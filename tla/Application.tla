----------------------------- MODULE Application -----------------------------
(***************************************************************************)
(* The std profile's request handler, std-server/src/app.rs: rate limit,    *)
(* API router, static files with preconditions and ranges, discovery of the *)
(* methods of a path, compression.  One reactor thread handles a request    *)
(* while others change the files it serves: a load looks a file up and      *)
(* reads it in two steps, and a request may look at several files.          *)
(*                                                                          *)
(* The client remembers one answer: a copy to validate, or an Allow field.  *)
(* Files are replaced as a whole, links and directories stay as they are,   *)
(* and every content a file is given has a number of its own.               *)
(***************************************************************************)
EXTENDS Router, StaticFiles

CONSTANTS
    Requests,       \* [method, target, headers, copied]; copied are the names of the
                    \* fields that the client fills in from its copy
    Files,          \* the absolute paths at which there may be a file
    Lengths,        \* per path the lengths of the versions written to it; if there are
                    \* none, a file of length 1 is there from the start
    Gzip,           \* compression.gzip
    MinBytes,       \* compression.min_bytes
    MaxWrites,      \* bound: how often files are written
    MaxClock        \* bound: the last second of the clock

ASSUME BoundsAssumption ==
    /\ Lengths \in [Files -> SUBSET Nat]
    /\ MaxWrites \in Nat /\ MaxClock \in Nat

\* A Range field, split into what parse_single_range reads of it.
RangeFields ==
    LET Side == Nat \cup {Empty, Garbled}
    IN  [single : BOOLEAN, first : Side, last : Side]

\* A request is a record.  Its fields name no tag and no date but those of the
\* client's copy: a client makes up no validator.
ASSUME RequestsAssumption ==
    \A r \in Requests :
        /\ DOMAIN r = {"method", "target", "headers", "copied"}
        /\ r.copied \subseteq {"if-none-match", "if-modified-since"}
        /\ ~Has(r, "if-modified-since")
        /\ Has(r, "if-none-match") => r.headers["if-none-match"].any
                                        \/ r.headers["if-none-match"].tags = {}
        /\ Has(r, "range") => r.headers["range"] \in RangeFields

VARIABLES
    files,      \* per path its version (0: no file), length and mtime
    clock,      \* the second that a write would be stamped with
    made,       \* how many versions were written
    follow,     \* static.follow_symlinks
    job,        \* the request in hand
    answer,     \* the answer just given, and the circumstances it was given in
    copy,       \* the client's copy: what a validator in a request is taken from
    promised,   \* its last Allow field, while no file has changed since
    hurried     \* a file was written twice in one second

vars == <<files, clock, made, follow, job, answer, copy, promised, hurried>>

Asterisk == <<"*">>
Present == {f \in Files : files[f].version > 0}
Versions == {files[f].version : f \in Present}

NoJob == [stage |-> "idle", request |-> <<>>, left |-> <<>>, mtime |-> NotADate,
          seen |-> {}, quiet |-> TRUE]
NoAnswer == [status |-> 0]
NoCopy == [version |-> 0]
NoPromise == [path |-> <<>>]

\* The bytes of a file: which file, which version, which position.
Bytes(f) ==
    [i \in 1..files[f].len |-> [of |-> f, version |-> files[f].version, at |-> i - 1]]

-----------------------------------------------------------------------------
(* Building the answer. *)

health == Json(200)

\* main.rs: the demo QUERY endpoint and its check of the media type.
query_content_type_check(request) ==
    IF ~Has(request, "content-type") THEN 400
    ELSE IF request.headers["content-type"] # "form" THEN 415 ELSE 200

search(request) ==
    LET status == query_content_type_check(request)
    IN  IF status = 400 THEN Text(400)
        ELSE WithHeader(IF status = 415 THEN Text(415) ELSE Json(200), "Accept-Query", "form")

Handle(handler, request) == IF handler = "search" THEN search(request) ELSE health

\* Faulty variant: only what is registered.
allow_as_registered(methods) == methods \cup {"OPTIONS"}

allow_header_value(methods) ==
    methods \cup {"OPTIONS"} \cup (IF "GET" \in methods THEN {"HEAD"} ELSE {})

\* The answer to a method that a known path does not serve.
Discovery(request, allow) ==
    WithHeader(IF request.method = "OPTIONS" THEN Response(200) ELSE Text(405),
               "Allow", allow)

accepts_gzip(request) ==
    Has(request, "accept-encoding") /\ "gzip" \in request.headers["accept-encoding"]

is_compressible(response) ==
    /\ Has(response, "Content-Type")
    /\ response.headers["Content-Type"] \in
          {TextTypes[ext] : ext \in DOMAIN TextTypes} \cup {"application/javascript"}

post_process(request, response) ==
    IF /\ Gzip
       /\ Len(response.body) >= MinBytes
       /\ accepts_gzip(request)
       /\ is_compressible(response)
       /\ ~Has(response, "Content-Encoding")
    THEN WithHeader(WithHeader([response EXCEPT !.body = <<[gzip |-> @]>>],
                               "Content-Encoding", "gzip"), "Vary", "Accept-Encoding")
    ELSE response

-----------------------------------------------------------------------------
(* The client's side of an answer. *)

\* An Allow field is believed until a file changes.
Noted(request, response) ==
    IF Has(response, "Allow") /\ request.target # Asterisk
    THEN [path |-> RequestPath(request.target), allow |-> response.headers["Allow"]]
    ELSE promised

\* A complete answer is kept with its validators, and with the version the
\* client has got: that of the file f.
Kept(request, response, f) ==
    IF request.method = "GET" /\ response.status = 200
    THEN [version |-> files[f].version, file |-> f,
          tag |-> response.headers["ETag"], date |-> response.headers["Last-Modified"]]
    ELSE copy

\* A response on the wire, with the circumstances: the request, the file it was
\* made of, the versions seen, and what the client had when it asked.
Given(request, response, file, seen, quiet) ==
    LET wire == Serialize(response, request.method = "HEAD")
    IN  [status |-> wire.status, headers |-> wire.headers, body |-> wire.body,
         request |-> request, file |-> file, seen |-> seen, quiet |-> quiet,
         copy |-> copy, promised |-> promised]

\* What the service returns goes through compression to the wire.
Send(request, response, file) ==
    /\ answer' = Given(request, post_process(request, response), file, job.seen, job.quiet)
    /\ job' = NoJob

\* What every other step does to the client's side: nothing, and the answer
\* given before it is over with.
Silently ==
    /\ answer' = NoAnswer
    /\ UNCHANGED <<copy, promised>>

Answer(response) ==
    /\ Send(job.request, response, <<>>)
    /\ promised' = Noted(job.request, response)
    /\ copy' = IF promised' = promised THEN copy ELSE NoCopy

-----------------------------------------------------------------------------
(* The service. *)

\* The validators that the request takes from the client's copy.
Validators == [n \in {"if-none-match", "if-modified-since"} |->
                 IF n = "if-none-match" THEN [any |-> FALSE, tags |-> {copy.tag}] ELSE copy.date]

Sent(request) ==
    [request EXCEPT !.headers = Joined(@, [n \in request.copied |-> Validators[n]])]

Ready(request) ==
    /\ job = NoJob /\ answer = NoAnswer
    /\ copy = NoCopy => request.copied = {}

\* The limiter (module RateLimiter) refuses the request.
Deny(request) ==
    /\ Ready(request)
    /\ answer' = Given(Sent(request), WithHeader(Text(429), "Retry-After", "1"), <<>>, {}, TRUE)
    /\ UNCHANGED <<files, clock, made, follow, job, copy, promised, hurried>>

\* ... or lets it through to dispatch.
Allow(request) ==
    /\ Ready(request)
    /\ job' = [NoJob EXCEPT !.stage = "dispatch", !.request = Sent(request), !.seen = Versions]
    /\ Silently
    /\ UNCHANGED <<files, clock, made, follow, hurried>>

dispatch ==
    LET request == job.request
        path == RequestPath(request.target)
        serverWide == request.method = "OPTIONS" /\ request.target = Asterisk
    IN  /\ job.stage = "dispatch"
        /\ \/ /\ serverWide
              /\ Answer(WithHeader(Response(200), "Allow",
                            allow_header_value(registered_methods \cup {"GET"})))
           \/ /\ ~serverWide
              /\ Dispatched(request.method, path)
              /\ Answer(Handle(HandlerOf(request.method, path), request))
           \/ /\ ~serverWide
              /\ ~Dispatched(request.method, path)
              /\ job' = IF request.method \in {"GET", "HEAD"}
                        THEN [job EXCEPT !.stage = "stat", !.left = candidate_paths(path)]
                        ELSE [job EXCEPT !.stage = "discover"]
              /\ Silently
        /\ UNCHANGED <<files, clock, made, follow, hurried>>

\* FsAssets::load up to the metadata of the next candidate.
Stat ==
    /\ job.stage = "stat"
    /\ job.left # <<>>
    /\ LET candidate == Head(job.left)
       IN  job' = IF Resolves(candidate, follow, Present)
                  THEN [job EXCEPT !.stage = "read",
                                   !.mtime = files[Canonical(Root \o candidate)].mtime]
                  ELSE [job EXCEPT !.left = Tail(@)]
    /\ Silently
    /\ UNCHANGED <<files, clock, made, follow, hurried>>

\* Faulty variant: after a file that is gone the next one is read unseen.
ReadOn ==
    LET file == Canonical(Root \o Head(job.left))
    IN  /\ job.stage = "read"
        /\ \/ /\ file \in Present
              /\ Answer(file_response(Head(job.left), Bytes(file), job.mtime))
           \/ /\ file \notin Present
              /\ job' = [job EXCEPT !.left = Tail(@)]
              /\ Silently
        /\ UNCHANGED <<files, clock, made, follow, hurried>>

\* The rest of load, and the answer; a file that is gone is one more miss.
Read ==
    LET file == Canonical(Root \o Head(job.left))
    IN  /\ job.stage = "read"
        /\ \/ /\ file \in Present
              /\ LET found == file_response(Head(job.left), Bytes(file), job.mtime)
                     response == Evaluate(job.request, found)
                 IN  /\ Send(job.request, response, file)
                     /\ copy' = Kept(job.request, response, file)
                     /\ promised' = IF copy' = copy THEN promised ELSE NoPromise
           \/ /\ file \notin Present
              /\ job' = [job EXCEPT !.stage = "stat", !.left = Tail(@)]
              /\ Silently
        /\ UNCHANGED <<files, clock, made, follow, hurried>>

\* No candidate could be loaded: on to discovery.
Miss ==
    /\ job.stage = "stat"
    /\ job.left = <<>>
    /\ job' = [job EXCEPT !.stage = "discover"]
    /\ Silently
    /\ UNCHANGED <<files, clock, made, follow, hurried>>

Discover ==
    LET request == job.request
        path == RequestPath(request.target)
        allowed == allowed_methods(path)
    IN  /\ job.stage = "discover"
        /\ \/ /\ allowed # {}
              /\ Answer(Discovery(request, allow_header_value(allowed)))
           \/ /\ allowed = {}
              /\ job' = [job EXCEPT !.stage = "probe", !.left = candidate_paths(path)]
              /\ Silently
        /\ UNCHANGED <<files, clock, made, follow, hurried>>

\* static_exists: one candidate at a time, each by FsAssets::exists.
Probe ==
    /\ job.stage = "probe"
    /\ \/ /\ job.left = <<>>
          /\ Answer(Text(404))
       \/ /\ job.left # <<>>
          /\ Resolves(Head(job.left), follow, Present)
          /\ Answer(Discovery(job.request, {"GET", "HEAD", "OPTIONS"}))
       \/ /\ job.left # <<>>
          /\ ~Resolves(Head(job.left), follow, Present)
          /\ job' = [job EXCEPT !.left = Tail(@)]
          /\ Silently
    /\ UNCHANGED <<files, clock, made, follow, hurried>>

\* handle returns; the connection writes the answer.
Deliver ==
    /\ answer # NoAnswer
    /\ Silently
    /\ UNCHANGED <<files, clock, made, follow, job, hurried>>

-----------------------------------------------------------------------------
(* The world outside: other programs change files, and time passes. *)

Write(f, len) ==
    /\ made < MaxWrites
    /\ made' = made + 1
    /\ files' = [files EXCEPT ![f] = [version |-> made + 1, len |-> len, mtime |-> clock]]
    /\ hurried' = (hurried \/ files[f].mtime = clock)
    /\ job' = [job EXCEPT !.seen = IF job = NoJob THEN {} ELSE @ \cup {made + 1},
                          !.quiet = (job = NoJob)]
    /\ promised' = NoPromise
    /\ answer' = NoAnswer
    /\ UNCHANGED <<clock, follow, copy>>

\* The mtime of a file that is gone stays, for hurried.
Unlink(f) ==
    /\ f \in Present
    /\ Lengths[f] # {}
    /\ files' = [files EXCEPT ![f].version = 0]
    /\ job' = [job EXCEPT !.quiet = (job = NoJob)]
    /\ promised' = NoPromise
    /\ answer' = NoAnswer
    /\ UNCHANGED <<clock, made, follow, copy, hurried>>

Tick ==
    /\ clock < MaxClock
    /\ clock' = clock + 1
    /\ Silently
    /\ UNCHANGED <<files, made, follow, job, hurried>>

Init ==
    /\ files = [f \in Files |->
                  IF Lengths[f] = {} THEN [version |-> MaxWrites + 1, len |-> 1, mtime |-> 0]
                  ELSE [version |-> 0, len |-> 0, mtime |-> NotADate]]
    /\ clock = 0
    /\ made = 0
    /\ follow \in BOOLEAN
    /\ job = NoJob
    /\ answer = NoAnswer
    /\ copy = NoCopy
    /\ promised = NoPromise
    /\ hurried = FALSE

Next ==
    \/ \E request \in Requests : Deny(request) \/ Allow(request)
    \/ dispatch \/ Stat \/ Read \/ Miss \/ Discover \/ Probe \/ Deliver
    \/ \E f \in Files : Unlink(f) \/ \E len \in Lengths[f] : Write(f, len)
    \/ Tick

Spec == Init /\ [][Next]_vars

-----------------------------------------------------------------------------
(* Properties. *)

\* Every variable keeps its shape: a job in hand has a request and, while it
\* looks for a file, candidates that come from its path.
TypeOK ==
    /\ files \in [Files -> [version : 0..(MaxWrites + 1), len : Nat, mtime : NotADate..MaxClock]]
    /\ clock \in 0..MaxClock
    /\ made \in 0..MaxWrites
    /\ follow \in BOOLEAN /\ hurried \in BOOLEAN
    /\ job.stage \in {"idle", "dispatch", "stat", "read", "discover", "probe"}
    /\ job.stage = "idle" <=> job = NoJob
    /\ job.stage = "read" => job.left # <<>> /\ job.mtime \in 0..MaxClock
    /\ job.stage \in {"stat", "read", "probe"} =>
          IsSuffix(job.left, candidate_paths(RequestPath(job.request.target)))
    /\ answer = NoAnswer \/ answer.status \in
          {200, 206, 304, 400, 404, 405, 415, 416, 429}
    /\ copy = NoCopy \/ copy.version \in 1..made \cup {MaxWrites + 1}

\* A 304 to the client's own validator tells the truth: the version the
\* client holds was the file's content at some moment while the request was
\* handled, even though load takes the mtime and the bytes in two steps.
\* Two cases are out, because the code does not distinguish them: a file
\* written twice in one second (mtime has whole seconds), and a directory
\* whose index file is another one than the client's copy came from.
NotModifiedIsHonest ==
    LET inm == Has(answer.request, "if-none-match")
    IN  /\ answer.status = 304
        /\ inm => ~answer.request.headers["if-none-match"].any
        /\ answer.copy # NoCopy /\ answer.copy.file = answer.file
        /\ ~hurried
        => answer.copy.version \in answer.seen

\* The positions of a file of length len that a Range field asks for.
Wanted(range, len) ==
    {i \in 0..(len - 1) :
        IF range.first = Empty THEN i >= len - range.last
        ELSE i >= range.first /\ (range.last = Empty \/ i <= range.last)}

\* A Range field of one range that can be parsed, whatever the file.
Valid(range) ==
    /\ range.single
    /\ range.first # Garbled /\ range.last # Garbled
    /\ range.first # Empty \/ range.last # Empty

\* The code resolves the start before it parses the end: a start past the
\* file settles the answer with an end that is no number still unread.
EndUnread(range, len) ==
    /\ range.single /\ range.last = Garbled
    /\ range.first \notin {Empty, Garbled} /\ range.first >= len

Decoded(body) == IF Len(body) = 1 /\ "gzip" \in DOMAIN body[1] THEN body[1].gzip ELSE body

\* One answer gives the parts its request asks for.
AsAsked(reply) ==
    LET range == reply.request.headers["range"]
        body == Decoded(reply.body)
        at == {body[i].at : i \in DOMAIN body}
        named == reply.headers["Content-Range"]
    IN  reply.status \in {200, 206, 416} /\ reply.file # <<>>
            /\ reply.request.method = "GET" =>
          IF reply.status = 200
          THEN /\ Len(body) = reply.headers["ETag"].len
               /\ Has(reply.request, "range") => ~Valid(range)
          ELSE /\ Valid(range) \/ EndUnread(range, named.len)
               /\ at = Wanted(range, named.len)
               /\ at = {} <=> reply.status = 416
               /\ at # {} => at = named.start..named.end
               /\ \A i, j \in DOMAIN body :
                    body[i].version = body[j].version /\ (i < j => body[i].at < body[j].at)

\* What a Range field gets is what it asks for, of one version of the file:
\* a 206 has exactly the bytes wanted, in their order, and names them in
\* Content-Range; a 416 is given only when there are none; and a field that
\* cannot be parsed is as good as none.  One case is set aside, EndUnread,
\* where a field that cannot be parsed gets a 416, against the comments on the
\* code: UnparsableIsIgnored states those.
PartsAreParts == AsAsked(answer)

\* An unparsable field is answered with the full body (conditional.rs 66-68 and
\* 100-102).  This does not hold, and no run checks it: if EndUnread, the answer
\* is a 416.
UnparsableIsIgnored ==
    answer.status \in {206, 416} => Valid(answer.request.headers["range"])

\* A path that is both a route and a file: discovery names the methods of
\* the route alone.
Shadowed(path) ==
    /\ allowed_methods(path) # {}
    /\ \E i \in DOMAIN candidate_paths(path) :
          Resolves(candidate_paths(path)[i], follow, Present)

\* As long as no file changes, the Allow field of an answer is what later
\* requests for the path find, in whatever form the target is written: a
\* method is refused with 404 or 405 exactly if it is not listed.  In
\* particular a 405 never lists the method it refuses, unless a file changed
\* while the request was handled.
AllowAgrees ==
    answer # NoAnswer /\ answer.status # 429 =>
      /\ /\ answer.promised # NoPromise
         /\ answer.promised.path = RequestPath(answer.request.target)
         /\ ~Shadowed(answer.promised.path)
         => (answer.status \in {404, 405} <=> answer.request.method \notin answer.promised.allow)
      /\ answer.status = 405 /\ answer.quiet
         => answer.request.method \notin answer.headers["Allow"]

\* What is served lies in the document root, wherever links lead; without
\* follow_symlinks it lies where the path says.
StaysInRoot ==
    answer # NoAnswer /\ answer.file # <<>> =>
      /\ IsUnder(answer.file, Root)
      /\ ~follow => LET candidates == candidate_paths(RequestPath(answer.request.target))
                    IN  \E i \in DOMAIN candidates : answer.file = Root \o candidates[i]
=============================================================================
