------------------------------- MODULE Router -------------------------------
(***************************************************************************)
(* The pattern router, core/src/router.rs: a table of routes in the order   *)
(* of their registration, each a [method, pattern, handler].  Patterns and  *)
(* request paths are Paths; a segment that begins with ":" matches any      *)
(* segment (the values it captures reach no handler of this program).  The  *)
(* path is matched as received, its escapes not decoded.                    *)
(***************************************************************************)
EXTENDS Paths

CONSTANT Routes

\* Leading, trailing and duplicate slashes do not count.
split_path(path) == SelectSeq(Segments(path), LAMBDA segment : segment # <<>>)

IsParam(segment) == segment[1] = ":"

match_segments(route, path) ==
    LET pattern == split_path(route.pattern)
        actual == split_path(path)
    IN  /\ Len(actual) = Len(pattern)
        /\ \A i \in DOMAIN pattern : IsParam(pattern[i]) \/ pattern[i] = actual[i]

method_matches(route, method) ==
    route.method = method \/ (method = "HEAD" /\ route.method = "GET")

\* The routes that answer, and the handler of the first of them.
Answering(method, path) ==
    {i \in DOMAIN Routes :
        method_matches(Routes[i], method) /\ match_segments(Routes[i], path)}

Dispatched(method, path) == Answering(method, path) # {}

HandlerOf(method, path) ==
    Routes[CHOOSE i \in Answering(method, path) :
               \A j \in Answering(method, path) : i <= j].handler

\* The order of the methods in an Allow field means nothing: they are a set.
allowed_methods(path) ==
    {Routes[i].method : i \in {j \in DOMAIN Routes : match_segments(Routes[j], path)}}

registered_methods == {Routes[i].method : i \in DOMAIN Routes}
=============================================================================
