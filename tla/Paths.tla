-------------------------------- MODULE Paths --------------------------------
(***************************************************************************)
(* Request targets and paths as sequences of symbols.  A symbol is a "/",   *)
(* a ".", a "?", a "://", a percent escape such as "%2e", or a run of other *)
(* characters; what lies between two slashes of a path is a segment, itself *)
(* a sequence of symbols.                                                   *)
(***************************************************************************)
EXTENDS Integers, Sequences, SequencesExt

\* str::split('/'): n slashes give n + 1 segments, some of them empty.
Segments(path) ==
    LET slashes == SelectSeq([i \in 1..Len(path) |-> i], LAMBDA i : path[i] = "/")
        cuts == <<0>> \o slashes \o <<Len(path) + 1>>
    IN  [i \in 1..(Len(cuts) - 1) |-> SubSeq(path, cuts[i] + 1, cuts[i + 1] - 1)]

\* What comes before the first occurrence of a symbol, and what is from it on.
Before(symbol, s) ==
    LET at == SelectInSeq(s, LAMBDA c : c = symbol)
    IN  IF at = 0 THEN s ELSE SubSeq(s, 1, at - 1)
From(symbol, s) == SubSeq(s, Len(Before(symbol, s)) + 1, Len(s))

\* Request::path of a target: the query is dropped, and of an absolute form
\* ("http", the one scheme, "://" and an authority) only the path is left.
RequestPath(target) ==
    LET absolute == Before("://", target) = <<"http">> /\ From("://", target) # <<>>
        rest == From("/", From("://", target))
        origin == IF ~absolute THEN target ELSE IF rest = <<>> THEN <<"/">> ELSE rest
    IN  Before("?", origin)

IsUnder(path, directory) == IsPrefix(directory, path)
=============================================================================
