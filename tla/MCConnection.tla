---------------------------- MODULE MCConnection ----------------------------
(***************************************************************************)
(* TLC instance of Connection: streams of up to three pipelined requests    *)
(* made of a few shapes, with limits of a few bytes so that every boundary  *)
(* is met by some segmentation.                                             *)
(***************************************************************************)
EXTENDS Connection

Get == [head |-> 2, fault |-> "none", version |-> "1.1", connection |-> "none",
        expect |-> "none", framing |-> "fixed", len |-> 0,
        chunks |-> <<>>, trailers |-> <<>>]

Line(size) == [line |-> 1, size |-> size, broken |-> "no"]
LastChunk == Line(0)

Post == [Get EXCEPT !.len = 2]
GetClose == [Get EXCEPT !.connection = "close"]
Get10 == [Get EXCEPT !.version = "1.0"]
GetBad == [Get EXCEPT !.fault = "UnknownMethod"]
GetLong == [Get EXCEPT !.head = MaxHead + 1]
GetEdge == [Get EXCEPT !.head = MaxHead]
PostLimit == [Get EXCEPT !.len = MaxBody, !.expect = "continue"]
PostOver == [Get EXCEPT !.len = MaxBody + 1, !.expect = "continue"]
PostStrange == [Get EXCEPT !.len = 1, !.expect = "unsupported"]
Chunked == [Get EXCEPT !.framing = "chunked", !.expect = "continue",
                       !.chunks = <<Line(1), Line(2), LastChunk>>, !.trailers = <<1>>]
ChunkedOver == [Get EXCEPT !.framing = "chunked",
                           !.chunks = <<Line(2), Line(2), LastChunk>>]
ChunkedBroken == [Get EXCEPT !.framing = "chunked",
                             !.chunks = <<[Line(1) EXCEPT !.broken = "end"], LastChunk>>]
ChunkedLongLine == [Get EXCEPT !.framing = "chunked",
                               !.chunks = <<[line |-> 5, size |-> 1, broken |-> "no"],
                                            LastChunk>>]

Open == {Get, Post, PostLimit, Chunked}
Shapes == Open \cup {GetClose, Get10, GetBad, GetLong, GetEdge, PostOver, PostStrange,
                     ChunkedOver, ChunkedBroken, ChunkedLongLine}

MCStreams ==
    {<<a>> : a \in Shapes}
        \cup {<<a, b>> : a \in Open \cup {GetClose, GetEdge, PostStrange}, b \in Shapes}
        \cup {<<a, b, c>> : a \in Open, b \in {Get, PostLimit}, c \in {PostLimit, PostOver}}
=============================================================================
