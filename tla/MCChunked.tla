------------------------------ MODULE MCChunked ------------------------------
(* Small chunked responses for TLC, with sizes written to the base 2. *)
EXTENDS ChunkedBody

CONSTANTS p1, p2, p3

Size(n) == CASE n = 0 -> {<<0>>, <<0, 0>>} [] n = 1 -> {<<1>>, <<0, 1>>}
             [] n = 2 -> {<<1, 0>>} [] n = 3 -> {<<1, 1>>}
ChunksOf(n) ==
  {[digits |-> d, ext |-> e, n |-> n, crlf |-> TRUE] : d \in Size(n), e \in BOOLEAN}
LastChunks == ChunksOf(0)
UpToThree == UNION {ChunksOf(n) : n \in 1 .. 3}

SomeResponses ==
  {<<e>> : e \in LastChunks} \cup {<<c, e>> : c \in UpToThree, e \in LastChunks}
    \cup {<<c, d, e>> : c \in UpToThree, d \in ChunksOf(2), e \in {CHOOSE l \in LastChunks : TRUE}}
    \cup {<<[c EXCEPT !.crlf = FALSE], e>> : c \in ChunksOf(2), e \in LastChunks}
ThreePackets == {p1, p2, p3}
=============================================================================
