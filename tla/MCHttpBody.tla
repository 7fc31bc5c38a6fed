----------------------------- MODULE MCHttpBody -----------------------------
(***************************************************************************)
(* Responses for TLC: every framing, headers shorter and longer than what   *)
(* header_info holds at first, bodies of several chunks, one of them longer *)
(* than the caller's buffer, size lines of one to five characters (servers  *)
(* pad them with zeros).                                                    *)
(***************************************************************************)
EXTENDS HttpBody, SequencesExt

CONSTANTS ChunkLists,   \* the sizes of a response's chunks
          LineWidths,   \* characters of its size lines
          Counted,      \* body lengths without chunks
          HeaderRests   \* bytes of the header's other lines

B(k, v, l, n) == [k |-> k, v |-> v, left |-> l, n |-> n]

CrLf(n) == <<B("cr", 0, 0, n), B("lf", 0, 0, n)>>

Header(k, v, r) ==
  <<B(k, v, 0, 0), B(k, v, 0, 0)>> \o [i \in 1 .. r |-> B("other", 0, 0, 0)]
    \o CrLf(0) \o CrLf(0)

Line(v, w, n) == [i \in 1 .. w |-> B("line", v, w - i, n)] \o CrLf(n)

Data(v, n) == [i \in 1 .. v |-> B("data", 0, v - i, n + i)]

Chunk(v, w, n) == Line(v, w, n) \o Data(v, n) \o CrLf(n + v)

(* The chunks of the sizes c, with size lines of w characters, and how many bytes they carry. *)
Chunks(c, w) ==
  FoldSeq(LAMBDA v, acc : [bytes |-> acc.bytes \o Chunk(v, w, acc.n),
                           n     |-> acc.n + v],
          [bytes |-> <<>>, n |-> 0], c)

Chunked(c, w, r) ==
  LET body == Chunks(c, w)
  IN  [bytes  |-> Header("te", 0, r) \o body.bytes \o Line(0, 1, body.n)
                    \o CrLf(body.n),
       header |-> 6 + r,
       size   |-> body.n]

Plain(k, size, r) ==
  [bytes  |-> Header(k, IF k = "cl" THEN size ELSE 0, r) \o
                [i \in 1 .. size |-> B("data", 0, 0, i)],
   header |-> 6 + r,
   size   |-> size]

MCStreams ==
  {Chunked(c, w, r) : c \in ChunkLists, w \in LineWidths, r \in HeaderRests}
    \cup {Plain(k, size, r) :
            k \in {"cl", "other"}, size \in Counted, r \in HeaderRests}

MCChunkLists == {<<>>, <<1>>, <<8>>, <<2, 1>>, <<1, 5, 2>>, <<12>>}
=============================================================================
