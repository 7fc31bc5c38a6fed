------------------------------ MODULE FifoBuf ------------------------------
(***************************************************************************)
(* What ringbuf.h promises its users: a queue of at most Capacity bytes     *)
(* that refuses a write it has no room for and a read it has no data for,   *)
(* and drops its oldest bytes when told to make room.                       *)
(***************************************************************************)
EXTENDS Naturals, Sequences

CONSTANTS Capacity, Byte, MaxLen

VARIABLES queue, out    \* the bytes held; what the last read returned

Init == queue = <<>> /\ out = <<>>

Chunks == UNION {[1..n -> Byte] : n \in 1..MaxLen}

Put(buf) ==
  /\ queue' = IF Len(queue) + Len(buf) <= Capacity THEN queue \o buf ELSE queue
  /\ UNCHANGED out

Take(len) ==
  IF len <= Len(queue)
    THEN /\ out' = SubSeq(queue, 1, len)
         /\ queue' = SubSeq(queue, len + 1, Len(queue))
    ELSE out' = <<>> /\ UNCHANGED queue

MakeRoom(len) ==
  LET excess == Len(queue) + len - Capacity
  IN  /\ queue' = IF Len(queue) + len > Capacity
                    THEN SubSeq(queue, excess + 1, Len(queue)) ELSE queue
      /\ UNCHANGED out

Empty == queue' = <<>> /\ UNCHANGED out

Next ==
  \/ \E buf \in Chunks : Put(buf)
  \/ \E len \in 1..MaxLen : Take(len) \/ MakeRoom(len)
  \/ Empty

Spec == Init /\ [][Next]_<<queue, out>>
=============================================================================
