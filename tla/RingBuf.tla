------------------------------ MODULE RingBuf ------------------------------
(***************************************************************************)
(* depend/ringbuf: the byte ring between the recording thread, the wake-up  *)
(* engine and the send thread.  One call is one step here: the buffer has   *)
(* no lock, and what two threads inside it do to each other is outside this *)
(* module.  Lengths are at most MaxLen, which the demo's callers keep below *)
(* the capacity (640 bytes of RING_BUF_SIZE).                               *)
(***************************************************************************)
EXTENDS Integers, Sequences

CONSTANTS Capacity,    \* ringbuf->capacity
          Byte,        \* the bytes stored
          Zero,        \* the byte ringbuf_clear fills with
          MaxLen       \* the longest length a caller passes

ASSUME RingAssumption ==
  /\ Capacity \in Nat \ {0}
  /\ MaxLen \in Nat /\ MaxLen <= Capacity
  /\ Zero \in Byte

VARIABLES head,                  \* the storage
          read_pos, write_pos,   \* next byte to read, next byte to write
          size,                  \* bytes held
          out                    \* what the last ringbuf_read returned

vars == <<head, read_pos, write_pos, size, out>>

Slots == 0 .. Capacity - 1

Chunks == UNION {[1..n -> Byte] : n \in 1..MaxLen}

TypeOK ==
  /\ head \in [Slots -> Byte]
  /\ read_pos \in Slots
  /\ write_pos \in Slots
  /\ size \in 0 .. Capacity
  /\ out \in Chunks \cup {<<>>}

(* init_ringbuf; the storage is uninitialised, any bytes do. *)
Init ==
  /\ head = [i \in Slots |-> Zero]
  /\ read_pos = 0 /\ write_pos = 0 /\ size = 0
  /\ out = <<>>

WriteAble(len) == Capacity - size >= len

ReadAble(len) == len <= size

(* memcpy of the n bytes of buf that follow the first skip, to position at. *)
Copied(mem, at, buf, skip, n) ==
  [i \in Slots |-> IF at <= i /\ i < at + n THEN buf[skip + i - at + 1]
                                            ELSE mem[i]]

(* Faulty variant: the wrap is tested with > instead of >=. *)
WriteLateWrap(buf) ==
  LET len == Len(buf)
      space == Capacity - write_pos
  IN  /\ WriteAble(len)
      /\ IF write_pos + len > Capacity
           THEN /\ head' = Copied(Copied(head, write_pos, buf, 0, space),
                                  0, buf, space, len - space)
                /\ write_pos' = len - space
           ELSE /\ head' = Copied(head, write_pos, buf, 0, len)
                /\ write_pos' = write_pos + len
      /\ size' = size + len
      /\ UNCHANGED <<read_pos, out>>

(* ringbuf_write, when there is room; otherwise it returns 0 and changes    *)
(* nothing.                                                                 *)
Write(buf) ==
  LET len == Len(buf)
      space == Capacity - write_pos
  IN  /\ WriteAble(len)
      /\ IF write_pos + len >= Capacity
           THEN /\ head' = Copied(Copied(head, write_pos, buf, 0, space),
                                  0, buf, space, len - space)
                /\ write_pos' = len - space
           ELSE /\ head' = Copied(head, write_pos, buf, 0, len)
                /\ write_pos' = write_pos + len
      /\ size' = size + len
      /\ UNCHANGED <<read_pos, out>>

(* ringbuf_read: all of len or nothing. *)
Read(len) ==
  LET space == Capacity - read_pos
  IN  /\ IF ReadAble(len)
           THEN /\ IF read_pos + len >= Capacity
                     THEN /\ out' = [i \in 1 .. len |->
                                       IF i <= space THEN head[read_pos + i - 1]
                                                     ELSE head[i - space - 1]]
                          /\ read_pos' = len - space
                     ELSE /\ out' = [i \in 1 .. len |-> head[read_pos + i - 1]]
                          /\ read_pos' = read_pos + len
                /\ size' = size - len
           ELSE out' = <<>> /\ UNCHANGED <<read_pos, size>>
      /\ UNCHANGED <<head, write_pos>>

(* Faulty variant: the size is updated before the read position, which      *)
(* then sees no excess.                                                     *)
WriteUpdateSwapped(len) ==
  LET excess == len - (Capacity - size)
  IN  /\ ~WriteAble(len)
      /\ size' = size - excess
      /\ UNCHANGED <<head, read_pos, write_pos, out>>

(* ringbuf_write_update: drop the oldest bytes until len more fit. *)
WriteUpdate(len) ==
  LET excess == len - (Capacity - size)
  IN  /\ ~WriteAble(len)
      /\ read_pos' = (read_pos + excess) % Capacity
      /\ size' = size - excess
      /\ UNCHANGED <<head, write_pos, out>>

Clear ==
  /\ head' = [i \in Slots |-> Zero]
  /\ read_pos' = 0 /\ write_pos' = 0 /\ size' = 0
  /\ UNCHANGED out

Next ==
  \/ \E buf \in Chunks : Write(buf)
  \/ \E len \in 1 .. MaxLen : Read(len) \/ WriteUpdate(len)
  \/ Clear

Spec == Init /\ [][Next]_vars

-----------------------------------------------------------------------------
(* The two positions and the size agree: the byte after the last one held   *)
(* is where the next write goes, full and empty buffers included.           *)
PositionsAgree ==
  \/ write_pos = read_pos + size
  \/ write_pos = read_pos + size - Capacity

(* The ring is the bounded queue of FifoBuf: what is read is what was       *)
(* written, in order, less the oldest bytes that were dropped for room.     *)
Contents == [i \in 1 .. size |-> head[(read_pos + i - 1) % Capacity]]

Fifo == INSTANCE FifoBuf WITH queue <- Contents

FifoSpec == Fifo!Spec
=============================================================================
