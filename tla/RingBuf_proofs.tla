--------------------------- MODULE RingBuf_proofs ---------------------------
(* Proofs about RingBuf, for every capacity and every set of bytes. *)
EXTENDS RingBuf, SequenceTheorems, TLAPS

(* A position that has run at most once past the end, brought back. *)
LEMMA ModOnce ==
  ASSUME NEW n \in Nat \ {0}, NEW x \in 0 .. 2 * n - 1
  PROVE  x % n = IF x < n THEN x ELSE x - n
<1>1. CASE x < n
  BY <1>1
<1>2. CASE x >= n
  BY <1>2
<1> QED  BY <1>1, <1>2

LEMMA ChunkLen ==
  ASSUME NEW buf \in Chunks
  PROVE  /\ Len(buf) \in 1 .. MaxLen
         /\ buf \in [1 .. Len(buf) -> Byte]
<1>1. PICK n \in 1 .. MaxLen : buf \in [1 .. n -> Byte]
  BY DEF Chunks
<1>2. Len(buf) = n
  BY <1>1, RingAssumption
<1> QED  BY <1>1, <1>2

LEMMA CopiedType ==
  ASSUME NEW mem \in [Slots -> Byte], NEW at \in Slots, NEW skip \in Nat,
         NEW n \in Nat, NEW len \in Nat, NEW buf \in [1 .. len -> Byte],
         skip + n <= len
  PROVE  Copied(mem, at, buf, skip, n) \in [Slots -> Byte]
  BY RingAssumption DEF Copied, Slots

Inv == TypeOK /\ PositionsAgree

LEMMA WriteInv ==
  ASSUME Inv, NEW buf \in Chunks, Write(buf)
  PROVE  Inv'
<1> DEFINE len == Len(buf)
           space == Capacity - write_pos
<1>1. len \in 1 .. MaxLen /\ buf \in [1 .. len -> Byte]
  BY ChunkLen
<1>2. Capacity - size >= len /\ size' = size + len
  BY DEF Write, WriteAble
<1>3. CASE write_pos + len >= Capacity
  <2>1. /\ head' = Copied(Copied(head, write_pos, buf, 0, space),
                          0, buf, space, len - space)
        /\ write_pos' = len - space
    BY <1>3 DEF Write
  <2>2. space \in 1 .. len
    BY <1>1, <1>3, RingAssumption DEF Inv, TypeOK, Slots
  <2>3. Copied(head, write_pos, buf, 0, space) \in [Slots -> Byte]
    BY <1>1, <2>2, CopiedType DEF Inv, TypeOK
  <2>4. /\ 0 \in Slots /\ len \in Nat /\ space \in Nat /\ len - space \in Nat
        /\ space + (len - space) <= len
    BY <1>1, <2>2, RingAssumption DEF Slots
  <2>5. head' \in [Slots -> Byte]
    <3> HIDE DEF len, space
    <3> QED  BY <1>1, <2>1, <2>3, <2>4, CopiedType
  <2>6. UNCHANGED <<read_pos, out>>
    BY DEF Write
  <2> HIDE DEF len
  <2> QED  BY <1>1, <1>2, <1>3, <2>1, <2>2, <2>5, <2>6, RingAssumption
           DEF Inv, TypeOK, Slots, PositionsAgree
<1>4. CASE ~(write_pos + len >= Capacity)
  <2>1. head' = Copied(head, write_pos, buf, 0, len) /\ write_pos' = write_pos + len
    BY <1>4 DEF Write
  <2>2. head' \in [Slots -> Byte]
    BY <1>1, <2>1, CopiedType DEF Inv, TypeOK
  <2>3. UNCHANGED <<read_pos, out>>
    BY DEF Write
  <2> HIDE DEF len
  <2> QED  BY <1>1, <1>2, <1>4, <2>1, <2>2, <2>3, RingAssumption
           DEF Inv, TypeOK, Slots, PositionsAgree
<1> QED  BY <1>3, <1>4

LEMMA ReadInv ==
  ASSUME Inv, NEW len \in 1 .. MaxLen, Read(len)
  PROVE  Inv'
<1> DEFINE space == Capacity - read_pos
<1>1. CASE ReadAble(len) /\ read_pos + len >= Capacity
  <2>1. /\ read_pos' = len - space /\ size' = size - len
        /\ out' = [i \in 1 .. len |->
                     IF i <= space THEN head[read_pos + i - 1]
                                   ELSE head[i - space - 1]]
        /\ UNCHANGED <<head, write_pos>>
    BY <1>1 DEF Read
  <2>2. out' \in Chunks
    <3>1. \A i \in 1 .. len :
            (IF i <= space THEN head[read_pos + i - 1]
                           ELSE head[i - space - 1]) \in Byte
      BY <1>1, RingAssumption DEF Inv, TypeOK, Slots
    <3>2. out' \in [1 .. len -> Byte]
      BY <2>1, <3>1
    <3> QED  BY <3>2 DEF Chunks
  <2> QED  BY <1>1, <2>1, <2>2, RingAssumption
           DEF Inv, TypeOK, Slots, PositionsAgree, ReadAble
<1>2. CASE ReadAble(len) /\ ~(read_pos + len >= Capacity)
  <2>1. /\ read_pos' = read_pos + len /\ size' = size - len
        /\ out' = [i \in 1 .. len |-> head[read_pos + i - 1]]
        /\ UNCHANGED <<head, write_pos>>
    BY <1>2 DEF Read
  <2>2. out' \in Chunks
    <3>1. \A i \in 1 .. len : head[read_pos + i - 1] \in Byte
      BY <1>2, RingAssumption DEF Inv, TypeOK, Slots
    <3>2. out' \in [1 .. len -> Byte]
      BY <2>1, <3>1
    <3> QED  BY <3>2 DEF Chunks
  <2> QED  BY <1>2, <2>1, <2>2, RingAssumption
           DEF Inv, TypeOK, Slots, PositionsAgree, ReadAble
<1>3. CASE ~ReadAble(len)
  BY <1>3 DEF Inv, TypeOK, PositionsAgree, Read
<1> QED  BY <1>1, <1>2, <1>3

LEMMA WriteUpdateInv ==
  ASSUME Inv, NEW len \in 1 .. MaxLen, WriteUpdate(len)
  PROVE  Inv'
<1> DEFINE excess == len - (Capacity - size)
<1>1. excess \in 1 .. size
  BY RingAssumption DEF Inv, TypeOK, WriteUpdate, WriteAble
<1> DEFINE pos == read_pos + excess
<1>2. pos \in 0 .. 2 * Capacity - 1
  BY <1>1, RingAssumption DEF Inv, TypeOK, Slots
<1>3. read_pos' = IF pos < Capacity THEN pos ELSE pos - Capacity
  <2>1. read_pos' = pos % Capacity
    BY DEF WriteUpdate
  <2>2. \A x \in 0 .. 2 * Capacity - 1 :
          x % Capacity = IF x < Capacity THEN x ELSE x - Capacity
    BY ModOnce, RingAssumption
  <2> HIDE DEF pos
  <2> QED  BY <1>2, <2>1, <2>2
<1>4. size' = size - excess /\ UNCHANGED <<head, write_pos, out>>
  BY DEF WriteUpdate
<1> QED  BY <1>1, <1>2, <1>3, <1>4, RingAssumption
         DEF Inv, TypeOK, Slots, PositionsAgree

(* The read position, the write position and the size never disagree, for   *)
(* any capacity and any sequence of calls.                                  *)
THEOREM Positions == Spec => [](TypeOK /\ PositionsAgree)
<1>1. Init => Inv
  BY RingAssumption DEF Init, Inv, TypeOK, PositionsAgree, Slots
<1>2. Inv /\ [Next]_vars => Inv'
  <2> SUFFICES ASSUME Inv, [Next]_vars PROVE Inv'
    OBVIOUS
  <2>1. ASSUME NEW buf \in Chunks, Write(buf) PROVE Inv'
    BY <2>1, WriteInv
  <2>2. ASSUME NEW len \in 1 .. MaxLen, Read(len) PROVE Inv'
    BY <2>2, ReadInv
  <2>3. ASSUME NEW len \in 1 .. MaxLen, WriteUpdate(len) PROVE Inv'
    BY <2>3, WriteUpdateInv
  <2>4. CASE Clear
    BY <2>4, RingAssumption DEF Clear, Inv, TypeOK, PositionsAgree, Slots
  <2>5. CASE UNCHANGED vars
    BY <2>5 DEF vars, Inv, TypeOK, PositionsAgree
  <2> QED  BY <2>1, <2>2, <2>3, <2>4, <2>5 DEF Next
<1> QED  BY <1>1, <1>2, PTL DEF Spec, Inv

(* Every variable of the ring keeps its type: no call leaves a position     *)
(* past the end of the buffer.                                              *)
THEOREM TypeCorrect == Spec => []TypeOK
BY Positions, PTL

-----------------------------------------------------------------------------
(* The refinement: RingBuf implements the bounded queue FifoBuf.            *)

(* The slot k bytes after position pos. *)
Slot(pos, k) == IF pos + k < Capacity THEN pos + k ELSE pos + k - Capacity

(* The n bytes from position pos on, as Contents reads them. *)
Held(mem, pos, n) == [i \in 1 .. n |-> mem[(pos + i - 1) % Capacity]]

LEMMA HeldSeq ==
  ASSUME NEW mem \in [Slots -> Byte], NEW pos \in Slots,
         NEW n \in 0 .. Capacity
  PROVE  /\ Held(mem, pos, n) \in Seq(Byte)
         /\ Len(Held(mem, pos, n)) = n
         /\ \A i \in 1 .. n : Held(mem, pos, n)[i] = mem[Slot(pos, i - 1)]
<1>1. ASSUME NEW i \in 1 .. n
      PROVE  /\ (pos + i - 1) % Capacity = Slot(pos, i - 1)
             /\ Slot(pos, i - 1) \in Slots
  <2> DEFINE x == pos + i - 1
  <2>1. x \in 0 .. 2 * Capacity - 1
    BY <1>1, RingAssumption DEF Slots
  <2>2. \A y \in 0 .. 2 * Capacity - 1 :
          y % Capacity = IF y < Capacity THEN y ELSE y - Capacity
    BY ModOnce, RingAssumption
  <2>3. x % Capacity = IF x < Capacity THEN x ELSE x - Capacity
    <3> HIDE DEF x
    <3> QED  BY <2>1, <2>2
  <2>4. Slot(pos, i - 1) = IF x < Capacity THEN x ELSE x - Capacity
    BY RingAssumption DEF Slot, Slots
  <2> QED  BY <2>1, <2>3, <2>4, RingAssumption DEF Slots
<1>2. Held(mem, pos, n) = [i \in 1 .. n |-> mem[Slot(pos, i - 1)]]
  BY <1>1 DEF Held
<1>3. n \in Nat /\ \A i \in 1 .. n : mem[Slot(pos, i - 1)] \in Byte
  BY <1>1, RingAssumption
<1>4. Held(mem, pos, n) \in [1 .. n -> Byte]
  BY <1>2, <1>3
<1> QED  BY <1>2, <1>3, <1>4

(* Two sequences with the same length and the same elements are equal.      *)
LEMMA SameSeq ==
  ASSUME NEW s \in Seq(Byte), NEW t \in Seq(Byte), NEW n \in Nat,
         Len(s) = n, Len(t) = n, \A i \in 1 .. n : s[i] = t[i]
  PROVE  s = t
  BY SeqEqual

(* The remainder the code takes is the slot the model names.                *)
LEMMA SlotMod ==
  ASSUME NEW pos \in Slots, NEW k \in 0 .. Capacity
  PROVE  (pos + k) % Capacity = Slot(pos, k)
<1> DEFINE x == pos + k
<1>1. x \in 0 .. 2 * Capacity - 1
  BY RingAssumption DEF Slots
<1>2. \A y \in 0 .. 2 * Capacity - 1 :
        y % Capacity = IF y < Capacity THEN y ELSE y - Capacity
  BY ModOnce, RingAssumption
<1>3. x % Capacity = IF x < Capacity THEN x ELSE x - Capacity
  <2> HIDE DEF x
  <2> QED  BY <1>1, <1>2
<1> QED  BY <1>3, RingAssumption DEF Slot, Slots

(* Two moves round the ring are one move by their sum.                      *)
LEMMA SlotSum ==
  ASSUME NEW pos \in Slots, NEW n \in 0 .. Capacity, NEW m \in 1 .. n,
         NEW i \in 1 .. n - m
  PROVE  /\ Slot(Slot(pos, m), i - 1) = Slot(pos, m + i - 1)
         /\ m + i \in 1 .. n
<1>1. CASE pos + m < Capacity
  BY <1>1, RingAssumption DEF Slot, Slots
<1>2. CASE ~(pos + m < Capacity)
  BY <1>2, RingAssumption DEF Slot, Slots
<1> QED  BY <1>1, <1>2

(* Dropping the first m bytes held is a move of the read position by m.     *)
LEMMA HeldDrop ==
  ASSUME NEW mem \in [Slots -> Byte], NEW pos \in Slots,
         NEW n \in 0 .. Capacity, NEW m \in 1 .. n
  PROVE  Held(mem, Slot(pos, m), n - m) = SubSeq(Held(mem, pos, n), m + 1, n)
<1> DEFINE old == Held(mem, pos, n)
           new == Held(mem, Slot(pos, m), n - m)
           cut == SubSeq(old, m + 1, n)
<1>1. n \in Nat /\ m \in Nat \ {0} /\ n - m \in 0 .. Capacity /\ n - m \in Nat
  BY RingAssumption
<1>2. Slot(pos, m) \in Slots
  BY <1>1, RingAssumption DEF Slot, Slots
<1>3. /\ old \in Seq(Byte) /\ Len(old) = n
      /\ \A i \in 1 .. n : old[i] = mem[Slot(pos, i - 1)]
  BY HeldSeq
<1>4. /\ new \in Seq(Byte) /\ Len(new) = n - m
      /\ \A i \in 1 .. n - m : new[i] = mem[Slot(Slot(pos, m), i - 1)]
  BY <1>1, <1>2, HeldSeq
<1> HIDE DEF old, new
<1>5. /\ cut \in Seq(Byte) /\ Len(cut) = n - m
      /\ \A i \in 1 .. n - m : cut[i] = old[m + i]
  BY <1>1, <1>3, SubSeqProperties
<1> HIDE DEF cut
<1>6. ASSUME NEW i \in 1 .. n - m PROVE new[i] = cut[i]
  <2>1. /\ Slot(Slot(pos, m), i - 1) = Slot(pos, m + i - 1)
        /\ m + i \in 1 .. n
    BY SlotSum
  <2>2. old[m + i] = mem[Slot(pos, m + i - 1)]
    BY <1>3, <2>1
  <2> QED  BY <1>4, <1>5, <2>1, <2>2
<1>7. new = cut
  BY <1>1, <1>4, <1>5, <1>6, SameSeq
<1> QED  BY <1>7 DEF new, cut, old

LEMMA InitFifo == Init => Fifo!Init
<1> SUFFICES ASSUME Init PROVE Fifo!Init
  OBVIOUS
<1>1. Contents = <<>>
  BY DEF Init, Contents
<1> QED  BY <1>1 DEF Init, Fifo!Init

LEMMA WriteFifo ==
  ASSUME Inv, Inv', NEW buf \in Chunks, Write(buf)
  PROVE  Fifo!Put(buf)
<1> DEFINE len == Len(buf)
           space == Capacity - write_pos
<1>1. len \in 1 .. MaxLen /\ buf \in [1 .. len -> Byte] /\ buf \in Seq(Byte)
  BY ChunkLen
<1>2. /\ Capacity - size >= len /\ size' = size + len
      /\ read_pos' = read_pos /\ out' = out
  BY DEF Write, WriteAble
<1>3. /\ size \in Nat /\ Capacity \in Nat \ {0} /\ size <= Capacity
      /\ read_pos \in 0 .. Capacity - 1 /\ write_pos \in 0 .. Capacity - 1
      /\ Slots = 0 .. Capacity - 1
  BY RingAssumption DEF Inv, TypeOK, Slots
<1>4. ASSUME NEW i \in 1 .. size
      PROVE  head'[Slot(read_pos, i - 1)] = head[Slot(read_pos, i - 1)]
  <2>1. /\ Slot(read_pos, i - 1) \in Slots
        /\ ~(write_pos <= Slot(read_pos, i - 1)
             /\ Slot(read_pos, i - 1) < write_pos + len)
        /\ write_pos + len >= Capacity =>
             ~(Slot(read_pos, i - 1) < len - space)
    <3> HIDE DEF len
    <3> QED  BY <1>1, <1>2, <1>3, <1>4 DEF Inv, PositionsAgree, Slot
  <2>2. CASE write_pos + len >= Capacity
    <3>1. head' = Copied(Copied(head, write_pos, buf, 0, space),
                         0, buf, space, len - space)
      BY <2>2 DEF Write
    <3>2. write_pos + space <= write_pos + len
      BY <2>2, <1>1, <1>3
    <3> HIDE DEF len
    <3> QED  BY <1>1, <1>3, <2>1, <2>2, <3>1, <3>2 DEF Copied
  <2>3. CASE ~(write_pos + len >= Capacity)
    <3>1. head' = Copied(head, write_pos, buf, 0, len)
      BY <2>3 DEF Write
    <3> HIDE DEF len
    <3> QED  BY <1>1, <1>3, <2>1, <3>1 DEF Copied
  <2> QED  BY <2>2, <2>3
<1>5. ASSUME NEW i \in size + 1 .. size + len
      PROVE  head'[Slot(read_pos, i - 1)] = buf[i - size]
  <2> DEFINE j == Slot(read_pos, i - 1)
  <2>1. /\ j \in Slots
        /\ j = IF write_pos + (i - size - 1) < Capacity
                 THEN write_pos + (i - size - 1)
                 ELSE write_pos + (i - size - 1) - Capacity
    <3> HIDE DEF len
    <3> QED  BY <1>1, <1>2, <1>3, <1>5 DEF Inv, PositionsAgree, Slot
  <2>2. CASE write_pos + len >= Capacity
    <3>1. head' = Copied(Copied(head, write_pos, buf, 0, space),
                         0, buf, space, len - space)
      BY <2>2 DEF Write
    <3>2. head'[j] = IF 0 <= j /\ j < len - space THEN buf[space + j + 1]
                     ELSE IF write_pos <= j /\ j < write_pos + space
                       THEN buf[j - write_pos + 1] ELSE head[j]
      <4> HIDE DEF len, j
      <4> QED  BY <1>1, <1>3, <2>1, <3>1 DEF Copied
    <3>3. CASE write_pos + (i - size - 1) < Capacity
      <4>1. ~(j < len - space) /\ write_pos <= j /\ j < write_pos + space
            /\ j - write_pos + 1 = i - size
        <5> HIDE DEF len, j
        <5> QED  BY <1>1, <1>2, <1>3, <1>5, <2>1, <3>3
      <4> HIDE DEF len, j
      <4>2. head'[j] = buf[i - size]
        BY <3>2, <4>1
      <4> QED  BY <4>2 DEF j
    <3>4. CASE ~(write_pos + (i - size - 1) < Capacity)
      <4>1. 0 <= j /\ j < len - space /\ space + j + 1 = i - size
        <5> HIDE DEF len, j
        <5> QED  BY <1>1, <1>2, <1>3, <1>5, <2>1, <3>4
      <4> HIDE DEF len, j
      <4>2. head'[j] = buf[i - size]
        BY <3>2, <4>1
      <4> QED  BY <4>2 DEF j
    <3> QED  BY <3>3, <3>4
  <2>3. CASE ~(write_pos + len >= Capacity)
    <3>1. head' = Copied(head, write_pos, buf, 0, len)
      BY <2>3 DEF Write
    <3>2. head'[j] = IF write_pos <= j /\ j < write_pos + len
                       THEN buf[j - write_pos + 1] ELSE head[j]
      <4> HIDE DEF len, j
      <4> QED  BY <1>1, <1>3, <2>1, <3>1 DEF Copied
    <3>3. /\ write_pos <= j /\ j < write_pos + len
          /\ j - write_pos + 1 = i - size
      <4> HIDE DEF len, j
      <4> QED  BY <1>1, <1>2, <1>3, <1>5, <2>1, <2>3
    <3> HIDE DEF len, j
    <3>4. head'[j] = buf[i - size]
      BY <3>2, <3>3
    <3> QED  BY <3>4 DEF j
  <2> QED  BY <2>2, <2>3
<1>6. /\ Contents \in Seq(Byte) /\ Len(Contents) = size
      /\ \A i \in 1 .. size : Contents[i] = head[Slot(read_pos, i - 1)]
  BY HeldSeq DEF Inv, TypeOK, Contents, Held
<1>7. /\ Contents' \in Seq(Byte) /\ Len(Contents') = size + len
      /\ \A i \in 1 .. size + len : Contents'[i] = head'[Slot(read_pos, i - 1)]
  BY <1>2, HeldSeq DEF Inv, TypeOK, Contents, Held
<1>8. /\ Contents \o buf \in Seq(Byte) /\ Len(Contents \o buf) = size + len
      /\ \A i \in 1 .. size + len :
           (Contents \o buf)[i] = IF i <= size THEN Contents[i] ELSE buf[i - size]
  BY <1>1, <1>6, ConcatProperties
<1>9. Contents' = Contents \o buf
  <2>1. ASSUME NEW i \in 1 .. size + len
        PROVE  Contents'[i] = (Contents \o buf)[i]
    <3> HIDE DEF len
    <3>1. /\ Contents'[i] = head'[Slot(read_pos, i - 1)]
          /\ (Contents \o buf)[i] = IF i <= size THEN Contents[i]
                                                 ELSE buf[i - size]
      BY <1>7, <1>8
    <3> HIDE DEF len
    <3>2. CASE i <= size
      <4>1. i \in 1 .. size
        BY <1>1, <1>3, <3>2
      <4>2. head'[Slot(read_pos, i - 1)] = Contents[i]
        BY <1>4, <1>6, <4>1
      <4> QED  BY <3>1, <3>2, <4>2
    <3>3. CASE ~(i <= size)
      <4>1. i \in size + 1 .. size + len
        BY <1>1, <1>3, <3>3
      <4>2. head'[Slot(read_pos, i - 1)] = buf[i - size]
        BY <1>5, <4>1
      <4> QED  BY <3>1, <3>3, <4>2
    <3> QED  BY <3>2, <3>3
  <2>2. size + len \in Nat
    BY <1>1, <1>3
  <2> QED  BY <1>7, <1>8, <2>1, <2>2, SameSeq
<1> QED  BY <1>1, <1>2, <1>6, <1>9, RingAssumption DEF Fifo!Put

LEMMA ReadFifo ==
  ASSUME Inv, Inv', NEW len \in 1 .. MaxLen, Read(len)
  PROVE  Fifo!Take(len)
<1>1. /\ Contents \in Seq(Byte) /\ Len(Contents) = size
      /\ \A i \in 1 .. size : Contents[i] = head[Slot(read_pos, i - 1)]
  BY HeldSeq DEF Inv, TypeOK, Contents, Held
<1>2. /\ size \in Nat /\ Capacity \in Nat \ {0} /\ size <= Capacity
      /\ read_pos \in 0 .. Capacity - 1 /\ len \in Nat \ {0}
      /\ Slots = 0 .. Capacity - 1
  BY RingAssumption DEF Inv, TypeOK, Slots
<1>3. CASE ReadAble(len)
  <2>1. /\ head' = head /\ size' = size - len /\ len <= size
        /\ read_pos' = Slot(read_pos, len)
    BY <1>2, <1>3 DEF Read, ReadAble, Slot
  <2>2. out' = SubSeq(Contents, 1, len)
    <3>1. /\ SubSeq(Contents, 1, len) \in Seq(Byte)
          /\ Len(SubSeq(Contents, 1, len)) = len
          /\ \A i \in 1 .. len : SubSeq(Contents, 1, len)[i] = Contents[i]
      BY <1>1, <1>2, <2>1, SubSeqProperties
    <3>2. \A i \in 1 .. len : out'[i] = head[Slot(read_pos, i - 1)]
      BY <1>2, <1>3 DEF Read, Slot
    <3>3. out' \in [1 .. len -> Byte]
      <4>1. out' = [i \in 1 .. len |-> out'[i]]
        BY <1>3 DEF Read
      <4>2. ASSUME NEW i \in 1 .. len  PROVE out'[i] \in Byte
        <5>1. Slot(read_pos, i - 1) \in Slots
          BY <1>2, <2>1 DEF Slot
        <5> QED  BY <3>2, <5>1 DEF Inv, TypeOK
      <4> QED  BY <4>1, <4>2
    <3>4. out' \in Seq(Byte) /\ Len(out') = len
      BY <1>2, <3>3
    <3>5. \A i \in 1 .. len : out'[i] = SubSeq(Contents, 1, len)[i]
      BY <1>1, <1>2, <2>1, <3>1, <3>2
    <3> QED  BY <1>2, <3>1, <3>4, <3>5, SameSeq
  <2>3. Contents' = SubSeq(Contents, len + 1, size)
    <3>1. len \in 1 .. size
      BY <1>2, <2>1
    <3>2. head \in [Slots -> Byte] /\ read_pos \in Slots /\ size \in 0 .. Capacity
      BY DEF Inv, TypeOK
    <3>3. Held(head, Slot(read_pos, len), size - len) =
            SubSeq(Held(head, read_pos, size), len + 1, size)
      BY <3>1, <3>2, HeldDrop
    <3>4. /\ Contents = Held(head, read_pos, size)
          /\ Contents' = Held(head', read_pos', size')
      BY DEF Contents, Held
    <3> QED  BY <2>1, <3>3, <3>4
  <2> QED  BY <1>1, <2>1, <2>2, <2>3 DEF Fifo!Take
<1>4. CASE ~ReadAble(len)
  <2>1. UNCHANGED <<head, read_pos, size>> /\ out' = <<>>
    BY <1>4 DEF Read
  <2>2. Contents' = Contents
    BY <2>1 DEF Contents
  <2> QED  BY <1>1, <1>2, <1>4, <2>1, <2>2 DEF Fifo!Take, ReadAble
<1> QED  BY <1>3, <1>4

LEMMA WriteUpdateFifo ==
  ASSUME Inv, Inv', NEW len \in 1 .. MaxLen, WriteUpdate(len)
  PROVE  Fifo!MakeRoom(len)
<1> DEFINE excess == len - (Capacity - size)
<1>1. /\ Contents \in Seq(Byte) /\ Len(Contents) = size
      /\ \A i \in 1 .. size : Contents[i] = head[Slot(read_pos, i - 1)]
  BY HeldSeq DEF Inv, TypeOK, Contents, Held
<1>2. /\ size \in Nat /\ Capacity \in Nat \ {0} /\ size <= Capacity
      /\ read_pos \in 0 .. Capacity - 1 /\ len \in Nat \ {0}
      /\ excess \in 1 .. size /\ size + len > Capacity
      /\ excess = size + len - Capacity
  BY RingAssumption DEF Inv, TypeOK, Slots, WriteUpdate, WriteAble
<1>3. /\ head' = head /\ out' = out /\ size' = size - excess
      /\ read_pos' = Slot(read_pos, excess)
  <2>1. read_pos' = (read_pos + excess) % Capacity
    BY DEF WriteUpdate
  <2>2. excess \in 0 .. Capacity /\ read_pos \in Slots
    BY <1>2 DEF Inv, TypeOK
  <2>3. (read_pos + excess) % Capacity = Slot(read_pos, excess)
    <3> HIDE DEF excess
    <3> QED  BY <2>2, SlotMod
  <2>4. head' = head /\ out' = out /\ size' = size - excess
    BY DEF WriteUpdate
  <2> QED  BY <2>1, <2>3, <2>4
<1>4. Contents' = SubSeq(Contents, excess + 1, size)
  <2> HIDE DEF excess
  <2>1. head \in [Slots -> Byte] /\ read_pos \in Slots /\ size \in 0 .. Capacity
    BY DEF Inv, TypeOK
  <2>2. Held(head, Slot(read_pos, excess), size - excess) =
          SubSeq(Held(head, read_pos, size), excess + 1, size)
    BY <1>2, <2>1, HeldDrop
  <2>3. /\ Contents = Held(head, read_pos, size)
        /\ Contents' = Held(head', read_pos', size')
    BY DEF Contents, Held
  <2> QED  BY <1>3, <2>2, <2>3
<1> QED  BY <1>1, <1>2, <1>3, <1>4 DEF Fifo!MakeRoom

(* For every capacity the ring is a bounded first-in first-out queue. *)
THEOREM RingIsFifo == Spec => FifoSpec
<1>1. Init => Fifo!Init
  BY InitFifo
<1>2. Inv /\ Inv' /\ [Next]_vars => [Fifo!Next]_<<Contents, out>>
  <2> SUFFICES ASSUME Inv, Inv', [Next]_vars
               PROVE  [Fifo!Next]_<<Contents, out>>
    OBVIOUS
  <2>1. ASSUME NEW buf \in Chunks, Write(buf)
        PROVE  [Fifo!Next]_<<Contents, out>>
    BY <2>1, WriteFifo DEF Fifo!Next, Chunks, Fifo!Chunks
  <2>2. ASSUME NEW len \in 1 .. MaxLen, Read(len)
        PROVE  [Fifo!Next]_<<Contents, out>>
    BY <2>2, ReadFifo DEF Fifo!Next
  <2>3. ASSUME NEW len \in 1 .. MaxLen, WriteUpdate(len)
        PROVE  [Fifo!Next]_<<Contents, out>>
    BY <2>3, WriteUpdateFifo DEF Fifo!Next
  <2>4. CASE Clear
    <3>1. Contents' = <<>> /\ out' = out
      BY <2>4 DEF Clear, Contents
    <3> QED  BY <3>1 DEF Fifo!Next, Fifo!Empty
  <2>5. CASE UNCHANGED vars
    BY <2>5 DEF vars, Contents
  <2> QED  BY <2>1, <2>2, <2>3, <2>4, <2>5 DEF Next
<1>3. Spec => []Inv
  BY Positions, PTL DEF Inv
<1> QED  BY <1>1, <1>2, <1>3, PTL DEF Spec, FifoSpec, Fifo!Spec
=============================================================================
