-------------------------- MODULE HttpBody_proofs --------------------------
(***************************************************************************)
(* Proofs about HttpBody, for every set of well-formed responses and every  *)
(* receive size.                                                            *)
(***************************************************************************)
EXTENDS HttpBody, SequenceTheorems, TLAPS

Te == Bytes[1].k = "te"

(* The next byte is the first of the r that are left of a chunk, m bytes of *)
(* the body being before it; or the next byte is of a size line.            *)
DataAt(p, r, m) ==
  /\ p + 1 <= Len(Bytes) /\ Bytes[p+1].k = "data"
  /\ Bytes[p+1].left = r - 1 /\ Bytes[p+1].n = m + 1

LineAt(p, m) ==
  p + 1 <= Len(Bytes) /\ Bytes[p+1].k = "line" /\ Bytes[p+1].n = m

LEMMA StreamFacts ==
  ASSUME TypeOK
  PROVE  /\ WellFormed(stream)
         /\ Bytes \in Seq(Byte) /\ Len(Bytes) \in Nat
         /\ \A i \in 1 .. Len(Bytes) :
              /\ Bytes[i] \in Byte
              /\ Bytes[i].k \in Kinds /\ Bytes[i].v \in Nat
              /\ Bytes[i].left \in Nat /\ Bytes[i].n \in Nat
         /\ stream.header \in 6 .. Len(Bytes) /\ stream.size \in Nat
<1>1. WellFormed(stream) /\ Bytes \in Seq(Byte)
  BY HttpAssumption DEF TypeOK, WellFormed, Bytes
<1>2. \A i \in 1 .. Len(Bytes) : Bytes[i] \in Byte
  BY <1>1, ElementOfSeq
<1>3. \A x \in Byte : x.k \in Kinds /\ x.v \in Nat /\ x.left \in Nat /\ x.n \in Nat
  BY DEF Byte
<1>4. stream.header \in 6 .. Len(Bytes) /\ stream.size \in Nat
  BY <1>1 DEF WellFormed, Bytes
<1> QED  BY <1>1, <1>2, <1>3, <1>4, LenProperties

LEMMA Positions ==
  ASSUME TypeOK
  PROVE  /\ Len(Bytes) \in Nat /\ got \in Nat /\ tail \in Nat
         /\ passed \in Nat /\ len \in Nat /\ left \in Nat
         /\ got <= Len(Bytes) /\ tail <= got /\ tail + passed <= got
         /\ len <= got /\ left = got - (tail + passed)
<1>1. Len(Bytes) \in Nat
  BY StreamFacts
<1>2. got \in Nat /\ got <= Len(Bytes)
  BY <1>1 DEF TypeOK
<1>3. tail \in Nat /\ tail <= got /\ len \in Nat /\ len <= got
  BY <1>2 DEF TypeOK
<1>4. passed \in Nat /\ tail + passed <= got
  BY <1>2, <1>3 DEF TypeOK
<1> QED  BY <1>1, <1>2, <1>3, <1>4 DEF left

(* The bytes of a chunk are the body's next ones, and behind the last of    *)
(* them come a CRLF and a size line.                                        *)
LEMMA ChunkFacts ==
  ASSUME TypeOK, Te, NEW p \in Nat, p >= stream.header,
         NEW r \in Nat \ {0}, NEW m \in Nat, DataAt(p, r, m), NEW c \in 1 .. r
  PROVE  /\ p + c <= Len(Bytes)
         /\ \A i \in 1 .. c : Bytes[p+i].k = "data" /\ Bytes[p+i].n = m + i
         /\ c < r => DataAt(p + c, r - c, m + c)
         /\ c = r => CrLfAt(Bytes, p + c + 1) /\ LineAt(p + c + 2, m + c)
<1>1. ChunkGoesOn(stream, p + 1)
  BY StreamFacts DEF WellFormed, DataAt, Bytes, Te
<1>2. \A j \in p + 1 .. p + r :
         /\ j <= Len(Bytes) /\ Bytes[j].k = "data"
         /\ Bytes[j].left = p + r - j /\ Bytes[j].n = m + j - p
  BY <1>1, StreamFacts DEF ChunkGoesOn, DataAt, Bytes
<1>3. CrLfAt(Bytes, p + r + 1) /\ LineAt(p + r + 2, m + r)
  BY <1>1, StreamFacts DEF ChunkGoesOn, DataAt, LineAt, Bytes
<1>4. p + c \in p + 1 .. p + r
  OBVIOUS
<1>5. p + c <= Len(Bytes)
  BY <1>2, <1>4
<1>6. \A i \in 1 .. c : Bytes[p+i].k = "data" /\ Bytes[p+i].n = m + i
  <2> TAKE i \in 1 .. c
  <2>1. p + i \in p + 1 .. p + r /\ m + (p + i) - p = m + i
    OBVIOUS
  <2> QED  BY <2>1, <1>2
<1>7. ASSUME c < r  PROVE DataAt(p + c, r - c, m + c)
  <2>1. p + c + 1 \in p + 1 .. p + r
    BY <1>7
  <2>2. p + r - (p + c + 1) = r - c - 1 /\ m + (p + c + 1) - p = m + c + 1
    OBVIOUS
  <2> QED  BY <2>1, <2>2, <1>2 DEF DataAt
<1> QED  BY <1>3, <1>5, <1>6, <1>7

(* A size line ends with the first CRLF behind its start; then comes the    *)
(* chunk, or the body is over.                                              *)
LEMMA LineFacts ==
  ASSUME TypeOK, Te, NEW p \in Nat, p >= stream.header,
         NEW m \in Nat, LineAt(p, m)
  PROVE  LET e == p + Bytes[p+1].left + 2
             v == Bytes[p+1].v
         IN  /\ e \in Nat /\ v \in Nat /\ p + 2 <= e
             /\ CrLfAt(Bytes, e)
             /\ \A i \in p + 1 .. e - 1 : ~CrLfAt(Bytes, i)
             /\ v = 0 => m = stream.size /\ CrLfAt(Bytes, e + 2)
             /\ v # 0 => DataAt(e + 1, v, m)
<1> DEFINE e == p + Bytes[p+1].left + 2
           v == Bytes[p+1].v
<1>1. LineGoesOn(stream, p + 1)
  <2>1. /\ Len(Bytes) \in Nat /\ stream.header \in Nat
        /\ p + 1 <= Len(Bytes) /\ Bytes[p+1].k = "line"
    BY StreamFacts DEF LineAt
  <2>2. p + 1 \in stream.header + 1 .. Len(Bytes)
    BY <2>1
  <2>3. \A i \in stream.header + 1 .. Len(Bytes) :
          Bytes[i].k = "line" => LineGoesOn(stream, i)
    BY StreamFacts DEF WellFormed, Bytes, Te
  <2> QED  BY <2>1, <2>2, <2>3
<1>2. /\ Bytes[p+1].left \in Nat
      /\ e \in Nat /\ v \in Nat /\ p + 2 <= e
  BY StreamFacts DEF LineAt
<1>3. e = (p + 1) + Bytes[p+1].left + 1
  BY <1>2
<1>4. /\ \A j \in p + 1 .. e - 1 : Bytes[j].k = "line"
      /\ CrLfAt(Bytes, e)
  BY <1>1, <1>3 DEF LineGoesOn, Bytes
<1>5. v = 0 => m = stream.size /\ CrLfAt(Bytes, e + 2)
  BY <1>1, <1>3 DEF LineGoesOn, LineAt, Bytes
<1>6. v # 0 => DataAt(e + 1, v, m)
  <2>1. e + 2 = (e + 1) + 1
    BY <1>2
  <2> QED  BY <1>1, <1>3, <2>1 DEF LineGoesOn, LineAt, DataAt, Bytes
<1>7. \A i \in p + 1 .. e - 1 : ~CrLfAt(Bytes, i)
  BY <1>4 DEF CrLfAt
<1> QED  BY <1>2, <1>4, <1>5, <1>6, <1>7

(* The header is seen exactly when its last byte is there, and what it says *)
(* of the framing is read from it, as long as none of it was lost.          *)
LEMMA HeaderFacts ==
  ASSUME TypeOK, tail = 0, NEW to \in 0 .. Len(Bytes)
  PROVE  /\ to < stream.header => EndsOfHeader(to) = {}
         /\ to >= stream.header =>
              /\ stream.header \in EndsOfHeader(to)
              /\ \A e \in EndsOfHeader(to) : stream.header <= e
              /\ \A k \in {"te", "cl"} :
                   Found(k, to) = IF Bytes[1].k = k THEN {1} ELSE {}
<1>1. /\ HeaderEndsAt(Bytes, stream.header)
      /\ \A i \in 1 .. stream.header - 1 : ~HeaderEndsAt(Bytes, i)
  BY StreamFacts DEF WellFormed, Bytes
<1>2. EndsOfHeader(to) = {i \in 4 .. to : HeaderEndsAt(Bytes, i)}
  BY DEF EndsOfHeader
<1>3. to < stream.header => EndsOfHeader(to) = {}
  BY <1>1, <1>2, StreamFacts
<1>4. ASSUME to >= stream.header
      PROVE  /\ stream.header \in EndsOfHeader(to)
             /\ \A e \in EndsOfHeader(to) : stream.header <= e
  BY <1>1, <1>2, <1>4, StreamFacts
<1>5. ASSUME to >= stream.header, NEW k \in {"te", "cl"}
      PROVE  Found(k, to) = IF Bytes[1].k = k THEN {1} ELSE {}
  <2>1. Bytes[2] = Bytes[1] /\ \A i \in 3 .. stream.header : Bytes[i].k \in {"other", "cr", "lf"}
    BY StreamFacts DEF WellFormed, Bytes
  <2>2. \A i \in stream.header + 1 .. Len(Bytes) :
           Bytes[i].k \in {"line", "data", "cr", "lf"}
    BY StreamFacts DEF WellFormed, Bytes
  <2>3. ASSUME NEW i \in 3 .. Len(Bytes)  PROVE Bytes[i].k # k
    <3>1. Len(Bytes) \in Nat /\ stream.header \in Nat
      BY StreamFacts
    <3>2. i \in 3 .. stream.header \/ i \in stream.header + 1 .. Len(Bytes)
      BY <3>1
    <3> QED  BY <2>1, <2>2, <3>2
  <2>4. Found(k, to) = {i \in 1 .. to - 1 : Bytes[i].k = k /\ Bytes[i+1].k = k}
    BY DEF Found
  <2>5. \A i \in 1 .. to - 1 : i # 1 => i + 1 \in 3 .. Len(Bytes)
    BY StreamFacts
  <2>6. 1 \in 1 .. to - 1
    BY <1>5, StreamFacts
  <2> QED  BY <2>1, <2>3, <2>4, <2>5, <2>6
<1> QED  BY <1>3, <1>4, <1>5

-----------------------------------------------------------------------------
(* Where the receiver can be with what.                                     *)
Flow ==
  /\ pc \in {"call", "header", "recv", "return"} => passed = 0
  /\ pc \in {"call", "header", "recv"} => buf = <<>>
  /\ pc = "body" => ~is_over /\ (~is_chunked => passed = 0 /\ buf = <<>>)
  /\ pc \in {"recv", "astray"} => ~is_over
  /\ pc = "keep" => is_chunked
  /\ pc = "header" => ~is_header_completed
  /\ pc \in {"recv", "body", "keep"} => is_header_completed
  /\ ~is_header_completed =>
       /\ ~is_chunked /\ contentLength = 0 /\ expectedChunkSize = 0
       /\ ~removecrlf /\ recv_body_len = 0 /\ passed = 0
       /\ buf = <<>> /\ delivered = <<>>
       /\ pc # "done" => ~is_over

(* What SubSeq and \o do to the sequences of bytes. *)
LEMMA PieceFacts ==
  ASSUME TypeOK, NEW a \in Nat, NEW b \in Nat, b <= Len(Bytes), a <= b
  PROVE  /\ SubSeq(Bytes, a + 1, b) \in Seq(Byte)
         /\ Len(SubSeq(Bytes, a + 1, b)) = b - a
         /\ \A i \in 1 .. b - a : SubSeq(Bytes, a + 1, b)[i] = Bytes[a+i]
<1>1. \A i \in a + 1 .. b : Bytes[i] \in Byte
  BY StreamFacts
<1>2. /\ SubSeq(Bytes, a + 1, b) \in Seq(Byte)
      /\ Len(SubSeq(Bytes, a + 1, b)) = IF a + 1 <= b THEN b - (a + 1) + 1 ELSE 0
      /\ \A i \in 1 .. b - (a + 1) + 1 :
           SubSeq(Bytes, a + 1, b)[i] = Bytes[a + 1 + i - 1]
  BY <1>1, SubSeqProperties
<1>3. /\ b - (a + 1) + 1 = b - a
      /\ \A i \in 1 .. b - a : a + 1 + i - 1 = a + i
  OBVIOUS
<1> QED  BY <1>2, <1>3

(* A chunk's size line starts within the bytes held, and ends there.        *)
LEMMA LineEndFacts ==
  ASSUME TypeOK, NEW e \in LineEnds
  PROVE  /\ LineStart \in Nat /\ LineStart + 1 \in 1 .. Len(Bytes)
         /\ e \in LineStart + 1 .. got - 1 /\ e + 1 - tail \in 0 .. got - tail
<1>1. LineStart \in Nat /\ LineStart >= tail /\ tail \in Nat
      /\ got \in Nat /\ got <= Len(Bytes)
  BY StreamFacts DEF TypeOK, LineStart
<1> QED  BY <1>1, StreamFacts DEF LineEnds

-----------------------------------------------------------------------------
LEMMA InitType == Init => TypeOK /\ Flow
<1> SUFFICES ASSUME Init PROVE TypeOK /\ Flow
  OBVIOUS
<1>1. WellFormed(stream) /\ Len(Bytes) \in Nat
  BY HttpAssumption, LenProperties DEF Init, WellFormed, Bytes
<1>2. <<>> \in Seq(Byte)
  BY EmptySeq
<1>3. /\ got \in 0 .. Len(Bytes) /\ tail \in 0 .. got
      /\ passed \in 0 .. got - tail /\ len \in 0 .. got
  BY <1>1 DEF Init
<1>4. TypeOK
  BY <1>2, <1>3 DEF Init, TypeOK
<1>5. Flow
  BY DEF Init, Flow
<1> QED  BY <1>4, <1>5

(* What each step preserves: the types, and where the receiver can be.      *)
LEMMA HeaderType ==
  ASSUME TypeOK, Flow,
         RecvHeaderPart \/ RecvHeaderEnd \/ HeaderOverrun \/ HeaderBeyond
           \/ HeaderTimeout
  PROVE  TypeOK' /\ Flow'
<1>1. /\ Bytes' = Bytes /\ got' \in got .. Len(Bytes)
      /\ Len(Bytes) \in Nat /\ got \in Nat /\ tail \in Nat
      /\ header_capacity' \in Nat
  <2>1. /\ Bytes' = Bytes
        /\ got' = got \/ \E n \in 1 .. BufSize : SocketGives(n)
    BY DEF RecvHeaderPart, RecvHeaderEnd, HeaderOverrun, HeaderBeyond,
           HeaderTimeout, Bytes
  <2>2. Len(Bytes) \in Nat /\ got \in Nat /\ tail \in Nat
    BY Positions
  <2>3. got' \in got .. Len(Bytes)
    BY <2>1, <2>2, Positions DEF SocketGives
  <2>4. header_capacity' \in {0, header_capacity, HeaderArea}
    BY DEF RecvHeaderPart, RecvHeaderEnd, HeaderOverrun, HeaderBeyond,
           HeaderTimeout
  <2>5. header_capacity \in Nat /\ HeaderArea \in Nat
    BY HttpAssumption DEF HeaderArea, TypeOK
  <2> QED  BY <2>1, <2>2, <2>3, <2>4, <2>5
<1>2. CASE RecvHeaderPart
  <2>1. /\ got' \in 0 .. Len(Bytes) /\ tail \in 0 .. got'
        /\ passed \in 0 .. got' - tail /\ len \in 0 .. got'
    BY <1>1, Positions
  <2>2. TypeOK'
    BY <1>1, <1>2, <2>1 DEF RecvHeaderPart, TypeOK, response
  <2> QED  BY <1>2, <2>2 DEF RecvHeaderPart, Flow, response
<1>3. CASE RecvHeaderEnd
  <2>1. PICK e \in EndsOfHeader(got') :
          tail' = e /\ len' = got' - e /\ pc' = IF e = got' THEN "recv" ELSE "body"
    BY <1>3 DEF RecvHeaderEnd
  <2>2. e \in 4 .. got'
    BY <2>1, <1>1 DEF EndsOfHeader
  <2>3. contentLength' \in Nat
    <3>1. \A i \in Found("cl", got') : Bytes[i].v \in Nat
      BY <1>1, StreamFacts DEF Found
    <3>2. Found("cl", got') # {} =>
             (CHOOSE i \in Found("cl", got') : TRUE) \in Found("cl", got')
      OBVIOUS
    <3> QED  BY <1>3, <3>1, <3>2 DEF RecvHeaderEnd, TypeOK
  <2>4. is_chunked' \in BOOLEAN
    BY <1>3 DEF RecvHeaderEnd
  <2>5. passed = 0 /\ got' \in Nat
    BY <1>1, <1>3 DEF RecvHeaderEnd, Flow
  <2>6. tail' = e /\ len' = got' - e /\ pc' \in {"recv", "body"}
    BY <2>1
  <2>7. /\ got' \in 0 .. Len(Bytes) /\ e \in 0 .. got'
        /\ 0 \in 0 .. got' - e /\ got' - e \in 0 .. got'
    <3> DEFINE g == got'
               l == Len(Bytes)
    <3>1. g \in Nat /\ l \in Nat /\ g <= l /\ e \in 4 .. g
      BY <1>1, <2>2
    <3> HIDE DEF g, l
    <3>2. g \in 0 .. l /\ e \in 0 .. g /\ 0 \in 0 .. g - e /\ g - e \in 0 .. g
      BY <3>1
    <3> QED  BY <3>2 DEF g, l
  <2>8. TypeOK'
    BY <1>1, <1>3, <2>3, <2>4, <2>5, <2>6, <2>7 DEF RecvHeaderEnd, TypeOK
  <2> QED  BY <1>3, <2>6, <2>8 DEF RecvHeaderEnd, Flow
<1>4. CASE HeaderTimeout
  BY <1>1, <1>4 DEF HeaderTimeout, TypeOK, Flow, response
<1>5. CASE HeaderOverrun \/ HeaderBeyond
  <2>1. /\ pc = "header" /\ pc' = "astray" /\ ~is_header_completed
        /\ UNCHANGED <<stream, caller, tail, passed, len, buf, response,
                       delivered, lost>>
    BY <1>5 DEF HeaderOverrun, HeaderBeyond, Flow
  <2>2. /\ got' \in 0 .. Len(Bytes) /\ tail \in 0 .. got'
        /\ passed \in 0 .. got' - tail /\ len \in 0 .. got'
    BY <1>1, Positions
  <2>3. TypeOK'
    BY <1>1, <2>1, <2>2 DEF TypeOK, response
  <2> QED  BY <2>1, <2>3 DEF Flow, response
<1> QED  BY <1>2, <1>3, <1>4, <1>5

LEMMA ReceiveType ==
  ASSUME TypeOK, Flow, Call \/ RecvBody \/ RecvTimeout
  PROVE  TypeOK' /\ Flow'
<1>1. /\ Bytes' = Bytes /\ got' \in got .. Len(Bytes)
      /\ Len(Bytes) \in Nat /\ got \in Nat /\ tail \in Nat
  BY StreamFacts DEF TypeOK, Call, RecvBody, RecvTimeout, SocketGives, Bytes,
                     response
<1>2. CASE Call
  BY <1>1, <1>2, HttpAssumption DEF Call, TypeOK, Flow, response
<1>3. CASE RecvBody
  <2>1. len' \in 0 .. got'
    BY <1>1, <1>3 DEF RecvBody, SocketGives
  <2>2. /\ got' \in 0 .. Len(Bytes) /\ tail \in 0 .. got'
        /\ passed \in 0 .. got' - tail
    BY <1>1, Positions
  <2>3. TypeOK'
    BY <1>1, <1>3, <2>1, <2>2 DEF RecvBody, TypeOK, response
  <2> QED  BY <1>3, <2>3 DEF RecvBody, Flow, response
<1>4. CASE RecvTimeout
  BY <1>1, <1>4 DEF RecvTimeout, TypeOK, Flow, response
<1> QED  BY <1>2, <1>3, <1>4

LEMMA CountType ==
  ASSUME TypeOK, Flow, CountBody
  PROVE  TypeOK' /\ Flow'
<1>1. SubSeq(Bytes, tail + 1, got) \in Seq(Byte)
  BY PieceFacts, StreamFacts DEF TypeOK
<1>2. Len(Bytes) \in Nat /\ Bytes' = Bytes
  BY StreamFacts DEF CountBody, Bytes
<1>3. is_over' \in BOOLEAN
  BY DEF CountBody, TypeOK
<1> QED  BY <1>1, <1>2, <1>3 DEF CountBody, TypeOK, Flow

LEMMA ParseType ==
  ASSUME TypeOK, Flow,
         TakeData \/ TakeDataBeyond \/ WaitForCrLf \/ WaitForLine
           \/ FindBeyond \/ TakeLine \/ LeaveLoop \/ KeepTail
  PROVE  TypeOK' /\ Flow'
<1>1. Len(Bytes) \in Nat /\ got \in Nat /\ tail \in Nat /\ passed \in Nat
      /\ left \in Nat
  BY StreamFacts DEF TypeOK, left
<1>2. CASE TakeData
  <2>1. /\ save_size \in Nat /\ save_size <= left
        /\ expectedChunkSize - save_size \in Nat
        /\ passed + save_size \in 0 .. got - tail
        /\ tail + passed \in Nat /\ tail + passed + save_size \in Nat
        /\ tail + passed <= tail + passed + save_size
        /\ tail + passed + save_size <= Len(Bytes)
    BY <1>1 DEF TypeOK, left, save_size
  <2>2. SubSeq(Bytes, tail + passed + 1, tail + passed + save_size) \in Seq(Byte)
    <3> DEFINE a == tail + passed
               b == tail + passed + save_size
    <3>1. a \in Nat /\ b \in Nat /\ b <= Len(Bytes) /\ a <= b
      BY <2>1
    <3> HIDE DEF a, b
    <3>2. SubSeq(Bytes, a + 1, b) \in Seq(Byte)
      BY <3>1, PieceFacts
    <3> QED  BY <3>2 DEF a, b
  <2>3. buf \o SubSeq(Bytes, tail + passed + 1, tail + passed + save_size)
          \in Seq(Byte)
    BY <2>2, ConcatProperties DEF TypeOK
  <2>4. /\ buf' \in Seq(Byte) /\ expectedChunkSize' \in Nat
        /\ removecrlf' \in BOOLEAN
        /\ passed' \in 0 .. got - tail
    BY <1>2, <2>1, <2>3 DEF TakeData
  <2>5. Bytes' = Bytes
    BY <1>2 DEF TakeData, Bytes
  <2>6. pc = "body" /\ is_chunked
    BY <1>2 DEF TakeData, Looping
  <2> QED  BY <1>2, <2>4, <2>5, <2>6 DEF TakeData, TypeOK, Flow
<1>3. CASE WaitForCrLf
  BY <1>1, <1>3 DEF WaitForCrLf, Looping, TypeOK, Flow, response, Bytes
<1>4. CASE WaitForLine
  <2>1. LineStart - tail \in 0 .. got - tail
    BY <1>1, <1>4 DEF WaitForLine, Looping, LineStart, left, TypeOK
  <2> QED  BY <1>1, <1>4, <2>1 DEF WaitForLine, Looping, TypeOK, Flow, Bytes
<1>5. CASE FindBeyond \/ TakeDataBeyond
  <2>1. /\ pc = "body" /\ is_chunked /\ pc' = "astray" /\ Bytes' = Bytes
        /\ UNCHANGED <<stream, caller, got, header_capacity, tail, passed, len,
                       buf, response, delivered, lost>>
    BY <1>5 DEF FindBeyond, TakeDataBeyond, Looping, Bytes
  <2>2. TypeOK'
    BY <2>1 DEF TypeOK, response
  <2> QED  BY <2>1, <2>2 DEF Flow, response
<1>6. CASE TakeLine
  <2>1. PICK e \in LineEnds : passed' = e + 1 - tail
    BY <1>6 DEF TakeLine
  <2>2. passed' \in 0 .. got - tail /\ expectedChunkSize' \in Nat
    BY <1>6, <2>1, LineEndFacts, StreamFacts DEF TakeLine
  <2>3. is_over' \in BOOLEAN /\ (is_over' => pc' = "keep")
    BY <1>6 DEF TakeLine, Looping, TypeOK, Flow
  <2>4. pc' \in {"keep", "body"} /\ is_chunked
    BY <1>6 DEF TakeLine, Looping
  <2> QED  BY <1>6, <2>2, <2>3, <2>4 DEF TakeLine, Looping, TypeOK, Flow, Bytes
<1>7. CASE LeaveLoop
  BY <1>1, <1>7 DEF LeaveLoop, TypeOK, Flow, response, Bytes
<1>8. CASE KeepTail
  <2>1. tail' \in 0 .. got
    BY <1>1, <1>8 DEF KeepTail, TypeOK, left
  <2> QED  BY <1>1, <1>8, <2>1 DEF KeepTail, TypeOK, Flow, response, Bytes
<1> QED  BY <1>2, <1>3, <1>4, <1>5, <1>6, <1>7, <1>8

LEMMA DeliverType ==
  ASSUME TypeOK, Flow, Deliver \/ ThreadEnds
  PROVE  TypeOK' /\ Flow'
<1>1. CASE Deliver
  <2>1. delivered' \in Seq(Byte) /\ buf' = <<>> /\ buf' \in Seq(Byte)
    BY <1>1, ConcatProperties, EmptySeq DEF Deliver, TypeOK
  <2>2. buf = <<>> /\ delivered = <<>> => delivered' = <<>>
    BY <1>1, ConcatEmptySeq DEF Deliver, TypeOK
  <2>3. pc = "return" /\ pc' \in {"call", "done"}
    BY <1>1 DEF Deliver
  <2> QED  BY <1>1, <2>1, <2>2, <2>3 DEF Deliver, TypeOK, Flow, response, Bytes
<1>2. CASE ThreadEnds
  BY <1>2 DEF ThreadEnds, TypeOK, Flow, Bytes
<1> QED  BY <1>1, <1>2

LEMMA TypeStep == TypeOK /\ Flow /\ [Next]_vars => TypeOK' /\ Flow'
<1> SUFFICES ASSUME TypeOK, Flow, [Next]_vars  PROVE TypeOK' /\ Flow'
  OBVIOUS
<1>1. CASE UNCHANGED vars
  BY <1>1 DEF vars, response, TypeOK, Flow, Bytes
<1>2. CASE Next
  BY <1>2, HeaderType, ReceiveType, CountType, ParseType, DeliverType DEF Next
<1> QED  BY <1>1, <1>2

(* Every state the receiver reaches has its types; in particular what is    *)
(* left of a chunk is never counted below zero, and the position of the     *)
(* parse stays within the bytes received.  Of what its searches read it     *)
(* says nothing: they do go beyond (HeaderBeyond, FindBeyond).              *)
THEOREM TypeCorrect == Spec => []TypeOK
<1>1. Spec => [](TypeOK /\ Flow)
  BY InitType, TypeStep, PTL DEF Spec
<1> QED  BY <1>1, PTL

-----------------------------------------------------------------------------
(* What the receiver knows of the header once it has seen it. *)
Known ==
  /\ ~is_header_completed => tail = 0 /\ (pc # "astray" => got < stream.header)
  /\ is_header_completed =>
       /\ is_chunked <=> Te
       /\ contentLength = IF Bytes[1].k = "cl" THEN stream.size ELSE 0
       /\ tail >= stream.header

(* The first m bytes of the body, in order. *)
InOrder(s) == \A i \in 1 .. Len(s) : s[i].k = "data" /\ s[i].n = i

(* Without chunks the position is the count of the bytes handed on.  The    *)
(* total is met exactly when is_over says so.                               *)
Counted ==
  is_header_completed /\ ~is_chunked =>
    /\ tail = stream.header + Len(Handed) /\ recv_body_len = Len(Handed)
    /\ pc = "body" => len = got - tail
    /\ pc # "body" => tail = got
    /\ pc \notin {"body", "done"} =>
         (is_over <=> contentLength # 0 /\ recv_body_len >= contentLength)

(* With chunks the parser stands where its state says, m bytes of the body  *)
(* being behind it: in a chunk, before the CRLF of one, or before a size.   *)
StandsAt(p, m) ==
  /\ expectedChunkSize > 0 => ~removecrlf /\ DataAt(p, expectedChunkSize, m)
  /\ expectedChunkSize = 0 /\ removecrlf =>
       CrLfAt(Bytes, p + 1) /\ LineAt(p + 2, m)
  /\ expectedChunkSize = 0 /\ ~removecrlf => LineAt(p, m)

Parsed ==
  is_header_completed /\ is_chunked /\ pc \notin {"done", "astray"} =>
    IF is_over THEN Len(Handed) = stream.size
               ELSE StandsAt(tail + passed, Len(Handed))

Placed == ~lost => Known /\ InOrder(Handed) /\ Counted /\ Parsed

IInv == TypeOK /\ Flow /\ Placed

LEMMA ExtendOrder ==
  ASSUME NEW s \in Seq(Byte), NEW t \in Seq(Byte), InOrder(s),
         \A i \in 1 .. Len(t) : t[i].k = "data" /\ t[i].n = Len(s) + i
  PROVE  InOrder(s \o t) /\ Len(s \o t) = Len(s) + Len(t)
<1>1. /\ Len(s) \in Nat /\ Len(t) \in Nat
      /\ Len(s \o t) = Len(s) + Len(t)
      /\ \A i \in 1 .. Len(s) + Len(t) : (s \o t)[i] =
           IF i <= Len(s) THEN s[i] ELSE t[i - Len(s)]
  BY ConcatProperties, LenProperties
<1>2. ASSUME NEW i \in 1 .. Len(s) + Len(t)
      PROVE  (s \o t)[i].k = "data" /\ (s \o t)[i].n = i
  <2>1. CASE i <= Len(s)
    BY <1>1, <2>1 DEF InOrder
  <2>2. CASE i > Len(s)
    <3>1. i - Len(s) \in 1 .. Len(t) /\ Len(s) + (i - Len(s)) = i
      BY <1>1, <2>2
    <3> QED  BY <1>1, <2>2, <3>1
  <2> QED  BY <1>1, <2>1, <2>2
<1> QED  BY <1>1, <1>2 DEF InOrder

LEMMA HandedFacts ==
  ASSUME TypeOK
  PROVE  Handed \in Seq(Byte) /\ Len(Handed) \in Nat
         /\ (buf = <<>> => Handed = delivered)
  BY ConcatProperties, LenProperties, ConcatEmptySeq DEF TypeOK, Handed

LEMMA InitPlaced == Init => Placed
<1> SUFFICES ASSUME Init  PROVE Placed
  OBVIOUS
<1>1. TypeOK
  BY InitType
<1>2. Handed = <<>>
  BY <1>1, HandedFacts DEF Init
<1>3. InOrder(Handed)
  BY <1>2 DEF InOrder
<1>4. stream.header > 0
  BY <1>1, StreamFacts
<1> QED  BY <1>3, <1>4 DEF Init, Placed, Known, Counted, Parsed

(* A step that leaves the parse alone.                                      *)
LEMMA SameParse ==
  ASSUME IInv, ~lost, TypeOK',
         UNCHANGED <<stream, tail, passed, response, delivered, buf>>
  PROVE  /\ Known /\ InOrder(Handed) /\ Counted /\ Parsed
         /\ Bytes' = Bytes /\ Te' = Te /\ Handed' = Handed /\ InOrder(Handed)'
         /\ StandsAt(tail + passed, Len(Handed))' =
              StandsAt(tail + passed, Len(Handed))
<1>1. Bytes' = Bytes /\ Handed' = Handed
  BY DEF Bytes, Handed
<1> QED  BY <1>1 DEF IInv, Placed, Te, InOrder, StandsAt, DataAt, LineAt, response

LEMMA HeaderPlaced ==
  ASSUME IInv, TypeOK', Flow',
         RecvHeaderPart \/ RecvHeaderEnd \/ HeaderOverrun \/ HeaderBeyond
           \/ HeaderTimeout
  PROVE  Placed'
<1> SUFFICES ASSUME ~lost'  PROVE (Known /\ InOrder(Handed) /\ Counted /\ Parsed)'
  BY DEF Placed
<1>1. /\ ~lost /\ ~is_header_completed /\ tail = 0 /\ got < stream.header
      /\ Handed = <<>> /\ buf = <<>> /\ delivered = <<>> /\ passed = 0
      /\ ~is_chunked /\ contentLength = 0 /\ expectedChunkSize = 0 /\ ~removecrlf
      /\ recv_body_len = 0 /\ ~is_over /\ pc = "header"
  <2>1. pc = "header" /\ ~lost
    BY DEF RecvHeaderPart, RecvHeaderEnd, HeaderOverrun, HeaderBeyond,
           HeaderTimeout, IInv, TypeOK
  <2>2. ~is_header_completed
    BY <2>1 DEF IInv, Flow
  <2>3. /\ buf = <<>> /\ delivered = <<>> /\ passed = 0
        /\ ~is_chunked /\ contentLength = 0 /\ expectedChunkSize = 0
        /\ ~removecrlf /\ recv_body_len = 0 /\ ~is_over
    BY <2>1, <2>2 DEF IInv, Flow
  <2>4. tail = 0 /\ got < stream.header
    BY <2>1, <2>2 DEF IInv, Placed, Known
  <2>5. Handed = <<>>
    BY <2>3, HandedFacts DEF IInv
  <2> QED  BY <2>1, <2>2, <2>3, <2>4, <2>5
<1>2. /\ Bytes' = Bytes /\ Te' = Te /\ Handed' = <<>> /\ stream' = stream
      /\ Len(Handed') = 0 /\ got' \in 0 .. Len(Bytes)
  <2>1. Handed' = delivered' \o buf' /\ Len(<<>>) = 0
    BY DEF Handed
  <2>2. stream' = stream /\ Handed' = Handed
    BY DEF RecvHeaderPart, RecvHeaderEnd, HeaderOverrun, HeaderBeyond,
           HeaderTimeout, Handed
  <2>3. Bytes' = Bytes
    BY <2>2 DEF Bytes
  <2> QED  BY <1>1, <2>1, <2>2, <2>3 DEF TypeOK, Te
<1>3. InOrder(Handed')
  BY <1>2 DEF InOrder
<1>4. CASE RecvHeaderPart
  <2>1. EndsOfHeader(got') = {}
    BY <1>4 DEF RecvHeaderPart
  <2>2. got' < stream.header
    BY <1>1, <1>2, <2>1, HeaderFacts, StreamFacts DEF IInv
  <2> QED  BY <1>1, <1>2, <1>3, <1>4, <2>2
           DEF RecvHeaderPart, Known, Counted, Parsed, response, InOrder
<1>5. CASE HeaderTimeout
  <2>1. got = 0
    <3>1. ~(got > tail)
      BY <1>5 DEF HeaderTimeout
    <3>2. got \in Nat
      BY Positions DEF IInv
    <3> QED  BY <1>1, <3>1, <3>2
  <2> QED  BY <1>1, <1>2, <1>3, <1>5, <2>1
           DEF HeaderTimeout, Known, Counted, Parsed, response, InOrder
<1>6. CASE RecvHeaderEnd
  <2>1. PICK e \in EndsOfHeader(got') :
          /\ \A f \in EndsOfHeader(got') : e <= f
          /\ tail' = e /\ len' = got' - e
          /\ pc' = IF e = got' THEN "recv" ELSE "body"
    BY <1>6 DEF RecvHeaderEnd
  <2>2. e \in Nat /\ EndsOfHeader(got') # {}
    BY <2>1, <1>2, Positions DEF EndsOfHeader, IInv
  <2>3. got' >= stream.header
    BY <1>1, <1>2, <2>2, HeaderFacts, StreamFacts DEF IInv
  <2>4. e = stream.header
    BY <1>1, <1>2, <2>1, <2>2, <2>3, HeaderFacts, StreamFacts DEF IInv
  <2>5. \A k \in {"te", "cl"} : Found(k, got') = IF Bytes[1].k = k THEN {1} ELSE {}
    BY <1>1, <1>2, <2>3, HeaderFacts DEF IInv
  <2>6. is_chunked' <=> Te
    <3>1. is_chunked' = (Found("te", got') # {})
      BY <1>1, <1>6 DEF RecvHeaderEnd
    <3> QED  BY <2>5, <3>1 DEF Te
  <2>7. contentLength' = IF Bytes[1].k = "cl" THEN stream.size ELSE 0
    <3>1. Bytes[1].k = "cl" => Bytes[1].v = stream.size
      BY StreamFacts DEF WellFormed, Bytes, IInv
    <3>2. CASE Bytes[1].k = "cl"
      <4>1. Found("cl", got') = {1}
        BY <2>5, <3>2
      <4>2. contentLength' = Bytes[CHOOSE i \in Found("cl", got') : TRUE].v
        BY <1>6, <4>1 DEF RecvHeaderEnd
      <4> QED  BY <3>1, <3>2, <4>1, <4>2
    <3>3. CASE Bytes[1].k # "cl"
      BY <1>1, <1>6, <2>5, <3>3 DEF RecvHeaderEnd
    <3> QED  BY <3>2, <3>3
  <2>8. is_header_completed' /\ UNCHANGED <<passed, is_over, expectedChunkSize,
                                           removecrlf, recv_body_len>>
    BY <1>6 DEF RecvHeaderEnd
  <2>9. Known'
    BY <1>2, <2>1, <2>4, <2>6, <2>7, <2>8, StreamFacts DEF Known, IInv
  <2>10. Counted'
    <3>1. stream.size \in Nat /\ stream.header \in Nat
      BY StreamFacts DEF IInv
    <3>2. stream.header + 0 = stream.header
      BY <3>1
    <3>3. contentLength' \in Nat
      BY <2>7, <3>1
    <3> QED  BY <1>1, <1>2, <2>1, <2>4, <2>8, <3>1, <3>2, <3>3 DEF Counted
  <2>11. Parsed'
    <3>1. is_chunked' => LineAt(stream.header, 0)
      BY <2>6, StreamFacts DEF WellFormed, Bytes, Te, LineAt, IInv
    <3>2. /\ tail' + passed' = stream.header
          /\ expectedChunkSize' = 0 /\ ~removecrlf' /\ ~is_over'
      BY <1>1, <2>1, <2>4, <2>8, StreamFacts DEF IInv
    <3> QED  BY <1>2, <3>1, <3>2 DEF Parsed, StandsAt, LineAt
  <2> QED  BY <1>3, <2>9, <2>10, <2>11 DEF InOrder
<1>7. CASE HeaderOverrun \/ HeaderBeyond
  <2>1. pc' = "astray" /\ UNCHANGED <<tail, response>>
    BY <1>7 DEF HeaderOverrun, HeaderBeyond
  <2> QED  BY <1>1, <1>2, <1>3, <2>1 DEF Known, Counted, Parsed, response, InOrder
<1> QED  BY <1>4, <1>5, <1>6, <1>7

LEMMA ReceivePlaced ==
  ASSUME IInv, TypeOK', Flow', Call \/ RecvBody \/ RecvTimeout
  PROVE  Placed'
<1> SUFFICES ASSUME ~lost'  PROVE (Known /\ InOrder(Handed) /\ Counted /\ Parsed)'
  BY DEF Placed
<1>1. /\ ~lost /\ stream' = stream /\ tail' = tail /\ passed' = passed
      /\ UNCHANGED response /\ delivered' = delivered /\ buf' = buf
  BY DEF Call, RecvBody, RecvTimeout
<1>2. /\ Known /\ InOrder(Handed) /\ Counted /\ Parsed
      /\ Bytes' = Bytes /\ Te' = Te /\ Handed' = Handed /\ InOrder(Handed)'
      /\ StandsAt(tail + passed, Len(Handed))' = StandsAt(tail + passed, Len(Handed))
  BY <1>1, SameParse
<1>3. pc # "body" /\ pc \notin {"done", "astray"}
  BY DEF Call, RecvBody, RecvTimeout
<1>4. Parsed'
  BY <1>1, <1>2, <1>3 DEF Parsed, response
<1>5. CASE Call
  <2>1. got' = got /\ pc' \in {"header", "return", "recv"}
    BY <1>5 DEF Call
  <2> QED  BY <1>1, <1>2, <1>3, <1>4, <2>1 DEF Known, Counted, response
<1>6. CASE RecvBody
  <2>1. pc' = "body" /\ is_header_completed /\ got' - got = len' /\ got' \in Nat
    BY <1>6, Positions DEF RecvBody, SocketGives, IInv, Flow
  <2>2. Known'
    BY <1>1, <1>2, <2>1 DEF Known, response
  <2>3. Counted'
    BY <1>1, <1>2, <1>3, <2>1 DEF Counted, response
  <2> QED  BY <1>2, <1>4, <2>2, <2>3
<1>7. CASE RecvTimeout
  <2>1. got' = got /\ pc' = "return"
    BY <1>7 DEF RecvTimeout
  <2> QED  BY <1>1, <1>2, <1>3, <1>4, <2>1 DEF Known, Counted, response
<1> QED  BY <1>5, <1>6, <1>7

LEMMA CountPlaced ==
  ASSUME IInv, TypeOK', Flow', CountBody
  PROVE  Placed'
<1> SUFFICES ASSUME ~lost'  PROVE (Known /\ InOrder(Handed) /\ Counted /\ Parsed)'
  BY DEF Placed
<1> DEFINE piece == SubSeq(Bytes, tail + 1, got)
<1>1. /\ ~lost /\ pc = "body" /\ ~is_chunked /\ is_header_completed
      /\ buf = <<>> /\ ~is_over /\ pc' = "return"
      /\ Known /\ InOrder(Handed) /\ Counted
  BY DEF CountBody, IInv, Flow, Placed
<1>2. /\ Handed = delivered /\ tail = stream.header + Len(Handed)
      /\ recv_body_len = Len(Handed) /\ len = got - tail /\ ~Te
  BY <1>1, HandedFacts DEF Counted, Known, IInv
<1>3. /\ tail \in Nat /\ got \in Nat /\ got <= Len(Bytes) /\ tail <= got
      /\ Len(Handed) \in Nat /\ stream.header \in Nat
  BY Positions, HandedFacts, StreamFacts DEF IInv
<1>a. /\ got = stream.header + (Len(Handed) + (got - tail))
      /\ \A i \in 1 .. got - tail :
           /\ tail + i \in stream.header + 1 .. Len(Bytes)
           /\ (tail + i) - stream.header = Len(Handed) + i
  <2> DEFINE h == stream.header
             m == Len(Handed)
             l == Len(Bytes)
  <2>1. /\ h \in Nat /\ m \in Nat /\ l \in Nat /\ got \in Nat /\ tail \in Nat
        /\ got <= l /\ tail <= got /\ tail = h + m
    BY <1>2, <1>3, Positions DEF IInv
  <2> HIDE DEF h, m, l
  <2>2. /\ got = h + (m + (got - tail))
        /\ \A i \in 1 .. got - tail :
             tail + i \in h + 1 .. l /\ (tail + i) - h = m + i
    BY <2>1
  <2> QED  BY <2>2 DEF h, m, l
<1>4. /\ piece \in Seq(Byte) /\ Len(piece) = got - tail
      /\ \A i \in 1 .. got - tail : piece[i] = Bytes[tail+i]
  BY <1>3, PieceFacts DEF IInv
<1>5. \A i \in stream.header + 1 .. Len(Bytes) :
         Bytes[i].k = "data" /\ Bytes[i].n = i - stream.header
  BY <1>2, StreamFacts DEF WellFormed, Te, Bytes, IInv
<1>6. \A i \in 1 .. Len(piece) : piece[i].k = "data" /\ piece[i].n = Len(Handed) + i
  <2> TAKE i \in 1 .. Len(piece)
  <2>1. /\ tail + i \in stream.header + 1 .. Len(Bytes)
        /\ (tail + i) - stream.header = Len(Handed) + i
        /\ i \in 1 .. got - tail
    BY <1>4, <1>a
  <2>2. piece[i] = Bytes[tail+i]
    BY <1>4, <2>1
  <2>3. /\ Bytes[tail+i].k = "data"
        /\ Bytes[tail+i].n = (tail + i) - stream.header
    <3>1. PICK j \in Nat : j = tail + i
      BY <1>3
    <3>2. j \in stream.header + 1 .. Len(Bytes)
      BY <2>1, <3>1
    <3>3. Bytes[j].k = "data" /\ Bytes[j].n = j - stream.header
      BY <1>5, <3>2
    <3>4. j - stream.header = (tail + i) - stream.header
      BY <3>1
    <3>5. Bytes[j] = Bytes[tail+i]
      BY <3>1
    <3> QED  BY <3>3, <3>4, <3>5
  <2> HIDE DEF piece
  <2> QED  BY <2>1, <2>2, <2>3
<1>7. Handed' = Handed \o piece
  BY <1>2 DEF CountBody, Handed
<1>8. Handed \in Seq(Byte)
  BY HandedFacts DEF IInv
<1>9. InOrder(Handed') /\ Len(Handed') = Len(Handed) + Len(piece)
  <2> HIDE DEF piece
  <2> QED  BY <1>1, <1>4, <1>6, <1>7, <1>8, ExtendOrder
<1>10. stream' = stream /\ Bytes' = Bytes /\ Te' = Te /\ got' = got
  BY DEF CountBody, Bytes, Te
<1>11. Known'
  <2>1. /\ is_header_completed' = is_header_completed
        /\ is_chunked' = is_chunked /\ contentLength' = contentLength
        /\ tail' = got
    BY <1>2 DEF CountBody
  <2>2. got \in Nat /\ tail \in Nat /\ stream.header \in Nat /\ tail <= got
    BY <1>3
  <2>3. Known /\ is_header_completed
    BY <1>1, <1>2
  <2> QED  BY <1>10, <2>1, <2>2, <2>3 DEF Known
<1>12. Counted'
  <2>1. /\ recv_body_len' = recv_body_len + len /\ tail' = got /\ got' = got
        /\ is_over' = (contentLength # 0 /\ recv_body_len' >= contentLength)
        /\ contentLength' = contentLength
    BY <1>1 DEF CountBody
  <2>3. recv_body_len' = Len(Handed') /\ tail' = stream'.header + Len(Handed')
    BY <1>2, <1>4, <1>9, <1>10, <2>1, <1>a
  <2> QED  BY <1>1, <2>1, <2>3 DEF Counted
<1>13. Parsed'
  BY <1>1 DEF Parsed, CountBody
<1> QED  BY <1>9, <1>11, <1>12, <1>13 DEF InOrder

(* The parser's loop, while the body is not over: where it stands.          *)
LEMMA LoopFacts ==
  ASSUME IInv, Looping, ~lost
  PROVE  LET p == tail + passed
         IN  /\ pc = "body" /\ is_chunked /\ is_header_completed /\ ~is_over /\ Te
             /\ Known /\ InOrder(Handed)
             /\ StandsAt(p, Len(Handed))
             /\ p \in Nat /\ p >= stream.header /\ p <= Len(Bytes)
             /\ p + left = got /\ left \in Nat \ {0} /\ Len(Handed) \in Nat
             /\ Handed \in Seq(Byte) /\ expectedChunkSize \in Nat
<1>1. pc = "body" /\ is_chunked /\ left > 0
  BY DEF Looping
<1>2. is_header_completed /\ ~is_over
  BY <1>1 DEF IInv, Flow
<1>3. /\ Known /\ InOrder(Handed) /\ Te /\ StandsAt(tail + passed, Len(Handed))
      /\ tail >= stream.header
  BY <1>1, <1>2 DEF IInv, Placed, Known, Parsed
<1>4. /\ tail + passed \in Nat /\ tail + passed >= stream.header
      /\ tail + passed <= Len(Bytes) /\ tail + passed + left = got
      /\ left \in Nat \ {0}
  <2> DEFINE h == stream.header
             l == Len(Bytes)
             f == left
  <2>1. h \in Nat /\ l \in Nat /\ f \in Nat /\ tail >= h /\ f > 0
    BY <1>1, <1>3, Positions, StreamFacts DEF IInv
  <2>2. /\ got \in Nat /\ tail \in Nat /\ passed \in Nat
        /\ got <= l /\ tail + passed <= got /\ f = got - (tail + passed)
    BY Positions DEF IInv
  <2> HIDE DEF h, l, f
  <2>3. /\ tail + passed \in Nat /\ tail + passed >= h /\ tail + passed <= l
        /\ tail + passed + f = got /\ f \in Nat \ {0}
    BY <2>1, <2>2
  <2> QED  BY <2>3 DEF h, l, f
<1>5. Len(Handed) \in Nat /\ Handed \in Seq(Byte) /\ expectedChunkSize \in Nat
  BY HandedFacts DEF IInv, TypeOK
<1> QED  BY <1>1, <1>2, <1>3, <1>4, <1>5

LEMMA TakeDataPlaced ==
  ASSUME IInv, TypeOK', Flow', TakeData
  PROVE  Placed'
<1> SUFFICES ASSUME ~lost'  PROVE (Known /\ InOrder(Handed) /\ Counted /\ Parsed)'
  BY DEF Placed
<1> DEFINE c == save_size
           p == tail + passed
           piece == SubSeq(Bytes, p + 1, p + c)
           m == Len(Handed)
           r == expectedChunkSize
<1>1. ~lost /\ Looping /\ expectedChunkSize > 0
  BY DEF TakeData
<1>2. /\ pc = "body" /\ is_chunked /\ is_header_completed /\ ~is_over /\ Te
      /\ Known /\ InOrder(Handed) /\ StandsAt(p, m)
      /\ p \in Nat /\ p >= stream.header /\ p <= Len(Bytes)
      /\ p + left = got /\ left \in Nat \ {0} /\ m \in Nat
      /\ Handed \in Seq(Byte) /\ r \in Nat
  BY <1>1, LoopFacts
<1>3. r \in Nat \ {0} /\ c \in 1 .. r /\ c \in Nat
  BY <1>1, <1>2 DEF save_size
<1>4. ~removecrlf /\ DataAt(p, r, m)
  BY <1>1, <1>2 DEF StandsAt
<1>5. /\ p + c <= Len(Bytes)
      /\ \A i \in 1 .. c : Bytes[p+i].k = "data" /\ Bytes[p+i].n = m + i
      /\ c < r => DataAt(p + c, r - c, m + c)
      /\ c = r => CrLfAt(Bytes, p + c + 1) /\ LineAt(p + c + 2, m + c)
  <2> HIDE DEF c, p, m, r
  <2> QED  BY <1>2, <1>3, <1>4, ChunkFacts DEF IInv
<1>6. /\ buf' = buf \o piece /\ r' = r - c /\ passed' = passed + c
      /\ removecrlf' = (removecrlf \/ c = r)
      /\ UNCHANGED <<stream, pc, tail, is_over, is_header_completed, is_chunked,
                     contentLength, delivered>>
  BY DEF TakeData
<1>8. /\ piece \in Seq(Byte) /\ Len(piece) = c
      /\ \A i \in 1 .. c : piece[i] = Bytes[p+i]
  <2> DEFINE b == p + c
  <2>1. b \in Nat /\ b <= Len(Bytes) /\ p <= b /\ b - p = c /\ p \in Nat
    BY <1>2, <1>3, <1>5
  <2> HIDE DEF b, p, c
  <2>2. /\ SubSeq(Bytes, p + 1, b) \in Seq(Byte)
        /\ Len(SubSeq(Bytes, p + 1, b)) = b - p
        /\ \A i \in 1 .. b - p : SubSeq(Bytes, p + 1, b)[i] = Bytes[p+i]
    BY <2>1, PieceFacts DEF IInv
  <2> QED  BY <2>1, <2>2 DEF b
<1>9. InOrder(Handed') /\ Len(Handed') = m + c
  <2>1. Handed' = Handed \o piece
    <3>1. buf \in Seq(Byte) /\ delivered \in Seq(Byte)
      BY DEF IInv, TypeOK
    <3>2. Handed' = delivered \o (buf \o piece)
      BY <1>6 DEF Handed
    <3> HIDE DEF piece
    <3> QED  BY <1>8, <3>1, <3>2, ConcatAssociative DEF Handed
  <2>2. \A i \in 1 .. Len(piece) : piece[i].k = "data" /\ piece[i].n = m + i
    <3> HIDE DEF piece, c, p, m
    <3> QED  BY <1>5, <1>8
  <2> HIDE DEF piece, c, p
  <2> QED  BY <1>2, <1>8, <2>1, <2>2, ExtendOrder
<1>10. Bytes' = Bytes /\ Te' = Te /\ stream' = stream
  BY <1>6 DEF Bytes, Te
<1>11. Known'
  BY <1>2, <1>6, <1>10 DEF Known
<1>12. Counted'
  BY <1>2, <1>6 DEF Counted
<1>13. PICK q \in Nat, k \in Nat : q = p + c /\ k = m + c
  BY <1>2, <1>3
<1>b. c # r => ~removecrlf'
  BY <1>4, <1>6
<1>c. c = r => removecrlf'
  BY <1>6
<1>14. tail' + passed' = q /\ Len(Handed') = k /\ expectedChunkSize' = r - c
  <2>1. tail + (passed + c) = q
    BY <1>3, <1>13, Positions DEF IInv
  <2> QED  BY <1>6, <1>9, <1>13, <2>1
<1> HIDE DEF c, r, p, m
<1>15. StandsAt(q, k)'
  <2>1. CASE c < r
    <3>1. expectedChunkSize' > 0 /\ ~removecrlf'
      BY <1>2, <1>3, <1>14, <1>b, <2>1
    <3>2. DataAt(q, expectedChunkSize', k)
      BY <1>5, <1>13, <1>14, <2>1
    <3> QED  BY <1>10, <3>1, <3>2 DEF StandsAt, DataAt
  <2>2. CASE c = r
    <3>1. expectedChunkSize' = 0 /\ removecrlf'
      BY <1>2, <1>3, <1>14, <1>c, <2>2
    <3>2. CrLfAt(Bytes, q + 1) /\ LineAt(q + 2, k)
      BY <1>5, <1>13, <2>2
    <3> QED  BY <1>10, <3>1, <3>2 DEF StandsAt, LineAt
  <2> QED  BY <1>2, <1>3, <2>1, <2>2
<1>16. Parsed'
  BY <1>2, <1>6, <1>14, <1>15 DEF Parsed, p, m
<1> QED  BY <1>9, <1>11, <1>12, <1>16 DEF InOrder

LEMMA WaitPlaced ==
  ASSUME IInv, TypeOK', Flow', WaitForCrLf \/ FindBeyond \/ TakeDataBeyond \/ LeaveLoop
  PROVE  Placed'
<1> SUFFICES ASSUME ~lost'  PROVE (Known /\ InOrder(Handed) /\ Counted /\ Parsed)'
  BY DEF Placed
<1>1. /\ ~lost /\ stream' = stream /\ tail' = tail /\ passed' = passed
      /\ UNCHANGED response /\ delivered' = delivered /\ buf' = buf
      /\ got' = got /\ pc = "body" /\ is_chunked /\ pc' \in {"keep", "astray"}
  BY DEF WaitForCrLf, FindBeyond, TakeDataBeyond, LeaveLoop, Looping
<1>2. /\ Known /\ Parsed
      /\ Bytes' = Bytes /\ Te' = Te /\ Handed' = Handed /\ InOrder(Handed)'
      /\ StandsAt(tail + passed, Len(Handed))' = StandsAt(tail + passed, Len(Handed))
  BY <1>1, SameParse
<1>3. Known' /\ Counted'
  BY <1>1, <1>2 DEF Known, Counted, response
<1>4. Parsed'
  BY <1>1, <1>2 DEF Parsed, response
<1> QED  BY <1>2, <1>3, <1>4

(* The search for a size line begins at one.                                *)
LEMMA LineStartFacts ==
  ASSUME IInv, ~lost, Looping, expectedChunkSize = 0
  PROVE  /\ LineAt(LineStart, Len(Handed))
         /\ LineStart \in Nat /\ LineStart >= stream.header
         /\ tail + (LineStart - tail) = LineStart
<1> DEFINE p == tail + passed
<1>1. /\ StandsAt(p, Len(Handed)) /\ p \in Nat /\ p >= stream.header
      /\ stream.header \in Nat
  BY LoopFacts, StreamFacts DEF IInv
<1>2. LineStart = IF removecrlf THEN p + 2 ELSE p
  BY <1>1 DEF LineStart
<1>3. LineAt(LineStart, Len(Handed))
  BY <1>1, <1>2 DEF StandsAt
<1>4. LineStart \in Nat /\ LineStart >= stream.header
  <2> HIDE DEF p
  <2> QED  BY <1>1, <1>2
<1>5. tail + (LineStart - tail) = LineStart
  BY <1>4, Positions DEF IInv
<1> QED  BY <1>3, <1>4, <1>5

LEMMA WaitForLinePlaced ==
  ASSUME IInv, TypeOK', Flow', WaitForLine
  PROVE  Placed'
<1> SUFFICES ASSUME ~lost'  PROVE (Known /\ InOrder(Handed) /\ Counted /\ Parsed)'
  BY DEF Placed
<1>1. ~lost /\ Looping /\ expectedChunkSize = 0
  BY DEF WaitForLine
<1>2. /\ pc = "body" /\ is_chunked /\ is_header_completed /\ ~is_over
      /\ Known /\ InOrder(Handed)
  BY <1>1, LoopFacts
<1>3. /\ UNCHANGED <<stream, tail, delivered, buf, is_header_completed, is_chunked,
                     contentLength, is_over, expectedChunkSize>>
      /\ ~removecrlf' /\ passed' = LineStart - tail
  BY DEF WaitForLine
<1>4. Bytes' = Bytes /\ Te' = Te /\ Handed' = Handed
  BY <1>3 DEF Bytes, Te, Handed
<1>5. tail' + passed' = LineStart
  BY <1>1, <1>3, LineStartFacts
<1>6. PICK q \in Nat, m \in Nat : q = LineStart /\ m = Len(Handed)
  BY <1>1, LineStartFacts, HandedFacts DEF IInv
<1>7. LineAt(q, m)
  BY <1>1, <1>6, LineStartFacts
<1>8. StandsAt(q, m)'
  BY <1>1, <1>3, <1>4, <1>7 DEF StandsAt, LineAt
<1>9. Parsed'
  BY <1>2, <1>3, <1>4, <1>5, <1>6, <1>8 DEF Parsed
<1> QED  BY <1>2, <1>3, <1>4, <1>9 DEF Known, Counted, InOrder

LEMMA TakeLinePlaced ==
  ASSUME IInv, TypeOK', Flow', TakeLine
  PROVE  Placed'
<1> SUFFICES ASSUME ~lost'  PROVE (Known /\ InOrder(Handed) /\ Counted /\ Parsed)'
  BY DEF Placed
<1>1. ~lost /\ Looping /\ expectedChunkSize = 0
  BY DEF TakeLine
<1>2. /\ pc = "body" /\ is_chunked /\ is_header_completed /\ ~is_over /\ Te
      /\ Known /\ InOrder(Handed)
  BY <1>1, LoopFacts
<1>3. PICK q \in Nat, m \in Nat : q = LineStart /\ m = Len(Handed)
  BY <1>1, LineStartFacts, HandedFacts DEF IInv
<1>4. LineAt(q, m) /\ q >= stream.header
  BY <1>1, <1>3, LineStartFacts
<1>5. PICK x \in Nat, v \in Nat :
        /\ q + 2 <= x /\ v = Bytes[q+1].v
        /\ CrLfAt(Bytes, x) /\ (\A i \in q + 1 .. x - 1 : ~CrLfAt(Bytes, i))
        /\ v = 0 => m = stream.size
        /\ v # 0 => DataAt(x + 1, v, m)
  BY <1>2, <1>3, <1>4, LineFacts DEF IInv
<1>6. PICK e \in LineEnds : (\A f \in LineEnds : e <= f) /\ passed' = e + 1 - tail
  BY DEF TakeLine
<1>7. e = x
  <2>1. e \in q + 1 .. got - 1 /\ CrLfAt(Bytes, e) /\ got \in Nat
    BY <1>3, <1>6, Positions DEF LineEnds, IInv
  <2>2. e \in Nat /\ e >= x
    BY <1>5, <2>1
  <2>3. x \in q + 1 .. got - 1
    BY <1>5, <2>1, <2>2
  <2>4. x \in LineEnds
    BY <1>3, <1>5, <2>3 DEF LineEnds
  <2> QED  BY <1>5, <1>6, <2>2, <2>4
<1>8. /\ UNCHANGED <<stream, tail, delivered, buf, is_header_completed, is_chunked,
                     contentLength>>
      /\ ~removecrlf' /\ expectedChunkSize' = v /\ is_over' = (v = 0)
  BY <1>2, <1>3, <1>5 DEF TakeLine
<1>9. Bytes' = Bytes /\ Te' = Te /\ Handed' = Handed
  BY <1>8 DEF Bytes, Te, Handed
<1>10. tail' + passed' = x + 1
  <2>1. tail \in Nat
    BY Positions DEF IInv
  <2> QED  BY <1>5, <1>6, <1>7, <1>8, <2>1
<1>11. Parsed'
  <2>1. CASE v = 0
    BY <1>3, <1>5, <1>8, <1>9, <2>1 DEF Parsed
  <2>2. CASE v # 0
    <3>1. PICK y \in Nat : y = x + 1
      BY <1>5
    <3>2. StandsAt(y, m)'
      BY <1>5, <1>8, <1>9, <2>2, <3>1 DEF StandsAt, DataAt
    <3> QED  BY <1>3, <1>8, <1>9, <1>10, <2>2, <3>1, <3>2 DEF Parsed
  <2> QED  BY <2>1, <2>2
<1> QED  BY <1>2, <1>8, <1>9, <1>11 DEF Known, Counted, InOrder

LEMMA KeepPlaced ==
  ASSUME IInv, TypeOK', Flow', KeepTail
  PROVE  Placed'
<1> SUFFICES ASSUME ~lost'  PROVE (Known /\ InOrder(Handed) /\ Counted /\ Parsed)'
  BY DEF Placed
<1>1. /\ ~lost /\ pc = "keep" /\ is_chunked /\ is_header_completed
      /\ Known /\ InOrder(Handed) /\ Parsed
  BY DEF KeepTail, IInv, Flow, Placed
<1>2. /\ UNCHANGED <<stream, delivered, buf>> /\ UNCHANGED response
      /\ passed' = 0 /\ pc' = "return"
      /\ tail' = IF left > 0 /\ ~is_over THEN tail + passed ELSE got
  BY DEF KeepTail
<1>3. Bytes' = Bytes /\ Te' = Te /\ Handed' = Handed
  BY <1>2 DEF Bytes, Te, Handed
<1>4. PICK p \in Nat, m \in Nat : p = tail + passed /\ m = Len(Handed)
  BY Positions, HandedFacts DEF IInv
<1>5. ~is_over => tail' = p /\ tail' + passed' = p
  <2>1. left <= 0 => got = p
    BY <1>4, Positions DEF IInv
  <2> QED  BY <1>2, <1>4, <2>1, Positions DEF IInv
<1>6. tail' >= stream.header
  <2>1. tail >= stream.header
    BY <1>1 DEF Known
  <2>2. stream.header \in Nat
    BY StreamFacts DEF IInv
  <2> QED  BY <1>2, <2>1, <2>2, Positions DEF IInv
<1>7. Known'
  BY <1>1, <1>2, <1>3, <1>6 DEF Known, response
<1>8. Counted'
  BY <1>1, <1>2 DEF Counted, response
<1>9. Parsed'
  <2>1. CASE is_over
    BY <1>1, <1>2, <1>3, <2>1 DEF Parsed, response
  <2>2. CASE ~is_over
    <3>1. StandsAt(p, m)
      BY <1>1, <1>4, <2>2 DEF Parsed
    <3>2. StandsAt(p, m)'
      BY <1>2, <1>3, <3>1 DEF StandsAt, DataAt, LineAt, response
    <3> QED  BY <1>2, <1>3, <1>4, <1>5, <2>2, <3>2 DEF Parsed, response
  <2> QED  BY <2>1, <2>2
<1> QED  BY <1>1, <1>3, <1>7, <1>8, <1>9 DEF InOrder

LEMMA DeliverPlaced ==
  ASSUME IInv, TypeOK', Flow', Deliver \/ ThreadEnds
  PROVE  Placed'
<1> SUFFICES ASSUME ~lost'  PROVE (Known /\ InOrder(Handed) /\ Counted /\ Parsed)'
  BY DEF Placed
<1>1. /\ ~lost /\ UNCHANGED <<stream, got, tail, passed, len>>
      /\ UNCHANGED <<is_header_completed, is_chunked, contentLength,
                     expectedChunkSize, removecrlf, recv_body_len>>
      /\ pc \in {"return", "call"} /\ pc' \in {"call", "done"}
  BY DEF Deliver, ThreadEnds, response
<1>2. Known /\ InOrder(Handed) /\ Counted /\ Parsed
  BY <1>1 DEF IInv, Placed
<1>3. Handed' = Handed
  <2>1. CASE Deliver
    <3>1. delivered' = Handed /\ buf' = <<>> /\ delivered' \in Seq(Byte)
      BY <2>1 DEF Deliver, Handed, TypeOK
    <3> QED  BY <3>1, ConcatEmptySeq DEF Handed
  <2>2. CASE ThreadEnds
    BY <2>2 DEF ThreadEnds, Handed
  <2> QED  BY <2>1, <2>2
<1>4. Bytes' = Bytes /\ Te' = Te
  BY <1>1 DEF Bytes, Te
<1>5. is_over' = is_over \/ pc' = "done"
  BY DEF Deliver, ThreadEnds, response
<1>6. Known'
  BY <1>1, <1>2, <1>4 DEF Known
<1>7. Counted'
  BY <1>1, <1>2, <1>3, <1>5 DEF Counted
<1>8. Parsed'
  BY <1>1, <1>2, <1>3, <1>4, <1>5 DEF Parsed, StandsAt, DataAt, LineAt
<1> QED  BY <1>2, <1>3, <1>6, <1>7, <1>8 DEF InOrder

LEMMA StepPlaced == IInv /\ [Next]_vars => IInv'
<1> SUFFICES ASSUME IInv, [Next]_vars  PROVE IInv'
  OBVIOUS
<1>1. TypeOK' /\ Flow'
  BY TypeStep DEF IInv
<1>2. CASE UNCHANGED vars
  <2>1. /\ Bytes' = Bytes /\ Te' = Te /\ Handed' = Handed
    BY <1>2 DEF vars, Bytes, Te, Handed
  <2>2. Placed'
    BY <1>2, <2>1 DEF vars, response, IInv, Placed, Known, InOrder, Counted, Parsed,
                      StandsAt, DataAt, LineAt
  <2> QED  BY <1>1, <2>2 DEF IInv
<1>3. CASE Next
  BY <1>1, <1>3, HeaderPlaced, ReceivePlaced, CountPlaced, TakeDataPlaced,
     WaitPlaced, WaitForLinePlaced, TakeLinePlaced, KeepPlaced, DeliverPlaced
     DEF Next, IInv
<1> QED  BY <1>2, <1>3

LEMMA Invariance == Spec => []IInv
<1>1. Init => IInv
  BY InitType, InitPlaced DEF IInv
<1> QED  BY <1>1, StepPlaced, PTL DEF Spec

(* Whatever the receives are cut into, what the callers get is the bytes of *)
(* the body in their order, none missing and none of the framing, up to     *)
(* where the cut leads the receiver out of its buffers, if it does.         *)
THEOREM InOrderAlways == Spec => []PassedInOrder
<1>1. IInv => PassedInOrder
  BY DEF IInv, Placed, InOrder, PassedInOrder
<1> QED  BY <1>1, Invariance, PTL

(* While the receiver runs, is_over is set only with the whole body handed  *)
(* on: by the last byte of a count or by the size line 0.                   *)
THEOREM OverAlways == Spec => []OverMeansWhole
<1>1. ASSUME IInv, ~lost, is_over, pc # "done"
      PROVE  Len(Handed) = stream.size
  <2>1. is_header_completed /\ pc # "body"
    BY <1>1 DEF IInv, Flow
  <2>2. CASE is_chunked
    <3>1. pc # "astray"
      BY <1>1 DEF IInv, Flow
    <3> QED  BY <1>1, <2>1, <2>2, <3>1 DEF IInv, Placed, Parsed
  <2>3. CASE ~is_chunked
    <3>1. Known /\ Counted
      BY <1>1 DEF IInv, Placed
    <3>2. /\ tail = stream.header + Len(Handed) /\ recv_body_len = Len(Handed)
          /\ contentLength # 0 /\ recv_body_len >= contentLength /\ ~Te
      BY <1>1, <2>1, <2>3, <3>1 DEF Known, Counted
    <3>3. contentLength = stream.size
      BY <2>1, <3>1, <3>2 DEF Known
    <3>4. stream.size = Len(Bytes) - stream.header
      BY <1>1, <3>2, StreamFacts DEF WellFormed, Te, Bytes, IInv
    <3>5. PICK h \in Nat, m \in Nat, l \in Nat :
            h = stream.header /\ m = Len(Handed) /\ l = Len(Bytes)
      BY <1>1, StreamFacts, HandedFacts DEF IInv
    <3>6. tail <= l /\ tail = h + m /\ m >= l - h
      BY <1>1, <3>2, <3>3, <3>4, <3>5, Positions DEF IInv
    <3>7. m = l - h
      BY <3>5, <3>6
    <3> QED  BY <3>4, <3>5, <3>7
  <2> QED  BY <2>2, <2>3
<1>2. IInv => OverMeansWhole
  BY <1>1 DEF OverMeansWhole
<1> QED  BY <1>2, Invariance, PTL

-----------------------------------------------------------------------------
(* What is kept between two receives is less than what a body still needs   *)
(* to come to its end: at most six bytes, and no whole size line.           *)
Settled == expectedChunkSize = 0 /\ ~removecrlf => LineEnds = {}

Kept ==
  ~lost /\ is_header_completed /\ is_chunked /\ ~is_over =>
    /\ pc \in {"call", "recv", "return"} => got - tail <= 6 /\ Settled
    /\ pc = "keep" => left <= 6 /\ Settled
    /\ pc = "body" => /\ got - tail - len <= 6
                      /\ expectedChunkSize = 0 /\ ~removecrlf => Looping

LEMMA AfterLine ==
  ASSUME TypeOK, Te, NEW p \in Nat, p >= stream.header, NEW m \in Nat, LineAt(p, m)
  PROVE  p + 5 <= Len(Bytes)
<1>1. PICK e \in Nat, v \in Nat :
        /\ p + 2 <= e
        /\ v = 0 => CrLfAt(Bytes, e + 2)
        /\ v # 0 => DataAt(e + 1, v, m)
  BY LineFacts
<1>2. CASE v = 0
  <2>1. e + 3 <= Len(Bytes)
    BY <1>1, <1>2 DEF CrLfAt
  <2> QED  BY <1>1, <2>1, Positions
<1>3. CASE v # 0
  <2>1. e + 1 \in Nat /\ e + 1 >= stream.header /\ v \in Nat \ {0} /\ v \in 1 .. v
    BY <1>1, <1>3, StreamFacts
  <2>2. CrLfAt(Bytes, (e + 1) + v + 1)
    BY <1>1, <1>3, <2>1, ChunkFacts
  <2> QED  BY <1>1, <1>3, <2>2, Positions DEF CrLfAt
<1> QED  BY <1>2, <1>3

(* A size line that has no end among the bytes held is one of at most six.  *)
LEMMA OpenLine ==
  ASSUME ShortLines, IInv, ~lost, Looping, expectedChunkSize = 0, LineEnds = {}
  PROVE  got - LineStart <= 6
<1>1. PICK q \in Nat, m \in Nat : q = LineStart /\ m = Len(Handed)
  BY LineStartFacts, HandedFacts DEF IInv
<1>2. LineAt(q, m) /\ q >= stream.header
  BY <1>1, LineStartFacts
<1>3. PICK l \in Nat : l = Bytes[q+1].left /\ l < 5
  <2>1. TypeOK /\ stream \in Streams
    BY DEF IInv, TypeOK
  <2>2. /\ Len(Bytes) \in Nat
        /\ q + 1 <= Len(Bytes) /\ Bytes[q+1].k = "line"
    BY <1>2, <2>1, StreamFacts DEF LineAt
  <2>3. q + 1 \in 1 .. Len(Bytes)
    BY <2>2
  <2>4. Bytes[q+1].left < 5
    BY <2>1, <2>2, <2>3 DEF ShortLines, Bytes
  <2>5. Bytes[q+1].left \in Nat
    BY <2>1, <2>3, StreamFacts
  <2> QED  BY <2>4, <2>5
<1>4. CrLfAt(Bytes, q + l + 2)
  BY <1>1, <1>2, <1>3, LoopFacts, LineFacts DEF IInv
<1>5. q + l + 2 \notin q + 1 .. got - 1
  BY <1>1, <1>4 DEF LineEnds
<1>6. got <= q + 6
  <2>1. got \in Nat
    BY Positions DEF IInv
  <2>2. ~(q + l + 2 <= got - 1)
    BY <1>3, <1>5, <2>1
  <2> QED  BY <1>3, <2>1, <2>2
<1> QED  BY <1>1, <1>6, Positions DEF IInv

LEMMA KeptStep ==
  ASSUME ShortLines, IInv, IInv', Kept, [Next]_vars
  PROVE  Kept'
<1> SUFFICES ASSUME ~lost', is_header_completed', is_chunked', ~is_over'
             PROVE  /\ pc' \in {"call", "recv", "return"} =>
                         got' - tail' <= 6 /\ Settled'
                    /\ pc' = "keep" => left' <= 6 /\ Settled'
                    /\ pc' = "body" =>
                         /\ got' - tail' - len' <= 6
                         /\ expectedChunkSize' = 0 /\ ~removecrlf' => Looping'
  BY DEF Kept
<1>1. CASE UNCHANGED vars
  BY <1>1 DEF vars, response, Kept, Settled, LineEnds, LineStart, Looping, left, Bytes
<1>2. CASE Call \/ RecvTimeout
  <2>1. /\ pc' \in {"header", "recv", "return"} /\ pc \in {"call", "recv"}
        /\ ~lost /\ UNCHANGED <<stream, got, tail, passed, len>>
        /\ UNCHANGED response
    BY <1>2 DEF Call, RecvTimeout
  <2>2. is_header_completed /\ is_chunked /\ ~is_over
    BY <2>1 DEF response
  <2>3. got - tail <= 6 /\ Settled
    BY <2>1, <2>2 DEF Kept
  <2>4. Settled'
    BY <2>1, <2>3 DEF Settled, LineEnds, LineStart, Bytes, response
  <2> QED  BY <2>1, <2>3, <2>4
<1>3. CASE RecvHeaderPart \/ HeaderOverrun \/ HeaderBeyond \/ HeaderTimeout
  BY <1>3 DEF RecvHeaderPart, HeaderOverrun, HeaderBeyond, HeaderTimeout, response,
              IInv, Flow
<1>4. CASE RecvHeaderEnd
  <2>1. len' = got' - tail' /\ pc' = IF tail' = got' THEN "recv" ELSE "body"
    BY <1>4 DEF RecvHeaderEnd
  <2>2. /\ got' \in Nat /\ tail' \in Nat /\ passed' = 0
        /\ tail' <= got' /\ passed' = passed /\ stream' = stream
    BY <1>4, Positions DEF RecvHeaderEnd, IInv, Flow, TypeOK
  <2> DEFINE g == got'
             t == tail'
  <2>a. g \in Nat /\ t \in Nat /\ t <= g
    BY <2>2
  <2> HIDE DEF g, t
  <2>b. /\ t = g => g - t <= 6
        /\ t # g => g - t > 0 /\ g - t - (g - t) <= 6 /\ g - t - 0 > 0
        /\ \A i \in t + 1 .. g - 1 : t # g
        /\ \A i \in t + 2 + 1 .. g - 1 : t # g
    BY <2>a
  <2>3. CASE tail' = got'
    <3>1. LineStart' = t \/ LineStart' = t + 2
      <4>1. LineStart' = t + 0 + (IF removecrlf' THEN 2 ELSE 0)
        BY <2>2 DEF LineStart, t
      <4> QED  BY <2>a, <4>1
    <3>2. LineEnds' = {}
      BY <2>3, <2>b, <3>1 DEF LineEnds, g, t
    <3> QED  BY <2>1, <2>3, <2>b, <3>2 DEF Settled, g, t
  <2>4. CASE tail' # got'
    <3>1. len' > 0 /\ got' - tail' - len' <= 6 /\ left' > 0 /\ passed' < len'
      BY <2>1, <2>2, <2>4, <2>b DEF left, g, t
    <3> QED  BY <2>1, <2>4, <3>1 DEF Looping
  <2> QED  BY <2>3, <2>4
<1>5. CASE RecvBody
  <2>1. PICK n \in 1 .. BufSize : got' = got + n /\ len' = n
    BY <1>5 DEF RecvBody, SocketGives
  <2>2. n \in Nat \ {0}
    BY HttpAssumption
  <2>3. /\ got - tail <= 6 /\ tail' = tail /\ passed' = 0 /\ pc' = "body"
    BY <1>5 DEF RecvBody, response, Kept, IInv, Flow
  <2>4. got' - tail' - len' <= 6 /\ left' > 0 /\ passed' < len'
    BY <2>1, <2>2, <2>3, Positions DEF left, IInv
  <2> QED  BY <2>3, <2>4 DEF Looping
<1>6. CASE CountBody
  BY <1>6 DEF CountBody
<1>7. CASE TakeData
  <2>1. /\ got - tail - len <= 6 /\ UNCHANGED <<pc, got, tail, len>>
        /\ pc = "body"
    BY <1>7 DEF TakeData, Kept, Looping
  <2>2. expectedChunkSize' # 0 \/ removecrlf'
    <3> DEFINE c == save_size
    <3>1. c = expectedChunkSize => removecrlf'
      BY <1>7 DEF TakeData
    <3>2. expectedChunkSize' = expectedChunkSize - c
      BY <1>7 DEF TakeData
    <3>3. c \in Nat /\ expectedChunkSize \in Nat
      BY Positions DEF IInv, TypeOK, save_size
    <3> HIDE DEF c
    <3> QED  BY <3>1, <3>2, <3>3
  <2> QED  BY <2>1, <2>2
<1>8. CASE WaitForCrLf
  BY <1>8, Positions DEF WaitForCrLf, Settled, response, left, IInv
<1>9. CASE WaitForLine
  <2>1. /\ ~lost /\ Looping /\ expectedChunkSize = 0 /\ LineEnds = {}
        /\ pc' = "keep" /\ passed' = LineStart - tail /\ ~removecrlf'
        /\ UNCHANGED <<stream, got, tail>>
    BY <1>9 DEF WaitForLine
  <2>2. got - LineStart <= 6
    BY <2>1, OpenLine
  <2>3. tail' + passed' = LineStart /\ LineStart \in Nat
    BY <2>1, LineStartFacts
  <2>4. LineStart' = LineStart
    BY <2>1, <2>3 DEF LineStart
  <2>5. left' <= 6
    <3>1. got \in Nat /\ tail \in Nat
      BY Positions DEF IInv
    <3>2. left' = (got - tail) - (LineStart - tail)
      BY <2>1 DEF left
    <3> QED  BY <2>2, <2>3, <3>1, <3>2
  <2>6. Settled'
    BY <2>1, <2>4 DEF Settled, LineEnds, Bytes
  <2> QED  BY <2>1, <2>5, <2>6
<1>10. CASE FindBeyond \/ TakeDataBeyond
  BY <1>10 DEF FindBeyond, TakeDataBeyond
<1>11. CASE TakeLine
  <2>1. /\ got - tail - len <= 6 /\ UNCHANGED <<got, tail, len>>
        /\ expectedChunkSize' # 0 /\ pc' = "body"
    BY <1>11 DEF TakeLine, Kept, Looping
  <2> QED  BY <2>1
<1>12. CASE LeaveLoop
  <2>1. /\ pc = "body" /\ ~Looping /\ pc' = "keep" /\ is_chunked
        /\ UNCHANGED <<stream, got, tail, passed, len>> /\ UNCHANGED response
        /\ ~lost
    BY <1>12 DEF LeaveLoop
  <2>2. /\ got - tail - len <= 6
        /\ ~(expectedChunkSize = 0 /\ ~removecrlf)
    BY <2>1 DEF Kept, response
  <2>3. left' = left /\ left <= 6
    <3>1. left <= 0 \/ passed >= len
      BY <2>1, Positions DEF Looping, IInv
    <3> QED  BY <2>1, <2>2, <3>1, Positions DEF left, IInv
  <2> QED  BY <2>1, <2>2, <2>3 DEF Settled, response
<1>13. CASE KeepTail
  <2>1. /\ pc = "keep" /\ pc' = "return" /\ passed' = 0 /\ ~is_over /\ ~lost
        /\ UNCHANGED <<stream, got>> /\ UNCHANGED response
        /\ tail' = IF left > 0 THEN tail + passed ELSE got
    BY <1>13 DEF KeepTail, response
  <2>2. left <= 6 /\ Settled
    BY <2>1 DEF Kept, response, IInv, Flow
  <2>3. CASE left > 0
    <3>1. tail' = tail + passed /\ tail' + passed' = tail + passed
          /\ got' - tail' = left
      BY <2>1, <2>3, Positions DEF IInv
    <3>2. LineEnds' = LineEnds
      BY <2>1, <3>1 DEF LineEnds, LineStart, Bytes, response
    <3> QED  BY <2>1, <2>2, <3>1, <3>2 DEF Settled, response
  <2>4. CASE ~(left > 0)
    <3>1. tail' = got /\ got' - tail' <= 6 /\ got' = got
      BY <2>1, <2>4, Positions DEF IInv
    <3>2. LineStart' >= got' /\ LineStart' \in Nat
      BY <2>1, <3>1, Positions DEF LineStart, IInv
    <3>3. LineEnds' = {}
      BY <3>1, <3>2, Positions DEF LineEnds, IInv
    <3> QED  BY <2>1, <3>1, <3>3 DEF Settled
  <2> QED  BY <2>3, <2>4
<1>14. CASE Deliver
  <2>1. /\ pc = "return" /\ pc' \in {"call", "done"} /\ ~lost
        /\ UNCHANGED <<stream, got, tail, passed, len>> /\ UNCHANGED response
    BY <1>14 DEF Deliver
  <2>2. got - tail <= 6 /\ Settled
    BY <2>1 DEF Kept, response
  <2> QED  BY <2>1, <2>2 DEF Settled, LineEnds, LineStart, Bytes, response
<1>15. CASE ThreadEnds
  BY <1>15 DEF ThreadEnds
<1> QED  BY <1>1, <1>2, <1>3, <1>4, <1>5, <1>6, <1>7, <1>8, <1>9, <1>10, <1>11, <1>12,
            <1>13, <1>14, <1>15 DEF Next

LEMMA KeptInvariance ==
  ASSUME ShortLines
  PROVE  Spec => [](IInv /\ Kept)
<1>1. Init => Kept
  BY DEF Init, Kept
<1>2. IInv /\ Kept /\ IInv' /\ [Next]_vars => Kept'
  BY KeptStep
<1> QED  BY <1>1, <1>2, Invariance, PTL DEF Spec

(* With size lines of at most five characters nothing is left in cur_body   *)
(* when the last byte of a response was received by a receiver still in its *)
(* buffers: the body is with the caller, and it is known to be over.        *)
THEOREM NothingStuckAlways ==
  ASSUME ShortLines
  PROVE  Spec => []NothingStuck
<1>1. ASSUME IInv, Kept, ~lost, pc = "call", got = Len(Bytes)
      PROVE  /\ Len(delivered) = stream.size
             /\ Bytes[1].k = "te" \/ (Bytes[1].k = "cl" /\ stream.size > 0) => is_over
  <2>1. Known /\ Counted /\ Parsed /\ buf = <<>> /\ passed = 0 /\ Handed = delivered
    BY <1>1, HandedFacts DEF IInv, Placed, Flow
  <2>2. PICK h \in Nat, m \in Nat, l \in Nat :
          h = stream.header /\ m = Len(Handed) /\ l = Len(Bytes) /\ h <= l
    BY <1>1, StreamFacts, HandedFacts DEF IInv
  <2>3. is_header_completed
    BY <1>1, <2>1, <2>2 DEF Known
  <2>4. CASE ~is_chunked
    <3>1. /\ tail = h + m /\ recv_body_len = m /\ tail = l /\ ~Te
          /\ is_over <=> contentLength # 0 /\ recv_body_len >= contentLength
          /\ contentLength = IF Bytes[1].k = "cl" THEN stream.size ELSE 0
      BY <1>1, <2>1, <2>2, <2>3, <2>4 DEF Counted, Known
    <3>2. stream.size = l - h
      BY <1>1, <2>2, <3>1, StreamFacts DEF WellFormed, Te, Bytes, IInv
    <3>3. stream.size = m
      BY <2>2, <3>1, <3>2
    <3> QED  BY <2>1, <2>2, <3>1, <3>3 DEF Te
  <2>5. CASE is_chunked
    <3>1. Te /\ tail >= h /\ tail \in Nat /\ tail + passed = tail
      BY <1>1, <2>1, <2>2, <2>3, <2>5, Positions DEF Known, IInv
    <3>2. CASE is_over
      BY <1>1, <2>1, <2>3, <2>5, <3>2 DEF Parsed
    <3>3. CASE ~is_over
      <4>1. l - tail <= 6 /\ Settled /\ StandsAt(tail, m)
        BY <1>1, <2>1, <2>2, <2>3, <2>5, <3>1, <3>3 DEF Kept, Parsed
      <4>2. expectedChunkSize \in Nat
        BY <1>1 DEF IInv, TypeOK
      <4>3. CASE expectedChunkSize > 0
        <5>1. PICK r \in Nat \ {0} : r = expectedChunkSize
          BY <4>2, <4>3
        <5>a. TypeOK /\ Te /\ m \in Nat /\ tail \in Nat /\ tail >= stream.header
          BY <1>1, <2>2, <3>1 DEF IInv
        <5>b. DataAt(tail, r, m) /\ r \in 1 .. r
          BY <4>1, <5>1 DEF StandsAt
        <5>2. LineAt(tail + r + 2, m + r)
          BY <5>a, <5>b, ChunkFacts
        <5>3. (tail + r + 2) + 5 <= l
          BY <1>1, <2>2, <3>1, <5>2, AfterLine DEF IInv
        <5> QED  BY <2>2, <3>1, <4>1, <5>3
      <4>4. CASE expectedChunkSize = 0 /\ removecrlf
        <5>1. LineAt(tail + 2, m)
          BY <4>1, <4>4 DEF StandsAt
        <5>2. (tail + 2) + 5 <= l
          BY <1>1, <2>2, <3>1, <5>1, AfterLine DEF IInv
        <5> QED  BY <2>2, <3>1, <4>1, <5>2
      <4>5. CASE expectedChunkSize = 0 /\ ~removecrlf
        <5>1. LineAt(tail, m) /\ LineEnds = {} /\ LineStart = tail
          BY <3>1, <4>1, <4>5 DEF StandsAt, Settled, LineStart
        <5>2. PICK e \in Nat : tail + 2 <= e /\ CrLfAt(Bytes, e)
          BY <1>1, <2>2, <3>1, <5>1, LineFacts DEF IInv
        <5>3. e \in tail + 1 .. got - 1
          BY <1>1, <2>2, <3>1, <5>2 DEF CrLfAt
        <5> QED  BY <5>1, <5>2, <5>3 DEF LineEnds
      <4> QED  BY <4>2, <4>3, <4>4, <4>5
    <3> QED  BY <3>2, <3>3
  <2> QED  BY <2>4, <2>5
<1>2. IInv /\ Kept => NothingStuck
  BY <1>1 DEF NothingStuck
<1> QED  BY <1>2, KeptInvariance, PTL
=============================================================================
