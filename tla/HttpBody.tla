------------------------------ MODULE HttpBody ------------------------------
(***************************************************************************)
(* aiui_http_api.c from the first byte of a response to the bytes its       *)
(* callers get: the header is collected and searched, a chunked body is     *)
(* taken out of its framing, a counted one is counted, and the receive      *)
(* thread, the weather query or a one-shot request takes the result.        *)
(*                                                                          *)
(* The server's bytes are a fixed sequence chosen in Init, `got` of them    *)
(* were taken from the socket.  cur_body, and header_info before it, always *)
(* hold the bytes of that sequence after `tail`, so only the position is    *)
(* kept; `left` of the code is got - tail - passed.                         *)
(*                                                                          *)
(* A byte is a record: k says what it is (te, cl and other are the bytes of *)
(* a header line; then cr, lf, a size line's line and the body's data), v   *)
(* is the number its line carries, left the bytes of its line or chunk that *)
(* follow it and n the bytes of the body up to and including it.            *)
(***************************************************************************)
EXTENDS Integers, Sequences

CONSTANTS Streams,   \* the responses: [bytes, header, size], see WellFormed
          BufSize,   \* bytes of a caller's buffer, of header_info, of what
                     \* that grows by and of one aiui_socket_recv: 1024
          Callers    \* subset of {"thread", "loop", "once"}

Kinds == {"te", "cl", "other", "cr", "lf", "line", "data"}

Byte == [k : Kinds, v : Nat, left : Nat, n : Nat]

HeaderEndsAt(b, i) ==
  /\ i >= 4
  /\ b[i-3].k = "cr" /\ b[i-2].k = "lf" /\ b[i-1].k = "cr" /\ b[i].k = "lf"

CrLfAt(b, i) == i + 1 <= Len(b) /\ b[i].k = "cr" /\ b[i+1].k = "lf"

(* Byte i of a chunked body and what follows it: the rest of its size line  *)
(* and then a chunk or the end, or the rest of its chunk and then a line.   *)
LineGoesOn(s, i) ==
  LET b == s.bytes
      e == i + b[i].left + 1
  IN  /\ \A j \in i .. e - 1 :
           j <= Len(b) /\ b[j].k = "line" /\ b[j].v = b[i].v /\ b[j].n = b[i].n
      /\ CrLfAt(b, e)
      /\ IF b[i].v = 0
           THEN b[i].n = s.size /\ CrLfAt(b, e + 2)
           ELSE /\ e + 2 <= Len(b) /\ b[e+2].k = "data"
                /\ b[e+2].left = b[i].v - 1 /\ b[e+2].n = b[i].n + 1

ChunkGoesOn(s, i) ==
  LET b == s.bytes
      e == i + b[i].left + 1
  IN  /\ \A j \in i .. e - 1 :
           /\ j <= Len(b) /\ b[j].k = "data"
           /\ b[j].left = e - 1 - j /\ b[j].n = b[i].n + j - i
      /\ CrLfAt(b, e)
      /\ e + 2 <= Len(b) /\ b[e+2].k = "line"
      /\ b[e+2].n = b[i].n + b[i].left

(* A response a server sends: a header, the line that names the framing     *)
(* first and any others behind it, an empty line, and a body framed so.     *)
WellFormed(s) ==
  LET b == s.bytes
      h == s.header
  IN  /\ b \in Seq(Byte)
      /\ s.size \in Nat
      /\ h \in 6 .. Len(b) /\ HeaderEndsAt(b, h)
      /\ \A i \in 1 .. h - 1 : ~HeaderEndsAt(b, i)
      /\ b[1].k \in {"te", "cl", "other"} /\ b[2] = b[1]
      /\ \A i \in 3 .. h : b[i].k \in {"other", "cr", "lf"}
      /\ IF b[1].k = "te"
           THEN /\ h < Len(b) /\ b[h+1].k = "line" /\ b[h+1].n = 0
                /\ \A i \in h + 1 .. Len(b) :
                     /\ b[i].k \in {"line", "data", "cr", "lf"}
                     /\ b[i].k = "line" => LineGoesOn(s, i)
                     /\ b[i].k = "data" => ChunkGoesOn(s, i)
           ELSE /\ s.size = Len(b) - h
                /\ b[1].k = "cl" => b[1].v = s.size
                /\ \A i \in h + 1 .. Len(b) : b[i].k = "data" /\ b[i].n = i - h

(* Size lines of at most five characters: chunks below 1 MiB, not padded.   *)
ShortLines ==
  \A s \in Streams : \A i \in 1 .. Len(s.bytes) :
    s.bytes[i].k = "line" => s.bytes[i].left < 5

ASSUME HttpAssumption ==
  /\ BufSize \in Nat \ {0}
  /\ Callers \subseteq {"thread", "loop", "once"}
  /\ \A s \in Streams : WellFormed(s)

VARIABLES
  stream,               \* the response
  caller,               \* who receives: the thread, the weather query's loop
                        \* or a single aiui_http_recv
  pc,                   \* where the receiver is; "astray" once it wrote past
                        \* one of its buffers, or searched past one and found
                        \* something there
  got,                  \* bytes taken from the socket
  header_capacity,      \* of header_info, while there is one
  tail,                 \* bytes before the ones still held
  passed, len,          \* the locals of _aiui_http_parse_body
  buf,                  \* the caller's buffer, as far as it is filled
  is_header_completed, is_chunked, contentLength, is_over,
  expectedChunkSize, removecrlf, recv_body_len,
  delivered,            \* bytes the caller has
  lost                  \* a receive of the header failed part way

response == <<is_header_completed, is_chunked, contentLength, is_over,
              expectedChunkSize, removecrlf, recv_body_len>>
vars == <<stream, caller, pc, got, header_capacity, tail, passed, len, buf,
          response, delivered, lost>>

Bytes == stream.bytes
left == got - tail - passed

TypeOK ==
  /\ stream \in Streams
  /\ caller \in Callers
  /\ pc \in {"call", "header", "recv", "body", "keep", "return", "done", "astray"}
  /\ got \in 0 .. Len(Bytes)
  /\ header_capacity \in Nat
  /\ tail \in 0 .. got
  /\ passed \in 0 .. got - tail
  /\ len \in 0 .. got
  /\ buf \in Seq(Byte)
  /\ delivered \in Seq(Byte)
  /\ is_header_completed \in BOOLEAN /\ is_chunked \in BOOLEAN
  /\ is_over \in BOOLEAN /\ removecrlf \in BOOLEAN /\ lost \in BOOLEAN
  /\ contentLength \in Nat /\ expectedChunkSize \in Nat /\ recv_body_len \in Nat

Init ==
  /\ stream \in Streams /\ caller \in Callers
  /\ pc = "call"
  /\ got = 0 /\ header_capacity = 0 /\ tail = 0 /\ passed = 0 /\ len = 0
  /\ buf = <<>> /\ delivered = <<>>
  /\ is_header_completed = FALSE /\ is_chunked = FALSE /\ contentLength = 0
  /\ is_over = FALSE /\ expectedChunkSize = 0 /\ removecrlf = FALSE
  /\ recv_body_len = 0
  /\ lost = FALSE

(* _aiui_http_recv is entered. *)
Call ==
  /\ pc = "call"
  /\ pc' = IF ~is_header_completed THEN "header"
           ELSE IF is_over THEN "return" ELSE "recv"
  /\ header_capacity' = IF is_header_completed THEN header_capacity ELSE BufSize
  /\ UNCHANGED <<stream, caller, got, tail, passed, len, buf, response,
                 delivered, lost>>

(* aiui_socket_recv returns n bytes: whatever had arrived, up to its limit. *)
SocketGives(n) == n \in 1 .. BufSize /\ got + n <= Len(Bytes) /\ got' = got + n

(* strstr(header_info, "\r\n\r\n") once the first `to` bytes are there. *)
EndsOfHeader(to) == {i \in tail + 4 .. to : HeaderEndsAt(Bytes, i)}

(* A whole header line of kind k among the bytes searched. *)
Found(k, to) ==
  {i \in tail + 1 .. to - 1 : Bytes[i].k = k /\ Bytes[i+1].k = k}

(* What header_info holds in this round of the do loop: when it is full it  *)
(* grows.  The round asks for BufSize bytes all the same, however little of *)
(* that is free.                                                            *)
HeaderArea ==
  IF got - tail >= header_capacity THEN header_capacity + BufSize
  ELSE header_capacity

(* One round that does not see the end of the header. *)
RecvHeaderPart ==
  /\ pc = "header"
  /\ \E n \in 1 .. BufSize : SocketGives(n)
  /\ got' - tail <= HeaderArea
  /\ EndsOfHeader(got') = {}
  /\ header_capacity' = HeaderArea
  /\ UNCHANGED <<stream, caller, pc, tail, passed, len, buf, response,
                 delivered, lost>>

(* The round that sees it: _aiui_http_parse_header, and what follows the    *)
(* header is the first of the body.  With nothing behind it the body is     *)
(* received in the same call.                                               *)
RecvHeaderEnd ==
  /\ pc = "header"
  /\ \E n \in 1 .. BufSize : SocketGives(n)
  /\ got' - tail <= HeaderArea
  /\ \E e \in EndsOfHeader(got') :
       /\ \A f \in EndsOfHeader(got') : e <= f
       /\ tail' = e /\ len' = got' - e
       /\ pc' = IF e = got' THEN "recv" ELSE "body"
  /\ contentLength' = IF Found("cl", got') = {} THEN contentLength
                      ELSE Bytes[CHOOSE i \in Found("cl", got') : TRUE].v
  /\ is_chunked' = (is_chunked \/ Found("te", got') # {})
  /\ is_header_completed' = TRUE
  /\ header_capacity' = 0
  /\ UNCHANGED <<stream, caller, passed, buf, is_over, expectedChunkSize,
                 removecrlf, recv_body_len, delivered, lost>>

(* The receive writes past header_info; the model does not go on.           *)
HeaderOverrun ==
  /\ pc = "header"
  /\ \E n \in 1 .. BufSize : SocketGives(n)
  /\ got' - tail > HeaderArea
  /\ pc' = "astray"
  /\ UNCHANGED <<stream, caller, header_capacity, tail, passed, len, buf,
                 response, delivered, lost>>

(* Only the first area was zeroed: full, or grown, it ends without a zero   *)
(* byte.  One of the searches for a line's text or the end of the header    *)
(* may go on past it and find what it looks for in other memory; the model  *)
(* does not go on.                                                          *)
HeaderBeyond ==
  /\ pc = "header"
  /\ got' = got \/ \E n \in 1 .. BufSize : SocketGives(n)
  /\ got' - tail \in BufSize .. HeaderArea
  /\ pc' = "astray"
  /\ UNCHANGED <<stream, caller, header_capacity, tail, passed, len, buf,
                 response, delivered, lost>>

(* Three seconds without a byte, or the peer's end: what was collected of   *)
(* the header is freed and the call fails.                                  *)
HeaderTimeout ==
  /\ pc = "header"
  /\ tail' = got /\ lost' = (lost \/ got > tail)
  /\ header_capacity' = 0
  /\ pc' = "return"
  /\ UNCHANGED <<stream, caller, got, passed, len, buf, response, delivered>>

RecvBody ==
  /\ pc = "recv"
  /\ \E n \in 1 .. BufSize : SocketGives(n) /\ len' = n
  /\ pc' = "body"
  /\ UNCHANGED <<stream, caller, header_capacity, tail, passed, buf, response,
                 delivered, lost>>

RecvTimeout ==
  /\ pc = "recv"
  /\ pc' = "return"
  /\ UNCHANGED <<stream, caller, got, header_capacity, tail, passed, len, buf,
                 response, delivered, lost>>

-----------------------------------------------------------------------------
(* _aiui_http_parse_body: a body that is not chunked. *)
CountBody ==
  /\ pc = "body" /\ ~is_chunked
  /\ recv_body_len' = recv_body_len + len
  /\ is_over' = (is_over \/ (contentLength # 0 /\ recv_body_len' >= contentLength))
  /\ buf' = SubSeq(Bytes, tail + 1, got)
  /\ tail' = got
  /\ pc' = "return"
  /\ UNCHANGED <<stream, caller, got, header_capacity, passed, len,
                 is_header_completed, is_chunked, contentLength,
                 expectedChunkSize, removecrlf, delivered, lost>>

(* Faulty variant: the loop waits for a size line's worth of bytes. *)
LoopingFrom5 == pc = "body" /\ is_chunked /\ left > 5 /\ passed < len

(* The loop's condition; the actions below are its body. *)
Looping == pc = "body" /\ is_chunked /\ left > 0 /\ passed < len

save_size == IF left > expectedChunkSize THEN expectedChunkSize ELSE left

(* Faulty variant: the CRLF behind the chunk is not asked for. *)
TakeDataOnly ==
  /\ Looping /\ expectedChunkSize > 0
  /\ Len(buf) + save_size <= BufSize
  /\ buf' = buf \o SubSeq(Bytes, tail + passed + 1, tail + passed + save_size)
  /\ expectedChunkSize' = expectedChunkSize - save_size
  /\ passed' = passed + save_size
  /\ UNCHANGED <<stream, caller, pc, got, header_capacity, tail, len,
                 is_header_completed, is_chunked, contentLength, is_over,
                 removecrlf, recv_body_len, delivered, lost>>

(* Faulty variant: all that is there is taken for the chunk's. *)
TakeAll ==
  /\ Looping /\ expectedChunkSize > 0
  /\ Len(buf) + left <= BufSize
  /\ buf' = buf \o SubSeq(Bytes, tail + passed + 1, got)
  /\ expectedChunkSize' = expectedChunkSize - left
  /\ removecrlf' = (removecrlf \/ left = expectedChunkSize)
  /\ passed' = got - tail
  /\ UNCHANGED <<stream, caller, pc, got, header_capacity, tail, len,
                 is_header_completed, is_chunked, contentLength, is_over,
                 recv_body_len, delivered, lost>>

(* The bytes of a chunk that are there, into the caller's buffer. *)
TakeData ==
  /\ Looping /\ expectedChunkSize > 0
  /\ Len(buf) + save_size <= BufSize
  /\ buf' = buf \o SubSeq(Bytes, tail + passed + 1, tail + passed + save_size)
  /\ expectedChunkSize' = expectedChunkSize - save_size
  /\ removecrlf' = (removecrlf \/ save_size = expectedChunkSize)
  /\ passed' = passed + save_size
  /\ UNCHANGED <<stream, caller, pc, got, header_capacity, tail, len,
                 is_header_completed, is_chunked, contentLength, is_over,
                 recv_body_len, delivered, lost>>

(* cur_body holds what was kept and a whole receive: more than the caller's *)
(* buffer has room for.  The copy writes past it; the model does not go on. *)
TakeDataBeyond ==
  /\ Looping /\ expectedChunkSize > 0
  /\ Len(buf) + save_size > BufSize
  /\ pc' = "astray"
  /\ UNCHANGED <<stream, caller, got, header_capacity, tail, passed, len, buf,
                 response, delivered, lost>>

(* Where the size line starts, behind the CRLF of the chunk before it. *)
LineStart == tail + passed + (IF removecrlf THEN 2 ELSE 0)

LineEnds == {i \in LineStart + 1 .. got - 1 : CrLfAt(Bytes, i)}

(* The CRLF of the last chunk is not whole yet. *)
WaitForCrLf ==
  /\ Looping /\ expectedChunkSize = 0
  /\ removecrlf /\ left < 2
  /\ pc' = "keep"
  /\ UNCHANGED <<stream, caller, got, header_capacity, tail, passed, len, buf,
                 response, delivered, lost>>

(* It is passed over; the size line has no end in what is there, or nothing *)
(* is there.                                                                *)
WaitForLine ==
  /\ Looping /\ expectedChunkSize = 0
  /\ ~(removecrlf /\ left < 2)
  /\ LineEnds = {}
  /\ passed' = LineStart - tail /\ removecrlf' = FALSE
  /\ pc' = "keep"
  /\ UNCHANGED <<stream, caller, got, header_capacity, tail, len, buf,
                 is_header_completed, is_chunked, contentLength, is_over,
                 expectedChunkSize, recv_body_len, delivered, lost>>

(* cur_body ends without a zero byte: the search may go on past it and find *)
(* a CRLF of other memory.  left is then negative, cur_body is dropped and  *)
(* the size is whatever sscanf made of it; the model does not go on.        *)
FindBeyond ==
  /\ Looping /\ expectedChunkSize = 0
  /\ ~(removecrlf /\ left < 2)
  /\ LineEnds = {} /\ LineStart < got
  /\ pc' = "astray"
  /\ UNCHANGED <<stream, caller, got, header_capacity, tail, passed, len, buf,
                 response, delivered, lost>>

(* The size line is read; a size of 0 is the end of the body. *)
TakeLine ==
  /\ Looping /\ expectedChunkSize = 0
  /\ ~(removecrlf /\ left < 2)
  /\ \E e \in LineEnds : (\A f \in LineEnds : e <= f) /\ passed' = e + 1 - tail
  /\ expectedChunkSize' = Bytes[LineStart + 1].v
  /\ removecrlf' = FALSE
  /\ is_over' = (is_over \/ expectedChunkSize' = 0)
  /\ pc' = IF expectedChunkSize' = 0 THEN "keep" ELSE pc
  /\ UNCHANGED <<stream, caller, got, header_capacity, tail, len, buf,
                 is_header_completed, is_chunked, contentLength, recv_body_len,
                 delivered, lost>>

LeaveLoop ==
  /\ pc = "body" /\ is_chunked /\ ~Looping
  /\ pc' = "keep"
  /\ UNCHANGED <<stream, caller, got, header_capacity, tail, passed, len, buf,
                 response, delivered, lost>>

(* Faulty variant: the tail is copied from the start of cur_body. *)
KeepAll ==
  /\ pc = "keep"
  /\ tail' = IF left > 0 /\ ~is_over THEN tail ELSE got
  /\ passed' = 0
  /\ pc' = "return"
  /\ UNCHANGED <<stream, caller, got, header_capacity, len, buf, response,
                 delivered, lost>>

(* What was not used up is kept for the next call, unless the body is over. *)
KeepTail ==
  /\ pc = "keep"
  /\ tail' = IF left > 0 /\ ~is_over THEN tail + passed ELSE got
  /\ passed' = 0
  /\ pc' = "return"
  /\ UNCHANGED <<stream, caller, got, header_capacity, len, buf, response,
                 delivered, lost>>

-----------------------------------------------------------------------------
(* The call returns -1, 0 or the length of buf. *)
Deliver ==
  /\ pc = "return"
  /\ delivered' = delivered \o buf /\ buf' = <<>>
  /\ pc' = IF caller = "once" \/ (caller = "loop" /\ buf = <<>>)
             THEN "done" ELSE "call"
  /\ UNCHANGED <<stream, caller, got, header_capacity, tail, passed, len,
                 response, lost>>

(* The thread's loop condition: it was stopped or the connection is gone.   *)
ThreadEnds ==
  /\ caller = "thread" /\ pc = "call"
  /\ is_over' = TRUE
  /\ pc' = "done"
  /\ UNCHANGED <<stream, caller, got, header_capacity, tail, passed, len, buf,
                 is_header_completed, is_chunked, contentLength,
                 expectedChunkSize, removecrlf, recv_body_len, delivered,
                 lost>>

Next ==
  \/ Call \/ RecvHeaderPart \/ RecvHeaderEnd \/ HeaderOverrun \/ HeaderBeyond
  \/ HeaderTimeout \/ RecvBody \/ RecvTimeout
  \/ CountBody \/ TakeData \/ TakeDataBeyond \/ WaitForCrLf \/ WaitForLine
  \/ FindBeyond \/ TakeLine \/ LeaveLoop \/ KeepTail
  \/ Deliver \/ ThreadEnds

Spec == Init /\ [][Next]_vars

-----------------------------------------------------------------------------
(* Everything handed on so far: the bytes the caller has, then its buffer.  *)
Handed == delivered \o buf

(* As long as the receiver stays in its buffers the caller gets the body    *)
(* and nothing else, in order and without a gap: no byte of the framing,    *)
(* none twice, however the response is cut into receives.  Some cuts lead   *)
(* it out of them (StaysInBuffers), and nothing is said of what follows.    *)
(* (_aiui_http_parse_body; not so once a piece of the header was lost to a  *)
(* timeout, for then the framing may not be known.)                         *)
PassedInOrder ==
  ~lost => \A i \in 1 .. Len(Handed) : Handed[i].k = "data" /\ Handed[i].n = i

(* is_over of a running receiver means the whole body was handed on, so the *)
(* early 0 of _aiui_http_recv never cuts a response short.                  *)
OverMeansWhole ==
  ~lost /\ is_over /\ pc # "done" => Len(Handed) = stream.size

(* No byte waits in cur_body for a receive that will not come: when all of  *)
(* the response was received and the call has returned, the caller has the  *)
(* whole body, and knows it when the framing says so.  The loop's           *)
(* passed < len compares a position in cur_body with the length of the last *)
(* receive alone, which is harmless only while size lines are short: see    *)
(* ShortLines.                                                              *)
NothingStuck ==
  ~lost /\ pc = "call" /\ got = Len(Bytes) =>
    /\ Len(delivered) = stream.size
    /\ Bytes[1].k = "te" \/ (Bytes[1].k = "cl" /\ stream.size > 0) => is_over

(* Not checked, for it does not hold: the receiver reads and writes its own *)
(* buffers only.  With 1024 bytes of buffer, "1000\r" kept, then "\nab" and *)
(* then 1024 bytes of the chunk are 1026 bytes for the caller's buffer; two *)
(* receives of a header may be 2047 bytes for header_info.                  *)
StaysInBuffers == pc # "astray"
=============================================================================
