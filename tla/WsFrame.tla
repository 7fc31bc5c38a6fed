------------------------------ MODULE WsFrame ------------------------------
(***************************************************************************)
(* The frame layer of aiui_websocket_api.c.  Received bytes are parsed one  *)
(* at a time, whatever buffers they came in: a frame is its first byte, a   *)
(* length code with no, two or eight more length bytes, and its payload.    *)
(* Frames without the fin bit are kept in a list and put together when the  *)
(* frame with the bit is complete.  Sent frames are built by the same file. *)
(*                                                                          *)
(* Short and Base stand for 125 and 256.  Payload bytes are numbered in the *)
(* order the server sends them, so that two are equal only if they are one. *)
(***************************************************************************)
EXTENDS Naturals, Sequences, SequencesExt

CONSTANTS Short,      \* the longest length written in the code itself
          Base,       \* the values of a byte of an extended length
          Chunk,      \* AIUI_FRAME_CHUNK_LENGTH
          Opcodes,    \* what the server sends besides data: control opcodes
          Lengths,    \* the payload lengths the server uses; with the header
                      \* they do not exceed the parser's 32 bits
          SendLens,   \* the lengths the application sends, of 32 bits
          MaxSent,    \* bound: messages of the server
          MaxControl, \* bound: its control frames
          MaxParts    \* bound: frames of a message

Square == Base * Base       \* the values of two bytes
Wide   == Square * Square   \* the values of four bytes

ASSUME FrameAssumption ==
  /\ Short \in Nat \ {0} /\ Short + 2 < 128
  /\ Base \in Nat \ {0, 1}
  /\ Chunk \in Nat \ {0}
  /\ Opcodes \subseteq 8 .. 15
  /\ Lengths \subseteq Nat /\ \A n \in Lengths : n + 10 < Wide
  /\ SendLens \subseteq 0 .. Wide - 1

Fin == 128              \* AIUI_WS_FIN

VARIABLES
  raw, capacity,        \* the frame being received and its buffer's size
  prev,                 \* payloads of the message's earlier frames, newest first
  message,              \* what was passed to the message callback, in order
  wire,                 \* bytes the server sent that were not read yet
  sent, open,           \* the server's messages, each a sequence of payloads;
                        \* its unfinished message
  control,              \* control frames it sent
  sending               \* the last frame sent: [len, said], with said the
                        \* length its header gives

vars == <<raw, capacity, prev, message, wire, sent, open, control, sending>>

Blank == 0    \* a byte of a message that is not the server's

(* What is left of a message shorter than its parts: they were copied from  *)
(* the end, the oldest to an address before the message.                    *)
Torn == <<Blank>>

Payload == Seq(Nat)

TypeOK ==
  /\ raw \in Seq(Nat) /\ wire \in Seq(Nat)
  /\ capacity % Chunk = 0
  /\ prev \in Seq(Payload)
  /\ message \in Seq(Payload)
  /\ sent \in Seq(Seq(Payload)) /\ open \in Seq(Payload)
  /\ control \in Nat
  /\ sending.len \in Nat /\ sending.said \in Nat

Init ==
  /\ raw = <<>> /\ capacity = Chunk /\ prev = <<>> /\ message = <<>>
  /\ wire = <<>> /\ sent = <<>> /\ open = <<>> /\ control = 0
  /\ sending = [len |-> 0, said |-> 0]

-----------------------------------------------------------------------------
(* The receiving side.                                                      *)

(* A length from its two or four bytes at a position, big endian. *)
Value2(bytes, at) == bytes[at] * Base + bytes[at + 1]
Value4(bytes, at) == Value2(bytes, at) * Square + Value2(bytes, at + 2)

Code(bytes) == bytes[2] % Fin

(* Faulty variant: a mask key is expected, which a server does not send. *)
HeaderLenMasked(bytes) == CASE Code(bytes) = Short + 1 -> 8
                            [] Code(bytes) = Short + 2 -> 14
                            [] OTHER                   -> 6

HeaderLen(bytes) == CASE Code(bytes) = Short + 1 -> 4
                      [] Code(bytes) = Short + 2 -> 10
                      [] OTHER                   -> 2

(* Of eight length bytes the last four reach the 32-bit payload_len. *)
PayloadLen(bytes) == CASE Code(bytes) = Short + 1 -> Value2(bytes, 3)
                       [] Code(bytes) = Short + 2 -> Value4(bytes, 7)
                       [] OTHER                   -> Code(bytes)

(* _aiui_is_complete_frame; the header is read again instead of cached. *)
IsComplete(bytes) ==
  /\ Len(bytes) >= 2
  /\ Len(bytes) >= HeaderLen(bytes)
  /\ Len(bytes) >= HeaderLen(bytes) + PayloadLen(bytes)

PayloadOf(bytes) == SubSeq(bytes, HeaderLen(bytes) + 1, Len(bytes))

(* _aiui_dispatch_frame on the parts of a message, newest first.  msg_len   *)
(* counts the newest part twice and leaves out the oldest, so the parts,    *)
(* copied from the end, start gap bytes into the message, or before it.     *)
Assembled(parts) ==
  LET newest == Len(parts[1])
      oldest == Len(parts[Len(parts)])
      gap    == newest - oldest
  IN  IF newest < oldest THEN Torn
      ELSE [i \in 1 .. gap |-> Blank] \o FlattenSeq(Reverse(parts))

(* Faulty variants: the buffer grows one byte too late, or by one byte. *)
RoomLate(cap, size) == IF size > cap THEN cap + Chunk ELSE cap
RoomByOne(cap, size) == IF size >= cap THEN cap + 1 ELSE cap

(* The buffer grows before a byte is stored that it has no room for. *)
Room(cap, size) == IF size >= cap THEN cap + Chunk ELSE cap

(* Faulty variant: the frames of a complete message are not cleaned up. *)
KeptAlways(fin, parts) == parts

(* The earlier frames, once a frame is complete: cleaned up with the last.  *)
Kept(fin, parts) == IF fin THEN <<>> ELSE parts

(* _aiui_websocket_parse_frame: one byte.  The opcode is not looked at.     *)
ParseChar ==
  /\ wire # <<>>
  /\ LET bytes == Append(raw, Head(wire))
         parts == <<PayloadOf(bytes)>> \o prev
         fin   == bytes[1] >= Fin
     IN  IF IsComplete(bytes)
           THEN /\ raw' = <<>> /\ capacity' = Chunk
                /\ prev' = Kept(fin, parts)
                /\ message' = IF fin THEN Append(message, Assembled(parts))
                                     ELSE message
           ELSE /\ raw' = bytes /\ capacity' = Room(capacity, Len(raw))
                /\ UNCHANGED <<prev, message>>
  /\ wire' = Tail(wire)
  /\ UNCHANGED <<sent, open, control, sending>>

(* Faulty variant: the frames of an unfinished message are kept. *)
DisconectKeepsFrames ==
  /\ raw' = <<>> /\ capacity' = Chunk
  /\ wire' = <<>> /\ open' = <<>>
  /\ sent' = IF Len(sent) > Len(message) THEN Front(sent) ELSE sent
  /\ UNCHANGED <<prev, message, control, sending>>

(* aiui_websocket_disconect, and a new connection: what was not read is     *)
(* lost with the old one, and so is a message that was not complete.        *)
Disconect ==
  /\ raw' = <<>> /\ capacity' = Chunk /\ prev' = <<>>
  /\ wire' = <<>> /\ open' = <<>>
  /\ sent' = IF Len(sent) > Len(message) THEN Front(sent) ELSE sent
  /\ UNCHANGED <<message, control, sending>>

-----------------------------------------------------------------------------
(* The sending side.                                                        *)

(* The byte of n that counts the w's. *)
Digit(n, w) == (n \div w) % Base

(* Faulty variant: the two bytes of a length are swapped. *)
LengthBytesSwapped(len, high) ==
  IF len <= Short THEN <<len>>
  ELSE IF len < Square
    THEN <<Short + 1, Digit(len, 1), Digit(len, Base)>>
    ELSE <<Short + 2, high[1], high[2], high[3], high[4],
           Digit(len, Square * Base), Digit(len, Square), Digit(len, Base),
           Digit(len, 1)>>

(* The length code and bytes that _aiui_websocket_send writes.  Its len has *)
(* four bytes; the four above them are whatever lies behind it (high).      *)
LengthBytes(len, high) ==
  IF len <= Short THEN <<len>>
  ELSE IF len < Square
    THEN <<Short + 1, Digit(len, Base), Digit(len, 1)>>
    ELSE <<Short + 2, high[1], high[2], high[3], high[4],
           Digit(len, Square * Base), Digit(len, Square), Digit(len, Base),
           Digit(len, 1)>>

(* What a length code and its bytes say to the server (RFC 6455). *)
Said(code) == CASE code[1] = Short + 1 -> Value2(code, 2)
                [] code[1] = Short + 2 -> Value4(code, 2) * Wide + Value4(code, 6)
                [] OTHER               -> code[1]

Send(len, high) ==
  /\ sending' = [len |-> len, said |-> Said(LengthBytes(len, high))]
  /\ UNCHANGED <<raw, capacity, prev, message, wire, sent, open, control>>

-----------------------------------------------------------------------------
(* The server (external): RFC 6455 frames, unmasked.                        *)

Zeros == <<0, 0, 0, 0>>

Whole(parts) == FlattenSeq(parts)

(* The payload bytes carry the numbers that follow those sent before. *)
Fresh(n) == LET last == Len(Whole(FlattenSeq(sent) \o open))
            IN  [i \in 1 .. n |-> last + i]

Frame(first, payload) ==
  <<first>> \o (LengthBytes(Len(payload), Zeros) \o payload)

ServerData(fin, n) ==
  /\ wire = <<>>
  /\ Len(sent) < MaxSent /\ Len(open) < MaxParts
  /\ Len(open) = MaxParts - 1 => fin
  /\ LET parts == Append(open, Fresh(n))
     IN  /\ wire' = Frame((IF fin THEN Fin ELSE 0)
                            + (IF open = <<>> THEN 1 ELSE 0), Fresh(n))
         /\ IF fin THEN sent' = Append(sent, parts) /\ open' = <<>>
                   ELSE open' = parts /\ UNCHANGED sent
  /\ UNCHANGED <<raw, capacity, prev, message, control, sending>>

ServerControl(opcode) ==
  /\ wire = <<>>
  /\ control < MaxControl
  /\ wire' = Frame(Fin + opcode, <<>>)
  /\ control' = control + 1
  /\ UNCHANGED <<raw, capacity, prev, message, sent, open, sending>>

Next ==
  \/ ParseChar \/ Disconect
  \/ \E len \in SendLens, b \in 0 .. 1 : Send(len, <<0, 0, 0, b>>)
  \/ \E fin \in BOOLEAN, n \in Lengths : ServerData(fin, n)
  \/ \E opcode \in Opcodes : ServerControl(opcode)

Spec == Init /\ [][Next]_vars

-----------------------------------------------------------------------------
(* Properties.                                                              *)

(* Whatever way its bytes arrive and its frames are cut, a message whose    *)
(* first and last frames are equally long (one frame, as the cloud sends)   *)
(* reaches the callback as it was sent, in its place, over disconnects too. *)
(* A control frame would be one more message: there must have been none.    *)
EvenWhole ==
  control = 0 =>
    \A i \in 1 .. Len(message) :
      Len(sent[i][1]) = Len(Last(sent[i])) => message[i] = Whole(sent[i])

(* When all bytes are read the parser has passed on every finished message  *)
(* and keeps exactly the frames of the unfinished one, also when a          *)
(* connection before this one was cut inside a frame or a message.          *)
InSync ==
  wire = <<>> /\ control = 0 => Len(message) = Len(sent) /\ Reverse(prev) = open

(* The frame boundary is never lost: with every byte read, and whatever     *)
(* frames they were, the next byte is taken for the first of a frame.       *)
BoundaryKept == wire = <<>> => raw = <<>>

(* No byte is stored past the end of the frame's buffer. *)
RawFits == Len(raw) <= capacity

(* The header of a frame sent says how long it is, which is also what       *)
(* aiui_websocket_send_bin returns (aiui_websocket_api.h).                  *)
SaidIsLen == sending.said = sending.len

(* A message sent in several frames arrives whole, whatever their lengths.  *)
(* The code does not keep this, see Assembled; EvenWhole says what holds.   *)
FragmentsWhole ==
  \A i \in 1 .. Len(message) : message[i] = Whole(sent[i])
=============================================================================
