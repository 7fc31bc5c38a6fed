------------------------- MODULE AiuiPlayer_proofs -------------------------
(* Proofs about AiuiPlayer: types, silence after a stop, writes to an open  *)
(* device, the order of what is heard and the waits of a stop, for any      *)
(* number of songs, pieces and stops.                                       *)
EXTENDS AiuiPlayer, TLAPS

(* A thread that is to hand a node on holds one; a play that has stopped    *)
(* what played still has a song to start.                                   *)
Holding ==
  /\ \A s \in Song : dec[s] \in {"open", "push"} => got[s] \in Node
  /\ \A s \in Song : play[s] = "write" => held[s] \in Piece
  /\ then = "lists" /\ pc \in {"posts", "wait", "cut", "join", "mp3", "null", "pcm", "lists"} =>
       song < Songs
  /\ pc = "lists" => then = "lists"

Typed == TypeOK /\ Holding

-----------------------------------------------------------------------------
(* The lists. *)
LEMMA NodeFacts == /\ Null \notin Seq(Node) /\ Piece \subseteq Node
                   /\ \A n \in Node : n[1] \in Song /\ n[2] \in 0 .. Pieces
                   /\ \A n \in Node : n[2] > 0 => n \in Piece
BY PlayerAssumption DEF Node, Piece, Song

LEMMA PushType ==
  ASSUME NEW list \in List, NEW node \in Node
  PROVE  Push(list, node) \in List
BY NodeFacts DEF Push, List

LEMMA PopType ==
  ASSUME NEW list \in List
  PROVE  /\ Popped(list) \in List
         /\ HasNode(list) => Head(list) \in Node
BY NodeFacts DEF Popped, HasNode, List

LEMMA TypedInit == Init => Typed
<1> SUFFICES ASSUME Init PROVE Typed
  OBVIOUS
<1> USE PlayerAssumption DEF Init
<1>1. /\ pc \in CallPC /\ then \in {"idle", "lists"}
      /\ song \in 0 .. Songs /\ stops \in 0 .. MaxCalls
      /\ http \in 0 .. Songs
  BY DEF CallPC
<1>2. mp3 \in List /\ pcm \in List /\ decSem \in Nat /\ pcmSem \in Nat
  BY DEF List
<1>3. sent \in [Song -> 0 .. Pieces]
  OBVIOUS
<1>4. /\ dl \in [Song -> {"none", "run", "last", "over", "done"}]
      /\ dec \in [Song -> {"none", "start", "check", "wait", "pop", "open", "push", "done"}]
      /\ play \in [Song -> {"none", "start", "wait", "check", "pop", "write",
                            "close", "ended", "report", "done"}]
  OBVIOUS
<1>5. got \in [Song -> Node \cup {Null}] /\ held \in [Song -> Piece \cup {Null}]
  OBVIOUS
<1>6. cut \subseteq Song /\ over \subseteq Song /\ ended \subseteq Song /\ heard \in Seq(Piece)
  OBVIOUS
<1>7. Holding
  BY DEF Holding
<1>8. QED BY <1>1, <1>2, <1>3, <1>4, <1>5, <1>6, <1>7 DEF Typed, TypeOK

LEMMA TypedCaller ==
  ASSUME Typed, Stop \/ Caller
  PROVE  Typed'
<1> USE PlayerAssumption DEF Typed, At, call, download, decoder, player
<1>1. CASE Stop
  <2>1. TypeOK'
    BY <1>1 DEF Stop, TypeOK, CallPC
  <2>2. Holding'
    BY <1>1 DEF Stop, TypeOK, Holding
  <2>3. QED BY <2>1, <2>2
<1>2. CASE StopPosts
  <2>1. TypeOK'
    BY <1>2 DEF StopPosts, TypeOK, CallPC
  <2>2. Holding'
    BY <1>2 DEF StopPosts, Holding
  <2>3. QED BY <2>1, <2>2
<1>3. CASE StopWait \/ StopDownload \/ StopJoin
  <2>1. TypeOK'
    <3>1. CASE StopWait
      BY <3>1 DEF StopWait, TypeOK, CallPC
    <3>2. CASE StopDownload
      <4>1. cut' \subseteq Song
        BY <3>2 DEF StopDownload, TypeOK, Song
      <4>2. QED BY <3>2, <4>1 DEF StopDownload, TypeOK, CallPC
    <3>3. CASE StopJoin
      BY <3>3 DEF StopJoin, TypeOK, CallPC
    <3>4. QED BY <1>3, <3>1, <3>2, <3>3
  <2>2. Holding'
    BY <1>3 DEF StopWait, StopDownload, StopJoin, Holding
  <2>3. QED BY <2>1, <2>2
<1>4. CASE StopMp3 \/ StopMp3Null \/ StopPcm
  <2>1. TypeOK'
    BY <1>4 DEF StopMp3, StopMp3Null, StopPcm, TypeOK, CallPC, List
  <2>2. Holding'
    BY <1>4 DEF StopMp3, StopMp3Null, StopPcm, TypeOK, Holding
  <2>3. QED BY <2>1, <2>2
<1>5. CASE PlayLists
  <2>1. <<>> \in List
    BY DEF List
  <2>2. song + 1 \in 0 .. Songs
    BY <1>5 DEF PlayLists, TypeOK, Holding
  <2>3. pc' \in CallPC /\ astray' \in BOOLEAN
    BY <1>5 DEF PlayLists, CallPC, TypeOK
  <2>4. TypeOK'
    BY <1>5, <2>1, <2>2, <2>3 DEF PlayLists, TypeOK
  <2>5. Holding'
    BY <1>5 DEF PlayLists, Holding
  <2>6. QED BY <2>4, <2>5
<1>6. CASE PlayDownload \/ PlayClear
  <2>1. TypeOK'
    BY <1>6 DEF PlayDownload, PlayClear, TypeOK, CallPC
  <2>2. Holding'
    BY <1>6 DEF PlayDownload, PlayClear, Holding
  <2>3. QED BY <2>1, <2>2
<1>7. CASE PlayDecode
  <2>1. TypeOK'
    BY <1>7 DEF PlayDecode, TypeOK, CallPC
  <2>2. Holding'
    BY <1>7 DEF PlayDecode, TypeOK, Holding
  <2>3. QED BY <2>1, <2>2
<1>8. CASE PlayThread
  <2>1. TypeOK'
    BY <1>8 DEF PlayThread, TypeOK, CallPC
  <2>2. Holding'
    BY <1>8 DEF PlayThread, TypeOK, Holding
  <2>3. QED BY <2>1, <2>2
<1>9. QED BY <1>1, <1>2, <1>3, <1>4, <1>5, <1>6, <1>7, <1>8 DEF Caller

LEMMA TypedDownloader ==
  ASSUME Typed, NEW s \in Song, Downloader(s)
  PROVE  Typed'
<1> USE PlayerAssumption DEF Typed, call, decoder, player
<1>1. Holding'
  BY DEF Downloader, Data, Complete, LastData, Close, EndMark, NoEndMark, Holding
<1>2. CASE Data(s) \/ LastData(s) \/ EndMark(s)
  <2>1. PICK node \in Node : Fetched(node)
    <3>1. CASE Data(s)
      <4>1. <<s, sent[s] + 1>> \in Node
        BY <3>1 DEF Data, TypeOK, Node
      <4>2. QED BY <3>1, <4>1 DEF Data
    <3>2. CASE LastData(s)
      <4>1. <<s, Pieces>> \in Node
        BY DEF Node
      <4>2. QED BY <3>2, <4>1 DEF LastData
    <3>3. CASE EndMark(s)
      <4>1. EndOf(s) \in Node
        BY DEF EndOf, Node
      <4>2. QED BY <3>3, <4>1 DEF EndMark
    <3>4. QED BY <1>2, <3>1, <3>2, <3>3
  <2>2. mp3' \in List /\ decSem' \in Nat
    BY <2>1, PushType DEF Fetched, TypeOK
  <2>3. sent' \in [Song -> 0 .. Pieces]
    BY <1>2 DEF Data, LastData, EndMark, TypeOK
  <2>4. dl' \in [Song -> {"none", "run", "last", "over", "done"}]
    BY <1>2 DEF Data, LastData, EndMark, TypeOK
  <2>5. astray' \in BOOLEAN
    BY <2>1 DEF Fetched, UsesMp3, TypeOK
  <2>6. TypeOK'
    BY <1>2, <2>2, <2>3, <2>4, <2>5 DEF Data, LastData, EndMark, TypeOK
  <2>7. QED BY <1>1, <2>6
<1>3. CASE Complete(s) \/ Close(s) \/ NoEndMark(s)
  <2>1. TypeOK'
    BY <1>3 DEF Complete, Close, NoEndMark, TypeOK
  <2>2. QED BY <1>1, <2>1
<1>4. QED BY <1>2, <1>3 DEF Downloader

LEMMA TypedDecoder ==
  ASSUME Typed, NEW s \in Song, Decoder(s)
  PROVE  Typed'
<1> USE DEF Typed, call, download, player, DecodeAt
<1>1. dec' \in [Song -> {"none", "start", "check", "wait", "pop", "open", "push", "done"}]
  BY DEF Decoder, DecodeStart, DecodeCheck, DecodeWait, DecodePop, DecodeOpen, DecodePush, TypeOK
<1>2. CASE DecodeStart(s) \/ DecodeCheck(s) \/ DecodeWait(s) \/ DecodeOpen(s)
  <2>1. TypeOK'
    <3>1. CASE DecodeStart(s)
      BY <1>1, <3>1 DEF DecodeStart, TypeOK
    <3>2. CASE DecodeCheck(s)
      BY <1>1, <3>2 DEF DecodeCheck, TypeOK
    <3>3. CASE DecodeWait(s)
      BY <1>1, <3>3 DEF DecodeWait, TypeOK
    <3>4. CASE DecodeOpen(s)
      BY <1>1, <3>4 DEF DecodeOpen, TypeOK
    <3>5. QED BY <1>2, <3>1, <3>2, <3>3, <3>4
  <2>2. Holding'
    BY <1>2 DEF DecodeStart, DecodeCheck, DecodeWait, DecodeOpen, TypeOK, Holding
  <2>3. QED BY <2>1, <2>2
<1>3. CASE DecodePop(s)
  <2>1. mp3' \in List /\ (HasNode(mp3) => Head(mp3) \in Node)
    BY <1>3, PopType DEF DecodePop, TypeOK
  <2>2. got' \in [Song -> Node \cup {Null}]
    BY <1>3, <2>1 DEF DecodePop, TypeOK
  <2>3. astray' \in BOOLEAN
    BY <1>3 DEF DecodePop, UsesMp3, TypeOK
  <2>4. TypeOK'
    BY <1>1, <1>3, <2>1, <2>2, <2>3 DEF DecodePop, TypeOK
  <2>5. Holding'
    BY <1>3, <2>1 DEF DecodePop, TypeOK, Holding
  <2>6. QED BY <2>4, <2>5
<1>4. CASE DecodePush(s)
  <2>1. got[s] \in Node
    BY <1>4 DEF DecodePush, Holding
  <2>2. pcm' \in List
    BY <1>4, <2>1, PushType DEF DecodePush, TypeOK
  <2>3. got' \in [Song -> Node \cup {Null}]
    BY <1>4 DEF DecodePush, TypeOK
  <2>4. TypeOK'
    BY <1>1, <1>4, <2>2, <2>3 DEF DecodePush, TypeOK
  <2>5. Holding'
    BY <1>4 DEF DecodePush, TypeOK, Holding
  <2>6. QED BY <2>4, <2>5
<1>5. QED BY <1>2, <1>3, <1>4 DEF Decoder

LEMMA TypedPlayer ==
  ASSUME Typed, NEW s \in Song, Player(s)
  PROVE  Typed'
<1> USE DEF Typed, call, download, decoder, PlayAt
<1>1. CASE Begin(s) \/ AwaitPcm(s) \/ CheckStop(s) \/ CloseDevice(s) \/ PlayEnd(s) \/ Report(s)
  <2>1. play' \in [Song -> {"none", "start", "wait", "check", "pop", "write",
                           "close", "ended", "report", "done"}]
    BY <1>1 DEF Begin, AwaitPcm, CheckStop, CloseDevice, PlayEnd, Report, TypeOK
  <2>2. /\ playEnd' \in BOOLEAN /\ pcmSem' \in Nat /\ device' \in BOOLEAN /\ ended' \subseteq Song
        /\ UNCHANGED <<heard, held>>
    <3>1. CASE Begin(s) \/ CheckStop(s) \/ CloseDevice(s) \/ PlayEnd(s)
      BY <3>1 DEF Begin, CheckStop, CloseDevice, PlayEnd, TypeOK
    <3>2. CASE AwaitPcm(s)
      BY <3>2 DEF AwaitPcm, TypeOK
    <3>3. CASE Report(s)
      BY <3>3 DEF Report, TypeOK
    <3>4. QED BY <1>1, <3>1, <3>2, <3>3
  <2>3. /\ UNCHANGED <<pc, then, song, stops, stop, mp3, pcm, decSem, http, dl, sent, cut, over>>
        /\ UNCHANGED <<decStop, dec, got, astray>>
    BY <1>1 DEF Begin, AwaitPcm, CheckStop, CloseDevice, PlayEnd, Report
  <2>4. TypeOK'
    BY <2>1, <2>2, <2>3 DEF TypeOK
  <2>5. Holding'
    BY <1>1 DEF Begin, AwaitPcm, CheckStop, CloseDevice, PlayEnd, Report, TypeOK, Holding
  <2>6. QED BY <2>4, <2>5
<1>2. CASE PopPcm(s)
  <2>1. pcm' \in List /\ (HasNode(pcm) => Head(pcm) \in Node)
    BY <1>2, PopType DEF PopPcm, TypeOK
  <2>2. HasNode(pcm) /\ Head(pcm)[2] > 0 => Head(pcm) \in Piece
    BY <2>1, NodeFacts
  <2>3. held' \in [Song -> Piece \cup {Null}]
    BY <1>2, <2>2 DEF PopPcm, TypeOK
  <2>4. TypeOK'
    BY <1>2, <2>1, <2>3 DEF PopPcm, TypeOK
  <2>5. Holding'
    BY <1>2, <2>2 DEF PopPcm, TypeOK, Holding
  <2>6. QED BY <2>4, <2>5
<1>3. CASE WriteFrame(s)
  <2>1. held[s] \in Piece
    BY <1>3 DEF WriteFrame, Holding
  <2>2. heard' \in Seq(Piece)
    BY <1>3, <2>1 DEF WriteFrame, TypeOK
  <2>3. TypeOK'
    BY <1>3, <2>2 DEF WriteFrame, TypeOK
  <2>4. Holding'
    BY <1>3 DEF WriteFrame, TypeOK, Holding
  <2>5. QED BY <2>3, <2>4
<1>4. QED BY <1>1, <1>2, <1>3 DEF Player

LEMMA TypedNext == Typed /\ [Next]_vars => Typed'
<1> SUFFICES ASSUME Typed, [Next]_vars PROVE Typed'
  OBVIOUS
<1>1. CASE UNCHANGED vars
  BY <1>1 DEF vars, call, download, decoder, player, Typed, TypeOK, Holding
<1>2. CASE Next
  BY <1>2, TypedCaller, TypedDownloader, TypedDecoder, TypedPlayer DEF Next
<1>3. QED BY <1>1, <1>2

LEMMA TypedAlways == Spec => []Typed
BY TypedInit, TypedNext, PTL DEF Spec

(* Every variable keeps its type: what is taken from a list is a node, and  *)
(* a thread that hands a piece on to the device holds one.                  *)
THEOREM TypeCorrect == Spec => []TypeOK
BY TypedAlways, PTL DEF Typed

-----------------------------------------------------------------------------
(* Until the model stops at most the threads of the last song are there,    *)
(* and a thread the caller has yet to create is not.                        *)
OneSong ==
  /\ \A s \in Song : s > song => dl[s] = "none" /\ dec[s] = "none" /\ play[s] = "none"
  /\ \A s \in Song : s < song => ~Alive(s)
  /\ \A s \in Song : s = song =>
       /\ pc = "download" => dl[s] = "none"
       /\ pc \in {"download", "decode"} => dec[s] = "none"
       /\ pc \in {"download", "decode", "play"} => play[s] = "none"

(* play_end says whether a play thread is in its loop; the caller's stop    *)
(* holds from its first step to its last, and when it waited for play_end   *)
(* no play thread is past its test of stop.                                 *)
Silent ==
  /\ \A s \in Song : play[s] \in Playing => ~playEnd
  /\ pc # "idle" => stop
  /\ pc \notin {"posts", "wait"} /\ stop => \A s \in Song : play[s] \notin {"pop", "write"}

(* Sound on its way to the device finds it open, unless the play thread has *)
(* left its loop.                                                           *)
Opened ==
  \A s \in Song :
    /\ s = song /\ play[s] \in {"none", "start", "wait", "check", "pop", "write"}
    /\ HasNode(pcm) \/ dec[s] = "push" \/ play[s] = "write"
    => device

Order == ~astray => OneSong /\ Silent /\ Opened

IInv == Typed /\ Order

-----------------------------------------------------------------------------
LEMMA Lone ==
  ASSUME TypeOK, OneSong, NEW s \in Song, Alive(s)
  PROVE  s = song
BY PlayerAssumption DEF TypeOK, OneSong, Alive, Song

LEMMA OrderInit == Init => Order
<1> SUFFICES ASSUME Init PROVE OneSong /\ Silent /\ Opened
  BY DEF Order
<1>1. OneSong
  BY DEF Init, OneSong, Alive, Song
<1>2. Silent
  BY DEF Init, Silent, Playing
<1>3. Opened
  BY DEF Init, Opened, Song
<1>4. QED BY <1>1, <1>2, <1>3

LEMMA OneSongNext ==
  ASSUME Typed, OneSong, Next, ~astray'
  PROVE  OneSong'
<1> USE DEF At, call, download, decoder, player
<1>1. CASE \/ Stop \/ StopPosts \/ StopWait \/ StopDownload \/ StopJoin
           \/ StopMp3 \/ StopMp3Null \/ StopPcm
           \/ PlayClear
  <2>1. UNCHANGED <<song, dl, dec, play>> /\ pc' \notin {"download", "decode", "play"}
    BY <1>1 DEF Stop, StopPosts, StopWait, StopDownload, StopJoin, StopMp3, StopMp3Null, StopPcm,
                PlayClear, Typed, TypeOK
  <2>2. QED BY <2>1 DEF OneSong, Alive
<1>2. CASE PlayLists
  <2>1. \A s \in Song : ~Alive(s)
    BY <1>2 DEF PlayLists
  <2>2. UNCHANGED <<dl, dec, play>> /\ song' = song + 1 /\ song \in Nat
    BY <1>2, PlayerAssumption DEF PlayLists, Typed, TypeOK
  <2>3. \A s \in Song : s >= song + 1 => dl[s] = "none" /\ dec[s] = "none" /\ play[s] = "none"
    BY <2>2, PlayerAssumption DEF OneSong, Song
  <2>4. QED BY <2>1, <2>2, <2>3, PlayerAssumption DEF OneSong, Alive, Song
<1>3. CASE PlayDownload
  <2>1. /\ \A s \in Song : s # song => dl'[s] = dl[s]
        /\ UNCHANGED <<song, dec, play>> /\ pc = "download" /\ pc' = "decode"
    BY <1>3 DEF PlayDownload, Typed, TypeOK
  <2>2. QED BY <2>1, PlayerAssumption DEF OneSong, Alive, Song, Typed, TypeOK
<1>4. CASE PlayDecode
  <2>1. /\ \A s \in Song : s # song => dec'[s] = dec[s]
        /\ UNCHANGED <<song, dl, play>> /\ pc = "decode" /\ pc' = "play"
    BY <1>4 DEF PlayDecode, Typed, TypeOK
  <2>2. QED BY <2>1, PlayerAssumption DEF OneSong, Alive, Song, Typed, TypeOK
<1>5. CASE PlayThread
  <2>1. /\ \A s \in Song : s # song => play'[s] = play[s]
        /\ UNCHANGED <<song, dl, dec>> /\ pc' = "clear"
    BY <1>5 DEF PlayThread, Typed, TypeOK
  <2>2. QED BY <2>1, PlayerAssumption DEF OneSong, Alive, Song, Typed, TypeOK
<1>6. ASSUME NEW s \in Song, Downloader(s) PROVE OneSong'
  <2>1. /\ dl[s] \notin {"none", "done"} /\ UNCHANGED <<pc, song, dec, play>>
        /\ \A t \in Song : t # s => dl'[t] = dl[t]
    BY <1>6 DEF Downloader, Data, Complete, LastData, Close, EndMark, NoEndMark, Typed, TypeOK
  <2>2. s = song /\ pc # "download"
    BY <2>1, Lone DEF Alive, Typed, OneSong
  <2>3. QED BY <2>1, <2>2, PlayerAssumption DEF OneSong, Alive, Song, Typed, TypeOK
<1>7. ASSUME NEW s \in Song, Decoder(s) PROVE OneSong'
  <2>1. /\ dec[s] \notin {"none", "done"} /\ UNCHANGED <<pc, song, dl, play>>
        /\ \A t \in Song : t # s => dec'[t] = dec[t]
    BY <1>7 DEF Decoder, DecodeStart, DecodeCheck, DecodeWait, DecodePop, DecodeOpen, DecodePush,
                DecodeAt, Typed, TypeOK
  <2>2. s = song /\ pc \notin {"download", "decode"}
    BY <2>1, Lone DEF Alive, Typed, OneSong
  <2>3. QED BY <2>1, <2>2, PlayerAssumption DEF OneSong, Alive, Song, Typed, TypeOK
<1>8. ASSUME NEW s \in Song, Player(s) PROVE OneSong'
  <2>1. /\ play[s] \notin {"none", "done"} /\ UNCHANGED <<pc, song, dl, dec>>
        /\ \A t \in Song : t # s => play'[t] = play[t]
    BY <1>8 DEF Player, Begin, AwaitPcm, CheckStop, PopPcm, WriteFrame, CloseDevice, PlayEnd, Report,
                PlayAt, Typed, TypeOK
  <2>2. s = song /\ pc \notin {"download", "decode", "play"}
    BY <2>1, Lone DEF Alive, Typed, OneSong
  <2>3. QED BY <2>1, <2>2, PlayerAssumption DEF OneSong, Alive, Song, Typed, TypeOK
<1>9. QED BY <1>1, <1>2, <1>3, <1>4, <1>5, <1>6, <1>7, <1>8 DEF Next, Caller

LEMMA SilentNext ==
  ASSUME Typed, OneSong, Silent, Next
  PROVE  Silent'
<1> USE DEF At, call, download, decoder, player
<1>1. CASE Stop \/ StopPosts
  <2>1. pc' \in {"posts", "wait"} /\ stop' /\ UNCHANGED <<play, playEnd>>
    BY <1>1 DEF Stop, StopPosts, Silent
  <2>2. QED BY <2>1 DEF Silent
<1>2. CASE StopWait
  <2>1. playEnd /\ stop /\ UNCHANGED <<play, playEnd, stop>>
    BY <1>2 DEF StopWait, Silent
  <2>2. QED BY <2>1 DEF Silent, Playing
<1>3. CASE \/ StopDownload \/ StopJoin \/ StopMp3 \/ StopMp3Null \/ StopPcm
           \/ PlayLists \/ PlayDownload
           \/ PlayDecode
  <2>1. pc \notin {"idle", "posts", "wait"} /\ UNCHANGED <<play, playEnd, stop>>
    BY <1>3 DEF StopDownload, StopJoin, StopMp3, StopMp3Null, StopPcm,
                PlayLists, PlayDownload, PlayDecode
  <2>2. QED BY <2>1 DEF Silent
<1>4. CASE PlayThread
  <2>1. \A s \in Song : play'[s] = play[s] \/ play'[s] = "start"
    BY <1>4 DEF PlayThread, Typed, TypeOK
  <2>2. pc \notin {"idle", "posts", "wait"} /\ UNCHANGED <<playEnd, stop>>
    BY <1>4 DEF PlayThread
  <2>3. QED BY <2>1, <2>2 DEF Silent, Playing
<1>5. CASE PlayClear
  BY <1>5 DEF PlayClear, Silent
<1>6. ASSUME NEW s \in Song, Downloader(s) \/ Decoder(s) PROVE Silent'
  <2>1. UNCHANGED <<pc, play, playEnd, stop>>
    BY <1>6 DEF Downloader, Data, Complete, LastData, Close, EndMark, NoEndMark,
                Decoder, DecodeStart, DecodeCheck, DecodeWait, DecodePop, DecodeOpen, DecodePush
  <2>2. QED BY <2>1 DEF Silent
<1>7. ASSUME NEW s \in Song, Player(s) PROVE Silent'
  <2>1. /\ play[s] \notin {"none", "done"} /\ UNCHANGED <<pc, stop>>
        /\ \A t \in Song : t # s => play'[t] = play[t]
    BY <1>7 DEF Player, Begin, AwaitPcm, CheckStop, PopPcm, WriteFrame, CloseDevice, PlayEnd, Report,
                PlayAt, Typed, TypeOK
  <2>2. \A t \in Song : t # s => play[t] \in {"none", "done"}
    BY <2>1, Lone DEF Alive, Typed
  <2>3. play'[s] \in Playing => ~playEnd'
    BY <1>7 DEF Player, Begin, AwaitPcm, CheckStop, PopPcm, WriteFrame, CloseDevice, PlayEnd, Report,
                PlayAt, Playing, Silent, Typed, TypeOK
  <2>4. stop /\ play'[s] \in {"pop", "write"} => play[s] \in {"pop", "write"}
    BY <1>7 DEF Player, Begin, AwaitPcm, CheckStop, PopPcm, WriteFrame, CloseDevice, PlayEnd, Report,
                PlayAt, Typed, TypeOK
  <2>5. QED BY <2>1, <2>2, <2>3, <2>4 DEF Silent, Playing
<1>8. QED BY <1>1, <1>2, <1>3, <1>4, <1>5, <1>6, <1>7 DEF Next, Caller

LEMMA OpenedNext ==
  ASSUME Typed, OneSong, Opened, Next
  PROVE  Opened'
<1> USE DEF At, call, download, decoder, player
<1>1. CASE \/ Stop \/ StopPosts \/ StopWait \/ StopDownload \/ StopJoin
           \/ StopMp3 \/ StopMp3Null \/ PlayDownload \/ PlayClear
  <2>1. UNCHANGED <<song, play, pcm, dec, device>>
    BY <1>1 DEF Stop, StopPosts, StopWait, StopDownload, StopJoin, StopMp3, StopMp3Null,
                PlayDownload, PlayClear
  <2>2. QED BY <2>1 DEF Opened, HasNode
<1>2. CASE StopPcm
  BY <1>2 DEF StopPcm, Opened, HasNode
<1>3. CASE PlayLists
  <2>1. pcm' = <<>> /\ song' = song + 1 /\ UNCHANGED <<dec, play>>
    BY <1>3 DEF PlayLists
  <2>2. \A s \in Song : s = song + 1 => dec[s] = "none" /\ play[s] = "none"
    BY PlayerAssumption DEF OneSong, Song, Typed, TypeOK
  <2>3. QED BY <2>1, <2>2 DEF Opened, HasNode
<1>4. CASE PlayDecode
  <2>1. \A s \in Song : dec'[s] = "push" => dec[s] = "push"
    BY <1>4 DEF PlayDecode, Typed, TypeOK
  <2>2. UNCHANGED <<song, play, pcm, device>>
    BY <1>4 DEF PlayDecode
  <2>3. QED BY <2>1, <2>2 DEF Opened, HasNode
<1>5. CASE PlayThread
  <2>1. \A s \in Song : s = song => play[s] = "none"
    BY <1>5 DEF PlayThread, OneSong
  <2>2. UNCHANGED <<song, dec, pcm, device>>
    BY <1>5 DEF PlayThread
  <2>3. \A s \in Song : s = song => play'[s] = "start"
    BY <1>5 DEF PlayThread, Typed, TypeOK
  <2>4. QED BY <2>1, <2>2, <2>3 DEF Opened, HasNode
<1>6. ASSUME NEW s \in Song, Downloader(s) PROVE Opened'
  <2>1. UNCHANGED <<song, play, pcm, dec, device>>
    BY <1>6 DEF Downloader, Data, Complete, LastData, Close, EndMark, NoEndMark
  <2>2. QED BY <2>1 DEF Opened, HasNode
<1>7. ASSUME NEW s \in Song, Decoder(s) PROVE Opened'
  <2>1. dec[s] \notin {"none", "done"} /\ UNCHANGED <<song, play>>
    BY <1>7 DEF Decoder, DecodeStart, DecodeCheck, DecodeWait, DecodePop, DecodeOpen, DecodePush,
                DecodeAt, Typed, TypeOK
  <2>2. s = song
    BY <2>1, Lone DEF Alive, Typed
  <2>3. CASE DecodeOpen(s)
    BY <2>3 DEF DecodeOpen, Opened
  <2>4. CASE DecodePush(s)
    <3>1. dec[s] = "push" /\ UNCHANGED device
      BY <2>4 DEF DecodePush, DecodeAt
    <3>2. QED BY <2>1, <2>2, <3>1 DEF Opened
  <2>5. CASE DecodeStart(s) \/ DecodeCheck(s) \/ DecodeWait(s) \/ DecodePop(s)
    <3>1. dec'[s] # "push" /\ UNCHANGED <<pcm, device>>
      BY <2>5 DEF DecodeStart, DecodeCheck, DecodeWait, DecodePop, DecodeAt, Typed, TypeOK
    <3>2. QED BY <2>1, <2>2, <3>1 DEF Opened, HasNode
  <2>6. QED BY <1>7, <2>3, <2>4, <2>5 DEF Decoder
<1>8. ASSUME NEW s \in Song, Player(s) PROVE Opened'
  <2>1. play[s] \notin {"none", "done"} /\ UNCHANGED <<song, dec>>
    BY <1>8 DEF Player, Begin, AwaitPcm, CheckStop, PopPcm, WriteFrame, CloseDevice, PlayEnd, Report,
                PlayAt, Typed, TypeOK
  <2>2. s = song
    BY <2>1, Lone DEF Alive, Typed
  <2>3. CASE PopPcm(s)
    <3>1. /\ HasNode(pcm') => HasNode(pcm)
          /\ play'[s] = "write" => HasNode(pcm)
          /\ play[s] = "pop" /\ UNCHANGED device
      BY <2>3, PopType DEF PopPcm, PlayAt, Popped, HasNode, Typed, TypeOK
    <3>2. QED BY <2>1, <2>2, <3>1 DEF Opened
  <2>4. CASE Begin(s) \/ AwaitPcm(s) \/ CheckStop(s) \/ WriteFrame(s)
    <3>1. /\ play'[s] # "write" /\ UNCHANGED <<pcm, device>>
          /\ play[s] \in {"start", "wait", "check", "write"}
      BY <2>4 DEF Begin, AwaitPcm, CheckStop, WriteFrame, PlayAt, Typed, TypeOK
    <3>2. QED BY <2>1, <2>2, <3>1 DEF Opened, HasNode
  <2>5. CASE CloseDevice(s) \/ PlayEnd(s) \/ Report(s)
    <3>1. play'[s] \in {"ended", "report", "done"}
      BY <2>5 DEF CloseDevice, PlayEnd, Report, PlayAt, Typed, TypeOK
    <3>2. QED BY <2>1, <2>2, <3>1 DEF Opened
  <2>6. QED BY <1>8, <2>3, <2>4, <2>5 DEF Player
<1>9. QED BY <1>1, <1>2, <1>3, <1>4, <1>5, <1>6, <1>7, <1>8 DEF Next, Caller

LEMMA OrderNext == Typed /\ Order /\ [Next]_vars => Order'
<1> SUFFICES ASSUME Typed, Order, [Next]_vars PROVE Order'
  OBVIOUS
<1>1. CASE UNCHANGED vars
  BY <1>1 DEF vars, call, download, decoder, player, Order, OneSong, Silent, Opened, Alive, HasNode
<1>2. CASE Next
  <2>1. OneSong /\ Silent /\ Opened
    BY <1>2 DEF Next, Order
  <2>2. Silent' /\ Opened'
    BY <1>2, <2>1, SilentNext, OpenedNext
  <2>3. ~astray' => OneSong'
    BY <1>2, <2>1, OneSongNext
  <2>4. QED BY <2>2, <2>3 DEF Order
<1>3. QED BY <1>1, <1>2

LEMMA IInvAlways == Spec => []IInv
<1>1. Init => IInv
  BY TypedInit, OrderInit DEF IInv
<1>2. IInv /\ [Next]_vars => IInv'
  BY TypedNext, OrderNext DEF IInv
<1>3. QED BY <1>1, <1>2, PTL DEF Spec

(* Once aiui_media_stop has returned no play thread is past its test of     *)
(* stop, however many songs were played before it.                          *)
THEOREM QuietAlways == Spec => []QuietAfterStop
<1>1. IInv => QuietAfterStop
  BY DEF IInv, Order, Silent, QuietAfterStop
<1>2. QED BY <1>1, IInvAlways, PTL

(* The play thread writes to an open device.                                *)
THEOREM OpenAlways == Spec => []WritesToOpenDevice
<1>1. IInv => WritesToOpenDevice
  <2> SUFFICES ASSUME IInv, ~astray, NEW s \in Song, play[s] = "write" PROVE device
    BY DEF WritesToOpenDevice
  <2>1. s = song
    BY Lone DEF IInv, Typed, Order, Alive
  <2>2. QED BY <2>1 DEF IInv, Order, Opened
<1>2. QED BY <1>1, IInvAlways, PTL

-----------------------------------------------------------------------------
(* What is heard.  A list holds pieces a + 1 to b of song s; a closed one   *)
(* its end node after them.                                                 *)
Line(s, list, a, b) ==
  /\ list \in Seq(Node) /\ Len(list) = b - a
  /\ \A i \in 1 .. b - a : list[i] = <<s, a + i>>

Closed(s, list, a, b) ==
  /\ list \in Seq(Node) /\ Len(list) = b - a + 1
  /\ \A i \in 1 .. b - a : list[i] = <<s, a + i>>
  /\ list[b - a + 1] = EndOf(s)

(* Pieces 1 to c of song s were heard, after those of earlier songs. *)
HeardUpTo(s, c) ==
  \/ c = 0 /\ \A i \in DOMAIN heard : heard[i][1] < s
  \/ c > 0 /\ heard # <<>> /\ heard[Len(heard)] = <<s, c>>

(* Of the pieces of s that were fetched d were taken by the decoder, p of   *)
(* them passed on as sound, and h of those taken by the play thread.        *)
Lines(s, h, p, d) ==
  /\ h <= p /\ p <= d /\ d <= sent[s]
  /\ mp3 # Null => Line(s, mp3, d, sent[s]) \/ (Closed(s, mp3, d, sent[s]) /\ dl[s] = "done")
  /\ pcm # Null => Line(s, pcm, h, p) \/ (Closed(s, pcm, h, p) /\ dec[s] = "done")
  /\ IF dec[s] \in {"open", "push"}
       THEN (got[s] = <<s, d>> /\ d = p + 1) \/ (got[s] = EndOf(s) /\ d = p)
       ELSE d = p
  /\ IF play[s] = "write"
       THEN h > 0 /\ held[s] = <<s, h>> /\ HeardUpTo(s, h - 1)
       ELSE HeardUpTo(s, h)

InOrder ==
  \A i \in DOMAIN heard :
    \/ heard[i][2] = 1 /\ \A j \in 1 .. i - 1 : heard[j][1] < heard[i][1]
    \/ i > 1 /\ heard[i] = <<heard[i - 1][1], heard[i - 1][2] + 1>>

(* Until the model stops everything on its way to the device is of the     *)
(* last song, and a last piece still to come is the only one missing.       *)
Streams ==
  /\ InOrder
  /\ \A i \in DOMAIN heard : heard[i][1] <= song
  /\ \A s \in Song : s > song => sent[s] = 0
  /\ \A s \in Song : dl[s] = "last" => sent[s] = Pieces - 1
  /\ \A s \in Song : s = song => \E h, p, d \in 0 .. Pieces : Lines(s, h, p, d)

LEMMA LineAppend ==
  ASSUME NEW s \in Song, NEW list, NEW a \in 0 .. Pieces, NEW b \in 0 .. Pieces,
         a <= b, b < Pieces, Line(s, list, a, b)
  PROVE  Line(s, Append(list, <<s, b + 1>>), a, b + 1)
<1>. Pieces \in Nat
  BY PlayerAssumption
<1> DEFINE node == <<s, b + 1>>
<1>1. node \in Node
  BY PlayerAssumption DEF Node
<1>2. /\ list \in Seq(Node) /\ Len(list) = b - a
      /\ \A i \in 1 .. b - a : list[i] = <<s, a + i>>
  BY DEF Line
<1> HIDE DEF node
<1>3. Append(list, node) \in Seq(Node) /\ Len(Append(list, node)) = b + 1 - a
  BY <1>1, <1>2
<1>4. ASSUME NEW i \in 1 .. b + 1 - a PROVE Append(list, node)[i] = <<s, a + i>>
  <2>1. CASE i <= b - a
    <3>1. i \in 1 .. b - a
      BY <2>1
    <3>2. Append(list, node)[i] = list[i]
      BY <1>1, <1>2, <3>1
    <3>3. QED BY <1>2, <3>1, <3>2
  <2>2. CASE i = b - a + 1
    <3>1. Append(list, node)[i] = node
      BY <1>1, <1>2, <2>2
    <3>2. a + i = b + 1
      BY <2>2
    <3>3. QED BY <3>1, <3>2 DEF node
  <2>3. i <= b - a \/ i = b - a + 1
    OBVIOUS
  <2>4. QED BY <2>1, <2>2, <2>3
<1>5. QED BY <1>3, <1>4 DEF Line, node

LEMMA LineClose ==
  ASSUME NEW s \in Song, NEW list, NEW a \in 0 .. Pieces, NEW b \in 0 .. Pieces,
         a <= b, Line(s, list, a, b)
  PROVE  Closed(s, Append(list, EndOf(s)), a, b)
<1>. Pieces \in Nat
  BY PlayerAssumption
<1> DEFINE node == EndOf(s)
<1>1. node \in Node
  BY PlayerAssumption DEF Node, EndOf
<1>2. /\ list \in Seq(Node) /\ Len(list) = b - a
      /\ \A i \in 1 .. b - a : list[i] = <<s, a + i>>
  BY DEF Line
<1> HIDE DEF node
<1>3. Append(list, node) \in Seq(Node) /\ Len(Append(list, node)) = b - a + 1
  BY <1>1, <1>2
<1>4. \A i \in 1 .. b - a : Append(list, node)[i] = <<s, a + i>>
  BY <1>1, <1>2
<1>5. Append(list, node)[b - a + 1] = node
  BY <1>1, <1>2
<1>6. QED BY <1>3, <1>4, <1>5 DEF Closed, node

LEMMA LineTail ==
  ASSUME NEW s \in Song, NEW list, NEW a \in 0 .. Pieces, NEW b \in 0 .. Pieces,
         a <= b, Line(s, list, a, b), list # <<>>
  PROVE  a < b /\ Head(list) = <<s, a + 1>> /\ Line(s, Tail(list), a + 1, b)
<1>. Pieces \in Nat
  BY PlayerAssumption
<1>1. /\ list \in Seq(Node) /\ Len(list) = b - a
      /\ \A i \in 1 .. b - a : list[i] = <<s, a + i>>
  BY DEF Line
<1>2. a < b /\ Head(list) = <<s, a + 1>>
  BY <1>1
<1>3. Tail(list) \in Seq(Node) /\ Len(Tail(list)) = b - (a + 1)
  BY <1>1
<1>4. ASSUME NEW i \in 1 .. b - (a + 1) PROVE Tail(list)[i] = <<s, a + 1 + i>>
  <2>1. Tail(list)[i] = list[i + 1] /\ i + 1 \in 1 .. b - a
    BY <1>1
  <2>2. list[i + 1] = <<s, a + (i + 1)>> /\ a + (i + 1) = a + 1 + i
    BY <1>1, <2>1
  <2>3. QED BY <2>1, <2>2
<1>5. QED BY <1>2, <1>3, <1>4 DEF Line

LEMMA ClosedTail ==
  ASSUME NEW s \in Song, NEW list, NEW a \in 0 .. Pieces, NEW b \in 0 .. Pieces,
         a <= b, Closed(s, list, a, b)
  PROVE  /\ list # <<>>
         /\ a < b => Head(list) = <<s, a + 1>> /\ Closed(s, Tail(list), a + 1, b)
         /\ a = b => Head(list) = EndOf(s) /\ Line(s, Tail(list), a, b)
<1>. Pieces \in Nat
  BY PlayerAssumption
<1>1. /\ list \in Seq(Node) /\ Len(list) = b - a + 1
      /\ \A i \in 1 .. b - a : list[i] = <<s, a + i>>
      /\ list[b - a + 1] = EndOf(s)
  BY DEF Closed
<1>2. list # <<>> /\ Head(list) = list[1] /\ Tail(list) \in Seq(Node) /\ Len(Tail(list)) = b - a
  BY <1>1
<1>3. ASSUME NEW i \in 1 .. b - a PROVE Tail(list)[i] = list[i + 1]
  BY <1>1
<1>4. CASE a < b
  <2>1. Head(list) = <<s, a + 1>>
    BY <1>1, <1>2, <1>4
  <2>2. Len(Tail(list)) = b - (a + 1) + 1
    BY <1>2
  <2>3. ASSUME NEW i \in 1 .. b - (a + 1) PROVE Tail(list)[i] = <<s, a + 1 + i>>
    <3>1. i \in 1 .. b - a /\ i + 1 \in 1 .. b - a
      OBVIOUS
    <3>4. Tail(list)[i] = list[i + 1]
      BY <1>3, <3>1
    <3>2. list[i + 1] = <<s, a + (i + 1)>> /\ a + (i + 1) = a + 1 + i
      BY <1>1, <3>1
    <3>3. QED BY <3>2, <3>4
  <2>4. Tail(list)[b - (a + 1) + 1] = EndOf(s)
    <3>1. b - (a + 1) + 1 = b - a /\ b - a \in 1 .. b - a
      BY <1>4
    <3>2. Tail(list)[b - a] = list[b - a + 1]
      BY <1>3, <3>1
    <3>3. QED BY <1>1, <3>1, <3>2
  <2>5. Closed(s, Tail(list), a + 1, b)
    BY <1>2, <2>2, <2>3, <2>4 DEF Closed
  <2>6. QED BY <1>2, <1>4, <2>1, <2>5
<1>5. CASE a = b
  <2>1. Len(Tail(list)) = 0 /\ b - a = 0 /\ b - a + 1 = 1 /\ 1 .. b - a = {}
    BY <1>2, <1>5
  <2>2. Head(list) = EndOf(s)
    BY <1>1, <1>2, <2>1
  <2>3. Line(s, Tail(list), a, b)
    BY <1>2, <2>1 DEF Line
  <2>4. QED BY <1>2, <1>5, <2>2, <2>3
<1>6. QED BY <1>2, <1>4, <1>5

-----------------------------------------------------------------------------
LEMMA StreamsInit == Init => Streams
<1> SUFFICES ASSUME Init PROVE Streams
  OBVIOUS
<1>1. \A s \in Song : s # song /\ sent[s] = 0 /\ dl[s] # "last"
  BY PlayerAssumption DEF Init, Song
<1>2. InOrder /\ \A i \in DOMAIN heard : heard[i][1] <= song
  BY DEF Init, InOrder
<1>3. QED BY <1>1, <1>2 DEF Streams

(* What Streams says of the sound heard lasts while nothing is written. *)
LEMMA HeardSame ==
  ASSUME UNCHANGED heard
  PROVE  /\ InOrder' = InOrder
         /\ \A s \in Song, c \in Nat : HeardUpTo(s, c)' = HeardUpTo(s, c)
BY DEF InOrder, HeardUpTo

LEMMA StreamsCaller ==
  ASSUME Typed, OneSong, Streams, Stop \/ Caller, ~astray'
  PROVE  Streams'
<1> USE PlayerAssumption
<1> USE DEF At, call, download, decoder, player
<1> USE HeardSame
<1>1. CASE \/ Stop \/ StopPosts \/ StopWait \/ StopDownload \/ StopJoin \/ PlayClear
  <2>1. UNCHANGED <<song, mp3, pcm, dl, sent, dec, got, play, held, heard>>
    BY <1>1 DEF Stop, StopPosts, StopWait, StopDownload, StopJoin, PlayClear
  <2>2. QED BY <2>1 DEF Streams, Lines, InOrder, HeardUpTo
<1>2. CASE StopMp3 \/ StopMp3Null \/ StopPcm
  <2>1. /\ UNCHANGED <<song, dl, sent, dec, got, play, held, heard>>
        /\ mp3' \in {mp3, Null} /\ pcm' \in {pcm, Null}
    BY <1>2 DEF StopMp3, StopMp3Null, StopPcm
  <2>2. QED BY <2>1 DEF Streams, Lines, InOrder, HeardUpTo
<1>3. CASE PlayLists
  <2>1. /\ UNCHANGED <<dl, sent, dec, got, play, held, heard>>
        /\ mp3' = <<>> /\ pcm' = <<>> /\ song' = song + 1 /\ song \in Nat
    BY <1>3, PlayerAssumption DEF PlayLists, Typed, TypeOK
  <2>2. Null # <<>>
    <3>1. <<>> \in Seq(Node)
      OBVIOUS
    <3>2. QED BY <3>1, NodeFacts
  <2>3. \A i \in DOMAIN heard : heard[i][1] \in Nat
    BY DEF Typed, TypeOK, Piece, Song
  <2>4. ASSUME NEW s \in Song, s = song + 1 PROVE Lines(s, 0, 0, 0)'
    <3>1. s > song
      BY <2>1, <2>4
    <3>2. sent[s] = 0 /\ dec[s] = "none" /\ play[s] = "none"
      BY <3>1 DEF Streams, OneSong
    <3>3. Line(s, <<>>, 0, 0)
      BY DEF Line
    <3>4. HeardUpTo(s, 0)'
      <4>1. \A i \in DOMAIN heard : heard[i][1] < s
        BY <2>1, <2>3, <2>4 DEF Streams
      <4>2. QED BY <2>1, <4>1 DEF HeardUpTo
    <3>5. QED BY <2>1, <3>2, <3>3, <3>4 DEF Lines
  <2>5. \A i \in DOMAIN heard : heard[i][1] <= song + 1
    BY <2>1, <2>3 DEF Streams
  <2>6. \A s \in Song : s > song + 1 => sent[s] = 0
    <3>1. \A s \in Song : s > song + 1 => s > song
      BY <2>1 DEF Song
    <3>2. QED BY <3>1 DEF Streams
  <2>7. \A s \in Song : s = song + 1 => \E h, p, d \in 0 .. Pieces : Lines(s, h, p, d)'
    BY <2>4, PlayerAssumption
  <2>8. InOrder'
    BY <2>1 DEF Streams
  <2>9. \A s \in Song : dl[s] = "last" => sent[s] = Pieces - 1
    BY DEF Streams
  <2>10. QED BY <2>1, <2>5, <2>6, <2>7, <2>8, <2>9 DEF Streams
<1>4. CASE PlayDownload \/ PlayDecode \/ PlayThread
  <2>1. UNCHANGED <<song, mp3, pcm, sent, got, held, heard>>
    BY <1>4 DEF PlayDownload, PlayDecode, PlayThread
  <2>2. \A s \in Song : dl'[s] = "last" => dl[s] = "last"
    BY <1>4 DEF PlayDownload, PlayDecode, PlayThread, Typed, TypeOK
  <2>3. ASSUME NEW s \in Song, s = song
        PROVE  /\ dl[s] = "done" => dl'[s] = "done"
               /\ dec[s] = "done" => dec'[s] = "done"
               /\ dec'[s] = dec[s] \/ {dec[s], dec'[s]} \cap {"open", "push"} = {}
               /\ play'[s] = play[s] \/ {play[s], play'[s]} \cap {"write"} = {}
    <3>1. CASE PlayDownload
      <4>1. dl[s] = "none"
        BY <2>3, <3>1 DEF PlayDownload, OneSong
      <4>2. QED BY <3>1, <4>1 DEF PlayDownload
    <3>2. CASE PlayDecode
      <4>1. dec[s] = "none" /\ dec'[s] = "start"
        BY <2>3, <3>2 DEF PlayDecode, OneSong, Typed, TypeOK
      <4>2. QED BY <3>2, <4>1 DEF PlayDecode
    <3>3. CASE PlayThread
      <4>1. play[s] = "none" /\ play'[s] = "start"
        BY <2>3, <3>3 DEF PlayThread, OneSong, Typed, TypeOK
      <4>2. QED BY <3>3, <4>1 DEF PlayThread
    <3>4. QED BY <1>4, <3>1, <3>2, <3>3
  <2>4. ASSUME NEW s \in Song, s = song, NEW h \in 0 .. Pieces, NEW p \in 0 .. Pieces,
               NEW d \in 0 .. Pieces, Lines(s, h, p, d)
        PROVE  Lines(s, h, p, d)'
    BY <2>1, <2>3, <2>4 DEF Lines, HeardUpTo
  <2>5. InOrder'
    BY <2>1 DEF Streams
  <2>6. QED BY <2>1, <2>2, <2>4, <2>5 DEF Streams
<1>5. QED BY <1>1, <1>2, <1>3, <1>4 DEF Caller

LEMMA StreamsDownloader ==
  ASSUME Typed, OneSong, Streams, NEW s \in Song, Downloader(s)
  PROVE  Streams'
<1> USE PlayerAssumption
<1> USE DEF call, decoder, player
<1>1. /\ UNCHANGED <<song, pcm, dec, got, play, held, heard>>
      /\ \A t \in Song : t # s => dl'[t] = dl[t] /\ sent'[t] = sent[t]
      /\ dl[s] \notin {"none", "done"}
  BY DEF Downloader, Data, Complete, LastData, Close, EndMark, NoEndMark, Typed, TypeOK
<1>2. s = song
  BY <1>1, Lone DEF Alive, Typed
<1>3. PICK h \in 0 .. Pieces, p \in 0 .. Pieces, d \in 0 .. Pieces : Lines(s, h, p, d)
  BY <1>2 DEF Streams
<1>4. /\ sent[s] \in 0 .. Pieces /\ d <= sent[s]
      /\ mp3 # Null => Line(s, mp3, d, sent[s])
  BY <1>1, <1>3 DEF Lines, Typed, TypeOK
<1>5. /\ sent'[s] \in 0 .. Pieces /\ d <= sent'[s]
      /\ mp3' # Null => Line(s, mp3', d, sent'[s]) \/ (Closed(s, mp3', d, sent'[s]) /\ dl'[s] = "done")
      /\ dl'[s] = "last" => sent'[s] = Pieces - 1
  <2>1. CASE Data(s) \/ LastData(s)
    <3>1. /\ sent[s] < Pieces /\ sent'[s] = sent[s] + 1 /\ dl'[s] = "run"
          /\ mp3' = Push(mp3, <<s, sent[s] + 1>>)
      <4>1. CASE Data(s)
        BY <1>4, <4>1 DEF Data, Fetched, Typed, TypeOK
      <4>2. CASE LastData(s)
        <5>1. sent[s] = Pieces - 1
          BY <4>2 DEF LastData, Streams
        <5>2. sent[s] + 1 = Pieces /\ sent[s] < Pieces
          BY <5>1, PlayerAssumption
        <5>3. QED BY <4>2, <5>2 DEF LastData, Fetched, Typed, TypeOK
      <4>3. QED BY <2>1, <4>1, <4>2
    <3>2. mp3' # Null => Line(s, mp3', d, sent[s] + 1)
      BY <1>4, <3>1, LineAppend DEF Push
    <3>3. sent[s] + 1 \in 0 .. Pieces /\ d <= sent[s] + 1
      BY <1>4, <3>1
    <3>4. QED BY <3>1, <3>2, <3>3
  <2>2. CASE Complete(s) \/ Close(s) \/ NoEndMark(s)
    <3>1. UNCHANGED <<mp3, sent>> /\ (dl'[s] = "last" => sent[s] = Pieces - 1)
      BY <2>2 DEF Complete, Close, NoEndMark, Typed, TypeOK
    <3>2. QED BY <1>4, <3>1
  <2>3. CASE EndMark(s)
    <3>1. dl'[s] = "done" /\ UNCHANGED sent /\ mp3' = Push(mp3, EndOf(s))
      BY <2>3 DEF EndMark, Fetched, Typed, TypeOK
    <3>2. mp3' # Null => Closed(s, mp3', d, sent[s])
      BY <1>4, <3>1, LineClose DEF Push
    <3>3. QED BY <1>4, <3>1, <3>2
  <2>4. QED BY <2>1, <2>2, <2>3 DEF Downloader
<1>6. Lines(s, h, p, d)'
  BY <1>1, <1>3, <1>5 DEF Lines, HeardUpTo
<1>7. InOrder' /\ \A i \in DOMAIN heard' : heard'[i][1] <= song'
  BY <1>1, HeardSame DEF Streams
<1>8. \A t \in Song : t > song' => sent'[t] = 0
  BY <1>1, <1>2 DEF Streams, Song
<1>9. \A t \in Song : dl'[t] = "last" => sent'[t] = Pieces - 1
  BY <1>1, <1>5 DEF Streams
<1>10. QED BY <1>1, <1>2, <1>6, <1>7, <1>8, <1>9 DEF Streams

LEMMA StreamsDecoder ==
  ASSUME Typed, OneSong, Streams, NEW s \in Song, Decoder(s)
  PROVE  Streams'
<1> USE PlayerAssumption
<1> USE DEF call, download, player, DecodeAt
<1>1. UNCHANGED <<song, dl, sent, play, held, heard>> /\ dec[s] \notin {"none", "done"}
  BY DEF Decoder, DecodeStart, DecodeCheck, DecodeWait, DecodePop, DecodeOpen, DecodePush
<1>2. s = song
  BY <1>1, Lone DEF Alive, Typed
<1>3. PICK h \in 0 .. Pieces, p \in 0 .. Pieces, d \in 0 .. Pieces : Lines(s, h, p, d)
  BY <1>2 DEF Streams
<1>4. /\ pcm # Null => Line(s, pcm, h, p)
      /\ sent[s] \in 0 .. Pieces
  BY <1>1, <1>3 DEF Lines, Typed, TypeOK
<1>5. \E q, e \in 0 .. Pieces : Lines(s, h, q, e)'
  <2>1. CASE DecodeStart(s) \/ DecodeCheck(s) \/ DecodeWait(s)
    <3>1. UNCHANGED <<mp3, pcm, got>> /\ {dec[s], dec'[s]} \cap {"open", "push"} = {}
      BY <2>1 DEF DecodeStart, DecodeCheck, DecodeWait, Typed, TypeOK
    <3>2. Lines(s, h, p, d)'
      BY <1>1, <1>3, <1>4, <3>1 DEF Lines, HeardUpTo
    <3>3. QED BY <3>2
  <2>2. CASE DecodeOpen(s)
    <3>1. UNCHANGED <<mp3, pcm, got>> /\ dec[s] = "open" /\ dec'[s] = "push"
      BY <2>2 DEF DecodeOpen, Typed, TypeOK
    <3>2. Lines(s, h, p, d)'
      BY <1>1, <1>3, <1>4, <3>1 DEF Lines, HeardUpTo
    <3>3. QED BY <3>2
  <2>3. CASE DecodePop(s) /\ ~HasNode(mp3)
    <3>1. UNCHANGED <<mp3, pcm>> /\ dec[s] = "pop" /\ dec'[s] = "check"
      BY <2>3 DEF DecodePop, Popped, Typed, TypeOK
    <3>2. Lines(s, h, p, d)'
      BY <1>1, <1>3, <1>4, <3>1 DEF Lines, HeardUpTo
    <3>3. QED BY <3>2
  <2>4. CASE DecodePop(s) /\ HasNode(mp3)
    <3>1. /\ UNCHANGED pcm /\ dec[s] = "pop" /\ dec'[s] = "open"
          /\ mp3' = Tail(mp3) /\ got'[s] = Head(mp3)
          /\ mp3 # Null /\ mp3 # <<>>
      BY <2>4 DEF DecodePop, Popped, HasNode, Typed, TypeOK
    <3>2. d = p /\ h <= p /\ d <= sent[s]
      BY <1>3, <3>1 DEF Lines
    <3>3. CASE /\ d < sent[s] /\ got'[s] = <<s, d + 1>>
               /\ \/ Line(s, mp3', d + 1, sent[s])
                  \/ Closed(s, mp3', d + 1, sent[s]) /\ dl[s] = "done"
      <4>1. d + 1 \in 0 .. Pieces /\ p <= d + 1 /\ d + 1 <= sent[s] /\ d + 1 = p + 1
        BY <1>4, <3>2, <3>3
      <4>2. Lines(s, h, p, d + 1)'
        BY <1>1, <1>3, <1>4, <3>1, <3>2, <3>3, <4>1 DEF Lines, HeardUpTo
      <4>3. QED BY <4>1, <4>2
    <3>4. CASE d = sent[s] /\ got'[s] = EndOf(s) /\ Line(s, mp3', d, sent[s])
      <4>1. Lines(s, h, p, d)'
        BY <1>1, <1>3, <1>4, <3>1, <3>2, <3>4 DEF Lines, HeardUpTo
      <4>2. QED BY <4>1
    <3>5. CASE Line(s, mp3, d, sent[s])
      BY <1>4, <3>1, <3>2, <3>3, <3>5, LineTail
    <3>6. CASE Closed(s, mp3, d, sent[s]) /\ dl[s] = "done"
      <4>1. CASE d < sent[s]
        BY <1>4, <3>1, <3>2, <3>3, <3>6, <4>1, ClosedTail
      <4>2. CASE d = sent[s]
        BY <1>4, <3>1, <3>2, <3>4, <3>6, <4>2, ClosedTail
      <4>3. QED BY <1>4, <3>2, <4>1, <4>2
    <3>7. QED BY <1>3, <3>1, <3>5, <3>6 DEF Lines
  <2>5. CASE DecodePush(s)
    <3>1. /\ UNCHANGED mp3 /\ dec[s] = "push"
          /\ dec'[s] = IF got[s][2] = 0 THEN "done" ELSE "check"
          /\ pcm' = Push(pcm, got[s])
      BY <2>5 DEF DecodePush, Typed, TypeOK
    <3>2. CASE got[s] = <<s, d>> /\ d = p + 1
      <4>1. dec'[s] = "check" /\ h <= d /\ p < Pieces /\ h <= p
        BY <1>3, <3>1, <3>2 DEF Lines
      <4>2. pcm' # Null => Line(s, pcm', h, d)
        BY <1>4, <3>1, <3>2, <4>1, LineAppend DEF Push
      <4>3. Lines(s, h, d, d)'
        BY <1>1, <1>3, <1>4, <3>1, <4>1, <4>2 DEF Lines, HeardUpTo
      <4>4. QED BY <4>3
    <3>3. CASE got[s] = EndOf(s) /\ d = p
      <4>1. dec'[s] = "done" /\ h <= p
        BY <1>3, <3>1, <3>3 DEF Lines, EndOf
      <4>2. pcm' # Null => Closed(s, pcm', h, p)
        BY <1>4, <3>1, <3>3, <4>1, LineClose DEF Push
      <4>3. Lines(s, h, p, d)'
        BY <1>1, <1>3, <1>4, <3>1, <3>3, <4>1, <4>2 DEF Lines, HeardUpTo
      <4>4. QED BY <4>3
    <3>4. QED BY <1>3, <3>1, <3>2, <3>3 DEF Lines
  <2>6. QED BY <2>1, <2>2, <2>3, <2>4, <2>5 DEF Decoder
<1>6. InOrder' /\ \A i \in DOMAIN heard' : heard'[i][1] <= song'
  BY <1>1, HeardSame DEF Streams
<1>7. QED BY <1>1, <1>2, <1>5, <1>6 DEF Streams

LEMMA StreamsPlayer ==
  ASSUME Typed, OneSong, Streams, NEW s \in Song, Player(s)
  PROVE  Streams'
<1> USE PlayerAssumption
<1> USE DEF call, download, decoder, PlayAt
<1>1. UNCHANGED <<song, dl, sent, mp3, dec, got>> /\ play[s] \notin {"none", "done"}
  BY DEF Player, Begin, AwaitPcm, CheckStop, PopPcm, WriteFrame, CloseDevice, PlayEnd, Report
<1>2. s = song
  BY <1>1, Lone DEF Alive, Typed
<1>3. PICK h \in 0 .. Pieces, p \in 0 .. Pieces, d \in 0 .. Pieces : Lines(s, h, p, d)
  BY <1>2 DEF Streams
<1>4. h <= p
  BY <1>3 DEF Lines
<1>5. CASE \/ Begin(s) \/ AwaitPcm(s) \/ CheckStop(s) \/ CloseDevice(s) \/ PlayEnd(s) \/ Report(s)
           \/ (PopPcm(s) /\ ~HasNode(pcm))
  <2>1. /\ UNCHANGED <<pcm, held, heard>>
        /\ play[s] # "write" /\ play'[s] # "write"
    BY <1>5 DEF Begin, AwaitPcm, CheckStop, CloseDevice, PlayEnd, Report, PopPcm, Popped, Typed, TypeOK
  <2>2. Lines(s, h, p, d)'
    BY <1>1, <1>3, <2>1 DEF Lines, HeardUpTo
  <2>3. InOrder' /\ \A i \in DOMAIN heard' : heard'[i][1] <= song'
    BY <1>1, <2>1, HeardSame DEF Streams
  <2>4. QED BY <1>1, <1>2, <2>2, <2>3 DEF Streams
<1>6. CASE PopPcm(s) /\ HasNode(pcm)
  <2>1. /\ UNCHANGED heard /\ play[s] = "pop"
        /\ pcm' = Tail(pcm) /\ pcm # Null /\ pcm # <<>>
        /\ Head(pcm)[2] = 0 => play'[s] = "close"
        /\ Head(pcm)[2] > 0 => play'[s] = "write" /\ held'[s] = Head(pcm)
    BY <1>6 DEF PopPcm, Popped, HasNode, Typed, TypeOK
  <2>2. HeardUpTo(s, h)
    BY <1>3, <2>1 DEF Lines
  <2>3. ASSUME h < p, Head(pcm) = <<s, h + 1>>,
               Line(s, pcm', h + 1, p) \/ (Closed(s, pcm', h + 1, p) /\ dec[s] = "done")
        PROVE  \E g \in 0 .. Pieces : Lines(s, g, p, d)'
    <3>1. h + 1 \in 0 .. Pieces /\ h + 1 <= p /\ h + 1 > 0 /\ h + 1 - 1 = h
      BY <2>3
    <3>2. play'[s] = "write" /\ held'[s] = <<s, h + 1>>
      BY <2>1, <2>3, <3>1
    <3>3. HeardUpTo(s, h + 1 - 1)'
      BY <2>1, <2>2, <3>1, HeardSame
    <3>4. Lines(s, h + 1, p, d)'
      BY <1>1, <1>3, <2>3, <3>1, <3>2, <3>3 DEF Lines
    <3>5. QED BY <3>1, <3>4
  <2>4. ASSUME h = p, Head(pcm) = EndOf(s), Line(s, pcm', h, p)
        PROVE  \E g \in 0 .. Pieces : Lines(s, g, p, d)'
    <3>1. play'[s] = "close"
      BY <2>1, <2>4 DEF EndOf
    <3>2. HeardUpTo(s, h)'
      BY <2>1, <2>2, HeardSame
    <3>3. Lines(s, h, p, d)'
      BY <1>1, <1>3, <2>4, <3>1, <3>2 DEF Lines
    <3>4. QED BY <3>3
  <2>5. \E g \in 0 .. Pieces : Lines(s, g, p, d)'
    <3>1. CASE Line(s, pcm, h, p)
      BY <1>4, <2>1, <2>3, <3>1, LineTail
    <3>2. CASE Closed(s, pcm, h, p) /\ dec[s] = "done"
      <4>1. CASE h < p
        BY <1>4, <2>1, <2>3, <3>2, <4>1, ClosedTail
      <4>2. CASE h = p
        BY <1>4, <2>1, <2>4, <3>2, <4>2, ClosedTail
      <4>3. QED BY <1>4, <4>1, <4>2
    <3>3. QED BY <1>3, <2>1, <3>1, <3>2 DEF Lines
  <2>6. InOrder' /\ \A i \in DOMAIN heard' : heard'[i][1] <= song'
    BY <1>1, <2>1, HeardSame DEF Streams
  <2>7. QED BY <1>1, <1>2, <2>5, <2>6 DEF Streams
<1>7. CASE WriteFrame(s)
  <2>1. /\ heard' = Append(heard, held[s]) /\ UNCHANGED pcm
        /\ play[s] = "write" /\ play'[s] = "wait"
    BY <1>7 DEF WriteFrame, Typed, TypeOK
  <2>2. h > 0 /\ held[s] = <<s, h>> /\ HeardUpTo(s, h - 1)
    BY <1>3, <2>1 DEF Lines
  <2>3. heard \in Seq(Piece) /\ <<s, h>> \in Piece
    BY <2>2 DEF Typed, TypeOK, Piece
  <2>4. HeardUpTo(s, h)' /\ InOrder' /\ \A i \in DOMAIN heard' : heard'[i][1] <= song'
    <3> DEFINE n == Len(heard)
    <3>1. /\ n \in Nat /\ DOMAIN heard = 1 .. n /\ DOMAIN heard' = 1 .. n + 1
          /\ heard' # <<>> /\ Len(heard') = n + 1
          /\ heard'[n + 1] = <<s, h>>
      BY <2>1, <2>2, <2>3
    <3>2. \A i \in 1 .. n : heard'[i] = heard[i]
      BY <2>1, <2>2, <2>3
    <3> HIDE DEF n
    <3>3. HeardUpTo(s, h)'
      BY <2>2, <3>1 DEF HeardUpTo
    <3>4. \A i \in DOMAIN heard' : heard'[i][1] <= song'
      <4>1. \A i \in 1 .. n : heard'[i][1] <= song
        BY <3>1, <3>2 DEF Streams
      <4>2. heard'[n + 1][1] <= song
        BY <1>2, <3>1 DEF Song
      <4>3. QED BY <1>1, <3>1, <4>1, <4>2
    <3>5. \/ h = 1 /\ \A j \in 1 .. n : heard'[j][1] < s
          \/ n > 0 /\ <<s, h>> = <<heard'[n][1], heard'[n][2] + 1>>
      <4>1. CASE h - 1 = 0
        <5>1. \A j \in 1 .. n : heard[j][1] < s
          BY <2>2, <3>1, <4>1 DEF HeardUpTo
        <5>2. QED BY <3>2, <4>1, <5>1
      <4>2. CASE h - 1 > 0
        <5>1. heard # <<>> /\ heard[n] = <<s, h - 1>>
          BY <2>2, <4>2 DEF HeardUpTo, n
        <5>2. n > 0
          BY <2>3, <5>1 DEF n
        <5>3. heard'[n] = <<s, h - 1>>
          BY <3>1, <3>2, <5>1, <5>2
        <5>4. QED BY <5>2, <5>3
      <4>3. QED BY <2>2, <4>1, <4>2
    <3>6. InOrder'
      <4> SUFFICES ASSUME NEW i \in 1 .. n + 1
                   PROVE  \/ heard'[i][2] = 1 /\ \A j \in 1 .. i - 1 : heard'[j][1] < heard'[i][1]
                          \/ i > 1 /\ heard'[i] = <<heard'[i - 1][1], heard'[i - 1][2] + 1>>
        BY <3>1 DEF InOrder
      <4>1. CASE i \in 1 .. n
        <5>1. \/ heard[i][2] = 1 /\ \A j \in 1 .. i - 1 : heard[j][1] < heard[i][1]
              \/ i > 1 /\ heard[i] = <<heard[i - 1][1], heard[i - 1][2] + 1>>
          BY <3>1, <4>1 DEF Streams, InOrder
        <5>2. \A j \in 1 .. i - 1 : heard'[j] = heard[j]
          BY <3>1, <3>2, <4>1
        <5>3. heard'[i] = heard[i] /\ (i > 1 => i - 1 \in 1 .. i - 1)
          BY <3>2, <4>1
        <5>4. QED BY <5>1, <5>2, <5>3
      <4>2. CASE i = n + 1
        <5>1. i - 1 = n /\ (n > 0 => i > 1)
          BY <3>1, <4>2
        <5>2. QED BY <3>1, <3>5, <4>2, <5>1
      <4>3. QED BY <3>1, <4>1, <4>2
    <3>7. QED BY <3>3, <3>4, <3>6
  <2>5. Lines(s, h, p, d)'
    BY <1>1, <1>3, <2>1, <2>4 DEF Lines
  <2>6. QED BY <1>1, <1>2, <2>4, <2>5 DEF Streams
<1>8. QED BY <1>5, <1>6, <1>7 DEF Player

LEMMA StreamsNext == IInv /\ (~astray => Streams) /\ [Next]_vars => (~astray' => Streams')
<1> SUFFICES ASSUME IInv, ~astray => Streams, [Next]_vars, ~astray' PROVE Streams'
  OBVIOUS
<1>1. CASE UNCHANGED vars
  BY <1>1 DEF vars, call, download, decoder, player, Streams, InOrder, Lines, HeardUpTo
<1>2. CASE Next
  <2>1. Typed /\ OneSong /\ Streams
    BY <1>2 DEF Next, IInv, Order
  <2>2. QED BY <1>2, <2>1, StreamsCaller, StreamsDownloader, StreamsDecoder, StreamsPlayer DEF Next
<1>3. QED BY <1>1, <1>2

(* What is heard is each song from its beginning, without a gap, a repeated *)
(* piece or a piece of another song, for any number of pieces.              *)
THEOREM HeardAlways == Spec => []HeardInOrder
<1>1. Init => (~astray => Streams)
  BY StreamsInit
<1>2. (~astray => Streams) => HeardInOrder
  BY DEF Streams, InOrder, HeardInOrder
<1>3. QED BY <1>1, <1>2, IInvAlways, StreamsNext, PTL DEF Spec

-----------------------------------------------------------------------------
(* What the waits of a stop rest on.  The play thread that may still come   *)
(* to its semaphore finds a post there; without one running, play_end is    *)
(* set; and a download whose is_over is not set has not left its loop.      *)
Woken ==
  pc = "wait" =>
    \A s \in Song : play[s] \in {"start", "wait", "pop", "write"} => pcmSem > 0

Busy == ~playEnd => \E s \in Song : play[s] \in Playing

Fetching ==
  /\ \A s \in Song : s \notin over => dl[s] \in {"none", "run"}
  /\ http # 0 => dl[http] # "none"
  /\ pc = "join" /\ http # 0 => http \in cut

LEMMA WokenNext ==
  ASSUME Typed, OneSong, Silent, Woken, Next
  PROVE  Woken'
<1> USE DEF At, call, download, decoder, player
<1>1. CASE StopPosts
  <2>1. pcmSem' = pcmSem + 1 /\ pcmSem \in Nat
    BY <1>1 DEF StopPosts, Typed, TypeOK
  <2>2. QED BY <2>1 DEF Woken
<1>2. CASE \/ Stop \/ StopWait \/ StopDownload \/ StopJoin \/ StopMp3 \/ StopMp3Null \/ StopPcm
           \/ PlayLists \/ PlayDownload \/ PlayDecode \/ PlayThread \/ PlayClear
  <2>1. pc' # "wait"
    BY <1>2 DEF Stop, StopWait, StopDownload, StopJoin, StopMp3, StopMp3Null, StopPcm,
                PlayLists, PlayDownload, PlayDecode, PlayThread, PlayClear, Typed, TypeOK
  <2>2. QED BY <2>1 DEF Woken
<1>3. ASSUME NEW s \in Song, Downloader(s) PROVE Woken'
  <2>1. UNCHANGED <<pc, play, pcmSem>>
    BY <1>3 DEF Downloader, Data, Complete, LastData, Close, EndMark, NoEndMark
  <2>2. QED BY <2>1 DEF Woken
<1>4. ASSUME NEW s \in Song, Decoder(s) PROVE Woken'
  <2>1. UNCHANGED <<pc, play>> /\ pcmSem' \in {pcmSem, pcmSem + 1} /\ pcmSem \in Nat
    BY <1>4 DEF Decoder, DecodeStart, DecodeCheck, DecodeWait, DecodePop, DecodeOpen, DecodePush,
                Typed, TypeOK
  <2>2. QED BY <2>1 DEF Woken
<1>5. ASSUME NEW s \in Song, Player(s) PROVE Woken'
  <2>1. /\ play[s] \notin {"none", "done"} /\ UNCHANGED <<pc, stop>>
        /\ \A t \in Song : t # s => play'[t] = play[t]
    BY <1>5 DEF Player, Begin, AwaitPcm, CheckStop, PopPcm, WriteFrame, CloseDevice, PlayEnd, Report,
                PlayAt, Typed, TypeOK
  <2>2. \A t \in Song : t # s => play[t] \in {"none", "done"}
    BY <2>1, Lone DEF Alive, Typed
  <2>3. stop /\ play'[s] \in {"start", "wait", "pop", "write"} =>
          play[s] \in {"start", "wait", "pop", "write"} /\ pcmSem' = pcmSem
    BY <1>5 DEF Player, Begin, AwaitPcm, CheckStop, PopPcm, WriteFrame, CloseDevice, PlayEnd, Report,
                PlayAt, Typed, TypeOK
  <2>4. QED BY <2>1, <2>2, <2>3 DEF Woken, Silent
<1>6. QED BY <1>1, <1>2, <1>3, <1>4, <1>5 DEF Next, Caller

LEMMA BusyNext ==
  ASSUME Typed, Busy, OneSong, Next
  PROVE  Busy'
<1> USE DEF At, call, download, decoder, player
<1>1. CASE \/ Stop \/ StopPosts \/ StopWait \/ StopDownload \/ StopJoin
           \/ StopMp3 \/ StopMp3Null \/ StopPcm
           \/ PlayLists \/ PlayDownload \/ PlayDecode \/ PlayClear
           \/ \E s \in Song : Downloader(s) \/ Decoder(s)
  <2>1. UNCHANGED <<playEnd, play>>
    BY <1>1 DEF Stop, StopPosts, StopWait, StopDownload, StopJoin, StopMp3, StopMp3Null, StopPcm,
                PlayLists, PlayDownload, PlayDecode, PlayClear,
                Downloader, Data, Complete, LastData, Close, EndMark, NoEndMark,
                Decoder, DecodeStart, DecodeCheck, DecodeWait, DecodePop, DecodeOpen, DecodePush
  <2>2. QED BY <2>1 DEF Busy
<1>2. CASE PlayThread
  <2>1. \A s \in Song : s # song => play'[s] = play[s]
    BY <1>2 DEF PlayThread, Typed, TypeOK
  <2>2. \A s \in Song : s = song => play[s] = "none"
    BY <1>2 DEF PlayThread, OneSong
  <2>3. UNCHANGED playEnd
    BY <1>2 DEF PlayThread
  <2>4. QED BY <2>1, <2>2, <2>3 DEF Busy, Playing
<1>3. ASSUME NEW s \in Song, Player(s) PROVE Busy'
  <2>1. \A t \in Song : t # s => play'[t] = play[t]
    BY <1>3 DEF Player, Begin, AwaitPcm, CheckStop, PopPcm, WriteFrame, CloseDevice, PlayEnd, Report,
                PlayAt, Typed, TypeOK
  <2>2. \/ playEnd'
        \/ play'[s] \in Playing
        \/ play[s] \notin Playing /\ UNCHANGED playEnd
    BY <1>3 DEF Player, Begin, AwaitPcm, CheckStop, PopPcm, WriteFrame, CloseDevice, PlayEnd, Report,
                PlayAt, Playing, Typed, TypeOK
  <2>3. QED BY <2>1, <2>2 DEF Busy
<1>4. QED BY <1>1, <1>2, <1>3 DEF Next, Caller

LEMMA FetchingNext ==
  ASSUME Typed, Fetching, Next
  PROVE  Fetching'
<1> USE DEF At, call, download, decoder, player
<1>1. CASE \/ Stop \/ StopPosts \/ StopWait \/ StopMp3 \/ StopMp3Null \/ StopPcm
           \/ PlayLists \/ PlayDecode \/ PlayThread \/ PlayClear
  <2>1. UNCHANGED <<http, dl, over, cut>> /\ pc' # "join"
    BY <1>1 DEF Stop, StopPosts, StopWait, StopMp3, StopMp3Null, StopPcm,
                PlayLists, PlayDecode, PlayThread, PlayClear, Typed, TypeOK
  <2>2. QED BY <2>1 DEF Fetching
<1>2. CASE StopDownload
  BY <1>2 DEF StopDownload, Fetching
<1>3. CASE StopJoin
  BY <1>3 DEF StopJoin, Fetching
<1>4. CASE PlayDownload
  <2>1. pc' # "join" /\ UNCHANGED over
    BY <1>4 DEF PlayDownload
  <2>2. song = 0 \/ song \in Song
    BY PlayerAssumption DEF Typed, TypeOK, Song
  <2>3. \A s \in Song : dl'[s] = dl[s] \/ dl'[s] = "run"
    BY <1>4 DEF PlayDownload, Typed, TypeOK
  <2>4. http' # 0 => dl'[http'] # "none"
    BY <1>4, <2>2 DEF PlayDownload, Fetching, Typed, TypeOK
  <2>5. QED BY <2>1, <2>3, <2>4 DEF Fetching
<1>5. ASSUME NEW s \in Song, Downloader(s) PROVE Fetching'
  <2>1. /\ UNCHANGED <<pc, http, cut>> /\ over \subseteq over'
        /\ \A t \in Song : t # s => dl'[t] = dl[t]
    BY <1>5 DEF Downloader, Data, Complete, LastData, Close, EndMark, NoEndMark, Typed, TypeOK
  <2>2. dl'[s] # "none" /\ (s \notin over' => dl'[s] = "run")
    BY <1>5 DEF Downloader, Data, Complete, LastData, Close, EndMark, NoEndMark,
                Fetching, Typed, TypeOK
  <2>3. http = 0 \/ http \in Song
    BY PlayerAssumption DEF Typed, TypeOK, Song
  <2>4. QED BY <2>1, <2>2, <2>3 DEF Fetching
<1>6. ASSUME NEW s \in Song, Decoder(s) \/ Player(s) PROVE Fetching'
  <2>1. UNCHANGED <<pc, http, dl, over, cut>>
    BY <1>6 DEF Decoder, DecodeStart, DecodeCheck, DecodeWait, DecodePop, DecodeOpen, DecodePush,
                Player, Begin, AwaitPcm, CheckStop, PopPcm, WriteFrame, CloseDevice, PlayEnd, Report
  <2>2. QED BY <2>1 DEF Fetching
<1>7. QED BY <1>1, <1>2, <1>3, <1>4, <1>5, <1>6 DEF Next, Caller

Waits == ~astray => Woken /\ Busy /\ Fetching

LEMMA WaitsInit == Init => Waits
<1> SUFFICES ASSUME Init PROVE Woken /\ Busy /\ Fetching
  BY DEF Waits
<1>1. QED BY DEF Init, Woken, Busy, Fetching

LEMMA WaitsNext == IInv /\ Waits /\ [Next]_vars => Waits'
<1> SUFFICES ASSUME IInv, Waits, [Next]_vars PROVE Waits'
  OBVIOUS
<1>1. CASE UNCHANGED vars
  BY <1>1 DEF vars, call, download, decoder, player, Waits, Woken, Busy, Fetching
<1>2. CASE Next
  <2>1. Typed /\ OneSong /\ Silent /\ Woken /\ Busy /\ Fetching
    BY <1>2 DEF Next, IInv, Order, Waits
  <2>2. QED BY <1>2, <2>1, WokenNext, BusyNext, FetchingNext DEF Waits
<1>3. QED BY <1>1, <1>2

(* No wake-up of aiui_media_stop is lost, for any number of songs, pieces   *)
(* and stops: the thread it waits for can always take its next step.        *)
THEOREM NotStrandedAlways == Spec => []StopNotStranded
<1>1. IInv /\ Waits => StopNotStranded
  <2> SUFFICES ASSUME IInv, Waits, ~astray PROVE StopNotStranded
    BY DEF StopNotStranded
  <2>1. ASSUME pc = "wait", ~playEnd
        PROVE  \E s \in Song : play[s] \in Playing /\ (play[s] = "wait" => pcmSem > 0)
    BY <2>1 DEF Waits, Busy, Woken
  <2>2. ASSUME pc = "join", http \notin over \cup {0}
        PROVE  http \in cut /\ dl[http] = "run"
    <3>1. http \in Song
      BY <2>2, PlayerAssumption DEF IInv, Typed, TypeOK, Song
    <3>2. QED BY <2>2, <3>1 DEF Waits, Fetching
  <2>3. QED BY <2>1, <2>2 DEF StopNotStranded
<1>2. QED BY <1>1, WaitsInit, WaitsNext, IInvAlways, PTL DEF Spec
=============================================================================
