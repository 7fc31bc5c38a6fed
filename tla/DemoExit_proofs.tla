-------------------------- MODULE DemoExit_proofs --------------------------
(* Proofs about DemoExit: no message is handled on freed objects, nothing   *)
(* is freed twice and no wait is stranded, for any number of messages and   *)
(* songs.                                                                   *)
EXTENDS DemoExit, TLAPS

Active == Handling \cup {"loop", "recv"}

(* The receive thread of the handle being destroyed has left its callbacks  *)
(* by the time its objects go, since only then is is_over set.              *)
OverMeansOut ==
  /\ \A h \in Handle : over[h] => recv[h] \in {"check", "report", "done"}
  /\ main \in {"http", "websocket", "sem", "aiui"} =>
       recv[turn] \in {"none", "check", "report", "done"}

(* What aiui_uninit has not destroyed yet, by its place. *)
Parts == {"parser", "http", "websocket", "sem", "aiui"}

Unfreed ==
  CASE main \in {"close", "wait", "http"} -> {"http", "websocket", "sem", "aiui"}
    [] main = "websocket"                 -> {"websocket", "sem", "aiui"}
    [] main = "sem"                       -> {"sem", "aiui"}
    [] main = "aiui"                      -> {"aiui"}
    [] main = "end"                       -> {}
    [] OTHER                              -> Parts

InOrder ==
  /\ \A k \in Unfreed : <<k, turn>> \notin freed
  /\ turn = "interactive" => \A k \in Parts : <<k, "tts">> \notin freed
  /\ main \in {"prompt", "finish"} => turn = "interactive" /\ FinishSem \notin freed
  /\ Player \in freed => main = "forget" \/ ~handle
  /\ main \in {"playend", "player"} => handle

IInv == TypeOK /\ KeptForCallbacks /\ OverMeansOut /\ InOrder

-----------------------------------------------------------------------------
(* Type correctness: every variable keeps its type at every step of main,   *)
(* of the receive threads and of the songs.                                 *)
LEMMA TypeInit == Init => TypeOK
<1> SUFFICES ASSUME Init PROVE TypeOK
  OBVIOUS
<1>1. /\ main \in MainPC /\ turn \in Handle
      /\ freed \subseteq Object /\ handle \in BOOLEAN
      /\ halt \in BOOLEAN /\ playEnd \in BOOLEAN
  BY DEF Init, MainPC, Handle
<1>2. recv \in [Handle -> RecvPC]
  BY DEF Init, RecvPC
<1>3. /\ stop \in [Handle -> BOOLEAN] /\ over \in [Handle -> BOOLEAN]
      /\ gone \in [Handle -> BOOLEAN]
  BY DEF Init
<1>4. msg \in [Handle -> Message] /\ left \in [Handle -> 0 .. MaxMessages]
  BY ExitAssumption DEF Init, Message
<1>5. /\ song \in [Song -> SongPC]
      /\ decode \in [Song -> {"unused", "run", "done"}]
  BY DEF Init, SongPC
<1>6. QED BY <1>1, <1>2, <1>3, <1>4, <1>5 DEF TypeOK

LEMMA TypeMain == TypeOK /\ Main => TypeOK'
<1> SUFFICES ASSUME TypeOK, Main PROVE TypeOK'
  OBVIOUS
<1> USE DEF TypeOK, MainPC, Releasing, Handle, Goto, connection, receiver, sound
<1>1. CASE Release
  <2>1. Victim \in Object
    <3>1. CASE main \in {"finish", "player"}
      BY <3>1 DEF Victim, Object
    <3>2. CASE main \in {"parser", "http", "websocket", "sem", "aiui"}
      BY <1>1, <3>2 DEF Victim, Object, Kept, Parser
    <3>3. QED BY <1>1, <3>1, <3>2 DEF Release
  <2>2. main' \in MainPC /\ turn' \in Handle
    BY <1>1 DEF Release, AfterRelease
  <2>3. QED BY <1>1, <2>1, <2>2 DEF Release
<1>2. CASE Quit \/ PlayEnded \/ Forget \/ Post \/ Wait
  BY <1>2 DEF Quit, PlayEnded, Forget, Post, Wait
<1>3. CASE Deinit
  BY <1>3 DEF Deinit
<1>4. CASE Close
  BY <1>4 DEF Close
<1>5. QED BY <1>1, <1>2, <1>3, <1>4 DEF Main

LEMMA StartType ==
  ASSUME TypeOK, NEW others \in [Song -> SongPC], StartSong(others) \/ StopSong(others)
  PROVE  /\ halt' \in BOOLEAN /\ playEnd' \in BOOLEAN
         /\ song' \in [Song -> SongPC]
         /\ decode' \in [Song -> {"unused", "run", "done"}]
BY DEF TypeOK, StartSong, StopSong, SongPC

LEMMA TypeReceiver ==
  ASSUME TypeOK, NEW h \in Handle, Receiver(h)
  PROVE  TypeOK'
<1> USE DEF TypeOK, RecvPC, Handling, Step, connection, receiver, sound
<1>1. CASE \E m \in Message : Recv(h, m)
  BY <1>1, ExitAssumption DEF Recv
<1>2. CASE Start(h)
  <2>1. /\ halt' \in BOOLEAN /\ playEnd' \in BOOLEAN
        /\ song' \in [Song -> SongPC]
        /\ decode' \in [Song -> {"unused", "run", "done"}]
    BY <1>2, StartType DEF Start
  <2>2. QED BY <1>2, <2>1 DEF Start, AfterSpeech
<1>3. CASE LoopTest(h) \/ RecvNothing(h) \/ Parse(h) \/ Play(h) \/ Again(h)
           \/ Tell(h) \/ Over(h) \/ Check(h) \/ Report(h)
  BY <1>3 DEF LoopTest, RecvNothing, Parse, Play, Again, Tell, Over, Check, Report
<1>4. CASE Event(h)
  BY <1>4 DEF Event, AfterSpeech
<1>5. QED BY <1>1, <1>2, <1>3, <1>4 DEF Receiver

LEMMA TypeSound ==
  ASSUME TypeOK, NEW s \in Song, Sound(s)
  PROVE  TypeOK'
<1>1. /\ halt' \in BOOLEAN /\ playEnd' \in BOOLEAN
      /\ song' \in [Song -> SongPC]
      /\ decode' \in [Song -> {"unused", "run", "done"}]
  <2>1. CASE SongBegins(s) \/ SongEnds(s) \/ SongTail(s) \/ SongPlays(s) \/ DecodeEnds(s)
    BY <2>1 DEF SongBegins, SongEnds, SongTail, SongPlays, DecodeEnds, SongGoto, TypeOK, SongPC
  <2>2. CASE SongStarts(s)
    <3>1. [song EXCEPT ![s] = "done"] \in [Song -> SongPC]
      BY DEF TypeOK, SongPC
    <3>2. QED BY <2>2, <3>1, StartType DEF SongStarts
  <2>3. QED BY <2>1, <2>2 DEF Sound
<1>2. QED BY <1>1 DEF Sound, TypeOK, connection, receiver

LEMMA TypeNext == TypeOK /\ [Next]_vars => TypeOK'
<1> SUFFICES ASSUME TypeOK, [Next]_vars PROVE TypeOK'
  OBVIOUS
<1>1. CASE Main
  BY <1>1, TypeMain
<1>2. CASE \E h \in Handle : Receiver(h)
  BY <1>2, TypeReceiver
<1>3. CASE \E h \in Handle : PeerClose(h)
  BY <1>3 DEF PeerClose, TypeOK, receiver, sound
<1>4. CASE \E s \in Song : Sound(s)
  BY <1>4, TypeSound
<1>5. CASE UNCHANGED vars
  BY <1>5 DEF vars, TypeOK, connection, receiver, sound
<1>6. QED BY <1>1, <1>2, <1>3, <1>4, <1>5 DEF Next

(* Every variable of the exit keeps its type. *)
THEOREM TypeCorrect == Spec => []TypeOK
BY TypeInit, TypeNext, PTL DEF Spec

-----------------------------------------------------------------------------
(* The inductive invariant. *)
LEMMA IInit == Init => IInv
<1> SUFFICES ASSUME Init PROVE IInv
  OBVIOUS
<1>1. TypeOK
  BY TypeInit
<1>2. KeptForCallbacks
  BY DEF Init, KeptForCallbacks
<1>3. OverMeansOut
  BY DEF Init, OverMeansOut
<1>4. InOrder
  BY DEF Init, InOrder
<1>5. QED BY <1>1, <1>2, <1>3, <1>4 DEF IInv

(* A step that frees nothing and moves no one back into a callback. *)
LEMMA MainKeeps ==
  ASSUME IInv, Main, TypeOK'
  PROVE  KeptForCallbacks' /\ OverMeansOut' /\ InOrder'
<1> USE DEF IInv, connection, receiver, sound, Goto
<1>1. CASE Release
  <2>1. recv' = recv /\ over' = over /\ handle' = handle /\ main \in Releasing
    BY <1>1 DEF Release
  <2>2. freed' = freed \cup {Victim}
    BY <1>1 DEF Release
  <2>3. KeptForCallbacks'
    <3>1. SUFFICES ASSUME NEW h \in Handle, recv[h] \in Active
                   PROVE  Victim \notin Kept(h)
      BY <2>1, <2>2, <3>1 DEF KeptForCallbacks, Active, Kept
    <3>2. CASE main \in {"finish", "player", "parser"}
      BY <3>2 DEF Victim, Kept, FinishSem, Player, Handle
    <3>3. CASE main \in {"http", "websocket", "sem", "aiui"}
      <4>1. recv[turn] \notin Active
        BY <3>3 DEF OverMeansOut, Active, Handling
      <4>2. Victim = <<main, turn>>
        BY <3>3 DEF Victim
      <4>3. QED BY <3>1, <4>1, <4>2 DEF Kept
    <3>4. QED BY <2>1, <3>2, <3>3 DEF Releasing
  <2>4. OverMeansOut'
    BY <1>1, <2>1 DEF OverMeansOut, Release, AfterRelease, Releasing
  <2>5. InOrder'
    <3>1. CASE main = "finish"
      BY <3>1, <1>1, <2>1 DEF Release, AfterRelease, Victim, InOrder, Unfreed, Parts,
         FinishSem, Player, TypeOK, Handle
    <3>2. CASE main = "player"
      BY <3>2, <1>1, <2>1 DEF Release, AfterRelease, Victim, InOrder, Unfreed, Parts,
         FinishSem, Player, TypeOK, Handle
    <3>3. CASE main \in Parts \ {"aiui"}
      BY <3>3, <1>1, <2>1 DEF Release, AfterRelease, Victim, InOrder, Unfreed, Parts,
         FinishSem, Player, TypeOK, Handle
    <3>4. CASE main = "aiui" /\ turn = "interactive"
      BY <3>4, <1>1, <2>1 DEF Release, AfterRelease, Victim, InOrder, Unfreed, Parts,
         FinishSem, Player, TypeOK, Handle
    <3>5. CASE main = "aiui" /\ turn = "tts"
      BY <3>5, <1>1, <2>1 DEF Release, AfterRelease, Victim, InOrder, Unfreed, Parts,
         FinishSem, Player, TypeOK, Handle
    <3>6. QED BY <2>1, <3>1, <3>2, <3>3, <3>4, <3>5 DEF Releasing, Parts, TypeOK, Handle
  <2>6. QED BY <2>3, <2>4, <2>5
<1>2. CASE Quit \/ Deinit \/ PlayEnded \/ Forget \/ Post \/ Close \/ Wait
  <2>1. freed' = freed /\ recv' = recv /\ over' = over /\ turn' = turn
    BY <1>2 DEF Quit, Deinit, PlayEnded, Forget, Post, Close, Wait
  <2>2. KeptForCallbacks'
    BY <2>1 DEF KeptForCallbacks
  <2>3. OverMeansOut'
    <3>1. CASE Wait
      BY <3>1, <2>1 DEF OverMeansOut, Wait, TypeOK
    <3>2. CASE Close
      BY <3>2, <2>1 DEF OverMeansOut, Close
    <3>3. CASE Quit \/ Deinit \/ PlayEnded \/ Forget \/ Post
      BY <3>3, <2>1 DEF OverMeansOut, Quit, Deinit, PlayEnded, Forget, Post
    <3>4. QED BY <1>2, <3>1, <3>2, <3>3
  <2>4. InOrder'
    <3>1. CASE Quit \/ PlayEnded \/ Post \/ Wait
      BY <3>1, <2>1 DEF InOrder, Quit, PlayEnded, Post, Wait, Unfreed, Parts
    <3>2. CASE Deinit
      BY <3>2, <2>1 DEF InOrder, Deinit, Unfreed, Parts
    <3>3. CASE Forget
      BY <3>3, <2>1 DEF InOrder, Forget, Unfreed, Parts
    <3>4. CASE Close
      BY <3>4, <2>1 DEF InOrder, Close, Unfreed, Parts
    <3>5. QED BY <1>2, <3>1, <3>2, <3>3, <3>4
  <2>5. QED BY <2>2, <2>3, <2>4
<1>3. QED BY <1>1, <1>2 DEF Main

(* main stands still while another thread moves: its part of the invariant  *)
(* needs only that the receive thread which is out stays out.               *)
LEMMA OthersKeep ==
  ASSUME IInv, UNCHANGED <<main, turn, freed, handle>>,
         \A h \in Handle : recv'[h] \in Active => recv[h] \in Active,
         \A h \in Handle : over'[h] => recv'[h] \in {"check", "report", "done"},
         \A h \in Handle : recv[h] \in {"none", "check", "report", "done"} =>
                           recv'[h] \in {"none", "check", "report", "done"}
  PROVE  KeptForCallbacks' /\ OverMeansOut' /\ InOrder'
<1>1. KeptForCallbacks'
  BY DEF IInv, KeptForCallbacks, Active
<1>2. OverMeansOut'
  BY DEF IInv, OverMeansOut, TypeOK
<1>3. InOrder'
  BY DEF IInv, InOrder, Unfreed
<1>4. QED BY <1>1, <1>2, <1>3

LEMMA ReceiverKeeps ==
  ASSUME IInv, NEW h \in Handle, Receiver(h)
  PROVE  KeptForCallbacks' /\ OverMeansOut' /\ InOrder'
<1> USE DEF connection, receiver, sound
<1>1. UNCHANGED <<main, turn, freed, handle>>
  BY DEF Receiver, LoopTest, RecvNothing, Parse, Event, Play, Start, Again, Tell, Over,
     Check, Report, Recv
<1>2. PICK label \in RecvPC : recv' = [recv EXCEPT ![h] = label]
  <2>1. TypeOK'
    BY TypeReceiver DEF IInv
  <2>2. \E label : recv' = [recv EXCEPT ![h] = label]
    BY DEF Receiver, LoopTest, RecvNothing, Parse, Event, Play, Start, Again, Tell, Over,
       Check, Report, Recv, Step
  <2>3. QED BY <2>1, <2>2 DEF IInv, TypeOK
<1>3. /\ recv[h] \in {"none", "check", "report", "done"} =>
           label \in {"none", "check", "report", "done"}
      /\ label \in Active => recv[h] \in Active
      /\ over'[h] => label \in {"check", "report", "done"}
  <2> USE DEF Active, Handling, Step, IInv, TypeOK, OverMeansOut
  <2>1. label = recv'[h]
    BY <1>2
  <2>2. CASE LoopTest(h) \/ RecvNothing(h) \/ Parse(h) \/ Play(h) \/ Again(h) \/ Tell(h)
    BY <2>1, <2>2 DEF LoopTest, RecvNothing, Parse, Play, Again, Tell
  <2>3. CASE Event(h) \/ Start(h)
    BY <2>1, <2>3 DEF Event, Start, AfterSpeech
  <2>4. CASE Over(h) \/ Check(h) \/ Report(h)
    BY <2>1, <2>4 DEF Over, Check, Report
  <2>5. CASE \E m \in Message : Recv(h, m)
    BY <2>1, <2>5 DEF Recv
  <2>6. QED BY <2>2, <2>3, <2>4, <2>5 DEF Receiver
<1>4. \A g \in Handle \ {h} : recv'[g] = recv[g] /\ over'[g] = over[g]
  <2>1. \A g \in Handle \ {h} : over'[g] = over[g]
    BY DEF Receiver, LoopTest, RecvNothing, Parse, Event, Play, Start, Again, Tell, Over,
       Check, Report, Recv, IInv, TypeOK
  <2>2. QED BY <1>2, <2>1 DEF IInv, TypeOK
<1>5. recv'[h] = label
  BY <1>2 DEF IInv, TypeOK
<1>6. \A g \in Handle : recv'[g] \in Active => recv[g] \in Active
  BY <1>3, <1>4, <1>5
<1>7. \A g \in Handle : over'[g] => recv'[g] \in {"check", "report", "done"}
  BY <1>3, <1>4, <1>5 DEF IInv, OverMeansOut
<1>8. \A g \in Handle : recv[g] \in {"none", "check", "report", "done"} =>
                        recv'[g] \in {"none", "check", "report", "done"}
  BY <1>3, <1>4, <1>5
<1>9. QED BY <1>1, <1>6, <1>7, <1>8, OthersKeep

LEMMA INext == IInv /\ [Next]_vars => IInv'
<1> SUFFICES ASSUME IInv, [Next]_vars PROVE IInv'
  OBVIOUS
<1>1. TypeOK'
  BY TypeNext DEF IInv
<1>2. KeptForCallbacks' /\ OverMeansOut' /\ InOrder'
  <2>1. CASE Main
    BY <2>1, <1>1, MainKeeps
  <2>2. CASE \E h \in Handle : Receiver(h)
    BY <2>2, ReceiverKeeps
  <2>3. CASE UNCHANGED <<main, turn, freed, handle, recv, over>>
    BY <2>3, OthersKeep DEF IInv, OverMeansOut
  <2>4. CASE \E h \in Handle : PeerClose(h)
    BY <2>4, <2>3 DEF PeerClose, receiver
  <2>5. CASE \E s \in Song : Sound(s)
    BY <2>5, <2>3 DEF Sound, connection, receiver
  <2>6. CASE UNCHANGED vars
    BY <2>6, <2>3 DEF vars, connection, receiver
  <2>7. QED BY <2>1, <2>2, <2>4, <2>5, <2>6 DEF Next
<1>3. QED BY <1>1, <1>2 DEF IInv

LEMMA Inductive == Spec => []IInv
BY IInit, INext, PTL DEF Spec

(* No message is handled on freed objects, however the exit, the messages,  *)
(* the songs and the peers interleave: aiui_uninit waits for the receive    *)
(* thread before it frees what the callbacks use.                           *)
THEOREM KeptAlways == Spec => []KeptForCallbacks
BY Inductive, PTL DEF IInv

(* Nothing is freed twice: the second aiui_uninit finds the shared player   *)
(* gone and its own objects untouched.                                      *)
THEOREM FreedOnceAlways == Spec => []FreedOnce
<1>1. IInv => FreedOnce
  <2> SUFFICES ASSUME IInv, main \in Releasing PROVE Victim \notin freed
    BY DEF FreedOnce
  <2>1. CASE main \in {"finish", "player"}
    BY <2>1 DEF IInv, InOrder, Victim
  <2>2. CASE main \in Parts
    BY <2>2 DEF IInv, InOrder, Victim, Unfreed, Parts
  <2>3. QED BY <2>1, <2>2 DEF Releasing, Parts
<1>2. QED BY <1>1, Inductive, PTL

-----------------------------------------------------------------------------
(* What the waits of the exit rest on. *)
Running == ~playEnd => \E s \in Song : song[s] = "run"

Told == main = "wait" => stop[turn] /\ recv[turn] # "none"

Flagged == \A h \in Handle : recv[h] \in {"check", "report", "done"} => over[h]

(* While aiui_uninit waits for play_end a song runs that will set it; while *)
(* it waits for is_over the receive thread was told to stop and is on its   *)
(* way, and if that waits for play_end itself, a song runs.                 *)
ExitNotStranded ==
  /\ main = "playend" /\ ~playEnd => \E s \in Song : song[s] = "run"
  /\ main = "wait" /\ ~over[turn] =>
       /\ stop[turn] /\ recv[turn] \in Active \cup {"over"}
       /\ recv[turn] = "start" /\ ~playEnd => \E s \in Song : song[s] = "run"

LEMMA StartRuns ==
  ASSUME TypeOK, Running, NEW others \in [Song -> SongPC],
         \A s \in Song : song[s] = "run" => others[s] = "run",
         StartSong(others) \/ StopSong(others)
  PROVE  Running'
<1>1. playEnd' = playEnd
  BY DEF StartSong, StopSong
<1>2. \A s \in Song : others[s] = "run" /\ song[s] # "unused" => song'[s] = "run"
  BY DEF StartSong, StopSong
<1>3. QED BY <1>1, <1>2 DEF Running

LEMMA RunningNext ==
  ASSUME TypeOK, Running, [Next]_vars
  PROVE  Running'
<1> USE DEF connection, receiver, sound
<1>1. CASE UNCHANGED <<playEnd, song>>
  BY <1>1 DEF Running
<1>2. CASE Main \/ UNCHANGED vars \/ \E h \in Handle : PeerClose(h)
  BY <1>1, <1>2 DEF Main, Quit, Release, Deinit, PlayEnded, Forget, Post, Close, Wait, vars,
                    PeerClose
<1>3. ASSUME NEW h \in Handle, Receiver(h) PROVE Running'
  <2>1. CASE Start(h)
    <3>1. StartSong(song) \/ StopSong(song)
      BY <2>1 DEF Start
    <3>2. song \in [Song -> SongPC]
      BY DEF TypeOK
    <3>3. QED BY <3>1, <3>2, StartRuns
  <2>2. CASE ~Start(h)
    BY <1>1, <1>3, <2>2 DEF Receiver, LoopTest, RecvNothing, Parse, Event, Play, Again, Tell, Over,
                            Check, Report, Recv
  <2>3. QED BY <2>1, <2>2
<1>4. ASSUME NEW s \in Song, Sound(s) PROVE Running'
  <2>1. CASE SongBegins(s)
    BY <2>1 DEF SongBegins, SongGoto, Running, TypeOK
  <2>2. CASE SongEnds(s)
    BY <2>2 DEF SongEnds, Running
  <2>3. CASE SongTail(s) \/ SongPlays(s) \/ DecodeEnds(s)
    <3>1. /\ UNCHANGED playEnd
          /\ \A t \in Song : song[t] = "run" => song'[t] = "run"
      BY <2>3 DEF SongTail, SongPlays, DecodeEnds, SongGoto, TypeOK
    <3>2. QED BY <3>1 DEF Running
  <2>4. CASE SongStarts(s)
    <3>1. PICK others : /\ others = [song EXCEPT ![s] = "done"]
                        /\ StartSong(others) \/ StopSong(others)
      BY <2>4 DEF SongStarts
    <3>2. /\ others \in [Song -> SongPC]
          /\ \A t \in Song : song[t] = "run" => others[t] = "run"
      BY <2>4, <3>1 DEF SongStarts, TypeOK, SongPC
    <3>3. QED BY <3>1, <3>2, StartRuns
  <2>5. QED BY <1>4, <2>1, <2>2, <2>3, <2>4 DEF Sound
<1>5. QED BY <1>2, <1>3, <1>4 DEF Next

LEMMA ToldNext ==
  ASSUME TypeOK, Told, [Next]_vars
  PROVE  Told'
<1> USE DEF connection, receiver, sound
<1>1. CASE Close
  BY <1>1 DEF Close, Goto, Told, TypeOK
<1>2. CASE Quit \/ Release \/ Deinit \/ PlayEnded \/ Forget \/ Post \/ Wait
  <2>1. main' # "wait"
    BY <1>2 DEF Quit, Release, AfterRelease, Deinit, PlayEnded, Forget, Post, Wait, Goto, Releasing
  <2>2. QED BY <2>1 DEF Told
<1>3. CASE UNCHANGED <<main, turn, stop, recv>>
  BY <1>3 DEF Told
<1>4. CASE UNCHANGED vars \/ (\E h \in Handle : PeerClose(h)) \/ (\E s \in Song : Sound(s))
  BY <1>3, <1>4 DEF vars, PeerClose, Sound
<1>5. ASSUME NEW h \in Handle, Receiver(h) PROVE Told'
  <2>1. UNCHANGED <<main, turn, stop>>
    BY <1>5 DEF Receiver, LoopTest, RecvNothing, Parse, Event, Play, Start, Again, Tell, Over,
                Check, Report, Recv
  <2>2. \A g \in Handle : recv[g] # "none" => recv'[g] # "none"
    BY <1>5 DEF Receiver, LoopTest, RecvNothing, Parse, Event, Play, Start, Again, Tell, Over,
                Check, Report, Recv, Step, AfterSpeech, TypeOK
  <2>3. turn \in Handle
    BY DEF TypeOK
  <2>4. QED BY <2>1, <2>2, <2>3 DEF Told
<1>6. QED BY <1>1, <1>2, <1>4, <1>5 DEF Next, Main

LEMMA FlaggedNext ==
  ASSUME TypeOK, Flagged, [Next]_vars
  PROVE  Flagged'
<1> USE DEF connection, receiver, sound
<1>1. CASE UNCHANGED <<recv, over>>
  BY <1>1 DEF Flagged
<1>2. CASE \/ Main \/ UNCHANGED vars
           \/ (\E h \in Handle : PeerClose(h)) \/ (\E s \in Song : Sound(s))
  BY <1>1, <1>2 DEF Main, Quit, Release, Deinit, PlayEnded, Forget, Post, Close, Wait, vars,
                    PeerClose, Sound
<1>3. ASSUME NEW h \in Handle, Receiver(h) PROVE Flagged'
  <2>1. CASE \/ LoopTest(h) \/ RecvNothing(h) \/ Parse(h) \/ Event(h) \/ Play(h)
             \/ Start(h) \/ Again(h) \/ Tell(h) \/ \E m \in Message : Recv(h, m)
    <3>1. /\ UNCHANGED over
          /\ \A g \in Handle : recv'[g] \in {"check", "report", "done"} => recv'[g] = recv[g]
      BY <2>1 DEF LoopTest, RecvNothing, Parse, Event, Play, Start, Again, Tell, Recv, Step,
                  AfterSpeech, TypeOK
    <3>2. QED BY <3>1 DEF Flagged
  <2>2. CASE Over(h)
    BY <2>2 DEF Over, Step, Flagged, TypeOK
  <2>3. CASE Check(h) \/ Report(h)
    BY <2>3 DEF Check, Report, Step, Flagged, TypeOK
  <2>4. QED BY <1>3, <2>1, <2>2, <2>3 DEF Receiver
<1>4. QED BY <1>2, <1>3 DEF Next

(* No wait of the exit is stranded, for any number of messages and songs.   *)
THEOREM ExitGoesOn == Spec => []ExitNotStranded
<1>1. Init => Running /\ Told /\ Flagged
  BY DEF Init, Running, Told, Flagged
<1>2. IInv /\ Running /\ Told /\ Flagged /\ [Next]_vars => Running' /\ Told' /\ Flagged'
  BY RunningNext, ToldNext, FlaggedNext DEF IInv
<1>3. IInv /\ Running /\ Told /\ Flagged => ExitNotStranded
  <2> SUFFICES ASSUME IInv, Running, Told, Flagged, main = "wait", ~over[turn]
               PROVE  stop[turn] /\ recv[turn] \in Active \cup {"over"}
    BY DEF ExitNotStranded, Running
  <2>1. turn \in Handle /\ recv[turn] \in RecvPC
    BY DEF IInv, TypeOK
  <2>2. recv[turn] \notin {"none", "check", "report", "done"}
    BY <2>1 DEF Told, Flagged
  <2>3. QED BY <2>1, <2>2 DEF Told, RecvPC, Active
<1>4. QED BY <1>1, <1>2, <1>3, Inductive, PTL DEF Spec
=============================================================================
