------------------------------ MODULE DemoExit ------------------------------
(***************************************************************************)
(* The end of the demo: main has joined its four threads (DemoThreads) and  *)
(* destroys its semaphores, then the interaction handle, then the handle    *)
(* for speech synthesis, while the receive threads of both handles and the  *)
(* threads of the song that plays run on.  What is modelled is the life of  *)
(* the objects: which thread is about to touch which of them.               *)
(*                                                                          *)
(* One player serves both handles.  A step whose thread is about to touch a *)
(* freed object is not taken: the code has no defined behaviour from there. *)
(* Connections are accepted ones, as AiuiSession tells them from rejected;  *)
(* nobody opens another, as every thread that called aiui_start is joined.  *)
(***************************************************************************)
EXTENDS Naturals

CONSTANTS MaxMessages,   \* bound: messages a receive thread still gets
          MaxSongs       \* bound: songs played

ASSUME ExitAssumption == MaxMessages \in Nat /\ MaxSongs \in Nat \ {0}

Handle == {"interactive", "tts"}

Song == 1 .. MaxSongs

FinishSem == <<"sem", "finish">>

Player == <<"player", "shared">>

(* What an aiui_info_s owns. *)
Kept(h) == {"aiui", "sem", "websocket", "http"} \X {h}

Parser(h) == <<"parser", h>>

Object == {FinishSem, Player} \cup UNION {Kept(h) \cup {Parser(h)} : h \in Handle}

Message == {"started", "vad", "tts", "error", "finish"}

(* A message goes through the parser and its callback; "play" and "start"   *)
(* are aiui_media_play before and after its wait, "tell" is on_event.       *)
Handling == {"parse", "event", "play", "start", "again", "tell"}

RecvPC == {"none", "loop", "recv", "over", "check", "report", "done"} \cup Handling

SongPC == {"unused", "new", "run", "tail", "play", "start", "done"}

(* main, at its place in aiui_uninit; some places are named for the object  *)
(* they destroy.                                                            *)
Releasing == {"finish", "player", "parser", "http", "websocket", "sem", "aiui"}

MainPC == {"prompt", "deinit", "playend", "forget", "post", "close", "wait",
           "end"} \cup Releasing

VARIABLES
  main, turn,        \* control; the handle aiui_uninit was called with
  freed,             \* the objects destroyed
  handle,            \* s_aiui_player_handle is not NULL
  stop, over, gone,  \* each connection: stop, is_over, closed by its peer
  recv, msg, left,   \* its receive thread, message, messages to come
  halt, playEnd,     \* the player's stop and play_end
  song, decode       \* the play thread and the decode thread of each song

connection == <<stop, over, gone>>
receiver == <<recv, msg, left>>
sound == <<halt, playEnd, song, decode>>
vars == <<main, turn, freed, handle, connection, receiver, sound>>

TypeOK ==
  /\ main \in MainPC /\ turn \in Handle
  /\ freed \subseteq Object
  /\ handle \in BOOLEAN
  /\ stop \in [Handle -> BOOLEAN]
  /\ over \in [Handle -> BOOLEAN]
  /\ gone \in [Handle -> BOOLEAN]
  /\ recv \in [Handle -> RecvPC]
  /\ msg \in [Handle -> Message]
  /\ left \in [Handle -> 0 .. MaxMessages]
  /\ halt \in BOOLEAN /\ playEnd \in BOOLEAN
  /\ song \in [Song -> SongPC]
  /\ decode \in [Song -> {"unused", "run", "done"}]

(* Each handle has a connection or none; what it brings may play songs. *)
Init ==
  /\ main = "prompt" /\ turn = "interactive"
  /\ freed = {}
  /\ handle = TRUE
  /\ stop = [h \in Handle |-> FALSE]
  /\ over = [h \in Handle |-> FALSE]
  /\ gone = [h \in Handle |-> FALSE]
  /\ recv \in [Handle -> {"none", "loop"}]
  /\ msg = [h \in Handle |-> "error"]
  /\ left = [h \in Handle |-> MaxMessages]
  /\ halt = FALSE /\ playEnd = TRUE
  /\ song = [s \in Song |-> "unused"]
  /\ decode = [s \in Song |-> "unused"]

-----------------------------------------------------------------------------
(* What each thread touches in its next step. *)

EventUses(h) ==
  CASE msg[h] \in {"started", "error"}        -> {<<"aiui", h>>, <<"sem", h>>}
    [] msg[h] = "vad" /\ h = "interactive"    -> Kept(h) \ {<<"sem", h>>}
    [] OTHER                                  -> {<<"aiui", h>>}

RecvUses(h) ==
  CASE recv[h] \in {"loop", "recv", "over", "check"} -> {<<"http", h>>}
    [] recv[h] = "parse"            -> {<<"http", h>>, <<"websocket", h>>, <<"aiui", h>>, Parser(h)}
    [] recv[h] = "event"            -> EventUses(h)
    [] recv[h] \in {"play", "start"} -> {Player}
    [] recv[h] = "again"            -> {Parser(h)}
    [] recv[h] = "tell"             -> IF h = "interactive" THEN {<<"aiui", h>>, FinishSem}
                                                            ELSE {<<"aiui", h>>}
    [] recv[h] = "report"           -> {<<"http", h>>, <<"websocket", h>>, <<"aiui", h>>}
    [] OTHER                        -> {}

SongUses(s) ==
  IF song[s] \in {"new", "run", "tail", "play", "start"} \/ decode[s] = "run"
    THEN {Player} ELSE {}

-----------------------------------------------------------------------------
(* main. *)

Goto(label) == main' = label

(* q, with the joins and the semaphores only the joined threads used. *)
Quit ==
  /\ main = "prompt"
  /\ Goto("finish")
  /\ UNCHANGED <<turn, freed, handle, connection, receiver, sound>>

(* Faulty variant: the demo's semaphore is taken for one of the handle. *)
VictimOwn == IF main = "player" THEN Player ELSE <<main, turn>>

Victim ==
  CASE main = "finish" -> FinishSem
    [] main = "player" -> Player
    [] OTHER           -> <<main, turn>>

(* What follows each destruction in main and in aiui_uninit. *)
AfterRelease ==
  CASE main = "finish"    -> "deinit"
    [] main = "player"    -> "forget"
    [] main = "parser"    -> "close"
    [] main = "http"      -> "websocket"
    [] main = "websocket" -> "sem"
    [] main = "sem"       -> "aiui"
    [] main = "aiui"      -> IF turn = "interactive" THEN "deinit" ELSE "end"

Release ==
  /\ main \in Releasing
  /\ freed' = freed \cup {Victim}
  /\ Goto(AfterRelease)
  /\ turn' = IF main = "aiui" THEN "tts" ELSE turn
  /\ UNCHANGED <<handle, connection, receiver, sound>>

(* aiui_audio_ctrl_deinit up to the wait of aiui_media_stop. *)
Deinit ==
  /\ main = "deinit"
  /\ IF handle THEN halt' = TRUE /\ Goto("playend")
               ELSE UNCHANGED halt /\ Goto("post")
  /\ UNCHANGED <<turn, freed, handle, connection, receiver, playEnd, song, decode>>

(* while (!play_end) *)
PlayEnded ==
  /\ main = "playend" /\ playEnd
  /\ Goto("player")
  /\ UNCHANGED <<turn, freed, handle, connection, receiver, sound>>

(* Faulty variant: aiui_audio_ctrl_deinit leaves its pointer as it is. *)
ForgetNot ==
  /\ main = "forget"
  /\ Goto("post")
  /\ UNCHANGED <<turn, freed, handle, connection, receiver, sound>>

Forget ==
  /\ main = "forget"
  /\ handle' = FALSE
  /\ Goto("post")
  /\ UNCHANGED <<turn, freed, connection, receiver, sound>>

(* sem_post(aiui->sem): nobody is in aiui_start any more. *)
Post ==
  /\ main = "post"
  /\ Goto("parser")
  /\ UNCHANGED <<turn, freed, handle, connection, receiver, sound>>

(* Faulty variant: the receive thread is not told to stop. *)
CloseUntold ==
  /\ main = "close"
  /\ Goto(IF recv[turn] = "none" THEN "websocket" ELSE "wait")
  /\ UNCHANGED <<turn, freed, handle, connection, receiver, sound>>

(* aiui_http_destroy_request: stop, the socket, the wait for is_over; a     *)
(* websocket without a connection has nothing to wait for.                  *)
Close ==
  /\ main = "close"
  /\ IF recv[turn] = "none"
       THEN UNCHANGED stop /\ Goto("websocket")
       ELSE stop' = [stop EXCEPT ![turn] = TRUE] /\ Goto("wait")
  /\ UNCHANGED <<turn, freed, handle, over, gone, receiver, sound>>

(* Faulty variant: the connection is freed without the wait. *)
WaitSkipped ==
  /\ main = "wait"
  /\ Goto("http")
  /\ UNCHANGED <<turn, freed, handle, connection, receiver, sound>>

Wait ==
  /\ main = "wait" /\ over[turn]
  /\ Goto("http")
  /\ UNCHANGED <<turn, freed, handle, connection, receiver, sound>>

Main == Quit \/ Release \/ Deinit \/ PlayEnded \/ Forget \/ Post \/ Close \/ Wait

-----------------------------------------------------------------------------
(* aiui_media_play past its wait, by a receive thread or by a play thread   *)
(* that reports the end of its song.  Past the bound a song is over as soon *)
(* as it begins.                                                            *)
StartSong(others) ==
  /\ halt' = FALSE
  /\ IF \E s \in Song : song[s] = "unused"
       THEN \E s \in Song :
              /\ song[s] = "unused"
              /\ song' = [others EXCEPT ![s] = "new"]
              /\ decode' = [decode EXCEPT ![s] = "run"]
       ELSE song' = others /\ UNCHANGED decode
  /\ UNCHANGED playEnd

(* The expected command may be STOP, which only stops. *)
StopSong(others) == song' = others /\ UNCHANGED <<halt, playEnd, decode>>

-----------------------------------------------------------------------------
(* The receive thread of handle h. *)

Step(h, label) == recv' = [recv EXCEPT ![h] = label]

LoopTest(h) ==
  /\ recv[h] = "loop"
  /\ Step(h, IF stop[h] \/ gone[h] THEN "over" ELSE "recv")
  /\ UNCHANGED <<main, turn, freed, handle, connection, msg, left, sound>>

RecvNothing(h) ==
  /\ recv[h] = "recv"
  /\ Step(h, "loop")
  /\ UNCHANGED <<main, turn, freed, handle, connection, msg, left, sound>>

Recv(h, m) ==
  /\ recv[h] = "recv" /\ left[h] > 0
  /\ left' = [left EXCEPT ![h] = @ - 1]
  /\ msg' = [msg EXCEPT ![h] = m]
  /\ Step(h, "parse")
  /\ UNCHANGED <<main, turn, freed, handle, connection, sound>>

Parse(h) ==
  /\ recv[h] = "parse"
  /\ Step(h, "event")
  /\ UNCHANGED <<main, turn, freed, handle, connection, msg, left, sound>>

(* _aiui_message_parse_cb.  Speech is played at once; a session that ends   *)
(* without speech carries out the expected command, if any.  A speech       *)
(* result can be the last message as well.                                  *)
AfterSpeech(h) == IF msg[h] = "tts" THEN {"again", "loop"} ELSE {"tell"}

Event(h) ==
  /\ recv[h] = "event"
  /\ IF msg[h] \in {"tts", "finish"}
       THEN \/ handle /\ Step(h, "play")
            \/ (~handle \/ msg[h] = "finish") /\ \E label \in AfterSpeech(h) : Step(h, label)
       ELSE Step(h, "loop")
  /\ UNCHANGED <<main, turn, freed, handle, connection, msg, left, sound>>

Play(h) ==
  /\ recv[h] = "play"
  /\ halt' = TRUE
  /\ Step(h, "start")
  /\ UNCHANGED <<main, turn, freed, handle, connection, msg, left, playEnd, song, decode>>

Start(h) ==
  /\ recv[h] = "start" /\ playEnd
  /\ StartSong(song) \/ (msg[h] = "finish" /\ StopSong(song))
  /\ \E label \in AfterSpeech(h) : Step(h, label)
  /\ UNCHANGED <<main, turn, freed, handle, connection, msg, left>>

(* The FINISH that a last tts result brings: is_process_tts is set by then. *)
Again(h) ==
  /\ recv[h] = "again"
  /\ Step(h, "tell")
  /\ UNCHANGED <<main, turn, freed, handle, connection, msg, left, sound>>

Tell(h) ==
  /\ recv[h] = "tell"
  /\ Step(h, "loop")
  /\ UNCHANGED <<main, turn, freed, handle, connection, msg, left, sound>>

(* is_over, then another look at stop, then _aiui_closed. *)
Over(h) ==
  /\ recv[h] = "over"
  /\ over' = [over EXCEPT ![h] = TRUE]
  /\ Step(h, "check")
  /\ UNCHANGED <<main, turn, freed, handle, stop, gone, msg, left, sound>>

Check(h) ==
  /\ recv[h] = "check"
  /\ Step(h, IF stop[h] THEN "done" ELSE "report")
  /\ UNCHANGED <<main, turn, freed, handle, connection, msg, left, sound>>

Report(h) ==
  /\ recv[h] = "report"
  /\ Step(h, "done")
  /\ UNCHANGED <<main, turn, freed, handle, connection, msg, left, sound>>

Receiver(h) ==
  /\ RecvUses(h) \cap freed = {}
  /\ \/ LoopTest(h) \/ RecvNothing(h) \/ Parse(h) \/ Event(h) \/ Play(h)
     \/ Start(h) \/ Again(h) \/ Tell(h) \/ Over(h) \/ Check(h) \/ Report(h)
     \/ \E m \in Message : Recv(h, m)

PeerClose(h) ==
  /\ ~gone[h]
  /\ gone' = [gone EXCEPT ![h] = TRUE]
  /\ UNCHANGED <<main, turn, freed, handle, stop, over, receiver, sound>>

-----------------------------------------------------------------------------
(* The threads of song s. *)

SongGoto(s, label) == song' = [song EXCEPT ![s] = label]

SongBegins(s) ==
  /\ song[s] = "new"
  /\ playEnd' = FALSE
  /\ SongGoto(s, "run")
  /\ UNCHANGED <<halt, decode>>

(* The song is stopped or over. *)
SongEnds(s) ==
  /\ song[s] = "run"
  /\ playEnd' = TRUE
  /\ SongGoto(s, "tail")
  /\ UNCHANGED <<halt, decode>>

(* if (!stop) PLAY_END, which may play the next song of the list. *)
SongTail(s) ==
  /\ song[s] = "tail"
  /\ \/ SongGoto(s, "done")
     \/ ~halt /\ handle /\ SongGoto(s, "play")
  /\ UNCHANGED <<halt, playEnd, decode>>

SongPlays(s) ==
  /\ song[s] = "play"
  /\ halt' = TRUE
  /\ SongGoto(s, "start")
  /\ UNCHANGED <<playEnd, decode>>

SongStarts(s) ==
  /\ song[s] = "start" /\ playEnd
  /\ LET others == [song EXCEPT ![s] = "done"]
     IN  StartSong(others) \/ StopSong(others)

(* A decode thread, which nobody waits for. *)
DecodeEnds(s) ==
  /\ decode[s] = "run"
  /\ decode' = [decode EXCEPT ![s] = "done"]
  /\ UNCHANGED <<halt, playEnd, song>>

Sound(s) ==
  /\ SongUses(s) \cap freed = {}
  /\ \/ SongBegins(s) \/ SongEnds(s) \/ SongTail(s) \/ SongPlays(s) \/ SongStarts(s)
     \/ DecodeEnds(s)
  /\ UNCHANGED <<main, turn, freed, handle, connection, receiver>>

Next ==
  \/ Main
  \/ \E h \in Handle : Receiver(h) \/ PeerClose(h)
  \/ \E s \in Song : Sound(s)

Spec == Init /\ [][Next]_vars

(* The scheduler runs every thread that can run; songs and streams end. *)
FairSpec ==
  /\ Spec /\ WF_vars(Main)
  /\ \A h \in Handle : WF_vars(Receiver(h))
  /\ \A s \in Song : WF_vars(Sound(s))

-----------------------------------------------------------------------------
(* Properties. *)

(* A message is never handled on a handle, semaphore, websocket or          *)
(* connection that was freed: aiui_websocket_destroy waits for is_over,     *)
(* which the receive thread sets past its last callback.                    *)
KeptForCallbacks ==
  \A h \in Handle :
    recv[h] \in Handling \cup {"loop", "recv"} => Kept(h) \cap freed = {}

(* Nothing is freed twice, although both handles' aiui_uninit destroy the   *)
(* player they share.                                                       *)
FreedOnce == main \in Releasing => Victim \notin freed

(* Every wait of the exit ends, unless a thread is about to touch what was  *)
(* freed.                                                                   *)
LateUse ==
  \/ \E h \in Handle : RecvUses(h) \cap freed # {}
  \/ \E s \in Song : SongUses(s) \cap freed # {}

ExitEnds == (main # "prompt") ~> (main = "end" \/ LateUse)

(* aiui_uninit destroys the handle and frees what belongs to it             *)
(* (README.md of the SDK): nobody uses it afterwards.                       *)
UsedNotFreed == ~LateUse
=============================================================================
