---------------------------- MODULE AiuiSession ----------------------------
(***************************************************************************)
(* One AIUI interaction handle of the LoongArch SDK, short-connection build *)
(* (AIUI_LONG_CONNECT undefined): aiui_api.c over aiui_websocket_api.c over *)
(* aiui_http_api.c, with the demo's event callback and its send thread.     *)
(*                                                                          *)
(* Threads:                                                                 *)
(*   main    the application thread: aiui_start, aiui_send, aiui_stop and   *)
(*           aiui_uninit, one after the other;                              *)
(*   snd     the demo's send_audio loop, which calls aiui_send;             *)
(*   thr[c]  the detached receive thread of HTTP handle c, which runs the   *)
(*           message callbacks (and through them the demo's on_event and    *)
(*           aiui_stop).                                                    *)
(* A step is at most what a thread does between two accesses to state that  *)
(* another thread writes.  No lock protects any of this state in the code.  *)
(* aiui_start is called by one thread: two callers are outside this model.  *)
(***************************************************************************)
EXTENDS Naturals, FiniteSets

CONSTANTS Conn,      \* the HTTP handles the allocator can return, each once
          NoConn,    \* NULL
          Modes,     \* which of Mode the user of the demo asks for
          Faults     \* which of AllFaults the environment may show

AllFaults == {"timeout",   \* the 5 s wait of aiui_start may expire
              "hello",     \* the cloud may send "connected" or "pong"
              "error",     \* the cloud may answer with an error message
              "reject",    \* the server may answer with a Content-Length body
              "close"}     \* the peer or the network may close a connection

(* What is received: the messages that drive the session.  Recognition and  *)
(* answer results only call the application and change no SDK state.        *)
Msg == {"connected", "started", "vad", "tts", "error", "finish"}

(* The three ways the demo opens a session: live audio ("real", wake-up),   *)
(* an audio file ("audio") and a text ("text").                             *)
Mode == {"real", "file", "text"}

ASSUME SessionAssumption ==
  NoConn \notin Conn /\ Modes \subseteq Mode /\ Faults \subseteq AllFaults

MainPC == {"idle",               \* between two API calls
           "wait", "free",       \* aiui_http_destroy_request
           "reset", "connect",   \* aiui_start up to aiui_connect
           "assign", "request",  \* aiui_websocket_connect
           "await", "expire",    \* aiui_hal_sem_wait and its timeout branch
           "send",               \* aiui_send, past its check
           "stop", "end",        \* aiui_stop, past its check
           "gone"}               \* aiui_uninit has freed the handle

Handling == {"connected", "started", "post", "vad", "vadstop", "vadend",
             "vadmark", "tts", "error", "finish"}
Receiving == {"loop", "recv", "body"} \cup Handling
ThreadPC == {"none"} \cup Receiving \cup
            {"exit", "check", "closed", "closed2", "done"}

VARIABLES
  main, op, mode,            \* main thread: control, pending call, its mode
  snd,                       \* send_audio thread
  http, fresh,               \* websocket->http; create_request's result
  connect, session, type,    \* aiui->connect_status, session_status, type
  processTts, sem,           \* aiui->is_process_tts, aiui->sem
  startSend, testAudio,      \* the demo's s_start_send, s_test_audio
  mem, stop, over, rejected, \* an HTTP handle: storage, stop, is_over (early)
  sock, thr,                 \* its socket and its receive thread
  asked, got, up, ttsCmd,    \* the peer: upgrade request read, messages it
                             \* sent, last frame it read; audio commands
  frame                      \* websocket->frame: the handles whose bytes
                             \* wait there for the rest of a frame

appVars  == <<main, op, mode, snd, startSend, testAudio>>
aiuiVars == <<connect, session, type, processTts, sem>>
httpVars == <<http, fresh, mem, stop, over, rejected, sock>>
peerVars == <<asked, got, up, ttsCmd, frame>>
vars     == <<appVars, aiuiVars, httpVars, thr, peerVars>>

TypeOK ==
  /\ main \in MainPC
  /\ op \in {"start", "uninit"}
  /\ mode \in Mode
  /\ snd \in {"gate", "check", "use"}
  /\ http \in Conn \cup {NoConn}
  /\ fresh \in Conn \cup {NoConn}
  /\ connect \in {"disconnected", "connecting", "connected"}
  /\ session \in {"stoped", "starting", "started", "vad"}
  /\ type \in {"audio", "text"}
  /\ processTts \in BOOLEAN
  /\ sem \in Nat
  /\ startSend \in BOOLEAN
  /\ testAudio \in BOOLEAN
  /\ mem \in [Conn -> {"unused", "live", "freed"}]
  /\ stop \in [Conn -> BOOLEAN]
  /\ over \in [Conn -> BOOLEAN]
  /\ rejected \in [Conn -> BOOLEAN]
  /\ sock \in [Conn -> {"up", "closed", "shut"}]
  /\ thr \in [Conn -> ThreadPC]
  /\ asked \in [Conn -> BOOLEAN]
  /\ got \in [Conn -> SUBSET Msg]
  /\ up \in [Conn -> {"none", "request", "live", "data", "end"}]
  /\ ttsCmd \in [Conn -> SUBSET {"url", "null"}]
  /\ frame \subseteq Conn

Init ==
  /\ main = "idle" /\ op = "start" /\ mode = "real" /\ snd = "gate"
  /\ http = NoConn /\ fresh = NoConn
  /\ connect = "disconnected" /\ session = "stoped" /\ type = "audio"
  /\ processTts = FALSE /\ sem = 0
  /\ startSend = FALSE /\ testAudio = FALSE
  /\ mem = [c \in Conn |-> "unused"]
  /\ stop = [c \in Conn |-> FALSE]
  /\ over = [c \in Conn |-> FALSE]
  /\ rejected = [c \in Conn |-> FALSE]
  /\ sock = [c \in Conn |-> "up"]
  /\ thr = [c \in Conn |-> "none"]
  /\ asked = [c \in Conn |-> FALSE]
  /\ got = [c \in Conn |-> {}]
  /\ up = [c \in Conn |-> "none"]
  /\ ttsCmd = [c \in Conn |-> {}]
  /\ frame = {}

-----------------------------------------------------------------------------
(* The main thread.                                                         *)

(* Faulty variant: aiui_start without its aiui_websocket_disconect. *)
DisconnectForgotten(next) == main' = next /\ UNCHANGED <<stop, sock>>

(* aiui_http_destroy_request up to its wait loop; it does nothing on NULL.  *)
Disconnect(next) ==
  IF http = NoConn
    THEN main' = next /\ UNCHANGED <<stop, sock>>
    ELSE /\ stop' = [stop EXCEPT ![http] = TRUE]
         /\ sock' = [sock EXCEPT ![http] = "shut"]
         /\ main' = "wait"

(* The demo sets s_test_audio and calls aiui_start, which disconnects first. *)
StartCall(m) ==
  /\ main = "idle"
  /\ mode' = m
  /\ op' = "start"
  /\ testAudio' = CASE m = "real" -> FALSE
                    [] m = "file" -> TRUE
                    [] OTHER      -> testAudio
  /\ Disconnect("reset")
  /\ UNCHANGED <<snd, startSend, aiuiVars, http, fresh, mem, over, rejected,
                 thr, peerVars>>

(* aiui_uninit: main has joined the send thread; the post comes first. *)
UninitCall ==
  /\ main = "idle"
  /\ snd = "gate"
  /\ op' = "uninit"
  /\ sem' = sem + 1
  /\ Disconnect("gone")
  /\ UNCHANGED <<mode, snd, startSend, testAudio, connect, session, type,
                 processTts, http, fresh, mem, over, rejected, thr, peerVars>>

(* Faulty variant: the handle is freed without waiting for is_over. *)
WaitOverSkipped ==
  /\ main = "wait"
  /\ main' = "free"
  /\ UNCHANGED <<op, mode, snd, startSend, testAudio, aiuiVars, httpVars, thr,
                 peerVars>>

(* while (!is_over) sleep: it reads the flag the receive thread sets. *)
WaitOver ==
  /\ main = "wait"
  /\ over[http]
  /\ main' = "free"
  /\ UNCHANGED <<op, mode, snd, startSend, testAudio, aiuiVars, httpVars, thr,
                 peerVars>>

(* aiui_hal_free(self). *)
Free ==
  /\ main = "free"
  /\ mem' = [mem EXCEPT ![http] = "freed"]
  /\ main' = IF op = "start" THEN "reset" ELSE "gone"
  /\ UNCHANGED <<op, mode, snd, startSend, testAudio, aiuiVars, http, fresh,
                 stop, over, rejected, sock, thr, peerVars>>

(* Faulty variant: connect_status keeps its value over a restart. *)
ResetKeepsConnect ==
  /\ main = "reset"
  /\ http' = NoConn
  /\ session' = "starting"
  /\ type' = IF mode = "text" THEN "text" ELSE "audio"
  /\ processTts' = FALSE
  /\ frame' = {}
  /\ main' = "connect"
  /\ UNCHANGED <<op, mode, snd, startSend, testAudio, connect, sem, fresh, mem,
                 stop, over, rejected, sock, thr, asked, got, up, ttsCmd>>

(* What aiui_websocket_disconect does behind the free, http := NULL after   *)
(* the frames' cleanup; then, in aiui_start, the fields of the new session. *)
Reset ==
  /\ main = "reset"
  /\ http' = NoConn
  /\ connect' = "disconnected"
  /\ session' = "starting"
  /\ type' = IF mode = "text" THEN "text" ELSE "audio"
  /\ processTts' = FALSE
  /\ frame' = {}
  /\ main' = "connect"
  /\ UNCHANGED <<op, mode, snd, startSend, testAudio, sem, fresh, mem, stop,
                 over, rejected, sock, thr, asked, got, up, ttsCmd>>

(* aiui_connect and aiui_http_create_request: the handle's receive thread   *)
(* runs before websocket->http names it.                                    *)
Connect(c) ==
  /\ main = "connect"
  /\ mem[c] = "unused"
  /\ IF connect = "disconnected"
       THEN /\ connect' = "connecting"
            /\ fresh' = c
            /\ mem' = [mem EXCEPT ![c] = "live"]
            /\ thr' = [thr EXCEPT ![c] = "loop"]
            /\ main' = "assign"
       ELSE main' = "await" /\ UNCHANGED <<connect, fresh, mem, thr>>
  /\ UNCHANGED <<op, mode, snd, startSend, testAudio, session, type,
                 processTts, sem, http, stop, over, rejected, sock, peerVars>>

(* No TCP connection: aiui_start returns -1 and resets neither status. *)
ConnectFails ==
  /\ main = "connect"
  /\ connect = "disconnected"
  /\ connect' = "connecting"
  /\ main' = "idle"
  /\ UNCHANGED <<op, mode, snd, startSend, testAudio, session, type,
                 processTts, sem, httpVars, thr, peerVars>>

Assign ==
  /\ main = "assign"
  /\ http' = fresh /\ fresh' = NoConn
  /\ main' = "request"
  /\ UNCHANGED <<op, mode, snd, startSend, testAudio, aiuiVars, mem, stop,
                 over, rejected, sock, thr, peerVars>>

(* The upgrade request; what happens to it is not looked at. *)
Request ==
  /\ main = "request"
  /\ IF up[http] = "none" /\ sock[http] = "up"
       THEN /\ up' = [up EXCEPT ![http] = "request"]
            /\ asked' = [asked EXCEPT ![http] = TRUE]
       ELSE UNCHANGED <<up, asked>>
  /\ main' = "await"
  /\ UNCHANGED <<op, mode, snd, startSend, testAudio, aiuiVars, httpVars, thr,
                 got, ttsCmd, frame>>

(* Faulty variant: aiui_start does not wait for the semaphore. *)
AwaitSkipped ==
  /\ main = "await"
  /\ sem' = sem - 1
  /\ main' = "idle"
  /\ UNCHANGED <<op, mode, snd, startSend, testAudio, connect, session, type,
                 processTts, httpVars, thr, peerVars>>

(* aiui_start returns 0. *)
Await ==
  /\ main = "await"
  /\ sem > 0
  /\ sem' = sem - 1
  /\ main' = "idle"
  /\ UNCHANGED <<op, mode, snd, startSend, testAudio, connect, session, type,
                 processTts, httpVars, thr, peerVars>>

(* aiui_start returns -1: two writes, and the connection stays open. *)
Timeout ==
  /\ main = "await"
  /\ sem = 0
  /\ "timeout" \in Faults
  /\ session' = "stoped"
  /\ main' = "expire"
  /\ UNCHANGED <<op, mode, snd, startSend, testAudio, connect, type,
                 processTts, sem, httpVars, thr, peerVars>>

(* Faulty variant: the timeout forgets the connection without closing it. *)
ExpireForgets ==
  /\ main = "expire"
  /\ connect' = "disconnected"
  /\ http' = NoConn
  /\ main' = "idle"
  /\ UNCHANGED <<op, mode, snd, startSend, testAudio, session, type,
                 processTts, sem, fresh, mem, stop, over, rejected, sock, thr,
                 peerVars>>

Expire ==
  /\ main = "expire"
  /\ connect' = "disconnected"
  /\ main' = "idle"
  /\ UNCHANGED <<op, mode, snd, startSend, testAudio, session, type,
                 processTts, sem, httpVars, thr, peerVars>>

-----------------------------------------------------------------------------
(* aiui_send and aiui_stop.                                                 *)

(* A frame written to websocket->http: lost when that is NULL, freed or     *)
(* down, otherwise the last thing the peer has read on it.                  *)
Transmit(written) ==
  up' = IF http # NoConn /\ mem[http] = "live" /\ sock[http] = "up"
          THEN [up EXCEPT ![http] = written] ELSE up

(* aiui_send by the main thread (a text, or the audio of a file); in the     *)
(* live mode main only starts the session.                                  *)
SendCall ==
  /\ main = "idle" /\ mode # "real"
  /\ connect = "connected"
  /\ main' = "send"
  /\ UNCHANGED <<op, mode, snd, startSend, testAudio, aiuiVars, httpVars, thr,
                 peerVars>>

SendFrame ==
  /\ main = "send"
  /\ Transmit("data")
  /\ main' = "idle"
  /\ UNCHANGED <<op, mode, snd, startSend, testAudio, aiuiVars, httpVars, thr,
                 asked, got, ttsCmd, frame>>

(* aiui_stop: its check, its write, its frame. *)
StopCall ==
  /\ main = "idle" /\ mode # "real"
  /\ session = "started"
  /\ main' = "stop"
  /\ UNCHANGED <<op, mode, snd, startSend, testAudio, aiuiVars, httpVars, thr,
                 peerVars>>

StopMark ==
  /\ main = "stop"
  /\ session' = "vad"
  /\ main' = "end"
  /\ UNCHANGED <<op, mode, snd, startSend, testAudio, connect, type,
                 processTts, sem, httpVars, thr, peerVars>>

StopFrame ==
  /\ main = "end"
  /\ Transmit("end")
  /\ main' = "idle"
  /\ UNCHANGED <<op, mode, snd, startSend, testAudio, aiuiVars, httpVars, thr,
                 asked, got, ttsCmd, frame>>

(* The send_audio thread: the demo's two flags, the check of aiui_send, the *)
(* frame.  The PCM ring buffer always has a frame to offer here.            *)
SenderGate ==
  /\ snd = "gate" /\ main # "gone"
  /\ op # "uninit"
  /\ startSend /\ ~testAudio
  /\ snd' = "check"
  /\ UNCHANGED <<main, op, mode, startSend, testAudio, aiuiVars, httpVars, thr,
                 peerVars>>

SenderCheck ==
  /\ snd = "check"
  /\ snd' = IF connect = "connected" THEN "use" ELSE "gate"
  /\ UNCHANGED <<main, op, mode, startSend, testAudio, aiuiVars, httpVars, thr,
                 peerVars>>

SenderUse ==
  /\ snd = "use"
  /\ Transmit("live")
  /\ snd' = "gate"
  /\ UNCHANGED <<main, op, mode, startSend, testAudio, aiuiVars, httpVars, thr,
                 asked, got, ttsCmd, frame>>

-----------------------------------------------------------------------------
(* The receive thread of handle c, _aiui_http_recv_thread.                  *)

(* A field of a freed handle reads as anything. *)
Reads(c, value, seen) == mem[c] = "freed" \/ value = seen

Goto(c, pc) == thr' = [thr EXCEPT ![c] = pc]

(* while (0 == stop) and aiui_connect_is_ok. *)
LoopExit(c) ==
  /\ thr[c] = "loop"
  /\ Reads(c, stop[c] \/ sock[c] # "up", TRUE)
  /\ Goto(c, "exit")
  /\ UNCHANGED <<appVars, aiuiVars, httpVars, peerVars>>

LoopRecv(c) ==
  /\ thr[c] = "loop"
  /\ Reads(c, stop[c] \/ sock[c] # "up", FALSE)
  /\ Goto(c, "recv")
  /\ UNCHANGED <<appVars, aiuiVars, httpVars, peerVars>>

(* The next message of the data received; several may come in one buffer,   *)
(* and stop is not looked at between two of them.                           *)
Sends(c, m) ==
  /\ thr[c] = "recv"
  /\ asked[c] /\ ~rejected[c]
  /\ m \notin got[c] /\ got[c] \cap {"error", "finish"} = {}
  /\ m = "error" => "error" \in Faults
  /\ m = "connected" => "hello" \in Faults
  /\ m \notin {"error", "connected"} =>
       (m = "started") = ("started" \notin got[c])
  /\ got' = [got EXCEPT ![c] = @ \cup {m}]

(* Its last byte completes the frame, and it is handled. *)
Recv(c, m) ==
  /\ Sends(c, m)
  /\ frame' = frame \ {c}
  /\ Goto(c, m)
  /\ UNCHANGED <<appVars, aiuiVars, httpVars, asked, up, ttsCmd>>

(* The parser still holds bytes of another connection: the message is taken *)
(* for more of them and lost, with them or waiting like them.               *)
Garble(c, m) ==
  /\ Sends(c, m)
  /\ frame \ {c} # {}
  /\ frame' \in {{}, frame \cup {c}}
  /\ Goto(c, "recv")
  /\ UNCHANGED <<appVars, aiuiVars, httpVars, asked, up, ttsCmd>>

(* The 3 s select expires, or the buffer is used up, perhaps within a frame. *)
RecvNothing(c) ==
  /\ thr[c] = "recv"
  /\ frame' = frame \/ (asked[c] /\ ~rejected[c] /\ frame' = frame \cup {c})
  /\ Goto(c, "loop")
  /\ UNCHANGED <<appVars, aiuiVars, httpVars, asked, got, up, ttsCmd>>

(* A response with a body instead of the upgrade, all of it: is_over is set *)
(* before the body goes to the callback.                                    *)
RecvReject(c) ==
  /\ thr[c] = "recv"
  /\ "reject" \in Faults
  /\ asked[c] /\ got[c] = {} /\ ~rejected[c]
  /\ rejected' = [rejected EXCEPT ![c] = TRUE]
  /\ over' = [over EXCEPT ![c] = TRUE]
  /\ Goto(c, "body")
  /\ UNCHANGED <<appVars, aiuiVars, http, fresh, mem, stop, sock, peerVars>>

(* The callback: the frame parser takes the body for frames, whatever has   *)
(* happened to the handle and the session by now.  It makes no message of   *)
(* it, and may be left within a frame.                                      *)
RejectBody(c) ==
  /\ thr[c] = "body"
  /\ frame' \in {frame, frame \cup {c}}
  /\ Goto(c, "loop")
  /\ UNCHANGED <<appVars, aiuiVars, httpVars, asked, got, up, ttsCmd>>

(* AIUI_MESSAGE_CONNECTED, which the parser makes of "connected" and "pong". *)
Connected(c) ==
  /\ thr[c] = "connected"
  /\ connect' = "connected"
  /\ Goto(c, "recv")
  /\ UNCHANGED <<appVars, session, type, processTts, sem, httpVars, peerVars>>

(* AIUI_MESSAGE_STARTED, with the demo's AIUI_EVENT_START_SEND. *)
Started(c) ==
  /\ thr[c] = "started"
  /\ connect' = "connected"
  /\ session' = "started"
  /\ processTts' = FALSE
  /\ startSend' = IF type = "audio" THEN TRUE ELSE startSend
  /\ Goto(c, "post")
  /\ UNCHANGED <<main, op, mode, snd, testAudio, type, sem, httpVars, peerVars>>

(* aiui_hal_sem_post, of STARTED and of ERROR. *)
Post(c) ==
  /\ thr[c] \in {"post", "error"}
  /\ sem' = sem + 1
  /\ Goto(c, "recv")
  /\ UNCHANGED <<appVars, connect, session, type, processTts, httpVars,
                 peerVars>>

(* AIUI_MESSAGE_VAD: ignored unless started; for audio the demo's           *)
(* AIUI_EVENT_STOP_SEND calls aiui_stop from this thread.                   *)
Vad(c) ==
  /\ thr[c] = "vad"
  /\ Goto(c, CASE session # "started" -> "recv"
               [] type = "audio"      -> "vadstop"
               [] OTHER               -> "vadmark")
  /\ startSend' = (startSend /\ ~(session = "started" /\ type = "audio"))
  /\ UNCHANGED <<main, op, mode, snd, testAudio, aiuiVars, httpVars, peerVars>>

VadStop(c) ==
  /\ thr[c] = "vadstop"
  /\ IF session = "started"
       THEN session' = "vad" /\ Goto(c, "vadend")
       ELSE Goto(c, "vadmark") /\ UNCHANGED session
  /\ UNCHANGED <<appVars, connect, type, processTts, sem, httpVars, peerVars>>

VadEnd(c) ==
  /\ thr[c] = "vadend"
  /\ Transmit("end")
  /\ Goto(c, "vadmark")
  /\ UNCHANGED <<appVars, aiuiVars, httpVars, asked, got, ttsCmd, frame>>

VadMark(c) ==
  /\ thr[c] = "vadmark"
  /\ session' = "vad"
  /\ Goto(c, "recv")
  /\ UNCHANGED <<appVars, connect, type, processTts, sem, httpVars, peerVars>>

(* Faulty variant: the speech is not remembered. *)
TtsNotMarked(c) ==
  /\ thr[c] = "tts"
  /\ ttsCmd' = [ttsCmd EXCEPT ![c] = @ \cup {"url"}]
  /\ Goto(c, "recv")
  /\ UNCHANGED <<appVars, aiuiVars, httpVars, asked, got, up, frame>>

(* AIUI_MESSAGE_TTS: the url goes to the audio control. *)
Tts(c) ==
  /\ thr[c] = "tts"
  /\ processTts' = TRUE
  /\ ttsCmd' = [ttsCmd EXCEPT ![c] = @ \cup {"url"}]
  /\ Goto(c, "recv")
  /\ UNCHANGED <<appVars, connect, session, type, sem, httpVars, asked, got,
                 up, frame>>

(* AIUI_MESSAGE_FINISH: a session without speech resumes the media (NULL). *)
Finish(c) ==
  /\ thr[c] = "finish"
  /\ session' = "stoped"
  /\ processTts' = TRUE
  /\ ttsCmd' = IF processTts THEN ttsCmd
                             ELSE [ttsCmd EXCEPT ![c] = @ \cup {"null"}]
  /\ Goto(c, "recv")
  /\ UNCHANGED <<appVars, connect, type, sem, httpVars, asked, got, up, frame>>

(* Faulty variant: is_over is set only when the disconnect is reported. *)
ExitOnlyIfReported(c) ==
  /\ thr[c] = "exit"
  /\ over' = [over EXCEPT ![c] = ~stop[c]]
  /\ Goto(c, "check")
  /\ UNCHANGED <<appVars, aiuiVars, http, fresh, mem, stop, rejected, sock,
                 peerVars>>

(* is_over := 1 comes first, then the test of stop, then _aiui_closed. *)
Exit(c) ==
  /\ thr[c] = "exit"
  /\ over' = [over EXCEPT ![c] = TRUE]
  /\ Goto(c, "check")
  /\ UNCHANGED <<appVars, aiuiVars, http, fresh, mem, stop, rejected, sock,
                 peerVars>>

ExitQuiet(c) ==
  /\ thr[c] = "check"
  /\ Reads(c, stop[c], TRUE)
  /\ Goto(c, "done")
  /\ UNCHANGED <<appVars, aiuiVars, httpVars, peerVars>>

ExitReport(c) ==
  /\ thr[c] = "check"
  /\ Reads(c, stop[c], FALSE)
  /\ Goto(c, "closed")
  /\ UNCHANGED <<appVars, aiuiVars, httpVars, peerVars>>

ClosedSession(c) ==
  /\ thr[c] = "closed"
  /\ session' = "stoped"
  /\ Goto(c, "closed2")
  /\ UNCHANGED <<appVars, connect, type, processTts, sem, httpVars, peerVars>>

(* Faulty variant: _aiui_closed leaves connect_status alone. *)
ClosedKeepsConnect(c) ==
  /\ thr[c] = "closed2"
  /\ Goto(c, "done")
  /\ UNCHANGED <<appVars, aiuiVars, httpVars, peerVars>>

ClosedConnect(c) ==
  /\ thr[c] = "closed2"
  /\ connect' = "disconnected"
  /\ Goto(c, "done")
  /\ UNCHANGED <<appVars, session, type, processTts, sem, httpVars, peerVars>>

-----------------------------------------------------------------------------
(* The environment, and the specification.                                  *)

PeerClose(c) ==
  /\ "close" \in Faults
  /\ mem[c] = "live" /\ sock[c] = "up"
  /\ sock' = [sock EXCEPT ![c] = "closed"]
  /\ UNCHANGED <<appVars, aiuiVars, http, fresh, mem, stop, over, rejected,
                 thr, peerVars>>

(* The process is done: the handle is gone and its threads have ended. *)
Terminated ==
  /\ main = "gone"
  /\ \A c \in Conn : thr[c] \in {"none", "done"}
  /\ UNCHANGED vars

(* What the main thread owes once inside an API call. *)
MainStep ==
  \/ WaitOver \/ Free \/ Reset \/ ConnectFails \/ Assign \/ Request
  \/ Await \/ Timeout \/ Expire \/ SendFrame \/ StopMark \/ StopFrame
  \/ \E c \in Conn : Connect(c)

MainCall ==
  \/ \E m \in Modes : StartCall(m)
  \/ UninitCall \/ SendCall \/ StopCall

SenderStep == SenderGate \/ SenderCheck \/ SenderUse

ThreadStep(c) ==
  \/ LoopExit(c) \/ LoopRecv(c) \/ RecvNothing(c) \/ RecvReject(c)
  \/ RejectBody(c)
  \/ \E m \in Msg : Recv(c, m) \/ Garble(c, m)
  \/ Connected(c) \/ Started(c) \/ Post(c)
  \/ Vad(c) \/ VadStop(c) \/ VadEnd(c) \/ VadMark(c)
  \/ Tts(c) \/ Finish(c)
  \/ Exit(c) \/ ExitQuiet(c) \/ ExitReport(c)
  \/ ClosedSession(c) \/ ClosedConnect(c)

Next ==
  \/ MainStep \/ MainCall \/ SenderStep
  \/ \E c \in Conn : ThreadStep(c) \/ PeerClose(c)
  \/ Terminated

Spec == Init /\ [][Next]_vars

(* The scheduler runs every thread that can run; sem_timedwait returns. *)
Fairness == WF_vars(MainStep) /\ \A c \in Conn : WF_vars(ThreadStep(c))

FairSpec == Spec /\ Fairness

-----------------------------------------------------------------------------
(* Properties.                                                              *)

(* Once aiui_start has disconnected a connection no message of it is        *)
(* handled, and no byte of it is left where the frames of the next are put  *)
(* together: is_over is set by the receive thread only past its last        *)
(* callback, so that the wait of aiui_http_destroy_request keeps old        *)
(* sessions out of new ones.  The one exception is the body of a rejected   *)
(* upgrade, for which is_over is set before the callback: its bytes may     *)
(* reach the frame parser late, and spoil the frames of the next session.   *)
QuietAfterDisconnect ==
  \A c \in Conn :
    /\ thr[c] \in Handling => c = http /\ mem[c] = "live"
    /\ c \in frame => c = http \/ rejected[c]

(* A receive thread is still in its loop after its handle was freed only if *)
(* the server had rejected the upgrade with a complete body, which sets     *)
(* is_over early.                                                           *)
LoopOutlivesHandleOnlyIfRejected ==
  \A c \in Conn : thr[c] \in Receiving /\ mem[c] = "freed" => rejected[c]

(* Every handle that was created and not destroyed is the one the next      *)
(* aiui_start or aiui_uninit destroys: a timed-out or failed start leaks    *)
(* none, and none is destroyed twice.                                       *)
NoLeakNoDoubleFree ==
  /\ \A c \in Conn : mem[c] = "live" =>
       \/ c = http /\ main # "gone"
       \/ c = fresh /\ main = "assign"
  /\ main \in {"wait", "free"} => http # NoConn /\ mem[http] = "live"

(* connect_status says CONNECTED only while websocket->http is a connection *)
(* on which the cloud has answered the upgrade (with "started", "connected" *)
(* or "pong"); the one exception is aiui_start between its free and its     *)
(* reset.                                                                   *)
ConnectedMeansAnswered ==
  connect = "connected" /\ main \notin {"reset", "gone"} =>
    /\ http # NoConn
    /\ mem[http] = "live"
    /\ got[http] \cap {"connected", "started"} # {}

(* The detailed layers implement MessageLink: a connection is current from  *)
(* the creation of its handle to the free that destroys it.  What Garble    *)
(* loses was delivered in the sense of that module: it too has come for the *)
(* current connection only.                                                 *)
Current == CASE main = "assign"            -> fresh
             [] main \in {"reset", "gone"} -> NoConn
             [] OTHER                      -> http

Link == INSTANCE MessageLink
          WITH cur  <- Current,
               used <- {c \in Conn : mem[c] # "unused"},
               seen <- got

LinkSpec == Link!Spec

(* A session hands the audio control either a speech url or the NULL that   *)
(* resumes the media, never both.                                           *)
SpeechXorResume ==
  \A c \in Conn : ttsCmd[c] # {"url", "null"}

(* Every aiui_start returns, however its connection ends, and aiui_uninit   *)
(* too: no wait of the main thread depends on itself.                       *)
CallsReturn == (main # "idle") ~> (main \in {"idle", "gone"})

(* A connection the peer closed is noticed: the status becomes              *)
(* DISCONNECTED, or the application has moved on to another connection or   *)
(* to aiui_uninit.                                                          *)
PeerCloseNoticed ==
  \A c \in Conn : (http = c /\ sock[c] = "closed") ~>
                  (http # c \/ connect = "disconnected" \/ op = "uninit")

(* aiui_start returns 0 only when the session it opened has started.        *)
(* README.md of the SDK sends the text right after aiui_start, with no      *)
(* event to wait for.                                                       *)
StartOkMeansStarted ==
  [][main = "await" /\ main' = "idle" => "started" \in got[http]]_vars

(* The end of an old connection does not take down the started session that *)
(* aiui_start has opened since.  The code does not keep this: is_over comes *)
(* before the report of the end (aiui_http_api.c), so that the report can   *)
(* reach the session opened in between.                                     *)
OldCloseLeavesNewSession ==
  [][\A c \in Conn :
       ClosedSession(c) /\ session = "started" => c = http]_vars
=============================================================================
