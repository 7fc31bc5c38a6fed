---------------------------- MODULE DemoThreads ----------------------------
(***************************************************************************)
(* The threads of the demo, aiui_main.c, between the microphone and         *)
(* aiui_send: capture_audio, wakeup, send_audio, finish_result and the      *)
(* command loop of main, with the semaphores of aiui_os_linux.c.            *)
(*                                                                          *)
(* The AIUI session is what it shows them: START_SEND and STOP_SEND switch  *)
(* s_start_send, FINISH posts a semaphore.  Of the two byte rings only the  *)
(* frames they hold are kept, and a ring call is one step (RingBuf has the  *)
(* calls).  A wait for -1 ms is 2^32 - 1 ms, 49 days: here it has no end.   *)
(* CAEAudioWrite calls its callbacks in the thread that called it.          *)
(***************************************************************************)
EXTENDS Integers

CONSTANTS Room,       \* frames a ring holds
          MaxSem,     \* bound: no frame is recorded past this many posts
          MaxTalks,   \* bound: sessions started
          Wakes,      \* whether the wake-up word may be heard
          Commands    \* which commands main is given

ASSUME ThreadsAssumption ==
  /\ Room \in Nat \ {0} /\ MaxSem \in Nat \ {0} /\ MaxTalks \in Nat
  /\ Wakes \in BOOLEAN /\ Commands \subseteq {"real", "file", "text", "q"}

Sem == {"capture", "send", "finish"}

Worker == {"capture", "wakeup", "send", "finish"}

Thread == Worker \cup {"main"}

PC == {"loop",                    \* while (!s_quit), main's command prompt
       "record", "post",          \* capture_audio
       "read", "cae", "iat",      \* wakeup: ring, CAEAudioWrite, IatAudio
       "value", "drain", "wait",  \* aiui_hal_sem_clear, aiui_hal_sem_wait
       "check",                   \* finish_result: if (s_quit)
       "empty", "start",          \* the ring is cleared; aiui_start
       "quit1", "quit2", "quit3", \* main: three posts
       "join1", "join2", "join3", "join4",  \* main: four joins
       "done"}

Joining == {"join1", "join2", "join3", "join4"}

VARIABLES
  pc, left, ivw,          \* control; posts a sem_clear still has to take;
                          \* whether wakeup is in IvwResult
  quit, startSend, test,  \* s_quit, s_start_send, s_test_audio
  sem,                    \* the three semaphores
  captured, iat,          \* frames in s_capture_buf and s_iat_buf
  talk, talks             \* the session that runs; how many were started

ctl == <<pc, left, ivw>>
env == <<talk, talks>>
vars == <<ctl, quit, startSend, test, sem, captured, iat, env>>

TypeOK ==
  /\ pc \in [Thread -> PC]
  /\ left \in [Thread -> Nat]
  /\ ivw \in BOOLEAN
  /\ quit \in BOOLEAN /\ startSend \in BOOLEAN /\ test \in BOOLEAN
  /\ sem \in [Sem -> Nat]
  /\ captured \in 0 .. Room /\ iat \in 0 .. Room
  /\ talk \in {"none", "asked", "sending", "answer"}
  /\ talks \in 0 .. MaxTalks

Init ==
  /\ pc = [t \in Thread |-> IF t = "finish" THEN "wait" ELSE "loop"]
  /\ left = [t \in Thread |-> 0]
  /\ ivw = FALSE
  /\ quit = FALSE /\ startSend = FALSE /\ test = FALSE
  /\ sem = [s \in Sem |-> 0]
  /\ captured = 0 /\ iat = 0
  /\ talk = "none" /\ talks = 0

-----------------------------------------------------------------------------
Goto(t, label) == pc' = [pc EXCEPT ![t] = label]

Post(s) == sem' = [sem EXCEPT ![s] = @ + 1]

Take(s) == sem' = [sem EXCEPT ![s] = @ - 1]

(* ringbuf_write, after ringbuf_write_update has dropped the oldest frame   *)
(* when there is no room.                                                   *)
Stored(frames) == IF frames = Room THEN Room ELSE frames + 1

(* The semaphore each worker waits for, and the one a thread clears.        *)
Own(t) == IF t = "wakeup" THEN "capture" ELSE t

(* Faulty variant: finish_result clears the semaphore it waits for, as the  *)
(* other two threads do.                                                    *)
ClearedOwn(t) == IF t = "wakeup" /\ ~ivw THEN "capture"
                 ELSE IF t = "finish" THEN "finish" ELSE "send"

Cleared(t) == IF t = "finish" \/ (t = "wakeup" /\ ~ivw) THEN "capture" ELSE "send"

(* aiui_hal_sem_clear: sem_getvalue, then as many waits. *)
Value(t) ==
  /\ pc[t] = "value"
  /\ left' = [left EXCEPT ![t] = sem[Cleared(t)]]
  /\ Goto(t, "drain")
  /\ UNCHANGED <<ivw, quit, startSend, test, sem, captured, iat, env>>

(* Faulty variant: the waits of sem_clear take what is not there. *)
DrainUnchecked(t) ==
  /\ pc[t] = "drain" /\ left[t] > 0
  /\ Take(Cleared(t))
  /\ left' = [left EXCEPT ![t] = @ - 1]
  /\ UNCHANGED <<pc, ivw, quit, startSend, test, captured, iat, env>>

Drain(t) ==
  /\ pc[t] = "drain" /\ left[t] > 0
  /\ sem[Cleared(t)] > 0
  /\ Take(Cleared(t))
  /\ left' = [left EXCEPT ![t] = @ - 1]
  /\ UNCHANGED <<pc, ivw, quit, startSend, test, captured, iat, env>>

(* What follows the clear: wakeup and send_audio wait for the semaphore     *)
(* they cleared; IvwResult, main and finish_result empty a ring.            *)
Drained(t) ==
  /\ pc[t] = "drain" /\ left[t] = 0
  /\ Goto(t, IF t = "send" \/ (t = "wakeup" /\ ~ivw)
               THEN "wait" ELSE "empty")
  /\ UNCHANGED <<left, ivw, quit, startSend, test, sem, captured, iat, env>>

Wait(t) ==
  /\ pc[t] = "wait"
  /\ sem[Own(t)] > 0
  /\ Take(Own(t))
  /\ Goto(t, IF t = "finish" THEN "check" ELSE "loop")
  /\ UNCHANGED <<left, ivw, quit, startSend, test, captured, iat, env>>

-----------------------------------------------------------------------------
(* The test of s_quit; send_audio polls its two flags in the same loop.     *)
Loop(t) ==
  /\ pc[t] = "loop"
  /\ t = "send" => quit \/ (startSend /\ ~test)
  /\ Goto(t, IF quit THEN "done" ELSE IF t = "capture" THEN "record" ELSE "read")
  /\ UNCHANGED <<left, ivw, quit, startSend, test, sem, captured, iat, env>>

Record ==
  /\ pc["capture"] = "record"
  /\ quit \/ sem["capture"] < MaxSem
  /\ captured' = Stored(captured)
  /\ Goto("capture", "post")
  /\ UNCHANGED <<left, ivw, quit, startSend, test, sem, iat, env>>

(* Faulty variant: the recording thread does not post. *)
RecordPostForgotten ==
  /\ pc["capture"] = "post"
  /\ Goto("capture", "loop")
  /\ UNCHANGED <<left, ivw, quit, startSend, test, sem, captured, iat, env>>

RecordPost ==
  /\ pc["capture"] = "post"
  /\ Post("capture")
  /\ Goto("capture", "loop")
  /\ UNCHANGED <<left, ivw, quit, startSend, test, captured, iat, env>>

(* wakeup: a frame for the engine, or clear the semaphore and wait. *)
ReadCapture ==
  /\ pc["wakeup"] = "read"
  /\ IF captured > 0
       THEN captured' = captured - 1 /\ Goto("wakeup", "cae")
       ELSE Goto("wakeup", "value") /\ UNCHANGED captured
  /\ UNCHANGED <<left, ivw, quit, startSend, test, sem, iat, env>>

(* CAEAudioWrite returns without a callback. *)
CaeSilent ==
  /\ pc["wakeup"] = "cae"
  /\ Goto("wakeup", "loop")
  /\ UNCHANGED <<left, ivw, quit, startSend, test, sem, captured, iat, env>>

(* IatAudio: the cleaned frame goes to the second ring, then the post. *)
IatStore ==
  /\ pc["wakeup"] = "cae"
  /\ sem["send"] < MaxSem
  /\ iat' = Stored(iat)
  /\ Goto("wakeup", "iat")
  /\ UNCHANGED <<left, ivw, quit, startSend, test, sem, captured, env>>

IatPost ==
  /\ pc["wakeup"] = "iat"
  /\ Post("send")
  /\ Goto("wakeup", "loop")
  /\ UNCHANGED <<left, ivw, quit, startSend, test, captured, iat, env>>

(* IvwResult, the wake-up word: it begins with a sem_clear. *)
IvwResult ==
  /\ pc["wakeup"] = "cae"
  /\ Wakes /\ talks < MaxTalks
  /\ ivw' = TRUE
  /\ Goto("wakeup", "value")
  /\ UNCHANGED <<left, quit, startSend, test, sem, captured, iat, env>>

(* ringbuf_clear, of the ring each of them clears. *)
Empty(t) ==
  /\ pc[t] = "empty"
  /\ IF t = "finish" THEN captured' = 0 /\ UNCHANGED iat
                     ELSE iat' = 0 /\ UNCHANGED captured
  /\ Goto(t, IF t = "finish" THEN "wait" ELSE "start")
  /\ UNCHANGED <<left, ivw, quit, startSend, test, sem, env>>

(* aiui_start ends the session that runs and opens another one. *)
Start(kind) ==
  /\ talk' = kind
  /\ talks' = IF talks < MaxTalks THEN talks + 1 ELSE talks

(* s_test_audio = false; aiui_start, by IvwResult and by main's "real". *)
StartReal(t) ==
  /\ pc[t] = "start"
  /\ test' = FALSE
  /\ Start("asked")
  /\ Goto(t, "loop")
  /\ ivw' = (ivw /\ t # "wakeup")
  /\ UNCHANGED <<left, quit, startSend, sem, captured, iat>>

ReadIat ==
  /\ pc["send"] = "read"
  /\ IF iat > 0
       THEN iat' = iat - 1 /\ Goto("send", "loop")
       ELSE Goto("send", "value") /\ UNCHANGED iat
  /\ UNCHANGED <<left, ivw, quit, startSend, test, sem, captured, env>>

FinishCheck ==
  /\ pc["finish"] = "check"
  /\ Goto("finish", IF quit THEN "done" ELSE "value")
  /\ UNCHANGED <<left, ivw, quit, startSend, test, sem, captured, iat, env>>

-----------------------------------------------------------------------------
(* The commands of main. *)

Real ==
  /\ pc["main"] = "loop"
  /\ "real" \in Commands /\ talks < MaxTalks
  /\ Goto("main", "value")
  /\ UNCHANGED <<left, ivw, quit, startSend, test, sem, captured, iat, env>>

File ==
  /\ pc["main"] = "loop"
  /\ "file" \in Commands /\ talks < MaxTalks
  /\ test' = TRUE
  /\ Start("asked")
  /\ UNCHANGED <<ctl, quit, startSend, sem, captured, iat>>

Text ==
  /\ pc["main"] = "loop"
  /\ "text" \in Commands /\ talks < MaxTalks
  /\ Start("answer")
  /\ UNCHANGED <<ctl, quit, startSend, test, sem, captured, iat>>

Quit ==
  /\ pc["main"] = "loop"
  /\ "q" \in Commands
  /\ quit' = TRUE
  /\ Goto("main", "quit1")
  /\ UNCHANGED <<left, ivw, startSend, test, sem, captured, iat, env>>

(* One post for each thread that waits. *)
QuitPost ==
  /\ \/ pc["main"] = "quit1" /\ Post("capture") /\ Goto("main", "quit2")
     \/ pc["main"] = "quit2" /\ Post("send")    /\ Goto("main", "quit3")
     \/ pc["main"] = "quit3" /\ Post("finish")  /\ Goto("main", "join1")
  /\ UNCHANGED <<left, ivw, quit, startSend, test, captured, iat, env>>

(* aiui_hal_thread_destroy, one thread after the other.  What main frees    *)
(* after them is in DemoExit.                                               *)
Joins == {<<"join1", "finish", "join2">>, <<"join2", "send", "join3">>,
          <<"join3", "capture", "join4">>, <<"join4", "wakeup", "done">>}

Join ==
  /\ \E j \in Joins : pc["main"] = j[1] /\ pc[j[2]] = "done" /\ Goto("main", j[3])
  /\ UNCHANGED <<left, ivw, quit, startSend, test, sem, captured, iat, env>>

-----------------------------------------------------------------------------
(* on_event, in the receive thread of the session that runs. *)

StartSend ==
  /\ talk = "asked"
  /\ talk' = "sending" /\ startSend' = TRUE
  /\ UNCHANGED <<ctl, quit, test, sem, captured, iat, talks>>

StopSend ==
  /\ talk = "sending"
  /\ talk' = "answer" /\ startSend' = FALSE
  /\ UNCHANGED <<ctl, quit, test, sem, captured, iat, talks>>

Finish ==
  /\ talk \in {"sending", "answer"}
  /\ talk' = "none"
  /\ Post("finish")
  /\ UNCHANGED <<ctl, quit, startSend, test, captured, iat, talks>>

Step(t) ==
  \/ Value(t) \/ Drain(t) \/ Drained(t)
  \/ Empty(t)
  \/ t \in {"main", "wakeup"} /\ StartReal(t)
  \/ t \in Worker \ {"finish"} /\ Loop(t)
  \/ t \in Worker \ {"capture"} /\ Wait(t)
  \/ t = "capture" /\ (Record \/ RecordPost)
  \/ t = "wakeup" /\ (ReadCapture \/ CaeSilent \/ IatStore \/ IatPost \/ IvwResult)
  \/ t = "send" /\ ReadIat
  \/ t = "finish" /\ FinishCheck
  \/ t = "main" /\ (QuitPost \/ Join)

Command == Real \/ File \/ Text \/ Quit

Event == StartSend \/ StopSend \/ Finish

Ended == pc["main"] = "done" /\ UNCHANGED vars

Next == (\E t \in Thread : Step(t)) \/ Command \/ Event \/ Ended

Spec == Init /\ [][Next]_vars

(* The scheduler runs every thread that can run; the microphone delivers.   *)
FairSpec == Spec /\ \A t \in Thread : WF_vars(Step(t))

(* What the flow of recorded audio needs of it: two of the threads.         *)
FlowSpec == Spec /\ WF_vars(Step("capture")) /\ WF_vars(Step("wakeup"))

-----------------------------------------------------------------------------
(* Properties.                                                              *)

(* q reaches finish_result, the first thread main waits for: it has ended,  *)
(* is about to find s_quit, or the post of q is still there for it, whatever *)
(* FINISH events came before and wherever the thread was when they came.    *)
(* send_audio and wakeup, which clear the semaphore they wait for, have no  *)
(* such promise (QuitEnds); nor has finish_result in the clear of           *)
(* s_capture_sem, where it waits for another semaphore.                     *)
QuitReachesFinish ==
  pc["main"] \in Joining => pc["finish"] \in {"check", "done"} \/ sem["finish"] > 0

(* Recorded audio goes on to the wake-up engine: the thread never stays     *)
(* behind a ring that has frames.  A clear that eats the post of a frame    *)
(* just recorded only delays it to the next frame, whatever main and        *)
(* finish_result clear and empty at the same time.  The one thing that can  *)
(* hold the audio up is IvwResult: its clear may wait for a post of         *)
(* IatAudio, which only its own thread could make.                          *)
AudioFlowsOrWakes ==
  captured > 0 ~> (pc["wakeup"] = "cae" \/ captured = 0 \/ ivw \/ quit)

(* The command q ends the program (the demo's prompt, "q: exit").           *)
QuitEnds == quit ~> pc["main"] = "done"
=============================================================================
