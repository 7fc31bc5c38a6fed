---------------------------- MODULE AudioControl ----------------------------
(***************************************************************************)
(* What is played when: the commands of aiui_audio_control.c, the media     *)
(* list of aiui_media_parse.c and the skills of aiui_skill_parse.c.         *)
(*                                                                          *)
(* A session begins with PAUSE (the demo), may bring a media list and a     *)
(* command, and ends with speech or without.  The command is only kept in   *)
(* s_expected_cmd and carried out after the speech.  Commands take no lock: *)
(* they come from the application, from the receive thread of the session   *)
(* (Cloud) and, when a song is over, from the thread that played it, and    *)
(* may overlap while one of them waits for a url or for the player.  Of the *)
(* player (module AiuiPlayer) there is what plays, and the stop flag that a *)
(* play thread tests between the end of its song and its PLAY_END.  Volume  *)
(* commands change nothing (aiui_player.c) and are left out.                *)
(***************************************************************************)
EXTENDS Naturals

CONSTANTS MaxItems,     \* AIUI_ITEM_NUM_MAX
          MaxTalks,     \* bound: sessions
          PlayThreads,  \* bound: play threads that live at a time
          NoThread

App == "app"
Cloud == "cloud"

Threads == PlayThreads \cup {App, Cloud}

ASSUME AudioAssumption ==
  /\ MaxItems \in Nat \ {0} /\ MaxTalks \in Nat
  /\ App \notin PlayThreads /\ Cloud \notin PlayThreads /\ NoThread \notin Threads

(* The commands a user can give, and what s_expected_cmd holds. *)
Instruction == {"NEXT", "PREV", "STOP", "RESUME"}

Expected == Instruction \cup {"PLAY", "MAX"}

(* Item 0 is what lies before the list, item[-1]. *)
Silence == <<"silence">>
Speech == <<"speech">>
Media == {"media"} \X (0 .. MaxTalks) \X (0 .. MaxItems)

VARIABLES
  player,         \* s_aiui_player_handle is not NULL
  expected,       \* s_expected_cmd
  isResume,       \* s_is_resume
  urlType,        \* s_url_type
  num, pos,       \* item_num, item_pos
  withUrl,        \* the items that came with their url; others are asked for
  version,        \* the session that brought the list
  current,        \* the play thread of what plays, or NoThread
  halt,           \* self->stop
  at,             \* where each thread is
  what,           \* its song, or what its command is to play
  resuming,       \* the threads whose command is RESUME
  talk, talks,    \* whether a session runs; sessions so far
  stopped,        \* STOP was carried out alone, and nothing asked for since
  paused,         \* the media PAUSE interrupted, if nothing was asked for since
  raced           \* commands overlapped, and what they left may still play

list == <<num, pos, withUrl, version>>
controls == <<expected, isResume, urlType>>
engine == <<player, current, halt>>
threads == <<at, what, resuming>>
session == <<talk, talks>>
ghosts == <<stopped, paused, raced>>
vars == <<controls, list, engine, threads, session, ghosts>>

(* "song": its song plays, or the test of the stop flag is still to come;   *)
(* "report": PLAY_END; "ask": the request for a url; "play", "begin": in    *)
(* aiui_media_play, before and after its stop; "note": after it; "start":   *)
(* between PAUSE and the session it makes room for; "parse": in the parser  *)
(* of a media list, which has its items and not yet its position.           *)
InCommand == {"report", "ask", "play", "begin", "note", "start", "parse"}

TypeOK ==
  /\ player \in BOOLEAN /\ halt \in BOOLEAN
  /\ expected \in Expected
  /\ isResume \in BOOLEAN
  /\ urlType \in {"TTS", "MEDIA"}
  /\ num \in 0 .. MaxItems /\ pos \in 0 .. MaxItems
  /\ withUrl \subseteq 1 .. MaxItems
  /\ version \in 0 .. MaxTalks
  /\ current \in PlayThreads \cup {NoThread}
  /\ at \in [Threads -> {"none", "song"} \cup InCommand]
  /\ what \in [Threads -> {Silence, Speech} \cup Media]
  /\ resuming \subseteq Threads
  /\ talk \in BOOLEAN /\ talks \in 0 .. MaxTalks
  /\ stopped \in BOOLEAN
  /\ paused \in {Silence} \cup Media
  /\ raced \in BOOLEAN

Init ==
  /\ player = TRUE
  /\ expected = "MAX" /\ isResume = TRUE /\ urlType = "TTS"
  /\ num = 0 /\ pos = 0 /\ withUrl = {} /\ version = 0
  /\ current = NoThread /\ halt = TRUE
  /\ at = [t \in Threads |-> "none"]
  /\ what = [t \in Threads |-> Silence]
  /\ resuming = {}
  /\ talk = FALSE /\ talks = 0
  /\ stopped = FALSE /\ paused = Silence /\ raced = FALSE

-----------------------------------------------------------------------------
(* Who does what.                                                           *)

Playing == IF current = NoThread THEN Silence ELSE what[current]

Busy(t) == at[t] \in InCommand

(* The song of t is over, its test of the stop flag is not. *)
Left(t) == at[t] = "song" /\ t # current

(* Another thread is in the middle of a command. *)
Overlaps(t) == \E u \in Threads \ {t} : Busy(u)

(* The bookkeeping of a step: what was paused is forgotten in a race. *)
Races(now, kept) ==
  /\ raced' = now
  /\ paused' = IF now THEN Silence ELSE kept

SongLeft == \E u \in PlayThreads : at[u] = "song"

(* A step of thread t.  A race ends when a command begins alone, with no    *)
(* play thread left to end and no session left to bring another command.    *)
Goes(t, kept) == Races(raced \/ Overlaps(t), kept)
Begins(t, kept) == Races(Overlaps(t) \/ (raced /\ (SongLeft \/ talk')), kept)

(* Thread t goes on to place, with song s to play or played. *)
Moves(t, place, s) ==
  /\ at' = [at EXCEPT ![t] = place]
  /\ what' = [what EXCEPT ![t] = s]

Returns(t) == Moves(t, "none", Silence) /\ resuming' = resuming \ {t}

-----------------------------------------------------------------------------
(* Commands, as thread t begins them.                                       *)

Item(n) == <<"media", version, n>>

Nothing(t) ==
  /\ Returns(t)
  /\ UNCHANGED <<controls, list, engine, stopped>>

(* Item n, whose url is at hand or has to be asked for. *)
Fetch(t, n) ==
  IF n \in withUrl THEN Moves(t, "play", Item(n)) ELSE Moves(t, "ask", Item(n))

(* PLAY, NEXT and PREV differ in the item they choose. *)
Choose(t, n) ==
  /\ pos' = n
  /\ isResume' = TRUE
  /\ Fetch(t, n)
  /\ urlType' = IF n \in withUrl THEN "MEDIA" ELSE urlType
  /\ resuming' = resuming \ {t}
  /\ UNCHANGED <<expected, num, withUrl, version, engine, stopped>>

Play(t) ==
  IF num = 0 THEN Nothing(t) ELSE Choose(t, 1)

(* Faulty variant: no look at the end of the list. *)
NextUnbounded(t) ==
  IF num = 0 THEN Nothing(t) ELSE Choose(t, pos + 1)

(* The last item of the list is repeated. *)
NextItem(t) ==
  IF num = 0 THEN Nothing(t)
  ELSE Choose(t, IF pos < num THEN pos + 1 ELSE pos)

(* Faulty variant: no look at the beginning of the list. *)
PrevUnbounded(t) ==
  IF num = 0 THEN Nothing(t) ELSE Choose(t, pos - 1)

PrevItem(t) ==
  IF num = 0 THEN Nothing(t)
  ELSE Choose(t, IF pos > 1 THEN pos - 1 ELSE pos)

(* Faulty variant: the list begins again. *)
ResumeFirst(t) ==
  IF num = 0 \/ ~isResume THEN Nothing(t) ELSE Choose(t, 1)

(* s_url_type is set even if the request for the url fails. *)
Resume(t) ==
  IF num = 0 \/ ~isResume THEN Nothing(t)
  ELSE /\ urlType' = "MEDIA"
       /\ Fetch(t, pos)
       /\ resuming' = resuming \cup {t}
       /\ UNCHANGED <<expected, isResume, list, engine, stopped>>

(* The player is silent when the stop returns. *)
StopMedia(t) ==
  /\ isResume' = FALSE
  /\ current' = NoThread /\ halt' = TRUE
  /\ stopped' = (stopped \/ ~Overlaps(t))
  /\ Returns(t)
  /\ UNCHANGED <<expected, urlType, list, player>>

(* aiui_audio_ctrl_cmd(s_expected_cmd, NULL). *)
Expect(t) ==
  \/ expected = "MAX" /\ Nothing(t)
  \/ expected = "PLAY" /\ Play(t)
  \/ expected = "NEXT" /\ NextItem(t)
  \/ expected = "PREV" /\ PrevItem(t)
  \/ expected = "RESUME" /\ Resume(t)
  \/ expected = "STOP" /\ StopMedia(t)

-----------------------------------------------------------------------------
(* Commands, from the request for a url on.                                 *)

(* aiui_convert_url returns a url. *)
Answered(t) ==
  /\ at[t] = "ask"
  /\ urlType' = "MEDIA"
  /\ expected' = IF t \in resuming THEN "RESUME" ELSE expected
  /\ at' = [at EXCEPT ![t] = "play"]
  /\ Goes(t, paused)
  /\ UNCHANGED <<isResume, list, engine, what, resuming, session, stopped>>

(* It returns NULL: the command is given up. *)
NotFound(t) ==
  /\ at[t] = "ask"
  /\ Returns(t)
  /\ Goes(t, paused)
  /\ UNCHANGED <<controls, list, engine, session, stopped>>

(* aiui_media_play: the stop it begins with, of a player that is there. *)
Halt(t) ==
  /\ at[t] = "play"
  /\ current' = NoThread /\ halt' = TRUE
  /\ at' = [at EXCEPT ![t] = "begin"]
  /\ Goes(t, paused)
  /\ UNCHANGED <<controls, list, player, what, resuming, session, stopped>>

(* Thread u plays.  A play thread that has not tested the stop flag yet     *)
(* finds it cleared.                                                        *)
Start(t, u) ==
  /\ at[t] = "begin" /\ player
  /\ at[u] = "none"
  /\ current' = u /\ halt' = FALSE
  /\ at' = [at EXCEPT ![u] = "song",
                      ![t] = IF what[t] = Speech \/ t \in resuming THEN "none" ELSE "note"]
  /\ what' = [what EXCEPT ![u] = what[t], ![t] = Silence]
  /\ resuming' = resuming \ {t}
  /\ Races(raced \/ Overlaps(t) \/ SongLeft,
           IF what[t] = Speech THEN paused ELSE Silence)
  /\ UNCHANGED <<controls, list, player, session, stopped>>

(* A player that is not there plays nothing. *)
NoStart(t) ==
  /\ at[t] = "begin" /\ ~player
  /\ at' = [at EXCEPT ![t] = IF what[t] = Speech \/ t \in resuming THEN "none" ELSE "note"]
  /\ what' = [what EXCEPT ![t] = Silence]
  /\ resuming' = resuming \ {t}
  /\ Goes(t, IF what[t] = Speech THEN paused ELSE Silence)
  /\ UNCHANGED <<controls, list, engine, session, stopped>>

(* PLAY, NEXT and PREV expect RESUME once the item plays. *)
Note(t) ==
  /\ at[t] = "note"
  /\ expected' = "RESUME"
  /\ at' = [at EXCEPT ![t] = "none"]
  /\ Goes(t, paused)
  /\ UNCHANGED <<isResume, urlType, list, engine, what, resuming, session, stopped>>

-----------------------------------------------------------------------------
(* The play thread.                                                         *)

(* The song has been played to its end, and play_end is set. *)
SongEnds ==
  /\ current # NoThread
  /\ current' = NoThread
  /\ Goes(current, paused)
  /\ UNCHANGED <<controls, list, player, halt, threads, session, stopped>>

(* The test of the stop flag after it. *)
Test(t) ==
  /\ t \in PlayThreads /\ Left(t)
  /\ IF halt THEN Returns(t) /\ UNCHANGED <<paused, raced>>
     ELSE Moves(t, "report", what[t]) /\ Goes(t, paused) /\ UNCHANGED resuming
  /\ UNCHANGED <<controls, list, engine, session, stopped>>

(* Faulty variant: the next item, whatever has ended. *)
ReportNext(t) ==
  /\ at[t] = "report"
  /\ NextItem(t)
  /\ UNCHANGED session
  /\ Begins(t, paused)

(* PLAY_END: after speech the expected command, after media the next item.  *)
Report(t) ==
  /\ at[t] = "report"
  /\ IF urlType = "TTS" THEN Expect(t) ELSE NextItem(t)
  /\ UNCHANGED session
  /\ Begins(t, paused)

-----------------------------------------------------------------------------
(* A session.                                                               *)

(* PAUSE, before one begins. *)
Pause ==
  /\ at[App] = "none"
  /\ at' = [at EXCEPT ![App] = "start"]
  /\ current' = NoThread /\ halt' = TRUE
  /\ Goes(App, IF Playing \in Media THEN Playing ELSE paused)
  /\ UNCHANGED <<controls, list, player, what, resuming, session, stopped>>

(* aiui_start has seen the receive thread of the session before end. *)
Begin ==
  /\ at[App] = "start" /\ at[Cloud] = "none" /\ talks < MaxTalks
  /\ at' = [at EXCEPT ![App] = "none"]
  /\ talks' = talks + 1 /\ talk' = TRUE
  /\ UNCHANGED <<controls, list, engine, what, resuming, ghosts>>

(* The receive thread takes up a message of the session. *)
Listens == talk /\ at[Cloud] = "none"

(* SET_STATE, given s_expected_cmd. *)
SetState(cmd) ==
  /\ expected' = cmd
  /\ isResume' = (isResume \/ cmd = "RESUME")
  /\ stopped' = (stopped /\ cmd = "STOP")

(* The media skills: the items that can be played replace the list.         *)
MediaSkill ==
  /\ Listens
  /\ num' \in 0 .. MaxItems /\ withUrl' \in SUBSET (1 .. num')
  /\ pos' = 0 /\ version' = talks
  /\ at' = [at EXCEPT ![Cloud] = "parse"]
  /\ Goes(Cloud, Silence)
  /\ UNCHANGED <<controls, engine, what, resuming, session, stopped>>

(* The list has its position, PLAY is expected, and an instruction that     *)
(* came with the list replaces it.                                          *)
Parsed ==
  /\ at[Cloud] = "parse"
  /\ pos' = 1
  /\ at' = [at EXCEPT ![Cloud] = "none"]
  /\ \E cmd \in {"PLAY"} \cup Instruction : SetState(cmd)
  /\ Goes(Cloud, Silence)
  /\ UNCHANGED <<urlType, num, withUrl, version, engine, what, resuming, session>>

(* Without any item in the answer the instruction is all there is. *)
ControlSkill ==
  /\ Listens
  /\ paused' = Silence
  /\ \E cmd \in Instruction : SetState(cmd)
  /\ UNCHANGED <<urlType, list, engine, threads, session, raced>>

(* Faulty variant: the type of the url is not noted. *)
SpeakUnmarked ==
  /\ Listens /\ talk' = FALSE
  /\ Moves(Cloud, "play", Speech)
  /\ Begins(Cloud, paused)
  /\ UNCHANGED <<controls, list, engine, resuming, talks, stopped>>

(* TTS with the url of the answer. *)
Speak ==
  /\ Listens /\ talk' = FALSE
  /\ urlType' = "TTS"
  /\ Moves(Cloud, "play", Speech)
  /\ Begins(Cloud, paused)
  /\ UNCHANGED <<expected, isResume, list, engine, resuming, talks, stopped>>

(* TTS without one, at the end of a session that had no speech. *)
NoSpeech ==
  /\ Listens /\ talk' = FALSE
  /\ Expect(Cloud)
  /\ Begins(Cloud, paused)
  /\ UNCHANGED talks

(* The session ends with an error, or is cut off. *)
Broken ==
  /\ Listens /\ talk' = FALSE
  /\ UNCHANGED <<controls, list, engine, threads, talks, ghosts>>

-----------------------------------------------------------------------------
(* aiui_uninit and aiui_init, of any handle; the statics keep their values. *)

(* The list is freed even if there is no player.  A thread in the middle of *)
(* aiui_media_play would go on in the freed player, which is not modelled.  *)
Deinit ==
  /\ at[App] = "none"
  /\ \A t \in Threads : at[t] # "begin"
  /\ player' = FALSE
  /\ num' = 0 /\ pos' = 0 /\ withUrl' = {}
  /\ current' = NoThread /\ halt' = TRUE
  /\ at' = [t \in Threads |-> IF at[t] = "song" THEN "none" ELSE at[t]]
  /\ what' = [t \in Threads |-> IF at[t] = "song" THEN Silence ELSE what[t]]
  /\ Goes(App, Silence)
  /\ UNCHANGED <<controls, version, resuming, session, stopped>>

Reinit ==
  /\ ~player /\ at[App] = "none"
  /\ player' = TRUE
  /\ UNCHANGED <<controls, list, current, halt, threads, session, ghosts>>

Next ==
  \/ \E t \in Threads :
       \/ Answered(t) \/ NotFound(t) \/ Halt(t) \/ NoStart(t) \/ Note(t)
       \/ \E u \in PlayThreads : Start(t, u)
       \/ Test(t) \/ Report(t)
  \/ SongEnds
  \/ Pause \/ Begin \/ MediaSkill \/ Parsed \/ ControlSkill
  \/ Speak \/ NoSpeech \/ Broken
  \/ Deinit \/ Reinit

Spec == Init /\ [][Next]_vars

-----------------------------------------------------------------------------
(* Properties.                                                              *)

(* item_pos names an item of the list whenever there is one, as every       *)
(* command reads item[item_pos - 1] without another look; but it is 0 while *)
(* the parser builds a list, which a command of another thread may meet.    *)
PosInList == num > 0 => pos \in (IF at[Cloud] = "parse" THEN 0 ELSE 1) .. num

(* The comment on s_url_type: it is what decides what follows the end of a  *)
(* song, TTS after speech and MEDIA after media.  It does not hold when     *)
(* commands overlap: it says what is to play now, not what has ended.       *)
EndAlwaysFollowsSong ==
  \A t \in Threads : at[t] = "report" => (urlType = "TTS" <=> what[t] = Speech)

(* It does hold from the first command that begins in silence on, until     *)
(* commands overlap: over sessions, failed requests, which leave MEDIA      *)
(* behind, stopped songs and threads that have still to test the stop.      *)
EndFollowsSong == raced \/ EndAlwaysFollowsSong

(* After a STOP that no other command overlapped no media plays until the   *)
(* user asks for it again, through any number of sessions, speech and their *)
(* ends (aiui_audio_control.h, the comment on AIUI_AUDIO_CTRL_STOP).        *)
StopSticks == stopped => Playing \notin Media

(* The media that PAUSE interrupted is what plays next, after however many  *)
(* sessions, speeches and failed requests, unless the user asks for         *)
(* something else (the comment on AIUI_AUDIO_CTRL_PAUSE) or commands        *)
(* overlap.                                                                 *)
ResumesPaused ==
  [][ Playing \notin Media /\ Playing' \in Media /\ paused # Silence
        => Playing' = paused ]_vars
=============================================================================
