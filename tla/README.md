# AIUI SDK: a TLA+ model of the LoongArch client

The repository delivers iFlytek's AIUI voice SDK for several systems. For most of
them it holds a closed library, headers and a demo; for 银河麒麟_龙芯 (Kylin on
LoongArch) it holds the SDK itself in C. That directory (called `L/` here, the
files of `L/aiui/src` by their names) is the subject of these modules.

## 1. The system and its parts

```
 microphone -> capture_audio -> s_capture_buf -> wakeup -> CAEAudioWrite
                                                   |  IatAudio -> s_iat_buf -> send_audio -> aiui_send
                                                   |  IvwResult -> aiui_start
 command line -> main -> aiui_start / aiui_send / aiui_stop / aiui_uninit
                                |
                          aiui_api.c  <- message callbacks <- aiui_message_parse.c
                                |                                   ^
                          aiui_websocket_api.c (frames) ------------|
                                |                                   |
                          aiui_http_api.c (handle, receive thread, body parser)
                                |                                   ^
                          aiui_socket_api.c                         | GET, POST
                                                 weather, upload, entity requests
 message callbacks -> aiui_audio_control.c -> aiui_player.c -> download, decode, play threads
```

| part | state it keeps | operations | shared with |
|---|---|---|---|
| session, `aiui_api.c`, `aiui_message_parse.c` | `connect_status`, `session_status`, `type`, `is_process_tts`, `sem` | `aiui_init/start/send/stop/uninit`, message callback, close callback | application threads, receive thread |
| connection, `aiui_http_api.c` under `aiui_websocket_api.c` | handle: `stop`, `is_over`, socket; `websocket->http` | create, send, destroy, receive thread | caller of the API, detached receive thread |
| body parser, `aiui_http_api.c` | `header_info`, `cur_body`, `is_chunked`, `contentLength`, `expectedChunkSize`, `removecrlf`, `is_over` | receive a piece, find the header, unpack chunks, count bytes | the receive thread, or the caller of a one-shot request; nobody else |
| frames, `aiui_websocket_api.c` | frame being received, list of earlier frames | parse a byte, dispatch, clean up, build a frame | receive thread, sending threads |
| ring, `depend/ringbuf` | storage, two positions, size | write, read, make room, clear | two or three threads, no lock |
| demo, `aiui_main.c`, `aiui_os_linux.c` | flags `s_quit`, `s_start_send`, `s_test_audio`; three semaphores; two rings | five threads, three kinds of callbacks, the exit that destroys everything | everything above |
| player, `aiui_player.c` with mp3 decoder, download, list | two lists, two semaphores, `stop`, `play_end` | play, stop, resume; three threads | receive, play and main threads |
| audio control, `aiui_audio_control.c`, media and skill parsers | `s_expected_cmd`, `s_is_resume`, `s_url_type`, the media list | one function per command | receive, play and main threads |
| other demos (`demo.cpp` four times, HarmonyOS Java) | a thread that writes a file to the closed agent | commands | the closed library |

What is hard in this code: nothing of the session's or the connection's state is
behind a lock; the receive thread is detached and its end is signalled by a flag
in memory that the caller frees; `aiui_start` restarts a session while other
threads are inside `aiui_send`; callbacks call back into the API; semaphores are
used as signals and then cleared; the server may be late, silent, reject the
upgrade, or cut a frame anywhere. `PROJECT.json` lists each hazard at its line.

What makes each part correct:

- session: 0 from `aiui_start` means a started session; every call returns; no
  effect of an old session in a new one; one speech or one resume per session.
- connection: one at a time; its callbacks end before it is freed; freed once.
- body parser: the caller gets the bytes of the body, all of them, and nothing else.
- frames: what the server sent is what the callback gets, however it is cut.
- ring: a bounded queue that drops its oldest bytes.
- demo: audio keeps flowing, `q` ends the program, nothing is used after free
  or freed twice.
- player: a song is heard in order and whole, stop ends it, stop returns, the end
  is reported when it is reached.
- audio control: what was paused is resumed, a stop lasts, and what follows a song
  depends on the song that ended.

## 2. The modules

| module | models | how state and actions correspond |
|---|---|---|
| `AiuiSession` | one interaction handle over the websocket, HTTP and socket layers, the demo's `on_event` and its send thread | variables carry the fields' names (`connect`, `session`, `type`, `processTts`, `sem`, `http`; `mem`, `stop`, `over`, `sock` per HTTP handle); `main`, `snd` and `thr[c]` are the control of the three kinds of threads; one action per stretch of code between two accesses to shared state |
| `MessageLink` | what the websocket layer promises the session: one connection at a time, a message delivered only on the current one, at most once | abstract specification |
| `WsFrame` | parser and builder of websocket frames | `raw`/`capacity` are `frame->rawdata` and its buffer, `prev` the list of earlier frames; one action per byte received |
| `RingBuf` | `ringbuf.c`, one step per call | the four fields of `ringbuf_t`, and what the last read returned |
| `FifoBuf` | the bounded queue a user of `ringbuf.h` sees | abstract specification |
| `DemoThreads` | the four worker threads of `aiui_main.c`, `main`, and the semaphore calls of `aiui_os_linux.c` | `pc[t]` per thread, `sem[s]`, the demo's flags, the number of frames in each ring |
| `AiuiPlayer` | `aiui_media_play` and `aiui_media_stop` with the download, decode and play threads of every song | `pc` is the caller, `dl[s]`, `dec[s]`, `play[s]` the threads of song `s`; `stop`, `playEnd`, `decStop`, `mp3`, `pcm`, the two semaphores and the device carry the fields' names |
| `HttpBody` | the way of a response's bytes through `aiui_http_recv` to the three kinds of callers | the fields of the parser by name, its locals `passed` and `len`; one action per turn of the loop of `_aiui_http_parse_body`, per receive, per timeout and per way out of a buffer |
| `DemoExit` | the end of `main`: two `aiui_uninit` while receive, play and decode threads run on | `freed` is the set of destroyed objects, `main`, `recv[h]`, `song[s]`, `decode[s]` the control of each thread, `stop`/`over` per connection, `halt`/`playEnd` of the shared player; `RecvUses` and `SongUses` say what the next step of a thread touches |
| `AudioControl` | the commands of `aiui_audio_control.c`, the media list, the skills that set the expected command | `expected`, `isResume`, `urlType` are the three statics, `num`, `pos`, `withUrl` the list; `at[t]` is where each thread is in a command, `current` the play thread of what plays, `halt` the player's `stop`; a command is several steps: its choice, the request for a url, the stop and the start of the player, and what it notes after it |
| `MC*` | instances for TLC | sets of handles, modes, faults and lengths |
| `*_proofs` | theorems | section 5 |

Composition: `AiuiSession` holds the layers below the API and the demo's event
callback in one state machine, because their bugs are in how they interleave;
`WsFrame` is the byte layer of the step that `AiuiSession` calls `Recv` and
`SendFrame`; `DemoThreads` sees the session as START_SEND, STOP_SEND and FINISH
events and a ring as a number of frames; `RingBuf` has the ring itself.
`AiuiPlayer` stands alone: the audio commands only ask it to play or to stop, and
`AudioControl` sees of it what plays, the `stop` flag and the play threads that have
still to test it. The session asks `AudioControl`
for at most one speech or resume (`SpeechXorResume` of `AiuiSession`), which is what
`Speak` and `NoSpeech` rest on. `HttpBody` is what a receive of `AiuiSession` or a
piece of `AiuiPlayer`'s download is made of: its `OverMeansWhole` is why a complete
download (`Complete`, `LastData`) sets `is_over` exactly with its last piece. `DemoExit`
begins where `DemoThreads` ends, with the four threads joined, and takes from
`AiuiSession` and `AiuiPlayer` the life of their objects and nothing of their data.

### Abstractions worth knowing

`AiuiSession`. The short-connection build is modelled (`AIUI_LONG_CONNECT` and
`AIUI_OPEN_VAD` undefined, as in `CMakeLists.txt`). HTTP handles are never reused.
`aiui_start` is called by one thread at a time. A field of a handle that has been
freed reads as anything (`Reads`). The peer (external) sends each kind of
message at most once per connection, `started` before results, nothing after an
error or a finish. A TTS message without url has no effect and is left out. `stop`
of the handle and the shutdown of its socket are one step. Several messages may
come in one buffer, and the code handles them without looking at `stop` again.
`frame` says whose bytes wait in the frame parser, which all connections of a websocket
share. A rejected upgrade with a complete body sets `is_over` before the body goes to
the callback (`aiui_http_api.c:193-197`, then `254-255`): `aiui_start` may free the
handle and open the next connection in between, and the body's bytes then spoil the
frames of the new session (`RejectBody`, `Garble`). The error body of a server is text,
whose bytes below 0x80 never end a message: the model makes no message of it. What the
same callback does with a websocket that `aiui_uninit` has freed is not followed here.

`WsFrame`. The header is read again for every byte instead of cached; `Short` and
`Base` scale 125 and 256 down (the proofs leave them open); payload bytes are numbered
in the order sent, so that a byte that is missing, doubled or moved is seen. Frames are
unmasked. `payload_len` and `header_len + payload_len` are 32 bits wide in the code:
`Lengths` holds what the server may send without a frame going beyond them, of the
eight bytes of a long length the last four are read, and `high` is what lies behind the
four bytes of `len` that a long header is copied from.

`RingBuf`. Storage starts with some bytes; any do. Lengths stay below the
capacity, as the demo's do (640 against `RING_BUF_SIZE`).

`DemoThreads`. A wait of -1 ms is an unsigned 2^32 - 1 ms, 49 days: endless here.
The closed CAE engine calls its callbacks in the thread that called
`CAEAudioWrite` (external). The deadlock check is off in its runs: the demo stops.

`AiuiPlayer`. Calls come one at a time, and one piece of MP3 decodes to one piece of
sound. Nothing in the code waits for a decode thread, nor for a play thread that has
not begun, so a thread of one song can be alive when the next begins; from then on
two threads share every list and semaphore. And `aiui_media_stop` destroys `list_mp3`
and then sets it to NULL, without `decode_lock`: the decode thread it has just woken, or
the download it did not have to wait for, may use the list in between. `astray` marks
either moment and the model ends there: its properties speak of all that happens before
it. (`list_pcm` is destroyed and cleared under `pcm_lock`, one step.) A handle freed by
`aiui_media_stop` while its receive thread still runs (complete downloads set
`is_over` early) reads as anything. The deadlock check is off: a player may rest.

`HttpBody`. The response is a fixed sequence of bytes, of which the model keeps
positions only: a byte is a record that says which line, chunk or body byte it is.
The header is a line that names the framing, or none, and other lines behind it.
`BufSize` stands for the 1024 bytes that are all at once what the socket is asked for,
what `header_info` holds and grows by, and the buffer of every caller. The model stops
(`astray`) where the code leaves a buffer:
- a receive of the header writes past `header_info`, which grows only when it is full
  while each receive asks for 1024 bytes (`HeaderOverrun`, `aiui_http_api.c:217`);
- `header_info` is full or grown, ends without a zero byte, and a search finds in other
  memory what it looks for (`HeaderBeyond`, lines 92-111 and 220);
- what was kept and a whole receive are more of a chunk than the caller's buffer has
  room for (`TakeDataBeyond`, line 146): `1000\r`, then `\nab`, then 1024 bytes;
- a search for CRLF runs past the end of `cur_body`, which has no terminating zero
  either, and finds one there (`FindBeyond`, line 163).

All four happen for some cuts of ordinary responses (`StaysInBuffers` of `HttpBody`),
and the properties speak of what comes before. A timeout in the middle of the header
drops what was collected (`lost`): the body is then passed on with its framing, and the
properties do not speak of it. Size lines of six and more characters are excluded from
`NothingStuck`: the loop compares a position in the kept bytes with the length of the
last receive, and TLC finds bytes that stay behind with `LineWidths = {6}`, a chunk of
12 and a buffer of 12. What callers do with a part is theirs: that the weather query's
loop ends at a receive that holds framing only (`aiui_search_weather.c:75`) is in
`Deliver`, what it writes then (line 90) is not.

`DemoExit`. One state variable per object's life and none for its contents. A thread
that is about to touch a freed object takes no step: the code has no defined
behaviour from there, and `UsedNotFreed` is the property that it never comes to that.
A callback, its parser and the command it gives are separate steps, the parts of a
destroy function too. Which message comes and whether a song ends is free.

`AudioControl`. Nothing locks the commands, so they may overlap: a command stops where
the code may stay for long (the request for a url, the player's stop) or where another
thread's step in between matters (the test of `stop`, PLAY_END, the new threads, the
note of RESUME, the list that has items and no position yet). What lies between two of
these places is one step: the choice of an item, the stop of a song with its wait. The
demo's two callers of PAUSE are one thread, `App`. The cloud (external) sends the results
of a session before its speech. The memory of a list that is replaced under a command is
not modelled, nor a play that is in the middle of the player while `aiui_uninit` frees
it. `stopped` and `paused` record what the properties speak of, and `raced` that
commands overlapped: it is set by a step of a command, or a song's end, while another
thread is in the middle of one, and by a song that starts while an earlier play thread
has not tested `stop`; it is cleared by a command that begins alone, when no play thread
is left and no session runs. `StopSticks` needs that STOP ran alone and then holds
whatever overlaps; `EndFollowsSong` and `ResumesPaused` speak of runs without overlap.

## 3. The runs

Runs that pass:

| run | question | bounds, and why they are enough |
|---|---|---|
| `session_safe` | can an old connection's messages, thread or handle touch the next session; is each handle freed once; is `connect_status` ever ahead; speech and resume at once; do the layers implement `MessageLink` | two handles: the old session and the new one, which every race here is about; live audio, the mode with the most threads; time-out, reject and close |
| `session_liveness` | does every API call return, is a close by the peer noticed | one handle (two are beyond TLC in time), all faults, text mode |
| `frame_stream` | do messages, frame boundaries, buffers and headers survive any cut | two messages of up to three frames, a length of each form, one ping, disconnects anywhere; two messages so that leftovers of one can meet the next |
| `ringbuf` | is the ring a bounded queue | capacity 4, lengths up to 4: every position, wrap, full and empty |
| `threads_flow` | does recorded audio keep flowing, does `q` reach the first thread `main` joins, do semaphores stay non-negative | one frame per ring and one post per semaphore before recording pauses (`MaxSem`), one session, all commands, the wake-up word and `q` at any moment |
| `player` | is a song heard in order, is it quiet after a stop, is the device open, is a wake-up of a stop lost, do play and stop return | two calls, each a play or a stop at any moment of what came before, so that leftovers of one song can meet the next; two pieces and an end node each, so that a piece can be lost, repeated or overtaken within a song; downloads that fail, break off or complete |
| `http` | does every kind of caller get the body and nothing else, does `is_over` come with the last byte, does nothing stay behind | headers of 6 and 12 bytes, no chunk, one, two and three chunks of 1 to 8 bytes or one of 12; size lines of 1, 2 and 5 characters; counted and uncounted bodies of 0, 1 and 9 bytes; buffers of 10 bytes and receives of up to 10 cut anywhere, so that every CRLF and every size line is cut at every place and several chunks come at once; timeouts at any moment |
| `exit` | is a message handled on freed objects, is anything freed twice, does every wait of the exit end | two connections with one message each at any moment of the exit, closed by the peer or not, and one song with both its threads: every pair of a destroy step and a thread's step |
| `audio` | is what was paused resumed, does a stop last, are the list position and the kind of url right when commands overlap or do not | three sessions: one brings the media, one pauses it or stops it, one finds what is left; lists of 0 to 2 items: first and last differ; two play threads: the one that plays and one that has not tested `stop` yet; they are symmetric |

Runs that show a disagreement of the code with its documentation; each checks one
property and TLC finds it violated:

| run | property | what happens |
|---|---|---|
| `session_late` | `StartOkMeansStarted` | a STARTED after the 5 s time-out posts a semaphore nobody clears; the next `aiui_start` returns 0 at once, and the text sent then finds no connection. An error answer (`aiui_api.c:140`) has the same effect |
| `threads_quit` | `QuitEnds` | the single post of `q` is taken by a clear, and the thread it was for waits on |
| `exit_late` | `UsedNotFreed` | `main` destroys `s_finish_sem` before `aiui_uninit` ends the receive thread: a FINISH handled in between posts a destroyed semaphore. The message parser (freed before the disconnect) and the player (destroyed under a detached decode thread) can be met freed as well |

Reachable too, stated in the modules with a comment that the code does not keep
them, and checked by no run (a run of one property each, with the constants of the
module's other run unless said otherwise, finds each violated):

- `OldCloseLeavesNewSession` of `AiuiSession` (modes `Text`, faults
  `CloseAndTimeout`, two handles): `is_over` is set before the close is reported, so
  `_aiui_closed` of the old connection can run after the new session has started.
- `StaysInBuffers` of `HttpBody`: the caller's buffer and `header_info` are written past
  their end, and searched past it, for some cuts of a response (section 2).
- `FragmentsWhole` of `WsFrame`: the length of a message of several frames counts the
  newest twice and leaves out the oldest.
- `FreedListUnused` of `AiuiPlayer` (under `Spec`): the decode thread that was woken by
  the stop, or the callback of a download whose last byte has set `is_over`, uses
  `list_mp3` after `aiui_list_destroy` and before the pointer is NULL
  (`aiui_player.c:232-233`).
- `EndMeansPlayed` of `AiuiPlayer`: `aiui_media_play` leaves a post of its own stop
  behind and clears `stop` after it created the threads: the play thread may end at
  once and report the end of a song that never began, and the next one is played.
- `EndAlwaysFollowsSong` of `AudioControl`: the comment on the statics
  (`aiui_audio_control.c:29-30`) is not kept when commands overlap. A play thread that
  has passed its test of `stop` reports the end of its song after another thread has
  started the next one, and the end is taken under the type of the new one.

And without a property of their own: the wake-up word's `aiui_hal_sem_clear` reads the
value of the semaphore, `send_audio` takes a post, and the clear waits for one that
only its own thread could make (the `ivw` case of `AudioFlowsOrWakes`); an `aiui_send`
past its check of `connect_status` that writes to the connection of the next session,
even before its upgrade request (`SenderCheck`, `SenderUse`, `Assign`, `Request`); a
data frame after the end frame of `aiui_stop`; the body of a rejected upgrade among the
frames of the next session (`RejectBody`, then `Garble`), whose STARTED is then lost; a
NEXT that waits in `aiui_convert_url` while a STOP is handled, and plays after it
(`Choose`, `Answered`); a live frame in the session of the file test; a control frame passed on as a message (`WsFrame` never looks at the opcode,
because the code does not); a length of 2^16 or more whose upper four bytes come
from beyond the variable they are copied from (`high` in `LengthBytes`).

## 4. Fairness

`AiuiSession!FairSpec`: weak fairness of what the main thread owes once inside a
call (its waits end with the semaphore or the time-out of `sem_timedwait`) and of
each receive thread (it polls with a 3 s `select`). Nothing obliges the
application to call, the peer to answer or close, or the send thread to send.
`DemoThreads!FairSpec`: weak fairness of each thread's steps, which a preemptive
scheduler gives; `FlowSpec` keeps only the two threads that the flow of recorded
audio needs. No fairness is put on the commands or on the session's events.
`threads_quit` is checked under `FairSpec`, so that its counterexample is not a thread
that is never scheduled, `threads_flow` under `FlowSpec`.
`AiuiPlayer!FairSpec`: weak fairness of a call once made, of the play thread, and of a
download whose connection was shut down. The network owes nothing else, and the
decode thread is not needed for a stop to return.
`DemoExit!FairSpec`: weak fairness of `main` and of each thread, which a preemptive
scheduler gives; songs and streams end, because every thread of a song that can step
does in the end. Messages, closes by the peer and the quit command are not owed.
`HttpBody` states no fairness: the server owes no byte.

The deadlock check is off in `http` and `exit`, as in the runs of the demo and the
player: a receiver and a program really end.

## 5. What is proved

`AiuiSession_proofs`, for any set of handles, modes and faults
(`SessionAssumption`): `TypeCorrect`, `Quiet`, `LoopOutlives`, `HandleOwnership`,
`ConnectedSound`, `SpeechOnce`, `WaitAlways`, `EndNoticedAlways`, `StartOkAlways`, and
`Refinement`: `Spec => LinkSpec`. The argument is one inductive invariant `IInv`:

- `HandleInv`: where each handle is in its life, by the main thread's control:
  only `http`, or `fresh` between creation and assignment, is live. Needed because
  "freed once" depends on `http` not being stale when the next call begins.
- `ThreadInv`: a receive thread past `is_over` handles no message; one in a
  callback belongs to the live current handle, because the caller's wait cannot
  end before the flag. The exception is a rejected upgrade: its thread has `is_over`
  set with the body still in hand.
- `FrameInv`: what waits in the frame parser is of the current connection, or of a
  rejected upgrade; `aiui_websocket_disconect` empties the parser behind the free,
  when no other thread can put anything there.
- `StatusInv`: CONNECTED is only ever written by a thread in a callback, hence, by
  `ThreadInv`, for the current connection.
- `SpeechInv`: what the thread's position, `is_process_tts` and the messages
  received say about the audio commands given.

Each part has a lemma with one step per action; `NextIInv` combines them. `WaitAlways`
is the safety half of `CallsReturn`: whenever `main` waits for `is_over`, the thread that
sets it exists, was told to stop and has not gone past the place where it does. It adds
`CloseTold` and `Flagged` to the invariant; that the thread then runs is left to TLC.
`EndNoticedAlways` is that of `PeerCloseNoticed`: a thread that ended by itself has left
DISCONNECTED behind, and no late answer has overwritten it. `StartOkAlways` shows that
the disagreement of `session_late` has no other causes than the two named in section 3:
with neither in `Faults` (`PromptCloud`), `StartOkMeansStarted` holds. Its invariant
`Answered` says whose post the semaphore holds, and that no other can come before it is
taken.

`RingBuf_proofs`, for any capacity, byte set and lengths up to the capacity
(`RingAssumption`): `Positions` (`TypeOK` and `PositionsAgree`, inductive together)
and `RingIsFifo` (`Spec => FifoSpec`), whose lemmas say what the bytes held are
after a copy across the wrap, a read and a forced update.

`AudioControl_proofs`, for lists of any length and any number of sessions and play
threads (`AudioAssumption`): `TypeCorrect`, `Position`, `EndType`, `StopHolds` and the
action property `Resumes`. The invariant has three parts. `InOrder` holds until commands
overlap: one thread is in a command (`Alone`), one song sounds (`OneSong`), a command
that begins finds none that sounds (`Settled`, so that a failed request cannot leave a
speech under the type of media), the type is that of what sounds, ends or is about to
play (`Ends`), and what is fetched or played is what RESUME would play (`Items`,
`Plays`). `PausedItem` says the last of what was paused. `StopExpected` holds whatever
overlaps: after a STOP it is still the expected command, no thread waits for a url, and
what is on its way to the player is speech, with the type that leads back to STOP.
`AloneOrderly` is the step they share: a thread that moves alone keeps the order.

`HttpBody_proofs`, for any set of well-formed responses, any receive size and any
callers (`HttpAssumption`): `TypeCorrect`, `InOrderAlways`, `OverAlways`, and
`NothingStuckAlways` under `ShortLines`. The invariant joins `Flow` (where the receiver
is in its call, and what `is_over` and the two body modes imply) to `Placed`, which says
what the next byte is: the first of what is left of a chunk, the CRLF behind it, or a
size line. `ChunkFacts`, `LineFacts` and `HeaderFacts` turn the shape of a response
(`WellFormed`, which only looks one line or one chunk ahead) into what the parser meets.
All of it speaks of a receiver that is still in its buffers: the steps that leave them
end in `astray`, of which `Flow` and `Placed` say only what was true before.

`DemoExit_proofs`, for any number of messages and songs (`ExitAssumption`):
`TypeCorrect`, `KeptAlways`, `FreedOnceAlways`, `ExitGoesOn`. The invariant ties what is
freed to the place in `main` (`InOrder`) and `is_over` to a receive thread that has left its
callbacks (`OverMeansOut`); without the second, the wait before the free means nothing.
`ExitGoesOn` says of both waits of the exit that the thread waited for is still there to
end them: `play_end` is 0 only while a song runs (`Running`), and a receive thread whose
`is_over` is 0 has not left its loop (`Flagged`). It says nothing of a thread about to
touch a freed object, which the model does not let go on.

`DemoThreads_proofs`, for rings of any size and any bounds (`ThreadsAssumption`):
`TypeCorrect` and `FinishAlwaysReached`. `QuitReachesFinish` needs `Quitting` beside it
(`s_quit` is set before the posts of `q` and never reset) and holds because only
`finish_result` takes the posts of its semaphore and it clears another one; the other
two waiting threads clear their own, and `threads_quit` shows what comes of it.

`AiuiPlayer_proofs`, for any number of songs, pieces and stops (`PlayerAssumption`):
`TypeCorrect`, `QuietAlways`, `OpenAlways`, `HeardAlways`, `NotStrandedAlways`. The
invariant holds until
the model stops (`astray`): `OneSong` (only the last song has threads, so that a list has one
producer and one consumer), `Silent` (`play_end` and the caller's place say where a play
thread can be) and `Opened`. `HeardAlways` needs `Streams` besides: there are three
counts, what the decoder took, what it passed on and what the play thread took, such
that each list holds exactly the pieces between two of them, closed by an end node only
when its producer is done. The counts are not state of the code, which is why no
comparison of the semaphores could take their place. `NotStrandedAlways` is the safety
half of `StopReturns`: the post of a stop stays until a play thread has taken it (`Woken`),
`play_end` is 0 only with a play thread in its loop (`Busy`), and a download without
`is_over` is in its loop (`Fetching`), so that no wake-up can be lost.

`WsFrame_proofs`, for a byte of any size, any chunk and any lengths up to 32 bits
(`FrameAssumption`): `TypeCorrect`, `BoundaryAlways`, `InSyncAlways`, `EvenWholeAlways`,
`Fits`, `SendsAlways`, and `SaidIsLenAlways` under `ShortSends`. The invariant:

- `Stream`: between two frames nothing is unread (`Resting`), and otherwise the bytes
  received and those still on the wire make up exactly one frame of the server, whose
  payload is the newest of what was sent. The parser knows nothing of what is on the
  wire; the boundary is kept because the length in the header, whichever of its three
  forms, is the number of bytes that follow (`FrameFacts`, from `LengthCode`).
- `Delivered`: each message passed on is what `_aiui_dispatch_frame` makes of the parts
  that were sent in its place.

`LengthCode` is the arithmetic of the file: a length cut into digits and read back is the
same, modulo 2^32. `SendsAlways` says what that leaves to a sent header, and
`SaidIsLenAlways` that below 65536 bytes (the demo sends frames of 640) the header is
right; above, the four high bytes are whatever `high` is. Messages are flattened
sequences of parts; what the proofs need of that fold (`FlattenType`, `Joining`) is proved
by an induction stated with sets, `SetInduction`, itself from the well-foundedness of
Nat, because a theorem with an operator for a parameter cannot be used.

Model-checked only:

- liveness (`CallsReturn`, `PeerCloseNoticed`, `AudioFlowsOrWakes`, `StopReturns`,
  `ExitEnds`): TLAPS does not reason about fairness and ENABLED. Of four of them the
  safety half is proved (`WaitAlways`, `EndNoticedAlways`, `NotStrandedAlways`,
  `ExitGoesOn`). There is none for `AudioFlowsOrWakes`: a clear may eat the post of a
  recorded frame, and only the next frame brings another.
- that the runs marked as disagreements really are reachable: TLC's traces show it.

Every invariant that a passing run checks is stated by a theorem, and so are both
refinements and the action property.

## 6. Not modelled, and why

- The ring under two threads (`ringbuf.c:48`): after one lost update of `size` the
  fields disagree for good, and there is no property of the ring left to check.
- The player once threads of two songs share it (two decode threads on one decoder, the
  end node of an old download, two play threads on one semaphore) or the freed list was
  used, and two callers at once: no order of what is heard is left to state. `AiuiPlayer`
  shows that this can be reached, and what holds until then. A pop or a push is one step
  there, so a list is freed before or after it, not in the middle of it.
- The memory under audio commands that overlap: a list that is freed while NEXT reads
  it, a url that is freed or kept by the look at another item after the play
  (`aiui_audio_control.c:135`), a player freed under a play.
- Two callers of `aiui_start`, and two threads that write to one socket: a frame and a
  start are atomic towards each other in `AiuiSession`.
- The builds with `AIUI_LONG_CONNECT` or `AIUI_OPEN_VAD`, which `CMakeLists.txt` leaves
  off.
- The demos for HarmonyOS and for the other systems: what they must do is decided by
  the callbacks and states of closed libraries. The write thread of the HarmonyOS demo
  that ends by itself stops whatever thread `mWriteThread` names by then
  (`MainAbilitySlice.java:331`).
- `aiui_socket_recv` waits in `select` although the TLS layer may hold bytes already
  read (`aiui_socket_api.c:325`), and a receive thread whose response is complete turns
  without blocking until the peer closes (`aiui_http_api.c:238`): both are about time.
- Vendored code (cjson, md5, sha256, base64, libfvad, jsoncpp, mbedtls and mad headers),
  closed libraries, ALSA and wav wrappers, and the building and printing of the weather,
  upload and entity requests. These are the bulk of the repository's lines: the SDK's
  own C code is a few thousand of some seventy thousand, which is why the share of the
  repository the models cover is small although nearly all of the SDK's control is in
  them.
