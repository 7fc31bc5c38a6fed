----------------------------- MODULE AiuiPlayer -----------------------------
(***************************************************************************)
(* The player, aiui_player.c, over its download (aiui_url_download.c and    *)
(* the receive thread of aiui_http_api.c), its MP3 decoder                  *)
(* (aiui_mp3_decode.c) and its lists (aiui_list.c).                         *)
(*                                                                          *)
(* aiui_media_play first stops what plays, then starts three threads: the   *)
(* download pushes the pieces of the song to list_mp3, the decoder takes    *)
(* them and pushes sound to list_pcm, the play thread writes it to the      *)
(* device.  The decode and receive threads are detached.                    *)
(*                                                                          *)
(* One caller at a time.  One piece of MP3 decodes to one piece of sound.   *)
(* A push with its post, and a post with the stores of the same thread just *)
(* before it, are one step: nobody reads the list without the semaphore.    *)
(***************************************************************************)
EXTENDS Naturals, Sequences, FiniteSets

CONSTANTS Songs,      \* bound: calls of aiui_media_play
          Pieces,     \* pieces of a song
          MaxCalls,   \* bound: calls of aiui_media_play and aiui_media_stop
          Null

ASSUME PlayerAssumption ==
  /\ Songs \in Nat /\ Pieces \in Nat \ {0} /\ MaxCalls \in Nat
  /\ Null \notin Seq((1 .. Songs) \X (0 .. Pieces))

Song == 1 .. Songs

Piece == Song \X (1 .. Pieces)

EndOf(s) == <<s, 0>>     \* the node of length -1

Node == Song \X (0 .. Pieces)

VARIABLES
  pc, then,              \* the caller; whether its stop is a part of a play
  song, stops,           \* calls of play and of stop so far
  stop, playEnd,         \* self->stop, self->play_end
  decStop,               \* decode_handle->stop
  mp3, pcm,              \* the two lists, Null when there is none
  decSem, pcmSem,
  device,                \* alsa_handle is not NULL
  http,                  \* the song of url_download_handle, 0 for NULL
  dl, sent, cut, over,   \* per download: its thread, pieces pushed, stop, is_over
  dec, got,              \* per song: the decode thread, the node it holds
  play, held,            \* per song: the play thread, the node it holds
  heard, ended,          \* pieces written to the device; songs reported as ended
  astray                 \* a thread of an earlier song was left at a play, or
                         \* the list that was destroyed was used

call == <<pc, then, song, stops>>
download == <<http, dl, sent, cut, over>>
decoder == <<decStop, dec, got>>
player == <<playEnd, play, held, heard, ended>>
vars == <<call, stop, mp3, pcm, decSem, pcmSem, device, download, decoder, player, astray>>

CallPC == {"idle", "posts", "wait", "cut", "join", "mp3", "null",
           "pcm", "lists", "download", "decode", "play", "clear"}

List == Seq(Node) \cup {Null}

TypeOK ==
  /\ pc \in CallPC /\ then \in {"idle", "lists"}
  /\ song \in 0 .. Songs /\ stops \in 0 .. MaxCalls
  /\ stop \in BOOLEAN /\ playEnd \in BOOLEAN /\ decStop \in BOOLEAN
  /\ mp3 \in List /\ pcm \in List
  /\ decSem \in Nat /\ pcmSem \in Nat
  /\ device \in BOOLEAN
  /\ http \in 0 .. Songs
  /\ dl \in [Song -> {"none", "run", "last", "over", "done"}]
  /\ sent \in [Song -> 0 .. Pieces]
  /\ cut \subseteq Song /\ over \subseteq Song
  /\ dec \in [Song -> {"none", "start", "check", "wait", "pop", "open", "push", "done"}]
  /\ play \in [Song -> {"none", "start", "wait", "check", "pop", "write",
                        "close", "ended", "report", "done"}]
  /\ got \in [Song -> Node \cup {Null}] /\ held \in [Song -> Piece \cup {Null}]
  /\ heard \in Seq(Piece)
  /\ ended \subseteq Song
  /\ astray \in BOOLEAN

(* aiui_media_init; stop keeps what the memory held. *)
Init ==
  /\ pc = "idle" /\ then = "idle" /\ song = 0 /\ stops = 0
  /\ stop \in BOOLEAN
  /\ playEnd = TRUE /\ decStop = FALSE
  /\ mp3 = Null /\ pcm = Null
  /\ decSem = 0 /\ pcmSem = 0
  /\ device = FALSE
  /\ http = 0
  /\ dl = [s \in Song |-> "none"] /\ sent = [s \in Song |-> 0]
  /\ cut = {} /\ over = {}
  /\ dec = [s \in Song |-> "none"] /\ got = [s \in Song |-> Null]
  /\ play = [s \in Song |-> "none"] /\ held = [s \in Song |-> Null]
  /\ heard = <<>> /\ ended = {}
  /\ astray = FALSE

-----------------------------------------------------------------------------
(* aiui_list_push and aiui_list_pop. *)

(* Faulty variant: a node is put before the others. *)
PushFirst(list, node) == IF list = Null THEN Null ELSE <<node>> \o list

Push(list, node) == IF list = Null THEN Null ELSE Append(list, node)

HasNode(list) == list # Null /\ list # <<>>

Popped(list) == IF HasNode(list) THEN Tail(list) ELSE list

-----------------------------------------------------------------------------
(* The caller. *)

At(here, there) == pc = here /\ pc' = there

Stop ==
  /\ At("idle", "posts")
  /\ song + stops < MaxCalls
  /\ \/ stops' = stops + 1 /\ then' = "idle"
     \/ song < Songs /\ then' = "lists" /\ UNCHANGED stops
  /\ stop' = TRUE
  /\ UNCHANGED <<song, mp3, pcm, decSem, pcmSem, device, download, decoder, player, astray>>

(* Faulty variant: only the decoder is woken up. *)
StopPostsDecoder ==
  /\ At("posts", "wait")
  /\ decStop' = TRUE
  /\ decSem' = decSem + 1
  /\ UNCHANGED <<then, song, stops, stop, mp3, pcm, pcmSem, device, download, dec, got,
                 player, astray>>

(* aiui_mp3_stop_decode and the two posts. *)
StopPosts ==
  /\ At("posts", "wait")
  /\ decStop' = TRUE
  /\ decSem' = decSem + 1
  /\ pcmSem' = pcmSem + 1
  /\ UNCHANGED <<then, song, stops, stop, mp3, pcm, device, download, dec, got, player, astray>>

(* Faulty variant: the play thread is not waited for. *)
StopWaitSkipped ==
  /\ At("wait", "cut")
  /\ UNCHANGED <<then, song, stops, stop, mp3, pcm, decSem, pcmSem, device,
                 download, decoder, player, astray>>

StopWait ==
  /\ At("wait", "cut")
  /\ playEnd
  /\ UNCHANGED <<then, song, stops, stop, mp3, pcm, decSem, pcmSem, device,
                 download, decoder, player, astray>>

(* Faulty variant: the download is waited for without being shut down. *)
StopDownloadUntold ==
  /\ At("cut", "join")
  /\ UNCHANGED <<then, song, stops, stop, mp3, pcm, decSem, pcmSem, device,
                 download, decoder, player, astray>>

(* aiui_url_download_stop: stop and shut down, then wait for is_over; the   *)
(* handle is freed after it.                                                *)
StopDownload ==
  /\ At("cut", "join")
  /\ cut' = cut \cup ({http} \ {0})
  /\ UNCHANGED <<then, song, stops, stop, mp3, pcm, decSem, pcmSem, device,
                 http, dl, sent, over, decoder, player, astray>>

StopJoin ==
  /\ At("join", "mp3")
  /\ http \in over \cup {0}
  /\ http' = 0
  /\ UNCHANGED <<then, song, stops, stop, mp3, pcm, decSem, pcmSem, device,
                 dl, sent, cut, over, decoder, player, astray>>

(* The list is destroyed, without decode_lock; until list_mp3 is set to     *)
(* NULL it can be pushed to and popped from.                                *)
StopMp3 ==
  /\ At("mp3", "null")
  /\ UNCHANGED <<then, song, stops, stop, mp3, pcm, decSem, pcmSem, device,
                 download, decoder, player, astray>>

StopMp3Null ==
  /\ At("null", "pcm")
  /\ mp3' = Null
  /\ UNCHANGED <<then, song, stops, stop, pcm, decSem, pcmSem, device,
                 download, decoder, player, astray>>

(* A thread that pushes to list_mp3, or pops from it, at this moment works   *)
(* in freed memory.                                                         *)
UsesMp3 == astray' = (astray \/ (pc = "null" /\ mp3 # Null))

StopPcm ==
  /\ At("pcm", then)
  /\ pcm' = Null
  /\ UNCHANGED <<then, song, stops, stop, mp3, decSem, pcmSem, device,
                 download, decoder, player, astray>>

Alive(s) == \/ dl[s] \notin {"none", "done"}
            \/ dec[s] \notin {"none", "done"}
            \/ play[s] \notin {"none", "done"}

PlayLists ==
  /\ At("lists", "download")
  /\ song' = song + 1
  /\ mp3' = <<>> /\ pcm' = <<>>
  /\ astray' = (astray \/ \E s \in Song : Alive(s))
  /\ UNCHANGED <<then, stops, stop, decSem, pcmSem, device, download, decoder, player>>

(* aiui_url_download_start; without a connection there is no thread. *)
PlayDownload ==
  /\ At("download", "decode")
  /\ \/ http' = song /\ dl' = [dl EXCEPT ![song] = "run"]
     \/ UNCHANGED <<http, dl>>
  /\ UNCHANGED <<then, song, stops, stop, mp3, pcm, decSem, pcmSem, device,
                 sent, cut, over, decoder, player, astray>>

PlayDecode ==
  /\ At("decode", "play")
  /\ dec' = [dec EXCEPT ![song] = "start"]
  /\ UNCHANGED <<then, song, stops, stop, mp3, pcm, decSem, pcmSem, device,
                 download, decStop, got, player, astray>>

PlayThread ==
  /\ At("play", "clear")
  /\ play' = [play EXCEPT ![song] = "start"]
  /\ UNCHANGED <<then, song, stops, stop, mp3, pcm, decSem, pcmSem, device,
                 download, decoder, playEnd, held, heard, ended, astray>>

PlayClear ==
  /\ At("clear", "idle")
  /\ stop' = FALSE
  /\ UNCHANGED <<then, song, stops, mp3, pcm, decSem, pcmSem, device,
                 download, decoder, player, astray>>

Caller ==
  \/ StopPosts \/ StopWait \/ StopDownload \/ StopJoin \/ StopMp3
  \/ StopMp3Null \/ StopPcm
  \/ PlayLists \/ PlayDownload \/ PlayDecode \/ PlayThread \/ PlayClear

-----------------------------------------------------------------------------
(* The download's receive thread.  It pushes to the list there is.          *)

Fetched(node) ==
  /\ UsesMp3
  /\ mp3' = Push(mp3, node)
  /\ decSem' = decSem + 1

Data(s) ==
  /\ dl[s] = "run" /\ s \notin cut
  /\ sent[s] < Pieces
  /\ sent' = [sent EXCEPT ![s] = @ + 1]
  /\ Fetched(<<s, sent[s] + 1>>)
  /\ UNCHANGED <<call, stop, pcm, pcmSem, device, http, dl, cut, over, decoder, player>>

(* The last byte of a Content-Length sets is_over before it is handed on.   *)
Complete(s) ==
  /\ dl[s] = "run" /\ s \notin cut
  /\ sent[s] = Pieces - 1
  /\ over' = over \cup {s}
  /\ dl' = [dl EXCEPT ![s] = "last"]
  /\ UNCHANGED <<call, stop, mp3, pcm, decSem, pcmSem, device, http, sent, cut,
                 decoder, player, astray>>

LastData(s) ==
  /\ dl[s] = "last"
  /\ dl' = [dl EXCEPT ![s] = "run"]
  /\ sent' = [sent EXCEPT ![s] = Pieces]
  /\ Fetched(<<s, Pieces>>)
  /\ UNCHANGED <<call, stop, pcm, pcmSem, device, http, cut, over, decoder, player>>

(* The loop ends: stopped, or the connection was closed. *)
Close(s) ==
  /\ dl[s] = "run"
  /\ dl' = [dl EXCEPT ![s] = "over"]
  /\ over' = over \cup {s}
  /\ UNCHANGED <<call, stop, mp3, pcm, decSem, pcmSem, device, http, sent, cut,
                 decoder, player, astray>>

Freed(s) == s \in cut /\ http # s

(* stop is read again, from memory that may be freed by now. *)
EndMark(s) ==
  /\ dl[s] = "over"
  /\ s \notin cut \/ Freed(s)
  /\ dl' = [dl EXCEPT ![s] = "done"]
  /\ Fetched(EndOf(s))
  /\ UNCHANGED <<call, stop, pcm, pcmSem, device, http, sent, cut, over, decoder, player>>

NoEndMark(s) ==
  /\ dl[s] = "over"
  /\ s \in cut
  /\ dl' = [dl EXCEPT ![s] = "done"]
  /\ UNCHANGED <<call, stop, mp3, pcm, decSem, pcmSem, device, http, sent, cut, over,
                 decoder, player, astray>>

Downloader(s) ==
  Data(s) \/ Complete(s) \/ LastData(s) \/ Close(s) \/ EndMark(s) \/ NoEndMark(s)

-----------------------------------------------------------------------------
(* The decode thread: aiui_mp3_deocde, and the input and output callbacks   *)
(* libmad calls in turn.                                                    *)

DecodeAt(s, here, there) == dec[s] = here /\ dec' = [dec EXCEPT ![s] = there]

DecodeStart(s) ==
  /\ DecodeAt(s, "start", "check")
  /\ decStop' = FALSE
  /\ UNCHANGED <<call, stop, mp3, pcm, decSem, pcmSem, device, download, got, player, astray>>

DecodeCheck(s) ==
  /\ DecodeAt(s, "check", IF decStop THEN "done" ELSE "wait")
  /\ UNCHANGED <<call, stop, mp3, pcm, decSem, pcmSem, device, download, decStop, got,
                 player, astray>>

DecodeWait(s) ==
  /\ DecodeAt(s, "wait", "pop")
  /\ decSem > 0
  /\ decSem' = decSem - 1
  /\ UNCHANGED <<call, stop, mp3, pcm, pcmSem, device, download, decStop, got, player, astray>>

(* Without a node libmad has no input, and asks again. *)
DecodePop(s) ==
  /\ UsesMp3
  /\ DecodeAt(s, "pop", IF HasNode(mp3) THEN "open" ELSE "check")
  /\ got' = [got EXCEPT ![s] = IF HasNode(mp3) THEN Head(mp3) ELSE Null]
  /\ mp3' = Popped(mp3)
  /\ UNCHANGED <<call, stop, pcm, decSem, pcmSem, device, download, decStop, player>>

(* Faulty variant: the device is not opened again. *)
DecodeOpenNever(s) ==
  /\ DecodeAt(s, "open", "push")
  /\ UNCHANGED <<call, stop, mp3, pcm, decSem, pcmSem, device, download, decStop, got,
                 player, astray>>

DecodeOpen(s) ==
  /\ DecodeAt(s, "open", "push")
  /\ device' = TRUE
  /\ UNCHANGED <<call, stop, mp3, pcm, decSem, pcmSem, download, decStop, got, player, astray>>

DecodePush(s) ==
  /\ DecodeAt(s, "push", IF got[s][2] = 0 THEN "done" ELSE "check")
  /\ pcm' = Push(pcm, got[s])
  /\ pcmSem' = pcmSem + 1
  /\ got' = [got EXCEPT ![s] = Null]
  /\ UNCHANGED <<call, stop, mp3, decSem, device, download, decStop, player, astray>>

Decoder(s) ==
  \/ DecodeStart(s) \/ DecodeCheck(s) \/ DecodeWait(s)
  \/ DecodePop(s) \/ DecodeOpen(s) \/ DecodePush(s)

-----------------------------------------------------------------------------
(* The play thread. *)

PlayAt(s, here, there) == play[s] = here /\ play' = [play EXCEPT ![s] = there]

Begin(s) ==
  /\ PlayAt(s, "start", "wait")
  /\ playEnd' = FALSE
  /\ UNCHANGED <<call, stop, mp3, pcm, decSem, pcmSem, device, download, decoder,
                 held, heard, ended, astray>>

(* Faulty variant: a frame is taken without a post. *)
AwaitPcmNot(s) ==
  /\ PlayAt(s, "wait", "check")
  /\ pcmSem' = pcmSem - 1
  /\ UNCHANGED <<call, stop, mp3, pcm, decSem, device, download, decoder,
                 playEnd, held, heard, ended, astray>>

AwaitPcm(s) ==
  /\ PlayAt(s, "wait", "check")
  /\ pcmSem > 0
  /\ pcmSem' = pcmSem - 1
  /\ UNCHANGED <<call, stop, mp3, pcm, decSem, device, download, decoder,
                 playEnd, held, heard, ended, astray>>

CheckStop(s) ==
  /\ PlayAt(s, "check", IF stop THEN "close" ELSE "pop")
  /\ UNCHANGED <<call, stop, mp3, pcm, decSem, pcmSem, device, download, decoder,
                 playEnd, held, heard, ended, astray>>

PopPcm(s) ==
  /\ pcm' = Popped(pcm)
  /\ \/ ~HasNode(pcm) /\ PlayAt(s, "pop", "wait") /\ UNCHANGED held
     \/ HasNode(pcm) /\ Head(pcm)[2] = 0 /\ PlayAt(s, "pop", "close") /\ UNCHANGED held
     \/ /\ HasNode(pcm) /\ Head(pcm)[2] > 0
        /\ PlayAt(s, "pop", "write")
        /\ held' = [held EXCEPT ![s] = Head(pcm)]
  /\ UNCHANGED <<call, stop, mp3, decSem, pcmSem, device, download, decoder,
                 playEnd, heard, ended, astray>>

WriteFrame(s) ==
  /\ PlayAt(s, "write", "wait")
  /\ heard' = Append(heard, held[s])
  /\ held' = [held EXCEPT ![s] = Null]
  /\ UNCHANGED <<call, stop, mp3, pcm, decSem, pcmSem, device, download, decoder,
                 playEnd, ended, astray>>

CloseDevice(s) ==
  /\ PlayAt(s, "close", "ended")
  /\ device' = FALSE
  /\ UNCHANGED <<call, stop, mp3, pcm, decSem, pcmSem, download, decoder,
                 playEnd, held, heard, ended, astray>>

PlayEnd(s) ==
  /\ PlayAt(s, "ended", "report")
  /\ playEnd' = TRUE
  /\ UNCHANGED <<call, stop, mp3, pcm, decSem, pcmSem, device, download, decoder,
                 held, heard, ended, astray>>

(* AIUI_AUDIO_CTRL_PLAY_END, unless the player was stopped.  What the       *)
(* command does with it is another call of the player.                      *)
Report(s) ==
  /\ PlayAt(s, "report", "done")
  /\ ended' = IF stop THEN ended ELSE ended \cup {s}
  /\ UNCHANGED <<call, stop, mp3, pcm, decSem, pcmSem, device, download, decoder,
                 playEnd, held, heard, astray>>

Player(s) ==
  \/ Begin(s) \/ AwaitPcm(s) \/ CheckStop(s) \/ PopPcm(s)
  \/ WriteFrame(s) \/ CloseDevice(s) \/ PlayEnd(s) \/ Report(s)

-----------------------------------------------------------------------------
(* The model follows the player as long as it is not astray. *)
Next ==
  /\ ~astray
  /\ \/ Stop \/ Caller
     \/ \E s \in Song : Downloader(s) \/ Decoder(s) \/ Player(s)

Spec == Init /\ [][Next]_vars

(* The caller and the threads it waits for run; of the network nothing is   *)
(* asked but that a connection that was shut down is noticed.               *)
Hangup(s) == LastData(s) \/ (s \in cut /\ Downloader(s))

FairSpec ==
  /\ Spec
  /\ WF_vars(~astray /\ Caller)
  /\ WF_vars(~astray /\ \E s \in Song : Hangup(s))
  /\ WF_vars(~astray /\ \E s \in Song : Player(s))

-----------------------------------------------------------------------------
(* Properties.  Nothing waits for a decode thread, so threads of an earlier *)
(* song may be there when the next one starts, and two threads then share   *)
(* each semaphore and list; and the list a stop destroys may be in use      *)
(* (FreedListUnused).  From then on the player is astray: any of these can  *)
(* fail, and none is claimed.                                               *)

(* What is heard is each song from its beginning, without a gap, a repeated *)
(* piece or a piece of another song, through two lists and two semaphores   *)
(* whose counts no longer agree once a stop has posted them too.            *)
HeardInOrder ==
  ~astray => \A i \in DOMAIN heard :
    \/ heard[i][2] = 1 /\ \A j \in 1 .. i - 1 : heard[j][1] < heard[i][1]
    \/ i > 1 /\ heard[i] = <<heard[i - 1][1], heard[i - 1][2] + 1>>

(* Once aiui_media_stop has returned no play thread is past its test of     *)
(* stop: nothing more is written until the next song.  A play thread that   *)
(* had not even begun, so that stop did not wait for it, is no exception.   *)
QuietAfterStop ==
  ~astray /\ pc = "idle" /\ stop => \A s \in Song : play[s] \notin {"pop", "write"}

(* The play thread writes to an open device: the decoder opens it before it *)
(* hands the first piece over, and another thread closes it.                *)
WritesToOpenDevice ==
  ~astray => \A s \in Song : play[s] = "write" => device

Playing == {"wait", "check", "pop", "write", "close", "ended"}

(* No wake-up of aiui_media_stop is lost: while it waits for play_end the   *)
(* play thread is on its way there and finds a post if it waits for one,    *)
(* whoever took the posts before; and the download whose is_over it waits   *)
(* for was shut down and is still in its loop.                              *)
StopNotStranded ==
  ~astray =>
    /\ pc = "wait" /\ ~playEnd =>
         \E s \in Song : play[s] \in Playing /\ (play[s] = "wait" => pcmSem > 0)
    /\ pc = "join" /\ http \notin over \cup {0} =>
         http \in cut /\ dl[http] = "run"

(* aiui_media_stop returns, and with it aiui_media_play, whatever the three *)
(* threads were doing and whatever the connection does.                     *)
StopReturns == pc # "idle" ~> pc = "idle" \/ astray

(* A list that was destroyed is not used.  The code does not keep this: the *)
(* decode thread the stop itself has woken, and a download whose last byte  *)
(* has set is_over, may come between aiui_list_destroy and the NULL.        *)
FreedListUnused == [][pc = "null" => ~astray']_vars

(* The player reports the end of a song only after its download has ended:  *)
(* on this report the next song of the list is played.  The code does not   *)
(* keep this: a play thread that takes the post of the stop before it while *)
(* stop is still set ends, and reports once stop is cleared.                *)
EndMeansPlayed == \A s \in ended : dl[s] = "done"
=============================================================================
