------------------------- MODULE AudioControl_proofs -------------------------
(***************************************************************************)
(* The properties of AudioControl, for lists of any length, any number of   *)
(* sessions and any number of play threads.                                 *)
(***************************************************************************)
EXTENDS AudioControl, TLAPS

(* TypeOK in three parts: the flags, the threads and the rest.              *)
Flags ==
  /\ player \in BOOLEAN /\ halt \in BOOLEAN /\ isResume \in BOOLEAN
  /\ talk \in BOOLEAN /\ stopped \in BOOLEAN /\ raced \in BOOLEAN

Places ==
  /\ at \in [Threads -> {"none", "song"} \cup InCommand]
  /\ what \in [Threads -> {Silence, Speech} \cup Media]
  /\ current \in PlayThreads \cup {NoThread}
  /\ resuming \subseteq Threads

Ranges ==
  /\ expected \in Expected
  /\ urlType \in {"TTS", "MEDIA"}
  /\ num \in 0 .. MaxItems /\ pos \in 0 .. MaxItems
  /\ withUrl \subseteq 1 .. MaxItems
  /\ version \in 0 .. MaxTalks /\ talks \in 0 .. MaxTalks
  /\ paused \in {Silence} \cup Media

(* Places where a thread has an item or a speech to play.                   *)
InPlay == {"play", "begin"}
InFetch == {"ask"} \cup InPlay

(* What the variables of the threads say together.                          *)
Shape ==
  /\ current # NoThread => at[current] = "song" /\ ~halt
  /\ at[App] \in {"none", "start"}
  /\ \A t \in Threads : at[t] \in {"song", "report"} => t \in PlayThreads
  /\ \A t \in resuming : at[t] \in InFetch /\ what[t] \in Media
  /\ \A t \in Threads : at[t] = "ask" => what[t] \in Media
  /\ \A t \in Threads : at[t] = "parse" => t = Cloud

-----------------------------------------------------------------------------
(* What holds as long as commands do not overlap.                           *)

(* A play thread that plays, or will report the end of what it played.      *)
Sounds(t) == at[t] = "song" /\ ~halt

Matches(t) == urlType = "TTS" <=> what[t] = Speech

(* Media that is played, or that PAUSE interrupted, is what RESUME plays.   *)
ItemAt(x) == x \in Media => num > 0 /\ isResume /\ x = Item(pos)

Alone == \A t, u \in Threads : Busy(t) /\ Busy(u) => t = u

OneSong == \A t, u \in Threads : Sounds(t) /\ Sounds(u) => t = u

Settled ==
  talk \/ (\E t \in Threads : at[t] \in InCommand \ {"note"})
    => \A t \in Threads : ~Sounds(t)

Waiting == talk => \A t \in Threads : Busy(t) => t = App \/ at[t] = "parse"

Ends == \A t \in Threads : Sounds(t) \/ at[t] \in {"report"} \cup InPlay => Matches(t)

Items == \A t \in Threads : at[t] \in InFetch => ItemAt(what[t])

Again == \A t \in resuming : expected = "RESUME"

Plays ==
  current # NoThread =>
    /\ ItemAt(what[current])
    /\ what[current] \in Media =>
         expected = "RESUME" \/ \E t \in Threads : at[t] = "note"

Orderly == Alone /\ OneSong /\ Settled /\ Waiting /\ Ends /\ Items /\ Again /\ Plays

InOrder == ~raced => Orderly

-----------------------------------------------------------------------------
(* What PAUSE interrupted is kept only while commands do not overlap, and   *)
(* until media plays again.                                                 *)
PausedItem ==
  paused # Silence =>
    /\ ~raced /\ expected = "RESUME" /\ ItemAt(paused)
    /\ \A t \in Threads : Sounds(t) \/ at[t] = "report" => what[t] = Speech

(* STOP, once carried out, is what every later session expects again, and   *)
(* nothing on its way to the player is media, overlapping commands or not.  *)
StopExpected ==
  stopped =>
    /\ expected = "STOP"
    /\ \A t \in Threads : at[t] \notin {"ask", "note"}
    /\ current # NoThread => what[current] = Speech
    /\ \A t \in Threads : at[t] \in InPlay => what[t] = Speech
    /\ \A t \in Threads : Sounds(t) \/ at[t] \in {"report"} \cup InPlay => urlType = "TTS"

IInv == TypeOK /\ Shape /\ PosInList /\ InOrder /\ PausedItem /\ StopExpected

(* The three things a player can be left with are different.                *)
LEMMA Distinct ==
  Silence # Speech /\ Silence \notin Media /\ Speech \notin Media
<1>1. Silence[1] = "silence" /\ Speech[1] = "speech"
  BY DEF Silence, Speech
<1>2. \A m \in Media : m[1] = "media"
  BY DEF Media
<1> QED BY <1>1, <1>2

LEMMA Members ==
  /\ App \in Threads /\ Cloud \in Threads /\ App # Cloud
  /\ PlayThreads \subseteq Threads /\ NoThread \notin Threads
  /\ App \notin PlayThreads /\ Cloud \notin PlayThreads
BY AudioAssumption DEF Threads, App, Cloud

LEMMA TypeParts == TypeOK => Flags /\ Places /\ Ranges
<1>1. TypeOK => Flags
  BY DEF TypeOK, Flags
<1>2. TypeOK => Places /\ Ranges
  BY DEF TypeOK, Places, Ranges
<1> QED BY <1>1, <1>2

LEMMA InitIInv == Init => IInv
<1> SUFFICES ASSUME Init PROVE IInv
  OBVIOUS
<1> USE Members
<1>1. TypeOK
  <2>1. Flags
    BY DEF Init, Flags
  <2>2. Places
    BY DEF Init, Places, InCommand
  <2>3. Ranges
    BY AudioAssumption DEF Init, Ranges, Expected
  <2> QED BY <2>1, <2>2, <2>3 DEF TypeOK, Flags, Places, Ranges
<1>2. Shape /\ PosInList
  BY DEF Init, Shape, PosInList
<1>3. Orderly
  BY DEF Init, Orderly, Alone, OneSong, Settled, Waiting, Ends, Items, Again, Plays,
         Busy, Sounds, InCommand, InFetch, InPlay
<1>4. PausedItem /\ StopExpected
  BY DEF Init, PausedItem, StopExpected
<1> QED BY <1>1, <1>2, <1>3, <1>4 DEF IInv, InOrder
-----------------------------------------------------------------------------
(* Commands.                                                                *)

(* A step after which t alone may be in the middle of a command, and no     *)
(* play thread has an end to report.                                        *)
LEMMA AloneOrderly ==
  ASSUME NEW t \in Threads,
         \A u \in Threads \ {t} : ~Busy(u)',
         \A u \in Threads : ~Sounds(u)',
         talk' /\ Busy(t)' => t = App \/ at[t]' = "parse",
         current' = NoThread,
         at[t]' \in {"report"} \cup InPlay => Matches(t)',
         at[t]' \in InFetch => ItemAt(what[t])',
         Again'
  PROVE  Orderly'
<1>1. \A u \in Threads : at[u]' \in {"report"} \cup InFetch => u = t
  BY DEF Busy, InCommand, InFetch, InPlay
<1>2. Alone' /\ OneSong' /\ Settled' /\ Waiting'
  BY DEF Alone, OneSong, Settled, Waiting
<1>3. Ends' /\ Items'
  BY <1>1 DEF Ends, Items, InFetch
<1>4. Plays'
  BY DEF Plays
<1> QED BY <1>2, <1>3, <1>4 DEF Orderly

(* Thread t begins the command of a PLAY_END or of the end of a session.    *)
Command(t) ==
  /\ \/ at[t] = "report" /\ talk' = talk
     \/ t = Cloud /\ Listens /\ talk' = FALSE
  /\ Begins(t, paused)
  /\ UNCHANGED talks

(* What it finds unless it overlaps another: nothing that sounds.           *)
LEMMA CommandFinds ==
  ASSUME IInv, NEW t \in Threads, Command(t)
  PROVE  /\ t # App /\ at[t] \in {"none", "report"} /\ t \notin resuming /\ t # current
         /\ raced' \in BOOLEAN /\ talk' \in BOOLEAN /\ paused' \in {Silence, paused}
         /\ paused' # Silence => ~raced /\ ~raced'
         /\ ~raced' => /\ \A u \in Threads \ {t} : ~Busy(u)
                       /\ \A u \in Threads : ~Sounds(u)
                       /\ current = NoThread /\ talk' = FALSE
<1> USE Members
<1>1. at[t] \in {"none", "report"} /\ t # App
  BY DEF Command, Listens, IInv, Shape
<1>2. t \notin resuming
  BY <1>1 DEF IInv, Shape, InFetch, InPlay
<1>3. t # current
  BY <1>1 DEF IInv, Shape
<1>4. raced \in BOOLEAN /\ talk \in BOOLEAN /\ talk' \in BOOLEAN
  BY DEF IInv, TypeOK, Command
<1>5. raced' = (Overlaps(t) \/ (raced /\ (SongLeft \/ talk')))
      /\ paused' = IF raced' THEN Silence ELSE paused
  BY DEF Command, Begins, Races
<1>6. raced' \in BOOLEAN /\ paused' \in {Silence, paused}
  BY <1>4, <1>5 DEF Overlaps, SongLeft
<1>7. paused' # Silence => ~raced /\ ~raced'
  BY <1>5 DEF IInv, PausedItem
<1>8. ASSUME ~raced'
      PROVE  /\ \A u \in Threads \ {t} : ~Busy(u)
             /\ \A u \in Threads : ~Sounds(u)
             /\ current = NoThread /\ talk' = FALSE
  <2>1. \A u \in Threads \ {t} : ~Busy(u)
    BY <1>5, <1>8 DEF Overlaps
  <2>2. CASE raced
    <3>1. ~SongLeft /\ talk' = FALSE
      BY <1>4, <1>5, <1>8, <2>2
    <3>2. \A u \in Threads : at[u] # "song"
      BY <3>1 DEF SongLeft, IInv, Shape
    <3>3. current = NoThread
      BY <3>2 DEF IInv, Shape, TypeOK
    <3> QED BY <2>1, <3>1, <3>2, <3>3 DEF Sounds
  <2>3. CASE ~raced
    <3>1. Settled /\ Waiting
      BY <2>3 DEF IInv, InOrder, Orderly
    <3>2. \A u \in Threads : ~Sounds(u)
      BY <3>1 DEF Settled, Command, Listens, InCommand
    <3>3. talk' = FALSE
      BY <1>1, <1>4, <3>1 DEF Waiting, Command, Busy, InCommand
    <3>4. current = NoThread
      BY <3>2 DEF IInv, Shape, TypeOK, Sounds
    <3> QED BY <2>1, <3>2, <3>3, <3>4
  <2> QED BY <1>4, <2>2, <2>3
<1> QED BY <1>1, <1>2, <1>3, <1>4, <1>6, <1>7, <1>8

LEMMA NothingIInv ==
  ASSUME IInv, NEW t \in Threads, Command(t), Nothing(t)
  PROVE  IInv'
<1> USE Members
<1>1. /\ t # App /\ at[t] \in {"none", "report"} /\ t \notin resuming /\ t # current
      /\ raced' \in BOOLEAN /\ talk' \in BOOLEAN /\ paused' \in {Silence, paused}
      /\ paused' # Silence => ~raced /\ ~raced'
  BY CommandFinds
<1>2. ~raced' => /\ \A u \in Threads \ {t} : ~Busy(u)
                /\ \A u \in Threads : ~Sounds(u)
                /\ current = NoThread /\ talk' = FALSE
  BY CommandFinds
<1>3. UNCHANGED <<expected, isResume, urlType, num, pos, withUrl, version, player,
                  current, halt, stopped, talks>>
  BY DEF Nothing, controls, list, engine, Command
<1>4. Flags /\ Places /\ Ranges
  BY TypeParts DEF IInv
<1>5. at' = [at EXCEPT ![t] = "none"] /\ what' = [what EXCEPT ![t] = Silence]
      /\ resuming' = resuming
  BY <1>1, <1>4 DEF Nothing, Returns, Moves, Places
<1>6. /\ \A u \in Threads : at'[u] = IF u = t THEN "none" ELSE at[u]
      /\ \A u \in Threads : what'[u] = IF u = t THEN Silence ELSE what[u]
  BY <1>4, <1>5 DEF Places
<1>7. Item(pos)' = Item(pos)
  BY <1>3 DEF Item
<1>8. TypeOK'
  <2>1. Flags'
    BY <1>1, <1>3, <1>4 DEF Flags
  <2>2. Places'
    BY <1>3, <1>4, <1>5 DEF Places
  <2>3. Ranges'
    BY <1>1, <1>3, <1>4 DEF Ranges
  <2> QED BY <2>1, <2>2, <2>3 DEF TypeOK, Flags, Places, Ranges
<1>9. Shape' /\ PosInList'
  BY <1>1, <1>3, <1>5, <1>6, <1>4 DEF IInv, Shape, PosInList, Places
<1>10. InOrder'
  <2> SUFFICES ASSUME ~raced' PROVE Orderly'
    BY DEF InOrder
  <2>1. Again'
    <3>1. \A u \in resuming : FALSE
      BY <1>1, <1>2, <1>4 DEF IInv, Shape, Places, InFetch, InPlay, Busy, InCommand
    <3> QED BY <1>5, <3>1 DEF Again
  <2> QED BY <1>2, <1>3, <1>6, <2>1, AloneOrderly
        DEF Busy, Sounds, InCommand, InFetch, InPlay
<1>11. PausedItem'
  BY <1>1, <1>3, <1>6, <1>7 DEF IInv, PausedItem, ItemAt, Sounds
<1>12. StopExpected'
  BY <1>1, <1>3, <1>4, <1>6 DEF IInv, StopExpected, Sounds, InPlay, Places
<1> QED BY <1>8, <1>9, <1>10, <1>11, <1>12 DEF IInv

(* A command that picks an item of the list.                                *)
LEMMA ChooseIInv ==
  ASSUME IInv, NEW t \in Threads, Command(t), num > 0,
         NEW n \in (IF at[Cloud] = "parse" THEN 0 ELSE 1) .. num, Choose(t, n),
         ~stopped, paused = Silence
  PROVE  IInv'
<1> USE Members
<1>1. /\ t # App /\ at[t] \in {"none", "report"} /\ t \notin resuming /\ t # current
      /\ raced' \in BOOLEAN /\ talk' \in BOOLEAN /\ paused' = Silence
  BY CommandFinds
<1>2. ~raced' => /\ \A u \in Threads \ {t} : ~Busy(u)
                /\ \A u \in Threads : ~Sounds(u)
                /\ current = NoThread /\ talk' = FALSE
  BY CommandFinds
<1>3. /\ UNCHANGED <<expected, num, withUrl, version, player, current, halt, stopped, talks>>
      /\ pos' = n /\ isResume' = TRUE
  BY DEF Choose, engine, Command
<1>4. Flags /\ Places /\ Ranges
  BY TypeParts DEF IInv
<1>5. resuming' = resuming
  BY <1>1, <1>4 DEF Choose, Places
<1>6. PICK place \in {"ask", "play"} :
        /\ Moves(t, place, Item(n))
        /\ urlType' = IF place = "play" THEN "MEDIA" ELSE urlType
  BY DEF Choose, Fetch
<1>7. n \in 0 .. MaxItems /\ num > 0 /\ Item(n) \in Media /\ Item(pos)' = Item(n)
  BY <1>3, <1>4, AudioAssumption DEF Ranges, Item, Media
<1>8. /\ \A u \in Threads : at'[u] = IF u = t THEN place ELSE at[u]
      /\ \A u \in Threads : what'[u] = IF u = t THEN Item(n) ELSE what[u]
  BY <1>4, <1>6 DEF Places, Moves
<1>9. TypeOK'
  <2>1. Flags'
    BY <1>1, <1>3, <1>4 DEF Flags
  <2>2. Places'
    BY <1>3, <1>4, <1>5, <1>6, <1>7 DEF Places, Moves, InCommand
  <2>3. Ranges'
    BY <1>1, <1>3, <1>4, <1>6, <1>7 DEF Ranges
  <2> QED BY <2>1, <2>2, <2>3 DEF TypeOK, Flags, Places, Ranges
<1>10. Shape' /\ PosInList'
  BY <1>1, <1>3, <1>4, <1>5, <1>7, <1>8 DEF IInv, Shape, PosInList, Places
<1>11. InOrder'
  <2> SUFFICES ASSUME ~raced' PROVE Orderly'
    BY DEF InOrder
  <2>1. Again'
    <3>1. \A u \in resuming : FALSE
      BY <1>1, <1>2, <1>4 DEF IInv, Shape, Places, InFetch, InPlay, Busy, InCommand
    <3> QED BY <1>5, <3>1 DEF Again
  <2>2. \A u \in Threads \ {t} : ~Busy(u)'
    BY <1>2, <1>8 DEF Busy
  <2>3. \A u \in Threads : ~Sounds(u)'
    BY <1>2, <1>3, <1>8 DEF Sounds
  <2>4. at[t]' \in {"report"} \cup InPlay => Matches(t)'
    BY <1>6, <1>7, <1>8, Distinct DEF Matches, InPlay
  <2>5. ItemAt(what[t])'
    BY <1>3, <1>7, <1>8 DEF ItemAt
  <2> QED BY <1>2, <1>3, <2>1, <2>2, <2>3, <2>4, <2>5, AloneOrderly
<1>12. PausedItem' /\ StopExpected'
  BY <1>1, <1>3 DEF PausedItem, StopExpected
<1> QED BY <1>9, <1>10, <1>11, <1>12 DEF IInv

LEMMA ResumeIInv ==
  ASSUME IInv, NEW t \in Threads, Command(t), Resume(t), expected = "RESUME"
  PROVE  IInv'
<1> USE Members
<1>1. CASE num = 0 \/ ~isResume
  BY <1>1, NothingIInv DEF Resume
<1>2. CASE num # 0 /\ isResume
  <2>1. /\ t # App /\ at[t] \in {"none", "report"} /\ t \notin resuming /\ t # current
        /\ raced' \in BOOLEAN /\ talk' \in BOOLEAN /\ paused' \in {Silence, paused}
        /\ paused' # Silence => ~raced /\ ~raced'
    BY CommandFinds
  <2>2. ~raced' => /\ \A u \in Threads \ {t} : ~Busy(u)
                  /\ \A u \in Threads : ~Sounds(u)
                  /\ current = NoThread /\ talk' = FALSE
    BY CommandFinds
  <2>3. /\ UNCHANGED <<expected, isResume, num, pos, withUrl, version, player, current,
                       halt, stopped, talks>>
        /\ urlType' = "MEDIA" /\ resuming' = resuming \cup {t}
    BY <1>2 DEF Resume, list, engine, Command
  <2>4. Flags /\ Places /\ Ranges
    BY TypeParts DEF IInv
  <2>5. PICK place \in {"ask", "play"} : Moves(t, place, Item(pos))
    BY <1>2 DEF Resume, Fetch
  <2>6. pos \in 0 .. MaxItems /\ num > 0 /\ Item(pos) \in Media /\ Item(pos)' = Item(pos)
    BY <1>2, <2>3, <2>4, AudioAssumption DEF IInv, PosInList, Ranges, Item, Media
  <2>7. /\ \A u \in Threads : at'[u] = IF u = t THEN place ELSE at[u]
        /\ \A u \in Threads : what'[u] = IF u = t THEN Item(pos) ELSE what[u]
    BY <2>4, <2>5 DEF Places, Moves
  <2>8. TypeOK'
    <3>1. Flags'
      BY <2>1, <2>3, <2>4 DEF Flags
    <3>2. Places'
      BY <2>3, <2>4, <2>5, <2>6 DEF Places, Moves, InCommand
    <3>3. Ranges'
      BY <2>1, <2>3, <2>4 DEF Ranges
    <3> QED BY <3>1, <3>2, <3>3 DEF TypeOK, Flags, Places, Ranges
  <2>9. Shape' /\ PosInList'
    BY <2>1, <2>3, <2>4, <2>6, <2>7 DEF IInv, Shape, PosInList, Places, InFetch, InPlay
  <2>10. InOrder'
    <3> SUFFICES ASSUME ~raced' PROVE Orderly'
      BY DEF InOrder
    <3>1. Again'
      BY <2>3 DEF Again
    <3>2. \A u \in Threads \ {t} : ~Busy(u)'
      BY <2>2, <2>7 DEF Busy
    <3>3. \A u \in Threads : ~Sounds(u)'
      BY <2>2, <2>3, <2>7 DEF Sounds
    <3>4. Matches(t)'
      BY <2>3, <2>6, <2>7, Distinct DEF Matches
    <3>5. ItemAt(what[t])'
      BY <1>2, <2>3, <2>6, <2>7 DEF ItemAt
    <3> QED BY <2>2, <2>3, <3>1, <3>2, <3>3, <3>4, <3>5, AloneOrderly
  <2>11. PausedItem'
    BY <2>1, <2>3, <2>6, <2>7 DEF IInv, PausedItem, ItemAt, Sounds
  <2>12. StopExpected'
    BY <2>3 DEF IInv, StopExpected
  <2> QED BY <2>8, <2>9, <2>10, <2>11, <2>12 DEF IInv
<1> QED BY <1>1, <1>2 DEF IInv, TypeOK

LEMMA StopMediaIInv ==
  ASSUME IInv, NEW t \in Threads, Command(t), StopMedia(t), expected = "STOP"
  PROVE  IInv'
<1> USE Members
<1>1. /\ t # App /\ at[t] \in {"none", "report"} /\ t \notin resuming /\ t # current
      /\ raced' \in BOOLEAN /\ talk' \in BOOLEAN /\ paused' \in {Silence, paused}
      /\ paused' # Silence => ~raced /\ ~raced'
  BY CommandFinds
<1>2. ~raced' => /\ \A u \in Threads \ {t} : ~Busy(u)
                /\ \A u \in Threads : ~Sounds(u)
                /\ current = NoThread /\ talk' = FALSE
  BY CommandFinds
<1>3. /\ UNCHANGED <<expected, urlType, num, pos, withUrl, version, player, talks>>
      /\ isResume' = FALSE /\ current' = NoThread /\ halt' = TRUE
      /\ stopped' = (stopped \/ ~Overlaps(t))
  BY DEF StopMedia, list, Command
<1>4. Flags /\ Places /\ Ranges
  BY TypeParts DEF IInv
<1>5. at' = [at EXCEPT ![t] = "none"] /\ what' = [what EXCEPT ![t] = Silence]
      /\ resuming' = resuming
  BY <1>1, <1>4 DEF StopMedia, Returns, Moves, Places
<1>6. /\ \A u \in Threads : at'[u] = IF u = t THEN "none" ELSE at[u]
      /\ \A u \in Threads : what'[u] = IF u = t THEN Silence ELSE what[u]
  BY <1>4, <1>5 DEF Places
<1>7. paused' = Silence
  BY <1>1 DEF IInv, PausedItem
<1>8. TypeOK'
  <2>1. stopped' \in BOOLEAN
    BY <1>3, <1>4 DEF Flags, Overlaps
  <2>2. Flags'
    BY <1>1, <1>3, <1>4, <2>1 DEF Flags
  <2>3. Places'
    BY <1>3, <1>4, <1>5 DEF Places
  <2>4. Ranges'
    BY <1>3, <1>4, <1>7 DEF Ranges
  <2> QED BY <2>2, <2>3, <2>4 DEF TypeOK, Flags, Places, Ranges
<1>9. Shape' /\ PosInList'
  BY <1>1, <1>3, <1>4, <1>5, <1>6 DEF IInv, Shape, PosInList, Places
<1>10. InOrder'
  <2> SUFFICES ASSUME ~raced' PROVE Orderly'
    BY DEF InOrder
  <2>1. Again'
    <3>1. \A u \in resuming : FALSE
      BY <1>1, <1>2, <1>4 DEF IInv, Shape, Places, InFetch, InPlay, Busy, InCommand
    <3> QED BY <1>5, <3>1 DEF Again
  <2> QED BY <1>2, <1>3, <1>6, <2>1, AloneOrderly
        DEF Busy, Sounds, InCommand, InFetch, InPlay
<1>11. PausedItem'
  BY <1>7 DEF PausedItem
<1>12. StopExpected'
  <2>1. CASE stopped
    BY <1>3, <1>6, <2>1 DEF IInv, StopExpected, Sounds, InPlay
  <2>2. CASE ~Overlaps(t)
    <3>1. \A u \in Threads \ {t} : ~Busy(u)
      BY <2>2 DEF Overlaps
    <3>2. \A u \in Threads : at'[u] \notin InCommand /\ ~Sounds(u)'
      BY <1>3, <1>6, <3>1 DEF Busy, Sounds, InCommand
    <3> QED BY <1>3, <3>2 DEF StopExpected, InCommand, InPlay
  <2> QED BY <1>3, <2>1, <2>2 DEF StopExpected
<1> QED BY <1>8, <1>9, <1>10, <1>11, <1>12 DEF IInv

(* The next item, when nothing is kept to be resumed.                       *)
LEMMA NextItemIInv ==
  ASSUME IInv, NEW t \in Threads, Command(t), NextItem(t), ~stopped, paused = Silence
  PROVE  IInv'
<1>1. CASE num = 0
  BY <1>1, NothingIInv DEF NextItem
<1>2. CASE num # 0
  <2>1. num \in Nat /\ num > 0 /\ pos \in (IF at[Cloud] = "parse" THEN 0 ELSE 1) .. num
    BY <1>2, AudioAssumption DEF IInv, TypeOK, PosInList
  <2> DEFINE n == IF pos < num THEN pos + 1 ELSE pos
  <2>2. n \in (IF at[Cloud] = "parse" THEN 0 ELSE 1) .. num
    BY <2>1
  <2>3. Choose(t, n)
    BY <1>2 DEF NextItem
  <2> HIDE DEF n
  <2> QED BY <2>1, <2>2, <2>3, ChooseIInv
<1> QED BY <1>1, <1>2

(* The expected command, after speech or without it.                        *)
LEMMA ExpectIInv ==
  ASSUME IInv, NEW t \in Threads, Command(t), Expect(t)
  PROVE  IInv'
<1>1. /\ expected # "STOP" => ~stopped
      /\ expected # "RESUME" => paused = Silence
  BY DEF IInv, StopExpected, PausedItem
<1>2. num # 0 => /\ num \in Nat /\ num > 0
                 /\ pos \in (IF at[Cloud] = "parse" THEN 0 ELSE 1) .. num
  BY AudioAssumption DEF IInv, TypeOK, PosInList
<1>3. CASE expected = "MAX" /\ Nothing(t)
  BY <1>3, NothingIInv
<1>4. CASE expected = "PLAY" /\ Play(t)
  <2>1. CASE num = 0
    BY <1>4, <2>1, NothingIInv DEF Play
  <2>2. CASE num # 0
    <3>1. 1 \in (IF at[Cloud] = "parse" THEN 0 ELSE 1) .. num /\ Choose(t, 1)
      BY <1>2, <1>4, <2>2 DEF Play
    <3> QED BY <1>1, <1>2, <1>4, <2>2, <3>1, ChooseIInv
  <2> QED BY <2>1, <2>2
<1>5. CASE expected = "NEXT" /\ NextItem(t)
  BY <1>1, <1>5, NextItemIInv
<1>6. CASE expected = "PREV" /\ PrevItem(t)
  <2>1. CASE num = 0
    BY <1>6, <2>1, NothingIInv DEF PrevItem
  <2>2. CASE num # 0
    <3> DEFINE n == IF pos > 1 THEN pos - 1 ELSE pos
    <3>1. n \in (IF at[Cloud] = "parse" THEN 0 ELSE 1) .. num
      BY <1>2, <2>2
    <3>2. Choose(t, n)
      BY <1>6, <2>2 DEF PrevItem
    <3> HIDE DEF n
    <3> QED BY <1>1, <1>2, <1>6, <2>2, <3>1, <3>2, ChooseIInv
  <2> QED BY <2>1, <2>2
<1>7. CASE expected = "RESUME" /\ Resume(t)
  BY <1>7, ResumeIInv
<1>8. CASE expected = "STOP" /\ StopMedia(t)
  BY <1>8, StopMediaIInv
<1> QED BY <1>3, <1>4, <1>5, <1>6, <1>7, <1>8 DEF Expect

LEMMA ReportIInv ==
  ASSUME IInv, NEW t \in Threads, Report(t)
  PROVE  IInv'
<1>1. Command(t)
  BY DEF Report, Command, session
<1>2. CASE urlType = "TTS"
  BY <1>1, <1>2, ExpectIInv DEF Report
<1>3. CASE urlType # "TTS"
  <2>1. at[t] = "report" /\ NextItem(t)
    BY <1>3 DEF Report
  <2>2. ~stopped
    BY <1>3, <2>1 DEF IInv, StopExpected
  <2>3. paused = Silence
    <3> SUFFICES ASSUME paused # Silence PROVE FALSE
      OBVIOUS
    <3>1. ~raced /\ what[t] = Speech
      BY <2>1 DEF IInv, PausedItem
    <3>2. Matches(t)
      BY <2>1, <3>1 DEF IInv, InOrder, Orderly, Ends
    <3> QED BY <1>3, <3>1, <3>2 DEF Matches
  <2> QED BY <1>1, <2>1, <2>2, <2>3, NextItemIInv
<1> QED BY <1>2, <1>3

LEMMA NoSpeechIInv == IInv /\ NoSpeech => IInv'
<1> SUFFICES ASSUME IInv, NoSpeech PROVE IInv'
  OBVIOUS
<1>1. Command(Cloud) /\ Expect(Cloud)
  BY DEF NoSpeech, Command
<1> QED BY <1>1, Members, ExpectIInv

LEMMA SpeakIInv == IInv /\ Speak => IInv'
<1> SUFFICES ASSUME IInv, Speak PROVE IInv'
  OBVIOUS
<1> USE Members
<1>1. Command(Cloud) /\ at[Cloud] = "none"
  BY DEF Speak, Command, Listens
<1>2. /\ Cloud \notin resuming /\ Cloud # current
      /\ raced' \in BOOLEAN /\ talk' \in BOOLEAN /\ paused' \in {Silence, paused}
      /\ paused' # Silence => ~raced /\ ~raced'
  BY <1>1, CommandFinds
<1>3. ~raced' => /\ \A u \in Threads \ {Cloud} : ~Busy(u)
                /\ \A u \in Threads : ~Sounds(u)
                /\ current = NoThread /\ talk' = FALSE
  BY <1>1, CommandFinds
<1>4. /\ UNCHANGED <<expected, isResume, num, pos, withUrl, version, player, current, halt,
                     resuming, stopped, talks>>
      /\ urlType' = "TTS"
  BY DEF Speak, list, engine
<1>5. Flags /\ Places /\ Ranges
  BY TypeParts DEF IInv
<1>6. at' = [at EXCEPT ![Cloud] = "play"] /\ what' = [what EXCEPT ![Cloud] = Speech]
  BY DEF Speak, Moves
<1>7. /\ \A u \in Threads : at'[u] = IF u = Cloud THEN "play" ELSE at[u]
      /\ \A u \in Threads : what'[u] = IF u = Cloud THEN Speech ELSE what[u]
  BY <1>5, <1>6 DEF Places
<1>8. Item(pos)' = Item(pos)
  BY <1>4 DEF Item
<1>9. TypeOK'
  <2>1. Flags'
    BY <1>2, <1>4, <1>5 DEF Flags
  <2>2. Places'
    BY <1>4, <1>5, <1>6 DEF Places, InCommand
  <2>3. Ranges'
    BY <1>2, <1>4, <1>5 DEF Ranges
  <2> QED BY <2>1, <2>2, <2>3 DEF TypeOK, Flags, Places, Ranges
<1>10. Shape' /\ PosInList'
  BY <1>1, <1>2, <1>4, <1>5, <1>7 DEF IInv, Shape, PosInList, Places
<1>11. InOrder'
  <2> SUFFICES ASSUME ~raced' PROVE Orderly'
    BY DEF InOrder
  <2>1. Again'
    <3>1. \A u \in resuming : FALSE
      BY <1>2, <1>3, <1>5 DEF IInv, Shape, Places, InFetch, InPlay, Busy, InCommand
    <3> QED BY <1>4, <3>1 DEF Again
  <2>2. \A u \in Threads \ {Cloud} : ~Busy(u)'
    BY <1>3, <1>7 DEF Busy
  <2>3. \A u \in Threads : ~Sounds(u)'
    BY <1>3, <1>4, <1>7 DEF Sounds
  <2>4. Matches(Cloud)' /\ ItemAt(what[Cloud])'
    BY <1>4, <1>7, Distinct DEF Matches, ItemAt
  <2> QED BY <1>3, <1>4, <2>1, <2>2, <2>3, <2>4, AloneOrderly
<1>12. PausedItem'
  BY <1>2, <1>4, <1>7, <1>8 DEF IInv, PausedItem, ItemAt, Sounds
<1>13. StopExpected'
  BY <1>2, <1>4, <1>5, <1>7 DEF IInv, StopExpected, Sounds, InPlay, Places
<1> QED BY <1>9, <1>10, <1>11, <1>12, <1>13 DEF IInv

-----------------------------------------------------------------------------
(* The steps of a command after the first, and the play thread's.           *)

LEMMA GoesFinds ==
  ASSUME IInv, NEW t \in Threads, NEW kept, Goes(t, kept)
  PROVE  /\ raced' \in BOOLEAN /\ paused' = IF raced' THEN Silence ELSE kept
         /\ ~raced' => /\ ~raced /\ Orderly
                       /\ \A u \in Threads \ {t} : ~Busy(u)
<1>1. raced \in BOOLEAN
  BY DEF IInv, TypeOK
<1>2. raced' = (raced \/ Overlaps(t)) /\ paused' = IF raced' THEN Silence ELSE kept
  BY DEF Goes, Races
<1> QED BY <1>1, <1>2 DEF Overlaps, IInv, InOrder

(* A command in the middle finds nothing that sounds.                       *)
LEMMA GoesQuiet ==
  ASSUME IInv, NEW t \in Threads, NEW kept, Goes(t, kept), at[t] \in InFetch
  PROVE  ~raced' => /\ \A u \in Threads : ~Sounds(u)
                    /\ current = NoThread
                    /\ talk => t = App
<1> SUFFICES ASSUME ~raced'
             PROVE  /\ \A u \in Threads : ~Sounds(u)
                    /\ current = NoThread
                    /\ talk => t = App
  OBVIOUS
<1>1. Settled /\ Waiting
  BY GoesFinds DEF Orderly
<1>2. at[t] \in InCommand \ {"note"} /\ Busy(t)
  BY DEF InFetch, InPlay, InCommand, Busy
<1>3. \A u \in Threads : ~Sounds(u)
  BY <1>1, <1>2 DEF Settled
<1>4. current = NoThread
  BY <1>3, Members DEF IInv, Shape, TypeOK, Sounds
<1>5. talk => t = App
  BY <1>1, <1>2 DEF Waiting, InFetch, InPlay
<1> QED BY <1>3, <1>4, <1>5

LEMMA AnsweredIInv ==
  ASSUME IInv, NEW t \in Threads, Answered(t)
  PROVE  IInv'
<1> USE Members
<1>1. at[t] = "ask" /\ at' = [at EXCEPT ![t] = "play"] /\ Goes(t, paused)
  BY DEF Answered
<1>2. /\ raced' \in BOOLEAN /\ paused' = IF raced' THEN Silence ELSE paused
      /\ ~raced' => /\ ~raced /\ Orderly
                    /\ \A u \in Threads \ {t} : ~Busy(u)
  BY <1>1, GoesFinds
<1>3. ~raced' => (\A u \in Threads : ~Sounds(u)) /\ current = NoThread /\ (talk => t = App)
  BY <1>1, GoesQuiet DEF InFetch
<1>4. /\ UNCHANGED <<isResume, num, pos, withUrl, version, player, current, halt, what,
                     resuming, talk, talks, stopped>>
      /\ urlType' = "MEDIA" /\ expected' = IF t \in resuming THEN "RESUME" ELSE expected
  BY DEF Answered, list, engine, session
<1>5. Flags /\ Places /\ Ranges
  BY TypeParts DEF IInv
<1>6. \A u \in Threads : at'[u] = IF u = t THEN "play" ELSE at[u]
  BY <1>1, <1>5 DEF Places
<1>7. Item(pos)' = Item(pos)
  BY <1>4 DEF Item
<1>8. TypeOK'
  <2>1. Flags'
    BY <1>2, <1>4, <1>5 DEF Flags
  <2>2. Places'
    BY <1>1, <1>4, <1>5 DEF Places, InCommand
  <2>3. Ranges'
    BY <1>2, <1>4, <1>5 DEF Ranges, Expected, Instruction
  <2> QED BY <2>1, <2>2, <2>3 DEF TypeOK, Flags, Places, Ranges
<1>9. Shape' /\ PosInList'
  BY <1>1, <1>4, <1>5, <1>6 DEF IInv, Shape, PosInList, Places, InFetch, InPlay
<1>10. InOrder'
  <2> SUFFICES ASSUME ~raced' PROVE Orderly'
    BY DEF InOrder
  <2>1. \A u \in resuming : u = t
    BY <1>2, <1>5 DEF IInv, Shape, Places, InFetch, InPlay, Busy, InCommand
  <2>2. Again'
    BY <1>4, <2>1 DEF Again
  <2>3. \A u \in Threads \ {t} : ~Busy(u)'
    BY <1>2, <1>6 DEF Busy
  <2>4. \A u \in Threads : ~Sounds(u)'
    BY <1>3, <1>4, <1>6 DEF Sounds
  <2>5. ItemAt(what[t]) /\ what[t] \in Media
    BY <1>1, <1>2 DEF IInv, Shape, Orderly, Items, InFetch
  <2>6. Matches(t)' /\ ItemAt(what[t])'
    BY <1>4, <1>7, <2>5, Distinct DEF Matches, ItemAt
  <2> QED BY <1>3, <1>4, <2>2, <2>3, <2>4, <2>6, AloneOrderly
<1>11. PausedItem'
  BY <1>1, <1>2, <1>4, <1>6, <1>7 DEF IInv, PausedItem, ItemAt, Sounds
<1>12. StopExpected'
  BY <1>1, <1>4 DEF IInv, StopExpected
<1> QED BY <1>8, <1>9, <1>10, <1>11, <1>12 DEF IInv

LEMMA NotFoundIInv ==
  ASSUME IInv, NEW t \in Threads, NotFound(t)
  PROVE  IInv'
<1> USE Members
<1>1. at[t] = "ask" /\ Returns(t) /\ Goes(t, paused)
  BY DEF NotFound
<1>2. /\ raced' \in BOOLEAN /\ paused' = IF raced' THEN Silence ELSE paused
      /\ ~raced' => /\ ~raced /\ Orderly
                    /\ \A u \in Threads \ {t} : ~Busy(u)
  BY <1>1, GoesFinds
<1>3. ~raced' => (\A u \in Threads : ~Sounds(u)) /\ current = NoThread /\ (talk => t = App)
  BY <1>1, GoesQuiet DEF InFetch
<1>4. UNCHANGED <<expected, isResume, urlType, num, pos, withUrl, version, player, current,
                  halt, talk, talks, stopped>>
  BY DEF NotFound, controls, list, engine, session
<1>5. Flags /\ Places /\ Ranges
  BY TypeParts DEF IInv
<1>6. at' = [at EXCEPT ![t] = "none"] /\ what' = [what EXCEPT ![t] = Silence]
      /\ resuming' = resuming \ {t}
  BY <1>1 DEF Returns, Moves
<1>7. /\ \A u \in Threads : at'[u] = IF u = t THEN "none" ELSE at[u]
      /\ \A u \in Threads : what'[u] = IF u = t THEN Silence ELSE what[u]
  BY <1>5, <1>6 DEF Places
<1>8. Item(pos)' = Item(pos)
  BY <1>4 DEF Item
<1>9. TypeOK'
  <2>1. Flags'
    BY <1>2, <1>4, <1>5 DEF Flags
  <2>2. Places'
    BY <1>4, <1>5, <1>6 DEF Places
  <2>3. Ranges'
    BY <1>2, <1>4, <1>5 DEF Ranges
  <2> QED BY <2>1, <2>2, <2>3 DEF TypeOK, Flags, Places, Ranges
<1>10. Shape' /\ PosInList'
  BY <1>1, <1>4, <1>5, <1>6, <1>7 DEF IInv, Shape, PosInList, Places
<1>11. InOrder'
  <2> SUFFICES ASSUME ~raced' PROVE Orderly'
    BY DEF InOrder
  <2>1. Again'
    BY <1>2, <1>4, <1>6 DEF Orderly, Again
  <2> QED BY <1>2, <1>3, <1>4, <1>7, <2>1, AloneOrderly
        DEF Busy, Sounds, InCommand, InFetch, InPlay
<1>12. PausedItem'
  BY <1>1, <1>2, <1>4, <1>7, <1>8 DEF IInv, PausedItem, ItemAt, Sounds
<1>13. StopExpected'
  BY <1>1, <1>4 DEF IInv, StopExpected
<1> QED BY <1>9, <1>10, <1>11, <1>12, <1>13 DEF IInv

LEMMA HaltIInv ==
  ASSUME IInv, NEW t \in Threads, Halt(t)
  PROVE  IInv'
<1> USE Members
<1>1. at[t] = "play" /\ at' = [at EXCEPT ![t] = "begin"] /\ Goes(t, paused)
  BY DEF Halt
<1>2. /\ raced' \in BOOLEAN /\ paused' = IF raced' THEN Silence ELSE paused
      /\ ~raced' => /\ ~raced /\ Orderly
                    /\ \A u \in Threads \ {t} : ~Busy(u)
  BY <1>1, GoesFinds
<1>3. ~raced' => (\A u \in Threads : ~Sounds(u)) /\ current = NoThread /\ (talk => t = App)
  BY <1>1, GoesQuiet DEF InFetch, InPlay
<1>4. /\ UNCHANGED <<expected, isResume, urlType, num, pos, withUrl, version, player, what,
                     resuming, talk, talks, stopped>>
      /\ current' = NoThread /\ halt' = TRUE
  BY DEF Halt, controls, list, session
<1>5. Flags /\ Places /\ Ranges
  BY TypeParts DEF IInv
<1>6. \A u \in Threads : at'[u] = IF u = t THEN "begin" ELSE at[u]
  BY <1>1, <1>5 DEF Places
<1>7. Item(pos)' = Item(pos)
  BY <1>4 DEF Item
<1>8. TypeOK'
  <2>1. Flags'
    BY <1>2, <1>4, <1>5 DEF Flags
  <2>2. Places'
    BY <1>1, <1>4, <1>5 DEF Places, InCommand
  <2>3. Ranges'
    BY <1>2, <1>4, <1>5 DEF Ranges
  <2> QED BY <2>1, <2>2, <2>3 DEF TypeOK, Flags, Places, Ranges
<1>9. Shape' /\ PosInList'
  BY <1>1, <1>4, <1>5, <1>6 DEF IInv, Shape, PosInList, Places, InFetch, InPlay
<1>10. InOrder'
  <2> SUFFICES ASSUME ~raced' PROVE Orderly'
    BY DEF InOrder
  <2>1. Again'
    BY <1>2, <1>4 DEF Orderly, Again
  <2>2. \A u \in Threads \ {t} : ~Busy(u)'
    BY <1>2, <1>6 DEF Busy
  <2>3. \A u \in Threads : ~Sounds(u)'
    BY <1>4 DEF Sounds
  <2>4. Matches(t) /\ ItemAt(what[t])
    BY <1>1, <1>2 DEF Orderly, Items, Ends, InFetch, InPlay
  <2>5. Matches(t)' /\ ItemAt(what[t])'
    BY <1>4, <1>7, <2>4 DEF Matches, ItemAt
  <2> QED BY <1>3, <1>4, <2>1, <2>2, <2>3, <2>5, AloneOrderly
<1>11. PausedItem'
  BY <1>1, <1>2, <1>4, <1>6, <1>7 DEF IInv, PausedItem, ItemAt, Sounds
<1>12. StopExpected'
  BY <1>1, <1>4, <1>6 DEF IInv, StopExpected, Sounds, InPlay
<1> QED BY <1>8, <1>9, <1>10, <1>11, <1>12 DEF IInv

LEMMA StartIInv ==
  ASSUME IInv, NEW t \in Threads, NEW u \in PlayThreads, Start(t, u)
  PROVE  IInv'
<1> USE Members
<1> DEFINE place == IF what[t] = Speech \/ t \in resuming THEN "none" ELSE "note"
<1>1. /\ at[t] = "begin" /\ at[u] = "none" /\ t # u /\ u \notin resuming
      /\ current' = u /\ halt' = FALSE
      /\ at' = [at EXCEPT ![u] = "song", ![t] = place]
      /\ what' = [what EXCEPT ![u] = what[t], ![t] = Silence]
      /\ resuming' = resuming \ {t}
  BY DEF Start, IInv, Shape, InFetch, InPlay
<1>2. UNCHANGED <<expected, isResume, urlType, num, pos, withUrl, version, player,
                  talk, talks, stopped>>
  BY DEF Start, controls, list, session
<1>3. /\ raced' = (raced \/ Overlaps(t) \/ SongLeft)
      /\ paused' = IF raced' \/ what[t] # Speech THEN Silence ELSE paused
  BY DEF Start, Races
<1>4. Flags /\ Places /\ Ranges
  BY TypeParts DEF IInv
<1>5. place \in {"none", "note"} /\ (what[t] = Speech => place = "none")
  OBVIOUS
<1>6. place = "none" => what[t] = Speech \/ t \in resuming
  OBVIOUS
<1> HIDE DEF place
<1>7. /\ \A v \in Threads :
           at'[v] = IF v = t THEN place ELSE IF v = u THEN "song" ELSE at[v]
      /\ \A v \in Threads :
           what'[v] = IF v = t THEN Silence ELSE IF v = u THEN what[t] ELSE what[v]
  BY <1>1, <1>4 DEF Places
<1>8. Item(pos)' = Item(pos)
  BY <1>2 DEF Item
<1>9. ~raced' => /\ ~raced /\ Orderly
                /\ (\A v \in Threads \ {t} : ~Busy(v))
                /\ (\A v \in Threads : at[v] # "song")
  BY <1>3 DEF IInv, InOrder, Overlaps, SongLeft, Shape
<1>10. TypeOK'
  <2>1. raced' \in BOOLEAN
    BY <1>3, <1>4 DEF Flags, Overlaps, SongLeft
  <2>2. Flags'
    BY <1>1, <1>2, <1>4, <2>1 DEF Flags
  <2>3. Places'
    BY <1>1, <1>4, <1>5 DEF Places, InCommand
  <2>4. Ranges'
    BY <1>2, <1>3, <1>4 DEF Ranges
  <2> QED BY <2>2, <2>3, <2>4 DEF TypeOK, Flags, Places, Ranges
<1>11. t # App
  BY <1>1 DEF IInv, Shape
<1>12. Shape' /\ PosInList'
  BY <1>1, <1>2, <1>4, <1>5, <1>7, <1>11 DEF IInv, Shape, PosInList, Places
<1>13. InOrder'
  <2> SUFFICES ASSUME ~raced' PROVE Orderly'
    BY DEF InOrder
  <2>1. \A v \in Threads \ {t} : ~Busy(v) /\ ~Busy(v)' /\ (Sounds(v)' => v = u)
    BY <1>7, <1>9 DEF Busy, Sounds, InCommand
  <2>2. ~Sounds(t)' /\ at'[t] \in {"none", "note"}
    BY <1>5, <1>7 DEF Sounds
  <2>3. ~talk
    BY <1>1, <1>4, <1>9, <1>11 DEF Orderly, Waiting, Busy, InCommand, Flags
  <2>4. Matches(t) /\ ItemAt(what[t]) /\ (t \in resuming => expected = "RESUME")
    BY <1>1, <1>9 DEF Orderly, Ends, Items, Again, InFetch, InPlay
  <2>5. Alone' /\ OneSong' /\ Waiting'
    BY <1>2, <2>1, <2>2, <2>3 DEF Alone, OneSong, Waiting
  <2>6. \A v \in Threads : at'[v] \notin InCommand \ {"note"}
    BY <2>1, <2>2 DEF Busy, InCommand
  <2>7. Settled'
    BY <1>2, <2>3, <2>6 DEF Settled
  <2>8. Ends'
    <3>1. Matches(u)'
      BY <1>1, <1>2, <1>7, <2>4 DEF Matches
    <3> QED BY <2>1, <2>2, <2>6, <3>1 DEF Ends, InCommand, InPlay
  <2>9. Items'
    BY <2>6 DEF Items, InFetch, InPlay, InCommand
  <2>10. Again'
    BY <1>1, <1>2, <1>9 DEF Orderly, Again
  <2>11. Plays'
    <3>1. what[current]' = what[t] /\ ItemAt(what[current])'
      BY <1>1, <1>2, <1>7, <1>8, <2>4 DEF ItemAt
    <3>2. CASE place = "note"
      BY <1>7, <3>1, <3>2 DEF Plays
    <3>3. CASE place = "none"
      BY <1>2, <1>6, <2>4, <3>1, <3>3, Distinct DEF Plays
    <3> QED BY <1>5, <3>2, <3>3
  <2> QED BY <2>5, <2>7, <2>8, <2>9, <2>10, <2>11 DEF Orderly
<1>14. PausedItem'
  <2> SUFFICES ASSUME paused' # Silence PROVE PausedItem'
    BY DEF PausedItem
  <2>1. ~raced' /\ what[t] = Speech /\ paused' = paused
    BY <1>3, <1>10 DEF TypeOK
  <2>2. \A v \in Threads : Sounds(v)' \/ at'[v] = "report" => v = u
    BY <1>5, <1>7, <1>9, <2>1 DEF Sounds, Busy, InCommand
  <2> QED BY <1>1, <1>2, <1>7, <1>8, <2>1, <2>2 DEF IInv, PausedItem, ItemAt
<1>15. StopExpected'
  <2> SUFFICES ASSUME stopped PROVE StopExpected'
    BY <1>2 DEF StopExpected
  <2>1. what[t] = Speech /\ urlType = "TTS"
    BY <1>1 DEF IInv, StopExpected, InPlay
  <2>2. \A v \in Threads : at'[v] \notin {"ask", "note"}
    BY <1>5, <1>7, <2>1 DEF IInv, StopExpected
  <2>3. \A v \in Threads : at'[v] \in InPlay => what'[v] = Speech
    BY <1>5, <1>7 DEF IInv, StopExpected, InPlay
  <2>4. what'[u] = Speech
    BY <1>1, <1>7, <2>1
  <2> QED BY <1>1, <1>2, <2>1, <2>2, <2>3, <2>4 DEF IInv, StopExpected
<1> QED BY <1>10, <1>12, <1>13, <1>14, <1>15 DEF IInv

LEMMA NoStartIInv ==
  ASSUME IInv, NEW t \in Threads, NoStart(t)
  PROVE  IInv'
<1> USE Members
<1> DEFINE place == IF what[t] = Speech \/ t \in resuming THEN "none" ELSE "note"
           kept == IF what[t] = Speech THEN paused ELSE Silence
<1>1. /\ at[t] = "begin" /\ Goes(t, kept)
      /\ at' = [at EXCEPT ![t] = place] /\ what' = [what EXCEPT ![t] = Silence]
      /\ resuming' = resuming \ {t}
  BY DEF NoStart
<1>2. UNCHANGED <<expected, isResume, urlType, num, pos, withUrl, version, player, current,
                  halt, talk, talks, stopped>>
  BY DEF NoStart, controls, list, engine, session
<1>3. place \in {"none", "note"} /\ (what[t] = Speech => place = "none")
      /\ kept \in {Silence, paused}
  OBVIOUS
<1> HIDE DEF place, kept
<1>4. /\ raced' \in BOOLEAN /\ paused' = IF raced' THEN Silence ELSE kept
      /\ ~raced' => /\ ~raced /\ Orderly
                    /\ \A u \in Threads \ {t} : ~Busy(u)
  BY <1>1, GoesFinds
<1>5. ~raced' => (\A u \in Threads : ~Sounds(u)) /\ current = NoThread /\ (talk => t = App)
  BY <1>1, GoesQuiet DEF InFetch, InPlay
<1>6. Flags /\ Places /\ Ranges
  BY TypeParts DEF IInv
<1>7. /\ \A u \in Threads : at'[u] = IF u = t THEN place ELSE at[u]
      /\ \A u \in Threads : what'[u] = IF u = t THEN Silence ELSE what[u]
  BY <1>1, <1>6 DEF Places
<1>8. Item(pos)' = Item(pos)
  BY <1>2 DEF Item
<1>9. TypeOK'
  <2>1. Flags'
    BY <1>2, <1>4, <1>6 DEF Flags
  <2>2. Places'
    BY <1>1, <1>2, <1>3, <1>6 DEF Places, InCommand
  <2>3. Ranges'
    BY <1>2, <1>3, <1>4, <1>6 DEF Ranges
  <2> QED BY <2>1, <2>2, <2>3 DEF TypeOK, Flags, Places, Ranges
<1>10. Shape' /\ PosInList'
  BY <1>1, <1>2, <1>3, <1>6, <1>7 DEF IInv, Shape, PosInList, Places
<1>11. InOrder'
  <2> SUFFICES ASSUME ~raced' PROVE Orderly'
    BY DEF InOrder
  <2>1. Again'
    BY <1>1, <1>2, <1>4 DEF Orderly, Again
  <2>2. \A u \in Threads \ {t} : ~Busy(u)'
    BY <1>4, <1>7 DEF Busy
  <2>3. \A u \in Threads : ~Sounds(u)'
    BY <1>2, <1>3, <1>5, <1>7 DEF Sounds
  <2>4. at[t]' \notin {"report"} \cup InFetch
    BY <1>3, <1>7 DEF InFetch, InPlay
  <2> QED BY <1>2, <1>5, <2>1, <2>2, <2>3, <2>4, AloneOrderly DEF InFetch
<1>12. PausedItem'
  BY <1>1, <1>2, <1>3, <1>4, <1>7, <1>8 DEF IInv, PausedItem, ItemAt, Sounds
<1>13. StopExpected'
  BY <1>1, <1>2, <1>3, <1>6, <1>7 DEF IInv, StopExpected, Sounds, InPlay, Shape, Places
<1> QED BY <1>9, <1>10, <1>11, <1>12, <1>13 DEF IInv

LEMMA NoteIInv ==
  ASSUME IInv, NEW t \in Threads, Note(t)
  PROVE  IInv'
<1> USE Members
<1>1. at[t] = "note" /\ Goes(t, paused) /\ at' = [at EXCEPT ![t] = "none"]
      /\ expected' = "RESUME"
  BY DEF Note
<1>2. UNCHANGED <<isResume, urlType, num, pos, withUrl, version, player, current, halt, what,
                  resuming, talk, talks, stopped>>
  BY DEF Note, list, engine, session
<1>3. /\ raced' \in BOOLEAN /\ paused' = IF raced' THEN Silence ELSE paused
      /\ ~raced' => /\ ~raced /\ Orderly
                    /\ \A u \in Threads \ {t} : ~Busy(u)
  BY <1>1, GoesFinds
<1>4. Flags /\ Places /\ Ranges
  BY TypeParts DEF IInv
<1>5. \A u \in Threads : at'[u] = IF u = t THEN "none" ELSE at[u]
  BY <1>1, <1>4 DEF Places
<1>6. Item(pos)' = Item(pos)
  BY <1>2 DEF Item
<1>7. TypeOK'
  <2>1. Flags'
    BY <1>2, <1>3, <1>4 DEF Flags
  <2>2. Places'
    BY <1>1, <1>2, <1>4 DEF Places
  <2>3. Ranges'
    BY <1>1, <1>2, <1>3, <1>4 DEF Ranges, Expected, Instruction
  <2> QED BY <2>1, <2>2, <2>3 DEF TypeOK, Flags, Places, Ranges
<1>8. Shape' /\ PosInList'
  BY <1>1, <1>2, <1>4, <1>5 DEF IInv, Shape, PosInList, Places, InFetch, InPlay
<1>9. \A u \in Threads : Sounds(u)' <=> Sounds(u)
  BY <1>1, <1>2, <1>5 DEF Sounds
<1>10. InOrder'
  <2> SUFFICES ASSUME ~raced' PROVE Orderly'
    BY DEF InOrder
  <2>1. \A u \in Threads : at'[u] \notin InCommand
    BY <1>3, <1>5 DEF Busy, InCommand
  <2>2. Alone' /\ Waiting' /\ Items'
    BY <2>1 DEF Alone, Waiting, Items, Busy, InFetch, InPlay, InCommand
  <2>3. OneSong'
    BY <1>3, <1>9 DEF Orderly, OneSong
  <2>4. Settled'
    BY <1>2, <1>3, <1>9, <2>1 DEF Orderly, Settled
  <2>5. Ends'
    BY <1>2, <1>3, <1>9, <2>1 DEF Orderly, Ends, Matches, InCommand, InPlay
  <2>6. Again' /\ Plays'
    BY <1>1, <1>2, <1>3, <1>6 DEF Orderly, Again, Plays, ItemAt
  <2> QED BY <2>2, <2>3, <2>4, <2>5, <2>6 DEF Orderly
<1>11. PausedItem'
  BY <1>1, <1>2, <1>3, <1>5, <1>6 DEF IInv, PausedItem, ItemAt, Sounds
<1>12. StopExpected'
  BY <1>1, <1>2 DEF IInv, StopExpected
<1> QED BY <1>7, <1>8, <1>10, <1>11, <1>12 DEF IInv

LEMMA SongEndsIInv == IInv /\ SongEnds => IInv'
<1> SUFFICES ASSUME IInv, SongEnds PROVE IInv'
  OBVIOUS
<1> USE Members
<1>1. current \in Threads /\ Goes(current, paused) /\ current' = NoThread
  BY DEF SongEnds, IInv, TypeOK
<1>2. UNCHANGED <<expected, isResume, urlType, num, pos, withUrl, version, player, halt,
                  at, what, resuming, talk, talks, stopped>>
  BY DEF SongEnds, controls, list, threads, session
<1>3. /\ raced' \in BOOLEAN /\ paused' = IF raced' THEN Silence ELSE paused
      /\ ~raced' => ~raced /\ Orderly
  BY <1>1, GoesFinds
<1>4. Flags /\ Places /\ Ranges
  BY TypeParts DEF IInv
<1>5. Item(pos)' = Item(pos)
  BY <1>2 DEF Item
<1>6. TypeOK'
  <2>1. Flags'
    BY <1>2, <1>3, <1>4 DEF Flags
  <2>2. Places'
    BY <1>1, <1>2, <1>4 DEF Places
  <2>3. Ranges'
    BY <1>2, <1>3, <1>4 DEF Ranges
  <2> QED BY <2>1, <2>2, <2>3 DEF TypeOK, Flags, Places, Ranges
<1>7. Shape' /\ PosInList'
  BY <1>1, <1>2 DEF IInv, Shape, PosInList
<1>8. InOrder'
  <2> SUFFICES ASSUME ~raced' PROVE Orderly'
    BY DEF InOrder
  <2>1. Alone' /\ OneSong' /\ Settled' /\ Waiting'
    BY <1>2, <1>3 DEF Orderly, Alone, OneSong, Settled, Waiting, Busy, Sounds
  <2>2. Ends' /\ Items' /\ Again' /\ Plays'
    BY <1>1, <1>2, <1>3, <1>5
       DEF Orderly, Ends, Items, Again, Plays, Matches, ItemAt, Sounds
  <2> QED BY <2>1, <2>2 DEF Orderly
<1>9. PausedItem' /\ StopExpected'
  BY <1>1, <1>2, <1>3, <1>5 DEF IInv, PausedItem, StopExpected, ItemAt, Sounds
<1> QED BY <1>6, <1>7, <1>8, <1>9 DEF IInv

(* The stop flag is set: the thread ends.                                   *)
LEMMA TestHaltedIInv ==
  ASSUME IInv, NEW t \in Threads, Test(t), halt
  PROVE  IInv'
<1> USE Members
<1>1. at[t] = "song" /\ Returns(t)
  BY DEF Test, Left
<1>2. UNCHANGED <<expected, isResume, urlType, num, pos, withUrl, version, player, current,
                  halt, talk, talks, stopped, paused, raced>>
  BY DEF Test, controls, list, engine, session
<1>3. current = NoThread
  BY DEF IInv, Shape
<1>4. Flags /\ Places /\ Ranges
  BY TypeParts DEF IInv
<1>5. at' = [at EXCEPT ![t] = "none"] /\ what' = [what EXCEPT ![t] = Silence]
      /\ resuming' = resuming \ {t}
  BY <1>1 DEF Returns, Moves
<1>6. /\ \A u \in Threads : at'[u] = IF u = t THEN "none" ELSE at[u]
      /\ \A u \in Threads : what'[u] = IF u = t THEN Silence ELSE what[u]
  BY <1>4, <1>5 DEF Places
<1>7. Item(pos)' = Item(pos)
  BY <1>2 DEF Item
<1>8. TypeOK'
  <2>1. Flags'
    BY <1>2, <1>4 DEF Flags
  <2>2. Places'
    BY <1>2, <1>4, <1>5 DEF Places
  <2>3. Ranges'
    BY <1>2, <1>4 DEF Ranges
  <2> QED BY <2>1, <2>2, <2>3 DEF TypeOK, Flags, Places, Ranges
<1>9. Shape' /\ PosInList'
  BY <1>1, <1>2, <1>3, <1>4, <1>5, <1>6 DEF IInv, Shape, PosInList, Places
<1>10. \A u \in Threads : ~Sounds(u)' /\ (Busy(u)' => Busy(u))
  BY <1>2, <1>6 DEF Sounds, Busy, InCommand
<1>11. InOrder'
  <2> SUFFICES ASSUME ~raced, ~raced' PROVE Orderly'
    BY <1>2 DEF InOrder
  <2>1. Orderly
    BY DEF IInv, InOrder
  <2>2. Alone' /\ OneSong' /\ Settled'
    BY <1>2, <1>10, <2>1 DEF Orderly, Alone, OneSong, Settled
  <2>5. Waiting'
    BY <1>2, <1>6, <2>1 DEF Orderly, Waiting, Busy, InCommand
  <2>3. Ends'
    BY <1>2, <1>6, <1>10, <2>1 DEF Orderly, Ends, Matches, InPlay
  <2>4. Items' /\ Again' /\ Plays'
    BY <1>2, <1>3, <1>5, <1>6, <1>7, <2>1
       DEF Orderly, Items, Again, Plays, ItemAt, InFetch, InPlay
  <2> QED BY <2>1, <2>2, <2>3, <2>4, <2>5 DEF Orderly
<1>12. PausedItem'
  BY <1>2, <1>6, <1>7, <1>10 DEF IInv, PausedItem, ItemAt
<1>13. StopExpected'
  BY <1>2, <1>3, <1>6, <1>10 DEF IInv, StopExpected, InPlay
<1> QED BY <1>8, <1>9, <1>11, <1>12, <1>13 DEF IInv

(* It is not: PLAY_END.                                                     *)
LEMMA TestPlayedIInv ==
  ASSUME IInv, NEW t \in Threads, Test(t), ~halt
  PROVE  IInv'
<1> USE Members
<1>1. /\ at[t] = "song" /\ t # current /\ t \in PlayThreads /\ Sounds(t)
      /\ Goes(t, paused) /\ Moves(t, "report", what[t])
  BY DEF Test, Left, Sounds
<1>2. UNCHANGED <<expected, isResume, urlType, num, pos, withUrl, version, player, current,
                  halt, resuming, talk, talks, stopped>>
  BY DEF Test, controls, list, engine, session
<1>3. /\ raced' \in BOOLEAN /\ paused' = IF raced' THEN Silence ELSE paused
      /\ ~raced' => /\ ~raced /\ Orderly
                    /\ \A u \in Threads \ {t} : ~Busy(u)
  BY <1>1, GoesFinds
<1>4. Flags /\ Places /\ Ranges
  BY TypeParts DEF IInv
<1>5. at' = [at EXCEPT ![t] = "report"] /\ what' = what
  BY <1>1, <1>4 DEF Moves, Places
<1>6. \A u \in Threads : at'[u] = IF u = t THEN "report" ELSE at[u]
  BY <1>4, <1>5 DEF Places
<1>7. Item(pos)' = Item(pos)
  BY <1>2 DEF Item
<1>8. TypeOK'
  <2>1. Flags'
    BY <1>2, <1>3, <1>4 DEF Flags
  <2>2. Places'
    BY <1>2, <1>4, <1>5 DEF Places, InCommand
  <2>3. Ranges'
    BY <1>2, <1>3, <1>4 DEF Ranges
  <2> QED BY <2>1, <2>2, <2>3 DEF TypeOK, Flags, Places, Ranges
<1>9. Shape' /\ PosInList'
  BY <1>1, <1>2, <1>4, <1>5, <1>6 DEF IInv, Shape, PosInList, Places, InFetch, InPlay
<1>10. InOrder'
  <2> SUFFICES ASSUME ~raced' PROVE Orderly'
    BY DEF InOrder
  <2>1. \A u \in Threads \ {t} : ~Busy(u)' /\ ~Sounds(u)
    BY <1>1, <1>3, <1>6 DEF Orderly, OneSong, Busy
  <2>2. \A u \in Threads : ~Sounds(u)'
    BY <1>2, <1>6, <2>1 DEF Sounds
  <2>3. current = NoThread
    BY <1>1, <1>4, <2>1 DEF IInv, Shape, Places, Sounds
  <2>4. ~talk
    BY <1>1, <1>3 DEF Orderly, Settled
  <2>5. Matches(t)'
    BY <1>1, <1>2, <1>3, <1>5 DEF Orderly, Ends, Matches
  <2>6. Again' /\ at[t]' \notin InFetch
    BY <1>2, <1>3, <1>6 DEF Orderly, Again, InFetch, InPlay
  <2> QED BY <1>2, <2>1, <2>2, <2>3, <2>4, <2>5, <2>6, AloneOrderly
<1>11. PausedItem'
  BY <1>1, <1>2, <1>3, <1>5, <1>6, <1>7 DEF IInv, PausedItem, ItemAt, Sounds
<1>12. StopExpected'
  BY <1>1, <1>2, <1>5, <1>6 DEF IInv, StopExpected, Sounds, InPlay
<1> QED BY <1>8, <1>9, <1>10, <1>11, <1>12 DEF IInv

-----------------------------------------------------------------------------
(* A session.                                                               *)

LEMMA PauseIInv == IInv /\ Pause => IInv'
<1> SUFFICES ASSUME IInv, Pause PROVE IInv'
  OBVIOUS
<1> USE Members
<1> DEFINE kept == IF Playing \in Media THEN Playing ELSE paused
<1>1. /\ at[App] = "none" /\ at' = [at EXCEPT ![App] = "start"] /\ Goes(App, kept)
      /\ current' = NoThread /\ halt' = TRUE
  BY DEF Pause
<1>2. UNCHANGED <<expected, isResume, urlType, num, pos, withUrl, version, player,
                  what, resuming, talk, talks, stopped>>
  BY DEF Pause, controls, list, session
<1>3. kept \in {Playing, paused} /\ (Playing \in Media => kept = Playing)
      /\ (Playing \notin Media => kept = paused)
  OBVIOUS
<1> HIDE DEF kept
<1>4. /\ raced' \in BOOLEAN /\ paused' = IF raced' THEN Silence ELSE kept
      /\ ~raced' => /\ ~raced /\ Orderly
                    /\ \A u \in Threads \ {App} : ~Busy(u)
  BY <1>1, GoesFinds
<1>5. Flags /\ Places /\ Ranges
  BY TypeParts DEF IInv
<1>6. \A u \in Threads : at'[u] = IF u = App THEN "start" ELSE at[u]
  BY <1>1, <1>5 DEF Places
<1>7. Item(pos)' = Item(pos)
  BY <1>2 DEF Item
<1>8. kept \in {Silence} \cup Media
  BY <1>3, <1>5 DEF Ranges
<1>9. TypeOK'
  <2>1. Flags'
    BY <1>1, <1>2, <1>4, <1>5 DEF Flags
  <2>2. Places'
    BY <1>1, <1>2, <1>5 DEF Places, InCommand
  <2>3. Ranges'
    BY <1>2, <1>4, <1>5, <1>8 DEF Ranges
  <2> QED BY <2>1, <2>2, <2>3 DEF TypeOK, Flags, Places, Ranges
<1>10. Shape' /\ PosInList'
  BY <1>1, <1>2, <1>5, <1>6 DEF IInv, Shape, PosInList, Places, InFetch, InPlay
<1>11. \A u \in Threads : ~Sounds(u)'
  BY <1>1 DEF Sounds
<1>12. InOrder'
  <2> SUFFICES ASSUME ~raced' PROVE Orderly'
    BY DEF InOrder
  <2>1. Again'
    BY <1>2, <1>4 DEF Orderly, Again
  <2>2. \A u \in Threads \ {App} : ~Busy(u)'
    BY <1>4, <1>6 DEF Busy
  <2>3. at[App]' = "start"
    BY <1>6
  <2> QED BY <1>1, <1>11, <2>1, <2>2, <2>3, AloneOrderly DEF InFetch, InPlay
<1>13. PausedItem'
  <2> SUFFICES ASSUME ~raced', kept # Silence, paused' = kept
               PROVE  expected = "RESUME" /\ ItemAt(kept)
                      /\ \A u \in Threads : at'[u] # "report"
    BY <1>2, <1>4, <1>7, <1>11 DEF PausedItem, ItemAt
  <2>1. \A u \in Threads : at'[u] \notin {"report", "note"} /\ at[u] # "note"
    BY <1>1, <1>4, <1>6 DEF Busy, InCommand
  <2>2. CASE Playing \in Media
    <3>1. current # NoThread /\ kept = what[current] /\ kept \in Media
      BY <1>3, <2>2, Distinct DEF Playing
    <3> QED BY <1>4, <2>1, <3>1 DEF Orderly, Plays
  <2>3. CASE Playing \notin Media
    BY <1>3, <2>1, <2>3 DEF IInv, PausedItem
  <2> QED BY <2>2, <2>3
<1>14. StopExpected'
  BY <1>1, <1>2, <1>6, <1>11 DEF IInv, StopExpected, InPlay
<1> QED BY <1>9, <1>10, <1>12, <1>13, <1>14 DEF IInv

LEMMA BeginIInv == IInv /\ Begin => IInv'
<1> SUFFICES ASSUME IInv, Begin PROVE IInv'
  OBVIOUS
<1> USE Members
<1>1. /\ at[App] = "start" /\ at' = [at EXCEPT ![App] = "none"]
      /\ talks < MaxTalks /\ talks' = talks + 1 /\ talk' = TRUE
  BY DEF Begin
<1>2. UNCHANGED <<expected, isResume, urlType, num, pos, withUrl, version, player, current,
                  halt, what, resuming, stopped, paused, raced>>
  BY DEF Begin, controls, list, engine, ghosts
<1>3. Flags /\ Places /\ Ranges
  BY TypeParts DEF IInv
<1>4. \A u \in Threads : at'[u] = IF u = App THEN "none" ELSE at[u]
  BY <1>1, <1>3 DEF Places
<1>5. Item(pos)' = Item(pos)
  BY <1>2 DEF Item
<1>6. TypeOK'
  <2>1. Flags'
    BY <1>1, <1>2, <1>3 DEF Flags
  <2>2. Places'
    BY <1>1, <1>2, <1>3 DEF Places
  <2>3. Ranges'
    BY <1>1, <1>2, <1>3, AudioAssumption DEF Ranges
  <2> QED BY <2>1, <2>2, <2>3 DEF TypeOK, Flags, Places, Ranges
<1>7. Shape' /\ PosInList'
  BY <1>1, <1>2, <1>3, <1>4 DEF IInv, Shape, PosInList, Places, InFetch, InPlay
<1>8. InOrder'
  <2> SUFFICES ASSUME ~raced, ~raced' PROVE Orderly'
    BY <1>2 DEF InOrder
  <2>1. Orderly
    BY DEF IInv, InOrder
  <2>2. \A u \in Threads : ~Busy(u)'
    BY <1>1, <1>4, <2>1 DEF Orderly, Alone, Busy, InCommand
  <2>3. \A u \in Threads : ~Sounds(u)
    BY <1>1, <2>1 DEF Orderly, Settled, InCommand
  <2>4. \A u \in Threads : ~Sounds(u)'
    BY <1>2, <1>4, <2>3 DEF Sounds
  <2>5. current' = NoThread
    BY <1>2, <1>3, <2>3 DEF IInv, Shape, Places, Sounds
  <2>6. Again' /\ at[App]' = "none"
    BY <1>2, <1>4, <2>1 DEF Orderly, Again
  <2> QED BY <2>2, <2>4, <2>5, <2>6, AloneOrderly DEF InFetch, InPlay
<1>9. PausedItem' /\ StopExpected'
  BY <1>2, <1>4, <1>5 DEF IInv, PausedItem, StopExpected, ItemAt, Sounds, InPlay
<1> QED BY <1>6, <1>7, <1>8, <1>9 DEF IInv

(* SET_STATE, with the position of a list or without one.                   *)
LEMMA SetStateIInv ==
  ASSUME IInv, NEW cmd \in {"PLAY"} \cup Instruction, SetState(cmd), paused' = Silence,
         UNCHANGED <<player, urlType, num, withUrl, version, current, halt, what, resuming,
                     talk, talks>>,
         raced' \in BOOLEAN, at[Cloud] \in {"none", "parse"},
         at' = [at EXCEPT ![Cloud] = "none"],
         pos' = 1 \/ (pos' = pos /\ at[Cloud] # "parse"),
         ~raced' => /\ Orderly
                    /\ (\A u \in Threads \ {App, Cloud} : ~Busy(u))
                    /\ (\A u \in Threads : ~Sounds(u))
  PROVE  IInv'
<1> USE Members
<1>1. expected' = cmd /\ isResume' = (isResume \/ cmd = "RESUME")
      /\ stopped' = (stopped /\ cmd = "STOP")
  BY DEF SetState
<1>2. Flags /\ Places /\ Ranges
  BY TypeParts DEF IInv
<1>3. \A u \in Threads : at'[u] = IF u = Cloud THEN "none" ELSE at[u]
  BY <1>2 DEF Places
<1>4. TypeOK'
  <2>1. Flags'
    BY <1>1, <1>2 DEF Flags
  <2>2. Places'
    BY <1>2 DEF Places
  <2>3. Ranges'
    BY <1>1, <1>2, AudioAssumption DEF Ranges, Expected
  <2> QED BY <2>1, <2>2, <2>3 DEF TypeOK, Flags, Places, Ranges
<1>5. Shape'
  BY <1>2, <1>3 DEF IInv, Shape, Places, InFetch, InPlay
<1>6. PosInList'
  BY <1>2, <1>3 DEF IInv, PosInList, Ranges
<1>7. InOrder'
  <2> SUFFICES ASSUME ~raced' PROVE Orderly'
    BY DEF InOrder
  <2>1. \A u \in Threads \ {App} : ~Busy(u)'
    BY <1>3 DEF Busy, InCommand
  <2>2. \A u \in Threads : ~Sounds(u)'
    BY <1>3 DEF Sounds
  <2>3. current' = NoThread
    BY <1>2 DEF IInv, Shape, Places, Sounds
  <2>4. at[App]' \notin {"report"} \cup InFetch
    BY <1>3 DEF IInv, Shape, InFetch, InPlay
  <2>5. Again'
    <3>1. \A u \in resuming : FALSE
      BY <1>2 DEF IInv, Shape, Places, InFetch, InPlay, Busy, InCommand
    <3> QED BY <3>1 DEF Again
  <2> QED BY <2>1, <2>2, <2>3, <2>4, <2>5, AloneOrderly DEF InFetch
<1>8. PausedItem'
  BY DEF PausedItem
<1>9. StopExpected'
  BY <1>1, <1>2, <1>3 DEF IInv, StopExpected, Sounds, InPlay, Places
<1> QED BY <1>4, <1>5, <1>6, <1>7, <1>8, <1>9 DEF IInv

LEMMA MediaSkillIInv == IInv /\ MediaSkill => IInv'
<1> SUFFICES ASSUME IInv, MediaSkill PROVE IInv'
  OBVIOUS
<1> USE Members
<1>1. /\ num' \in 0 .. MaxItems /\ withUrl' \subseteq 1 .. MaxItems /\ pos' = 0
      /\ version' = talks /\ talk /\ at[Cloud] = "none"
      /\ at' = [at EXCEPT ![Cloud] = "parse"] /\ Goes(Cloud, Silence)
  BY AudioAssumption DEF MediaSkill, Listens
<1>2. UNCHANGED <<player, expected, isResume, urlType, current, halt, what, resuming,
                  talk, talks, stopped>>
  BY DEF MediaSkill, session, engine, controls
<1>3. /\ raced' \in BOOLEAN /\ paused' = Silence
      /\ ~raced' => /\ ~raced /\ Orderly
                    /\ \A u \in Threads \ {Cloud} : ~Busy(u)
  BY <1>1, GoesFinds
<1>4. Flags /\ Places /\ Ranges
  BY TypeParts DEF IInv
<1>5. \A u \in Threads : at'[u] = IF u = Cloud THEN "parse" ELSE at[u]
  BY <1>1, <1>4 DEF Places
<1>6. TypeOK'
  <2>1. Flags'
    BY <1>2, <1>3, <1>4 DEF Flags
  <2>2. Places'
    BY <1>1, <1>2, <1>4 DEF Places, InCommand
  <2>3. Ranges'
    BY <1>1, <1>2, <1>3, <1>4, AudioAssumption DEF Ranges
  <2> QED BY <2>1, <2>2, <2>3 DEF TypeOK, Flags, Places, Ranges
<1>7. Shape' /\ PosInList'
  BY <1>1, <1>2, <1>4, <1>5 DEF IInv, Shape, PosInList, Places, InFetch, InPlay
<1>8. InOrder'
  <2> SUFFICES ASSUME ~raced' PROVE Orderly'
    BY DEF InOrder
  <2>1. \A u \in Threads \ {Cloud} : ~Busy(u)'
    BY <1>3, <1>5 DEF Busy
  <2>2. \A u \in Threads : ~Sounds(u)
    BY <1>1, <1>3 DEF Orderly, Settled
  <2>3. \A u \in Threads : ~Sounds(u)'
    BY <1>2, <1>5, <2>2 DEF Sounds
  <2>4. current' = NoThread
    BY <1>2, <1>4, <2>2 DEF IInv, Shape, Places, Sounds
  <2>5. Again' /\ at[Cloud]' = "parse"
    BY <1>2, <1>3, <1>5 DEF Orderly, Again
  <2> QED BY <2>1, <2>3, <2>4, <2>5, AloneOrderly DEF InFetch, InPlay
<1>9. PausedItem'
  BY <1>3 DEF PausedItem
<1>10. StopExpected'
  BY <1>2, <1>4, <1>5 DEF IInv, StopExpected, Sounds, InPlay, Places
<1> QED BY <1>6, <1>7, <1>8, <1>9, <1>10 DEF IInv

LEMMA ParsedIInv == IInv /\ Parsed => IInv'
<1> SUFFICES ASSUME IInv, Parsed PROVE IInv'
  OBVIOUS
<1> USE Members
<1>1. PICK cmd \in {"PLAY"} \cup Instruction : SetState(cmd)
  BY DEF Parsed
<1>2. at[Cloud] = "parse" /\ Goes(Cloud, Silence) /\ pos' = 1
      /\ at' = [at EXCEPT ![Cloud] = "none"]
  BY DEF Parsed
<1>3. UNCHANGED <<player, urlType, num, withUrl, version, current, halt, what, resuming,
                  talk, talks>>
  BY DEF Parsed, session, engine
<1>4. /\ raced' \in BOOLEAN /\ paused' = Silence
      /\ ~raced' => /\ ~raced /\ Orderly
                    /\ \A u \in Threads \ {Cloud} : ~Busy(u)
  BY <1>2, GoesFinds
<1>5. ~raced' => \A u \in Threads : ~Sounds(u)
  BY <1>2, <1>4 DEF Orderly, Settled, InCommand
<1> QED BY <1>1, <1>2, <1>3, <1>4, <1>5, SetStateIInv

LEMMA ControlSkillIInv == IInv /\ ControlSkill => IInv'
<1> SUFFICES ASSUME IInv, ControlSkill PROVE IInv'
  OBVIOUS
<1> USE Members
<1>1. PICK cmd \in Instruction : SetState(cmd)
  BY DEF ControlSkill
<1>2. talk /\ at[Cloud] = "none" /\ paused' = Silence
      /\ UNCHANGED <<num, pos, withUrl, version>>
  BY DEF ControlSkill, list, Listens
<1>3. UNCHANGED <<player, urlType, current, halt, at, what, resuming, talk, talks, raced>>
  BY DEF ControlSkill, session, engine, threads
<1>4. at' = [at EXCEPT ![Cloud] = "none"] /\ raced' \in BOOLEAN
  BY <1>2, <1>3 DEF IInv, TypeOK
<1>5. ~raced => /\ Orderly
                /\ (\A u \in Threads \ {App, Cloud} : ~Busy(u))
                /\ (\A u \in Threads : ~Sounds(u))
  BY <1>2 DEF IInv, InOrder, Orderly, Waiting, Settled, Shape
<1> QED BY <1>1, <1>2, <1>3, <1>4, <1>5, SetStateIInv

LEMMA DeinitIInv == IInv /\ Deinit => IInv'
<1> SUFFICES ASSUME IInv, Deinit PROVE IInv'
  OBVIOUS
<1> USE Members
<1>1. /\ at[App] = "none" /\ Goes(App, Silence)
      /\ player' = FALSE /\ num' = 0 /\ pos' = 0 /\ withUrl' = {}
      /\ current' = NoThread /\ halt' = TRUE
  BY DEF Deinit
<1>2. UNCHANGED <<expected, isResume, urlType, version, resuming, talk, talks, stopped>>
  BY DEF Deinit, controls, session
<1>3. /\ at' = [t \in Threads |-> IF at[t] = "song" THEN "none" ELSE at[t]]
      /\ what' = [t \in Threads |-> IF at[t] = "song" THEN Silence ELSE what[t]]
  BY DEF Deinit
<1>4. /\ raced' \in BOOLEAN /\ paused' = Silence
      /\ ~raced' => /\ ~raced /\ Orderly
                    /\ \A u \in Threads \ {App} : ~Busy(u)
  BY <1>1, GoesFinds
<1>5. Flags /\ Places /\ Ranges
  BY TypeParts DEF IInv
<1>6. TypeOK'
  <2>1. Flags'
    BY <1>1, <1>2, <1>4, <1>5 DEF Flags
  <2>2. Places'
    BY <1>1, <1>2, <1>3, <1>5 DEF Places
  <2>3. Ranges'
    BY <1>1, <1>2, <1>4, <1>5, AudioAssumption DEF Ranges
  <2> QED BY <2>1, <2>2, <2>3 DEF TypeOK, Flags, Places, Ranges
<1>7. Shape' /\ PosInList'
  BY <1>1, <1>2, <1>3, <1>5 DEF IInv, Shape, PosInList, Places, InFetch, InPlay
<1>8. InOrder'
  <2> SUFFICES ASSUME ~raced' PROVE Orderly'
    BY DEF InOrder
  <2>1. \A u \in Threads : ~Busy(u)' /\ ~Sounds(u)'
    BY <1>1, <1>3, <1>4 DEF Busy, Sounds, InCommand
  <2>2. Again'
    BY <1>2, <1>4 DEF Orderly, Again
  <2> QED BY <1>1, <1>3, <2>1, <2>2, AloneOrderly DEF InFetch, InPlay
<1>9. PausedItem'
  BY <1>4 DEF PausedItem
<1>10. StopExpected'
  BY <1>1, <1>2, <1>3 DEF IInv, StopExpected, Sounds, InPlay
<1> QED BY <1>6, <1>7, <1>8, <1>9, <1>10 DEF IInv

(* The steps that touch the session or the player's handle alone.           *)
LEMMA OtherIInv == IInv /\ (Broken \/ Reinit \/ UNCHANGED vars) => IInv'
<1> SUFFICES ASSUME IInv, Broken \/ Reinit \/ UNCHANGED vars PROVE IInv'
  OBVIOUS
<1>1. UNCHANGED <<expected, isResume, urlType, num, pos, withUrl, version, current, halt, at,
                  what, resuming, talks, stopped, paused, raced>>
  BY DEF Broken, Reinit, vars, controls, list, engine, threads, session, ghosts
<1>2. player' \in BOOLEAN /\ talk' \in BOOLEAN /\ (talk' => talk)
  <2>1. player \in BOOLEAN /\ talk \in BOOLEAN
    BY DEF IInv, TypeOK
  <2>2. CASE Broken
    BY <2>1, <2>2 DEF Broken, engine
  <2>3. CASE Reinit
    BY <2>1, <2>3 DEF Reinit, session
  <2>4. CASE UNCHANGED vars
    BY <2>1, <2>4 DEF vars, session, engine
  <2> QED BY <2>2, <2>3, <2>4
<1>3. Flags /\ Places /\ Ranges
  BY TypeParts DEF IInv
<1>4. TypeOK'
  <2>1. Flags'
    BY <1>1, <1>2, <1>3 DEF Flags
  <2>2. Places'
    BY <1>1, <1>3 DEF Places
  <2>3. Ranges'
    BY <1>1, <1>3 DEF Ranges
  <2> QED BY <2>1, <2>2, <2>3 DEF TypeOK, Flags, Places, Ranges
<1>5. Item(pos)' = Item(pos)
  BY <1>1 DEF Item
<1>6. Shape' /\ PosInList'
  BY <1>1 DEF IInv, Shape, PosInList
<1>7. InOrder'
  <2> SUFFICES ASSUME ~raced, ~raced' PROVE Orderly'
    BY <1>1 DEF InOrder
  <2>1. Orderly
    BY DEF IInv, InOrder
  <2>2. Alone' /\ OneSong' /\ Settled' /\ Waiting'
    BY <1>1, <1>2, <2>1 DEF Orderly, Alone, OneSong, Settled, Waiting, Busy, Sounds
  <2>3. Ends' /\ Items' /\ Again' /\ Plays'
    BY <1>1, <1>5, <2>1 DEF Orderly, Ends, Items, Again, Plays, Matches, ItemAt, Sounds
  <2> QED BY <2>2, <2>3 DEF Orderly
<1>8. PausedItem' /\ StopExpected'
  BY <1>1, <1>5 DEF IInv, PausedItem, StopExpected, ItemAt, Sounds
<1> QED BY <1>4, <1>6, <1>7, <1>8 DEF IInv

-----------------------------------------------------------------------------
LEMMA NextIInv == IInv /\ [Next]_vars => IInv'
<1> SUFFICES ASSUME IInv, [Next]_vars PROVE IInv'
  OBVIOUS
<1>1. CASE \E t \in Threads :
             \/ Answered(t) \/ NotFound(t) \/ Halt(t) \/ NoStart(t) \/ Note(t)
             \/ \E u \in PlayThreads : Start(t, u)
             \/ Test(t) \/ Report(t)
  BY <1>1, AnsweredIInv, NotFoundIInv, HaltIInv, NoStartIInv, NoteIInv, StartIInv,
     TestHaltedIInv, TestPlayedIInv, ReportIInv
<1>2. CASE SongEnds \/ Pause \/ Begin \/ MediaSkill \/ Parsed \/ ControlSkill
          \/ Speak \/ NoSpeech
  BY <1>2, SongEndsIInv, PauseIInv, BeginIInv, MediaSkillIInv, ParsedIInv, ControlSkillIInv,
     SpeakIInv, NoSpeechIInv
<1>3. CASE Deinit \/ Broken \/ Reinit \/ UNCHANGED vars
  BY <1>3, DeinitIInv, OtherIInv
<1> QED BY <1>1, <1>2, <1>3 DEF Next

THEOREM Invariant == Spec => []IInv
<1> QED BY InitIInv, NextIInv, PTL DEF Spec

-----------------------------------------------------------------------------
(* The types of the control variables.                                      *)
THEOREM TypeCorrect == Spec => []TypeOK
BY Invariant, PTL DEF IInv

(* item[item_pos - 1] is an item of the list, but while one is built.       *)
THEOREM Position == Spec => []PosInList
BY Invariant, PTL DEF IInv

(* Unless commands overlapped, the end of a song is taken for what it was.  *)
THEOREM EndType == Spec => []EndFollowsSong
<1>1. IInv => EndFollowsSong
  BY DEF IInv, InOrder, Orderly, Ends, Matches, EndFollowsSong, EndAlwaysFollowsSong
<1> QED BY <1>1, Invariant, PTL

(* After a STOP no media plays until the user asks for it, whatever         *)
(* commands overlap later.                                                  *)
THEOREM StopHolds == Spec => []StopSticks
<1>1. IInv => StopSticks
  BY Distinct DEF IInv, StopExpected, StopSticks, Playing
<1> QED BY <1>1, Invariant, PTL

-----------------------------------------------------------------------------
(* What plays changes to media by the start of a song only.                 *)
LEMMA StepResumes ==
  ASSUME IInv, [Next]_vars, Playing \notin Media, Playing' \in Media, paused # Silence
  PROVE  Playing' = paused
<1> USE Members
<1>1. ASSUME NEW t \in Threads, NEW u \in PlayThreads, Start(t, u)
      PROVE  Playing' = paused
  <2>1. Playing' = what[t] /\ at[t] = "begin"
    BY <1>1 DEF Start, Playing, IInv, TypeOK
  <2>2. ItemAt(paused) /\ ItemAt(what[t])
    BY <2>1 DEF IInv, InOrder, Orderly, Items, PausedItem, InFetch, InPlay
  <2>3. paused \in Media
    BY DEF IInv, TypeOK
  <2> QED BY <2>1, <2>2, <2>3 DEF ItemAt
<1>2. CASE \E t \in Threads :
             \/ Answered(t) \/ NotFound(t) \/ Halt(t) \/ NoStart(t) \/ Note(t)
             \/ Test(t) \/ Report(t)
  <2>1. PICK t \in Threads :
             \/ Answered(t) \/ NotFound(t) \/ Halt(t) \/ NoStart(t) \/ Note(t)
             \/ Test(t) \/ Report(t)
    BY <1>2
  <2>2. current' \in {current, NoThread}
    BY <2>1 DEF Answered, NotFound, Halt, NoStart, Note, Test, Report, Expect, Play, NextItem,
                PrevItem, Resume, StopMedia, Choose, Nothing, engine
  <2>3. current # NoThread => t # current
    BY <2>1 DEF Answered, NotFound, Halt, NoStart, Note, Test, Report, Left, IInv, Shape
  <2>4. \A u \in Threads \ {t} : what'[u] = what[u]
    BY <2>1 DEF Answered, NotFound, Halt, NoStart, Note, Test, Report, Expect, Play, NextItem,
                PrevItem, Resume, StopMedia, Choose, Nothing, Fetch, Moves, Returns, IInv, TypeOK
  <2> QED BY <2>2, <2>3, <2>4, Distinct DEF Playing, IInv, TypeOK
<1>3. CASE Speak \/ NoSpeech
  <2>1. current' \in {current, NoThread}
    BY <1>3 DEF Speak, NoSpeech, Expect, Play, NextItem, PrevItem, Resume, StopMedia, Choose,
                Nothing, engine
  <2>2. \A u \in Threads \ {Cloud} : what'[u] = what[u]
    BY <1>3 DEF Speak, NoSpeech, Expect, Play, NextItem, PrevItem, Resume, StopMedia, Choose,
                Nothing, Fetch, Moves, Returns, IInv, TypeOK
  <2> QED BY <2>1, <2>2, Distinct DEF Playing, IInv, TypeOK
<1>4. CASE SongEnds \/ Pause \/ Deinit
  BY <1>4, Distinct DEF SongEnds, Pause, Deinit, Playing
<1>5. CASE Begin \/ MediaSkill \/ Parsed \/ ControlSkill \/ Broken \/ Reinit \/ UNCHANGED vars
  BY <1>5 DEF Begin, MediaSkill, Parsed, ControlSkill, Broken, Reinit, vars, engine, threads, Playing
<1> QED BY <1>1, <1>2, <1>3, <1>4, <1>5 DEF Next

(* What PAUSE interrupted is the media that plays next.                     *)
THEOREM Resumes == Spec => ResumesPaused
<1>1. IInv /\ [Next]_vars =>
        [ Playing \notin Media /\ Playing' \in Media /\ paused # Silence
            => Playing' = paused ]_vars
  BY StepResumes
<1> QED BY <1>1, Invariant, PTL DEF Spec, ResumesPaused
=============================================================================
