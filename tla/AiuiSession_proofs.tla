------------------------- MODULE AiuiSession_proofs -------------------------
EXTENDS AiuiSession, TLAPS

(***************************************************************************)
(* The inductive invariant.  Its idea: whatever handles messages is the     *)
(* thread of a handle whose request was sent, whose response was not        *)
(* rejected and whose is_over is therefore still 0; aiui_start frees a      *)
(* handle only once is_over is 1; so that handle is live, and the only live *)
(* handle with a request sent is websocket->http.                           *)
(***************************************************************************)
Past == {"check", "closed", "closed2", "done"}

HandleInv ==
  /\ main \in {"connect", "assign"} => http = NoConn
  /\ main = "connect" => connect = "disconnected"
  /\ main = "assign" =>
       fresh \in Conn /\ mem[fresh] = "live" /\ ~asked[fresh]
  /\ main \in {"wait", "free"} => http \in Conn
  /\ main = "free" => over[http]
  /\ http \in Conn /\ main \notin {"reset", "gone"} => mem[http] = "live"
  /\ \A c \in Conn : mem[c] = "live" =>
       \/ c = http /\ main \notin {"reset", "gone"}
       \/ c = fresh /\ main = "assign"

ThreadInv ==
  \A c \in Conn :
    /\ mem[c] = "unused" => thr[c] = "none" /\ ~asked[c]
    /\ mem[c] = "freed" => over[c]
    /\ over[c] => rejected[c] \/ thr[c] \in Past
    /\ thr[c] \in Handling => asked[c] /\ ~rejected[c]
    /\ thr[c] = "body" => rejected[c]

FrameInv == \A c \in frame : c = http \/ rejected[c]

StatusInv ==
  /\ connect = "connected" /\ main \notin {"reset", "gone"} =>
       http \in Conn /\ got[http] \cap {"connected", "started"} # {}
  /\ \A c \in Conn : thr[c] \in {"connected", "started"} => thr[c] \in got[c]

SpeechInv ==
  \A c \in Conn :
    /\ got[c] # {} => asked[c]
    /\ "started" \notin got[c] => got[c] \subseteq {"connected", "error"}
    /\ thr[c] = "started" => "tts" \notin got[c]
    /\ thr[c] = "tts" => "tts" \in got[c] /\ "finish" \notin got[c]
    /\ thr[c] = "finish" => "finish" \in got[c]
    /\ "url" \in ttsCmd[c] => "tts" \in got[c]
    /\ "null" \in ttsCmd[c] => "finish" \in got[c]
    /\ "url" \in ttsCmd[c] /\ c = http /\ main \notin {"reset", "gone"} =>
         processTts
    /\ ttsCmd[c] # {"url", "null"}

IInv == TypeOK /\ HandleInv /\ ThreadInv /\ FrameInv /\ StatusInv /\ SpeechInv

LEMMA TypePreserved ==
  ASSUME TypeOK, [Next]_vars
  PROVE  TypeOK'
<1> USE SessionAssumption DEF TypeOK, MainPC, ThreadPC, Receiving, Handling, Mode, Msg,
        appVars, aiuiVars, httpVars, peerVars
<1>1. ASSUME WaitOver
      PROVE  TypeOK'
  BY <1>1 DEF WaitOver
<1>2. ASSUME Free
      PROVE  TypeOK'
  <2>1. mem' \in [Conn -> {"unused", "live", "freed"}]
    BY <1>2 DEF Free
  <2> QED  BY <1>2, <2>1 DEF Free
<1>3. ASSUME Reset
      PROVE  TypeOK'
  BY <1>3 DEF Reset
<1>4. ASSUME ConnectFails
      PROVE  TypeOK'
  BY <1>4 DEF ConnectFails
<1>5. ASSUME Assign
      PROVE  TypeOK'
  BY <1>5 DEF Assign
<1>6. ASSUME Request
      PROVE  TypeOK'
  <2>1. CASE up[http] = "none" /\ sock[http] = "up"
    <3>1. up' \in [Conn -> {"none", "request", "live", "data", "end"}]
      BY <1>6, <2>1 DEF Request
    <3>2. asked' \in [Conn -> BOOLEAN]
      BY <1>6, <2>1 DEF Request
    <3> QED  BY <1>6, <2>1, <3>1, <3>2 DEF Request
  <2>2. CASE ~(up[http] = "none" /\ sock[http] = "up")
    BY <1>6, <2>2 DEF Request
  <2> QED  BY <2>1, <2>2
<1>7. ASSUME Await
      PROVE  TypeOK'
  BY <1>7 DEF Await
<1>8. ASSUME Timeout
      PROVE  TypeOK'
  BY <1>8 DEF Timeout
<1>9. ASSUME Expire
      PROVE  TypeOK'
  BY <1>9 DEF Expire
<1>10. ASSUME SendFrame
      PROVE  TypeOK'
  BY <1>10 DEF SendFrame, Transmit
<1>11. ASSUME StopMark
      PROVE  TypeOK'
  BY <1>11 DEF StopMark
<1>12. ASSUME StopFrame
      PROVE  TypeOK'
  BY <1>12 DEF StopFrame, Transmit
<1>13. ASSUME UninitCall
      PROVE  TypeOK'
  <2>1. CASE http = NoConn
    BY <1>13, <2>1 DEF UninitCall, Disconnect
  <2>2. CASE http # NoConn
    <3>1. sem' \in Nat
      BY <1>13 DEF UninitCall
    <3>2. /\ main' \in MainPC
          /\ stop' \in [Conn -> BOOLEAN]
          /\ sock' \in [Conn -> {"up", "closed", "shut"}]
      BY <1>13, <2>2 DEF UninitCall, Disconnect
    <3> QED  BY <1>13, <3>1, <3>2 DEF UninitCall
  <2> QED  BY <2>1, <2>2
<1>14. ASSUME SendCall
      PROVE  TypeOK'
  BY <1>14 DEF SendCall
<1>15. ASSUME StopCall
      PROVE  TypeOK'
  BY <1>15 DEF StopCall
<1>16. ASSUME SenderGate
      PROVE  TypeOK'
  BY <1>16 DEF SenderGate
<1>17. ASSUME SenderCheck
      PROVE  TypeOK'
  BY <1>17 DEF SenderCheck
<1>18. ASSUME SenderUse
      PROVE  TypeOK'
  BY <1>18 DEF SenderUse, Transmit
<1>19. ASSUME NEW m \in Modes, StartCall(m)
      PROVE  TypeOK'
  <2>1. /\ stop' \in [Conn -> BOOLEAN]
        /\ sock' \in [Conn -> {"up", "closed", "shut"}]
        /\ main' \in {"reset", "wait"}
    BY <1>19 DEF StartCall, Disconnect
  <2>2. mode' = m /\ op' = "start"
    BY <1>19 DEF StartCall
  <2>3. testAudio' \in BOOLEAN
    BY <1>19 DEF StartCall
  <2>4. UNCHANGED <<snd, startSend, aiuiVars, http, fresh, mem, over, rejected, thr, peerVars>>
    BY <1>19 DEF StartCall
  <2> QED  BY <1>19, <2>1, <2>2, <2>3, <2>4
<1>20. ASSUME NEW c \in Conn, Connect(c)
      PROVE  TypeOK'
  BY <1>20 DEF Connect
<1>21. ASSUME NEW c \in Conn, LoopExit(c)
      PROVE  TypeOK'
  BY <1>21 DEF LoopExit, Goto, Reads
<1>22. ASSUME NEW c \in Conn, LoopRecv(c)
      PROVE  TypeOK'
  BY <1>22 DEF LoopRecv, Goto, Reads
<1>23. ASSUME NEW c \in Conn, RecvNothing(c)
      PROVE  TypeOK'
  BY <1>23 DEF RecvNothing, Goto
<1>24. ASSUME NEW c \in Conn, RecvReject(c)
      PROVE  TypeOK'
  BY <1>24 DEF RecvReject, Goto
<1>25. ASSUME NEW c \in Conn, Started(c)
      PROVE  TypeOK'
  <2>1. startSend' \in BOOLEAN
    BY <1>25 DEF Started
  <2>2. thr' \in [Conn -> ThreadPC]
    BY <1>25 DEF Started, Goto
  <2>3. /\ connect' \in {"disconnected", "connecting", "connected"}
        /\ session' \in {"stoped", "starting", "started", "vad"}
        /\ processTts' \in BOOLEAN
    BY <1>25 DEF Started
  <2>4. UNCHANGED <<main, op, mode, snd, testAudio, type, sem, httpVars, peerVars>>
    BY <1>25 DEF Started
  <2> QED  BY <2>1, <2>2, <2>3, <2>4
<1>26. ASSUME NEW c \in Conn, Post(c)
      PROVE  TypeOK'
  BY <1>26 DEF Post, Goto
<1>27. ASSUME NEW c \in Conn, Vad(c)
      PROVE  TypeOK'
  BY <1>27 DEF Vad, Goto
<1>28. ASSUME NEW c \in Conn, VadStop(c)
      PROVE  TypeOK'
  BY <1>28 DEF VadStop, Goto
<1>29. ASSUME NEW c \in Conn, VadEnd(c)
      PROVE  TypeOK'
  BY <1>29 DEF VadEnd, Goto, Transmit
<1>30. ASSUME NEW c \in Conn, VadMark(c)
      PROVE  TypeOK'
  BY <1>30 DEF VadMark, Goto
<1>31. ASSUME NEW c \in Conn, Tts(c)
      PROVE  TypeOK'
  BY <1>31 DEF Tts, Goto
<1>32. ASSUME NEW c \in Conn, Finish(c)
      PROVE  TypeOK'
  BY <1>32 DEF Finish, Goto
<1>33. ASSUME NEW c \in Conn, Exit(c)
      PROVE  TypeOK'
  BY <1>33 DEF Exit, Goto
<1>34. ASSUME NEW c \in Conn, ExitQuiet(c)
      PROVE  TypeOK'
  BY <1>34 DEF ExitQuiet, Goto, Reads
<1>35. ASSUME NEW c \in Conn, ExitReport(c)
      PROVE  TypeOK'
  BY <1>35 DEF ExitReport, Goto, Reads
<1>36. ASSUME NEW c \in Conn, ClosedSession(c)
      PROVE  TypeOK'
  BY <1>36 DEF ClosedSession, Goto
<1>37. ASSUME NEW c \in Conn, ClosedConnect(c)
      PROVE  TypeOK'
  BY <1>37 DEF ClosedConnect, Goto
<1>38. ASSUME NEW c \in Conn, PeerClose(c)
      PROVE  TypeOK'
  BY <1>38 DEF PeerClose
<1>39. ASSUME NEW c \in Conn, NEW m \in Msg, Recv(c, m)
      PROVE  TypeOK'
  BY <1>39 DEF Recv, Sends, Goto
<1>40. ASSUME UNCHANGED vars
      PROVE  TypeOK'
  BY <1>40 DEF vars
<1>61. ASSUME NEW c \in Conn, RejectBody(c)
      PROVE  TypeOK'
  BY <1>61 DEF RejectBody, Goto
<1>62. ASSUME NEW c \in Conn, NEW m \in Msg, Garble(c, m)
      PROVE  TypeOK'
  BY <1>62 DEF Garble, Sends, Goto
<1>41. ASSUME NEW c \in Conn, Connected(c)
      PROVE  TypeOK'
  BY <1>41 DEF Connected, Goto
<1> HIDE DEF TypeOK, appVars, aiuiVars, httpVars, peerVars
<1>42. CASE MainStep
  BY <1>42, <1>1, <1>2, <1>3, <1>4, <1>5, <1>6, <1>7, <1>8, <1>9, <1>10,
     <1>11, <1>12, <1>20
        DEF MainStep
<1>43. CASE MainCall \/ SenderStep
  BY <1>43, <1>13, <1>14, <1>15, <1>16, <1>17, <1>18, <1>19
        DEF MainCall, SenderStep
<1>44. ASSUME NEW c \in Conn, ThreadStep(c)
      PROVE  TypeOK'
  BY <1>44, <1>21, <1>22, <1>23, <1>24, <1>25, <1>26, <1>27, <1>28, <1>29,
     <1>30, <1>31, <1>32, <1>33, <1>34, <1>35, <1>36, <1>37, <1>39, <1>41,
     <1>61, <1>62
     DEF ThreadStep
<1> QED
  BY <1>38, <1>40, <1>42, <1>43, <1>44 DEF Next, Terminated

LEMMA QuietLemma ==
  ASSUME TypeOK, HandleInv, ThreadInv, NEW c \in Conn, thr[c] \in Handling
  PROVE  /\ c = http /\ mem[c] = "live"
         /\ main \notin {"reset", "gone", "connect", "assign"}
  BY SessionAssumption DEF TypeOK, HandleInv, ThreadInv, Handling, Past

LEMMA HandlePreserved ==
  ASSUME TypeOK, HandleInv, ThreadInv, [Next]_vars
  PROVE  HandleInv'
<1> USE SessionAssumption DEF TypeOK, HandleInv, ThreadInv, Past, MainPC, Msg, appVars, aiuiVars, httpVars, peerVars
<1>1. ASSUME WaitOver
      PROVE  HandleInv'
  BY <1>1 DEF WaitOver
<1>2. ASSUME Free
      PROVE  HandleInv'
  BY <1>2 DEF Free
<1>3. ASSUME Reset
      PROVE  HandleInv'
  BY <1>3 DEF Reset
<1>4. ASSUME ConnectFails
      PROVE  HandleInv'
  BY <1>4 DEF ConnectFails
<1>5. ASSUME Assign
      PROVE  HandleInv'
  BY <1>5 DEF Assign
<1>6. ASSUME Request
      PROVE  HandleInv'
  BY <1>6 DEF Request
<1>7. ASSUME Await
      PROVE  HandleInv'
  BY <1>7 DEF Await
<1>8. ASSUME Timeout
      PROVE  HandleInv'
  BY <1>8 DEF Timeout
<1>9. ASSUME Expire
      PROVE  HandleInv'
  BY <1>9 DEF Expire
<1>10. ASSUME SendFrame
      PROVE  HandleInv'
  BY <1>10 DEF SendFrame, Transmit
<1>11. ASSUME StopMark
      PROVE  HandleInv'
  BY <1>11 DEF StopMark
<1>12. ASSUME StopFrame
      PROVE  HandleInv'
  BY <1>12 DEF StopFrame, Transmit
<1>13. ASSUME UninitCall
      PROVE  HandleInv'
  BY <1>13 DEF UninitCall, Disconnect
<1>14. ASSUME SendCall
      PROVE  HandleInv'
  BY <1>14 DEF SendCall
<1>15. ASSUME StopCall
      PROVE  HandleInv'
  BY <1>15 DEF StopCall
<1>16. ASSUME SenderGate
      PROVE  HandleInv'
  BY <1>16 DEF SenderGate
<1>17. ASSUME SenderCheck
      PROVE  HandleInv'
  BY <1>17 DEF SenderCheck
<1>18. ASSUME SenderUse
      PROVE  HandleInv'
  BY <1>18 DEF SenderUse, Transmit
<1>19. ASSUME NEW m \in Modes, StartCall(m)
      PROVE  HandleInv'
  BY <1>19 DEF StartCall, Disconnect
<1>20. ASSUME NEW c \in Conn, Connect(c)
      PROVE  HandleInv'
  BY <1>20 DEF Connect
<1>21. ASSUME NEW c \in Conn, LoopExit(c)
      PROVE  HandleInv'
  BY <1>21 DEF LoopExit, Goto, Reads
<1>22. ASSUME NEW c \in Conn, LoopRecv(c)
      PROVE  HandleInv'
  BY <1>22 DEF LoopRecv, Goto, Reads
<1>23. ASSUME NEW c \in Conn, RecvNothing(c)
      PROVE  HandleInv'
  BY <1>23 DEF RecvNothing, Goto
<1>24. ASSUME NEW c \in Conn, RecvReject(c)
      PROVE  HandleInv'
  BY <1>24 DEF RecvReject, Goto
<1>25. ASSUME NEW c \in Conn, Started(c)
      PROVE  HandleInv'
  <2>1. main # "connect"
    BY <1>25, QuietLemma DEF Started, Handling
  <2>2. UNCHANGED <<main, http, fresh, mem, over, asked>>
    BY <1>25 DEF Started
  <2> QED  BY <2>1, <2>2
<1>26. ASSUME NEW c \in Conn, Post(c)
      PROVE  HandleInv'
  BY <1>26 DEF Post, Goto
<1>27. ASSUME NEW c \in Conn, Vad(c)
      PROVE  HandleInv'
  BY <1>27 DEF Vad, Goto
<1>28. ASSUME NEW c \in Conn, VadStop(c)
      PROVE  HandleInv'
  BY <1>28 DEF VadStop, Goto
<1>29. ASSUME NEW c \in Conn, VadEnd(c)
      PROVE  HandleInv'
  BY <1>29 DEF VadEnd, Goto, Transmit
<1>30. ASSUME NEW c \in Conn, VadMark(c)
      PROVE  HandleInv'
  BY <1>30 DEF VadMark, Goto
<1>31. ASSUME NEW c \in Conn, Tts(c)
      PROVE  HandleInv'
  BY <1>31 DEF Tts, Goto
<1>32. ASSUME NEW c \in Conn, Finish(c)
      PROVE  HandleInv'
  BY <1>32 DEF Finish, Goto
<1>33. ASSUME NEW c \in Conn, Exit(c)
      PROVE  HandleInv'
  BY <1>33 DEF Exit, Goto
<1>34. ASSUME NEW c \in Conn, ExitQuiet(c)
      PROVE  HandleInv'
  BY <1>34 DEF ExitQuiet, Goto, Reads
<1>35. ASSUME NEW c \in Conn, ExitReport(c)
      PROVE  HandleInv'
  BY <1>35 DEF ExitReport, Goto, Reads
<1>36. ASSUME NEW c \in Conn, ClosedSession(c)
      PROVE  HandleInv'
  BY <1>36 DEF ClosedSession, Goto
<1>37. ASSUME NEW c \in Conn, ClosedConnect(c)
      PROVE  HandleInv'
  BY <1>37 DEF ClosedConnect, Goto
<1>38. ASSUME NEW c \in Conn, PeerClose(c)
      PROVE  HandleInv'
  BY <1>38 DEF PeerClose
<1>39. ASSUME NEW c \in Conn, NEW m \in Msg, Recv(c, m)
      PROVE  HandleInv'
  BY <1>39 DEF Recv, Sends, Goto
<1>40. ASSUME UNCHANGED vars
      PROVE  HandleInv'
  BY <1>40 DEF vars
<1>61. ASSUME NEW c \in Conn, RejectBody(c)
      PROVE  HandleInv'
  BY <1>61 DEF RejectBody, Goto
<1>62. ASSUME NEW c \in Conn, NEW m \in Msg, Garble(c, m)
      PROVE  HandleInv'
  BY <1>62 DEF Garble, Sends, Goto
<1>41. ASSUME NEW c \in Conn, Connected(c)
      PROVE  HandleInv'
  <2>1. main # "connect"
    BY <1>41, QuietLemma DEF Connected, Handling
  <2>2. UNCHANGED <<main, http, fresh, mem, over, asked>>
    BY <1>41 DEF Connected
  <2> QED  BY <2>1, <2>2
<1> HIDE DEF TypeOK, HandleInv, ThreadInv, Past, MainPC, Msg, appVars, aiuiVars, httpVars, peerVars
<1> QED
  BY <1>1, <1>2, <1>3, <1>4, <1>5, <1>6, <1>7, <1>8, <1>9, <1>10, <1>11,
     <1>12, <1>13, <1>14, <1>15, <1>16, <1>17, <1>18, <1>19, <1>20, <1>21,
     <1>22, <1>23, <1>24, <1>25, <1>26, <1>27, <1>28, <1>29, <1>30, <1>31,
     <1>32, <1>33, <1>34, <1>35, <1>36, <1>37, <1>38, <1>39, <1>40, <1>41,
     <1>61, <1>62
        DEF Next, MainStep, MainCall, SenderStep, ThreadStep, Terminated

LEMMA ThreadPreserved ==
  ASSUME TypeOK, HandleInv, ThreadInv, [Next]_vars
  PROVE  ThreadInv'
<1> USE SessionAssumption DEF TypeOK, HandleInv, ThreadInv, Past, Handling, MainPC, Msg, appVars, aiuiVars, httpVars, peerVars
<1>1. ASSUME WaitOver
      PROVE  ThreadInv'
  BY <1>1 DEF WaitOver
<1>2. ASSUME Free
      PROVE  ThreadInv'
  BY <1>2 DEF Free
<1>3. ASSUME Reset
      PROVE  ThreadInv'
  BY <1>3 DEF Reset
<1>4. ASSUME ConnectFails
      PROVE  ThreadInv'
  BY <1>4 DEF ConnectFails
<1>5. ASSUME Assign
      PROVE  ThreadInv'
  BY <1>5 DEF Assign
<1>6. ASSUME Request
      PROVE  ThreadInv'
  BY <1>6 DEF Request
<1>7. ASSUME Await
      PROVE  ThreadInv'
  BY <1>7 DEF Await
<1>8. ASSUME Timeout
      PROVE  ThreadInv'
  BY <1>8 DEF Timeout
<1>9. ASSUME Expire
      PROVE  ThreadInv'
  BY <1>9 DEF Expire
<1>10. ASSUME SendFrame
      PROVE  ThreadInv'
  BY <1>10 DEF SendFrame, Transmit
<1>11. ASSUME StopMark
      PROVE  ThreadInv'
  BY <1>11 DEF StopMark
<1>12. ASSUME StopFrame
      PROVE  ThreadInv'
  BY <1>12 DEF StopFrame, Transmit
<1>13. ASSUME UninitCall
      PROVE  ThreadInv'
  BY <1>13 DEF UninitCall, Disconnect
<1>14. ASSUME SendCall
      PROVE  ThreadInv'
  BY <1>14 DEF SendCall
<1>15. ASSUME StopCall
      PROVE  ThreadInv'
  BY <1>15 DEF StopCall
<1>16. ASSUME SenderGate
      PROVE  ThreadInv'
  BY <1>16 DEF SenderGate
<1>17. ASSUME SenderCheck
      PROVE  ThreadInv'
  BY <1>17 DEF SenderCheck
<1>18. ASSUME SenderUse
      PROVE  ThreadInv'
  BY <1>18 DEF SenderUse, Transmit
<1>19. ASSUME NEW m \in Modes, StartCall(m)
      PROVE  ThreadInv'
  BY <1>19 DEF StartCall, Disconnect
<1>20. ASSUME NEW c \in Conn, Connect(c)
      PROVE  ThreadInv'
  BY <1>20 DEF Connect
<1>21. ASSUME NEW c \in Conn, LoopExit(c)
      PROVE  ThreadInv'
  BY <1>21 DEF LoopExit, Goto, Reads
<1>22. ASSUME NEW c \in Conn, LoopRecv(c)
      PROVE  ThreadInv'
  BY <1>22 DEF LoopRecv, Goto, Reads
<1>23. ASSUME NEW c \in Conn, RecvNothing(c)
      PROVE  ThreadInv'
  BY <1>23 DEF RecvNothing, Goto
<1>24. ASSUME NEW c \in Conn, RecvReject(c)
      PROVE  ThreadInv'
  BY <1>24 DEF RecvReject, Goto
<1>25. ASSUME NEW c \in Conn, Started(c)
      PROVE  ThreadInv'
  BY <1>25 DEF Started, Goto
<1>26. ASSUME NEW c \in Conn, Post(c)
      PROVE  ThreadInv'
  BY <1>26 DEF Post, Goto
<1>27. ASSUME NEW c \in Conn, Vad(c)
      PROVE  ThreadInv'
  BY <1>27 DEF Vad, Goto
<1>28. ASSUME NEW c \in Conn, VadStop(c)
      PROVE  ThreadInv'
  BY <1>28 DEF VadStop, Goto
<1>29. ASSUME NEW c \in Conn, VadEnd(c)
      PROVE  ThreadInv'
  BY <1>29 DEF VadEnd, Goto, Transmit
<1>30. ASSUME NEW c \in Conn, VadMark(c)
      PROVE  ThreadInv'
  BY <1>30 DEF VadMark, Goto
<1>31. ASSUME NEW c \in Conn, Tts(c)
      PROVE  ThreadInv'
  BY <1>31 DEF Tts, Goto
<1>32. ASSUME NEW c \in Conn, Finish(c)
      PROVE  ThreadInv'
  BY <1>32 DEF Finish, Goto
<1>33. ASSUME NEW c \in Conn, Exit(c)
      PROVE  ThreadInv'
  BY <1>33 DEF Exit, Goto
<1>34. ASSUME NEW c \in Conn, ExitQuiet(c)
      PROVE  ThreadInv'
  BY <1>34 DEF ExitQuiet, Goto, Reads
<1>35. ASSUME NEW c \in Conn, ExitReport(c)
      PROVE  ThreadInv'
  BY <1>35 DEF ExitReport, Goto, Reads
<1>36. ASSUME NEW c \in Conn, ClosedSession(c)
      PROVE  ThreadInv'
  BY <1>36 DEF ClosedSession, Goto
<1>37. ASSUME NEW c \in Conn, ClosedConnect(c)
      PROVE  ThreadInv'
  BY <1>37 DEF ClosedConnect, Goto
<1>38. ASSUME NEW c \in Conn, PeerClose(c)
      PROVE  ThreadInv'
  BY <1>38 DEF PeerClose
<1>39. ASSUME NEW c \in Conn, NEW m \in Msg, Recv(c, m)
      PROVE  ThreadInv'
  BY <1>39 DEF Recv, Sends, Goto
<1>40. ASSUME UNCHANGED vars
      PROVE  ThreadInv'
  BY <1>40 DEF vars
<1>61. ASSUME NEW c \in Conn, RejectBody(c)
      PROVE  ThreadInv'
  BY <1>61 DEF RejectBody, Goto
<1>62. ASSUME NEW c \in Conn, NEW m \in Msg, Garble(c, m)
      PROVE  ThreadInv'
  BY <1>62 DEF Garble, Sends, Goto
<1>41. ASSUME NEW c \in Conn, Connected(c)
      PROVE  ThreadInv'
  BY <1>41 DEF Connected, Goto
<1> HIDE DEF TypeOK, HandleInv, ThreadInv, Past, Handling, MainPC, Msg, appVars, aiuiVars, httpVars, peerVars
<1> QED
  BY <1>1, <1>2, <1>3, <1>4, <1>5, <1>6, <1>7, <1>8, <1>9, <1>10, <1>11,
     <1>12, <1>13, <1>14, <1>15, <1>16, <1>17, <1>18, <1>19, <1>20, <1>21,
     <1>22, <1>23, <1>24, <1>25, <1>26, <1>27, <1>28, <1>29, <1>30, <1>31,
     <1>32, <1>33, <1>34, <1>35, <1>36, <1>37, <1>38, <1>39, <1>40, <1>41,
     <1>61, <1>62
        DEF Next, MainStep, MainCall, SenderStep, ThreadStep, Terminated

(* A connection that may still bring a message is the current one.          *)
LEMMA CurrentReceives ==
  ASSUME TypeOK, HandleInv, ThreadInv, NEW c \in Conn,
         thr[c] \in Receiving, asked[c], ~rejected[c]
  PROVE  c = http
<1>1. thr[c] # "none" /\ thr[c] \notin Past
  BY DEF Receiving, Handling, Past
<1>2. mem[c] = "live"
  BY <1>1 DEF TypeOK, ThreadInv
<1>3. QED BY <1>2 DEF HandleInv

(* Only a receive thread of a sent request leaves bytes in the frame parser, *)
(* and aiui_start empties it between two connections.                        *)
LEMMA FramePreserved ==
  ASSUME TypeOK, HandleInv, ThreadInv, FrameInv, [Next]_vars
  PROVE  FrameInv'
<1> USE DEF appVars, aiuiVars, httpVars, peerVars
<1>1. CASE UNCHANGED <<frame, http, rejected>>
  BY <1>1 DEF FrameInv
<1>2. CASE MainCall \/ SenderStep \/ Terminated \/ UNCHANGED vars \/ \E c \in Conn : PeerClose(c)
  BY <1>1, <1>2 DEF MainCall, StartCall, UninitCall, SendCall, StopCall, SenderStep, SenderGate,
     SenderCheck, SenderUse, Terminated, vars, PeerClose
<1>3. CASE Reset
  BY <1>3 DEF Reset, FrameInv
<1>4. CASE Assign
  <2>1. http = NoConn /\ UNCHANGED <<frame, rejected>>
    BY <1>4 DEF Assign, HandleInv
  <2>2. QED BY <2>1, SessionAssumption DEF FrameInv, TypeOK
<1>5. CASE \/ WaitOver \/ Free \/ ConnectFails \/ Request \/ Await \/ Timeout \/ Expire
           \/ SendFrame \/ StopMark \/ StopFrame \/ \E c \in Conn : Connect(c)
  BY <1>1, <1>5 DEF WaitOver, Free, ConnectFails, Request, Await, Timeout, Expire, SendFrame,
     StopMark, StopFrame, Connect
<1>6. ASSUME NEW c \in Conn, ThreadStep(c) PROVE FrameInv'
  <2>1. CASE RecvNothing(c) \/ \E m \in Msg : Recv(c, m) \/ Garble(c, m)
    <3>1. UNCHANGED <<http, rejected>> /\ thr[c] = "recv"
      BY <2>1 DEF RecvNothing, Recv, Garble, Sends
    <3>2. frame' \subseteq frame \/ (frame' = frame \cup {c} /\ asked[c] /\ ~rejected[c])
      BY <2>1 DEF RecvNothing, Recv, Garble, Sends
    <3>3. asked[c] /\ ~rejected[c] => c = http
      BY <3>1, CurrentReceives DEF Receiving
    <3>4. QED BY <3>1, <3>2, <3>3 DEF FrameInv
  <2>2. CASE RejectBody(c)
    <3>1. UNCHANGED <<http, rejected>> /\ rejected[c] /\ frame' \subseteq frame \cup {c}
      BY <2>2 DEF RejectBody, ThreadInv
    <3>2. QED BY <3>1 DEF FrameInv
  <2>3. CASE RecvReject(c)
    <3>1. UNCHANGED <<http, frame>> /\ \A d \in Conn : rejected[d] => rejected'[d]
      BY <2>3 DEF RecvReject, TypeOK
    <3>2. QED BY <3>1 DEF FrameInv, TypeOK
  <2>4. CASE \/ LoopExit(c) \/ LoopRecv(c) \/ Connected(c) \/ Started(c) \/ Post(c) \/ Vad(c)
             \/ VadStop(c) \/ VadEnd(c) \/ VadMark(c) \/ Tts(c) \/ Finish(c) \/ Exit(c)
             \/ ExitQuiet(c) \/ ExitReport(c) \/ ClosedSession(c) \/ ClosedConnect(c)
    BY <1>1, <2>4 DEF LoopExit, LoopRecv, Connected, Started, Post, Vad, VadStop, VadEnd, VadMark,
       Tts, Finish, Exit, ExitQuiet, ExitReport, ClosedSession, ClosedConnect
  <2>5. QED BY <1>6, <2>1, <2>2, <2>3, <2>4 DEF ThreadStep
<1>7. QED BY <1>2, <1>3, <1>4, <1>5, <1>6 DEF Next, MainStep

LEMMA StatusPreserved ==
  ASSUME TypeOK, HandleInv, ThreadInv, StatusInv, [Next]_vars
  PROVE  StatusInv'
<1> USE SessionAssumption DEF TypeOK, StatusInv, HandleInv, MainPC, Msg, appVars, aiuiVars, httpVars, peerVars, Handling
<1>1. ASSUME WaitOver
      PROVE  StatusInv'
  BY <1>1, QuietLemma DEF WaitOver
<1>2. ASSUME Free
      PROVE  StatusInv'
  BY <1>2, QuietLemma DEF Free
<1>3. ASSUME Reset
      PROVE  StatusInv'
  BY <1>3, QuietLemma DEF Reset
<1>4. ASSUME ConnectFails
      PROVE  StatusInv'
  BY <1>4, QuietLemma DEF ConnectFails
<1>5. ASSUME Assign
      PROVE  StatusInv'
  BY <1>5, QuietLemma DEF Assign
<1>6. ASSUME Request
      PROVE  StatusInv'
  BY <1>6, QuietLemma DEF Request
<1>7. ASSUME Await
      PROVE  StatusInv'
  BY <1>7, QuietLemma DEF Await
<1>8. ASSUME Timeout
      PROVE  StatusInv'
  BY <1>8, QuietLemma DEF Timeout
<1>9. ASSUME Expire
      PROVE  StatusInv'
  BY <1>9, QuietLemma DEF Expire
<1>10. ASSUME SendFrame
      PROVE  StatusInv'
  BY <1>10, QuietLemma DEF SendFrame, Transmit
<1>11. ASSUME StopMark
      PROVE  StatusInv'
  BY <1>11, QuietLemma DEF StopMark
<1>12. ASSUME StopFrame
      PROVE  StatusInv'
  BY <1>12, QuietLemma DEF StopFrame, Transmit
<1>13. ASSUME UninitCall
      PROVE  StatusInv'
  BY <1>13, QuietLemma DEF UninitCall, Disconnect
<1>14. ASSUME SendCall
      PROVE  StatusInv'
  BY <1>14, QuietLemma DEF SendCall
<1>15. ASSUME StopCall
      PROVE  StatusInv'
  BY <1>15, QuietLemma DEF StopCall
<1>16. ASSUME SenderGate
      PROVE  StatusInv'
  BY <1>16, QuietLemma DEF SenderGate
<1>17. ASSUME SenderCheck
      PROVE  StatusInv'
  BY <1>17, QuietLemma DEF SenderCheck
<1>18. ASSUME SenderUse
      PROVE  StatusInv'
  BY <1>18, QuietLemma DEF SenderUse, Transmit
<1>19. ASSUME NEW m \in Modes, StartCall(m)
      PROVE  StatusInv'
  BY <1>19, QuietLemma DEF StartCall, Disconnect
<1>20. ASSUME NEW c \in Conn, Connect(c)
      PROVE  StatusInv'
  BY <1>20, QuietLemma DEF Connect
<1>21. ASSUME NEW c \in Conn, LoopExit(c)
      PROVE  StatusInv'
  BY <1>21, QuietLemma DEF LoopExit, Goto, Reads
<1>22. ASSUME NEW c \in Conn, LoopRecv(c)
      PROVE  StatusInv'
  BY <1>22, QuietLemma DEF LoopRecv, Goto, Reads
<1>23. ASSUME NEW c \in Conn, RecvNothing(c)
      PROVE  StatusInv'
  BY <1>23, QuietLemma DEF RecvNothing, Goto
<1>24. ASSUME NEW c \in Conn, RecvReject(c)
      PROVE  StatusInv'
  BY <1>24, QuietLemma DEF RecvReject, Goto
<1>25. ASSUME NEW c \in Conn, Started(c)
      PROVE  StatusInv'
  BY <1>25, QuietLemma DEF Started, Goto
<1>26. ASSUME NEW c \in Conn, Post(c)
      PROVE  StatusInv'
  BY <1>26, QuietLemma DEF Post, Goto
<1>27. ASSUME NEW c \in Conn, Vad(c)
      PROVE  StatusInv'
  BY <1>27, QuietLemma DEF Vad, Goto
<1>28. ASSUME NEW c \in Conn, VadStop(c)
      PROVE  StatusInv'
  BY <1>28, QuietLemma DEF VadStop, Goto
<1>29. ASSUME NEW c \in Conn, VadEnd(c)
      PROVE  StatusInv'
  BY <1>29, QuietLemma DEF VadEnd, Goto, Transmit
<1>30. ASSUME NEW c \in Conn, VadMark(c)
      PROVE  StatusInv'
  BY <1>30, QuietLemma DEF VadMark, Goto
<1>31. ASSUME NEW c \in Conn, Tts(c)
      PROVE  StatusInv'
  BY <1>31, QuietLemma DEF Tts, Goto
<1>32. ASSUME NEW c \in Conn, Finish(c)
      PROVE  StatusInv'
  BY <1>32, QuietLemma DEF Finish, Goto
<1>33. ASSUME NEW c \in Conn, Exit(c)
      PROVE  StatusInv'
  BY <1>33, QuietLemma DEF Exit, Goto
<1>34. ASSUME NEW c \in Conn, ExitQuiet(c)
      PROVE  StatusInv'
  BY <1>34, QuietLemma DEF ExitQuiet, Goto, Reads
<1>35. ASSUME NEW c \in Conn, ExitReport(c)
      PROVE  StatusInv'
  BY <1>35, QuietLemma DEF ExitReport, Goto, Reads
<1>36. ASSUME NEW c \in Conn, ClosedSession(c)
      PROVE  StatusInv'
  BY <1>36, QuietLemma DEF ClosedSession, Goto
<1>37. ASSUME NEW c \in Conn, ClosedConnect(c)
      PROVE  StatusInv'
  BY <1>37, QuietLemma DEF ClosedConnect, Goto
<1>38. ASSUME NEW c \in Conn, PeerClose(c)
      PROVE  StatusInv'
  BY <1>38, QuietLemma DEF PeerClose
<1>39. ASSUME NEW c \in Conn, NEW m \in Msg, Recv(c, m)
      PROVE  StatusInv'
  BY <1>39, QuietLemma DEF Recv, Sends, Goto
<1>40. ASSUME UNCHANGED vars
      PROVE  StatusInv'
  BY <1>40, QuietLemma DEF vars
<1>61. ASSUME NEW c \in Conn, RejectBody(c)
      PROVE  StatusInv'
  BY <1>61, QuietLemma DEF RejectBody, Goto
<1>62. ASSUME NEW c \in Conn, NEW m \in Msg, Garble(c, m)
      PROVE  StatusInv'
  BY <1>62, QuietLemma DEF Garble, Sends, Goto
<1>41. ASSUME NEW c \in Conn, Connected(c)
      PROVE  StatusInv'
  BY <1>41, QuietLemma DEF Connected, Goto
<1> HIDE DEF TypeOK, StatusInv, HandleInv, MainPC, Msg, appVars, aiuiVars, httpVars, peerVars, Handling
<1> QED
  BY <1>1, <1>2, <1>3, <1>4, <1>5, <1>6, <1>7, <1>8, <1>9, <1>10, <1>11,
     <1>12, <1>13, <1>14, <1>15, <1>16, <1>17, <1>18, <1>19, <1>20, <1>21,
     <1>22, <1>23, <1>24, <1>25, <1>26, <1>27, <1>28, <1>29, <1>30, <1>31,
     <1>32, <1>33, <1>34, <1>35, <1>36, <1>37, <1>38, <1>39, <1>40, <1>41,
     <1>61, <1>62
        DEF Next, MainStep, MainCall, SenderStep, ThreadStep, Terminated

LEMMA SpeechPreserved ==
  ASSUME TypeOK, HandleInv, ThreadInv, SpeechInv, [Next]_vars
  PROVE  SpeechInv'
<1> USE SessionAssumption DEF TypeOK, SpeechInv, HandleInv, ThreadInv, MainPC, Msg, appVars, aiuiVars, httpVars, peerVars, Handling
<1>1. ASSUME WaitOver
      PROVE  SpeechInv'
  BY <1>1, QuietLemma DEF WaitOver
<1>2. ASSUME Free
      PROVE  SpeechInv'
  BY <1>2, QuietLemma DEF Free
<1>3. ASSUME Reset
      PROVE  SpeechInv'
  BY <1>3, QuietLemma DEF Reset
<1>4. ASSUME ConnectFails
      PROVE  SpeechInv'
  BY <1>4, QuietLemma DEF ConnectFails
<1>5. ASSUME Assign
      PROVE  SpeechInv'
  BY <1>5, QuietLemma DEF Assign
<1>6. ASSUME Request
      PROVE  SpeechInv'
  BY <1>6, QuietLemma DEF Request
<1>7. ASSUME Await
      PROVE  SpeechInv'
  BY <1>7, QuietLemma DEF Await
<1>8. ASSUME Timeout
      PROVE  SpeechInv'
  BY <1>8, QuietLemma DEF Timeout
<1>9. ASSUME Expire
      PROVE  SpeechInv'
  BY <1>9, QuietLemma DEF Expire
<1>10. ASSUME SendFrame
      PROVE  SpeechInv'
  BY <1>10, QuietLemma DEF SendFrame, Transmit
<1>11. ASSUME StopMark
      PROVE  SpeechInv'
  BY <1>11, QuietLemma DEF StopMark
<1>12. ASSUME StopFrame
      PROVE  SpeechInv'
  BY <1>12, QuietLemma DEF StopFrame, Transmit
<1>13. ASSUME UninitCall
      PROVE  SpeechInv'
  BY <1>13, QuietLemma DEF UninitCall, Disconnect
<1>14. ASSUME SendCall
      PROVE  SpeechInv'
  BY <1>14, QuietLemma DEF SendCall
<1>15. ASSUME StopCall
      PROVE  SpeechInv'
  BY <1>15, QuietLemma DEF StopCall
<1>16. ASSUME SenderGate
      PROVE  SpeechInv'
  BY <1>16, QuietLemma DEF SenderGate
<1>17. ASSUME SenderCheck
      PROVE  SpeechInv'
  BY <1>17, QuietLemma DEF SenderCheck
<1>18. ASSUME SenderUse
      PROVE  SpeechInv'
  BY <1>18, QuietLemma DEF SenderUse, Transmit
<1>19. ASSUME NEW m \in Modes, StartCall(m)
      PROVE  SpeechInv'
  BY <1>19, QuietLemma DEF StartCall, Disconnect
<1>20. ASSUME NEW c \in Conn, Connect(c)
      PROVE  SpeechInv'
  BY <1>20, QuietLemma DEF Connect
<1>21. ASSUME NEW c \in Conn, LoopExit(c)
      PROVE  SpeechInv'
  BY <1>21, QuietLemma DEF LoopExit, Goto, Reads
<1>22. ASSUME NEW c \in Conn, LoopRecv(c)
      PROVE  SpeechInv'
  BY <1>22, QuietLemma DEF LoopRecv, Goto, Reads
<1>23. ASSUME NEW c \in Conn, RecvNothing(c)
      PROVE  SpeechInv'
  BY <1>23, QuietLemma DEF RecvNothing, Goto
<1>24. ASSUME NEW c \in Conn, RecvReject(c)
      PROVE  SpeechInv'
  BY <1>24, QuietLemma DEF RecvReject, Goto
<1>25. ASSUME NEW c \in Conn, Started(c)
      PROVE  SpeechInv'
  BY <1>25, QuietLemma DEF Started, Goto
<1>26. ASSUME NEW c \in Conn, Post(c)
      PROVE  SpeechInv'
  BY <1>26, QuietLemma DEF Post, Goto
<1>27. ASSUME NEW c \in Conn, Vad(c)
      PROVE  SpeechInv'
  BY <1>27, QuietLemma DEF Vad, Goto
<1>28. ASSUME NEW c \in Conn, VadStop(c)
      PROVE  SpeechInv'
  BY <1>28, QuietLemma DEF VadStop, Goto
<1>29. ASSUME NEW c \in Conn, VadEnd(c)
      PROVE  SpeechInv'
  BY <1>29, QuietLemma DEF VadEnd, Goto, Transmit
<1>30. ASSUME NEW c \in Conn, VadMark(c)
      PROVE  SpeechInv'
  BY <1>30, QuietLemma DEF VadMark, Goto
<1>31. ASSUME NEW c \in Conn, Tts(c)
      PROVE  SpeechInv'
  BY <1>31, QuietLemma DEF Tts, Goto
<1>32. ASSUME NEW c \in Conn, Finish(c)
      PROVE  SpeechInv'
  BY <1>32, QuietLemma DEF Finish, Goto
<1>33. ASSUME NEW c \in Conn, Exit(c)
      PROVE  SpeechInv'
  BY <1>33, QuietLemma DEF Exit, Goto
<1>34. ASSUME NEW c \in Conn, ExitQuiet(c)
      PROVE  SpeechInv'
  BY <1>34, QuietLemma DEF ExitQuiet, Goto, Reads
<1>35. ASSUME NEW c \in Conn, ExitReport(c)
      PROVE  SpeechInv'
  BY <1>35, QuietLemma DEF ExitReport, Goto, Reads
<1>36. ASSUME NEW c \in Conn, ClosedSession(c)
      PROVE  SpeechInv'
  BY <1>36, QuietLemma DEF ClosedSession, Goto
<1>37. ASSUME NEW c \in Conn, ClosedConnect(c)
      PROVE  SpeechInv'
  BY <1>37, QuietLemma DEF ClosedConnect, Goto
<1>38. ASSUME NEW c \in Conn, PeerClose(c)
      PROVE  SpeechInv'
  BY <1>38, QuietLemma DEF PeerClose
<1>39. ASSUME NEW c \in Conn, NEW m \in Msg, Recv(c, m)
      PROVE  SpeechInv'
  BY <1>39, QuietLemma DEF Recv, Sends, Goto
<1>40. ASSUME UNCHANGED vars
      PROVE  SpeechInv'
  BY <1>40, QuietLemma DEF vars
<1>61. ASSUME NEW c \in Conn, RejectBody(c)
      PROVE  SpeechInv'
  BY <1>61, QuietLemma DEF RejectBody, Goto
<1>62. ASSUME NEW c \in Conn, NEW m \in Msg, Garble(c, m)
      PROVE  SpeechInv'
  BY <1>62, QuietLemma DEF Garble, Sends, Goto
<1>41. ASSUME NEW c \in Conn, Connected(c)
      PROVE  SpeechInv'
  BY <1>41, QuietLemma DEF Connected, Goto
<1> HIDE DEF TypeOK, SpeechInv, HandleInv, ThreadInv, MainPC, Msg, appVars, aiuiVars, httpVars, peerVars, Handling
<1> QED
  BY <1>1, <1>2, <1>3, <1>4, <1>5, <1>6, <1>7, <1>8, <1>9, <1>10, <1>11,
     <1>12, <1>13, <1>14, <1>15, <1>16, <1>17, <1>18, <1>19, <1>20, <1>21,
     <1>22, <1>23, <1>24, <1>25, <1>26, <1>27, <1>28, <1>29, <1>30, <1>31,
     <1>32, <1>33, <1>34, <1>35, <1>36, <1>37, <1>38, <1>39, <1>40, <1>41,
     <1>61, <1>62
        DEF Next, MainStep, MainCall, SenderStep, ThreadStep, Terminated

-----------------------------------------------------------------------------
(* The theorems.                                                            *)

LEMMA InitIInv == Init => IInv
<1> SUFFICES ASSUME Init PROVE IInv
  OBVIOUS
<1>1. TypeOK
  BY DEF Init, TypeOK, MainPC, ThreadPC, Mode
<1>2. HandleInv /\ ThreadInv
  BY SessionAssumption DEF Init, HandleInv, ThreadInv, Handling
<1>4. FrameInv
  BY DEF Init, FrameInv
<1>3. StatusInv /\ SpeechInv
  BY DEF Init, StatusInv, SpeechInv
<1> QED  BY <1>1, <1>2, <1>3, <1>4 DEF IInv

LEMMA NextIInv == IInv /\ [Next]_vars => IInv'
  BY TypePreserved, HandlePreserved, ThreadPreserved, FramePreserved,
     StatusPreserved, SpeechPreserved DEF IInv

(* IInv holds in every reachable state, for every set of handles, every     *)
(* mix of demo modes and every set of faults.                               *)
THEOREM Invariance == Spec => []IInv
<1>1. Init => IInv  BY InitIInv
<1>2. IInv /\ [Next]_vars => IInv'  BY NextIInv
<1> QED  BY <1>1, <1>2, PTL DEF Spec

(* Every variable of the session keeps its type. *)
THEOREM TypeCorrect == Spec => []TypeOK
<1>1. IInv => TypeOK  BY DEF IInv
<1> QED  BY <1>1, Invariance, PTL

(* No message is handled for a connection that aiui_start or aiui_uninit    *)
(* has disconnected and freed, and none of its bytes are among those of the *)
(* next, except the body of a rejected upgrade, which may come late.        *)
THEOREM Quiet == Spec => []QuietAfterDisconnect
<1>1. IInv => QuietAfterDisconnect
  BY QuietLemma DEF IInv, FrameInv, QuietAfterDisconnect
<1> QED  BY <1>1, Invariance, PTL

(* A receive thread loops on a freed handle only after a rejected upgrade. *)
THEOREM LoopOutlives == Spec => []LoopOutlivesHandleOnlyIfRejected
<1>1. IInv => LoopOutlivesHandleOnlyIfRejected
  BY DEF IInv, ThreadInv, LoopOutlivesHandleOnlyIfRejected, Receiving,
         Handling, Past
<1> QED  BY <1>1, Invariance, PTL

(* No handle is leaked and none is destroyed twice. *)
THEOREM HandleOwnership == Spec => []NoLeakNoDoubleFree
<1>1. IInv => NoLeakNoDoubleFree
  BY SessionAssumption DEF IInv, TypeOK, HandleInv, NoLeakNoDoubleFree
<1> QED  BY <1>1, Invariance, PTL

(* CONNECTED means that the current connection has been answered. *)
THEOREM ConnectedSound == Spec => []ConnectedMeansAnswered
<1>1. IInv => ConnectedMeansAnswered
  BY SessionAssumption DEF IInv, HandleInv, StatusInv, ConnectedMeansAnswered
<1> QED  BY <1>1, Invariance, PTL

(* A session gives the audio control a speech url or a NULL, never both. *)
THEOREM SpeechOnce == Spec => []SpeechXorResume
<1>1. IInv => SpeechXorResume
  BY DEF IInv, SpeechInv, SpeechXorResume
<1> QED  BY <1>1, Invariance, PTL

-----------------------------------------------------------------------------
(* The refinement: every step is a step of MessageLink or leaves it alone.  *)

LinkUsed == {c \in Conn : mem[c] # "unused"}

LEMMA LinkStutter ==
  ASSUME Current' = Current, UNCHANGED <<mem, got>>
  PROVE  UNCHANGED Link!linkVars
  BY DEF Link!linkVars

LEMMA LinkInit == Init => Link!Init
  BY DEF Init, Link!Init, Current

LEMMA LinkStep ==
  ASSUME IInv, [Next]_vars
  PROVE  [Link!Next]_(Link!linkVars)
<1> USE SessionAssumption DEF IInv, TypeOK, HandleInv, appVars, aiuiVars, httpVars, peerVars
<1>1. ASSUME WaitOver
      PROVE  [Link!Next]_(Link!linkVars)
  BY <1>1, LinkStutter DEF WaitOver, Current
<1>2. ASSUME ConnectFails
      PROVE  [Link!Next]_(Link!linkVars)
  BY <1>2, LinkStutter DEF ConnectFails, Current
<1>3. ASSUME Assign
      PROVE  [Link!Next]_(Link!linkVars)
  BY <1>3, LinkStutter DEF Assign, Current
<1>4. ASSUME Request
      PROVE  [Link!Next]_(Link!linkVars)
  BY <1>4, LinkStutter DEF Request, Current
<1>5. ASSUME Await
      PROVE  [Link!Next]_(Link!linkVars)
  BY <1>5, LinkStutter DEF Await, Current
<1>6. ASSUME Timeout
      PROVE  [Link!Next]_(Link!linkVars)
  BY <1>6, LinkStutter DEF Timeout, Current
<1>7. ASSUME Expire
      PROVE  [Link!Next]_(Link!linkVars)
  BY <1>7, LinkStutter DEF Expire, Current
<1>8. ASSUME SendFrame
      PROVE  [Link!Next]_(Link!linkVars)
  BY <1>8, LinkStutter DEF SendFrame, Current
<1>9. ASSUME StopMark
      PROVE  [Link!Next]_(Link!linkVars)
  BY <1>9, LinkStutter DEF StopMark, Current
<1>10. ASSUME StopFrame
      PROVE  [Link!Next]_(Link!linkVars)
  BY <1>10, LinkStutter DEF StopFrame, Current
<1>11. ASSUME UninitCall
      PROVE  [Link!Next]_(Link!linkVars)
  BY <1>11, LinkStutter DEF UninitCall, Disconnect, Current
<1>12. ASSUME SendCall
      PROVE  [Link!Next]_(Link!linkVars)
  BY <1>12, LinkStutter DEF SendCall, Current
<1>13. ASSUME StopCall
      PROVE  [Link!Next]_(Link!linkVars)
  BY <1>13, LinkStutter DEF StopCall, Current
<1>14. ASSUME SenderGate
      PROVE  [Link!Next]_(Link!linkVars)
  BY <1>14, LinkStutter DEF SenderGate, Current
<1>15. ASSUME SenderCheck
      PROVE  [Link!Next]_(Link!linkVars)
  BY <1>15, LinkStutter DEF SenderCheck, Current
<1>16. ASSUME SenderUse
      PROVE  [Link!Next]_(Link!linkVars)
  BY <1>16, LinkStutter DEF SenderUse, Current
<1>17. ASSUME NEW m \in Modes, StartCall(m)
      PROVE  [Link!Next]_(Link!linkVars)
  BY <1>17, LinkStutter DEF StartCall, Disconnect, Current
<1>18. ASSUME Reset
      PROVE  [Link!Next]_(Link!linkVars)
  BY <1>18, LinkStutter DEF Reset, Current
<1>19. ASSUME Free
      PROVE  [Link!Next]_(Link!linkVars)
  <2>1. Current # NoConn /\ Current' = NoConn
    BY <1>19 DEF Free, Current
  <2>2. LinkUsed' = LinkUsed
    BY <1>19 DEF Free, LinkUsed
  <2>3. Link!Close
    BY <1>19, <2>1, <2>2 DEF Link!Close, LinkUsed, Free
  <2> QED  BY <2>3 DEF Link!Next
<1>20. ASSUME NEW c \in Conn, Connect(c)
      PROVE  [Link!Next]_(Link!linkVars)
  <2>1. Current = NoConn /\ Current' = c
    BY <1>20 DEF Connect, Current
  <2>2. c \notin LinkUsed /\ LinkUsed' = LinkUsed \cup {c}
    BY <1>20 DEF Connect, LinkUsed
  <2>3. Link!Open(c)
    BY <1>20, <2>1, <2>2 DEF Link!Open, LinkUsed, Connect
  <2> QED  BY <2>3 DEF Link!Next
<1>21. ASSUME NEW c \in Conn, LoopExit(c)
      PROVE  [Link!Next]_(Link!linkVars)
  BY <1>21, LinkStutter DEF LoopExit, Current
<1>22. ASSUME NEW c \in Conn, LoopRecv(c)
      PROVE  [Link!Next]_(Link!linkVars)
  BY <1>22, LinkStutter DEF LoopRecv, Current
<1>23. ASSUME NEW c \in Conn, RecvNothing(c)
      PROVE  [Link!Next]_(Link!linkVars)
  BY <1>23, LinkStutter DEF RecvNothing, Current
<1>24. ASSUME NEW c \in Conn, RecvReject(c)
      PROVE  [Link!Next]_(Link!linkVars)
  BY <1>24, LinkStutter DEF RecvReject, Current
<1>25. ASSUME NEW c \in Conn, Started(c)
      PROVE  [Link!Next]_(Link!linkVars)
  BY <1>25, LinkStutter DEF Started, Current
<1>26. ASSUME NEW c \in Conn, Post(c)
      PROVE  [Link!Next]_(Link!linkVars)
  BY <1>26, LinkStutter DEF Post, Current
<1>27. ASSUME NEW c \in Conn, Vad(c)
      PROVE  [Link!Next]_(Link!linkVars)
  BY <1>27, LinkStutter DEF Vad, Current
<1>28. ASSUME NEW c \in Conn, VadStop(c)
      PROVE  [Link!Next]_(Link!linkVars)
  BY <1>28, LinkStutter DEF VadStop, Current
<1>29. ASSUME NEW c \in Conn, VadEnd(c)
      PROVE  [Link!Next]_(Link!linkVars)
  BY <1>29, LinkStutter DEF VadEnd, Current
<1>30. ASSUME NEW c \in Conn, VadMark(c)
      PROVE  [Link!Next]_(Link!linkVars)
  BY <1>30, LinkStutter DEF VadMark, Current
<1>31. ASSUME NEW c \in Conn, Tts(c)
      PROVE  [Link!Next]_(Link!linkVars)
  BY <1>31, LinkStutter DEF Tts, Current
<1>32. ASSUME NEW c \in Conn, Finish(c)
      PROVE  [Link!Next]_(Link!linkVars)
  BY <1>32, LinkStutter DEF Finish, Current
<1>33. ASSUME NEW c \in Conn, Exit(c)
      PROVE  [Link!Next]_(Link!linkVars)
  BY <1>33, LinkStutter DEF Exit, Current
<1>34. ASSUME NEW c \in Conn, ExitQuiet(c)
      PROVE  [Link!Next]_(Link!linkVars)
  BY <1>34, LinkStutter DEF ExitQuiet, Current
<1>35. ASSUME NEW c \in Conn, ExitReport(c)
      PROVE  [Link!Next]_(Link!linkVars)
  BY <1>35, LinkStutter DEF ExitReport, Current
<1>36. ASSUME NEW c \in Conn, ClosedSession(c)
      PROVE  [Link!Next]_(Link!linkVars)
  BY <1>36, LinkStutter DEF ClosedSession, Current
<1>37. ASSUME NEW c \in Conn, ClosedConnect(c)
      PROVE  [Link!Next]_(Link!linkVars)
  BY <1>37, LinkStutter DEF ClosedConnect, Current
<1>38. ASSUME NEW c \in Conn, PeerClose(c)
      PROVE  [Link!Next]_(Link!linkVars)
  BY <1>38, LinkStutter DEF PeerClose, Current
<1>39. ASSUME NEW c \in Conn, NEW m \in Msg, Recv(c, m)
      PROVE  [Link!Next]_(Link!linkVars)
  <2>3. Current = c
    BY <1>39 DEF Recv, Sends, Current, ThreadInv, Past
  <2>4. Current' = Current
    BY <1>39 DEF Recv, Current
  <2>5. Link!Deliver(c, m)
    BY <1>39, <2>3, <2>4 DEF Link!Deliver, Recv, Sends
  <2> QED  BY <2>5 DEF Link!Next
<1>40. ASSUME UNCHANGED vars
      PROVE  [Link!Next]_(Link!linkVars)
  BY <1>40, LinkStutter DEF vars, Current
<1>61. ASSUME NEW c \in Conn, RejectBody(c)
      PROVE  [Link!Next]_(Link!linkVars)
  BY <1>61, LinkStutter DEF RejectBody, Current
<1>62. ASSUME NEW c \in Conn, NEW m \in Msg, Garble(c, m)
      PROVE  [Link!Next]_(Link!linkVars)
  <2>3. Current = c
    BY <1>62 DEF Garble, Sends, Current, ThreadInv, Past
  <2>4. Current' = Current
    BY <1>62 DEF Garble, Current
  <2>5. Link!Deliver(c, m)
    BY <1>62, <2>3, <2>4 DEF Link!Deliver, Garble, Sends
  <2> QED  BY <2>5 DEF Link!Next
<1>41. ASSUME NEW c \in Conn, Connected(c)
      PROVE  [Link!Next]_(Link!linkVars)
  BY <1>41, LinkStutter DEF Connected, Current
<1> HIDE DEF IInv, TypeOK, HandleInv, appVars, aiuiVars, httpVars, peerVars
<1> QED
  BY <1>1, <1>2, <1>3, <1>4, <1>5, <1>6, <1>7, <1>8, <1>9, <1>10, <1>11,
     <1>12, <1>13, <1>14, <1>15, <1>16, <1>17, <1>18, <1>19, <1>20, <1>21,
     <1>22, <1>23, <1>24, <1>25, <1>26, <1>27, <1>28, <1>29, <1>30, <1>31,
     <1>32, <1>33, <1>34, <1>35, <1>36, <1>37, <1>38, <1>39, <1>40, <1>41,
     <1>61, <1>62
        DEF Next, MainStep, MainCall, SenderStep, ThreadStep, Terminated

(* The SDK's three lower layers implement MessageLink. *)
THEOREM Refinement == Spec => LinkSpec
<1>1. Init => Link!Init  BY LinkInit
<1>2. IInv /\ [Next]_vars => [Link!Next]_(Link!linkVars)  BY LinkStep
<1> QED  BY <1>1, <1>2, Invariance, PTL DEF Spec, LinkSpec, Link!Spec

-----------------------------------------------------------------------------
(* What the wait of aiui_http_destroy_request rests on: the thread it waits *)
(* for was told to stop, was started, and sets is_over before anything else *)
(* once it has left its loop.                                               *)
CloseTold == main = "wait" => stop[http] /\ sock[http] = "shut"

Flagged ==
  \A c \in Conn :
    /\ thr[c] \in Past => over[c]
    /\ mem[c] = "live" => thr[c] # "none"

(* While main waits for is_over the receive thread is on its way to set it. *)
WaitNotStranded ==
  main = "wait" /\ ~over[http] =>
    /\ stop[http] /\ sock[http] = "shut"
    /\ thr[http] \in Receiving \cup {"exit"}

LEMMA ToldPreserved ==
  ASSUME TypeOK, HandleInv, CloseTold, [Next]_vars
  PROVE  CloseTold'
<1> USE DEF appVars, aiuiVars, httpVars, peerVars
<1>1. CASE MainStep \/ SendCall \/ StopCall
  <2>1. main' # "wait"
    BY <1>1 DEF MainStep, WaitOver, Free, Reset, ConnectFails, Assign, Request, Await, Timeout,
                Expire, SendFrame, StopMark, StopFrame, Connect, SendCall, StopCall
  <2>2. QED BY <2>1 DEF CloseTold
<1>2. CASE UninitCall \/ \E m \in Modes : StartCall(m)
  <2>1. PICK next \in {"reset", "gone"} : Disconnect(next)
    BY <1>2 DEF UninitCall, StartCall
  <2>2. http' = http
    BY <1>2 DEF UninitCall, StartCall
  <2>3. CASE http = NoConn
    BY <2>1, <2>3 DEF Disconnect, CloseTold
  <2>4. CASE http # NoConn
    <3>1. http \in Conn
      BY <2>4 DEF TypeOK
    <3>2. QED BY <2>1, <2>2, <2>4, <3>1 DEF Disconnect, CloseTold, TypeOK
  <2>5. QED BY <2>3, <2>4
<1>3. ASSUME NEW c \in Conn, PeerClose(c) PROVE CloseTold'
  <2>1. UNCHANGED <<main, http, stop>> /\ sock[c] = "up"
    BY <1>3 DEF PeerClose
  <2>2. \A d \in Conn : d # c => sock'[d] = sock[d]
    BY <1>3 DEF PeerClose, TypeOK
  <2>3. main = "wait" => http \in Conn
    BY DEF HandleInv
  <2>4. QED BY <2>1, <2>2, <2>3 DEF CloseTold
<1>4. CASE UNCHANGED <<main, http, stop, sock>>
  BY <1>4 DEF CloseTold
<1>5. CASE SenderStep \/ Terminated \/ UNCHANGED vars
  BY <1>4, <1>5 DEF SenderStep, SenderGate, SenderCheck, SenderUse, Terminated, vars
<1>6. ASSUME NEW c \in Conn, ThreadStep(c) PROVE CloseTold'
  <2>1. UNCHANGED <<main, http, stop, sock>>
    BY <1>6 DEF ThreadStep, LoopExit, LoopRecv, RecvNothing, RecvReject, RejectBody, Recv,
                Garble, Sends, Connected, Started,
                Post, Vad, VadStop, VadEnd, VadMark, Tts, Finish, Exit, ExitQuiet, ExitReport,
                ClosedSession, ClosedConnect
  <2>2. QED BY <1>4, <2>1
<1>7. QED BY <1>1, <1>2, <1>3, <1>5, <1>6 DEF Next, MainCall

LEMMA FlaggedPreserved ==
  ASSUME TypeOK, Flagged, [Next]_vars
  PROVE  Flagged'
<1> USE DEF appVars, aiuiVars, httpVars, peerVars
<1>1. CASE Free
  <2>1. UNCHANGED <<thr, over>> /\ \A c \in Conn : mem'[c] = "live" => mem[c] = "live"
    BY <1>1 DEF Free, TypeOK
  <2>2. QED BY <2>1 DEF Flagged
<1>2. ASSUME NEW c \in Conn, Connect(c) PROVE Flagged'
  <2>1. /\ UNCHANGED over
        /\ \A d \in Conn : \/ d = c /\ thr'[d] = "loop"
                           \/ thr'[d] = thr[d] /\ mem'[d] = mem[d]
    BY <1>2 DEF Connect, TypeOK
  <2>2. QED BY <2>1 DEF Flagged, Past
<1>3. CASE UNCHANGED <<mem, thr, over>>
  BY <1>3 DEF Flagged
<1>4. CASE MainCall
  BY <1>3, <1>4 DEF MainCall, StartCall, UninitCall, SendCall, StopCall
<1>5. CASE SenderStep \/ Terminated \/ UNCHANGED vars
  BY <1>3, <1>5 DEF SenderStep, SenderGate, SenderCheck, SenderUse, Terminated, vars
<1>6. CASE \/ WaitOver \/ Reset \/ ConnectFails \/ Assign \/ Request \/ Await \/ Timeout
           \/ Expire \/ SendFrame \/ StopMark \/ StopFrame \/ \E c \in Conn : PeerClose(c)
  BY <1>3, <1>6 DEF WaitOver, Reset, ConnectFails, Assign, Request, Await, Timeout, Expire,
                    SendFrame, StopMark, StopFrame, PeerClose
<1>7. ASSUME NEW c \in Conn, ThreadStep(c) PROVE Flagged'
  <2>1. UNCHANGED mem
    BY <1>7 DEF ThreadStep, LoopExit, LoopRecv, RecvNothing, RecvReject, RejectBody, Recv,
                Garble, Sends, Connected, Started,
                Post, Vad, VadStop, VadEnd, VadMark, Tts, Finish, Exit, ExitQuiet, ExitReport,
                ClosedSession, ClosedConnect
  <2>2. PICK label : thr' = [thr EXCEPT ![c] = label]
    BY <1>7 DEF ThreadStep, LoopExit, LoopRecv, RecvNothing, RecvReject, RejectBody, Recv,
                Garble, Sends, Connected, Started,
                Post, Vad, VadStop, VadEnd, VadMark, Tts, Finish, Exit, ExitQuiet, ExitReport,
                ClosedSession, ClosedConnect, Goto
  <2>3. \A d \in Conn : over[d] => over'[d]
    BY <1>7 DEF ThreadStep, LoopExit, LoopRecv, RecvNothing, RecvReject, RejectBody, Recv,
                Garble, Sends, Connected, Started,
                Post, Vad, VadStop, VadEnd, VadMark, Tts, Finish, Exit, ExitQuiet, ExitReport,
                ClosedSession, ClosedConnect, TypeOK
  <2>4. thr'[c] # "none" /\ (thr'[c] \in Past => over'[c])
    <3> USE DEF Goto, TypeOK, Past, Msg
    <3>1. CASE \/ LoopExit(c) \/ LoopRecv(c) \/ RecvNothing(c) \/ RecvReject(c)
               \/ RejectBody(c) \/ \E m \in Msg : Recv(c, m) \/ Garble(c, m)
      BY <3>1 DEF LoopExit, LoopRecv, RecvNothing, RecvReject, RejectBody, Recv, Garble
    <3>2. CASE \/ Connected(c) \/ Started(c) \/ Post(c) \/ Vad(c) \/ VadStop(c) \/ VadEnd(c)
               \/ VadMark(c) \/ Tts(c) \/ Finish(c)
      BY <3>2 DEF Connected, Started, Post, Vad, VadStop, VadEnd, VadMark, Tts, Finish
    <3>3. CASE Exit(c)
      BY <3>3 DEF Exit
    <3>4. CASE ExitQuiet(c) \/ ExitReport(c) \/ ClosedSession(c) \/ ClosedConnect(c)
      BY <3>4 DEF ExitQuiet, ExitReport, ClosedSession, ClosedConnect, Flagged
    <3>5. QED BY <1>7, <3>1, <3>2, <3>3, <3>4 DEF ThreadStep
  <2>5. \A d \in Conn : d # c => thr'[d] = thr[d]
    BY <2>2 DEF TypeOK
  <2>6. QED BY <2>1, <2>3, <2>4, <2>5 DEF Flagged
<1>8. QED BY <1>1, <1>2, <1>4, <1>5, <1>6, <1>7 DEF Next, MainStep

(* The wait of aiui_start and aiui_uninit for is_over is never stranded:    *)
(* the thread that sets it runs, was told to stop and finds its socket shut *)
(* down, for any number of handles and whatever the peer does.              *)
THEOREM WaitAlways == Spec => []WaitNotStranded
<1>1. Init => CloseTold /\ Flagged
  BY DEF Init, CloseTold, Flagged, Past
<1>2. IInv /\ CloseTold /\ Flagged /\ [Next]_vars => CloseTold' /\ Flagged'
  BY ToldPreserved, FlaggedPreserved DEF IInv
<1>3. IInv /\ CloseTold /\ Flagged => WaitNotStranded
  <2> SUFFICES ASSUME IInv, CloseTold, Flagged, main = "wait", ~over[http]
               PROVE  stop[http] /\ sock[http] = "shut" /\ thr[http] \in Receiving \cup {"exit"}
    BY DEF WaitNotStranded
  <2>1. http \in Conn /\ mem[http] = "live"
    BY DEF IInv, HandleInv
  <2>2. thr[http] \in ThreadPC /\ thr[http] \notin Past /\ thr[http] # "none"
    BY <2>1 DEF IInv, TypeOK, Flagged
  <2>3. QED BY <2>2 DEF CloseTold, ThreadPC, Past
<1>4. QED BY <1>1, <1>2, <1>3, Invariance, PTL DEF Spec

-----------------------------------------------------------------------------
(* When aiui_start's 0 means a started session: without a time-out and an   *)
(* error answer every post is the STARTED of the connection main waits on,  *)
(* and main leaves the wait only by taking it.                              *)
PromptCloud == Faults \cap {"timeout", "error"} = {}

Answered ==
  /\ op = "uninit" => main \in {"wait", "free", "gone"}
  /\ sem \in 0 .. 1
  /\ sem > 0 => op = "uninit" \/ (main = "await" /\ "started" \in got[http])
  /\ \A c \in Conn :
       /\ thr[c] # "error"
       /\ thr[c] \in {"started", "post"} =>
            main = "await" /\ c = http /\ sem = 0 /\ "started" \in got[c]
  /\ http \in Conn /\ main # "await" /\ asked[http] => "started" \in got[http]

LEMMA AnsweredThread ==
  ASSUME PromptCloud, TypeOK, HandleInv, ThreadInv, Answered, NEW c \in Conn, ThreadStep(c)
  PROVE  Answered'
<1> USE DEF appVars, aiuiVars, httpVars, peerVars
<1>1. UNCHANGED <<main, op, http, asked>>
  BY DEF ThreadStep, LoopExit, LoopRecv, RecvNothing, RecvReject, RejectBody, Recv,
                Garble, Sends, Connected, Started,
         Post, Vad, VadStop, VadEnd, VadMark, Tts, Finish, Exit, ExitQuiet, ExitReport,
         ClosedSession, ClosedConnect
<1>2. \A d \in Conn : d # c => thr'[d] = thr[d]
  BY DEF ThreadStep, LoopExit, LoopRecv, RecvNothing, RecvReject, RejectBody, Recv,
                Garble, Sends, Connected, Started,
         Post, Vad, VadStop, VadEnd, VadMark, Tts, Finish, Exit, ExitQuiet, ExitReport,
         ClosedSession, ClosedConnect, Goto, TypeOK
<1>3. http = NoConn \/ http \in Conn
  BY DEF TypeOK
<1>4. CASE \E m \in Msg : Recv(c, m)
  <2>1. PICK m \in Msg : Recv(c, m)
    BY <1>4
  <2>2. /\ UNCHANGED sem /\ thr'[c] = m /\ m # "error"
        /\ \A d \in Conn : got[d] \subseteq got'[d]
        /\ m = "started" => "started" \in got'[c] /\ "started" \notin got[c]
    BY <2>1 DEF Recv, Sends, Goto, TypeOK, PromptCloud, Msg
  <2>3. c = http
    BY <2>1, CurrentReceives DEF Recv, Sends, Receiving
  <2>4. m = "started" => main = "await" /\ sem = 0
    <3>1. asked[c]
      BY <2>1 DEF Recv, Sends
    <3>2. QED BY <2>2, <2>3, <3>1 DEF Answered
  <2>5. m # "post"
    BY DEF Msg
  <2>6. QED BY <1>1, <1>2, <1>3, <2>2, <2>3, <2>4, <2>5 DEF Answered
<1>9. CASE \E m \in Msg : Garble(c, m)
  <2>1. PICK m \in Msg : Garble(c, m)
    BY <1>9
  <2>2. /\ UNCHANGED sem /\ thr'[c] = "recv"
        /\ \A d \in Conn : got[d] \subseteq got'[d]
    BY <2>1 DEF Garble, Sends, Goto, TypeOK
  <2>3. c = http
    BY <2>1, CurrentReceives DEF Garble, Sends, Receiving
  <2>4. QED BY <1>1, <1>2, <2>2, <2>3 DEF Answered
<1>5. CASE Started(c)
  <2>1. UNCHANGED <<sem, got>> /\ thr[c] = "started" /\ thr'[c] = "post"
    BY <1>5 DEF Started, Goto, TypeOK
  <2>2. QED BY <1>1, <1>2, <2>1 DEF Answered
<1>6. CASE Post(c)
  <2>1. UNCHANGED got /\ sem' = sem + 1 /\ thr[c] \in {"post", "error"} /\ thr'[c] = "recv"
    BY <1>6 DEF Post, Goto, TypeOK
  <2>2. main = "await" /\ c = http /\ sem = 0 /\ "started" \in got[c]
    BY <2>1 DEF Answered
  <2>3. \A d \in Conn : d # c => thr[d] \notin {"started", "post"}
    BY <2>2 DEF Answered
  <2>4. QED BY <1>1, <1>2, <2>1, <2>2, <2>3 DEF Answered
<1>7. CASE \/ LoopExit(c) \/ LoopRecv(c) \/ RecvNothing(c) \/ RecvReject(c)
           \/ RejectBody(c) \/ Connected(c) \/ Vad(c) \/ VadStop(c) \/ VadEnd(c) \/ VadMark(c)
           \/ Tts(c) \/ Finish(c) \/ Exit(c) \/ ExitQuiet(c) \/ ExitReport(c)
           \/ ClosedSession(c) \/ ClosedConnect(c)
  <2>1. UNCHANGED <<sem, got>> /\ thr'[c] \notin {"started", "post", "error"}
    BY <1>7 DEF LoopExit, LoopRecv, RecvNothing, RecvReject, RejectBody, Connected, Vad, VadStop, VadEnd,
                VadMark, Tts, Finish, Exit, ExitQuiet, ExitReport, ClosedSession, ClosedConnect,
                Goto, TypeOK
  <2>2. QED BY <1>1, <1>2, <2>1 DEF Answered
<1>8. QED BY <1>4, <1>5, <1>6, <1>7, <1>9 DEF ThreadStep

LEMMA AnsweredMain ==
  ASSUME PromptCloud, TypeOK, HandleInv, Answered, MainStep \/ MainCall
  PROVE  Answered'
<1> USE DEF appVars, aiuiVars, httpVars, peerVars
<1>1. CASE \/ WaitOver \/ Free \/ ConnectFails \/ Expire \/ SendFrame \/ StopMark \/ StopFrame
           \/ SendCall \/ StopCall
  <2>1. /\ UNCHANGED <<op, sem, got, thr, http, asked>>
        /\ main # "await" /\ main' # "await"
        /\ main = "wait" => main' = "free"
        /\ main = "free" /\ op = "uninit" => main' = "gone"
        /\ main # "gone"
    BY <1>1 DEF WaitOver, Free, ConnectFails, Expire, SendFrame, StopMark, StopFrame,
                SendCall, StopCall, TypeOK
  <2>2. QED BY <2>1 DEF Answered
<1>2. CASE Reset
  <2>1. /\ UNCHANGED <<op, sem, got, thr, asked>> /\ http' = NoConn
        /\ main = "reset" /\ main' = "connect"
    BY <1>2 DEF Reset
  <2>2. QED BY <2>1, SessionAssumption DEF Answered
<1>3. ASSUME NEW c \in Conn, Connect(c) PROVE Answered'
  <2>1. /\ UNCHANGED <<op, sem, got, http, asked>>
        /\ main = "connect" /\ main' = "assign"
        /\ \A d \in Conn : thr'[d] = thr[d] \/ thr'[d] = "loop"
    BY <1>3 DEF Connect, HandleInv, TypeOK
  <2>2. QED BY <2>1 DEF Answered
<1>4. CASE Assign
  <2>1. /\ UNCHANGED <<op, sem, got, thr, asked>> /\ http' = fresh
        /\ main = "assign" /\ main' = "request" /\ ~asked[fresh]
    BY <1>4 DEF Assign, HandleInv
  <2>2. QED BY <2>1 DEF Answered
<1>5. CASE Request
  <2>1. UNCHANGED <<op, sem, got, thr, http>> /\ main = "request" /\ main' = "await"
    BY <1>5 DEF Request
  <2>2. QED BY <2>1 DEF Answered
<1>6. CASE Await
  <2>1. /\ UNCHANGED <<op, got, thr, http, asked>> /\ sem' = sem - 1 /\ sem > 0
        /\ main = "await" /\ main' = "idle"
    BY <1>6 DEF Await
  <2>2. sem = 1 /\ op # "uninit" /\ "started" \in got[http]
    BY <2>1 DEF Answered
  <2>3. QED BY <2>1, <2>2 DEF Answered
<1>7. ~Timeout
  BY DEF Timeout, PromptCloud
<1>8. CASE UninitCall
  <2>1. /\ UNCHANGED <<got, thr, http, asked>> /\ op' = "uninit" /\ sem' = sem + 1
        /\ main = "idle" /\ main' \in {"wait", "gone"}
    BY <1>8 DEF UninitCall, Disconnect
  <2>2. sem = 0
    BY <2>1 DEF Answered
  <2>3. QED BY <2>1, <2>2 DEF Answered
<1>9. CASE \E m \in Modes : StartCall(m)
  <2>1. /\ UNCHANGED <<sem, got, thr, http, asked>> /\ op' = "start"
        /\ main = "idle" /\ main' \in {"wait", "reset"}
    BY <1>9 DEF StartCall, Disconnect
  <2>2. QED BY <2>1 DEF Answered
<1>10. QED BY <1>1, <1>2, <1>3, <1>4, <1>5, <1>6, <1>7, <1>8, <1>9 DEF MainStep, MainCall

LEMMA AnsweredNext ==
  ASSUME PromptCloud, IInv, Answered, [Next]_vars
  PROVE  Answered'
<1> USE DEF appVars, aiuiVars, httpVars, peerVars
<1>1. CASE UNCHANGED <<op, main, sem, got, thr, http, asked>>
  BY <1>1 DEF Answered
<1>2. CASE SenderStep \/ Terminated \/ UNCHANGED vars \/ \E c \in Conn : PeerClose(c)
  BY <1>1, <1>2 DEF SenderStep, SenderGate, SenderCheck, SenderUse, Terminated, vars, PeerClose
<1>3. CASE MainStep \/ MainCall
  BY <1>3, AnsweredMain DEF IInv
<1>4. CASE \E c \in Conn : ThreadStep(c)
  BY <1>4, AnsweredThread DEF IInv
<1>5. QED BY <1>2, <1>3, <1>4 DEF Next

(* aiui_start returns 0 only for a session that has started, if no start    *)
(* times out and the cloud answers no request with an error: those two, and *)
(* nothing else in the interleavings of the threads, break what README.md   *)
(* of the SDK relies on.                                                    *)
THEOREM StartOkAlways ==
  ASSUME PromptCloud
  PROVE  Spec => StartOkMeansStarted
<1>1. Init => Answered
  BY SessionAssumption DEF Init, Answered
<1>2. IInv /\ Answered /\ [Next]_vars => Answered'
  BY AnsweredNext
<1>3. ASSUME IInv, Answered, [Next]_vars, main = "await", main' = "idle"
      PROVE  "started" \in got[http]
  <2>1. CASE Await
    BY <2>1, <1>3 DEF Await, Answered
  <2>2. CASE ~Await
    <3>1. main' # "idle"
      BY <1>3, <2>2 DEF Next, vars, MainStep, MainCall, SenderStep, ThreadStep, Terminated, appVars, WaitOver, Free,
         Reset, ConnectFails, Assign, Request, Timeout, Expire, SendFrame, StopMark, StopFrame,
         Connect, StartCall, UninitCall, SendCall, StopCall, SenderGate, SenderCheck, SenderUse,
         PeerClose, LoopExit, LoopRecv, RecvNothing, RecvReject, RejectBody, Recv,
                Garble, Sends, Connected, Started, Post,
         Vad, VadStop, VadEnd, VadMark, Tts, Finish, Exit, ExitQuiet, ExitReport, ClosedSession,
         ClosedConnect
    <3>2. QED BY <1>3, <3>1
  <2>3. QED BY <2>1, <2>2
<1>4. IInv /\ Answered /\ [Next]_vars =>
        [main = "await" /\ main' = "idle" => "started" \in got[http]]_vars
  BY <1>3
<1>5. QED BY <1>1, <1>2, <1>4, Invariance, PTL DEF Spec, StartOkMeansStarted

-----------------------------------------------------------------------------
(* A receive thread that has ended by itself has left DISCONNECTED behind,  *)
(* and nothing has overwritten it since: the check of aiui_send does not    *)
(* take a connection for open whose thread is gone.                         *)
EndNoticed ==
  Current \in Conn /\ thr[Current] = "done" => connect = "disconnected" \/ stop[Current]

LEMMA EndThread ==
  ASSUME TypeOK, HandleInv, ThreadInv, EndNoticed, NEW c \in Conn, ThreadStep(c)
  PROVE  EndNoticed'
<1> USE DEF appVars, aiuiVars, httpVars, peerVars
<1>1. Current' = Current /\ stop' = stop
  BY DEF ThreadStep, LoopExit, LoopRecv, RecvNothing, RecvReject, RejectBody, Recv,
                Garble, Sends, Connected, Started,
         Post, Vad, VadStop, VadEnd, VadMark, Tts, Finish, Exit, ExitQuiet, ExitReport,
         ClosedSession, ClosedConnect, Current
<1>2. CASE Connected(c) \/ Started(c)
  <2>1. thr[c] \in Handling /\ thr'[c] \in {"recv", "post"}
    BY <1>2 DEF Connected, Started, Goto, Handling, TypeOK
  <2>2. c = http /\ main \notin {"reset", "gone", "connect", "assign"}
    BY <2>1, QuietLemma
  <2>3. Current = c
    BY <2>2 DEF Current
  <2>4. QED BY <1>1, <2>1, <2>3 DEF EndNoticed
<1>3. CASE ClosedConnect(c)
  BY <1>3 DEF ClosedConnect, EndNoticed
<1>4. CASE ExitQuiet(c)
  <2>1. /\ UNCHANGED connect /\ (mem[c] = "freed" \/ stop[c])
        /\ \A d \in Conn : d # c => thr'[d] = thr[d]
    BY <1>4 DEF ExitQuiet, Reads, Goto, TypeOK
  <2>2. c = Current => mem[c] = "live"
    BY SessionAssumption DEF Current, HandleInv
  <2>3. QED BY <1>1, <2>1, <2>2 DEF EndNoticed
<1>5. CASE \/ LoopExit(c) \/ LoopRecv(c) \/ RecvNothing(c) \/ RecvReject(c)
           \/ RejectBody(c) \/ (\E m \in Msg : Recv(c, m) \/ Garble(c, m))
           \/ Post(c) \/ Vad(c) \/ VadStop(c) \/ VadEnd(c) \/ VadMark(c)
           \/ Tts(c) \/ Finish(c) \/ Exit(c) \/ ExitReport(c) \/ ClosedSession(c)
  <2>1. UNCHANGED connect /\ thr'[c] # "done"
    BY <1>5 DEF LoopExit, LoopRecv, RecvNothing, RecvReject, RejectBody, Recv,
                Garble, Sends, Post, Vad, VadStop, VadEnd,
                VadMark, Tts, Finish, Exit, ExitReport, ClosedSession, Goto, TypeOK, Msg
  <2>2. \A d \in Conn : d # c => thr'[d] = thr[d]
    BY <1>5 DEF LoopExit, LoopRecv, RecvNothing, RecvReject, RejectBody, Recv,
                Garble, Sends, Post, Vad, VadStop, VadEnd,
                VadMark, Tts, Finish, Exit, ExitReport, ClosedSession, Goto, TypeOK
  <2>3. QED BY <1>1, <2>1, <2>2 DEF EndNoticed
<1>6. QED BY <1>2, <1>3, <1>4, <1>5 DEF ThreadStep

LEMMA EndMain ==
  ASSUME TypeOK, HandleInv, EndNoticed, MainStep \/ MainCall
  PROVE  EndNoticed'
<1> USE DEF appVars, aiuiVars, httpVars, peerVars
<1>1. CASE UNCHANGED <<Current, thr, connect, stop>>
  BY <1>1 DEF EndNoticed
<1>2. CASE \/ WaitOver \/ Assign \/ Request \/ Await \/ Timeout \/ SendFrame \/ StopMark
           \/ StopFrame \/ SendCall \/ StopCall
  <2>1. UNCHANGED <<Current, thr, connect, stop>>
    BY <1>2 DEF WaitOver, Assign, Request, Await, Timeout, SendFrame, StopMark, StopFrame,
                SendCall, StopCall, Current
  <2>2. QED BY <1>1, <2>1
<1>3. CASE Free \/ Reset \/ ConnectFails
  <2>1. Current' = NoConn
    BY <1>3 DEF Free, Reset, ConnectFails, Current, HandleInv
  <2>2. QED BY <2>1, SessionAssumption DEF EndNoticed
<1>4. CASE Expire
  BY <1>4 DEF Expire, EndNoticed
<1>5. ASSUME NEW c \in Conn, Connect(c) PROVE EndNoticed'
  <2>1. Current' = c /\ thr'[c] = "loop"
    BY <1>5 DEF Connect, Current, HandleInv, TypeOK
  <2>2. QED BY <2>1 DEF EndNoticed
<1>6. CASE UninitCall \/ \E m \in Modes : StartCall(m)
  <2>1. PICK next \in {"reset", "gone"} : Disconnect(next)
    BY <1>6 DEF UninitCall, StartCall
  <2>2. main = "idle" /\ UNCHANGED <<http, thr, connect>>
    BY <1>6 DEF UninitCall, StartCall
  <2>3. CASE http = NoConn
    <3>1. Current' = NoConn
      BY <2>1, <2>2, <2>3 DEF Disconnect, Current
    <3>2. QED BY <3>1, SessionAssumption DEF EndNoticed
  <2>4. CASE http # NoConn
    <3>1. Current' = http /\ stop'[http]
      BY <2>1, <2>2, <2>4 DEF Disconnect, Current, TypeOK
    <3>2. QED BY <3>1 DEF EndNoticed
  <2>5. QED BY <2>3, <2>4
<1>7. QED BY <1>2, <1>3, <1>4, <1>5, <1>6 DEF MainStep, MainCall

LEMMA EndNext ==
  ASSUME IInv, EndNoticed, [Next]_vars
  PROVE  EndNoticed'
<1> USE DEF appVars, aiuiVars, httpVars, peerVars
<1>1. CASE SenderStep \/ Terminated \/ UNCHANGED vars \/ \E c \in Conn : PeerClose(c)
  <2>1. UNCHANGED <<main, http, fresh, thr, connect, stop>>
    BY <1>1 DEF SenderStep, SenderGate, SenderCheck, SenderUse, Terminated, vars, PeerClose
  <2>2. QED BY <2>1 DEF EndNoticed, Current
<1>2. CASE MainStep \/ MainCall
  BY <1>2, EndMain DEF IInv
<1>3. CASE \E c \in Conn : ThreadStep(c)
  BY <1>3, EndThread DEF IInv
<1>4. QED BY <1>1, <1>2, <1>3 DEF Next

(* The end of a connection that nobody stopped is never overlooked, for any *)
(* set of handles, modes and faults (_aiui_closed, aiui_start).             *)
THEOREM EndNoticedAlways == Spec => []EndNoticed
<1>1. Init => EndNoticed
  BY SessionAssumption DEF Init, EndNoticed, Current
<1>2. IInv /\ EndNoticed /\ [Next]_vars => EndNoticed'
  BY EndNext
<1>3. QED BY <1>1, <1>2, Invariance, PTL DEF Spec
=============================================================================
