------------------------- MODULE DemoThreads_proofs -------------------------
(* Proofs about DemoThreads: types, and the one thread that q always        *)
(* reaches, for rings of any size, any number of sessions and any commands. *)
EXTENDS DemoThreads, TLAPS

(* A step of one thread moves its own control only; how it is typed.        *)
LEMMA GotoType ==
  ASSUME pc \in [Thread -> PC], NEW t \in Thread, NEW label \in PC, Goto(t, label)
  PROVE  pc' \in [Thread -> PC]
BY DEF Goto

LEMMA PostType ==
  ASSUME sem \in [Sem -> Nat], NEW s \in Sem, Post(s)
  PROVE  sem' \in [Sem -> Nat]
BY DEF Post

(* A semaphore is taken only when it has a post.                            *)
LEMMA TakeType ==
  ASSUME sem \in [Sem -> Nat], NEW s \in Sem, sem[s] > 0, Take(s)
  PROVE  sem' \in [Sem -> Nat]
<1>1. sem[s] - 1 \in Nat
  OBVIOUS
<1>2. QED BY <1>1 DEF Take

LEMMA StoredType ==
  ASSUME NEW frames \in 0 .. Room
  PROVE  Stored(frames) \in 0 .. Room
BY ThreadsAssumption DEF Stored

LEMMA TypeInit == Init => TypeOK
<1> SUFFICES ASSUME Init PROVE TypeOK
  OBVIOUS
<1>1. pc \in [Thread -> PC]
  BY DEF Init, PC
<1>2. left \in [Thread -> Nat] /\ sem \in [Sem -> Nat]
  BY DEF Init
<1>3. captured \in 0 .. Room /\ iat \in 0 .. Room /\ talks \in 0 .. MaxTalks
  BY ThreadsAssumption DEF Init
<1>4. QED BY <1>1, <1>2, <1>3 DEF Init, TypeOK

(* The semaphore calls, which several threads share.                        *)
LEMMA TypeSemaphores ==
  ASSUME TypeOK, NEW t \in Thread,
         \/ Value(t) \/ Drain(t) \/ Drained(t)
         \/ t \in Worker \ {"capture"} /\ Wait(t)
  PROVE  TypeOK'
<1> USE DEF TypeOK, env, ctl
<1>1. Cleared(t) \in Sem
  BY DEF Cleared, Sem
<1>2. CASE Value(t)
  <2>1. pc' \in [Thread -> PC]
    BY <1>2, GotoType DEF Value, PC
  <2>2. sem[Cleared(t)] \in Nat
    BY <1>1
  <2>3. left' \in [Thread -> Nat]
    BY <1>2, <2>2 DEF Value
  <2>4. QED BY <1>2, <2>1, <2>3 DEF Value
<1>3. CASE Drain(t)
  <2>1. sem' \in [Sem -> Nat]
    BY <1>1, <1>3, TakeType DEF Drain
  <2>2. left[t] - 1 \in Nat
    BY <1>3 DEF Drain
  <2>3. left' \in [Thread -> Nat]
    BY <1>3, <2>2 DEF Drain
  <2>4. QED BY <1>3, <2>1, <2>3 DEF Drain
<1>4. CASE Drained(t)
  <2>1. pc' \in [Thread -> PC]
    BY <1>4, GotoType DEF Drained, PC
  <2>2. QED BY <1>4, <2>1 DEF Drained
<1>5. CASE t \in Worker \ {"capture"} /\ Wait(t)
  <2>1. Own(t) \in Sem
    BY <1>5 DEF Own, Worker, Sem
  <2>2. sem' \in [Sem -> Nat]
    BY <1>5, <2>1, TakeType DEF Wait
  <2>3. pc' \in [Thread -> PC]
    BY <1>5, GotoType DEF Wait, PC
  <2>4. QED BY <1>5, <2>2, <2>3 DEF Wait
<1>6. QED BY <1>2, <1>3, <1>4, <1>5

(* The steps of capture, wakeup, send and finish on their own.              *)
LEMMA TypeWorkers ==
  ASSUME TypeOK, NEW t \in Thread,
         \/ Empty(t) \/ StartReal(t) \/ Loop(t)
         \/ Record \/ RecordPost \/ ReadCapture \/ CaeSilent \/ IatStore \/ IatPost
         \/ IvwResult \/ ReadIat \/ FinishCheck
  PROVE  TypeOK'
<1> USE DEF TypeOK, env, ctl
<1>1. "capture" \in Thread /\ "wakeup" \in Thread /\ "send" \in Thread /\ "finish" \in Thread
  BY DEF Thread, Worker
<1>2. pc' \in [Thread -> PC]
  BY <1>1, GotoType DEF Empty, StartReal, Loop, Record, RecordPost, ReadCapture, CaeSilent,
     IatStore, IatPost, IvwResult, ReadIat, FinishCheck, PC
<1>3. sem' \in [Sem -> Nat]
  <2>1. CASE RecordPost
    BY <2>1, PostType DEF RecordPost, Sem
  <2>2. CASE IatPost
    BY <2>2, PostType DEF IatPost, Sem
  <2>3. CASE \/ Empty(t) \/ StartReal(t) \/ Loop(t) \/ Record \/ ReadCapture \/ CaeSilent
             \/ IatStore \/ IvwResult \/ ReadIat \/ FinishCheck
    BY <2>3 DEF Empty, StartReal, Loop, Record, ReadCapture, CaeSilent, IatStore, IvwResult,
       ReadIat, FinishCheck
  <2>4. QED BY <2>1, <2>2, <2>3
<1>4. captured' \in 0 .. Room
  <2>1. CASE Record
    BY <2>1, StoredType DEF Record
  <2>2. CASE Empty(t) \/ ReadCapture
    BY <2>2, ThreadsAssumption DEF Empty, ReadCapture
  <2>3. CASE \/ StartReal(t) \/ Loop(t) \/ RecordPost \/ CaeSilent \/ IatStore \/ IatPost
             \/ IvwResult \/ ReadIat \/ FinishCheck
    BY <2>3 DEF StartReal, Loop, RecordPost, CaeSilent, IatStore, IatPost, IvwResult,
       ReadIat, FinishCheck
  <2>4. QED BY <2>1, <2>2, <2>3
<1>5. iat' \in 0 .. Room
  <2>1. CASE IatStore
    BY <2>1, StoredType DEF IatStore
  <2>2. CASE Empty(t) \/ ReadIat
    BY <2>2, ThreadsAssumption DEF Empty, ReadIat
  <2>3. CASE \/ StartReal(t) \/ Loop(t) \/ Record \/ RecordPost \/ ReadCapture \/ CaeSilent
             \/ IatPost \/ IvwResult \/ FinishCheck
    BY <2>3 DEF StartReal, Loop, Record, RecordPost, ReadCapture, CaeSilent, IatPost,
       IvwResult, FinishCheck
  <2>4. QED BY <2>1, <2>2, <2>3
<1>6. talk' \in {"none", "asked", "sending", "answer"} /\ talks' \in 0 .. MaxTalks
  <2>1. CASE StartReal(t)
    BY <2>1, ThreadsAssumption DEF StartReal, Start
  <2>2. CASE \/ Empty(t) \/ Loop(t) \/ Record \/ RecordPost \/ ReadCapture \/ CaeSilent
             \/ IatStore \/ IatPost \/ IvwResult \/ ReadIat \/ FinishCheck
    BY <2>2 DEF Empty, Loop, Record, RecordPost, ReadCapture, CaeSilent, IatStore, IatPost,
       IvwResult, ReadIat, FinishCheck
  <2>3. QED BY <2>1, <2>2
<1>7. left' \in [Thread -> Nat] /\ ivw' \in BOOLEAN /\ quit' \in BOOLEAN
      /\ startSend' \in BOOLEAN /\ test' \in BOOLEAN
  BY DEF Empty, StartReal, Loop, Record, RecordPost, ReadCapture, CaeSilent, IatStore,
     IatPost, IvwResult, ReadIat, FinishCheck
<1>8. QED BY <1>2, <1>3, <1>4, <1>5, <1>6, <1>7

(* main and the events of the session that runs.                            *)
LEMMA TypeMain ==
  ASSUME TypeOK, QuitPost \/ Join \/ Command \/ Event
  PROVE  TypeOK'
<1> USE DEF TypeOK, env, ctl
<1>1. "main" \in Thread
  BY DEF Thread
<1>2. CASE QuitPost
  <2>1. sem' \in [Sem -> Nat]
    BY <1>2, PostType DEF QuitPost, Sem
  <2>2. pc' \in [Thread -> PC]
    BY <1>1, <1>2, GotoType DEF QuitPost, PC
  <2>3. QED BY <1>2, <2>1, <2>2 DEF QuitPost
<1>3. CASE Join \/ Real \/ Quit
  <2>1. pc' \in [Thread -> PC]
    BY <1>1, <1>3, GotoType DEF Join, Joins, Real, Quit, PC
  <2>2. QED BY <1>3, <2>1 DEF Join, Real, Quit
<1>4. CASE File \/ Text
  <2>1. talk' \in {"none", "asked", "sending", "answer"} /\ talks' \in 0 .. MaxTalks
    BY <1>4, ThreadsAssumption DEF File, Text, Start
  <2>2. QED BY <1>4, <2>1 DEF File, Text
<1>5. CASE StartSend \/ StopSend
  BY <1>5 DEF StartSend, StopSend
<1>6. CASE Finish
  <2>1. sem' \in [Sem -> Nat]
    BY <1>6, PostType DEF Finish, Sem
  <2>2. QED BY <1>6, <2>1 DEF Finish
<1>7. QED BY <1>2, <1>3, <1>4, <1>5, <1>6 DEF Command, Event

LEMMA TypeNext == TypeOK /\ [Next]_vars => TypeOK'
<1> SUFFICES ASSUME TypeOK, [Next]_vars PROVE TypeOK'
  OBVIOUS
<1>1. CASE \E t \in Thread : Step(t)
  BY <1>1, TypeSemaphores, TypeWorkers, TypeMain DEF Step
<1>2. CASE Command \/ Event
  BY <1>2, TypeMain
<1>3. CASE Ended \/ UNCHANGED vars
  BY <1>3 DEF Ended, vars, ctl, env, TypeOK
<1>4. QED BY <1>1, <1>2, <1>3 DEF Next

(* No semaphore is taken below zero and no ring holds more than its size,   *)
(* however the five threads and the events interleave.                      *)
THEOREM TypeCorrect == Spec => []TypeOK
BY TypeInit, TypeNext, PTL DEF Spec

-----------------------------------------------------------------------------
(* main is in its exit only after it has set s_quit, which nobody resets.   *)
Quitting ==
  pc["main"] \in {"quit1", "quit2", "quit3"} \cup Joining => quit

FinishReached == Quitting /\ QuitReachesFinish

(* A step of another thread leaves the control of main and finish alone.    *)
LEMMA GotoOther ==
  ASSUME TypeOK, NEW t \in Thread, NEW label, Goto(t, label), NEW u \in Thread
  PROVE  pc'[u] = IF u = t THEN label ELSE pc[u]
BY DEF Goto, TypeOK

LEMMA Threads ==
  /\ \A t \in Worker : t \in Thread /\ t # "main"
  /\ "main" \in Thread /\ "finish" \in Thread
BY DEF Thread, Worker

(* Only finish_result takes the posts of its semaphore, and only in Wait.   *)
LEMMA FinishOwn ==
  ASSUME TypeOK, NEW t \in Thread,
         \/ Value(t) \/ Drain(t) \/ Drained(t)
         \/ t \in Worker \ {"capture"} /\ Wait(t)
  PROVE  /\ quit' = quit
         /\ pc'["main"] \in {pc["main"], "drain", "empty"}
         /\ \/ pc'["finish"] = "check"
            \/ /\ pc["finish"] \in {"check", "done"} => pc'["finish"] = pc["finish"]
               /\ sem'["finish"] = sem["finish"]
<1> USE Threads, GotoOther
<1>1. CASE Value(t) \/ Drained(t)
  BY <1>1 DEF Value, Drained
<1>2. CASE Drain(t)
  BY <1>2 DEF Drain, Cleared, Take, TypeOK, Sem
<1>3. CASE t \in Worker \ {"capture"} /\ Wait(t)
  <2>1. CASE t = "finish"
    BY <1>3, <2>1 DEF Wait
  <2>2. CASE t # "finish"
    BY <1>3, <2>2 DEF Wait, Own, Take, TypeOK, Sem, Worker
  <2>3. QED BY <2>1, <2>2
<1>4. QED BY <1>1, <1>2, <1>3

LEMMA ReachedSemaphores ==
  ASSUME TypeOK, FinishReached, NEW t \in Thread,
         \/ Value(t) \/ Drain(t) \/ Drained(t)
         \/ t \in Worker \ {"capture"} /\ Wait(t)
  PROVE  FinishReached'
BY FinishOwn DEF FinishReached, Quitting, QuitReachesFinish, Joining

LEMMA ReachedWorkers ==
  ASSUME TypeOK, FinishReached, NEW t \in Thread,
         \/ Empty(t)
         \/ t \in {"main", "wakeup"} /\ StartReal(t)
         \/ t \in Worker \ {"finish"} /\ Loop(t)
         \/ Record \/ RecordPost \/ ReadCapture \/ CaeSilent \/ IatStore \/ IatPost
         \/ IvwResult \/ ReadIat \/ FinishCheck
  PROVE  FinishReached'
<1> USE Threads, GotoOther DEF FinishReached, Quitting, QuitReachesFinish, Joining
<1>1. CASE Empty(t)
  BY <1>1 DEF Empty
<1>2. CASE t \in {"main", "wakeup"} /\ StartReal(t)
  BY <1>2 DEF StartReal
<1>3. CASE t \in Worker \ {"finish"} /\ Loop(t)
  BY <1>3 DEF Loop
<1>4. CASE Record \/ ReadCapture \/ CaeSilent \/ IatStore \/ IvwResult \/ ReadIat
  BY <1>4 DEF Record, ReadCapture, CaeSilent, IatStore, IvwResult, ReadIat, Worker
<1>5. CASE RecordPost \/ IatPost
  BY <1>5 DEF RecordPost, IatPost, Post, TypeOK, Sem, Worker
<1>6. CASE FinishCheck
  BY <1>6 DEF FinishCheck
<1>7. QED BY <1>1, <1>2, <1>3, <1>4, <1>5, <1>6

LEMMA ReachedMain ==
  ASSUME TypeOK, FinishReached, QuitPost \/ Join \/ Command \/ Event
  PROVE  FinishReached'
<1> USE Threads, GotoOther DEF FinishReached, Quitting, QuitReachesFinish, Joining
<1>1. CASE QuitPost
  BY <1>1 DEF QuitPost, Post, TypeOK, Sem
<1>2. CASE Join
  BY <1>2 DEF Join, Joins
<1>3. CASE Real \/ Quit
  BY <1>3 DEF Real, Quit
<1>4. CASE File \/ Text \/ StartSend \/ StopSend
  BY <1>4 DEF File, Text, StartSend, StopSend, ctl
<1>5. CASE Finish
  BY <1>5 DEF Finish, ctl, Post, TypeOK, Sem
<1>6. QED BY <1>1, <1>2, <1>3, <1>4, <1>5 DEF Command, Event

(* q reaches finish_result wherever it is when its FINISH events come, for  *)
(* rings of any size, any number of sessions and any commands.              *)
THEOREM FinishAlwaysReached == Spec => []QuitReachesFinish
<1>1. Init => FinishReached
  BY DEF Init, FinishReached, Quitting, QuitReachesFinish, Joining, Thread
<1>2. TypeOK /\ FinishReached /\ [Next]_vars => FinishReached'
  <2> SUFFICES ASSUME TypeOK, FinishReached, [Next]_vars PROVE FinishReached'
    OBVIOUS
  <2>1. CASE \E t \in Thread : Step(t)
    BY <2>1, ReachedSemaphores, ReachedWorkers, ReachedMain DEF Step
  <2>2. CASE Command \/ Event
    BY <2>2, ReachedMain
  <2>3. CASE Ended \/ UNCHANGED vars
    BY <2>3 DEF Ended, vars, ctl, FinishReached, Quitting, QuitReachesFinish
  <2>4. QED BY <2>1, <2>2, <2>3 DEF Next
<1>3. FinishReached => QuitReachesFinish
  BY DEF FinishReached
<1>4. QED BY <1>1, <1>2, <1>3, TypeCorrect, PTL DEF Spec
=============================================================================
