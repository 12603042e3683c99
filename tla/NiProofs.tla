------------------------------ MODULE NiProofs -------------------------------
(***************************************************************************)
(* Proofs about NiSession, for any number of requests and restarts.        *)
(***************************************************************************)
EXTENDS NiSession, FiniteSetTheorems, TLAPS

\* Every request number in use has been handed out, and a thread that runs
\* belongs to a session.
NumbersInv ==
    /\ \A s \in Sessions : raw[s] <= reqIDCounter
    /\ \A k \in Requests : out[k].n <= reqIDCounter
    /\ \A i \in DOMAIN inform : inform[i].n <= reqIDCounter
    /\ \A k \in Requests :
          at[k] \in {"start", "wait", "out"} => sess[k] \in Sessions
    /\ msgThread.at # "idle" => msgThread.s \in Sessions /\ restarts # 0
    /\ user.at # "idle" => user.s \in Sessions /\ user.n \in Requests

\* Before any restart a thread that still waits finds its own request, and
\* what it sends answers that request.
OwnInv ==
    restarts = 0 =>
        /\ \A k \in Requests : at[k] \in {"start", "wait"} => raw[sess[k]] = k
        /\ \A k \in Requests : out[k].n # 0 => out[k].by = out[k].n
        /\ \A i \in DOMAIN inform : inform[i].by = inform[i].n

\* The inductive invariant.
NiInv == NiTypeOK /\ NumbersInv /\ AnsweredOnce /\ EsIsNewer /\ OwnInv

\* The types of the numbers the invariant compares.
LEMMA Numbers ==
    ASSUME NiTypeOK
    PROVE  /\ MaxRequests \in Nat /\ reqIDCounter \in Nat
           /\ reqIDCounter <= MaxRequests
           /\ \A s \in Sessions : raw[s] \in Nat
           /\ \A k \in Requests :
                 out[k].n \in Nat /\ (out[k] # NoMsg => out[k].n # 0)
           /\ \A i \in DOMAIN inform : inform[i].n \in Requests
           /\ DOMAIN raw = Sessions
<1> USE NiAssumption DEF NiTypeOK
<1>1. \A m \in Msgs : m.n \in Requests
  BY DEF Msgs
<1>2. \A k \in Requests : out[k] \in Msgs \/ out[k] = NoMsg
  OBVIOUS
<1>3. \A i \in DOMAIN inform : inform[i] \in Msgs
  OBVIOUS
<1>4. NoMsg.n = 0
  BY DEF NoMsg
<1>5. \A k \in Requests : out[k].n \in Nat /\ (out[k] # NoMsg => out[k].n # 0)
  BY <1>1, <1>2, <1>4 DEF Requests
<1> QED
  BY <1>1, <1>3, <1>5

\* The initial state satisfies the invariant.
LEMMA NiInvInit == Init => NiInv
<1> SUFFICES ASSUME Init PROVE NiInv
  OBVIOUS
<1> USE NiAssumption
<1>1. NiTypeOK
  BY DEF Init, NiTypeOK, Requests, Responses, Idle, NoMsg, Msgs, None, Sessions
<1>2. NumbersInv
  BY DEF Init, NumbersInv, Requests, NoMsg, Idle, None
<1>3. AnsweredOnce /\ EsIsNewer
  BY DEF Init, AnsweredOnce, EsIsNewer, Sessions, Requests, NoMsg
<1>4. OwnInv
  BY DEF Init, OwnInv, Requests, NoMsg, None
<1> QED
  BY <1>1, <1>2, <1>3, <1>4 DEF NiInv

\* A request saved by the message thread keeps the invariant.
LEMMA RequestKeeps ==
    ASSUME NiInv, NEW s \in Sessions, NEW created \in BOOLEAN,
           request_handler(s, created)
    PROVE  NiInv'
<1> USE NiAssumption DEF NiInv
<1> DEFINE n == reqIDCounter + 1
<1>0. /\ n \in Requests /\ n > reqIDCounter /\ reqIDCounter' = n
      /\ reqIDCounter \in Nat /\ MaxRequests \in Nat
  BY DEF request_handler, NiTypeOK, Requests
<1>1. NiTypeOK'
  BY <1>0 DEF request_handler, NiTypeOK, Requests
<1>3. NumbersInv'
  <2>1. \A t \in Sessions : raw'[t] <= n
    BY <1>0, Numbers DEF request_handler, NumbersInv
  <2>2. \A k \in Requests : out'[k].n <= n
    BY <1>0, Numbers DEF request_handler, NumbersInv
  <2>3. \A i \in DOMAIN inform' : inform'[i].n <= n
    BY <1>0, Numbers DEF request_handler, NumbersInv, Requests
  <2>4. \A k \in Requests :
           at'[k] \in {"start", "wait", "out"} => sess'[k] \in Sessions
    BY <1>0 DEF request_handler, NumbersInv, NiTypeOK
  <2> QED
    BY <1>0, <2>1, <2>2, <2>3, <2>4 DEF request_handler, NumbersInv
<1>4. AnsweredOnce'
  <2>1. /\ raw'[s] = n
        /\ \A t \in Sessions : t # s => raw'[t] = raw[t] /\ raw[t] # n
    BY <1>0, Numbers DEF request_handler, NumbersInv
  <2>2. \A k \in Requests : out[k].n # n
    BY <1>0, Numbers DEF NumbersInv
  <2>3. \A i \in DOMAIN inform : inform[i].n # n
    BY <1>0, Numbers DEF NumbersInv, Requests
  <2>4. out' = out /\ inform' = inform
    BY DEF request_handler
  <2> QED
    BY <2>1, <2>2, <2>3, <2>4 DEF AnsweredOnce
<1>5. EsIsNewer'
  BY <1>0 DEF request_handler, EsIsNewer, NumbersInv, NiTypeOK, MayStart, Sessions
<1>6. OwnInv'
  BY <1>0 DEF request_handler, OwnInv, NiTypeOK, MayStart, NumbersInv, Requests
<1> QED
  BY <1>1, <1>3, <1>4, <1>5, <1>6

\* Taking a request out of its session keeps the invariant.
LEMMA TakeKeeps ==
    ASSUME NiInv, NEW n \in Requests, at[n] \in {"start", "wait"},
           NEW r \in Responses \cup {"NORESP", "IGNORE", None},
           TakeRequest(n, r),
           UNCHANGED <<reqID, reqIDCounter, sess, inform, msgThread, user,
                       given, restarts>>
    PROVE  NiInv'
<1> USE NiAssumption DEF NiInv
<1> DEFINE s == sess[n]
<1>0. s \in Sessions
  BY DEF NumbersInv
<1>1. raw' = [raw EXCEPT ![s] = 0] /\ raw[s] \in 0..MaxRequests
  BY <1>0 DEF TakeRequest, NiTypeOK
<1>2. /\ \A k \in Requests : k # n => at'[k] = at[k] /\ out'[k] = out[k]
      /\ at'[n] = "out"
      /\ out'[n] = IF raw[s] = 0 \/ r = "IGNORE" THEN NoMsg
                   ELSE [n |-> raw[s], resp |-> r, by |-> n]
  BY DEF TakeRequest, NiTypeOK
<1>3. out'[n] \in Msgs \cup {NoMsg} /\ out'[n].n \in {0, raw[s]}
  BY <1>1, <1>2 DEF Msgs, Requests, NoMsg
<1>4. NiTypeOK'
  <2>1. freed' \in [Requests -> Nat]
    <3>1. raw[s] # 0 => raw[s] \in Requests
      BY <1>1 DEF Requests
    <3> QED
      BY <1>0, <3>1 DEF TakeRequest, NiTypeOK
  <2>2. out' \in [Requests -> Msgs \cup {NoMsg}]
    BY <1>3 DEF TakeRequest, NiTypeOK
  <2> QED
    BY <1>0, <1>1, <2>1, <2>2 DEF TakeRequest, NiTypeOK
<1>5. NumbersInv'
  <2>1. \A t \in Sessions : raw'[t] <= reqIDCounter
    BY <1>0, <1>1, Numbers DEF NumbersInv
  <2>2. \A k \in Requests : out'[k].n <= reqIDCounter
    BY <1>0, <1>2, <1>3, Numbers DEF NumbersInv
  <2>3. \A k \in Requests :
           at'[k] \in {"start", "wait", "out"} => sess'[k] \in Sessions
    BY <1>0, <1>2 DEF NumbersInv
  <2> QED
    BY <2>1, <2>2, <2>3 DEF NumbersInv
<1>6. AnsweredOnce'
  <2>1. raw'[s] = 0 /\ \A t \in Sessions : t # s => raw'[t] = raw[t]
    BY <1>0, <1>1, Numbers
  <2>2. \A i \in DOMAIN inform : inform[i].n # 0
    BY Numbers DEF Requests
  <2> QED
    BY <1>0, <1>2, <1>3, <2>1, <2>2 DEF AnsweredOnce
<1>7. EsIsNewer'
  BY <1>0, <1>1 DEF EsIsNewer, NiTypeOK, Sessions
<1>8. OwnInv'
  <2>1. restarts = 0 /\ out'[n].n # 0 => out'[n].by = out'[n].n
    BY <1>2 DEF OwnInv, NoMsg
  <2>2. ASSUME NEW k \in Requests, at'[k] \in {"start", "wait"}, restarts = 0
        PROVE  raw'[sess'[k]] = k
    BY <1>0, <1>1, <1>2, <2>2 DEF OwnInv, NumbersInv, NiTypeOK, Requests
  <2> QED
    BY <1>2, <2>1, <2>2 DEF OwnInv
<1> QED
  BY <1>4, <1>5, <1>6, <1>7, <1>8

\* A thread's last step keeps the invariant.
LEMMA ExitKeeps ==
    ASSUME NiInv, NEW n \in Requests, Exit(n) PROVE NiInv'
<1> USE NiAssumption
<1> DEFINE m == out[n]
<1>1. /\ \A k \in Requests : k # n => at'[k] = at[k] /\ out'[k] = out[k]
      /\ out'[n] = NoMsg /\ at'[n] = "done"
  BY DEF Exit, NiInv, NiTypeOK
<1>2. m \in Msgs \cup {NoMsg}
  BY DEF NiInv, NiTypeOK
<1>3. sess[n] \in Sessions
  BY DEF Exit, NiInv, NumbersInv
<1>4. CASE m = NoMsg
  <2>1. inform' = inform
    BY <1>4 DEF Exit
  <2>2. NiTypeOK'
    BY <1>3, <2>1 DEF Exit, NiInv, NiTypeOK
  <2>3. NumbersInv' /\ AnsweredOnce' /\ EsIsNewer' /\ OwnInv'
    BY <1>1, <1>4, <2>1 DEF Exit, NiInv, NumbersInv, AnsweredOnce, EsIsNewer,
       OwnInv, NoMsg
  <2> QED
    BY <2>2, <2>3 DEF NiInv
<1>5. CASE m \in Msgs
  <2>1. inform' = Append(inform, m) /\ m.n \in Requests
    BY <1>5 DEF Exit, NoMsg, Msgs, Requests
  <2>2. /\ inform' \in Seq(Msgs)
        /\ \A i \in 1..Len(inform) : inform'[i] = inform[i]
        /\ inform'[Len(inform) + 1] = m
        /\ DOMAIN inform = 1..Len(inform)
        /\ DOMAIN inform' = 1..(Len(inform) + 1)
        /\ Len(inform) \in Nat
    BY <1>5, <2>1 DEF NiInv, NiTypeOK
  <2>3. NiTypeOK'
    BY <1>3, <2>2 DEF Exit, NiInv, NiTypeOK
  <2>4. NumbersInv'
    BY <1>1, <2>2 DEF Exit, NiInv, NumbersInv, NoMsg, NiTypeOK
  <2>5. AnsweredOnce'
    <3>1. raw' = raw
      BY DEF Exit
    <3>2. m.n # 0 /\ out'[n].n = 0
      BY <1>1, <2>1 DEF Requests, NoMsg
    <3>3. \A i \in 1..Len(inform) : inform[i].n # 0 /\ inform[i].n # m.n
      BY <2>2, Numbers DEF NiInv, AnsweredOnce, Requests, Sessions
    <3>4. \A i, j \in DOMAIN inform' : inform'[i].n = inform'[j].n => i = j
      <4> SUFFICES ASSUME NEW i \in DOMAIN inform', NEW j \in DOMAIN inform',
                          inform'[i].n = inform'[j].n
                   PROVE  i = j
        OBVIOUS
      <4>1. \A k \in DOMAIN inform' :
               k \in 1..Len(inform) \/ k = Len(inform) + 1
        BY <2>2
      <4> QED
        BY <2>2, <3>3, <4>1 DEF NiInv, AnsweredOnce
    <3>5. ASSUME NEW i \in DOMAIN inform'
          PROVE  /\ \A t \in Sessions : raw[t] # 0 => raw[t] # inform'[i].n
                 /\ \A k \in Requests : out'[k].n # inform'[i].n
      <4>1. CASE i \in 1..Len(inform)
        BY <1>1, <2>2, <3>2, <3>3, <4>1 DEF NiInv, AnsweredOnce, Sessions
      <4>2. CASE i = Len(inform) + 1
        BY <1>1, <2>2, <3>2, <4>2 DEF NiInv, AnsweredOnce
      <4> QED
        BY <2>2, <4>1, <4>2
    <3> QED
      BY <1>1, <3>1, <3>2, <3>4, <3>5 DEF NiInv, AnsweredOnce
  <2>6. EsIsNewer' /\ OwnInv'
    BY <1>1, <2>1, <2>2 DEF Exit, NiInv, EsIsNewer, OwnInv, NoMsg, Requests
  <2> QED
    BY <2>3, <2>4, <2>5, <2>6 DEF NiInv
<1> QED
  BY <1>2, <1>4, <1>5

\* A thread's step keeps the invariant.
LEMMA ThreadKeeps ==
    ASSUME NiInv, NEW n \in Requests, NiThread(n) PROVE NiInv'
<1> USE NiAssumption
<1>1. CASE Wait(n)
  <2>1. NiTypeOK'
    BY <1>1 DEF Wait, NiInv, NiTypeOK, session
  <2>2. NumbersInv' /\ AnsweredOnce' /\ EsIsNewer' /\ OwnInv'
    BY <1>1 DEF Wait, NiInv, NiTypeOK, NumbersInv, AnsweredOnce, EsIsNewer,
       OwnInv, session
  <2> QED
    BY <2>1, <2>2 DEF NiInv
<1>2. CASE Answered(n)
  <2>1. sess[n] \in Sessions
    BY <1>2 DEF Answered, NiInv, NumbersInv
  <2>2. resp[sess[n]] \in Responses \cup {"NORESP", "IGNORE", None}
    BY <2>1 DEF NiInv, NiTypeOK
  <2> QED
    BY <1>2, <2>2, TakeKeeps DEF Answered
<1>3. CASE TimedOut(n)
  BY <1>3, TakeKeeps DEF TimedOut
<1>4. CASE Exit(n)
  BY <1>4, ExitKeeps
<1> QED
  BY <1>1, <1>2, <1>3, <1>4 DEF NiThread

\* The message thread's other steps keep the invariant.
LEMMA MsgThreadKeeps ==
    ASSUME NiInv, InformNiResponse \/ EngineDown \/ Reset PROVE NiInv'
<1> USE NiAssumption DEF NiInv
<1>1. CASE InformNiResponse
  <2>1. Head(inform) \in Msgs /\ inform' \in Seq(Msgs)
    BY <1>1 DEF InformNiResponse, NiTypeOK
  <2>2. NiTypeOK'
    BY <1>1, <2>1 DEF InformNiResponse, NiTypeOK, session, threads, Msgs
  <2>3. /\ DOMAIN inform = 1..Len(inform) /\ Len(inform) \in Nat \ {0}
        /\ DOMAIN inform' = 1..(Len(inform) - 1)
        /\ \A i \in DOMAIN inform' : inform'[i] = inform[i + 1]
    BY <1>1 DEF InformNiResponse, NiTypeOK
  <2>4. NumbersInv' /\ AnsweredOnce' /\ EsIsNewer' /\ OwnInv'
    <3>1. \A i \in DOMAIN inform' : i + 1 \in DOMAIN inform /\ i \in Nat
      BY <2>3
    <3> QED
      BY <1>1, <2>3, <3>1 DEF InformNiResponse, NumbersInv, AnsweredOnce,
         EsIsNewer, OwnInv, session, threads
  <2> QED
    BY <2>2, <2>4
<1>2. CASE EngineDown
  <2>1. NiTypeOK'
    BY <1>2 DEF EngineDown, NiTypeOK, session, threads, Sessions
  <2>2. NumbersInv' /\ AnsweredOnce' /\ EsIsNewer' /\ OwnInv'
    BY <1>2 DEF EngineDown, NiTypeOK, NumbersInv, AnsweredOnce, EsIsNewer,
       OwnInv, session, threads, Sessions
  <2> QED
    BY <2>1, <2>2
<1>3. CASE ResetCheck
  <2>0. msgThread.s \in Sessions /\ restarts # 0
    BY <1>3 DEF ResetCheck, NumbersInv
  <2>1. NiTypeOK'
    BY <1>3, <2>0 DEF ResetCheck, NiTypeOK, session, threads, NextReset, Idle, Sessions
  <2>2. NumbersInv'
    BY <1>3, <2>0 DEF ResetCheck, NiTypeOK, NumbersInv, session, threads,
       NextReset, Idle, Sessions
  <2>3. AnsweredOnce' /\ EsIsNewer' /\ OwnInv'
    BY <1>3 DEF ResetCheck, AnsweredOnce, EsIsNewer, OwnInv, session, threads
  <2> QED
    BY <2>1, <2>2, <2>3
<1>4. CASE ResetFree
  <2>0. msgThread.s \in Sessions /\ restarts # 0
    BY <1>4 DEF ResetFree, NumbersInv
  <2>1. freed' \in [Requests -> Nat]
    BY <1>4, <2>0 DEF ResetFree, NiTypeOK, Requests
  <2>2. NiTypeOK'
    BY <1>4, <2>0, <2>1 DEF ResetFree, NiTypeOK, threads
  <2>3. /\ raw'[msgThread.s] = 0
        /\ \A t \in Sessions : t # msgThread.s => raw'[t] = raw[t]
    BY <1>4, <2>0 DEF ResetFree, NiTypeOK
  <2>4. NumbersInv'
    BY <1>4, <2>0, <2>3, Numbers DEF ResetFree, NumbersInv, threads
  <2>5. \A i \in DOMAIN inform : inform[i].n # 0
    BY Numbers DEF Requests
  <2>6. AnsweredOnce'
    BY <1>4, <2>0, <2>3, <2>5 DEF ResetFree, AnsweredOnce, threads
  <2>7. EsIsNewer' /\ OwnInv'
    BY <1>4, <2>0, <2>3 DEF ResetFree, EsIsNewer, OwnInv, threads, Sessions
  <2> QED
    BY <2>2, <2>4, <2>6, <2>7
<1>5. CASE ResetSignal
  <2>0. msgThread.s \in Sessions /\ restarts # 0
    BY <1>5 DEF ResetSignal, NumbersInv
  <2>1. NiTypeOK'
    BY <1>5, <2>0 DEF ResetSignal, NiTypeOK, threads, NextReset, Idle, Sessions
  <2>2. NumbersInv'
    BY <1>5, <2>0 DEF ResetSignal, NiTypeOK, NumbersInv, threads, NextReset,
       Idle, Sessions
  <2>3. AnsweredOnce' /\ EsIsNewer' /\ OwnInv'
    BY <1>5 DEF ResetSignal, AnsweredOnce, EsIsNewer, OwnInv, threads
  <2> QED
    BY <2>1, <2>2, <2>3
<1> QED
  BY <1>1, <1>2, <1>3, <1>4, <1>5 DEF Reset

\* The framework's steps keep the invariant.
LEMMA FrameworkKeeps ==
    ASSUME NiInv,
           Framework \/ \E n \in Requests, r \in Responses : respond(n, r)
    PROVE  NiInv'
<1> USE NiAssumption DEF NiInv
<1>1. ASSUME NEW n \in Requests, NEW r \in Responses, respond(n, r)
      PROVE  NiInv'
  <2>1. Found(n) \in Sessions \cup {None}
    BY DEF Found, Sessions
  <2>2. user' \in [at : {"idle", "ignore", "set"}, s : Sessions \cup {None},
                   n : 0..MaxRequests]
    BY <1>1, <2>1 DEF respond, Idle, NiTypeOK, Requests
  <2>3. NiTypeOK'
    BY <1>1, <2>2 DEF respond, NiTypeOK, session, threads
  <2>4. user'.at # "idle" => user'.s \in Sessions /\ user'.n \in Requests
    BY <1>1, <2>1 DEF respond, Idle
  <2>5. NumbersInv' /\ AnsweredOnce' /\ EsIsNewer' /\ OwnInv'
    BY <1>1, <2>4 DEF respond, NumbersInv, AnsweredOnce, EsIsNewer, OwnInv,
       session, threads
  <2> QED
    BY <2>3, <2>5
<1>2. CASE RespondIgnore
  <2>1. NiTypeOK'
    BY <1>2 DEF RespondIgnore, NiTypeOK, threads, Sessions
  <2>2. NumbersInv' /\ AnsweredOnce' /\ EsIsNewer' /\ OwnInv'
    BY <1>2 DEF RespondIgnore, NumbersInv, AnsweredOnce, EsIsNewer, OwnInv, threads
  <2> QED
    BY <2>1, <2>2
<1>3. CASE RespondSet
  <2>0. user.s \in Sessions /\ given[user.n] \in Responses \cup {None}
    BY <1>3 DEF RespondSet, NumbersInv, NiTypeOK
  <2>1. NiTypeOK'
    BY <1>3, <2>0 DEF RespondSet, NiTypeOK, threads, Idle
  <2>2. NumbersInv' /\ AnsweredOnce' /\ EsIsNewer' /\ OwnInv'
    BY <1>3 DEF RespondSet, NumbersInv, AnsweredOnce, EsIsNewer, OwnInv,
       threads, Idle
  <2> QED
    BY <2>1, <2>2
<1> QED
  BY <1>1, <1>2, <1>3 DEF Framework

\* The invariant is inductive, so it holds in every reachable state: the types
\* are right and the message thread, the NI threads and the framework's thread
\* never use a request number that was not handed out.
THEOREM NiInvHolds == Spec => []NiInv
<1>1. NiInv /\ [Next]_vars => NiInv'
  <2> SUFFICES ASSUME NiInv, [Next]_vars PROVE NiInv'
    OBVIOUS
  <2>1. ASSUME NEW s \in Sessions, RequestNi(s) PROVE NiInv'
    <3>1. PICK created \in BOOLEAN : request_handler(s, created)
      BY <2>1 DEF RequestNi
    <3> QED
      BY <3>1, RequestKeeps
  <2>2. CASE InformNiResponse \/ EngineDown \/ Reset
    BY <2>2, MsgThreadKeeps
  <2>3. ASSUME NEW n \in Requests, NiThread(n) PROVE NiInv'
    BY <2>3, ThreadKeeps
  <2>4. CASE Framework \/ \E n \in Requests, r \in Responses : respond(n, r)
    BY <2>4, FrameworkKeeps
  <2>5. CASE UNCHANGED vars
    BY <2>5 DEF vars, session, threads, NiInv, NiTypeOK, NumbersInv,
       AnsweredOnce, EsIsNewer, OwnInv
  <2> QED
    BY <2>1, <2>2, <2>3, <2>4, <2>5 DEF Next, Quiet
<1> QED
  BY <1>1, NiInvInit, PTL DEF Spec

\* No request is ever answered twice, with any number of requests and engine
\* restarts: sessions, threads and queued messages hold distinct requests.
THEOREM NeverAnsweredTwice == Spec => []AnsweredOnce
<1>1. NiInv => AnsweredOnce
  BY DEF NiInv
<1> QED
  BY <1>1, NiInvHolds, PTL

\* Of two requests in session the emergency one is always the newer.
THEOREM EmergencyIsNewer == Spec => []EsIsNewer
<1>1. NiInv => EsIsNewer
  BY DEF NiInv
<1> QED
  BY <1>1, NiInvHolds, PTL

\* As long as the engine is not restarted, every answer is sent by the thread
\* of its own request.
THEOREM SelfAnsweredUntilRestart == Spec => []AnswerBySelf
<1>1. NiInv => AnswerBySelf
  <2> SUFFICES ASSUME NiInv, restarts = 0, NEW a \in Answers PROVE a.by = a.n
    BY DEF AnswerBySelf
  <2>1. CASE \E i \in DOMAIN inform : a = inform[i]
    BY <2>1 DEF NiInv, OwnInv
  <2>2. CASE \E k \in Requests : a = out[k] /\ a # NoMsg
    BY <2>2, Numbers DEF NiInv, OwnInv
  <2> QED
    BY <2>1, <2>2 DEF Answers
<1> QED
  BY <1>1, NiInvHolds, PTL

-----------------------------------------------------------------------------
(* The owner of a payload. *)

\* A session, a thread or a message has the payload of request n.
Held(n) ==
    \/ \E s \in Sessions : raw[s] = n
    \/ \E k \in Requests : out[k].n = n
    \/ \E i \in DOMAIN inform : inform[i].n = n

\* A thread has a message between the lock and the send, and no thread runs for
\* a request that has not come.
OutInv ==
    \A k \in Requests : /\ at[k] # "out" => out[k].n = 0
                        /\ k > reqIDCounter => at[k] = None

\* Until the engine restarts, the requests that are not held any more, and
\* only they, have been freed, once.
FreedInv ==
    restarts = 0 =>
        \A n \in Requests :
            /\ n <= reqIDCounter /\ ~Held(n) => freed[n] = 1
            /\ n > reqIDCounter \/ Held(n) => freed[n] = 0

\* A step that frees nothing and moves payloads between their holders.
LEMMA MovesKeep ==
    ASSUME FreedInv, UNCHANGED <<freed, reqIDCounter, restarts>>,
           \A n \in Requests : Held(n)' <=> Held(n)
    PROVE  FreedInv'
BY DEF FreedInv

\* A step that frees the payload of request m and takes it from its holder.
LEMMA FreeKeeps ==
    ASSUME NiTypeOK, FreedInv, NEW m \in Requests, m <= reqIDCounter, Held(m), ~Held(m)',
           UNCHANGED <<reqIDCounter, restarts>>, freed' = [freed EXCEPT ![m] = @ + 1],
           \A n \in Requests \ {m} : Held(n)' <=> Held(n)
    PROVE  FreedInv'
<1> SUFFICES ASSUME restarts = 0, NEW n \in Requests
             PROVE  /\ n <= reqIDCounter /\ ~Held(n)' => freed'[n] = 1
                    /\ n > reqIDCounter \/ Held(n)' => freed'[n] = 0
    BY DEF FreedInv
<1>1. freed \in [Requests -> Nat] /\ n \in Nat /\ reqIDCounter \in Nat
    BY NiAssumption DEF NiTypeOK, Requests
<1>2. CASE n = m
  <2>1. freed[m] = 0
      BY DEF FreedInv
  <2>2. freed'[m] = 1
      BY <1>1, <2>1
  <2>3. ~(m > reqIDCounter)
      BY <1>1, <1>2
  <2> QED BY <1>2, <2>2, <2>3
<1>3. CASE n # m
  <2>1. freed'[n] = freed[n]
      BY <1>1, <1>3
  <2> QED BY <1>3, <2>1 DEF FreedInv
<1> QED BY <1>2, <1>3

\* A new request is held by its session.
LEMMA RequestOwner ==
    ASSUME NiInv, OutInv, FreedInv, NEW s \in Sessions, NEW created \in BOOLEAN,
           request_handler(s, created)
    PROVE  OutInv' /\ FreedInv'
<1> DEFINE m == reqIDCounter + 1
<1>1. /\ raw \in [Sessions -> 0 .. MaxRequests] /\ reqIDCounter \in Nat /\ MaxRequests \in Nat
      /\ reqIDCounter < MaxRequests /\ at \in [Requests -> {None, "start", "wait", "out", "done"}]
    BY NiAssumption DEF NiInv, NiTypeOK, request_handler
<1>2. /\ raw[s] = 0 /\ raw' = [raw EXCEPT ![s] = m] /\ reqIDCounter' = m
      /\ at' = [at EXCEPT ![m] = IF created THEN "start" ELSE None]
      /\ UNCHANGED <<out, inform, freed, restarts>>
    BY DEF request_handler, MayStart
<1>3. raw'[s] = m /\ (\A t \in Sessions \ {s} : raw'[t] = raw[t])
    BY <1>1, <1>2
<1>4. \A n \in Requests : n \in Nat /\ n # 0
    BY NiAssumption DEF Requests
<1>5. OutInv'
  <2> SUFFICES ASSUME NEW k \in Requests
               PROVE  (at'[k] # "out" => out[k].n = 0) /\ (k > m => at'[k] = None)
      BY <1>2 DEF OutInv
  <2>1. CASE k = m
    <3>1. k > reqIDCounter /\ ~(k > m)
        BY <1>1, <2>1
    <3>2. None # "out"
        BY DEF None
    <3> QED BY <3>1, <3>2 DEF OutInv
  <2>2. CASE k # m
    <3>1. k > m => k > reqIDCounter
        BY <1>1, <1>4
    <3>2. at'[k] = at[k]
        BY <1>1, <1>2, <2>2
    <3> HIDE DEF m
    <3> QED BY <3>1, <3>2 DEF OutInv
  <2> QED BY <2>1, <2>2
<1>6. FreedInv'
  <2> SUFFICES ASSUME restarts = 0, NEW n \in Requests
               PROVE  /\ n <= m /\ ~Held(n)' => freed[n] = 1
                      /\ n > m \/ Held(n)' => freed[n] = 0
      BY <1>2 DEF FreedInv
  <2>1. CASE n = m
    <3>1. n > reqIDCounter /\ ~(n > m)
        BY <1>1, <2>1
    <3>2. Held(n)'
        BY <1>3, <2>1 DEF Held
    <3> QED BY <3>1, <3>2 DEF FreedInv
  <2>2. CASE n # m
    <3>1. n <= m <=> n <= reqIDCounter
        BY <1>1, <1>4, <2>2
    <3>2. n > m => n > reqIDCounter
        BY <1>1, <1>4
    <3>3. Held(n)' <=> Held(n)
      <4>1. \A t \in Sessions : raw'[t] = n <=> raw[t] = n
          BY <1>2, <1>3, <1>4, <2>2
      <4> QED BY <1>2, <4>1 DEF Held
    <3> HIDE DEF m
    <3> QED BY <3>1, <3>2, <3>3 DEF FreedInv
  <2> QED BY <2>1, <2>2
<1> QED BY <1>5, <1>6

\* A payload that leaves the session is in the thread's message or freed.
LEMMA TakeOwner ==
    ASSUME NiInv, OutInv, FreedInv, NEW n \in Requests, at[n] \in {"start", "wait"},
           NEW r, TakeRequest(n, r), UNCHANGED <<reqIDCounter, inform, restarts>>
    PROVE  OutInv' /\ FreedInv'
<1>0. PICK s \in Sessions : s = sess[n]
    BY DEF NiInv, NumbersInv
<1>1. /\ raw \in [Sessions -> 0 .. MaxRequests] /\ out \in [Requests -> Msgs \cup {NoMsg}]
      /\ at \in [Requests -> {None, "start", "wait", "out", "done"}]
    BY DEF NiInv, NiTypeOK
<1>2. /\ raw' = [raw EXCEPT ![s] = 0]
      /\ at' = [at EXCEPT ![n] = "out"]
      /\ out' = [out EXCEPT ![n] = IF raw[s] = 0 \/ r = "IGNORE" THEN NoMsg
                                   ELSE [n |-> raw[s], resp |-> r, by |-> n]]
      /\ freed' = IF raw[s] # 0 /\ r = "IGNORE" THEN [freed EXCEPT ![raw[s]] = @ + 1] ELSE freed
    BY <1>0 DEF TakeRequest
<1>3. /\ raw'[s] = 0 /\ (\A t \in Sessions \ {s} : raw'[t] = raw[t])
      /\ (\A k \in Requests \ {n} : out'[k] = out[k] /\ at'[k] = at[k]) /\ at'[n] = "out"
      /\ out'[n] = IF raw[s] = 0 \/ r = "IGNORE" THEN NoMsg ELSE [n |-> raw[s], resp |-> r, by |-> n]
    BY <1>1, <1>2
<1>4. (\A q \in Requests : q # 0) /\ out[n].n = 0 /\ NoMsg.n = 0
    BY NiAssumption DEF Requests, OutInv, NoMsg
<1>5. OutInv'
    BY <1>3 DEF OutInv, None
<1>6. CASE raw[s] = 0 \/ r # "IGNORE"
  <2>1. freed' = freed /\ out'[n].n = raw[s]
      BY <1>2, <1>3, <1>4, <1>6
  <2>2. ASSUME NEW q \in Requests PROVE Held(q)' <=> Held(q)
    <3>1. (\E t \in Sessions : raw[t] = q) <=> (raw[s] = q \/ \E t \in Sessions \ {s} : raw[t] = q)
        OBVIOUS
    <3>2. (\E t \in Sessions : raw'[t] = q) <=> \E t \in Sessions \ {s} : raw[t] = q
        BY <1>3, <1>4
    <3>3. (\E k \in Requests : out'[k].n = q) <=> (raw[s] = q \/ \E k \in Requests : out[k].n = q)
        BY <1>3, <1>4, <2>1
    <3> QED BY <3>1, <3>2, <3>3 DEF Held
  <2> QED BY <1>5, <2>1, <2>2, MovesKeep
<1>7. CASE raw[s] # 0 /\ r = "IGNORE"
  <2>0. PICK m \in Requests : m = raw[s]
      BY <1>1, <1>7 DEF Requests
  <2>1. m <= reqIDCounter
      BY <2>0, Numbers DEF NiInv, NumbersInv
  <2>2. freed' = [freed EXCEPT ![m] = @ + 1] /\ out'[n].n = 0
      BY <1>2, <1>3, <1>4, <1>7, <2>0
  <2>3. Held(m)
      BY <2>0 DEF Held
  <2>4. ~Held(m)'
    <3>1. \A t \in Sessions : raw'[t] # m
        BY <1>3, <1>4, <2>0 DEF NiInv, AnsweredOnce
    <3>2. \A k \in Requests : out'[k].n # m
        BY <1>3, <1>7, <2>0, <2>2 DEF NiInv, AnsweredOnce
    <3>3. \A i \in DOMAIN inform : inform[i].n # m
        BY <2>0 DEF NiInv, AnsweredOnce
    <3> QED BY <3>1, <3>2, <3>3 DEF Held
  <2>5. ASSUME NEW q \in Requests \ {m} PROVE Held(q)' <=> Held(q)
    <3>1. (\E t \in Sessions : raw'[t] = q) <=> \E t \in Sessions : raw[t] = q
        BY <1>3, <1>4, <2>0
    <3>2. (\E k \in Requests : out'[k].n = q) <=> \E k \in Requests : out[k].n = q
        BY <1>3, <1>4, <2>2
    <3> QED BY <3>1, <3>2 DEF Held
  <2>6. NiTypeOK
      BY DEF NiInv
  <2> QED BY <1>5, <2>1, <2>2, <2>3, <2>4, <2>5, <2>6, FreeKeeps
<1> QED BY <1>6, <1>7

\* A message takes the payload from the thread to the queue.
LEMMA ExitOwner ==
    ASSUME NiInv, OutInv, FreedInv, NEW n \in Requests, Exit(n)
    PROVE  OutInv' /\ FreedInv'
<1>1. /\ out \in [Requests -> Msgs \cup {NoMsg}] /\ inform \in Seq(Msgs)
      /\ at \in [Requests -> {None, "start", "wait", "out", "done"}]
    BY DEF NiInv, NiTypeOK
<1>2. /\ at[n] = "out" /\ at' = [at EXCEPT ![n] = "done"] /\ out' = [out EXCEPT ![n] = NoMsg]
      /\ inform' = IF out[n] = NoMsg THEN inform ELSE Append(inform, out[n])
      /\ UNCHANGED <<raw, freed, reqIDCounter, restarts>>
    BY DEF Exit
<1>3. /\ out'[n] = NoMsg /\ NoMsg.n = 0 /\ \A q \in Requests : q # 0
      /\ \A k \in Requests \ {n} : out'[k] = out[k] /\ at'[k] = at[k]
    BY <1>1, <1>2, NiAssumption DEF NoMsg, Requests
<1>4. OutInv'
    BY <1>2, <1>3 DEF OutInv, None
<1>5. ASSUME NEW q \in Requests
      PROVE  (\E i \in DOMAIN inform' : inform'[i].n = q)
               <=> (out[n].n = q \/ \E i \in DOMAIN inform : inform[i].n = q)
  <2>1. CASE out[n] = NoMsg
      BY <1>2, <1>3, <2>1
  <2>2. CASE out[n] # NoMsg
    <3>1. inform' = Append(inform, out[n])
        BY <1>2, <2>2
    <3>2. /\ DOMAIN inform = 1 .. Len(inform) /\ DOMAIN inform' = 1 .. Len(inform) + 1
          /\ Len(inform) \in Nat /\ inform'[Len(inform) + 1] = out[n]
          /\ \A i \in 1 .. Len(inform) : inform'[i] = inform[i]
        BY <1>1, <3>1
    <3>3. /\ Len(inform) + 1 \in DOMAIN inform' /\ DOMAIN inform \subseteq DOMAIN inform'
          /\ \A i \in DOMAIN inform' : i \in DOMAIN inform \/ i = Len(inform) + 1
        BY <3>2
    <3> QED BY <3>2, <3>3
  <2> QED BY <2>1, <2>2
<1>6. ASSUME NEW q \in Requests PROVE Held(q)' <=> Held(q)
  <2>1. (\E k \in Requests : out[k].n = q) <=> (out[n].n = q \/ \E k \in Requests : out'[k].n = q)
      BY <1>3
  <2> QED BY <1>2, <1>5, <2>1 DEF Held
<1> QED BY <1>2, <1>4, <1>6, MovesKeep

\* The queue's message is processed and its payload freed.
LEMMA InformOwner ==
    ASSUME NiInv, OutInv, FreedInv, InformNiResponse
    PROVE  OutInv' /\ FreedInv'
<1>0. PICK m : m = inform[1].n
    OBVIOUS
<1>1. /\ inform \in Seq(Msgs) /\ inform # << >> /\ Head(inform) = inform[1]
      /\ inform' = Tail(inform) /\ freed' = [freed EXCEPT ![m] = freed[m] + 1]
      /\ UNCHANGED <<raw, at, out, reqIDCounter, restarts>>
  <2>1. inform \in Seq(Msgs) /\ inform # << >>
      BY DEF NiInv, NiTypeOK, InformNiResponse
  <2>2. Head(inform) = inform[1]
      BY <2>1
  <2> QED BY <1>0, <2>1, <2>2 DEF InformNiResponse, session, threads
<1>2. /\ DOMAIN inform = 1 .. Len(inform) /\ Len(inform) \in Nat \ {0}
      /\ DOMAIN inform' = 1 .. Len(inform) - 1
      /\ \A i \in DOMAIN inform' : inform'[i] = inform[i + 1]
    BY <1>1
<1>3. /\ 1 \in DOMAIN inform
      /\ \A i \in DOMAIN inform' : i + 1 \in DOMAIN inform /\ i + 1 # 1
      /\ \A i \in DOMAIN inform : i # 1 => i - 1 \in DOMAIN inform' /\ (i - 1) + 1 = i
    BY <1>2
<1>4. OutInv'
    BY <1>1 DEF OutInv
<1>5. m \in Requests /\ m <= reqIDCounter /\ NiTypeOK
    BY <1>0, <1>3, Numbers DEF NiInv, NumbersInv
<1>6. Held(m)
    BY <1>0, <1>3 DEF Held
<1>7. ~Held(m)'
  <2>1. \A i \in DOMAIN inform' : inform'[i].n # m
      BY <1>0, <1>2, <1>3 DEF NiInv, AnsweredOnce
  <2>2. (\A t \in Sessions : raw[t] # m) /\ (\A k \in Requests : out[k].n # m)
      BY <1>0, <1>3 DEF NiInv, AnsweredOnce
  <2> QED BY <1>1, <2>1, <2>2 DEF Held
<1>8. ASSUME NEW q \in Requests \ {m} PROVE Held(q)' <=> Held(q)
  <2>1. (\E i \in DOMAIN inform' : inform'[i].n = q) <=> \E i \in DOMAIN inform : inform[i].n = q
      BY <1>0, <1>2, <1>3
  <2> QED BY <1>1, <2>1 DEF Held
<1> QED BY <1>1, <1>4, <1>5, <1>6, <1>7, <1>8, FreeKeeps

\* A step that moves no payload.
LEMMA OtherOwner ==
    ASSUME OutInv, FreedInv, UNCHANGED <<raw, out, inform, freed, reqIDCounter, restarts>>,
           \A k \in Requests : at'[k] = at[k] \/ (at[k] = "start" /\ at'[k] = "wait")
    PROVE  OutInv' /\ FreedInv'
<1>1. \A q \in Requests : Held(q)' <=> Held(q)
    BY DEF Held
<1>2. FreedInv'
    BY <1>1, MovesKeep
<1>3. OutInv'
    BY DEF OutInv, None
<1> QED BY <1>2, <1>3

(* No step breaks the invariants of the payloads. *)
LEMMA OwnerStep ==
    NiInv /\ OutInv /\ FreedInv /\ [Next]_vars => OutInv' /\ FreedInv'
<1> SUFFICES ASSUME NiInv, OutInv, FreedInv, [Next]_vars PROVE OutInv' /\ FreedInv'
    OBVIOUS
<1>1. ASSUME NEW s \in Sessions, RequestNi(s) PROVE OutInv' /\ FreedInv'
  <2>1. PICK created \in BOOLEAN : request_handler(s, created)
      BY <1>1 DEF RequestNi
  <2> QED BY <2>1, RequestOwner
<1>2. CASE InformNiResponse
    BY <1>2, InformOwner
<1>3. CASE EngineDown
  <2>1. restarts' # 0 /\ UNCHANGED <<out, at, reqIDCounter>>
      BY <1>3, NiAssumption DEF EngineDown, threads, NiInv, NiTypeOK
  <2> QED BY <2>1 DEF OutInv, FreedInv
<1>4. CASE Reset
  <2>1. restarts # 0
      BY <1>4 DEF Reset, ResetCheck, ResetFree, ResetSignal, NiInv, NumbersInv
  <2>2. UNCHANGED <<out, at, reqIDCounter, restarts>>
      BY <1>4 DEF Reset, ResetCheck, ResetFree, ResetSignal, threads
  <2> QED BY <2>1, <2>2 DEF OutInv, FreedInv
<1>5. ASSUME NEW n \in Requests, NiThread(n) PROVE OutInv' /\ FreedInv'
  <2>1. CASE Wait(n)
    <3>1. \A k \in Requests : at'[k] = at[k] \/ (at[k] = "start" /\ at'[k] = "wait")
        BY <2>1 DEF Wait, NiInv, NiTypeOK
    <3> QED BY <2>1, <3>1, OtherOwner DEF Wait, session
  <2>2. CASE Answered(n)
      BY <2>2, TakeOwner DEF Answered
  <2>3. CASE TimedOut(n)
      BY <2>3, TakeOwner DEF TimedOut
  <2>4. CASE Exit(n)
      BY <2>4, ExitOwner
  <2> QED BY <1>5, <2>1, <2>2, <2>3, <2>4 DEF NiThread
<1>6. ASSUME NEW n \in Requests, NEW r \in Responses, respond(n, r) PROVE OutInv' /\ FreedInv'
    BY <1>6, OtherOwner DEF respond, session, threads
<1>7. CASE Framework
    BY <1>7, OtherOwner DEF Framework, RespondIgnore, RespondSet, threads
<1>8. CASE UNCHANGED vars
    BY <1>8, OtherOwner DEF vars, session, threads
<1> QED BY <1>1, <1>2, <1>3, <1>4, <1>5, <1>6, <1>7, <1>8 DEF Next, Quiet

\* A set with at most one member has the cardinality one or zero.
LEMMA AtMostOne ==
    ASSUME NEW S, \A x, y \in S : x = y
    PROVE  Cardinality(S) = IF S = {} THEN 0 ELSE 1
<1>1. CASE S = {}
    BY <1>1, FS_EmptySet
<1>2. CASE S # {}
  <2>1. PICK x : S = {x}
      BY <1>2
  <2> QED BY <1>2, <2>1, FS_Singleton
<1> QED BY <1>1, <1>2

\* Until the engine restarts, every payload is in one session, one thread, one
\* message or freed once, with any number of requests: nothing is lost and
\* nothing is freed twice (loc_eng_ni_request_handler, ni_thread_proc and the
\* destructor of LocEngInformNiResponse).
THEOREM PayloadsHaveOneOwner == Spec => []NiIsSound
<1>1. Init => OutInv /\ FreedInv
  <2> SUFFICES ASSUME Init PROVE OutInv /\ FreedInv
      OBVIOUS
  <2>1. OutInv
      BY DEF Init, OutInv, NoMsg
  <2>2. \A n \in Requests : freed[n] = 0 /\ ~(n <= reqIDCounter)
      BY NiAssumption DEF Init, Requests
  <2> QED BY <2>1, <2>2 DEF FreedInv
<1>2. NiInv /\ FreedInv => NiIsSound
  <2> SUFFICES ASSUME NiInv, FreedInv, restarts = 0, NEW n \in 1 .. reqIDCounter
               PROVE  Cardinality({s \in Sessions : raw[s] = n})
                        + Cardinality({k \in Requests : out[k].n = n})
                        + Cardinality({i \in DOMAIN inform : inform[i].n = n})
                        + freed[n] = 1
      BY DEF NiIsSound, PayloadHasOneOwner, NiInv
  <2> DEFINE S == {s \in Sessions : raw[s] = n}
             K == {k \in Requests : out[k].n = n}
             I == {i \in DOMAIN inform : inform[i].n = n}
  <2>1. n \in Requests /\ n # 0 /\ n <= reqIDCounter
      BY NiAssumption DEF NiInv, NiTypeOK, Requests
  <2>2. (\A x, y \in S : x = y) /\ (\A x, y \in K : x = y) /\ (\A x, y \in I : x = y)
      BY <2>1 DEF NiInv, AnsweredOnce
  <2>3. (S = {} \/ K = {}) /\ (S = {} \/ I = {}) /\ (K = {} \/ I = {})
    <3>1. \A x \in S, y \in K : FALSE
        BY <2>1 DEF NiInv, AnsweredOnce
    <3>2. \A x \in S, y \in I : FALSE
        BY DEF NiInv, AnsweredOnce
    <3>3. \A x \in K, y \in I : FALSE
        BY DEF NiInv, AnsweredOnce
    <3> HIDE DEF S, K, I
    <3> QED BY <3>1, <3>2, <3>3
  <2>4. Held(n) <=> S # {} \/ K # {} \/ I # {}
      BY DEF Held
  <2>5. freed[n] = IF Held(n) THEN 0 ELSE 1
      BY <2>1 DEF FreedInv
  <2> HIDE DEF S, K, I
  <2>6. /\ Cardinality(S) = IF S = {} THEN 0 ELSE 1
        /\ Cardinality(K) = IF K = {} THEN 0 ELSE 1
        /\ Cardinality(I) = IF I = {} THEN 0 ELSE 1
      BY <2>2, AtMostOne
  <2>7. Cardinality(S) + Cardinality(K) + Cardinality(I) + freed[n] = 1
      BY <2>3, <2>4, <2>5, <2>6
  <2> QED BY <2>7 DEF S, K, I
<1> QED BY <1>1, <1>2, NiInvHolds, OwnerStep, PTL DEF Spec
=============================================================================
