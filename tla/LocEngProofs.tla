---------------------------- MODULE LocEngProofs -----------------------------
(***************************************************************************)
(* Theorems about LocEngSession: type correctness, and for any number of   *)
(* calls, reports and restarts, that what is stopped stays stopped, what   *)
(* is asked for is served, and what the framework was told is true.        *)
(*                                                                         *)
(* The argument is about the commands that are still under way: of the     *)
(* start and stop messages in the two queues only the last one counts, and *)
(* it is the framework's last word.                                        *)
(***************************************************************************)
EXTENDS LocEngSession, TLAPS

Start == [type |-> "StartFix"]
Stop == [type |-> "StopFix"]
On == StatusReport("ENGINE_ON")
Begin == StatusReport("SESSION_BEGIN")

None(b, s) == \A j \in 1..Len(s) : s[j] # b

\* a is in s, with no b after it.
LastIs(a, b, s) ==
    \E i \in 1..Len(s) : s[i] = a /\ \A j \in 1..Len(s) : j > i => s[j] # b

\* Of the commands in the engine's queue q and, after it, the library's queue
\* u, there is an a that comes after every b; and there is no b at all.
Ends(a, b, q, u) == LastIs(a, b, u) \/ (None(b, u) /\ LastIs(a, b, q))
Clear(b, q, u) == None(b, q) /\ None(b, u)

\* Until the library is there it has nothing to pass on; it passes on no
\* status report; and the base proxy remembers only a fix that is asked for.
ProxyInv ==
    /\ ~ ulp.loaded => ulpQueue = << >>
    /\ None(Begin, ulpQueue)
    /\ ulp.mFixSet => asked /\ ~ ulp.loaded

\* A fix the modem works on for a session has the session's recurrence, and
\* one that is left without a session is a single shot.
TrackInv ==
    /\ ~ mNavigating => track.recurrence # "PERIODIC"
    /\ mNavigating /\ track # NoFix =>
           track.recurrence = mFixCriteria.recurrence

StopInv ==
    ~ asked => \/ Ends(Stop, Start, queue, ulpQueue)
               \/ ~ mNavigating /\ Clear(Start, queue, ulpQueue)
StartInv ==
    asked /\ ~ over => \/ Ends(Start, Stop, queue, ulpQueue)
                       \/ mNavigating /\ Clear(Stop, queue, ulpQueue)

\* The modem says that it is on before it says that it has begun.
BeginsOn(q, es) ==
    \A i \in 1..Len(q) : q[i] = Begin =>
        IF i = 1 THEN es = "ENGINE_ON" ELSE q[i - 1] = On
BeginInv == BeginsOn(queue, engine_status)

SessionInv ==
    /\ SessionTypeOK /\ ProxyInv /\ TrackInv /\ StopInv /\ StartInv
    /\ BeginInv /\ MutedIsOn /\ ToldIsTrue

-----------------------------------------------------------------------------
(* Sequences of messages.                                                  *)

\* What taking the head leaves of None and LastIs.
LEMMA TailFacts ==
    ASSUME NEW S, NEW s \in Seq(S), s # << >>, NEW a, NEW b
    PROVE  /\ None(b, s) => None(b, Tail(s))
           /\ LastIs(a, b, s) =>
                  LastIs(a, b, Tail(s)) \/ (Head(s) = a /\ None(b, Tail(s)))
<1>1. /\ Tail(s) \in Seq(S) /\ Len(s) \in Nat \ {0} /\ Len(Tail(s)) = Len(s) - 1
      /\ Head(s) = s[1]
      /\ \A j \in 1..Len(Tail(s)) : Tail(s)[j] = s[j + 1]
  OBVIOUS
<1>2. None(b, s) => None(b, Tail(s))
  BY <1>1 DEF None
<1>3. ASSUME LastIs(a, b, s)
      PROVE  LastIs(a, b, Tail(s)) \/ (Head(s) = a /\ None(b, Tail(s)))
  <2>1. PICK i \in 1..Len(s) : s[i] = a /\ \A j \in 1..Len(s) : j > i => s[j] # b
    BY <1>3 DEF LastIs
  <2>2. CASE i = 1
    BY <1>1, <2>1, <2>2 DEF None
  <2>3. CASE i # 1
    <3>1. i - 1 \in 1..Len(Tail(s)) /\ Tail(s)[i - 1] = a
      BY <1>1, <2>1, <2>3
    <3>2. \A j \in 1..Len(Tail(s)) : j > i - 1 => Tail(s)[j] # b
      BY <1>1, <2>1
    <3> QED
      BY <3>1, <3>2 DEF LastIs
  <2> QED
    BY <2>2, <2>3
<1> QED
  BY <1>2, <1>3

\* What appending a message does to None and LastIs.
LEMMA AppendFacts ==
    ASSUME NEW S, NEW s \in Seq(S), NEW m \in S, NEW a, NEW b
    PROVE  /\ Append(s, m) \in Seq(S)
           /\ m # b /\ None(b, s) => None(b, Append(s, m))
           /\ m # b /\ LastIs(a, b, s) => LastIs(a, b, Append(s, m))
           /\ m = a => LastIs(a, b, Append(s, m))
<1>1. /\ Append(s, m) \in Seq(S) /\ Len(s) \in Nat
      /\ Len(Append(s, m)) = Len(s) + 1 /\ Append(s, m)[Len(s) + 1] = m
      /\ \A j \in 1..Len(s) : Append(s, m)[j] = s[j]
  OBVIOUS
<1>2. m # b /\ None(b, s) => None(b, Append(s, m))
  BY <1>1 DEF None
<1>3. ASSUME m # b, LastIs(a, b, s) PROVE LastIs(a, b, Append(s, m))
  <2>1. PICK i \in 1..Len(s) : s[i] = a /\ \A j \in 1..Len(s) : j > i => s[j] # b
    BY <1>3 DEF LastIs
  <2>2. i \in 1..Len(Append(s, m)) /\ Append(s, m)[i] = a
    BY <1>1, <2>1
  <2>3. \A j \in 1..Len(Append(s, m)) : j > i => Append(s, m)[j] # b
    BY <1>1, <1>3, <2>1
  <2> QED
    BY <2>2, <2>3 DEF LastIs
<1>4. m = a => LastIs(a, b, Append(s, m))
  <2>1. Len(s) + 1 \in 1..Len(Append(s, m))
    BY <1>1
  <2>2. \A j \in 1..Len(Append(s, m)) : ~ j > Len(s) + 1
    BY <1>1
  <2> QED
    BY <1>1, <2>1, <2>2 DEF LastIs
<1> QED
  BY <1>1, <1>2, <1>3, <1>4

\* Concatenation of one and of two messages, as appending.
LEMMA ConcatFacts ==
    ASSUME NEW S, NEW s \in Seq(S), NEW x \in S, NEW y \in S
    PROVE  /\ s \o << >> = s
           /\ s \o << x >> = Append(s, x)
           /\ s \o << x, y >> = Append(Append(s, x), y)
  OBVIOUS

\* The messages, and what tells them apart.
LEMMA MessageFacts ==
    /\ Start \in Messages /\ Stop \in Messages /\ Start # Stop
    /\ On \in Messages /\ Begin \in Messages /\ On # Begin
    /\ On # Start /\ On # Stop /\ Begin # Start /\ Begin # Stop
    /\ Start.type = "StartFix" /\ Stop.type = "StopFix"
    /\ On.type = "ReportStatus" /\ Begin.type = "ReportStatus"
    /\ On.status = "ENGINE_ON" /\ Begin.status = "SESSION_BEGIN"
    /\ \A m \in Messages : m.type = "StartFix" => m = Start
    /\ \A m \in Messages : m.type = "StopFix" => m = Stop
    /\ \A m \in Messages : m.type = "ReportStatus" =>
          m.status \in Statuses /\ m = StatusReport(m.status)
    /\ \A m \in Messages : m.type = "PositionMode" => m.recurrence \in Recurrences
    /\ \A m \in Messages : m.type = "DelAidData" => m.f \subseteq AidingData
  BY DEF Messages, Simple, PositionReports, Start, Stop, On, Begin,
     StatusReport, Statuses

-----------------------------------------------------------------------------
(* Type correctness, in two parts: the flags, and the rest.                *)

ProxyTypes == [loaded : BOOLEAN, mFixSet : BOOLEAN,
               mPosMode : Recurrences \cup {"INVALID"}]

Flags ==
    /\ asked \in BOOLEAN /\ modeSet \in BOOLEAN /\ mNavigating \in BOOLEAN
    /\ over \in BOOLEAN /\ up \in BOOLEAN /\ sent \in BOOLEAN

Others ==
    /\ calls \in 0..MaxCalls
    /\ ulp \in ProxyTypes
    /\ ulpQueue \in Seq(Messages) /\ queue \in Seq(Messages)
    /\ mFixCriteria \in Criteria
    /\ engine_status \in {"NONE", "ENGINE_ON", "ENGINE_OFF"}
    /\ fix_session_status \in {"NONE", "SESSION_BEGIN", "SESSION_END"}
    /\ mute_session_state \in {"NONE", "WAIT", "IN_SESSION"}
    /\ aiding_data_for_deletion \subseteq AidingData
    /\ told \subseteq {"ENGINE_ON", "SESSION_BEGIN"}
    /\ track \in Criteria \cup {NoFix}
    /\ reports \in 0..MaxReports /\ restarts \in 0..MaxRestarts

\* The two parts are the type invariant.
LEMMA TypeParts == SessionTypeOK <=> Flags /\ Others
  BY Zenon DEF SessionTypeOK, Flags, Others, ProxyTypes
\* The same in the next state.
LEMMA TypePartsNext == SessionTypeOK' <=> Flags' /\ Others'
  BY Zenon DEF SessionTypeOK, Flags, Others, ProxyTypes

\* The initial states satisfy the invariant.
LEMMA SessionInvInit == Init => SessionInv
<1> SUFFICES ASSUME Init PROVE SessionInv
  OBVIOUS
<1> USE LocEngSessionAssumption DEF Init
<1>1. SessionTypeOK
  <2>1. Flags
    BY Zenon DEF Flags
  <2>2. ulp \in ProxyTypes
    BY DEF ProxyTypes
  <2>3. << >> \in Seq(Messages) /\ << [type |-> "SetUlpProxy"] >> \in Seq(Messages)
    BY DEF Messages, Simple
  <2>4. mFixCriteria \in Criteria
    BY DEF Criteria, Recurrences
  <2>6. queue \in Seq(Messages) /\ ulpQueue \in Seq(Messages)
    BY <2>3
  <2>7. calls \in 0..MaxCalls /\ reports \in 0..MaxReports
        /\ restarts \in 0..MaxRestarts
    OBVIOUS
  <2>5. Others
    BY <2>2, <2>6, <2>4, <2>7, Zenon DEF Others
  <2> QED
    BY <2>1, <2>5, TypeParts
<1>2. ProxyInv /\ TrackInv /\ MutedIsOn /\ ToldIsTrue
  BY DEF ProxyInv, None, TrackInv, MutedIsOn, ToldIsTrue, NoFix
<1>3. \A i \in 1..Len(queue) : queue[i] = [type |-> "SetUlpProxy"]
  OBVIOUS
<1>4. StopInv /\ StartInv
  BY <1>3 DEF StopInv, StartInv, Clear, None, Start
<1>5. BeginInv
  BY <1>3 DEF BeginInv, BeginsOn, Begin, StatusReport
<1> QED
  BY <1>1, <1>2, <1>4, <1>5 DEF SessionInv

\* A call of the framework that goes to the proxy keeps the types.
LEMMA ToProxyType ==
    ASSUME SessionTypeOK, NEW m \in Messages,
           NEW base \in ProxyTypes, ToProxy(m, base)
    PROVE  /\ ulp' \in ProxyTypes
           /\ ulpQueue' \in Seq(Messages) /\ queue' \in Seq(Messages)
<1>1. ulp \in ProxyTypes /\ ulpQueue \in Seq(Messages) /\ queue \in Seq(Messages)
  BY TypeParts DEF Others
<1>2. Append(ulpQueue, m) \in Seq(Messages) /\ Append(queue, m) \in Seq(Messages)
  BY <1>1
<1> QED
  BY <1>1, <1>2 DEF ToProxy

\* Every call of the framework keeps the types.
LEMMA FrameworkType == SessionTypeOK /\ Framework => SessionTypeOK'
<1> SUFFICES ASSUME SessionTypeOK, Framework PROVE SessionTypeOK'
  OBVIOUS
<1> USE LocEngSessionAssumption DEF Call
<1>a. Flags /\ Others
  BY TypeParts
<1>1. /\ [loaded |-> FALSE, mFixSet |-> TRUE, mPosMode |-> ulp.mPosMode]
            \in ProxyTypes
      /\ [loaded |-> FALSE, mFixSet |-> FALSE, mPosMode |-> ulp.mPosMode]
            \in ProxyTypes
      /\ \A r \in Recurrences :
            [loaded |-> FALSE, mFixSet |-> ulp.mFixSet, mPosMode |-> r]
                \in ProxyTypes
  BY <1>a DEF Others, ProxyTypes
<1>2. ASSUME NEW r \in Recurrences, loc_eng_set_position_mode(r)
      PROVE  SessionTypeOK'
  <2>1. [type |-> "PositionMode", recurrence |-> r] \in Messages
    BY DEF Messages
  <2>2. ulp' \in ProxyTypes /\ ulpQueue' \in Seq(Messages) /\ queue' \in Seq(Messages)
    BY <1>1, <1>2, <2>1, ToProxyType DEF loc_eng_set_position_mode
  <2>3. Flags'
    BY <1>a, <1>2, Zenon DEF loc_eng_set_position_mode, Flags, session, modem
  <2>4. Others'
    BY <1>a, <1>2, <2>2 DEF loc_eng_set_position_mode, Others, session, status,
       modem
  <2> QED
    BY <2>3, <2>4, TypePartsNext
<1>3. CASE loc_eng_start
  <2>2. ulp' \in ProxyTypes /\ ulpQueue' \in Seq(Messages) /\ queue' \in Seq(Messages)
    BY <1>1, <1>3, MessageFacts, ToProxyType DEF loc_eng_start, Start
  <2>3. Flags'
    BY <1>a, <1>3, Zenon DEF loc_eng_start, Flags, modem
  <2>4. Others'
    BY <1>a, <1>3, <2>2 DEF loc_eng_start, Others, status, modem
  <2> QED
    BY <2>3, <2>4, TypePartsNext
<1>4. ASSUME SendStop
      PROVE  /\ ulp' \in ProxyTypes /\ ulpQueue' \in Seq(Messages)
             /\ queue' \in Seq(Messages)
  BY <1>1, <1>4, MessageFacts, ToProxyType DEF SendStop, Stop
<1>5. CASE loc_eng_stop
  <2>1. ulp' \in ProxyTypes /\ ulpQueue' \in Seq(Messages) /\ queue' \in Seq(Messages)
    BY <1>4, <1>5 DEF loc_eng_stop
  <2>3. Flags'
    BY <1>a, <1>5, Zenon DEF loc_eng_stop, Flags, modem
  <2>4. Others'
    BY <1>a, <1>5, <2>1 DEF loc_eng_stop, Others, status, modem
  <2> QED
    BY <2>3, <2>4, TypePartsNext
<1>6. CASE loc_eng_cleanup
  <2>1. ulp' \in ProxyTypes /\ ulpQueue' \in Seq(Messages) /\ queue' \in Seq(Messages)
    BY <1>a, <1>4, <1>6 DEF loc_eng_cleanup, Others
  <2>3. Flags'
    BY <1>a, <1>6, Zenon DEF loc_eng_cleanup, Flags, session, modem
  <2>4. Others'
    BY <1>a, <1>6, <2>1 DEF loc_eng_cleanup, Others, session, status, modem
  <2> QED
    BY <2>3, <2>4, TypePartsNext
<1>7. ASSUME NEW f \in SUBSET AidingData, loc_eng_delete_aiding_data(f)
      PROVE  SessionTypeOK'
  <2>1. [type |-> "DelAidData", f |-> f] \in Messages
    BY DEF Messages
  <2>3. Flags'
    BY <1>a, <1>7, Zenon DEF loc_eng_delete_aiding_data, Flags, session, modem
  <2>4. Others'
    BY <1>a, <1>7, <2>1 DEF loc_eng_delete_aiding_data, Others, proxy, session,
       status, modem
  <2> QED
    BY <2>3, <2>4, TypePartsNext
<1> QED
  BY <1>2, <1>3, <1>5, <1>6, <1>7 DEF Framework

\* A message handler takes the head of the queue.
LEMMA MsgTaken ==
    ASSUME MsgThread
    PROVE  queue # << >> /\ queue' = Tail(queue)
<1>1. \E t : Taken(t)
  BY Zenon DEF MsgThread, start_handler, stop_handler, PositionMode, setUlpProxy,
     ReportPosition, ReportStatus, DelAidData, loc_eng_mute_one_session,
     handle_engine_down, LocSsrMsg, handle_engine_up
<1> QED
  BY <1>1 DEF Taken

\* Every message handler keeps the types.
LEMMA MsgThreadType == SessionTypeOK /\ MsgThread => SessionTypeOK'
<1> SUFFICES ASSUME SessionTypeOK, MsgThread PROVE SessionTypeOK'
  OBVIOUS
<1>a. Flags /\ Others
  BY TypeParts
<1>1. /\ queue # << >> /\ queue' = Tail(queue) /\ Head(queue) \in Messages
      /\ queue' \in Seq(Messages)
  BY <1>a, MsgTaken DEF Others
<1>2. [valid |-> FALSE, recurrence |-> mFixCriteria.recurrence] \in Criteria
  BY <1>a DEF Others, Criteria
<1>3. ASSUME NEW c \in Criteria, StartFix(c)
      PROVE  /\ track' \in Criteria \cup {NoFix} /\ mFixCriteria' \in Criteria
             /\ mNavigating' \in BOOLEAN /\ over' \in BOOLEAN
  <2>1. track' \in Criteria \cup {NoFix} /\ mFixCriteria' \in Criteria
    BY <1>a, <1>3 DEF StartFix, Others
  <2>2. mNavigating' \in BOOLEAN /\ over' \in BOOLEAN
    BY <1>3, Zenon DEF StartFix
  <2> QED
    BY <2>1, <2>2
<1>4. \A st \in Statuses : report_status(st) =>
          /\ engine_status' \in {"NONE", "ENGINE_ON", "ENGINE_OFF"}
          /\ fix_session_status' \in {"NONE", "SESSION_BEGIN", "SESSION_END"}
          /\ mute_session_state' \in {"NONE", "WAIT", "IN_SESSION"}
          /\ told' \subseteq {"ENGINE_ON", "SESSION_BEGIN"}
  BY <1>a DEF Others, report_status, MuteAfter, Statuses
<1>5. CASE start_handler
  <2>1. /\ track' \in Criteria \cup {NoFix} /\ mFixCriteria' \in Criteria
        /\ mNavigating' \in BOOLEAN /\ over' \in BOOLEAN
    BY <1>a, <1>3, <1>5, Zenon DEF start_handler, Flags, Others, session
  <2>2. Flags'
    BY <1>a, <1>5, <2>1, Zenon DEF start_handler, Flags, framework
  <2>3. Others'
    BY <1>a, <1>1, <1>5, <2>1 DEF start_handler, Others, framework, proxy, status
  <2> QED
    BY <2>2, <2>3, TypePartsNext
<1>6. CASE stop_handler
  <2>1. Flags'
    BY <1>a, <1>6, Zenon DEF stop_handler, SessionOff, Flags, framework
  <2>2. track' \in Criteria \cup {NoFix} /\ mFixCriteria' \in Criteria
    BY <1>a, <1>2, <1>6 DEF stop_handler, SessionOff, Others
  <2>3. Others'
    BY <1>a, <1>1, <1>6, <2>2 DEF stop_handler, Others, framework, proxy, status
  <2> QED
    BY <2>1, <2>3, TypePartsNext
<1>7. CASE PositionMode
  <2>1. [valid |-> TRUE, recurrence |-> Head(queue).recurrence] \in Criteria
    BY <1>1, <1>7, MessageFacts DEF PositionMode, Taken, Criteria
  <2>2. track' \in Criteria \cup {NoFix} /\ mFixCriteria' \in Criteria
    BY <1>a, <1>7, <2>1 DEF PositionMode, Others
  <2>3. Flags'
    BY <1>a, <1>7, Zenon DEF PositionMode, Flags, framework
  <2>4. Others'
    BY <1>a, <1>1, <1>7, <2>2 DEF PositionMode, Others, framework, proxy, status
  <2> QED
    BY <2>3, <2>4, TypePartsNext
<1>8. CASE setUlpProxy
  <2> DEFINE mode == IF ulp.mPosMode = "INVALID" THEN << >>
                ELSE << [type |-> "PositionMode", recurrence |-> ulp.mPosMode] >>
             fix == IF ulp.mFixSet THEN << [type |-> "StartFix"] >> ELSE << >>
  <2>1. ulp.mPosMode # "INVALID" =>
          [type |-> "PositionMode", recurrence |-> ulp.mPosMode] \in Messages
    BY <1>a DEF Messages, Others, ProxyTypes
  <2>2. mode \in Seq(Messages) /\ fix \in Seq(Messages)
    BY <2>1, MessageFacts DEF Start
  <2>3. ulpQueue' = ulpQueue \o mode \o fix
    BY <1>8 DEF setUlpProxy
  <2>4. ulpQueue' \in Seq(Messages)
    BY <1>a, <2>2, <2>3 DEF Others
  <2>5. ulp' \in ProxyTypes
    BY <1>8 DEF setUlpProxy, ProxyTypes
  <2>6. Flags'
    BY <1>a, <1>8, Zenon DEF setUlpProxy, Flags, framework, session, modem
  <2>7. Others'
    BY <1>a, <1>1, <1>8, <2>4, <2>5
    DEF setUlpProxy, Others, framework, session, status, modem
  <2> QED
    BY <2>6, <2>7, TypePartsNext
<1>9. CASE ReportPosition
  <2>1. Flags'
    BY <1>a, <1>9, Zenon DEF ReportPosition, SessionOff, Flags, framework, session
  <2>2. track' \in Criteria \cup {NoFix} /\ mFixCriteria' \in Criteria
    BY <1>a, <1>2, <1>9 DEF ReportPosition, SessionOff, Others, session
  <2>3. Others'
    BY <1>a, <1>1, <1>9, <2>2 DEF ReportPosition, Others, framework, proxy, status
  <2> QED
    BY <2>1, <2>3, TypePartsNext
<1>10. CASE ReportStatus
  <2>1. Head(queue).status \in Statuses
    BY <1>1, <1>10, MessageFacts DEF ReportStatus, Taken
  <2>2. Flags'
    BY <1>a, <1>10, Zenon DEF ReportStatus, Flags, framework, session, modem
  <2>3. Others'
    BY <1>a, <1>1, <1>4, <1>10, <2>1
    DEF ReportStatus, AfterUpdate, Others, framework, proxy, session, modem
  <2> QED
    BY <2>2, <2>3, TypePartsNext
<1>11. CASE DelAidData
  <2>1. Head(queue).f \subseteq AidingData
    BY <1>1, <1>11, MessageFacts DEF DelAidData, Taken
  <2>2. Flags'
    BY <1>a, <1>11, Zenon DEF DelAidData, Flags, framework, session, modem
  <2>3. Others'
    BY <1>a, <1>1, <1>11, <2>1
    DEF DelAidData, AfterUpdate, Others, framework, proxy, session, status, modem
  <2> QED
    BY <2>2, <2>3, TypePartsNext
<1>12. CASE loc_eng_mute_one_session
  <2>2. Flags'
    BY <1>a, <1>12, Zenon
    DEF loc_eng_mute_one_session, Flags, framework, session, modem
  <2>3. Others'
    BY <1>a, <1>1, <1>12
    DEF loc_eng_mute_one_session, Others, framework, proxy, session, modem
  <2> QED
    BY <2>2, <2>3, TypePartsNext
<1>13. CASE handle_engine_down
  <2>2. Flags'
    BY <1>a, <1>13, Zenon DEF handle_engine_down, Flags, framework, session, modem
  <2>3. Others'
    BY <1>a, <1>1, <1>4, <1>13
    DEF handle_engine_down, Others, framework, proxy, session, modem, Statuses
  <2> QED
    BY <2>2, <2>3, TypePartsNext
<1>14. CASE LocSsrMsg
  <2>2. Flags'
    BY <1>a, <1>14, Zenon DEF LocSsrMsg, Flags, framework, session
  <2>3. Others'
    BY <1>a, <1>1, <1>14 DEF LocSsrMsg, Others, framework, proxy, session, status
  <2> QED
    BY <2>2, <2>3, TypePartsNext
<1>15. CASE handle_engine_up
  <2>1. /\ track' \in Criteria \cup {NoFix} /\ mFixCriteria' \in Criteria
        /\ mNavigating' \in BOOLEAN /\ over' \in BOOLEAN
    BY <1>a, <1>2, <1>3, <1>15, Zenon DEF handle_engine_up, Flags, Others, session
  <2>2. Flags'
    BY <1>a, <1>15, <2>1, Zenon DEF handle_engine_up, Flags, framework
  <2>3. Others'
    BY <1>a, <1>1, <1>15, <2>1
    DEF handle_engine_up, Others, framework, proxy, status
  <2> QED
    BY <2>2, <2>3, TypePartsNext
<1> QED
  BY <1>5, <1>6, <1>7, <1>8, <1>9, <1>10, <1>11, <1>12, <1>13, <1>14, <1>15
  DEF MsgThread

\* The library and the modem keep the types.
LEMMA ModemType == SessionTypeOK /\ (UlpForward \/ Modem) => SessionTypeOK'
<1> SUFFICES ASSUME SessionTypeOK, UlpForward \/ Modem PROVE SessionTypeOK'
  OBVIOUS
<1> USE LocEngSessionAssumption DEF framework, proxy, session, status
<1>a. Flags /\ Others
  BY TypeParts
<1>1. CASE UlpForward
  <2>1. Flags'
    BY <1>a, <1>1, Zenon DEF UlpForward, Flags, modem
  <2>2. Others'
    BY <1>a, <1>1 DEF UlpForward, Others, modem
  <2> QED
    BY <2>1, <2>2, TypePartsNext
<1>2. ASSUME NEW m \in PositionReports, ModemFix(m)
      PROVE  SessionTypeOK'
  <2>1. m \in Messages
    BY DEF Messages
  <2>2. Flags'
    BY <1>a, <1>2, Zenon DEF ModemFix, Flags
  <2>3. Others'
    BY <1>a, <1>2, <2>1 DEF ModemFix, Post, Others
  <2> QED
    BY <2>2, <2>3, TypePartsNext
<1>3. CASE ModemGivesUp
  <2>1. Flags'
    BY <1>a, <1>3, Zenon DEF ModemGivesUp, Flags
  <2>2. Others'
    BY <1>a, <1>3 DEF ModemGivesUp, Others
  <2> QED
    BY <2>1, <2>2, TypePartsNext
<1>4. CASE ModemStatus
  <2>1. \A st \in Statuses : StatusReport(st) \in Messages
    BY DEF Messages, StatusReport
  <2>2. Flags'
    BY <1>a, <1>4, Zenon DEF ModemStatus, Flags
  <2>3. Others'
    BY <1>a, <1>4, <2>1 DEF ModemStatus, Post, Others, Statuses
  <2> QED
    BY <2>2, <2>3, TypePartsNext
<1>5. \A t \in Simple : [type |-> t] \in Messages
  BY DEF Messages
<1>6. CASE ModemMute
  <2>1. Flags'
    BY <1>a, <1>6, Zenon DEF ModemMute, Flags
  <2>2. Others'
    BY <1>a, <1>5, <1>6 DEF ModemMute, Post, Others, Simple
  <2> QED
    BY <2>1, <2>2, TypePartsNext
<1>7. CASE ModemDown
  <2>1. Flags'
    BY <1>a, <1>7, Zenon DEF ModemDown, Flags
  <2>2. Others'
    BY <1>a, <1>5, <1>7 DEF ModemDown, Post, Others, Simple
  <2> QED
    BY <2>1, <2>2, TypePartsNext
<1>8. CASE ModemUp
  <2>1. Flags'
    BY <1>a, <1>8, Zenon DEF ModemUp, Flags
  <2>2. Others'
    BY <1>a, <1>5, <1>8 DEF ModemUp, Post, Others, Simple
  <2> QED
    BY <2>1, <2>2, TypePartsNext
<1> QED
  BY <1>1, <1>2, <1>3, <1>4, <1>6, <1>7, <1>8 DEF Modem

-----------------------------------------------------------------------------
(* What the steps do to the commands under way.                            *)

\* Posting to the engine's queue.
LEMMA PostFacts ==
    ASSUME NEW q \in Seq(Messages), NEW u \in Seq(Messages),
           NEW m \in Messages, NEW a, NEW b
    PROVE  /\ m # b /\ Ends(a, b, q, u) => Ends(a, b, Append(q, m), u)
           /\ m # b /\ Clear(b, q, u) => Clear(b, Append(q, m), u)
           /\ m = a /\ None(b, u) => Ends(a, b, Append(q, m), u)
  BY AppendFacts DEF Ends, Clear

\* Calling the library.
LEMMA LibraryFacts ==
    ASSUME NEW q \in Seq(Messages), NEW u \in Seq(Messages),
           NEW m \in Messages, NEW a, NEW b
    PROVE  /\ m # b /\ Ends(a, b, q, u) => Ends(a, b, q, Append(u, m))
           /\ m # b /\ Clear(b, q, u) => Clear(b, q, Append(u, m))
           /\ m = a => Ends(a, b, q, Append(u, m))
  BY AppendFacts DEF Ends, Clear

\* The library passing on its first call.
LEMMA ForwardFacts ==
    ASSUME NEW q \in Seq(Messages), NEW u \in Seq(Messages), u # << >>,
           NEW a, NEW b
    PROVE  /\ Ends(a, b, q, u) => Ends(a, b, Append(q, Head(u)), Tail(u))
           /\ Clear(b, q, u) => Clear(b, Append(q, Head(u)), Tail(u))
<1>1. Head(u) \in Messages /\ Tail(u) \in Seq(Messages)
  OBVIOUS
<1>2. None(b, u) => Head(u) # b /\ None(b, Tail(u))
  <2>1. Len(u) \in Nat \ {0} /\ Head(u) = u[1]
    OBVIOUS
  <2> QED
    BY <2>1, TailFacts DEF None
<1>3. LastIs(a, b, u) => LastIs(a, b, Tail(u)) \/ (Head(u) = a /\ None(b, Tail(u)))
  BY TailFacts
<1>4. /\ Head(u) # b /\ None(b, q) => None(b, Append(q, Head(u)))
      /\ Head(u) # b /\ LastIs(a, b, q) => LastIs(a, b, Append(q, Head(u)))
      /\ Head(u) = a => LastIs(a, b, Append(q, Head(u)))
  BY <1>1, AppendFacts
<1> QED
  BY <1>2, <1>3, <1>4, Zenon DEF Ends, Clear

\* The message thread taking the head of the engine's queue.
LEMMA TakeFacts ==
    ASSUME NEW q \in Seq(Messages), NEW u \in Seq(Messages), q # << >>,
           NEW a, NEW b
    PROVE  /\ Ends(a, b, q, u) =>
                  Ends(a, b, Tail(q), u) \/ (Head(q) = a /\ Clear(b, Tail(q), u))
           /\ Clear(b, q, u) => Head(q) # b /\ Clear(b, Tail(q), u)
<1>1. Len(q) \in Nat \ {0} /\ Head(q) = q[1]
  OBVIOUS
<1>2. None(b, q) => Head(q) # b /\ None(b, Tail(q))
  BY <1>1, TailFacts DEF None
<1>3. LastIs(a, b, q) => LastIs(a, b, Tail(q)) \/ (Head(q) = a /\ None(b, Tail(q)))
  BY TailFacts
<1> QED
  BY <1>2, <1>3, Zenon DEF Ends, Clear

\* What keeps the modem's two reports in order.
LEMMA BeginFacts ==
    ASSUME NEW q \in Seq(Messages), NEW m \in Messages, NEW es, BeginsOn(q, es)
    PROVE  /\ m # Begin => BeginsOn(Append(q, m), es)
           /\ BeginsOn(Append(Append(q, On), Begin), es)
           /\ \A next : q # << >> /\ (Head(q) = On => next = "ENGINE_ON") =>
                  BeginsOn(Tail(q), next)
<1>1. ASSUME m # Begin PROVE BeginsOn(Append(q, m), es)
  <2>1. /\ Len(q) \in Nat /\ Len(Append(q, m)) = Len(q) + 1
        /\ Append(q, m)[Len(q) + 1] = m
        /\ \A j \in 1..Len(q) : Append(q, m)[j] = q[j]
    OBVIOUS
  <2> QED
    BY <1>1, <2>1 DEF BeginsOn
<1>2. BeginsOn(Append(Append(q, On), Begin), es)
  <2> DEFINE r == Append(Append(q, On), Begin)
  <2>1. /\ Len(q) \in Nat /\ Len(r) = Len(q) + 2
        /\ r[Len(q) + 1] = On /\ r[Len(q) + 2] = Begin
        /\ \A j \in 1..Len(q) : r[j] = q[j]
    BY MessageFacts
  <2> HIDE DEF r
  <2>2. BeginsOn(r, es)
    BY <2>1, MessageFacts DEF BeginsOn
  <2> QED
    BY <2>2 DEF r
<1>3. ASSUME NEW next, q # << >>, Head(q) = On => next = "ENGINE_ON"
      PROVE  BeginsOn(Tail(q), next)
  <2>1. /\ Len(q) \in Nat \ {0} /\ Len(Tail(q)) = Len(q) - 1 /\ Head(q) = q[1]
        /\ \A j \in 1..Len(Tail(q)) : Tail(q)[j] = q[j + 1]
    BY <1>3
  <2> SUFFICES ASSUME NEW i \in 1..Len(Tail(q)), Tail(q)[i] = Begin
               PROVE  IF i = 1 THEN next = "ENGINE_ON" ELSE Tail(q)[i - 1] = On
    BY DEF BeginsOn
  <2>2. i + 1 \in 1..Len(q) /\ i + 1 # 1 /\ (i + 1) - 1 = i
    BY <2>1
  <2>3. q[i] = On
    BY <2>1, <2>2 DEF BeginsOn
  <2>4. CASE i = 1
    BY <1>3, <2>1, <2>3, <2>4
  <2>5. CASE i # 1
    <3>1. i - 1 \in 1..Len(Tail(q)) /\ (i - 1) + 1 = i
      BY <2>1, <2>5
    <3> QED
      BY <2>1, <2>3, <2>5, <3>1
  <2> QED
    BY <2>4, <2>5
<1> QED
  BY <1>1, <1>2, <1>3

\* A call that goes to the proxy, wherever that is.
LEMMA CallFacts ==
    ASSUME SessionTypeOK, ProxyInv, NEW m \in Messages, NEW base,
           ToProxy(m, base), NEW a, NEW b
    PROVE  /\ m # b /\ Ends(a, b, queue, ulpQueue) => Ends(a, b, queue', ulpQueue')
           /\ m # b /\ Clear(b, queue, ulpQueue) => Clear(b, queue', ulpQueue')
           /\ m = a => Ends(a, b, queue', ulpQueue')
<1>1. queue \in Seq(Messages) /\ ulpQueue \in Seq(Messages)
  BY DEF SessionTypeOK
<1>2. CASE ulp.loaded
  <2>1. ulpQueue' = Append(ulpQueue, m) /\ queue' = queue
    BY <1>2 DEF ToProxy
  <2> QED
    BY <1>1, <2>1, LibraryFacts
<1>3. CASE ~ ulp.loaded
  <2>1. ulpQueue' = ulpQueue /\ queue' = Append(queue, m)
    BY <1>3 DEF ToProxy
  <2>2. None(b, ulpQueue)
    BY <1>3 DEF ProxyInv, None
  <2> QED
    BY <1>1, <2>1, <2>2, PostFacts
<1> QED
  BY <1>2, <1>3

-----------------------------------------------------------------------------
(* The invariant is inductive: one lemma per actor.                        *)

\* The parts other than type correctness.
SafeInv ==
    /\ ProxyInv /\ TrackInv /\ StopInv /\ StartInv /\ BeginInv
    /\ MutedIsOn /\ ToldIsTrue

\* A mode, and a deletion, is no command, and none is a status report.
LEMMA OtherMessages ==
    /\ \A r : /\ [type |-> "PositionMode", recurrence |-> r] # Start
              /\ [type |-> "PositionMode", recurrence |-> r] # Stop
              /\ [type |-> "PositionMode", recurrence |-> r] # Begin
    /\ \A f : /\ [type |-> "DelAidData", f |-> f] # Start
              /\ [type |-> "DelAidData", f |-> f] # Stop
              /\ [type |-> "DelAidData", f |-> f] # Begin
    /\ \A f \in SUBSET AidingData : [type |-> "DelAidData", f |-> f] \in Messages
    /\ \A r \in Recurrences :
          [type |-> "PositionMode", recurrence |-> r] \in Messages
  BY DEF Start, Stop, Begin, StatusReport, Messages

\* What every call through the proxy keeps besides the commands.
LEMMA CallKeeps ==
    ASSUME SessionTypeOK, ProxyInv, BeginInv, NEW m \in Messages, m # Begin,
           NEW base, base.loaded = FALSE, ToProxy(m, base),
           engine_status' = engine_status
    PROVE  /\ ~ ulp.loaded' => ulpQueue' = << >>
           /\ None(Begin, ulpQueue')
           /\ BeginInv'
           /\ (ulp' = ulp /\ ulp.loaded) \/ ulp' = base
<1>1. queue \in Seq(Messages) /\ ulpQueue \in Seq(Messages)
  BY DEF SessionTypeOK
<1>2. CASE ulp.loaded
  <2>1. ulpQueue' = Append(ulpQueue, m) /\ queue' = queue /\ ulp' = ulp
    BY <1>2 DEF ToProxy
  <2>2. None(Begin, ulpQueue')
    BY <1>1, <2>1, AppendFacts DEF ProxyInv
  <2>3. BeginInv'
    BY <2>1 DEF BeginInv
  <2> QED
    BY <1>2, <2>1, <2>2, <2>3
<1>3. CASE ~ ulp.loaded
  <2>1. ulpQueue' = ulpQueue /\ queue' = Append(queue, m) /\ ulp' = base
    BY <1>3 DEF ToProxy
  <2>2. BeginsOn(queue', engine_status)
    BY <1>1, <2>1, BeginFacts DEF BeginInv
  <2>3. BeginInv'
    BY <2>2 DEF BeginInv
  <2> QED
    BY <1>3, <2>1, <2>3 DEF ProxyInv
<1> QED
  BY <1>2, <1>3

\* Every call of the framework keeps the invariant: a start or a stop becomes
\* the last command under way.
LEMMA FrameworkSafe == SessionTypeOK /\ SafeInv /\ Framework => SafeInv'
<1> SUFFICES ASSUME SessionTypeOK, SafeInv, Framework PROVE SafeInv'
  OBVIOUS
<1>a. /\ ProxyInv /\ TrackInv /\ StopInv /\ StartInv /\ BeginInv
      /\ MutedIsOn /\ ToldIsTrue
  BY Zenon DEF SafeInv
<1>b. queue \in Seq(Messages) /\ ulpQueue \in Seq(Messages)
  BY DEF SessionTypeOK
<1>c. /\ mNavigating' = mNavigating /\ mFixCriteria' = mFixCriteria
      /\ track' = track /\ engine_status' = engine_status
      /\ fix_session_status' = fix_session_status
      /\ mute_session_state' = mute_session_state /\ told' = told
  BY DEF Framework, loc_eng_set_position_mode, loc_eng_start, loc_eng_stop,
     loc_eng_cleanup, loc_eng_delete_aiding_data, session, status, modem
<1>d. TrackInv' /\ MutedIsOn' /\ ToldIsTrue'
  BY <1>a, <1>c DEF TrackInv, MutedIsOn, ToldIsTrue
<1> SUFFICES ProxyInv' /\ StopInv' /\ StartInv' /\ BeginInv'
  BY <1>d DEF SafeInv
<1>1. ASSUME NEW r \in Recurrences, loc_eng_set_position_mode(r)
      PROVE  ProxyInv' /\ StopInv' /\ StartInv' /\ BeginInv'
  <2> DEFINE m == [type |-> "PositionMode", recurrence |-> r]
             base == [loaded |-> FALSE, mFixSet |-> ulp.mFixSet, mPosMode |-> r]
  <2>1. /\ ToProxy(m, base) /\ asked' = asked /\ over' = over
        /\ base.loaded = FALSE /\ base.mFixSet = ulp.mFixSet
    BY <1>1 DEF loc_eng_set_position_mode, session
  <2>2. m \in Messages /\ m # Start /\ m # Stop /\ m # Begin
    BY OtherMessages
  <2> HIDE DEF m, base
  <2>3. ProxyInv' /\ BeginInv'
    BY <1>a, <1>c, <2>1, <2>2, CallKeeps DEF ProxyInv
  <2>4. StopInv' /\ StartInv'
    BY <1>a, <1>c, <2>1, <2>2, CallFacts DEF StopInv, StartInv
  <2> QED
    BY <2>3, <2>4
<1>2. CASE loc_eng_start
  <2> DEFINE base == [loaded |-> FALSE, mFixSet |-> TRUE,
                      mPosMode |-> ulp.mPosMode]
  <2>1. ToProxy(Start, base) /\ asked' = TRUE /\ base.loaded = FALSE
    BY <1>2 DEF loc_eng_start, Start
  <2> HIDE DEF base
  <2>3. ProxyInv' /\ BeginInv'
    BY <1>a, <1>c, <2>1, MessageFacts, CallKeeps DEF ProxyInv
  <2>4. StopInv' /\ StartInv'
    BY <1>a, <1>c, <2>1, MessageFacts, CallFacts DEF StopInv, StartInv
  <2> QED
    BY <2>3, <2>4
<1>3. ASSUME SendStop, ~ asked'
      PROVE  ProxyInv' /\ StopInv' /\ StartInv' /\ BeginInv'
  <2> DEFINE base == [loaded |-> FALSE, mFixSet |-> FALSE,
                      mPosMode |-> ulp.mPosMode]
  <2>1. ToProxy(Stop, base) /\ base.loaded = FALSE /\ base.mFixSet = FALSE
    BY <1>3 DEF SendStop, Stop
  <2> HIDE DEF base
  <2>2. /\ ~ ulp.loaded' => ulpQueue' = << >>
        /\ None(Begin, ulpQueue') /\ BeginInv'
    BY <1>a, <1>c, <2>1, MessageFacts, CallKeeps
  <2>3. ulp.mFixSet' = FALSE
    BY <1>a, <1>c, <2>1, MessageFacts, CallKeeps
    DEF ProxyInv, SessionTypeOK
  <2>4. StopInv' /\ StartInv'
    BY <1>a, <1>c, <1>3, <2>1, MessageFacts, CallFacts DEF StopInv, StartInv
  <2> QED
    BY <1>3, <2>2, <2>3, <2>4 DEF ProxyInv
<1>4. CASE loc_eng_stop
  BY <1>3, <1>4 DEF loc_eng_stop
<1>5. CASE loc_eng_cleanup
  <2>2. CASE mNavigating
    BY <1>3, <1>5, <2>2 DEF loc_eng_cleanup
  <2>3. CASE ~ mNavigating
    <3>1. /\ ulp' = ulp /\ ulpQueue' = ulpQueue /\ queue' = queue
          /\ asked' = asked /\ over' = over
      BY <1>5, <2>3 DEF loc_eng_cleanup
    <3> QED
      BY <1>a, <1>c, <3>1 DEF ProxyInv, StopInv, StartInv, BeginInv
  <2> QED
    BY <2>2, <2>3
<1>6. ASSUME NEW f \in SUBSET AidingData, loc_eng_delete_aiding_data(f)
      PROVE  ProxyInv' /\ StopInv' /\ StartInv' /\ BeginInv'
  <2> DEFINE m == [type |-> "DelAidData", f |-> f]
  <2>1. /\ queue' = Append(queue, m) /\ ulpQueue' = ulpQueue /\ ulp' = ulp
        /\ asked' = asked /\ over' = over
    BY <1>6 DEF loc_eng_delete_aiding_data, proxy, session
  <2>2. m \in Messages /\ m # Start /\ m # Stop /\ m # Begin
    BY OtherMessages
  <2> HIDE DEF m
  <2>3. ProxyInv'
    BY <1>a, <2>1 DEF ProxyInv
  <2>4. BeginInv'
    BY <1>a, <1>b, <1>c, <2>1, <2>2, BeginFacts DEF BeginInv
  <2>5. StopInv' /\ StartInv'
    BY <1>a, <1>b, <1>c, <2>1, <2>2, PostFacts DEF StopInv, StartInv
  <2> QED
    BY <2>3, <2>4, <2>5
<1> QED
  BY <1>1, <1>2, <1>4, <1>5, <1>6 DEF Framework

\* The library passes its calls on in order, so the last command stays last.
LEMMA UlpSafe == SessionTypeOK /\ SafeInv /\ UlpForward => SafeInv'
<1> SUFFICES ASSUME SessionTypeOK, SafeInv, UlpForward PROVE SafeInv'
  OBVIOUS
<1>a. /\ ProxyInv /\ TrackInv /\ StopInv /\ StartInv /\ BeginInv
      /\ MutedIsOn /\ ToldIsTrue
  BY Zenon DEF SafeInv
<1>b. queue \in Seq(Messages) /\ ulpQueue \in Seq(Messages)
  BY DEF SessionTypeOK
<1>1. /\ ulpQueue # << >> /\ queue' = Append(queue, Head(ulpQueue))
      /\ ulpQueue' = Tail(ulpQueue) /\ ulp' = ulp /\ asked' = asked
      /\ over' = over /\ mNavigating' = mNavigating
      /\ mFixCriteria' = mFixCriteria
      /\ track' = track /\ engine_status' = engine_status
      /\ fix_session_status' = fix_session_status
      /\ mute_session_state' = mute_session_state /\ told' = told
  BY DEF UlpForward, framework, session, status, modem
<1>2. TrackInv' /\ MutedIsOn' /\ ToldIsTrue'
  BY <1>a, <1>1 DEF TrackInv, MutedIsOn, ToldIsTrue
<1>3. /\ Head(ulpQueue) \in Messages /\ Head(ulpQueue) = ulpQueue[1]
      /\ Len(ulpQueue) \in Nat \ {0}
  BY <1>b, <1>1
<1>4. Head(ulpQueue) # Begin
  BY <1>a, <1>3 DEF ProxyInv, None
<1>5. BeginInv'
  BY <1>a, <1>b, <1>1, <1>3, <1>4, BeginFacts DEF BeginInv
<1>6. None(Begin, ulpQueue')
  BY <1>a, <1>b, <1>1, TailFacts DEF ProxyInv
<1>7. ProxyInv'
  BY <1>a, <1>1, <1>6 DEF ProxyInv
<1>8. StopInv' /\ StartInv'
  BY <1>a, <1>b, <1>1, ForwardFacts DEF StopInv, StartInv
<1> QED
  BY <1>2, <1>5, <1>7, <1>8 DEF SafeInv

\* A step of the modem adds at most two messages to the queue, none of them a
\* command, and changes only its own fix.
LEMMA ModemSafe == SessionTypeOK /\ SafeInv /\ Modem => SafeInv'
<1> SUFFICES ASSUME SessionTypeOK, SafeInv, Modem PROVE SafeInv'
  OBVIOUS
<1>a. /\ ProxyInv /\ TrackInv /\ StopInv /\ StartInv /\ BeginInv
      /\ MutedIsOn /\ ToldIsTrue
  BY Zenon DEF SafeInv
<1>b. queue \in Seq(Messages) /\ ulpQueue \in Seq(Messages)
  BY DEF SessionTypeOK
<1>1. /\ ulpQueue' = ulpQueue /\ ulp' = ulp /\ asked' = asked
      /\ over' = over /\ mNavigating' = mNavigating
      /\ mFixCriteria' = mFixCriteria /\ engine_status' = engine_status
      /\ fix_session_status' = fix_session_status
      /\ mute_session_state' = mute_session_state /\ told' = told
  BY DEF Modem, ModemFix, ModemGivesUp, ModemStatus, ModemMute, ModemDown,
     ModemUp, framework, proxy, session, status
<1>2. track' = track \/ track' = NoFix
  BY DEF Modem, ModemFix, ModemGivesUp, ModemStatus, ModemMute, ModemDown,
     ModemUp
<1>3. TrackInv' /\ MutedIsOn' /\ ToldIsTrue' /\ ProxyInv'
  BY <1>a, <1>1, <1>2 DEF TrackInv, MutedIsOn, ToldIsTrue, ProxyInv, NoFix
<1>4. ASSUME NEW m \in Messages, queue' = Append(queue, m),
             m # Start, m # Stop, m # Begin
      PROVE  BeginInv' /\ StopInv' /\ StartInv'
  <2>1. BeginInv'
    BY <1>a, <1>b, <1>1, <1>4, BeginFacts DEF BeginInv
  <2>2. StopInv' /\ StartInv'
    BY <1>a, <1>b, <1>1, <1>4, PostFacts DEF StopInv, StartInv
  <2> QED
    BY <2>1, <2>2
<1>5. ASSUME NEW m \in Messages, NEW n \in Messages,
             queue' = Append(Append(queue, m), n),
             m # Start, m # Stop, n # Start, n # Stop,
             (m # Begin /\ n # Begin) \/ (m = On /\ n = Begin)
      PROVE  BeginInv' /\ StopInv' /\ StartInv'
  <2>1. Append(queue, m) \in Seq(Messages)
    BY <1>b
  <2>2. ASSUME m # Begin, n # Begin PROVE BeginInv'
    <3>1. BeginsOn(Append(queue, m), engine_status)
      BY <1>a, <1>b, <2>2, BeginFacts DEF BeginInv
    <3> QED
      BY <1>1, <1>5, <2>1, <2>2, <3>1, BeginFacts DEF BeginInv
  <2>3. ASSUME m = On, n = Begin PROVE BeginInv'
    BY <1>a, <1>b, <1>1, <1>5, <2>3, BeginFacts DEF BeginInv
  <2>4. BeginInv'
    BY <1>5, <2>2, <2>3
  <2>5. /\ Ends(Stop, Start, queue, ulpQueue) =>
              Ends(Stop, Start, Append(queue, m), ulpQueue)
        /\ Ends(Start, Stop, queue, ulpQueue) =>
              Ends(Start, Stop, Append(queue, m), ulpQueue)
        /\ Clear(Start, queue, ulpQueue) => Clear(Start, Append(queue, m), ulpQueue)
        /\ Clear(Stop, queue, ulpQueue) => Clear(Stop, Append(queue, m), ulpQueue)
    BY <1>b, <1>5, PostFacts
  <2>6. StopInv' /\ StartInv'
    BY <1>a, <1>b, <1>1, <1>5, <2>1, <2>5, PostFacts DEF StopInv, StartInv
  <2> QED
    BY <2>4, <2>6
<1> SUFFICES BeginInv' /\ StopInv' /\ StartInv'
  BY <1>3 DEF SafeInv
<1>6. \A t \in Simple \ {"StartFix", "StopFix"} :
         /\ [type |-> t] \in Messages /\ [type |-> t] # Start
         /\ [type |-> t] # Stop /\ [type |-> t] # Begin
  BY DEF Messages, Start, Stop, Begin, StatusReport
<1>7. ASSUME NEW m \in PositionReports, ModemFix(m)
      PROVE  BeginInv' /\ StopInv' /\ StartInv'
  <2>1. m \in Messages /\ m # Start /\ m # Stop /\ m # Begin
    BY DEF Messages, PositionReports, Start, Stop, Begin, StatusReport
  <2>2. queue' = Append(queue, m)
    BY <1>b, <1>7, <2>1, ConcatFacts DEF ModemFix, Post
  <2> QED
    BY <1>4, <2>1, <2>2
<1>8. CASE ModemGivesUp
  <2>1. queue' = queue
    BY <1>8 DEF ModemGivesUp
  <2> QED
    BY <1>a, <1>1, <2>1 DEF BeginInv, StopInv, StartInv
<1>9. CASE ModemStatus
  <2>1. /\ StatusReport("SESSION_END") \in Messages
        /\ StatusReport("ENGINE_OFF") \in Messages
        /\ StatusReport("SESSION_END") \notin {Start, Stop, Begin}
        /\ StatusReport("ENGINE_OFF") \notin {Start, Stop, Begin}
    BY DEF Messages, Statuses, StatusReport, Start, Stop, Begin
  <2>2. CASE sent
    <3>1. queue' = Append(Append(queue, StatusReport("SESSION_END")),
                          StatusReport("ENGINE_OFF"))
      BY <1>b, <1>9, <2>1, <2>2, ConcatFacts DEF ModemStatus, Post
    <3> QED
      BY <1>5, <2>1, <3>1
  <2>3. CASE ~ sent
    <3>1. queue' = Append(Append(queue, On), Begin)
      BY <1>b, <1>9, <2>3, MessageFacts, ConcatFacts DEF ModemStatus, Post, On, Begin
    <3> QED
      BY <1>5, <3>1, MessageFacts
  <2> QED
    BY <2>2, <2>3
<1>10. CASE ModemMute
  <2>1. queue' = Append(queue, [type |-> "MuteOneSession"])
    BY <1>b, <1>6, <1>10, ConcatFacts DEF ModemMute, Post, Simple
  <2> QED
    BY <1>4, <1>6, <2>1 DEF Simple
<1>11. CASE ModemDown
  <2>1. queue' = Append(queue, [type |-> "Down"])
    BY <1>b, <1>6, <1>11, ConcatFacts DEF ModemDown, Post, Simple
  <2> QED
    BY <1>4, <1>6, <2>1 DEF Simple
<1>12. CASE ModemUp
  <2>1. queue' = Append(Append(queue, [type |-> "Ssr"]), [type |-> "Up"])
    BY <1>b, <1>6, <1>12, ConcatFacts DEF ModemUp, Post, Simple
  <2> QED
    BY <1>5, <1>6, <2>1 DEF Simple
<1> QED
  BY <1>7, <1>8, <1>9, <1>10, <1>11, <1>12 DEF Modem

\* What a message handler does to the session flag: only a start sets it, a
\* stop clears it, and nothing else ends a session that the framework asks for
\* and that is neither refused nor reported.
LEMMA MsgThreadSession ==
    ASSUME SessionTypeOK, MsgThread
    PROVE  /\ asked' = asked
           /\ ~ mNavigating /\ Head(queue) # Start => ~ mNavigating'
           /\ Head(queue) = Stop => ~ mNavigating'
           /\ asked /\ ~ over' => ~ over
           /\ asked /\ ~ over' /\ mNavigating /\ Head(queue) # Stop => mNavigating'
           /\ asked /\ ~ over' /\ Head(queue) = Start => mNavigating'
<1>a. queue # << >> /\ queue \in Seq(Messages) /\ Head(queue) \in Messages
  BY MsgTaken DEF SessionTypeOK
<1>b. /\ Start.type = "StartFix" /\ Stop.type = "StopFix"
      /\ Head(queue).type = "StartFix" => Head(queue) = Start
      /\ Head(queue).type = "StopFix" => Head(queue) = Stop
  BY <1>a, MessageFacts
<1>1. CASE start_handler
  <2>1. Head(queue) = Start /\ Head(queue) # Stop /\ asked' = asked
    BY <1>1, <1>b DEF start_handler, Taken, framework
  <2>2. CASE mNavigating
    BY <1>1, <2>1, <2>2 DEF start_handler, session
  <2>3. CASE ~ mNavigating
    BY <1>1, <2>1, <2>3 DEF start_handler, StartFix
  <2> QED
    BY <2>2, <2>3
<1>2. CASE stop_handler
  BY <1>2, <1>b DEF stop_handler, SessionOff, Taken, framework
<1>3. CASE handle_engine_up
  <2>1. Head(queue) # Start /\ Head(queue) # Stop /\ asked' = asked
    BY <1>3, <1>b DEF handle_engine_up, Taken, framework
  <2>2. CASE mNavigating
    BY <1>3, <2>1, <2>2 DEF handle_engine_up, StartFix
  <2>3. CASE ~ mNavigating
    BY <1>3, <2>1, <2>3 DEF handle_engine_up, session
  <2> QED
    BY <2>2, <2>3
<1>4. CASE ReportPosition
  <2>1. Head(queue) # Start /\ Head(queue) # Stop /\ asked' = asked
    BY <1>4, <1>b DEF ReportPosition, Taken, framework
  <2>2. \/ mNavigating' = FALSE /\ over' = asked
        \/ mNavigating' = mNavigating /\ over' = over
    BY <1>4 DEF ReportPosition, SessionOff, session
  <2> QED
    BY <2>1, <2>2
<1>5. CASE \/ PositionMode \/ setUlpProxy \/ ReportStatus \/ DelAidData
           \/ loc_eng_mute_one_session \/ handle_engine_down \/ LocSsrMsg
  <2>1. Head(queue) # Start /\ Head(queue) # Stop
    BY <1>5, <1>b DEF PositionMode, setUlpProxy, ReportStatus, DelAidData,
       loc_eng_mute_one_session, handle_engine_down, LocSsrMsg, Taken
  <2>2. asked' = asked /\ mNavigating' = mNavigating /\ over' = over
    BY <1>5 DEF PositionMode, setUlpProxy, ReportStatus, DelAidData,
       loc_eng_mute_one_session, handle_engine_down, LocSsrMsg,
       framework, session
  <2> QED
    BY <2>1, <2>2
<1> QED
  BY <1>1, <1>2, <1>3, <1>4, <1>5 DEF MsgThread

\* The change of proxy adds no stop to the calls under way, and a start only
\* for a session that is asked for; the other handlers add nothing.
LEMMA MsgThreadQueues ==
    ASSUME SessionTypeOK, ProxyInv, MsgThread
    PROVE  /\ ProxyInv'
           /\ \A a \in {Start, Stop}, b \in {Start, Stop} :
                 b = Stop \/ ~ asked =>
                    /\ Ends(a, b, queue', ulpQueue) => Ends(a, b, queue', ulpQueue')
                    /\ Clear(b, queue', ulpQueue) => Clear(b, queue', ulpQueue')
<1>a. queue' \in Seq(Messages) /\ ulpQueue \in Seq(Messages) /\ asked' = asked
  <2>1. queue' = Tail(queue) /\ queue # << >> /\ asked' = asked
    BY MsgTaken, MsgThreadSession, Zenon
  <2>2. queue \in Seq(Messages) /\ ulpQueue \in Seq(Messages)
    BY DEF SessionTypeOK
  <2> QED
    BY <2>1, <2>2
<1>1. ASSUME ulpQueue' = ulpQueue, ulp' = ulp
      PROVE  ProxyInv'
  BY <1>a, <1>1 DEF ProxyInv
<1>2. CASE ulpQueue' = ulpQueue /\ ulp' = ulp
  BY <1>1, <1>2
<1>3. CASE setUlpProxy
  <2> DEFINE mode == [type |-> "PositionMode", recurrence |-> ulp.mPosMode]
             u == IF ulp.mPosMode = "INVALID" THEN ulpQueue
                  ELSE Append(ulpQueue, mode)
             v == IF ulp.mFixSet THEN Append(u, Start) ELSE u
  <2>1. ulp.mPosMode \in Recurrences \cup {"INVALID"}
    BY DEF SessionTypeOK
  <2>2. mode # Start /\ mode # Stop /\ mode # Begin
    BY OtherMessages
  <2>3. ulp.mPosMode # "INVALID" => mode \in Messages
    BY <2>1, OtherMessages
  <2>4. u \in Seq(Messages)
    BY <1>a, <2>3
  <2>5. ulpQueue' = v
    <3>1. ulpQueue' = ulpQueue
             \o (IF ulp.mPosMode = "INVALID" THEN << >> ELSE << mode >>)
             \o (IF ulp.mFixSet THEN << Start >> ELSE << >>)
      BY <1>3 DEF setUlpProxy, Start
    <3>2. ulpQueue \o (IF ulp.mPosMode = "INVALID" THEN << >> ELSE << mode >>) = u
      BY <1>a, <2>3, MessageFacts, ConcatFacts
    <3> HIDE DEF u
    <3> QED
      BY <2>4, <3>1, <3>2, MessageFacts, ConcatFacts
  <2>6. ulp'.loaded = TRUE /\ ulp'.mFixSet = FALSE
    BY <1>3 DEF setUlpProxy
  <2> HIDE DEF mode
  <2>7. None(Begin, u)
    BY <1>a, <2>2, <2>3, AppendFacts DEF ProxyInv
  <2>8. None(Begin, v)
    BY <2>4, <2>7, AppendFacts, MessageFacts
  <2>9. ProxyInv'
    BY <2>5, <2>6, <2>8 DEF ProxyInv
  <2>10. ASSUME NEW a \in {Start, Stop}, NEW b \in {Start, Stop},
                b = Stop \/ ~ asked
         PROVE  /\ Ends(a, b, queue', ulpQueue) => Ends(a, b, queue', v)
                /\ Clear(b, queue', ulpQueue) => Clear(b, queue', v)
    <3>1. /\ Ends(a, b, queue', ulpQueue) => Ends(a, b, queue', u)
          /\ Clear(b, queue', ulpQueue) => Clear(b, queue', u)
      BY <1>a, <2>2, <2>3, LibraryFacts
    <3>2. ulp.mFixSet => Start # b
      BY <2>10, MessageFacts DEF ProxyInv
    <3> HIDE DEF u
    <3> QED
      BY <1>a, <2>4, <3>1, <3>2, LibraryFacts, MessageFacts
  <2> QED
    BY <2>5, <2>9, <2>10
<1>4. setUlpProxy \/ (ulpQueue' = ulpQueue /\ ulp' = ulp)
  BY DEF MsgThread, start_handler, stop_handler, PositionMode, ReportPosition,
     ReportStatus, DelAidData, loc_eng_mute_one_session, handle_engine_down,
     LocSsrMsg, handle_engine_up, proxy
<1> QED
  BY <1>2, <1>3, <1>4

\* What a message handler does to the status.
LEMMA MsgThreadStatus ==
    ASSUME SessionTypeOK, BeginInv, MutedIsOn, ToldIsTrue, MsgThread
    PROVE  BeginInv' /\ MutedIsOn' /\ ToldIsTrue'
<1>a. /\ queue # << >> /\ queue \in Seq(Messages) /\ Head(queue) \in Messages
      /\ queue' = Tail(queue)
  BY MsgTaken DEF SessionTypeOK
<1>b. Head(queue) = Begin => engine_status = "ENGINE_ON"
  <2>1. Len(queue) \in Nat \ {0} /\ Head(queue) = queue[1]
    BY <1>a
  <2> QED
    BY <2>1 DEF BeginInv, BeginsOn
<1>c. /\ engine_status \in {"NONE", "ENGINE_ON", "ENGINE_OFF"}
      /\ fix_session_status \in {"NONE", "SESSION_BEGIN", "SESSION_END"}
      /\ mute_session_state \in {"NONE", "WAIT", "IN_SESSION"}
  BY DEF SessionTypeOK
<1>1. ASSUME NEW st \in Statuses, report_status(st),
             st = "SESSION_BEGIN" => engine_status = "ENGINE_ON"
      PROVE  /\ MutedIsOn' /\ ToldIsTrue'
             /\ st = "ENGINE_ON" => engine_status' = "ENGINE_ON"
  <2>1. MutedIsOn'
    BY <1>1, <1>c DEF MutedIsOn, report_status, MuteAfter, Statuses
  <2>2. st = "ENGINE_OFF" => Informed(st)
    BY <1>c DEF Informed, MuteAfter
  <2>3. ToldIsTrue'
    BY <1>1, <1>c, <2>2 DEF ToldIsTrue, report_status, Statuses
  <2> QED
    BY <1>1, <2>1, <2>3 DEF report_status
<1>2. ASSUME Head(queue) = On => engine_status' = "ENGINE_ON"
      PROVE  BeginInv'
  BY <1>a, <1>2, BeginFacts DEF BeginInv
<1>3. CASE ReportStatus
  <2>1. /\ Head(queue).status \in Statuses
        /\ Head(queue) = StatusReport(Head(queue).status)
    BY <1>a, <1>3, MessageFacts DEF ReportStatus, Taken
  <2>2. report_status(Head(queue).status)
    BY <1>3 DEF ReportStatus
  <2>3. Head(queue).status = "SESSION_BEGIN" => engine_status = "ENGINE_ON"
    BY <1>b, <2>1 DEF Begin
  <2> QED
    BY <1>1, <1>2, <2>1, <2>2, <2>3, MessageFacts
<1>4. CASE handle_engine_down
  <2>1. Head(queue) # On /\ report_status("ENGINE_OFF")
    BY <1>4, MessageFacts DEF handle_engine_down, Taken
  <2> QED
    BY <1>1, <1>2, <2>1 DEF Statuses
<1>5. CASE loc_eng_mute_one_session
  <2>1. Head(queue) # On
    BY <1>5, MessageFacts DEF loc_eng_mute_one_session, Taken
  <2> QED
    BY <1>2, <1>5, <2>1 DEF loc_eng_mute_one_session, MutedIsOn, ToldIsTrue
<1>6. CASE \/ start_handler \/ stop_handler \/ PositionMode \/ setUlpProxy
           \/ ReportPosition \/ DelAidData \/ LocSsrMsg \/ handle_engine_up
  <2>1. Head(queue) # On
    BY <1>6, MessageFacts DEF start_handler, stop_handler, PositionMode,
       setUlpProxy, ReportPosition, DelAidData, LocSsrMsg, handle_engine_up,
       Taken
  <2>2. UNCHANGED status
    BY <1>6 DEF start_handler, stop_handler, PositionMode, setUlpProxy,
       ReportPosition, DelAidData, LocSsrMsg, handle_engine_up
  <2> QED
    BY <1>2, <2>1, <2>2 DEF status, MutedIsOn, ToldIsTrue
<1> QED
  BY <1>3, <1>4, <1>5, <1>6 DEF MsgThread

\* What a message handler does to the modem's fix.
LEMMA MsgThreadTrack ==
    ASSUME SessionTypeOK, TrackInv, MsgThread
    PROVE  TrackInv'
<1>a. mFixCriteria \in Criteria /\ track \in Criteria \cup {NoFix}
  BY DEF SessionTypeOK
<1>1. ASSUME NEW c \in Criteria, StartFix(c),
             c.recurrence = mFixCriteria.recurrence
      PROVE  TrackInv'
  <2>1. PICK r \in StartResults :
            /\ track # NoFix => r = "SUCCESS"
            /\ IF r = "SUCCESS" THEN track' = c ELSE track' = track
            /\ mFixCriteria' = c
            /\ mNavigating' = (r # "FAILURE")
    BY <1>1 DEF StartFix
  <2>2. CASE r = "SUCCESS"
    BY <2>1, <2>2 DEF TrackInv
  <2>3. CASE r # "SUCCESS"
    BY <2>1, <2>3 DEF TrackInv, NoFix
  <2> QED
    BY <2>2, <2>3
<1>2. CASE start_handler
  BY <1>a, <1>1, <1>2 DEF start_handler, session, TrackInv
<1>3. CASE handle_engine_up
  <2> DEFINE c == [valid |-> FALSE, recurrence |-> mFixCriteria.recurrence]
  <2>1. c \in Criteria /\ c.recurrence = mFixCriteria.recurrence
    BY <1>a DEF Criteria
  <2>2. CASE mNavigating
    BY <1>1, <1>3, <2>1, <2>2 DEF handle_engine_up
  <2>3. CASE ~ mNavigating
    BY <1>3, <2>3 DEF handle_engine_up, session, TrackInv
  <2> QED
    BY <2>2, <2>3
<1>4. CASE stop_handler
  BY <1>4 DEF stop_handler, SessionOff, TrackInv, NoFix
<1>5. CASE PositionMode
  BY <1>5 DEF PositionMode, TrackInv
<1>6. CASE ReportPosition
  <2>1. CASE UNCHANGED <<session, track>>
    BY <2>1 DEF session, TrackInv
  <2>2. CASE /\ mFixCriteria.recurrence = "SINGLE" /\ mNavigating' = FALSE
             /\ track' = track \/ track' = NoFix
    BY <2>2 DEF TrackInv, NoFix
  <2>3. \/ UNCHANGED <<session, track>>
        \/ /\ mFixCriteria.recurrence = "SINGLE" /\ mNavigating' = FALSE
           /\ track' = track \/ track' = NoFix
    BY <1>6 DEF ReportPosition, SessionOff
  <2> QED
    BY <2>1, <2>2, <2>3
<1>7. CASE LocSsrMsg
  BY <1>7 DEF LocSsrMsg, session, TrackInv, NoFix
<1>8. CASE \/ setUlpProxy \/ ReportStatus \/ DelAidData
           \/ loc_eng_mute_one_session \/ handle_engine_down
  <2>1. UNCHANGED session /\ UNCHANGED modem
    BY <1>8, Zenon DEF setUlpProxy, ReportStatus, DelAidData,
       loc_eng_mute_one_session, handle_engine_down
  <2> QED
    BY <2>1 DEF session, modem, TrackInv
<1> QED
  BY <1>2, <1>3, <1>4, <1>5, <1>6, <1>7, <1>8 DEF MsgThread

\* Every message handler keeps the invariant: when the last command is taken,
\* the session is what it says.
LEMMA MsgThreadSafe == SessionTypeOK /\ SafeInv /\ MsgThread => SafeInv'
<1> SUFFICES ASSUME SessionTypeOK, SafeInv, MsgThread PROVE SafeInv'
  OBVIOUS
<1>a. /\ ProxyInv /\ TrackInv /\ StopInv /\ StartInv /\ BeginInv
      /\ MutedIsOn /\ ToldIsTrue
  BY Zenon DEF SafeInv
<1>b. /\ queue # << >> /\ queue \in Seq(Messages) /\ ulpQueue \in Seq(Messages)
      /\ queue' = Tail(queue)
  BY MsgTaken DEF SessionTypeOK
<1>1. ProxyInv' /\ BeginInv' /\ MutedIsOn' /\ ToldIsTrue' /\ TrackInv'
  BY <1>a, MsgThreadQueues, MsgThreadStatus, MsgThreadTrack
<1>2. StopInv'
  <2> SUFFICES ASSUME ~ asked
               PROVE  \/ Ends(Stop, Start, queue', ulpQueue')
                      \/ ~ mNavigating' /\ Clear(Start, queue', ulpQueue')
    BY MsgThreadSession DEF StopInv
  <2>1. /\ Ends(Stop, Start, queue', ulpQueue) =>
              Ends(Stop, Start, queue', ulpQueue')
        /\ Clear(Start, queue', ulpQueue) => Clear(Start, queue', ulpQueue')
    BY <1>a, MsgThreadQueues
  <2>2. /\ Ends(Stop, Start, queue, ulpQueue) =>
              \/ Ends(Stop, Start, queue', ulpQueue)
              \/ Head(queue) = Stop /\ Clear(Start, queue', ulpQueue)
        /\ Clear(Start, queue, ulpQueue) =>
              Head(queue) # Start /\ Clear(Start, queue', ulpQueue)
    BY <1>b, TakeFacts
  <2> QED
    BY <1>a, <2>1, <2>2, MsgThreadSession DEF StopInv
<1>3. StartInv'
  <2> SUFFICES ASSUME asked, ~ over'
               PROVE  \/ Ends(Start, Stop, queue', ulpQueue')
                      \/ mNavigating' /\ Clear(Stop, queue', ulpQueue')
    BY MsgThreadSession DEF StartInv
  <2>1. /\ Ends(Start, Stop, queue', ulpQueue) =>
              Ends(Start, Stop, queue', ulpQueue')
        /\ Clear(Stop, queue', ulpQueue) => Clear(Stop, queue', ulpQueue')
    BY <1>a, MsgThreadQueues
  <2>2. /\ Ends(Start, Stop, queue, ulpQueue) =>
              \/ Ends(Start, Stop, queue', ulpQueue)
              \/ Head(queue) = Start /\ Clear(Stop, queue', ulpQueue)
        /\ Clear(Stop, queue, ulpQueue) =>
              Head(queue) # Stop /\ Clear(Stop, queue', ulpQueue)
    BY <1>b, TakeFacts
  <2> QED
    BY <1>a, <2>1, <2>2, MsgThreadSession DEF StartInv
<1> QED
  BY <1>1, <1>2, <1>3 DEF SafeInv

-----------------------------------------------------------------------------
(* The theorems.                                                           *)

\* Every step keeps the invariant.
LEMMA SessionInvStep == SessionInv /\ [Next]_vars => SessionInv'
<1> SUFFICES ASSUME SessionInv, [Next]_vars PROVE SessionInv'
  OBVIOUS
<1>1. SessionTypeOK /\ SafeInv
  BY Zenon DEF SessionInv, SafeInv
<1>2. CASE Next
  <2>1. SessionTypeOK'
    BY <1>1, <1>2, FrameworkType, MsgThreadType, ModemType DEF Next
  <2>2. SafeInv'
    BY <1>1, <1>2, FrameworkSafe, UlpSafe, MsgThreadSafe, ModemSafe DEF Next
  <2> QED
    BY <2>1, <2>2, Zenon DEF SessionInv, SafeInv
<1>3. CASE UNCHANGED vars
  <2>1. Flags' /\ Others'
    <3>1. Flags /\ Others
      BY <1>1, TypeParts
    <3>2. Flags'
      BY <1>3, <3>1, Zenon DEF vars, Flags, framework, session, modem
    <3>3. Others'
      BY <1>3, <3>1 DEF vars, Others, framework, proxy, session, status, modem
    <3> QED
      BY <3>2, <3>3
  <2>2. ProxyInv' /\ TrackInv' /\ MutedIsOn' /\ ToldIsTrue'
    BY <1>1, <1>3 DEF SafeInv, ProxyInv, TrackInv, MutedIsOn, ToldIsTrue, vars,
       framework, proxy, session, status, modem
  <2>3. StopInv' /\ StartInv' /\ BeginInv'
    BY <1>1, <1>3 DEF SafeInv, StopInv, StartInv, BeginInv, vars,
       framework, proxy, session, status
  <2> QED
    BY <2>1, <2>2, <2>3, TypePartsNext DEF SessionInv
<1> QED
  BY <1>2, <1>3

\* The invariant holds in every reachable state.
THEOREM SessionInvHolds == Spec => []SessionInv
  BY SessionInvInit, SessionInvStep, PTL DEF Spec

\* Type correctness of the location engine's session.
THEOREM SessionTypeCorrect == Spec => []SessionTypeOK
<1>1. SessionInv => SessionTypeOK
  BY Zenon DEF SessionInv
<1> QED
  BY <1>1, SessionInvHolds, PTL

\* loc_eng_stop: with nothing under way, a framework that has stopped has no
\* session, and the modem no periodic fix, however calls, reports, restarts and
\* the change of proxy were interleaved.
THEOREM StopsForGood == Spec => []StoppedIsIdle
<1>1. SessionInv => StoppedIsIdle
  <2> SUFFICES ASSUME SessionInv, Drained, ~ asked
               PROVE  ~ mNavigating /\ track.recurrence # "PERIODIC"
    BY DEF StoppedIsIdle
  <2>1. ~ Ends(Stop, Start, queue, ulpQueue)
    BY DEF Drained, Ends, LastIs
  <2>2. ~ mNavigating
    BY <2>1 DEF SessionInv, StopInv
  <2> QED
    BY <2>2 DEF SessionInv, TrackInv
<1> QED
  BY <1>1, SessionInvHolds, PTL

\* loc_eng_start: with nothing under way, a framework that has asked for a
\* session has it, unless it was refused or reported.
THEOREM StartsAreServed == Spec => []RequestIsServed
<1>1. SessionInv => RequestIsServed
  <2> SUFFICES ASSUME SessionInv, Drained, asked, ~ over
               PROVE  mNavigating
    BY DEF RequestIsServed
  <2>1. ~ Ends(Start, Stop, queue, ulpQueue)
    BY DEF Drained, Ends, LastIs
  <2> QED
    BY <2>1 DEF SessionInv, StartInv
<1> QED
  BY <1>1, SessionInvHolds, PTL

\* loc_eng_report_status: what is muted has begun, and what the framework was
\* told is true.
THEOREM StatusIsTrue == Spec => []StatusIsKnown
<1>1. SessionInv => StatusIsKnown
  BY Zenon DEF SessionInv, StatusIsKnown
<1> QED
  BY <1>1, SessionInvHolds, PTL
=============================================================================
