------------------------------- MODULE AgpsDs --------------------------------
(***************************************************************************)
(* The data-services NIF (ds_nif): DSStateMachine runs the same states as  *)
(* AgpsStateMachine for emergency SUPL, but its requests to start a data   *)
(* call can fail.  A busy engine is retried from a timer, any other        *)
(* failure falls back to an ordinary ATL request on agnss_nif, and a       *)
(* subscriber stays listed, inactive, until the call is reported closed.   *)
(*                                                                         *)
(* The data service behind openAndStartDataCall and the modem clients are  *)
(* outside the repository; AgpsNif models what agnss_nif does with the     *)
(* fallback, so here it is only the set atl of handles that use it.        *)
(***************************************************************************)
EXTENDS AgpsStateMachine, SequencesExt, FiniteSets, Naturals

CONSTANTS
    DsClients,    \* connection handles the modem may use
    MaxRetries,   \* MAX_START_DATA_CALL_RETRIES
    NoConnHandle, \* the connHandle -1 of a request made with nobody active
    MaxDsMsgs,    \* bound: clients send only while the queue is shorter
    MaxTimers     \* bound: clients ask only while fewer retries are to come

ASSUME AgpsDsAssumption ==
    NoConnHandle \notin DsClients /\ MaxRetries \in Nat /\ {MaxDsMsgs, MaxTimers} \subseteq Nat \ {0}

VARIABLES
    state,     \* mStatePtr
    list,      \* mSubscribers, head first, as a sequence of IDs
    inactive,  \* the listed IDs whose mIsInactive is set
    retries,   \* mRetries
    timers,    \* retry timers started and not yet expired
    atl,       \* handles subscribed to agnss_nif
    msgs,      \* the adapter's message queue
    call,      \* the data service's call
    dsClient   \* what each client believes about its own request

dsVars == <<state, list, inactive, retries, timers, atl, msgs, call, dsClient>>

MsgTypes == {"RequestSuplEs", "RequestATL", "ReleaseATL"}
DsMessages == [type : MsgTypes, id : DsClients \cup {NoConnHandle}]
                \cup [type : {"SuplEsOpened", "SuplEsClosed"}]

ReturnCodes == {"SUCCESS", "BUSY", "UNSUPPORTED", "-1"}

\* The one type invariant; mRetries never passes the limit it is tested
\* against by more than the increment that trips the test.
DsTypeOK ==
    /\ state \in AgpsStates
    /\ list \in Seq(DsClients) /\ IsInjective(list)
    /\ inactive \subseteq Range(list)
    /\ retries \in 0..MaxRetries
    /\ timers \in Nat
    /\ atl \subseteq DsClients \cup {NoConnHandle}
    /\ msgs \in Seq(DsMessages)
    /\ call \in {"down", "starting", "up", "stopping"}
    /\ dsClient \in [DsClients -> {"idle", "asked", "open", "fallback", "closing"}]

DsInit ==
    /\ state = "RELEASED" /\ list = << >> /\ inactive = {}
    /\ retries = 0 /\ timers = 0 /\ atl = {}
    /\ msgs = << >> /\ call = "down"
    /\ dsClient = [c \in DsClients |-> "idle"]

-----------------------------------------------------------------------------
(* The subscriber list.                                                    *)

machine == [state |-> state, subs |-> Range(list), inactive |-> inactive]

\* The subscribers of l that are in S, in the order of l.
Kept(l, S) ==
    LET at == {i \in DOMAIN l : l[i] \in S}
    IN  [k \in 1 .. Cardinality(at) |-> l[CHOOSE i \in at : Cardinality({j \in at : j <= i}) = k]]

\* The list for the subscribers S: those of l that remain keep their order,
\* a new one is added at the head.
Relist(l, S) == SetToSeq(S \ Range(l)) \o Kept(l, S)

\* The first active subscriber, which the requests are made for.
ConnHandle(l, in) ==
    LET active == Kept(l, Range(l) \ in)
    IN  IF active = << >> THEN NoConnHandle ELSE Head(active)

-----------------------------------------------------------------------------
(* DSStateMachine.                                                         *)

DsMsg(type, id) == [type |-> type, id |-> id]

\* informStatus(RSRC_DENIED, id): fall back to an ATL request for SUPL.
Fallback(ids) == [i \in DOMAIN ids |-> DsMsg("RequestATL", ids[i])]

\* informStatus for what the subscribers are told.  RSRC_RELEASED only closes
\* the data call's handle: the client is not told.
informStatus(told) ==
    dsClient' = [c \in DsClients |->
                 IF <<c, "UNSUBSCRIBE">> \in told THEN "idle"
                 ELSE IF <<c, "GRANTED">> \in told /\ dsClient[c] = "asked"
                      THEN "open" ELSE dsClient[c]]

\* Mutant of Exhausted: tested before incRetries.
ExhaustedLate == retries > MaxRetries

\* The failure branches of DSStateMachine::sendRsrcRequest for a REQUEST whose
\* openAndStartDataCall returned code.  loc_timer_start's handle counts as an
\* error there, which leaves the result a failure either way.
Exhausted == retries + 1 > MaxRetries
Retried(code) == code = "BUSY" /\ ~ Exhausted
GivenUp(code) == code \in {"UNSUPPORTED", "-1"} \/ (code = "BUSY" /\ Exhausted)

\* One event of the machine.  q is the queue without the message at hand.
Dispatch(r, q, code) ==
    LET next   == Relist(list, r.machine.subs)
        denied == Kept(list, {i \in Range(list) : <<i, "DENIED">> \in r.told})
        asked  == r.request = "REQUEST"
        handle == ConnHandle(next, r.machine.inactive)
        last   == IF asked /\ GivenUp(code) THEN Fallback(<<handle>>) ELSE << >>
    IN  /\ state' = r.machine.state
        /\ list' = next
        /\ inactive' = r.machine.inactive
        /\ informStatus(r.told)
        /\ msgs' = q \o (Fallback(denied) \o last)
        /\ retries' = IF denied # << >> \/ last # << >> THEN 0
                      ELSE IF asked /\ Retried(code) THEN retries + 1
                      ELSE retries
        /\ timers' = IF asked /\ Retried(code) THEN timers + 1 ELSE timers
        /\ call' = IF asked /\ code = "SUCCESS" THEN "starting"
                   ELSE IF r.request = "RELEASE" /\ call \in {"starting", "up"}
                        THEN "stopping" ELSE call
        /\ UNCHANGED atl

\* openAndStartDataCall can only succeed while no call exists.
Outcomes == IF call = "down" THEN ReturnCodes ELSE ReturnCodes \ {"SUCCESS"}

DsTaken(type) == msgs # << >> /\ Head(msgs).type = type

\* LocEngRequestSuplEs::proc -> subscribeRsrc.  This is the branch of an engine
\* that has a ds_nif, which is made only when USE_EMERGENCY_PDN is set; without
\* one the request is an ordinary ATL request of AgpsNif, or is refused.
LocEngRequestSuplEs ==
    /\ DsTaken("RequestSuplEs")
    /\ \E code \in Outcomes :
          Dispatch(onRsrcEvent(machine, "SUBSCRIBE", Head(msgs).id, TRUE,
                               code = "SUCCESS"), Tail(msgs), code)

\* LocEngReleaseATL::proc: agnss_nif is tried first, then ds_nif; a handle
\* nobody knows is answered with a failed close.
LocEngReleaseATL ==
    LET c == Head(msgs).id
    IN  /\ DsTaken("ReleaseATL")
        /\ \/ /\ c \in atl
              /\ atl' = atl \ {c}
              /\ dsClient' = [dsClient EXCEPT ![c] = "idle"]
              /\ msgs' = Tail(msgs)
              /\ UNCHANGED <<state, list, inactive, retries, timers, call>>
           \/ /\ c \notin atl /\ c \in Range(list)
              /\ Dispatch(onRsrcEvent(machine, "UNSUBSCRIBE", c, TRUE, TRUE),
                          Tail(msgs), "SUCCESS")
           \/ /\ c \notin atl /\ c \notin Range(list)
              /\ dsClient' = [dsClient EXCEPT ![c] = "idle"]
              /\ msgs' = Tail(msgs)
              /\ UNCHANGED <<state, list, inactive, retries, timers, call, atl>>

\* LocEngRequestATL::proc on behalf of the fallback: agnss_nif has it now.
LocEngRequestATL ==
    LET c == Head(msgs).id
    IN  /\ DsTaken("RequestATL")
        /\ atl' = atl \cup {c}
        /\ dsClient' = [d \in DsClients |-> IF d = c /\ dsClient[d] = "asked"
                                        THEN "fallback" ELSE dsClient[d]]
        /\ msgs' = Tail(msgs)
        /\ UNCHANGED <<state, list, inactive, retries, timers, call>>

\* LocEngSuplEsOpened::proc.
LocEngSuplEsOpened ==
    /\ DsTaken("SuplEsOpened")
    /\ Dispatch(onRsrcEvent(machine, "GRANTED", NoConnHandle, TRUE, TRUE),
                Tail(msgs), "SUCCESS")

\* Mutant of LocEngSuplEsClosed: the report is dropped.
LocEngSuplEsClosedDropped ==
    /\ DsTaken("SuplEsClosed") /\ msgs' = Tail(msgs)
    /\ UNCHANGED <<state, list, inactive, retries, timers, atl, call, dsClient>>

\* Mutant of ReleasedReport: RELEASED is not translated.
ReleasedReportUntranslated(ok) ==
    onRsrcEvent(machine, "RELEASED", NoConnHandle, TRUE, ok)

\* DSStateMachine::onRsrcEvent(RSRC_RELEASED): a RELEASED that changes nothing
\* is handled again as a DENIED.
ReleasedReport(ok) ==
    LET r == onRsrcEvent(machine, "RELEASED", NoConnHandle, TRUE, ok)
    IN  IF r.machine.state # state THEN r
        ELSE onRsrcEvent(machine, "DENIED", NoConnHandle, TRUE, ok)

\* LocEngSuplEsClosed::proc.
LocEngSuplEsClosed ==
    /\ DsTaken("SuplEsClosed")
    /\ \E code \in Outcomes :
          Dispatch(ReleasedReport(code = "SUCCESS"), Tail(msgs), code)

\* Mutant of retryCallback: the expiry is lost.
retryCallbackLost ==
    /\ timers > 0 /\ timers' = timers - 1
    /\ UNCHANGED <<state, list, inactive, retries, atl, msgs, call, dsClient>>

\* delay_callback -> retryCallback, on the timer thread.
retryCallback ==
    LET c == ConnHandle(list, inactive)
    IN  /\ timers > 0 /\ timers' = timers - 1
        /\ msgs' = IF c = NoConnHandle THEN msgs
                   ELSE Append(msgs, DsMsg("RequestSuplEs", c))
        /\ UNCHANGED <<state, list, inactive, retries, atl, call, dsClient>>

DsMsgThread ==
    \/ LocEngRequestSuplEs \/ LocEngReleaseATL \/ LocEngRequestATL
    \/ LocEngSuplEsOpened \/ LocEngSuplEsClosed

-----------------------------------------------------------------------------
(* The data service and the clients.                                       *)

CallReported(type, next) ==
    /\ call' = next
    /\ msgs' = Append(msgs, [type |-> type])
    /\ UNCHANGED <<state, list, inactive, retries, timers, atl, dsClient>>

CallOpened == call = "starting" /\ CallReported("SuplEsOpened", "up")
CallFailed == call = "starting" /\ CallReported("SuplEsClosed", "down")
CallStopped == call = "stopping" /\ CallReported("SuplEsClosed", "down")
CallLost == call = "up" /\ CallReported("SuplEsClosed", "down")

\* A closed handle is used again only when no message for it is queued and
\* ds_nif is not still closing it; leftovers in either list do not matter.
HandleFree(c) ==
    /\ \A i \in DOMAIN msgs : msgs[i] \notin [type : MsgTypes, id : {c}]
    /\ c \notin inactive

Request(c) ==
    /\ dsClient[c] = "idle" /\ HandleFree(c)
    /\ Len(msgs) < MaxDsMsgs /\ timers < MaxTimers
    /\ dsClient' = [dsClient EXCEPT ![c] = "asked"]
    /\ msgs' = Append(msgs, DsMsg("RequestSuplEs", c))
    /\ UNCHANGED <<state, list, inactive, retries, timers, atl, call>>

Release(c) ==
    /\ dsClient[c] \in {"asked", "open", "fallback"} /\ Len(msgs) < MaxDsMsgs
    /\ dsClient' = [dsClient EXCEPT ![c] = "closing"]
    /\ msgs' = Append(msgs, DsMsg("ReleaseATL", c))
    /\ UNCHANGED <<state, list, inactive, retries, timers, atl, call>>

DataService == CallOpened \/ CallFailed \/ CallStopped

DsNext ==
    \/ DsMsgThread \/ retryCallback \/ DataService \/ CallLost
    \/ \E c \in DsClients : Request(c) \/ Release(c)

\* The message thread, the timer and the data service go on by themselves.
DsFairness == WF_dsVars(DsMsgThread) /\ WF_dsVars(retryCallback) /\ WF_dsVars(DataService)

DsSpec == DsInit /\ [][DsNext]_dsVars /\ DsFairness

-----------------------------------------------------------------------------
(* Properties.                                                             *)

Queued(m) == m \in Range(msgs)

\* In the PENDING state an answer is still to come: "if the data call setup
\* fails for DS State Machine, we want to retry in released state", so PENDING
\* means a call is under way or its report is queued.
DsPendingIsAnswered ==
    state = "PENDING" =>
        \/ call \in {"starting", "stopping"}
        \/ Queued([type |-> "SuplEsOpened"]) \/ Queued([type |-> "SuplEsClosed"])

\* A waiting client is never forgotten: its request or its fallback is queued,
\* or it is listed by a machine that will be told of the call, or a retry is
\* to come.
DsWaitingIsTracked ==
    \A c \in DsClients : dsClient[c] = "asked" =>
        \/ Queued(DsMsg("RequestSuplEs", c)) \/ Queued(DsMsg("RequestATL", c))
        \/ c \in Range(list) /\ state \in {"PENDING", "RELEASING"}
        \/ c \in Range(list) /\ state = "RELEASED" /\ timers > 0

\* Every request for the emergency connection is eventually answered, by the
\* data call or by the fallback.
DsEveryRequestIsAnswered ==
    \A c \in DsClients : dsClient[c] = "asked" ~> dsClient[c] # "asked"

\* Every state that waits for, or relies on, the data service is backed by the
\* service: an ACQUIRED machine has its call up or is about to hear that it
\* closed, and a RELEASING one is about to hear that it closed.
CallBacksState ==
    /\ state = "ACQUIRED" => call = "up" \/ Queued([type |-> "SuplEsClosed"])
    /\ state = "RELEASING" =>
          call = "stopping" \/ Queued([type |-> "SuplEsClosed"])

\* Client, machine, retry timers and data service agree: no waiting client is
\* forgotten, PENDING has an answer to come, and ACQUIRED and RELEASING are
\* backed by the call.
DsAgrees ==
    DsTypeOK /\ DsPendingIsAnswered /\ DsWaitingIsTracked /\ CallBacksState
=============================================================================
