------------------------------- MODULE AgpsNif -------------------------------
(***************************************************************************)
(* One AGPS network interface (agnss_nif or internet_nif) at work: the     *)
(* modem's ATL clients and the BIT daemon ask for it, the location         *)
(* engine's message thread runs the AgpsStateMachine, and the Android      *)
(* connectivity service opens and closes the data connection.  Everything  *)
(* reaches the state machine through the adapter's FIFO message queue, so  *)
(* a report of the service can arrive after the request it answers has     *)
(* been withdrawn.                                                         *)
(*                                                                         *)
(* The connectivity service and the clients are outside the repository;    *)
(* they are modelled from how loc_eng.cpp uses them.                       *)
(***************************************************************************)
EXTENDS AgpsStateMachine, Sequences, Naturals

CONSTANTS
    AtlClients,   \* connection handles the modem may use
    BitClients,   \* addresses the BIT daemon may use
    MaxMsgs,      \* bound: clients send only while the queue is shorter
    MaxRequests,  \* bound: clients send only while fewer requests are unread
    MaxRestarts   \* bound: modem restarts in a behaviour

Clients == AtlClients \cup BitClients

ASSUME AgpsNifAssumption ==
    /\ AtlClients \cap BitClients = {}
    /\ MaxMsgs \in Nat \ {0} /\ MaxRequests \in Nat \ {0} /\ MaxRestarts \in Nat

VARIABLES
    nif,       \* the AgpsStateMachine: state, subscribers, inactive ones
    msgs,      \* the adapter's message queue
    requests,  \* requests passed to agps_status_cb and not yet acted upon
    conn,      \* the service's data connection
    client,    \* what each client believes about its own request
    up,        \* the modem is running
    restarts   \* number of modem restarts so far

vars == <<nif, msgs, requests, conn, client, up, restarts>>

ClientMsgs == [type : {"Request", "Release"}, id : Clients]
ServiceMsgs == [type : {"AtlOpenSuccess", "AtlClosed", "AtlOpenFailed"}]
EngineMsgs == [type : {"LocEngUp"}]
Messages == ClientMsgs \cup ServiceMsgs \cup EngineMsgs

ClientStates == {"idle", "asked", "open", "closing"}
ConnStates == {"closed", "opening", "open"}

\* The one type invariant: the machine's subscribers are clients, the inactive
\* ones are subscribers, and each queue holds only what its senders send.
TypeOK ==
    /\ nif \in [state : AgpsStates, subs : SUBSET Clients,
                inactive : SUBSET Clients]
    /\ msgs \in Seq(Messages)
    /\ requests \in Seq({"REQUEST", "RELEASE"})
    /\ conn \in ConnStates
    /\ client \in [Clients -> ClientStates]
    /\ up \in BOOLEAN
    /\ restarts \in 0..MaxRestarts

Init ==
    /\ nif = NewMachine
    /\ msgs = << >>
    /\ requests = << >>
    /\ conn = "closed"
    /\ client = [c \in Clients |-> "idle"]
    /\ up = TRUE
    /\ restarts = 0

-----------------------------------------------------------------------------
(* The clients.                                                            *)

InQueue(m) == \E i \in 1..Len(msgs) : msgs[i] = m

RequestMsg(c) == [type |-> "Request", id |-> c]
ReleaseMsg(c) == [type |-> "Release", id |-> c]

\* A handle is not reused while the engine still knows it: neither a message
\* about it is queued nor is it in the subscriber list.
HandleFree(c) ==
    /\ ~ InQueue(RequestMsg(c)) /\ ~ InQueue(ReleaseMsg(c))
    /\ c \notin nif.subs

CanSend(c) ==
    /\ c \in AtlClients => up
    /\ Len(msgs) < MaxMsgs /\ Len(requests) < MaxRequests

\* LocEngAdapter::requestATL, or LocEngReqRelBIT with isReq.
Request(c) ==
    /\ CanSend(c) /\ client[c] = "idle" /\ HandleFree(c)
    /\ client' = [client EXCEPT ![c] = "asked"]
    /\ msgs' = Append(msgs, RequestMsg(c))
    /\ UNCHANGED <<nif, requests, conn, up, restarts>>

\* LocEngAdapter::releaseATL, or LocEngReqRelBIT without isReq.
Release(c) ==
    /\ CanSend(c) /\ client[c] \in {"asked", "open"}
    /\ client' = [client EXCEPT ![c] = "closing"]
    /\ msgs' = Append(msgs, ReleaseMsg(c))
    /\ UNCHANGED <<nif, requests, conn, up, restarts>>

\* What the clients believe after being told: an open status counts only for
\* a client still waiting for it, any other status ends the session.
Informed(told) ==
    [c \in Clients |->
        IF \E s \in {"DENIED", "RELEASED", "UNSUBSCRIBE"} : <<c, s>> \in told
        THEN "idle"
        ELSE IF <<c, "GRANTED">> \in told /\ client[c] = "asked"
             THEN "open" ELSE client[c]]

-----------------------------------------------------------------------------
(* The message thread.                                                     *)

\* Mutants of sendRsrcRequest: sent without being called; never for a REQUEST.
sendRsrcRequestAlways(m, action) ==
    IF (~ hasActiveSubscribers(m)) = (action = "RELEASE")
    THEN Append(requests, action) ELSE requests

sendRsrcRequestIdleOnly(m, action) ==
    IF action # "none" /\ ~ hasActiveSubscribers(m)
    THEN Append(requests, action) ELSE requests

\* AgpsStateMachine::sendRsrcRequest: the request goes out exactly when it
\* agrees with the list -- RELEASE with nobody active, REQUEST with somebody.
sendRsrcRequest(m, action) ==
    IF action # "none" /\ (~ hasActiveSubscribers(m)) = (action = "RELEASE")
    THEN Append(requests, action) ELSE requests

\* The message thread takes the message at the head of the queue.
Next_Msg(type) ==
    /\ msgs # << >> /\ Head(msgs).type = type
    /\ msgs' = Tail(msgs)

\* The effect of one event on the machine, its clients and the service.
\* waitForCloseComplete() is false for ATL and BIT subscribers and
\* AgpsStateMachine::sendRsrcRequest always returns 0.
Dispatch(event, id) ==
    LET r == onRsrcEvent(nif, event, id, FALSE, TRUE)
    IN  /\ nif' = r.machine
        /\ client' = Informed(r.told)
        /\ requests' = sendRsrcRequest(r.machine, r.request)

\* LocEngRequestATL::proc / LocEngReqRelBIT::proc -> subscribeRsrc (both NIFs
\* are constructed with enforceSingleSubscriber = false).
subscribeRsrc ==
    /\ Next_Msg("Request")
    /\ Dispatch("SUBSCRIBE", Head(msgs).id)
    /\ UNCHANGED <<conn, up, restarts>>

\* LocEngReleaseATL::proc / LocEngReqRelBIT::proc -> unsubscribeRsrc, for a
\* subscriber that is in the list.
unsubscribeRsrc ==
    /\ Next_Msg("Release")
    /\ Head(msgs).id \in nif.subs
    /\ Dispatch("UNSUBSCRIBE", Head(msgs).id)
    /\ UNCHANGED <<conn, up, restarts>>

\* The same with no such subscriber: an ATL client is told atlCloseStatus
\* with failure, the BIT daemon is told nothing.
unsubscribeNotFound ==
    LET c == Head(msgs).id
    IN  /\ Next_Msg("Release")
        /\ c \notin nif.subs
        /\ client' = IF c \in AtlClients
                     THEN [client EXCEPT ![c] = "idle"] ELSE client
        /\ UNCHANGED <<nif, requests, conn, up, restarts>>

\* LocEngAtlOpenSuccess / LocEngAtlClosed / LocEngAtlOpenFailed::proc.
LocEngAtlOpenSuccess ==
    /\ Next_Msg("AtlOpenSuccess") /\ Dispatch("GRANTED", "nobody")
    /\ UNCHANGED <<conn, up, restarts>>

\* Mutant of LocEngAtlClosed: a forced release is ignored.
LocEngAtlClosedDropped ==
    /\ Next_Msg("AtlClosed")
    /\ UNCHANGED <<nif, requests, conn, client, up, restarts>>

LocEngAtlClosed ==
    /\ Next_Msg("AtlClosed") /\ Dispatch("RELEASED", "nobody")
    /\ UNCHANGED <<conn, up, restarts>>

\* Mutant of LocEngAtlOpenFailed: a denial is ignored.
LocEngAtlOpenFailedDropped ==
    /\ Next_Msg("AtlOpenFailed")
    /\ UNCHANGED <<nif, requests, conn, client, up, restarts>>

LocEngAtlOpenFailed ==
    /\ Next_Msg("AtlOpenFailed") /\ Dispatch("DENIED", "nobody")
    /\ UNCHANGED <<conn, up, restarts>>

\* loc_eng_handle_engine_up: dropAllSubscribers, the state is kept and nobody
\* is told.
LocEngUp ==
    /\ Next_Msg("LocEngUp")
    /\ nif' = [nif EXCEPT !.subs = {}, !.inactive = {}]
    /\ UNCHANGED <<requests, conn, client, up, restarts>>

MsgThread ==
    \/ subscribeRsrc \/ unsubscribeRsrc \/ unsubscribeNotFound
    \/ LocEngAtlOpenSuccess \/ LocEngAtlClosed \/ LocEngAtlOpenFailed
    \/ LocEngUp

-----------------------------------------------------------------------------
(* The connectivity service and the modem.                                 *)

Report(type) == msgs' = Append(msgs, [type |-> type])

\* A request starts the connection; an open one is reported open at once.
ServiceRequest ==
    /\ requests # << >> /\ Head(requests) = "REQUEST"
    /\ requests' = Tail(requests)
    /\ conn' = IF conn = "open" THEN "open" ELSE "opening"
    /\ IF conn = "open" THEN Report("AtlOpenSuccess") ELSE UNCHANGED msgs
    /\ UNCHANGED <<nif, client, up, restarts>>

\* A release closes the connection and reports it, if there is one.
ServiceRelease ==
    /\ requests # << >> /\ Head(requests) = "RELEASE"
    /\ requests' = Tail(requests)
    /\ conn' = "closed"
    /\ IF conn # "closed" THEN Report("AtlClosed") ELSE UNCHANGED msgs
    /\ UNCHANGED <<nif, client, up, restarts>>

\* loc_eng_agps_open.
loc_eng_agps_open ==
    /\ conn = "opening" /\ conn' = "open" /\ Report("AtlOpenSuccess")
    /\ UNCHANGED <<nif, requests, client, up, restarts>>

\* loc_eng_agps_open_failed.
loc_eng_agps_open_failed ==
    /\ conn = "opening" /\ conn' = "closed" /\ Report("AtlOpenFailed")
    /\ UNCHANGED <<nif, requests, client, up, restarts>>

\* loc_eng_agps_closed with no release asked for: the network was lost.
loc_eng_agps_closed ==
    /\ conn = "open" /\ conn' = "closed" /\ Report("AtlClosed")
    /\ UNCHANGED <<nif, requests, client, up, restarts>>

\* The modem crashes: its clients are gone, what they sent stays queued.
ModemDown ==
    /\ up /\ restarts < MaxRestarts
    /\ up' = FALSE /\ restarts' = restarts + 1
    /\ client' = [c \in Clients |->
                     IF c \in AtlClients THEN "idle" ELSE client[c]]
    /\ UNCHANGED <<nif, msgs, requests, conn>>

\* LocApiBase::handleEngineUpEvent: the engine is told behind what is queued.
ModemUp ==
    /\ ~ up /\ up' = TRUE
    /\ Report("LocEngUp")
    /\ UNCHANGED <<nif, requests, conn, client, restarts>>

Service ==
    \/ ServiceRequest \/ ServiceRelease
    \/ loc_eng_agps_open \/ loc_eng_agps_open_failed

Next ==
    \/ \E c \in Clients : Request(c) \/ Release(c)
    \/ MsgThread \/ Service
    \/ loc_eng_agps_closed \/ ModemDown \/ ModemUp

\* The message thread is a loop on a blocking queue and the service answers
\* what it is asked; nothing makes the clients or the modem act.
Fairness ==
    /\ WF_vars(MsgThread)
    /\ WF_vars(Service)

Spec == Init /\ [][Next]_vars /\ Fairness

-----------------------------------------------------------------------------
(* Properties.                                                             *)

\* AgpsReleasedState::onRsrcEvent logs "subscriber list not empty!!!" as an
\* error it cannot recover from: the list is empty in the RELEASED state.
ReleasedHasNoSubscribers == nif.state = "RELEASED" => ~ hasSubscribers(nif)

\* loc_eng_handle_engine_up drops the BIT daemon's subscription along with the
\* modem's, and the daemon is not told: it alone is excused after a restart.
DroppedUntold(c) == c \in BitClients /\ restarts > 0

\* A client that was told its connection is open (atlOpenStatus with success)
\* is in the subscriber list of a machine that holds the NIF, so that every
\* later change of the NIF is reported to it.
GrantIsBacked ==
    \A c \in Clients : client[c] = "open" =>
        \/ c \in nif.subs /\ nif.state = "ACQUIRED"
        \/ DroppedUntold(c)

\* No request is lost between queue and machine: a waiting client's request is
\* still queued, or the client is in the list of a machine that is pending.
WaitingIsTracked ==
    \A c \in Clients : client[c] = "asked" =>
        \/ InQueue(RequestMsg(c))
        \/ c \in nif.subs /\ nif.state = "PENDING"
        \/ DroppedUntold(c)

\* Nobody stays in the list after it has gone: a subscriber waits, holds the
\* NIF, or has its release on the way -- or the drop of a modem restart is
\* still to come.
NoGhostSubscriber ==
    \A c \in nif.subs :
        \/ client[c] \in {"asked", "open"}
        \/ InQueue(ReleaseMsg(c))
        \/ ~ up \/ InQueue([type |-> "LocEngUp"])

\* The reports of the service the message thread has not processed yet.
ReportQueued == \E i \in 1..Len(msgs) : msgs[i] \in ServiceMsgs

\* Once every request is acted upon and every report processed, a machine in
\* the ACQUIRED state has an open connection behind it: stale reports never
\* leave it believing in a connection that is gone.
AcquiredIsConnected ==
    nif.state = "ACQUIRED" /\ ~ ReportQueued /\ requests = << >>
        => conn = "open"

\* In the PENDING state an answer is always still to come: the request is with
\* the service, or its GRANTED or DENIED report is queued.
PendingIsAnswered ==
    nif.state = "PENDING" =>
        \/ \E i \in 1..Len(requests) : requests[i] = "REQUEST"
        \/ conn = "opening"
        \/ InQueue([type |-> "AtlOpenSuccess"])
        \/ InQueue([type |-> "AtlOpenFailed"])

\* Every client that asks is eventually answered, whatever reports of earlier
\* requests are still under way.
EveryRequestIsAnswered ==
    \A c \in Clients :
        client[c] = "asked" ~> (client[c] # "asked" \/ DroppedUntold(c))

\* Every client that releases is eventually told its connection is closed.
EveryReleaseIsAnswered ==
    \A c \in Clients :
        client[c] = "closing" ~> (client[c] # "closing" \/ DroppedUntold(c))

\* "no more subscribers, move to RELEASED state / tell connecivity service we
\* can release NIF": when the queues have drained and no client uses the NIF,
\* the service does not hold a data connection open for it.
NoConnectionLeak ==
    ~ hasSubscribers(nif) /\ msgs = << >> /\ requests = << >>
        => conn # "open"

\* What the machine believes agrees with its clients and with the service,
\* whatever stale reports, releases and restarts come between: no subscriber
\* has gone, ACQUIRED has a connection behind it, and PENDING has an answer to
\* come.
MachineAgrees == NoGhostSubscriber /\ AcquiredIsConnected /\ PendingIsAnswered

\* Every client is eventually answered, after a request and after a release.
EveryClientIsAnswered == EveryRequestIsAnswered /\ EveryReleaseIsAnswered
=============================================================================
