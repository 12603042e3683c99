---------------------------- MODULE AgpsNifProofs ----------------------------
(***************************************************************************)
(* Proofs about AgpsNif for any number of clients and any bounds: type     *)
(* correctness, the empty list in the RELEASED state, and that every grant *)
(* a client believes in, and every request it waits for, is backed by the  *)
(* subscriber list -- across stale reports and modem restarts.             *)
(***************************************************************************)
EXTENDS AgpsNif, TLAPS

UpMsg == [type |-> "LocEngUp"]

\* ATL and BIT subscribers are never inactive, so the machine never reaches
\* RELEASING, and the list is empty in RELEASED.
MachineInv ==
    /\ nif.inactive = {}
    /\ nif.state # "RELEASING"
    /\ ReleasedHasNoSubscribers

\* A handle has at most one request in the queue, and a queued restart has
\* been counted.
QueueInv ==
    /\ \A c \in Clients : \A i, j \in 1..Len(msgs) :
           msgs[i] = RequestMsg(c) /\ msgs[j] = RequestMsg(c) => i = j
    /\ \A i \in 1..Len(msgs) : msgs[i] = UpMsg => restarts > 0
    /\ ~ up => restarts > 0

\* Between a modem crash and the processing of LocEngUp, no modem client holds
\* the NIF, and one that waits has its request queued behind LocEngUp.
RestartInv ==
    \A c \in AtlClients :
        /\ ~ up => client[c] = "idle"
        /\ \A i \in 1..Len(msgs) : msgs[i] = UpMsg =>
              /\ client[c] # "open"
              /\ client[c] = "asked" =>
                    /\ c \notin nif.subs
                    /\ \E j \in 1..Len(msgs) : j > i /\ msgs[j] = RequestMsg(c)

IInv ==
    /\ TypeOK
    /\ MachineInv
    /\ QueueInv
    /\ RestartInv
    /\ GrantIsBacked
    /\ WaitingIsTracked

-----------------------------------------------------------------------------
(* What one event does to the machine, for the subscribers of this module. *)

MachineType == [state : AgpsStates, subs : SUBSET Clients,
                inactive : SUBSET Clients]

\* RSRC_SUBSCRIBE: the subscriber joins; it is told at once only when the NIF
\* is already held (loc_eng_agps.cpp, the three SUBSCRIBE cases).
LEMMA SubscribeEffect ==
    ASSUME nif \in MachineType, MachineInv, NEW id \in Clients,
           Dispatch("SUBSCRIBE", id)
    PROVE  /\ nif' \in MachineType
           /\ nif'.subs = nif.subs \cup {id}
           /\ nif'.inactive = {}
           /\ nif'.state = IF nif.state = "RELEASED" THEN "PENDING" ELSE nif.state
           /\ client' = Informed(IF nif.state = "ACQUIRED"
                                 THEN {<<id, "GRANTED">>} ELSE {})
<1> DEFINE r == onRsrcEvent(nif, "SUBSCRIBE", id, FALSE, TRUE)
<1>0. nif.state \in {"RELEASED", "PENDING", "ACQUIRED"}
  BY DEF MachineType, MachineInv, AgpsStates
<1>1. /\ r.machine \in MachineType
      /\ r.machine.subs = nif.subs \cup {id}
      /\ r.machine.inactive = {}
      /\ r.machine.state = IF nif.state = "RELEASED" THEN "PENDING" ELSE nif.state
      /\ r.told = IF nif.state = "ACQUIRED" THEN {<<id, "GRANTED">>} ELSE {}
  <2>1. CASE nif.state = "RELEASED"
    BY <2>1 DEF MachineType, MachineInv, AgpsStates, onRsrcEvent, OnReleased,
       Result, addSubscriber, MoveTo
  <2>2. CASE nif.state = "PENDING"
    BY <2>2 DEF MachineType, MachineInv, AgpsStates, onRsrcEvent, OnPending,
       Result, addSubscriber
  <2>3. CASE nif.state = "ACQUIRED"
    <3>1. Tell({id}, "GRANTED") = {<<id, "GRANTED">>}
      BY DEF Tell
    <3>2. QED
      BY <2>3, <3>1 DEF MachineType, MachineInv, AgpsStates, onRsrcEvent,
         OnAcquired, Result, addSubscriber
  <2>4. QED BY <1>0, <2>1, <2>2, <2>3
<1>2. nif' = r.machine /\ client' = Informed(r.told)
  BY DEF Dispatch
<1>3. QED BY <1>1, <1>2

\* The common end of RSRC_UNSUBSCRIBE when no subscriber is inactive: the NIF
\* is released exactly when the list has become empty.
LEMMA AfterUnsubscribeEffect ==
    ASSUME NEW u \in MachineType, u.inactive = {}, NEW told
    PROVE  \E m \in MachineType, request \in Requests :
               /\ AfterUnsubscribe(u, told) = Result(m, told, request)
               /\ m.subs = u.subs
               /\ m.inactive = {}
               /\ m.state = IF u.subs = {} THEN "RELEASED" ELSE u.state
<1>1. CASE u.subs = {}
  <2>1. /\ MoveTo(u, "RELEASED") \in MachineType
        /\ MoveTo(u, "RELEASED").subs = u.subs
        /\ MoveTo(u, "RELEASED").inactive = {}
        /\ MoveTo(u, "RELEASED").state = "RELEASED"
    BY DEF MoveTo, MachineType, AgpsStates
  <2>2. AfterUnsubscribe(u, told) = Result(MoveTo(u, "RELEASED"), told, "RELEASE")
    BY <1>1 DEF AfterUnsubscribe, hasSubscribers
  <2>3. QED BY <1>1, <2>1, <2>2 DEF Requests
<1>2. CASE u.subs # {}
  <2>1. AfterUnsubscribe(u, told) = Result(u, told, "none")
    BY <1>2 DEF AfterUnsubscribe, hasSubscribers, hasActiveSubscribers, Active
  <2>2. QED BY <1>2, <2>1 DEF Requests
<1>3. QED BY <1>1, <1>2

\* RSRC_UNSUBSCRIBE of a listed subscriber: it alone leaves and is told; the
\* machine gives the NIF up exactly when nobody is left.
LEMMA UnsubscribeEffect ==
    ASSUME nif \in MachineType, MachineInv, NEW id \in nif.subs,
           Dispatch("UNSUBSCRIBE", id)
    PROVE  /\ nif' \in MachineType
           /\ nif'.subs = nif.subs \ {id}
           /\ nif'.inactive = {}
           /\ nif'.state = IF nif.subs \ {id} = {} THEN "RELEASED" ELSE nif.state
           /\ client' = Informed({<<id, "UNSUBSCRIBE">>})
<1> DEFINE u == Deleted(nif, {id})
           told == {<<id, "UNSUBSCRIBE">>}
<1>0. nif.state \in {"PENDING", "ACQUIRED"}
  BY DEF MachineType, MachineInv, AgpsStates, ReleasedHasNoSubscribers,
     hasSubscribers
<1>1. Tell({id}, "UNSUBSCRIBE") = told
  BY DEF Tell
<1>2. /\ u \in MachineType
      /\ u.subs = nif.subs \ {id} /\ u.inactive = {} /\ u.state = nif.state
  BY DEF MachineType, MachineInv, Deleted
<1>3. /\ nif' = AfterUnsubscribe(u, told).machine
      /\ client' = Informed(AfterUnsubscribe(u, told).told)
  BY <1>0, <1>1 DEF Dispatch, onRsrcEvent, OnPending, OnAcquired, Unsubscribed
<1>4. PICK m \in MachineType, request \in Requests :
         /\ AfterUnsubscribe(u, told) = Result(m, told, request)
         /\ m.subs = u.subs
         /\ m.inactive = {}
         /\ m.state = IF u.subs = {} THEN "RELEASED" ELSE u.state
  BY <1>2, AfterUnsubscribeEffect, Zenon
<1>5. nif' = m /\ client' = Informed(told)
  BY <1>3, <1>4 DEF Result
<1>6. QED BY <1>2, <1>4, <1>5

\* A report of the service: GRANTED is heard only in PENDING, DENIED only in
\* PENDING, RELEASED only in ACQUIRED; any other report changes nothing.
LEMMA ReportEffect ==
    ASSUME nif \in MachineType, MachineInv, NEW event \in RsrcReports,
           NEW id, Dispatch(event, id)
    PROVE  /\ nif' \in MachineType
           /\ nif'.inactive = {}
           /\ \/ /\ event = "GRANTED" /\ nif.state = "PENDING"
                 /\ nif'.subs = nif.subs /\ nif'.state = "ACQUIRED"
                 /\ client' = Informed(nif.subs \X {"GRANTED"})
              \/ /\ event \in {"DENIED", "RELEASED"}
                 /\ nif'.subs = {} /\ nif'.state = "RELEASED"
                 /\ client' = Informed(nif.subs \X {event})
              \/ /\ \/ event = "GRANTED" /\ nif.state # "PENDING"
                    \/ event = "DENIED" /\ nif.state # "PENDING"
                    \/ event = "RELEASED" /\ nif.state # "ACQUIRED"
                 /\ nif' = nif
                 /\ client' = Informed({})
<1>0. nif.state \in {"RELEASED", "PENDING", "ACQUIRED"}
  BY DEF MachineType, MachineInv, AgpsStates
<1>1. CASE event = "GRANTED" /\ nif.state = "PENDING"
  <2>1. forMe(nif, "ACTIVE") = nif.subs
    BY DEF forMe, Active, MachineInv, MachineType
  <2>2. /\ nif' = MoveTo(nif, "ACQUIRED")
        /\ client' = Informed(nif.subs \X {"GRANTED"})
    BY <1>1, <2>1 DEF Dispatch, onRsrcEvent, OnPending, Result, Tell
  <2>3. QED
    BY <1>1, <2>2 DEF MoveTo, MachineType, MachineInv, AgpsStates
<1>2. CASE \/ event = "DENIED" /\ nif.state = "PENDING"
           \/ event = "RELEASED" /\ nif.state = "ACQUIRED"
  <2>1. forMe(nif, "ALL") = nif.subs
    BY DEF forMe
  <2>2. /\ nif' = MoveTo(Deleted(nif, nif.subs), "RELEASED")
        /\ client' = Informed(nif.subs \X {event})
    BY <1>2, <2>1 DEF Dispatch, onRsrcEvent, OnPending, OnAcquired,
       NotifyAllAndDelete, Result, Tell
  <2>3. /\ Deleted(nif, nif.subs) \in MachineType
        /\ Deleted(nif, nif.subs).subs = {}
        /\ Deleted(nif, nif.subs).inactive = {}
    BY DEF Deleted, MachineType, MachineInv
  <2>4. QED
    BY <1>2, <2>2, <2>3 DEF MoveTo, MachineType, AgpsStates
<1>3. CASE \/ event = "GRANTED" /\ nif.state # "PENDING"
           \/ event = "DENIED" /\ nif.state # "PENDING"
           \/ event = "RELEASED" /\ nif.state # "ACQUIRED"
  <2>1. nif' = nif /\ client' = Informed({})
    BY <1>0, <1>3 DEF Dispatch, onRsrcEvent, OnReleased, OnPending, OnAcquired,
       Result
  <2>2. QED BY <1>3, <2>1 DEF MachineInv
<1>4. QED BY <1>1, <1>2, <1>3 DEF RsrcReports

-----------------------------------------------------------------------------
(* The message queue.                                                      *)

\* Taking the head shifts the queue by one place (Next_Msg).
LEMMA Popped ==
    ASSUME msgs \in Seq(Messages), msgs # << >>, msgs' = Tail(msgs)
    PROVE  /\ msgs' \in Seq(Messages)
           /\ Len(msgs) \in Nat /\ Len(msgs) > 0
           /\ Len(msgs') = Len(msgs) - 1
           /\ Head(msgs) = msgs[1] /\ msgs[1] \in Messages
           /\ \A i \in 1..Len(msgs') : msgs'[i] = msgs[i + 1]
OBVIOUS

\* Sending leaves what is queued in place and adds one message behind it.
LEMMA Pushed ==
    ASSUME msgs \in Seq(Messages), NEW m \in Messages, msgs' = Append(msgs, m)
    PROVE  /\ msgs' \in Seq(Messages)
           /\ Len(msgs) \in Nat
           /\ Len(msgs') = Len(msgs) + 1
           /\ \A i \in 1..Len(msgs) : msgs'[i] = msgs[i]
           /\ msgs'[Len(msgs) + 1] = m
OBVIOUS

\* Processing a message keeps QueueInv.
LEMMA QueuePop ==
    ASSUME msgs \in Seq(Messages), QueueInv, msgs # << >>, msgs' = Tail(msgs),
           UNCHANGED <<up, restarts>>
    PROVE  QueueInv'
<1>1. /\ Len(msgs) \in Nat /\ Len(msgs') = Len(msgs) - 1
      /\ \A i \in 1..Len(msgs') : msgs'[i] = msgs[i + 1]
  BY Popped
<1>2. ASSUME NEW c \in Clients, NEW i \in 1..Len(msgs'), NEW j \in 1..Len(msgs'),
             msgs'[i] = RequestMsg(c), msgs'[j] = RequestMsg(c)
      PROVE  i = j
  <2>1. /\ i + 1 \in 1..Len(msgs) /\ j + 1 \in 1..Len(msgs)
        /\ msgs[i + 1] = RequestMsg(c) /\ msgs[j + 1] = RequestMsg(c)
    BY <1>1, <1>2
  <2>2. i + 1 = j + 1
    BY <2>1 DEF QueueInv
  <2>3. QED BY <2>2
<1>3. ASSUME NEW i \in 1..Len(msgs'), msgs'[i] = UpMsg
      PROVE  restarts' > 0
  <2>1. i + 1 \in 1..Len(msgs) /\ msgs[i + 1] = UpMsg
    BY <1>1, <1>3
  <2>2. QED BY <2>1 DEF QueueInv
<1>4. QED BY <1>2, <1>3 DEF QueueInv, RequestMsg, UpMsg

\* Sending anything but a second request of a handle keeps QueueInv.
LEMMA QueuePush ==
    ASSUME msgs \in Seq(Messages), QueueInv, NEW m \in Messages,
           msgs' = Append(msgs, m), restarts' = restarts,
           m = UpMsg => restarts > 0,
           up' = up \/ up' = TRUE,
           \A c \in Clients : m = RequestMsg(c) => ~ InQueue(RequestMsg(c))
    PROVE  QueueInv'
<1>1. /\ Len(msgs) \in Nat /\ Len(msgs') = Len(msgs) + 1
      /\ \A i \in 1..Len(msgs) : msgs'[i] = msgs[i]
      /\ msgs'[Len(msgs) + 1] = m
  BY Pushed
<1>2. ASSUME NEW c \in Clients, NEW i \in 1..Len(msgs'), NEW j \in 1..Len(msgs'),
             msgs'[i] = RequestMsg(c), msgs'[j] = RequestMsg(c)
      PROVE  i = j
  <2>1. CASE m = RequestMsg(c)
    <3>1. \A k \in 1..Len(msgs) : msgs[k] # RequestMsg(c)
      BY <2>1 DEF InQueue
    <3>2. i = Len(msgs) + 1 /\ j = Len(msgs) + 1
      BY <1>1, <1>2, <3>1
    <3>3. QED BY <3>2
  <2>2. CASE m # RequestMsg(c)
    <3>1. i \in 1..Len(msgs) /\ j \in 1..Len(msgs)
      BY <1>1, <1>2, <2>2
    <3>2. msgs[i] = RequestMsg(c) /\ msgs[j] = RequestMsg(c)
      BY <1>1, <1>2, <3>1
    <3>3. QED BY <3>1, <3>2 DEF QueueInv
  <2>3. QED BY <2>1, <2>2
<1>3. ASSUME NEW i \in 1..Len(msgs'), msgs'[i] = UpMsg
      PROVE  restarts' > 0
  <2>1. CASE i = Len(msgs) + 1
    BY <1>1, <1>3, <2>1
  <2>2. CASE i \in 1..Len(msgs)
    BY <1>1, <1>3, <2>2 DEF QueueInv
  <2>3. QED BY <1>1, <2>1, <2>2
<1>4. QED BY <1>2, <1>3 DEF QueueInv, RequestMsg, UpMsg

\* Processing a message keeps RestartInv when a modem client becomes a
\* subscriber, or is granted the NIF, only by way of its own request.
LEMMA RestartPop ==
    ASSUME msgs \in Seq(Messages), QueueInv, RestartInv,
           msgs # << >>, msgs' = Tail(msgs), up' = up,
           \A c \in AtlClients :
               /\ client[c] = "idle" => client'[c] = "idle"
               /\ client'[c] = "asked" => client[c] = "asked"
               /\ client'[c] = "open" =>
                    \/ client[c] = "open"
                    \/ client[c] = "asked"
                         /\ (c \in nif.subs \/ msgs[1] = RequestMsg(c))
               /\ c \in nif'.subs => c \in nif.subs \/ msgs[1] = RequestMsg(c)
    PROVE  RestartInv'
<1>1. /\ Len(msgs) \in Nat /\ Len(msgs) > 0 /\ Len(msgs') = Len(msgs) - 1
      /\ \A i \in 1..Len(msgs') : msgs'[i] = msgs[i + 1]
  BY Popped
<1>2. ASSUME NEW c \in AtlClients, NEW i \in 1..Len(msgs'), msgs'[i] = UpMsg
      PROVE  /\ client'[c] # "open"
             /\ client'[c] = "asked" =>
                   /\ c \notin nif'.subs
                   /\ \E j \in 1..Len(msgs') : j > i /\ msgs'[j] = RequestMsg(c)
  <2>1. i + 1 \in 1..Len(msgs) /\ msgs[i + 1] = UpMsg
    BY <1>1, <1>2
  <2>2. client[c] # "open"
    BY <2>1 DEF RestartInv
  <2>3. CASE client[c] = "asked"
    <3>1. PICK j \in 1..Len(msgs) : j > i + 1 /\ msgs[j] = RequestMsg(c)
      BY <2>1, <2>3 DEF RestartInv
    <3>2. c \notin nif.subs
      BY <2>1, <2>3 DEF RestartInv
    <3>3. msgs[1] # RequestMsg(c)
      <4>1. 1 \in 1..Len(msgs) /\ j # 1 /\ c \in Clients
        BY <1>1, <3>1 DEF Clients
      <4>2. QED BY <3>1, <4>1 DEF QueueInv
    <3>4. j - 1 \in 1..Len(msgs') /\ j - 1 > i /\ msgs'[j - 1] = RequestMsg(c)
      BY <1>1, <3>1
    <3>5. QED BY <2>2, <3>2, <3>3, <3>4
  <2>4. CASE client[c] # "asked"
    BY <2>2, <2>4
  <2>5. QED BY <2>3, <2>4
<1>3. ASSUME NEW c \in AtlClients, ~ up'
      PROVE  client'[c] = "idle"
  BY <1>3 DEF RestartInv
<1>4. QED BY <1>2, <1>3 DEF RestartInv, RequestMsg, UpMsg

\* A message that was queued is the one taken or is still queued.
LEMMA QueuedPop ==
    ASSUME msgs \in Seq(Messages), msgs # << >>, msgs' = Tail(msgs),
           NEW c \in Clients, InQueue(RequestMsg(c)), msgs[1] # RequestMsg(c)
    PROVE  InQueue(RequestMsg(c))'
<1>1. /\ Len(msgs) \in Nat /\ Len(msgs') = Len(msgs) - 1
      /\ \A i \in 1..Len(msgs') : msgs'[i] = msgs[i + 1]
  BY Popped
<1>2. PICK i \in 1..Len(msgs) : msgs[i] = RequestMsg(c)
  BY DEF InQueue
<1>3. i - 1 \in 1..Len(msgs') /\ msgs'[i - 1] = RequestMsg(c)
  BY <1>1, <1>2
<1>4. QED BY <1>3 DEF InQueue, RequestMsg

\* What was queued stays queued when a message is sent.
LEMMA QueuedPush ==
    ASSUME msgs \in Seq(Messages), NEW m \in Messages, msgs' = Append(msgs, m),
           NEW c \in Clients, InQueue(RequestMsg(c)) \/ m = RequestMsg(c)
    PROVE  InQueue(RequestMsg(c))'
<1>1. /\ Len(msgs) \in Nat /\ Len(msgs') = Len(msgs) + 1
      /\ \A i \in 1..Len(msgs) : msgs'[i] = msgs[i]
      /\ msgs'[Len(msgs) + 1] = m
  BY Pushed
<1>2. CASE m = RequestMsg(c)
  <2>1. Len(msgs) + 1 \in 1..Len(msgs')
    BY <1>1
  <2>2. QED BY <1>1, <1>2, <2>1 DEF InQueue, RequestMsg
<1>3. CASE InQueue(RequestMsg(c))
  <2>1. PICK i \in 1..Len(msgs) : msgs[i] = RequestMsg(c)
    BY <1>3 DEF InQueue
  <2>2. i \in 1..Len(msgs') /\ msgs'[i] = RequestMsg(c)
    BY <1>1, <2>1
  <2>3. QED BY <2>2 DEF InQueue, RequestMsg
<1>4. QED BY <1>2, <1>3

\* Every event makes at most one request, of one of the two kinds.
LEMMA RequestType ==
    ASSUME nif.state \in AgpsStates, NEW event, NEW id, Dispatch(event, id),
           requests \in Seq({"REQUEST", "RELEASE"})
    PROVE  requests' \in Seq({"REQUEST", "RELEASE"})
<1>1. ASSUME NEW m, NEW told, NEW request \in Requests
      PROVE  sendRsrcRequest(Result(m, told, request).machine,
                             Result(m, told, request).request)
                \in Seq({"REQUEST", "RELEASE"})
  BY DEF Result, sendRsrcRequest, Requests
<1>2. \E m, told : \E request \in Requests :
         requests' = sendRsrcRequest(Result(m, told, request).machine,
                                     Result(m, told, request).request)
  <2>1. CASE nif.state = "RELEASED"
    BY <2>1 DEF Dispatch, onRsrcEvent, OnReleased, Requests
  <2>2. CASE nif.state = "PENDING"
    BY <2>2 DEF Dispatch, onRsrcEvent, OnPending, AfterUnsubscribe,
       NotifyAllAndDelete, Requests
  <2>3. CASE nif.state = "ACQUIRED"
    BY <2>3 DEF Dispatch, onRsrcEvent, OnAcquired, AfterUnsubscribe,
       NotifyAllAndDelete, Requests
  <2>4. CASE nif.state = "RELEASING"
    BY <2>4 DEF Dispatch, onRsrcEvent, OnReleasing, Requests
  <2>5. QED BY <2>1, <2>2, <2>3, <2>4 DEF AgpsStates
<1>3. QED BY <1>1, <1>2

-----------------------------------------------------------------------------
(* The inductive step, one lemma per group of actions.                     *)

\* A client's request keeps the invariant.
LEMMA RequestStep ==
    ASSUME IInv, NEW c \in Clients, Request(c)
    PROVE  IInv'
<1> DEFINE m == RequestMsg(c)
<1>1. m \in Messages
  BY DEF RequestMsg, Messages, ClientMsgs
<1>2. msgs \in Seq(Messages) /\ msgs' = Append(msgs, m)
  BY DEF IInv, TypeOK, Request
<1>3. /\ msgs' \in Seq(Messages) /\ Len(msgs) \in Nat
      /\ Len(msgs') = Len(msgs) + 1
      /\ \A i \in 1..Len(msgs) : msgs'[i] = msgs[i]
      /\ msgs'[Len(msgs) + 1] = m
  BY <1>1, <1>2, Pushed
<1>4. m # UpMsg /\ \A d \in Clients : m = RequestMsg(d) => d = c
  BY DEF RequestMsg, UpMsg
<1>5. TypeOK'
  BY <1>3 DEF IInv, TypeOK, Request, ClientStates
<1>6. MachineInv'
  BY DEF IInv, MachineInv, Request, ReleasedHasNoSubscribers, hasSubscribers
<1>7. QueueInv'
  BY <1>1, <1>2, <1>4, QueuePush DEF IInv, Request, HandleFree
<1>8. RestartInv'
  <2>1. ASSUME NEW d \in AtlClients, NEW i \in 1..Len(msgs'), msgs'[i] = UpMsg
        PROVE  /\ client'[d] # "open"
               /\ client'[d] = "asked" =>
                     /\ d \notin nif'.subs
                     /\ \E j \in 1..Len(msgs') : j > i /\ msgs'[j] = RequestMsg(d)
    <3>1. i \in 1..Len(msgs) /\ msgs[i] = UpMsg
      BY <1>3, <1>4, <2>1
    <3>2. CASE d = c
      <4>1. client'[d] = "asked" /\ d \notin nif'.subs
        BY <3>2 DEF IInv, TypeOK, Request, HandleFree
      <4>2. Len(msgs) + 1 \in 1..Len(msgs') /\ Len(msgs) + 1 > i
        BY <1>3, <3>1
      <4>3. QED BY <1>3, <3>2, <4>1, <4>2
    <3>3. CASE d # c
      <4>1. client'[d] = client[d] /\ nif' = nif
        BY <3>3 DEF IInv, TypeOK, Request, Clients
      <4>2. /\ client[d] # "open"
            /\ client[d] = "asked" =>
                  /\ d \notin nif.subs
                  /\ \E j \in 1..Len(msgs) : j > i /\ msgs[j] = RequestMsg(d)
        BY <3>1 DEF IInv, RestartInv
      <4>3. 1..Len(msgs) \subseteq 1..Len(msgs')
        BY <1>3
      <4>4. QED BY <1>3, <4>1, <4>2, <4>3
    <3>4. QED BY <3>2, <3>3
  <2>2. ASSUME NEW d \in AtlClients, ~ up'
        PROVE  client'[d] = "idle"
    BY <2>2 DEF IInv, TypeOK, RestartInv, Request, CanSend, Clients
  <2>3. QED BY <2>1, <2>2 DEF RestartInv, RequestMsg, UpMsg
<1>9. GrantIsBacked'
  BY DEF IInv, TypeOK, GrantIsBacked, DroppedUntold, Request
<1>10. WaitingIsTracked'
  <2>1. ASSUME NEW d \in Clients, client'[d] = "asked"
        PROVE  \/ InQueue(RequestMsg(d))'
               \/ d \in nif'.subs /\ nif'.state = "PENDING"
               \/ DroppedUntold(d)'
    <3>1. CASE d = c
      BY <1>1, <1>2, <3>1, QueuedPush
    <3>2. CASE d # c
      <4>1. client[d] = "asked"
        BY <2>1, <3>2 DEF IInv, TypeOK, Request
      <4>2. CASE InQueue(RequestMsg(d))
        BY <1>1, <1>2, <4>2, QueuedPush
      <4>3. CASE ~ InQueue(RequestMsg(d))
        BY <4>1, <4>3 DEF IInv, WaitingIsTracked, DroppedUntold, Request
      <4>4. QED BY <4>2, <4>3
    <3>3. QED BY <3>1, <3>2
  <2>2. QED BY <2>1 DEF WaitingIsTracked, RequestMsg, DroppedUntold
<1>11. QED BY <1>5, <1>6, <1>7, <1>8, <1>9, <1>10 DEF IInv

\* Sending anything but a request or LocEngUp keeps the invariant, whether the
\* client that sends it now waits for its release or nobody changes.
LEMMA QuietPush ==
    ASSUME IInv, NEW m \in Messages, msgs' = Append(msgs, m),
           UNCHANGED <<nif, up, restarts>>,
           m # UpMsg, \A c \in Clients : m # RequestMsg(c),
           client' \in [Clients -> ClientStates],
           \A c \in Clients : \/ client'[c] = client[c]
                              \/ client'[c] = "closing" /\ (c \in AtlClients => up)
    PROVE  /\ MachineInv' /\ QueueInv' /\ RestartInv'
           /\ GrantIsBacked' /\ WaitingIsTracked'
<1>2. msgs \in Seq(Messages)
  BY DEF IInv, TypeOK
<1>3. /\ Len(msgs) \in Nat /\ Len(msgs') = Len(msgs) + 1
      /\ \A i \in 1..Len(msgs) : msgs'[i] = msgs[i]
      /\ msgs'[Len(msgs) + 1] = m
  BY <1>2, Pushed
<1>4. MachineInv'
  BY DEF IInv, MachineInv, ReleasedHasNoSubscribers, hasSubscribers
<1>5. QueueInv'
  BY <1>2, QueuePush DEF IInv
<1>6. RestartInv'
  <2>1. ASSUME NEW d \in AtlClients, NEW i \in 1..Len(msgs'), msgs'[i] = UpMsg
        PROVE  /\ client'[d] # "open"
               /\ client'[d] = "asked" =>
                     /\ d \notin nif'.subs
                     /\ \E j \in 1..Len(msgs') : j > i /\ msgs'[j] = RequestMsg(d)
    <3>1. i \in 1..Len(msgs) /\ msgs[i] = UpMsg
      BY <1>3, <2>1
    <3>2. /\ client[d] # "open"
          /\ client[d] = "asked" =>
                /\ d \notin nif.subs
                /\ \E j \in 1..Len(msgs) : j > i /\ msgs[j] = RequestMsg(d)
      BY <3>1 DEF IInv, RestartInv
    <3>3. 1..Len(msgs) \subseteq 1..Len(msgs')
      BY <1>3
    <3>4. client'[d] \in {client[d], "closing"}
      BY DEF Clients
    <3>5. QED BY <1>3, <3>2, <3>3, <3>4
  <2>2. ASSUME NEW d \in AtlClients, ~ up'
        PROVE  client'[d] = "idle"
    BY <2>2 DEF IInv, RestartInv, Clients
  <2>3. QED BY <2>1, <2>2 DEF RestartInv, RequestMsg, UpMsg
<1>7. GrantIsBacked'
  BY DEF IInv, GrantIsBacked, DroppedUntold
<1>8. WaitingIsTracked'
  <2>1. ASSUME NEW d \in Clients, client'[d] = "asked"
        PROVE  \/ InQueue(RequestMsg(d))'
               \/ d \in nif'.subs /\ nif'.state = "PENDING"
               \/ DroppedUntold(d)'
    <3>1. client[d] = "asked"
      BY <2>1
    <3>2. CASE InQueue(RequestMsg(d))
      BY <1>2, <3>2, QueuedPush
    <3>3. CASE ~ InQueue(RequestMsg(d))
      BY <3>1, <3>3 DEF IInv, WaitingIsTracked, DroppedUntold
    <3>4. QED BY <3>2, <3>3
  <2>2. QED BY <2>1 DEF WaitingIsTracked, RequestMsg, DroppedUntold
<1>9. QED BY <1>4, <1>5, <1>6, <1>7, <1>8

\* A client's release keeps the invariant.
LEMMA ReleaseStep ==
    ASSUME IInv, NEW c \in Clients, Release(c)
    PROVE  IInv'
<1> DEFINE m == ReleaseMsg(c)
<1>1. /\ m \in Messages /\ m # UpMsg
      /\ \A d \in Clients : m # RequestMsg(d)
  BY DEF ReleaseMsg, RequestMsg, UpMsg, Messages, ClientMsgs
<1>2. client' = [client EXCEPT ![c] = "closing"] /\ client \in [Clients -> ClientStates]
  BY DEF Release, IInv, TypeOK
<1>3. /\ client' \in [Clients -> ClientStates]
      /\ \A d \in Clients : \/ client'[d] = client[d]
                            \/ client'[d] = "closing" /\ (d \in AtlClients => up)
  BY <1>2 DEF ClientStates, Release, CanSend
<1>4. UNCHANGED <<nif, up, restarts>> /\ msgs' = Append(msgs, m)
  BY DEF Release
<1>5. /\ MachineInv' /\ QueueInv' /\ RestartInv'
      /\ GrantIsBacked' /\ WaitingIsTracked'
  <2> HIDE DEF m
  <2> QED BY <1>1, <1>3, <1>4, QuietPush
<1>6. TypeOK'
  BY <1>1, <1>3 DEF Release, IInv, TypeOK
<1>7. QED BY <1>5, <1>6 DEF IInv

\* A report of the service, or a request it takes, keeps the invariant.
LEMMA ServiceStep ==
    ASSUME IInv, Service \/ loc_eng_agps_closed
    PROVE  IInv'
<1>1. UNCHANGED <<nif, client, up, restarts>>
  BY DEF Service, ServiceRequest, ServiceRelease, loc_eng_agps_open,
     loc_eng_agps_open_failed, loc_eng_agps_closed
<1>2. \/ msgs' = msgs
      \/ \E t \in {"AtlOpenSuccess", "AtlClosed", "AtlOpenFailed"} :
            msgs' = Append(msgs, [type |-> t])
  BY DEF Service, ServiceRequest, ServiceRelease, loc_eng_agps_open,
     loc_eng_agps_open_failed, loc_eng_agps_closed, Report
<1>3. requests' \in Seq({"REQUEST", "RELEASE"}) /\ conn' \in ConnStates
  <2>1. requests' = requests \/ (requests # << >> /\ requests' = Tail(requests))
    BY DEF Service, ServiceRequest, ServiceRelease, loc_eng_agps_open,
       loc_eng_agps_open_failed, loc_eng_agps_closed
  <2>2. requests \in Seq({"REQUEST", "RELEASE"})
    BY DEF IInv, TypeOK
  <2>3. conn' \in ConnStates
    BY DEF Service, ServiceRequest, ServiceRelease, loc_eng_agps_open,
       loc_eng_agps_open_failed, loc_eng_agps_closed, ConnStates
  <2>4. QED BY <2>1, <2>2, <2>3
<1>4. CASE msgs' = msgs
  BY <1>1, <1>3, <1>4 DEF IInv, TypeOK, MachineInv, ReleasedHasNoSubscribers,
     hasSubscribers, QueueInv, RestartInv, GrantIsBacked, WaitingIsTracked,
     DroppedUntold, InQueue, RequestMsg, UpMsg
<1>5. ASSUME NEW t \in {"AtlOpenSuccess", "AtlClosed", "AtlOpenFailed"},
             msgs' = Append(msgs, [type |-> t])
      PROVE  IInv'
  <2>1. /\ [type |-> t] \in Messages /\ [type |-> t] # UpMsg
        /\ \A d \in Clients : [type |-> t] # RequestMsg(d)
    BY DEF RequestMsg, UpMsg, Messages, ServiceMsgs
  <2>2. client' \in [Clients -> ClientStates] /\ client' = client
    BY <1>1 DEF IInv, TypeOK
  <2>3. /\ MachineInv' /\ QueueInv' /\ RestartInv'
        /\ GrantIsBacked' /\ WaitingIsTracked'
    BY <1>1, <1>5, <2>1, <2>2, QuietPush
  <2>4. TypeOK'
    BY <1>1, <1>3, <1>5, <2>1 DEF IInv, TypeOK
  <2>5. QED BY <2>3, <2>4 DEF IInv
<1>6. QED BY <1>2, <1>4, <1>5

\* A modem crash, and the announcement that it is back, keep the invariant.
LEMMA ModemStep ==
    ASSUME IInv, ModemDown \/ ModemUp
    PROVE  IInv'
<1>1. CASE ModemDown
  <2>1. /\ \A c \in AtlClients : client'[c] = "idle"
        /\ \A c \in Clients : client'[c] \in {"idle", client[c]}
        /\ client' \in [Clients -> ClientStates]
    BY <1>1 DEF ModemDown, IInv, TypeOK, ClientStates, Clients
  <2>2. /\ UNCHANGED <<nif, msgs, requests, conn>>
        /\ up' = FALSE /\ restarts' = restarts + 1 /\ restarts' > 0
        /\ restarts' \in 0..MaxRestarts
    BY <1>1, AgpsNifAssumption DEF ModemDown, IInv, TypeOK
  <2>3. TypeOK' /\ MachineInv'
    BY <2>1, <2>2 DEF IInv, TypeOK, MachineInv, ReleasedHasNoSubscribers,
       hasSubscribers
  <2>4. QueueInv' /\ RestartInv'
    BY <2>1, <2>2 DEF IInv, QueueInv, RestartInv, RequestMsg, UpMsg
  <2>5. GrantIsBacked' /\ WaitingIsTracked'
    BY <2>1, <2>2 DEF GrantIsBacked, WaitingIsTracked, DroppedUntold, Clients
  <2>6. QED BY <2>3, <2>4, <2>5 DEF IInv
<1>2. CASE ModemUp
  <2>1. /\ UpMsg \in Messages /\ \A c \in Clients : UpMsg # RequestMsg(c)
    BY DEF UpMsg, Messages, EngineMsgs, RequestMsg
  <2>2. /\ msgs' = Append(msgs, UpMsg) /\ msgs \in Seq(Messages)
        /\ UNCHANGED <<nif, requests, conn, client, restarts>>
        /\ up' = TRUE /\ ~ up /\ restarts > 0
    BY <1>2 DEF ModemUp, Report, UpMsg, IInv, TypeOK, QueueInv
  <2>3. TypeOK' /\ MachineInv'
    BY <2>1, <2>2 DEF IInv, TypeOK, MachineInv, ReleasedHasNoSubscribers,
       hasSubscribers
  <2>4. QueueInv'
    BY <2>1, <2>2, QueuePush DEF IInv
  <2>5. \A c \in AtlClients : client'[c] = "idle"
    BY <2>2 DEF IInv, RestartInv
  <2>6. RestartInv'
    BY <2>5, <2>2 DEF RestartInv, RequestMsg, UpMsg
  <2>7. GrantIsBacked'
    BY <2>2 DEF IInv, GrantIsBacked, DroppedUntold
  <2>8. WaitingIsTracked'
    BY <2>2, <2>5 DEF WaitingIsTracked, DroppedUntold, Clients
  <2>9. QED BY <2>3, <2>4, <2>6, <2>7, <2>8 DEF IInv
<1>3. QED BY <1>1, <1>2

\* Processing a request keeps the invariant.
LEMMA SubscribeStep ==
    ASSUME IInv, subscribeRsrc
    PROVE  IInv'
<1> DEFINE c == Head(msgs).id
<1>1. /\ msgs \in Seq(Messages) /\ msgs # << >> /\ msgs' = Tail(msgs)
      /\ Head(msgs).type = "Request"
      /\ UNCHANGED <<conn, up, restarts>>
  BY DEF IInv, TypeOK, subscribeRsrc, Next_Msg
<1>2. /\ msgs' \in Seq(Messages) /\ Head(msgs) = msgs[1] /\ msgs[1] \in Messages
  BY <1>1, Popped
<1>3. c \in Clients /\ msgs[1] = RequestMsg(c)
  BY <1>1, <1>2 DEF Messages, ClientMsgs, ServiceMsgs, EngineMsgs, RequestMsg
<1>4. \A d \in Clients : msgs[1] = RequestMsg(d) => d = c
  BY <1>3 DEF RequestMsg
<1> HIDE DEF c
<1>5. Dispatch("SUBSCRIBE", c)
  BY DEF subscribeRsrc, c
<1>6. nif \in MachineType /\ MachineInv
  BY DEF IInv, TypeOK, MachineType
<1>7. /\ nif' \in MachineType
      /\ nif'.subs = nif.subs \cup {c}
      /\ nif'.inactive = {}
      /\ nif'.state = IF nif.state = "RELEASED" THEN "PENDING" ELSE nif.state
      /\ client' = Informed(IF nif.state = "ACQUIRED"
                            THEN {<<c, "GRANTED">>} ELSE {})
  BY <1>3, <1>5, <1>6, SubscribeEffect
<1>8. /\ client' \in [Clients -> ClientStates]
      /\ \A d \in Clients :
            /\ client[d] = "idle" => client'[d] = "idle"
            /\ client'[d] = "asked" =>
                  client[d] = "asked" /\ (nif.state = "ACQUIRED" => d # c)
            /\ client'[d] = "open" =>
                  \/ client[d] = "open"
                  \/ client[d] = "asked" /\ nif.state = "ACQUIRED" /\ d = c
  <2>1. client \in [Clients -> ClientStates]
    BY DEF IInv, TypeOK
  <2>2. CASE nif.state = "ACQUIRED"
    BY <1>7, <2>1, <2>2 DEF Informed, ClientStates
  <2>3. CASE nif.state # "ACQUIRED"
    BY <1>7, <2>1, <2>3 DEF Informed, ClientStates
  <2>4. QED BY <2>2, <2>3
<1>9. requests' \in Seq({"REQUEST", "RELEASE"})
  BY <1>5, <1>6, RequestType DEF IInv, TypeOK, MachineType
<1>10. TypeOK' /\ MachineInv'
  <2>1. TypeOK'
    BY <1>1, <1>2, <1>7, <1>8, <1>9 DEF IInv, TypeOK, MachineType
  <2>2. MachineInv'
    BY <1>6, <1>7 DEF MachineInv, ReleasedHasNoSubscribers, hasSubscribers
  <2>3. QED BY <2>1, <2>2
<1>11. QueueInv'
  BY <1>1, QueuePop DEF IInv
<1>12. RestartInv'
  BY <1>1, <1>3, <1>7, <1>8, RestartPop DEF IInv, Clients
<1>13. GrantIsBacked'
  BY <1>1, <1>7, <1>8 DEF IInv, GrantIsBacked, DroppedUntold
<1>14. WaitingIsTracked'
  <2>1. ASSUME NEW d \in Clients, client'[d] = "asked"
        PROVE  \/ InQueue(RequestMsg(d))'
               \/ d \in nif'.subs /\ nif'.state = "PENDING"
               \/ DroppedUntold(d)'
    <3>1. client[d] = "asked" /\ (nif.state = "ACQUIRED" => d # c)
      BY <1>8, <2>1
    <3>2. CASE d = c
      BY <1>6, <1>7, <3>1, <3>2 DEF MachineType, AgpsStates, MachineInv
    <3>3. CASE d # c /\ InQueue(RequestMsg(d))
      BY <1>1, <1>4, <3>3, QueuedPop
    <3>4. CASE d # c /\ ~ InQueue(RequestMsg(d))
      BY <1>1, <1>7, <3>1, <3>4 DEF IInv, WaitingIsTracked, DroppedUntold
    <3>5. QED BY <3>2, <3>3, <3>4
  <2>2. QED BY <2>1 DEF WaitingIsTracked, RequestMsg, DroppedUntold
<1>15. QED BY <1>10, <1>11, <1>12, <1>13, <1>14 DEF IInv

\* What the remaining messages of the thread have in common: the message taken
\* is no request, and nobody new waits or joins.
LEMMA OtherPop ==
    ASSUME IInv, msgs # << >>, msgs' = Tail(msgs), UNCHANGED <<up, restarts>>,
           \A c \in Clients : msgs[1] # RequestMsg(c),
           \A c \in Clients :
               /\ client[c] = "idle" => client'[c] = "idle"
               /\ client'[c] = "asked" =>
                     /\ client[c] = "asked"
                     /\ \/ InQueue(RequestMsg(c))
                        \/ c \in nif'.subs /\ nif'.state = "PENDING"
                        \/ DroppedUntold(c)
               /\ client'[c] = "open" =>
                     \/ client[c] = "open"
                     \/ client[c] = "asked" /\ c \in nif.subs,
           nif'.subs \subseteq nif.subs
    PROVE  QueueInv' /\ RestartInv' /\ WaitingIsTracked'
<1>1. msgs \in Seq(Messages)
  BY DEF IInv, TypeOK
<1>2. QueueInv'
  BY <1>1, QueuePop DEF IInv
<1>3. RestartInv'
  BY <1>1, RestartPop DEF IInv, Clients
<1>4. WaitingIsTracked'
  <2>1. ASSUME NEW c \in Clients, client'[c] = "asked"
        PROVE  \/ InQueue(RequestMsg(c))'
               \/ c \in nif'.subs /\ nif'.state = "PENDING"
               \/ DroppedUntold(c)'
    <3>1. CASE InQueue(RequestMsg(c))
      BY <1>1, <3>1, QueuedPop
    <3>2. CASE ~ InQueue(RequestMsg(c))
      BY <2>1, <3>2 DEF DroppedUntold
    <3>3. QED BY <3>1, <3>2
  <2>2. QED BY <2>1 DEF WaitingIsTracked, RequestMsg, DroppedUntold
<1>5. QED BY <1>2, <1>3, <1>4

\* Processing a release keeps the invariant, for a listed client and for one
\* that is not (any more) in the list.
LEMMA UnsubscribeStep ==
    ASSUME IInv, unsubscribeRsrc \/ unsubscribeNotFound
    PROVE  IInv'
<1>1. /\ msgs \in Seq(Messages) /\ msgs # << >> /\ msgs' = Tail(msgs)
      /\ Head(msgs).type = "Release"
      /\ UNCHANGED <<conn, up, restarts>>
      /\ client \in [Clients -> ClientStates]
  BY DEF IInv, TypeOK, unsubscribeRsrc, unsubscribeNotFound, Next_Msg
<1>2. /\ msgs' \in Seq(Messages) /\ Head(msgs) = msgs[1] /\ msgs[1] \in Messages
  BY <1>1, Popped
<1>3. \A d \in Clients : msgs[1] # RequestMsg(d)
  BY <1>1, <1>2 DEF RequestMsg
<1>4. nif \in MachineType /\ MachineInv
  BY DEF IInv, TypeOK, MachineType
<1>5. CASE unsubscribeRsrc
  <2> DEFINE c == Head(msgs).id
  <2>1. c \in nif.subs /\ Dispatch("UNSUBSCRIBE", c)
    BY <1>5 DEF unsubscribeRsrc
  <2> HIDE DEF c
  <2>2. /\ nif' \in MachineType
        /\ nif'.subs = nif.subs \ {c}
        /\ nif'.inactive = {}
        /\ nif'.state = IF nif.subs \ {c} = {} THEN "RELEASED" ELSE nif.state
        /\ client' = Informed({<<c, "UNSUBSCRIBE">>})
    BY <1>4, <2>1, UnsubscribeEffect
  <2>3. c \in Clients
    BY <1>4, <2>1 DEF MachineType
  <2>4. client' = [client EXCEPT ![c] = "idle"]
    BY <1>1, <2>2, <2>3 DEF Informed
  <2>5. requests' \in Seq({"REQUEST", "RELEASE"})
    BY <1>4, <2>1, RequestType DEF IInv, TypeOK, MachineType
  <2>6. TypeOK'
    BY <1>1, <1>2, <2>2, <2>3, <2>4, <2>5 DEF IInv, TypeOK, MachineType,
       ClientStates
  <2>7. MachineInv'
    BY <1>4, <2>2 DEF MachineInv, ReleasedHasNoSubscribers, hasSubscribers
  <2>8. GrantIsBacked'
    BY <1>1, <2>2, <2>3, <2>4 DEF IInv, GrantIsBacked, DroppedUntold
  <2>9. \A d \in Clients : client'[d] = "asked" =>
           /\ client[d] = "asked"
           /\ \/ InQueue(RequestMsg(d))
              \/ d \in nif'.subs /\ nif'.state = "PENDING"
              \/ DroppedUntold(d)
    BY <1>1, <2>2, <2>3, <2>4 DEF IInv, WaitingIsTracked
  <2>10. QueueInv' /\ RestartInv' /\ WaitingIsTracked'
    BY <1>1, <1>3, <2>2, <2>3, <2>4, <2>9, OtherPop
  <2>11. QED BY <2>6, <2>7, <2>8, <2>10 DEF IInv
<1>6. CASE unsubscribeNotFound
  <2>1. /\ \A d \in Clients : client'[d] \in {"idle", client[d]}
        /\ client' \in [Clients -> ClientStates]
        /\ UNCHANGED <<nif, requests>>
    BY <1>1, <1>6 DEF unsubscribeNotFound, ClientStates
  <2>2. TypeOK' /\ MachineInv'
    BY <1>1, <1>2, <2>1 DEF IInv, TypeOK, MachineInv, ReleasedHasNoSubscribers,
       hasSubscribers
  <2>3. GrantIsBacked'
    BY <1>1, <2>1 DEF IInv, GrantIsBacked, DroppedUntold
  <2>4. QueueInv' /\ RestartInv' /\ WaitingIsTracked'
    BY <1>1, <1>3, <2>1, OtherPop DEF IInv, WaitingIsTracked
  <2>5. QED BY <2>2, <2>3, <2>4 DEF IInv
<1>7. QED BY <1>5, <1>6

\* Processing a report of the service keeps the invariant, however stale the
\* report is.
LEMMA ReportStep ==
    ASSUME IInv,
           LocEngAtlOpenSuccess \/ LocEngAtlClosed \/ LocEngAtlOpenFailed
    PROVE  IInv'
<1>1. /\ msgs \in Seq(Messages) /\ msgs # << >> /\ msgs' = Tail(msgs)
      /\ Head(msgs).type \in {"AtlOpenSuccess", "AtlClosed", "AtlOpenFailed"}
      /\ UNCHANGED <<conn, up, restarts>>
      /\ client \in [Clients -> ClientStates]
  BY DEF IInv, TypeOK, LocEngAtlOpenSuccess, LocEngAtlClosed,
     LocEngAtlOpenFailed, Next_Msg
<1>2. /\ msgs' \in Seq(Messages) /\ Head(msgs) = msgs[1] /\ msgs[1] \in Messages
  BY <1>1, Popped
<1>3. \A d \in Clients : msgs[1] # RequestMsg(d)
  BY <1>1, <1>2 DEF RequestMsg
<1>4. nif \in MachineType /\ MachineInv
  BY DEF IInv, TypeOK, MachineType
<1>5. PICK event \in RsrcReports : Dispatch(event, "nobody")
  BY DEF LocEngAtlOpenSuccess, LocEngAtlClosed, LocEngAtlOpenFailed, RsrcReports
<1>6. requests' \in Seq({"REQUEST", "RELEASE"})
  BY <1>4, <1>5, RequestType DEF IInv, TypeOK, MachineType
<1>7. nif' \in MachineType /\ nif'.inactive = {}
  BY <1>4, <1>5, ReportEffect
<1>8. nif.subs \subseteq Clients
  BY <1>4 DEF MachineType
<1>9. CASE /\ event = "GRANTED" /\ nif.state = "PENDING"
           /\ nif'.subs = nif.subs /\ nif'.state = "ACQUIRED"
           /\ client' = Informed(nif.subs \X {"GRANTED"})
  <2>1. client' = [d \in Clients |->
                     IF d \in nif.subs /\ client[d] = "asked"
                     THEN "open" ELSE client[d]]
    BY <1>9 DEF Informed
  <2>2. TypeOK' /\ MachineInv'
    BY <1>1, <1>2, <1>6, <1>7, <1>9, <2>1 DEF IInv, TypeOK, MachineType,
       ClientStates, MachineInv, ReleasedHasNoSubscribers
  <2>3. GrantIsBacked'
    BY <1>1, <1>9, <2>1 DEF IInv, GrantIsBacked, DroppedUntold
  <2>4. \A d \in Clients : client'[d] = "asked" =>
           client[d] = "asked" /\ (InQueue(RequestMsg(d)) \/ DroppedUntold(d))
    BY <1>1, <2>1 DEF IInv, WaitingIsTracked
  <2>5. QueueInv' /\ RestartInv' /\ WaitingIsTracked'
    BY <1>1, <1>3, <1>9, <2>1, <2>4, OtherPop
  <2>6. QED BY <2>2, <2>3, <2>5 DEF IInv
<1>10. CASE /\ event \in {"DENIED", "RELEASED"}
            /\ nif'.subs = {} /\ nif'.state = "RELEASED"
            /\ client' = Informed(nif.subs \X {event})
  <2>1. client' = [d \in Clients |->
                     IF d \in nif.subs THEN "idle" ELSE client[d]]
    BY <1>10 DEF Informed
  <2>2. TypeOK' /\ MachineInv'
    BY <1>1, <1>2, <1>6, <1>7, <1>10, <2>1 DEF IInv, TypeOK, MachineType,
       ClientStates, MachineInv, ReleasedHasNoSubscribers, hasSubscribers
  <2>3. GrantIsBacked'
    BY <1>1, <1>10, <2>1 DEF IInv, GrantIsBacked, DroppedUntold
  <2>4. \A d \in Clients : client'[d] = "asked" =>
           client[d] = "asked" /\ (InQueue(RequestMsg(d)) \/ DroppedUntold(d))
    BY <1>1, <2>1 DEF IInv, WaitingIsTracked
  <2>5. QueueInv' /\ RestartInv' /\ WaitingIsTracked'
    BY <1>1, <1>3, <1>10, <2>1, <2>4, OtherPop
  <2>6. QED BY <2>2, <2>3, <2>5 DEF IInv
<1>11. CASE nif' = nif /\ client' = Informed({})
  <2>1. client' = client
    BY <1>1, <1>11 DEF Informed
  <2>2. TypeOK' /\ MachineInv'
    BY <1>1, <1>2, <1>6, <1>11, <2>1 DEF IInv, TypeOK, MachineInv,
       ReleasedHasNoSubscribers, hasSubscribers
  <2>3. GrantIsBacked'
    BY <1>1, <1>11, <2>1 DEF IInv, GrantIsBacked, DroppedUntold
  <2>4. QueueInv' /\ RestartInv' /\ WaitingIsTracked'
    BY <1>1, <1>3, <1>11, <2>1, OtherPop DEF IInv, WaitingIsTracked
  <2>5. QED BY <2>2, <2>3, <2>4 DEF IInv
<1>12. QED BY <1>4, <1>5, <1>9, <1>10, <1>11, ReportEffect

\* Dropping all subscribers when the modem is back keeps the invariant: the
\* modem clients that wait by then have their request behind LocEngUp.
LEMMA LocEngUpStep ==
    ASSUME IInv, LocEngUp
    PROVE  IInv'
<1>1. /\ msgs \in Seq(Messages) /\ msgs # << >> /\ msgs' = Tail(msgs)
      /\ Head(msgs).type = "LocEngUp"
      /\ UNCHANGED <<requests, conn, client, up, restarts>>
      /\ nif \in MachineType /\ nif' = [nif EXCEPT !.subs = {}, !.inactive = {}]
  BY DEF IInv, TypeOK, MachineType, LocEngUp, Next_Msg
<1>2. /\ msgs' \in Seq(Messages) /\ Head(msgs) = msgs[1] /\ msgs[1] \in Messages
      /\ Len(msgs) \in Nat /\ Len(msgs) > 0
  BY <1>1, Popped
<1>3. msgs[1] = UpMsg /\ 1 \in 1..Len(msgs)
  BY <1>1, <1>2 DEF Messages, ClientMsgs, ServiceMsgs, EngineMsgs, UpMsg
<1>4. \A d \in Clients : msgs[1] # RequestMsg(d)
  BY <1>3 DEF RequestMsg, UpMsg
<1>5. restarts > 0
  BY <1>3 DEF IInv, QueueInv
<1>6. \A d \in AtlClients :
         client[d] # "open" /\ (client[d] = "asked" => InQueue(RequestMsg(d)))
  BY <1>3 DEF IInv, RestartInv, InQueue
<1>7. /\ nif' \in MachineType /\ nif'.subs = {} /\ nif'.inactive = {}
      /\ nif'.state = nif.state
  BY <1>1 DEF MachineType
<1>8. TypeOK'
  BY <1>1, <1>2, <1>7 DEF IInv, TypeOK, MachineType
<1>9. MachineInv'
  BY <1>7 DEF IInv, MachineInv, ReleasedHasNoSubscribers, hasSubscribers
<1>10. GrantIsBacked'
  BY <1>1, <1>5, <1>6 DEF GrantIsBacked, DroppedUntold, Clients
<1>11. \A d \in Clients : client[d] = "asked" =>
          InQueue(RequestMsg(d)) \/ DroppedUntold(d)
  BY <1>5, <1>6 DEF DroppedUntold, Clients
<1>12. QueueInv' /\ RestartInv' /\ WaitingIsTracked'
  BY <1>1, <1>4, <1>7, <1>11, OtherPop
<1>13. QED BY <1>8, <1>9, <1>10, <1>12 DEF IInv

-----------------------------------------------------------------------------
(* The theorems.                                                           *)

\* IInv is inductive: it holds of a fresh NIF and every step preserves it.
THEOREM IInvHolds == Spec => []IInv
<1>1. Init => IInv
  BY AgpsNifAssumption DEF Init, IInv, TypeOK, NewMachine, MachineInv, QueueInv,
     RestartInv, GrantIsBacked, WaitingIsTracked, ReleasedHasNoSubscribers,
     hasSubscribers, AgpsStates, ConnStates, ClientStates, Clients
<1>2. IInv /\ [Next]_vars => IInv'
  <2> SUFFICES ASSUME IInv, [Next]_vars
               PROVE  IInv'
    OBVIOUS
  <2>1. CASE \E c \in Clients : Request(c) \/ Release(c)
    BY <2>1, RequestStep, ReleaseStep
  <2>2. CASE MsgThread
    BY <2>2, SubscribeStep, UnsubscribeStep, ReportStep, LocEngUpStep
       DEF MsgThread
  <2>3. CASE Service \/ loc_eng_agps_closed
    BY <2>3, ServiceStep
  <2>4. CASE ModemDown \/ ModemUp
    BY <2>4, ModemStep
  <2>5. CASE UNCHANGED vars
    BY <2>5 DEF vars, IInv, TypeOK, MachineInv, ReleasedHasNoSubscribers,
       hasSubscribers, QueueInv, RestartInv, GrantIsBacked, WaitingIsTracked,
       DroppedUntold, InQueue, RequestMsg, UpMsg
  <2>6. QED BY <2>1, <2>2, <2>3, <2>4, <2>5 DEF Next
<1>3. QED BY <1>1, <1>2, PTL DEF Spec

\* Type correctness, for every set of clients and every bound.
THEOREM TypeCorrect == Spec => []TypeOK
<1>1. IInv => TypeOK
  BY DEF IInv
<1>2. QED BY <1>1, IInvHolds, PTL

\* The condition AgpsReleasedState::onRsrcEvent logs as unrecoverable never
\* arises on a NIF with ATL and BIT subscribers.
THEOREM ReleasedListEmpty == Spec => []ReleasedHasNoSubscribers
<1>1. IInv => ReleasedHasNoSubscribers
  BY DEF IInv, MachineInv
<1>2. QED BY <1>1, IInvHolds, PTL

\* A client that believes its connection open is a subscriber of a machine
\* that holds the NIF, whatever stale reports and restarts came in between.
THEOREM GrantsAreBacked == Spec => []GrantIsBacked
<1>1. IInv => GrantIsBacked
  BY DEF IInv
<1>2. QED BY <1>1, IInvHolds, PTL

\* A client that waits has its request queued or is in a pending machine's
\* list, so the machine's next answer reaches it.
THEOREM WaitersAreTracked == Spec => []WaitingIsTracked
<1>1. IInv => WaitingIsTracked
  BY DEF IInv
<1>2. QED BY <1>1, IInvHolds, PTL

-----------------------------------------------------------------------------
(* The machine, its clients and the service agree.                         *)

OpenedMsg == [type |-> "AtlOpenSuccess"]
ClosedMsg == [type |-> "AtlClosed"]
FailedMsg == [type |-> "AtlOpenFailed"]

Behind(i, m) == \E j \in 1..Len(msgs) : j > i /\ msgs[j] = m

\* A handle's request is queued before its release, and a client whose request
\* is queued is no subscriber: it still waits, or its release or the drop of a
\* restart follows.
OriginInv ==
    \A c \in Clients : \A i \in 1..Len(msgs) : msgs[i] = RequestMsg(c) =>
        /\ c \notin nif.subs
        /\ \A j \in 1..Len(msgs) : msgs[j] = ReleaseMsg(c) => i < j
        /\ client[c] = "asked" \/ up = FALSE \/ Behind(i, ReleaseMsg(c)) \/ Behind(i, UpMsg)

\* Without a connection, the report that it is gone follows every report that
\* it is open, those the machine has acted upon included.
ConnInv ==
    conn # "open" =>
        /\ nif.state = "ACQUIRED" => InQueue(ClosedMsg)
        /\ \A i \in 1..Len(msgs) : msgs[i] = OpenedMsg => Behind(i, ClosedMsg)

\* In PENDING the last request is the machine's own REQUEST, and once it is
\* acted upon its answer comes.
PendInv ==
    nif.state = "PENDING" =>
        /\ requests = << >> => conn = "opening" \/ InQueue(OpenedMsg) \/ InQueue(FailedMsg)
        /\ requests # << >> => requests[Len(requests)] = "REQUEST"

AgreeInv == NoGhostSubscriber /\ OriginInv /\ ConnInv /\ PendInv

\* The messages of the model are told apart by their type and handle.
LEMMA MsgNames ==
    /\ \A c, d : RequestMsg(c) = RequestMsg(d) => c = d
    /\ \A c, d : ReleaseMsg(c) = ReleaseMsg(d) => c = d
    /\ \A c, d : RequestMsg(c) # ReleaseMsg(d)
    /\ \A c : /\ RequestMsg(c) \notin {UpMsg, OpenedMsg, ClosedMsg, FailedMsg}
              /\ ReleaseMsg(c) \notin {UpMsg, OpenedMsg, ClosedMsg, FailedMsg}
    /\ UpMsg \notin {OpenedMsg, ClosedMsg, FailedMsg}
    /\ OpenedMsg # ClosedMsg /\ OpenedMsg # FailedMsg /\ ClosedMsg # FailedMsg
<1>1. \A c : /\ RequestMsg(c).type = "Request" /\ RequestMsg(c).id = c
             /\ ReleaseMsg(c).type = "Release" /\ ReleaseMsg(c).id = c
  BY DEF RequestMsg, ReleaseMsg
<1>2. /\ UpMsg.type = "LocEngUp" /\ OpenedMsg.type = "AtlOpenSuccess"
      /\ ClosedMsg.type = "AtlClosed" /\ FailedMsg.type = "AtlOpenFailed"
  BY DEF UpMsg, OpenedMsg, ClosedMsg, FailedMsg
<1>3. QED BY <1>1, <1>2

\* The message a handler takes.
LEMMA HeadIs ==
    ASSUME msgs \in Seq(Messages), NEW type, Next_Msg(type)
    PROVE  /\ msgs # << >> /\ msgs' = Tail(msgs)
           /\ type = "Request" => \E c \in Clients : Head(msgs).id = c /\ msgs[1] = RequestMsg(c)
           /\ type = "Release" => \E c \in Clients : Head(msgs).id = c /\ msgs[1] = ReleaseMsg(c)
           /\ type = "LocEngUp" => msgs[1] = UpMsg
           /\ type = "AtlOpenSuccess" => msgs[1] = OpenedMsg
           /\ type = "AtlClosed" => msgs[1] = ClosedMsg
           /\ type = "AtlOpenFailed" => msgs[1] = FailedMsg
<1>1. msgs # << >> /\ msgs' = Tail(msgs) /\ Head(msgs).type = type
  BY DEF Next_Msg
<1>2. Head(msgs) = msgs[1] /\ msgs[1] \in Messages
  BY <1>1, Popped
<1>3. QED
  BY <1>1, <1>2 DEF Messages, ClientMsgs, ServiceMsgs, EngineMsgs, RequestMsg, ReleaseMsg,
     UpMsg, OpenedMsg, ClosedMsg, FailedMsg

\* What is behind the head, or behind another message, moves up with it.
LEMMA PoppedBehind ==
    ASSUME msgs \in Seq(Messages), msgs # << >>, msgs' = Tail(msgs), NEW m
    PROVE  /\ InQueue(m) /\ msgs[1] # m => InQueue(m)'
           /\ Behind(1, m) => InQueue(m)'
           /\ \A i \in 1..Len(msgs') :
                 /\ i + 1 \in 1..Len(msgs) /\ msgs'[i] = msgs[i + 1]
                 /\ Behind(i + 1, m) => Behind(i, m)'
<1>1. /\ Len(msgs) \in Nat /\ Len(msgs) > 0 /\ Len(msgs') = Len(msgs) - 1
      /\ \A i \in 1..Len(msgs') : msgs'[i] = msgs[i + 1]
  BY Popped
<1>2. \A k \in 1..Len(msgs) : k > 1 => k - 1 \in 1..Len(msgs') /\ msgs'[k - 1] = msgs[k]
  BY <1>1
<1>3. ASSUME NEW i \in 1..Len(msgs'), Behind(i + 1, m) PROVE Behind(i, m)'
  <2>1. PICK k \in 1..Len(msgs) : k > i + 1 /\ msgs[k] = m
    BY <1>3 DEF Behind
  <2>2. k - 1 \in 1..Len(msgs') /\ k - 1 > i /\ msgs'[k - 1] = m
    BY <1>1, <1>2, <2>1
  <2>3. QED BY <2>2 DEF Behind
<1>4. ASSUME Behind(1, m) PROVE InQueue(m)'
  BY <1>2, <1>4 DEF Behind, InQueue
<1>5. ASSUME InQueue(m), msgs[1] # m PROVE InQueue(m)'
  <2>1. PICK k \in 1..Len(msgs) : msgs[k] = m
    BY <1>5 DEF InQueue
  <2>2. k > 1
    BY <1>1, <1>5, <2>1
  <2>3. QED BY <1>2, <2>1, <2>2 DEF InQueue
<1>6. \A i \in 1..Len(msgs') : i + 1 \in 1..Len(msgs)
  BY <1>1
<1>7. QED BY <1>1, <1>3, <1>4, <1>5, <1>6

\* What is sent is behind everything.
LEMMA PushedBehind ==
    ASSUME msgs \in Seq(Messages), NEW m \in Messages, msgs' = Append(msgs, m), NEW q
    PROVE  /\ InQueue(q) \/ m = q => InQueue(q)'
           /\ \A i \in 1..Len(msgs) :
                 /\ msgs'[i] = msgs[i] /\ i \in 1..Len(msgs')
                 /\ Behind(i, q) \/ m = q => Behind(i, q)'
                 /\ i < Len(msgs) + 1
           /\ \A i \in 1..Len(msgs') : i \in 1..Len(msgs) \/ (i = Len(msgs) + 1 /\ msgs'[i] = m)
<1>1. /\ Len(msgs) \in Nat /\ Len(msgs') = Len(msgs) + 1
      /\ \A i \in 1..Len(msgs) : msgs'[i] = msgs[i]
      /\ msgs'[Len(msgs) + 1] = m
  BY Pushed
<1>2. /\ Len(msgs) + 1 \in 1..Len(msgs') /\ 1..Len(msgs) \subseteq 1..Len(msgs')
      /\ \A i \in 1..Len(msgs) : i < Len(msgs) + 1 /\ Len(msgs) + 1 > i
      /\ \A i \in 1..Len(msgs') : i \in 1..Len(msgs) \/ i = Len(msgs) + 1
  BY <1>1
<1>3. InQueue(q) \/ m = q => InQueue(q)'
  BY <1>1, <1>2 DEF InQueue
<1>4. ASSUME NEW i \in 1..Len(msgs), Behind(i, q) \/ m = q PROVE Behind(i, q)'
  BY <1>1, <1>2, <1>4 DEF Behind
<1>5. QED BY <1>1, <1>2, <1>3, <1>4

\* Handling a message keeps the clients' part: subscribers come from requests,
\* and a client stops waiting only when it is a subscriber or its own message
\* is handled.
LEMMA ClientsPop ==
    ASSUME IInv, AgreeInv, msgs # << >>, msgs' = Tail(msgs), up' = up,
           \A c \in nif'.subs :
               /\ c \in Clients /\ msgs[1] # ReleaseMsg(c) /\ msgs[1] # UpMsg
               /\ c \in nif.subs \/ msgs[1] = RequestMsg(c)
               /\ client[c] \in {"asked", "open"} => client'[c] \in {"asked", "open"},
           \A c \in Clients : client[c] = "asked" =>
               client'[c] = "asked" \/ c \in nif.subs \/ msgs[1] = RequestMsg(c)
                 \/ msgs[1] = ReleaseMsg(c)
    PROVE  NoGhostSubscriber' /\ OriginInv'
<1>1. msgs \in Seq(Messages) /\ 1 \in 1..Len(msgs) /\ up \in BOOLEAN
  <2>1. msgs \in Seq(Messages) /\ up \in BOOLEAN
    BY DEF IInv, TypeOK
  <2>2. QED BY <2>1, Popped
<1>2. NoGhostSubscriber'
  <2> SUFFICES ASSUME NEW c \in nif'.subs
               PROVE  \/ client'[c] \in {"asked", "open"}
                      \/ InQueue(ReleaseMsg(c))'
                      \/ up = FALSE \/ InQueue(UpMsg)'
    BY DEF NoGhostSubscriber, UpMsg
  <2>1. c \in Clients
    OBVIOUS
  <2>2. CASE msgs[1] = RequestMsg(c)
    <3>1. client[c] = "asked" \/ up = FALSE \/ Behind(1, ReleaseMsg(c)) \/ Behind(1, UpMsg)
      BY <1>1, <2>1, <2>2 DEF AgreeInv, OriginInv
    <3>2. QED BY <1>1, <3>1, PoppedBehind
  <2>3. CASE c \in nif.subs
    <3>1. client[c] \in {"asked", "open"} \/ InQueue(ReleaseMsg(c)) \/ up = FALSE \/ InQueue(UpMsg)
      BY <1>1, <2>3 DEF AgreeInv, NoGhostSubscriber, UpMsg
    <3>2. msgs[1] # ReleaseMsg(c) /\ msgs[1] # UpMsg
      OBVIOUS
    <3>3. QED BY <1>1, <3>1, <3>2, PoppedBehind
  <2>4. QED BY <2>2, <2>3
<1>3. OriginInv'
  <2> SUFFICES ASSUME NEW c \in Clients, NEW i \in 1..Len(msgs'), msgs'[i] = RequestMsg(c)
               PROVE  /\ c \notin nif'.subs
                      /\ \A j \in 1..Len(msgs') : msgs'[j] = ReleaseMsg(c) => i < j
                      /\ client'[c] = "asked" \/ up = FALSE \/ Behind(i, ReleaseMsg(c))'
                           \/ Behind(i, UpMsg)'
    BY DEF OriginInv
  <2>1. i + 1 \in 1..Len(msgs) /\ msgs[i + 1] = RequestMsg(c)
    BY <1>1, PoppedBehind
  <2>2. /\ c \notin nif.subs
        /\ \A j \in 1..Len(msgs) : msgs[j] = ReleaseMsg(c) => i + 1 < j
        /\ client[c] = "asked" \/ up = FALSE \/ Behind(i + 1, ReleaseMsg(c)) \/ Behind(i + 1, UpMsg)
    BY <2>1 DEF AgreeInv, OriginInv
  <2>3. i + 1 # 1 /\ ~(i + 1 < 1)
    OBVIOUS
  <2>4. msgs[1] # RequestMsg(c)
    BY <1>1, <2>1, <2>3 DEF IInv, QueueInv
  <2>5. msgs[1] # ReleaseMsg(c)
    BY <1>1, <2>2, <2>3
  <2>6. c \notin nif'.subs
    BY <2>2, <2>4
  <2>7. ASSUME NEW j \in 1..Len(msgs'), msgs'[j] = ReleaseMsg(c) PROVE i < j
    <3>1. j + 1 \in 1..Len(msgs) /\ msgs[j + 1] = ReleaseMsg(c)
      BY <1>1, <2>7, PoppedBehind
    <3>2. i + 1 < j + 1
      BY <2>2, <3>1
    <3>3. QED BY <3>2
  <2>8. client'[c] = "asked" \/ up = FALSE \/ Behind(i, ReleaseMsg(c))' \/ Behind(i, UpMsg)'
    BY <1>1, <2>2, <2>4, <2>5, PoppedBehind
  <2>9. QED BY <2>6, <2>7, <2>8
<1>4. QED BY <1>2, <1>3

\* Handling a message keeps the service's part.
LEMMA ConnPop ==
    ASSUME IInv, AgreeInv, msgs # << >>, msgs' = Tail(msgs), conn' = conn,
           nif'.state = "ACQUIRED" =>
               \/ nif.state = "ACQUIRED" /\ msgs[1] # ClosedMsg
               \/ msgs[1] = OpenedMsg,
           nif'.state = "PENDING" =>
               \/ /\ nif.state = "PENDING" /\ requests' = requests
                  /\ msgs[1] # OpenedMsg /\ msgs[1] # FailedMsg
               \/ requests' = Append(requests, "REQUEST")
    PROVE  ConnInv' /\ PendInv'
<1>1. msgs \in Seq(Messages) /\ 1 \in 1..Len(msgs)
  <2>1. msgs \in Seq(Messages)
    BY DEF IInv, TypeOK
  <2>2. QED BY <2>1, Popped
<1>2. ConnInv'
  <2> SUFFICES ASSUME conn # "open"
               PROVE  /\ nif'.state = "ACQUIRED" => InQueue(ClosedMsg)'
                      /\ \A i \in 1..Len(msgs') : msgs'[i] = OpenedMsg => Behind(i, ClosedMsg)'
    BY DEF ConnInv
  <2>1. /\ nif.state = "ACQUIRED" => InQueue(ClosedMsg)
        /\ \A i \in 1..Len(msgs) : msgs[i] = OpenedMsg => Behind(i, ClosedMsg)
    BY DEF AgreeInv, ConnInv
  <2>2. QED BY <1>1, <2>1, PoppedBehind
<1>3. PendInv'
  <2> SUFFICES ASSUME nif'.state = "PENDING"
               PROVE  /\ requests' = << >> =>
                            conn = "opening" \/ InQueue(OpenedMsg)' \/ InQueue(FailedMsg)'
                      /\ requests' # << >> => requests'[Len(requests')] = "REQUEST"
    BY DEF PendInv
  <2>1. CASE requests' = Append(requests, "REQUEST")
    <3>1. requests \in Seq({"REQUEST", "RELEASE"})
      BY DEF IInv, TypeOK
    <3>2. QED BY <2>1, <3>1
  <2>2. CASE /\ nif.state = "PENDING" /\ requests' = requests
             /\ msgs[1] # OpenedMsg /\ msgs[1] # FailedMsg
    <3>1. /\ requests = << >> => conn = "opening" \/ InQueue(OpenedMsg) \/ InQueue(FailedMsg)
          /\ requests # << >> => requests[Len(requests)] = "REQUEST"
      BY <2>2 DEF AgreeInv, PendInv
    <3>2. QED BY <1>1, <2>2, <3>1, PoppedBehind
  <2>3. QED BY <2>1, <2>2
<1>4. QED BY <1>2, <1>3

\* Sending a message keeps the clients' part, when a request is a free handle's
\* and a client stops waiting only with its release or in a crash.
LEMMA ClientsPush ==
    ASSUME IInv, AgreeInv, NEW m \in Messages, msgs' = Append(msgs, m), nif' = nif,
           up' = up \/ m = UpMsg,
           \A c \in Clients :
               /\ m = RequestMsg(c) =>
                     c \notin nif.subs /\ ~ InQueue(ReleaseMsg(c)) /\ client'[c] = "asked"
               /\ m # ReleaseMsg(c) /\ client[c] \in {"asked", "open"} => client'[c] = client[c]
    PROVE  NoGhostSubscriber' /\ OriginInv'
<1>1. msgs \in Seq(Messages) /\ up \in BOOLEAN /\ nif.subs \subseteq Clients
  BY DEF IInv, TypeOK
<1>2. NoGhostSubscriber'
  <2> SUFFICES ASSUME NEW c \in nif.subs
               PROVE  \/ client'[c] \in {"asked", "open"}
                      \/ InQueue(ReleaseMsg(c))'
                      \/ up' = FALSE \/ InQueue(UpMsg)'
    BY DEF NoGhostSubscriber, UpMsg
  <2>1. client[c] \in {"asked", "open"} \/ InQueue(ReleaseMsg(c)) \/ up = FALSE \/ InQueue(UpMsg)
    BY <1>1 DEF AgreeInv, NoGhostSubscriber, UpMsg
  <2>2. c \in Clients
    BY <1>1
  <2>3. QED BY <1>1, <2>1, <2>2, PushedBehind
<1>3. OriginInv'
  <2> SUFFICES ASSUME NEW c \in Clients, NEW i \in 1..Len(msgs'), msgs'[i] = RequestMsg(c)
               PROVE  /\ c \notin nif.subs
                      /\ \A j \in 1..Len(msgs') : msgs'[j] = ReleaseMsg(c) => i < j
                      /\ client'[c] = "asked" \/ up' = FALSE \/ Behind(i, ReleaseMsg(c))'
                           \/ Behind(i, UpMsg)'
    BY DEF OriginInv
  <2>1. CASE m = RequestMsg(c)
    <3>1. \A j \in 1..Len(msgs) : msgs[j] # ReleaseMsg(c)
      BY <2>1 DEF InQueue
    <3>2. \A j \in 1..Len(msgs') : msgs'[j] # ReleaseMsg(c)
      BY <1>1, <2>1, <3>1, PushedBehind, MsgNames
    <3>3. QED BY <2>1, <3>2
  <2>2. CASE m # RequestMsg(c)
    <3>1. i \in 1..Len(msgs) /\ msgs[i] = RequestMsg(c)
      BY <1>1, <2>2, PushedBehind
    <3>2. /\ c \notin nif.subs
          /\ \A j \in 1..Len(msgs) : msgs[j] = ReleaseMsg(c) => i < j
          /\ client[c] = "asked" \/ up = FALSE \/ Behind(i, ReleaseMsg(c)) \/ Behind(i, UpMsg)
      BY <3>1 DEF AgreeInv, OriginInv
    <3>3. ASSUME NEW j \in 1..Len(msgs'), msgs'[j] = ReleaseMsg(c) PROVE i < j
      <4>1. CASE j \in 1..Len(msgs)
        BY <1>1, <3>2, <3>3, <4>1, PushedBehind
      <4>2. CASE j = Len(msgs) + 1
        BY <1>1, <3>1, <4>2, PushedBehind
      <4>3. QED BY <1>1, <4>1, <4>2, PushedBehind
    <3>4. client'[c] = "asked" \/ up' = FALSE \/ Behind(i, ReleaseMsg(c))' \/ Behind(i, UpMsg)'
      BY <1>1, <3>1, <3>2, PushedBehind
    <3>5. QED BY <3>2, <3>3, <3>4
  <2>3. QED BY <2>1, <2>2
<1>4. QED BY <1>2, <1>3

\* Sending a message keeps the service's part, when a connection that goes is
\* reported and one that opens or fails is too.
LEMMA ConnPush ==
    ASSUME IInv, AgreeInv, NEW m \in Messages, msgs' = Append(msgs, m), nif' = nif,
           conn' # "open" => m = ClosedMsg \/ (conn # "open" /\ m # OpenedMsg),
           \/ requests' = requests /\ (conn = "opening" => conn' = "opening" \/ m = OpenedMsg
                                                             \/ m = FailedMsg)
           \/ /\ requests # << >> /\ requests' = Tail(requests)
              /\ requests[1] = "REQUEST" => m = OpenedMsg
    PROVE  ConnInv' /\ PendInv'
<1>1. msgs \in Seq(Messages) /\ requests \in Seq({"REQUEST", "RELEASE"})
  BY DEF IInv, TypeOK
<1>2. ConnInv'
  <2> SUFFICES ASSUME conn' # "open"
               PROVE  /\ nif.state = "ACQUIRED" => InQueue(ClosedMsg)'
                      /\ \A i \in 1..Len(msgs') : msgs'[i] = OpenedMsg => Behind(i, ClosedMsg)'
    BY DEF ConnInv
  <2>1. m # OpenedMsg
    BY MsgNames
  <2>2. m = ClosedMsg \/
        /\ nif.state = "ACQUIRED" => InQueue(ClosedMsg)
        /\ \A i \in 1..Len(msgs) : msgs[i] = OpenedMsg => Behind(i, ClosedMsg)
    BY DEF AgreeInv, ConnInv
  <2>3. QED BY <1>1, <2>1, <2>2, PushedBehind
<1>3. PendInv'
  <2> SUFFICES ASSUME nif.state = "PENDING"
               PROVE  /\ requests' = << >> =>
                            conn' = "opening" \/ InQueue(OpenedMsg)' \/ InQueue(FailedMsg)'
                      /\ requests' # << >> => requests'[Len(requests')] = "REQUEST"
    BY DEF PendInv
  <2>1. /\ requests = << >> => conn = "opening" \/ InQueue(OpenedMsg) \/ InQueue(FailedMsg)
        /\ requests # << >> => requests[Len(requests)] = "REQUEST"
    BY DEF AgreeInv, PendInv
  <2>2. CASE requests' = requests /\ (conn = "opening" => conn' = "opening" \/ m = OpenedMsg
                                                           \/ m = FailedMsg)
    BY <1>1, <2>1, <2>2, PushedBehind
  <2>3. CASE /\ requests # << >> /\ requests' = Tail(requests)
             /\ requests[1] = "REQUEST" => m = OpenedMsg
    <3>1. requests' # << >> => requests'[Len(requests')] = requests[Len(requests)]
      BY <1>1, <2>3
    <3>2. requests' = << >> => requests[1] = "REQUEST"
      <4>1. requests' = << >> => Len(requests) = 1
        <5>1. Len(requests') = Len(requests) - 1 /\ Len(requests) \in Nat
          BY <1>1, <2>3
        <5>2. requests' = << >> => Len(requests') = 0
          OBVIOUS
        <5>3. QED BY <5>1, <5>2
      <4>2. QED BY <2>1, <2>3, <4>1
    <3>3. QED BY <1>1, <2>1, <2>3, <3>1, <3>2, PushedBehind
  <2>4. QED BY <2>2, <2>3
<1>4. QED BY <1>2, <1>3

\* What the events ask of the service: a REQUEST when the machine leaves
\* RELEASED, nothing as long as it stays where it is or a report moves it.
LEMMA SubscribeAsks ==
    ASSUME nif \in MachineType, MachineInv, NEW id \in Clients, Dispatch("SUBSCRIBE", id)
    PROVE  requests' = IF nif.state = "RELEASED" THEN Append(requests, "REQUEST") ELSE requests
<1>0. nif.state \in {"RELEASED", "PENDING", "ACQUIRED"}
  BY DEF MachineType, MachineInv, AgpsStates
<1>1. CASE nif.state = "RELEASED"
  <2> DEFINE m == MoveTo(addSubscriber(nif, id), "PENDING")
  <2>1. requests' = sendRsrcRequest(m, "REQUEST")
    BY <1>1 DEF Dispatch, onRsrcEvent, OnReleased, Result
  <2>2. id \in m.subs /\ m.inactive = {}
    BY DEF MoveTo, addSubscriber, MachineType, MachineInv
  <2>3. hasActiveSubscribers(m) = TRUE
    BY <2>2 DEF hasActiveSubscribers, Active
  <2> HIDE DEF m
  <2>4. QED BY <1>1, <2>1, <2>3 DEF sendRsrcRequest
<1>2. CASE nif.state = "PENDING"
  BY <1>2 DEF Dispatch, onRsrcEvent, OnPending, Result, sendRsrcRequest
<1>3. CASE nif.state = "ACQUIRED"
  BY <1>3 DEF Dispatch, onRsrcEvent, OnAcquired, Result, sendRsrcRequest
<1>4. QED BY <1>0, <1>1, <1>2, <1>3

(* Nothing is asked of the service while somebody remains subscribed. *)
LEMMA UnsubscribeAsks ==
    ASSUME nif \in MachineType, MachineInv, NEW id \in nif.subs, Dispatch("UNSUBSCRIBE", id),
           nif.subs \ {id} # {}
    PROVE  requests' = requests
<1> DEFINE u == Deleted(nif, {id})
<1>0. nif.state \in {"PENDING", "ACQUIRED"}
  BY DEF MachineType, MachineInv, AgpsStates, ReleasedHasNoSubscribers, hasSubscribers
<1>1. u.subs = nif.subs \ {id} /\ u.inactive = {}
  BY DEF MachineType, MachineInv, Deleted
<1>2. PICK told : requests' = sendRsrcRequest(AfterUnsubscribe(u, told).machine,
                                              AfterUnsubscribe(u, told).request)
  BY <1>0 DEF Dispatch, onRsrcEvent, OnPending, OnAcquired, Unsubscribed
<1>3. AfterUnsubscribe(u, told) = Result(u, told, "none")
  BY <1>1 DEF AfterUnsubscribe, hasSubscribers, hasActiveSubscribers, Active
<1>4. QED BY <1>2, <1>3 DEF Result, sendRsrcRequest

(* A report of the service asks nothing of it. *)
LEMMA ReportAsks ==
    ASSUME nif \in MachineType, MachineInv, NEW event \in RsrcReports, NEW id,
           Dispatch(event, id)
    PROVE  requests' = requests
<1>0. nif.state \in {"RELEASED", "PENDING", "ACQUIRED"}
  BY DEF MachineType, MachineInv, AgpsStates
<1>1. onRsrcEvent(nif, event, id, FALSE, TRUE).request = "none"
  BY <1>0 DEF RsrcReports, onRsrcEvent, OnReleased, OnPending, OnAcquired,
     NotifyAllAndDelete, Result
<1>2. QED BY <1>1 DEF Dispatch, sendRsrcRequest

\* The steps of the message thread.
LEMMA ThreadAgrees ==
    ASSUME IInv, AgreeInv, MsgThread
    PROVE  AgreeInv'
<1>1. /\ msgs \in Seq(Messages) /\ nif \in MachineType /\ MachineInv
      /\ client \in [Clients -> ClientStates] /\ nif.subs \subseteq Clients
      /\ nif.state \in AgpsStates
  BY DEF IInv, TypeOK, MachineType
<1>2. CASE subscribeRsrc
  <2>1. Next_Msg("Request") /\ Dispatch("SUBSCRIBE", Head(msgs).id) /\ UNCHANGED <<conn, up>>
    BY <1>2 DEF subscribeRsrc
  <2>2. PICK c \in Clients : Head(msgs).id = c /\ msgs[1] = RequestMsg(c)
    BY <1>1, <2>1, HeadIs
  <2>3. msgs # << >> /\ msgs' = Tail(msgs)
    BY <1>1, <2>1, HeadIs
  <2>4. /\ nif'.subs = nif.subs \cup {c}
        /\ nif'.state = IF nif.state = "RELEASED" THEN "PENDING" ELSE nif.state
        /\ client' = Informed(IF nif.state = "ACQUIRED" THEN {<<c, "GRANTED">>} ELSE {})
        /\ requests' = IF nif.state = "RELEASED" THEN Append(requests, "REQUEST") ELSE requests
    BY <1>1, <2>1, <2>2, SubscribeEffect, SubscribeAsks
  <2>5. \A d \in Clients : client'[d] = client[d] \/ (d = c /\ client[d] = "asked" /\ client'[d] = "open")
    BY <2>4 DEF Informed
  <2>6. /\ \A d : msgs[1] = RequestMsg(d) => d = c
        /\ \A d : msgs[1] # ReleaseMsg(d)
        /\ msgs[1] # UpMsg /\ msgs[1] # OpenedMsg /\ msgs[1] # ClosedMsg /\ msgs[1] # FailedMsg
    BY <2>2, MsgNames
  <2>7. NoGhostSubscriber' /\ OriginInv'
    BY <1>1, <2>1, <2>2, <2>3, <2>4, <2>5, <2>6, ClientsPop
  <2>8. ConnInv' /\ PendInv'
    BY <2>1, <2>3, <2>4, <2>6, ConnPop
  <2>9. QED BY <2>7, <2>8 DEF AgreeInv
<1>3. CASE unsubscribeRsrc
  <2>1. Next_Msg("Release") /\ Dispatch("UNSUBSCRIBE", Head(msgs).id) /\ UNCHANGED <<conn, up>>
        /\ Head(msgs).id \in nif.subs
    BY <1>3 DEF unsubscribeRsrc
  <2>2. PICK c \in Clients : Head(msgs).id = c /\ msgs[1] = ReleaseMsg(c)
    BY <1>1, <2>1, HeadIs
  <2>3. msgs # << >> /\ msgs' = Tail(msgs)
    BY <1>1, <2>1, HeadIs
  <2>4. /\ nif'.subs = nif.subs \ {c}
        /\ nif'.state = IF nif.subs \ {c} = {} THEN "RELEASED" ELSE nif.state
        /\ client' = Informed({<<c, "UNSUBSCRIBE">>})
        /\ nif.subs \ {c} # {} => requests' = requests
    BY <1>1, <2>1, <2>2, UnsubscribeEffect, UnsubscribeAsks
  <2>5. \A d \in Clients : d # c => client'[d] = client[d]
    BY <2>4 DEF Informed
  <2>6. /\ \A d : msgs[1] = ReleaseMsg(d) => d = c
        /\ \A d : msgs[1] # RequestMsg(d)
        /\ msgs[1] # UpMsg /\ msgs[1] # OpenedMsg /\ msgs[1] # ClosedMsg /\ msgs[1] # FailedMsg
    BY <2>2, MsgNames
  <2>7. NoGhostSubscriber' /\ OriginInv'
    BY <1>1, <2>1, <2>2, <2>3, <2>4, <2>5, <2>6, ClientsPop
  <2>8. ConnInv' /\ PendInv'
    BY <2>1, <2>3, <2>4, <2>6, ConnPop
  <2>9. QED BY <2>7, <2>8 DEF AgreeInv
<1>4. CASE unsubscribeNotFound
  <2>1. Next_Msg("Release") /\ UNCHANGED <<nif, requests, conn, up>> /\ Head(msgs).id \notin nif.subs
        /\ client' = IF Head(msgs).id \in AtlClients
                     THEN [client EXCEPT ![Head(msgs).id] = "idle"] ELSE client
    BY <1>4 DEF unsubscribeNotFound
  <2>2. PICK c \in Clients : Head(msgs).id = c /\ msgs[1] = ReleaseMsg(c)
    BY <1>1, <2>1, HeadIs
  <2>3. msgs # << >> /\ msgs' = Tail(msgs)
    BY <1>1, <2>1, HeadIs
  <2>5. \A d \in Clients : d # c => client'[d] = client[d]
    BY <1>1, <2>1, <2>2
  <2>6. /\ \A d : msgs[1] = ReleaseMsg(d) => d = c
        /\ msgs[1] # UpMsg /\ msgs[1] # OpenedMsg /\ msgs[1] # ClosedMsg /\ msgs[1] # FailedMsg
    BY <2>2, MsgNames
  <2>7. NoGhostSubscriber' /\ OriginInv'
    BY <1>1, <2>1, <2>2, <2>3, <2>5, <2>6, ClientsPop
  <2>8. ConnInv' /\ PendInv'
    BY <2>1, <2>3, <2>6, ConnPop
  <2>9. QED BY <2>7, <2>8 DEF AgreeInv
<1>5. CASE LocEngAtlOpenSuccess \/ LocEngAtlClosed \/ LocEngAtlOpenFailed
  <2>1. PICK event \in RsrcReports :
           /\ Dispatch(event, "nobody") /\ UNCHANGED <<conn, up>>
           /\ event = "GRANTED" => Next_Msg("AtlOpenSuccess")
           /\ event = "RELEASED" => Next_Msg("AtlClosed")
           /\ event = "DENIED" => Next_Msg("AtlOpenFailed")
    BY <1>5 DEF LocEngAtlOpenSuccess, LocEngAtlClosed, LocEngAtlOpenFailed, RsrcReports
  <2>2. /\ event = "GRANTED" => msgs[1] = OpenedMsg
        /\ event = "RELEASED" => msgs[1] = ClosedMsg
        /\ event = "DENIED" => msgs[1] = FailedMsg
    BY <1>1, <2>1, HeadIs
  <2>3. msgs # << >> /\ msgs' = Tail(msgs)
    BY <1>1, <2>1, HeadIs DEF RsrcReports
  <2>4. msgs[1] \in {OpenedMsg, ClosedMsg, FailedMsg}
    BY <2>2 DEF RsrcReports
  <2>5. /\ \A d : msgs[1] # ReleaseMsg(d) /\ msgs[1] # RequestMsg(d)
        /\ msgs[1] # UpMsg
        /\ event # "GRANTED" => msgs[1] # OpenedMsg
        /\ event # "RELEASED" => msgs[1] # ClosedMsg
        /\ event # "DENIED" => msgs[1] # FailedMsg
    BY <2>2, <2>4, MsgNames DEF RsrcReports
  <2>6. requests' = requests
    BY <1>1, <2>1, ReportAsks
  <2>7. CASE /\ event = "GRANTED" /\ nif.state = "PENDING"
             /\ nif'.subs = nif.subs /\ nif'.state = "ACQUIRED"
             /\ client' = Informed(nif.subs \X {"GRANTED"})
    <3>1. \A d \in Clients : \/ client'[d] = client[d]
                             \/ d \in nif.subs /\ client[d] = "asked" /\ client'[d] = "open"
      BY <2>7 DEF Informed
    <3>2. NoGhostSubscriber' /\ OriginInv'
      BY <1>1, <2>1, <2>3, <2>5, <2>7, <3>1, ClientsPop
    <3>3. ConnInv' /\ PendInv'
      BY <2>1, <2>2, <2>3, <2>7, ConnPop
    <3>4. QED BY <3>2, <3>3 DEF AgreeInv
  <2>8. CASE /\ nif'.subs = {} /\ nif'.state = "RELEASED"
             /\ client' = Informed(nif.subs \X {event})
    <3>1. \A d \in Clients : d \in nif.subs \/ client'[d] = client[d]
      BY <2>8 DEF Informed
    <3>2. NoGhostSubscriber' /\ OriginInv'
      BY <1>1, <2>1, <2>3, <2>8, <3>1, ClientsPop
    <3>3. ConnInv' /\ PendInv'
      BY <2>1, <2>3, <2>8, ConnPop
    <3>4. QED BY <3>2, <3>3 DEF AgreeInv
  <2>9. CASE /\ \/ event = "GRANTED" /\ nif.state # "PENDING"
                \/ event = "DENIED" /\ nif.state # "PENDING"
                \/ event = "RELEASED" /\ nif.state # "ACQUIRED"
             /\ nif' = nif
             /\ client' = Informed({})
    <3>1. client' = client
      BY <1>1, <2>9 DEF Informed
    <3>2. NoGhostSubscriber' /\ OriginInv'
      BY <1>1, <2>1, <2>3, <2>5, <2>9, <3>1, ClientsPop
    <3>3. ConnInv' /\ PendInv'
      BY <2>1, <2>3, <2>5, <2>6, <2>9, ConnPop
    <3>4. QED BY <3>2, <3>3 DEF AgreeInv
  <2>10. QED BY <1>1, <2>1, <2>7, <2>8, <2>9, ReportEffect
<1>6. CASE LocEngUp
  <2>1. Next_Msg("LocEngUp") /\ UNCHANGED <<requests, conn, client, up>>
        /\ nif' = [nif EXCEPT !.subs = {}, !.inactive = {}]
    BY <1>6 DEF LocEngUp
  <2>2. msgs # << >> /\ msgs' = Tail(msgs) /\ msgs[1] = UpMsg
    BY <1>1, <2>1, HeadIs
  <2>3. nif'.subs = {} /\ nif'.state = nif.state
    BY <1>1, <2>1 DEF MachineType
  <2>4. msgs[1] # OpenedMsg /\ msgs[1] # ClosedMsg /\ msgs[1] # FailedMsg
    BY <2>2, MsgNames
  <2>5. NoGhostSubscriber' /\ OriginInv'
    BY <1>1, <2>1, <2>2, <2>3, ClientsPop
  <2>6. ConnInv' /\ PendInv'
    BY <2>1, <2>2, <2>3, <2>4, ConnPop
  <2>7. QED BY <2>5, <2>6 DEF AgreeInv
<1>7. QED BY <1>2, <1>3, <1>4, <1>5, <1>6 DEF MsgThread

\* The messages the clients, the service and the modem send.
LEMMA MsgsSent ==
    /\ \A c \in Clients : RequestMsg(c) \in Messages /\ ReleaseMsg(c) \in Messages
    /\ {UpMsg, OpenedMsg, ClosedMsg, FailedMsg} \subseteq Messages
BY DEF RequestMsg, ReleaseMsg, UpMsg, OpenedMsg, ClosedMsg, FailedMsg, Messages, ClientMsgs,
   ServiceMsgs, EngineMsgs

\* The steps of the clients, the modem and the service.
LEMMA OthersAgree ==
    ASSUME IInv, AgreeInv,
           \/ \E c \in Clients : Request(c) \/ Release(c)
           \/ Service \/ loc_eng_agps_closed \/ ModemDown \/ ModemUp \/ UNCHANGED vars
    PROVE  AgreeInv'
<1>1. /\ msgs \in Seq(Messages) /\ client \in [Clients -> ClientStates]
      /\ requests \in Seq({"REQUEST", "RELEASE"}) /\ conn \in ConnStates /\ up \in BOOLEAN
  BY DEF IInv, TypeOK
<1>2. ASSUME NEW c \in Clients, Request(c) PROVE AgreeInv'
  <2>1. /\ client[c] = "idle" /\ c \notin nif.subs /\ ~ InQueue(ReleaseMsg(c))
        /\ client' = [client EXCEPT ![c] = "asked"] /\ msgs' = Append(msgs, RequestMsg(c))
        /\ UNCHANGED <<nif, requests, conn, up>>
    BY <1>2 DEF Request, HandleFree
  <2>2. client'[c] = "asked" /\ \A d \in Clients \ {c} : client'[d] = client[d]
    BY <1>1, <2>1
  <2>3. NoGhostSubscriber' /\ OriginInv'
    BY <2>1, <2>2, MsgsSent, MsgNames, ClientsPush
  <2>4. ConnInv' /\ PendInv'
    BY <2>1, MsgsSent, MsgNames, ConnPush
  <2>5. QED BY <2>3, <2>4 DEF AgreeInv
<1>3. ASSUME NEW c \in Clients, Release(c) PROVE AgreeInv'
  <2>1. /\ client' = [client EXCEPT ![c] = "closing"] /\ msgs' = Append(msgs, ReleaseMsg(c))
        /\ UNCHANGED <<nif, requests, conn, up>>
    BY <1>3 DEF Release
  <2>2. \A d \in Clients \ {c} : client'[d] = client[d]
    BY <1>1, <2>1
  <2>3. NoGhostSubscriber' /\ OriginInv'
    BY <2>1, <2>2, MsgsSent, MsgNames, ClientsPush
  <2>4. ConnInv' /\ PendInv'
    BY <2>1, MsgsSent, MsgNames, ConnPush
  <2>5. QED BY <2>3, <2>4 DEF AgreeInv
<1>4. ASSUME NEW m \in {OpenedMsg, ClosedMsg, FailedMsg}, msgs' = Append(msgs, m),
             UNCHANGED <<nif, client, up>>
      PROVE  NoGhostSubscriber' /\ OriginInv'
  BY <1>4, MsgsSent, MsgNames, ClientsPush
<1>5. CASE ServiceRequest
  <2>1. /\ requests # << >> /\ requests[1] = "REQUEST" /\ requests' = Tail(requests)
        /\ conn = "open" => conn' = "open" /\ msgs' = Append(msgs, OpenedMsg)
        /\ conn # "open" => conn' = "opening" /\ UNCHANGED msgs
        /\ UNCHANGED <<nif, client, up>>
    BY <1>1, <1>5 DEF ServiceRequest, Report, OpenedMsg
  <2>2. CASE conn = "open"
    <3>1. ConnInv' /\ PendInv'
      BY <2>1, <2>2, MsgsSent, ConnPush
    <3>2. QED BY <1>4, <2>1, <2>2, <3>1 DEF AgreeInv
  <2>3. CASE conn # "open"
    <3>1. NoGhostSubscriber' /\ OriginInv' /\ ConnInv'
      BY <2>1, <2>3 DEF AgreeInv, NoGhostSubscriber, OriginInv, ConnInv, InQueue, Behind, UpMsg,
         ReleaseMsg, RequestMsg, OpenedMsg, ClosedMsg
    <3>2. PendInv'
      <4> SUFFICES ASSUME nif.state = "PENDING", requests' # << >>
                   PROVE  requests'[Len(requests')] = "REQUEST"
        BY <2>1, <2>3 DEF PendInv
      <4>1. requests[Len(requests)] = "REQUEST"
        BY <2>1 DEF AgreeInv, PendInv
      <4>2. requests'[Len(requests')] = requests[Len(requests)]
        BY <1>1, <2>1
      <4>3. QED BY <4>1, <4>2
    <3>3. QED BY <3>1, <3>2 DEF AgreeInv
  <2>4. QED BY <2>2, <2>3
<1>6. CASE ServiceRelease
  <2>1. /\ requests # << >> /\ requests[1] = "RELEASE" /\ requests' = Tail(requests)
        /\ conn' = "closed"
        /\ conn # "closed" => msgs' = Append(msgs, ClosedMsg)
        /\ conn = "closed" => UNCHANGED msgs
        /\ UNCHANGED <<nif, client, up>>
    BY <1>1, <1>6 DEF ServiceRelease, Report, ClosedMsg
  <2>2. CASE conn # "closed"
    <3>1. ConnInv' /\ PendInv'
      BY <2>1, <2>2, MsgsSent, ConnPush
    <3>2. QED BY <1>4, <2>1, <2>2, <3>1 DEF AgreeInv
  <2>3. CASE conn = "closed"
    <3>1. NoGhostSubscriber' /\ OriginInv' /\ ConnInv'
      BY <2>1, <2>3 DEF AgreeInv, NoGhostSubscriber, OriginInv, ConnInv, InQueue, Behind, UpMsg,
         ReleaseMsg, RequestMsg, OpenedMsg, ClosedMsg
    <3>2. PendInv'
      <4> SUFFICES ASSUME nif.state = "PENDING"
                   PROVE  requests' # << >> /\ requests'[Len(requests')] = "REQUEST"
        BY <2>1, <2>3 DEF PendInv
      <4>1. requests[Len(requests)] = "REQUEST"
        BY <2>1 DEF AgreeInv, PendInv
      <4>2. Len(requests) \in Nat /\ Len(requests) # 1 /\ Len(requests) # 0
        BY <1>1, <2>1, <4>1
      <4>3. Len(requests') = Len(requests) - 1
        BY <1>1, <2>1
      <4>4. requests' # << >>
        <5>1. Len(requests') # 0
          BY <4>2, <4>3
        <5>2. QED BY <5>1
      <4>5. requests'[Len(requests')] = requests[Len(requests)]
        BY <1>1, <2>1, <4>4
      <4>6. QED BY <4>1, <4>4, <4>5
    <3>3. QED BY <3>1, <3>2 DEF AgreeInv
  <2>4. QED BY <2>2, <2>3
<1>7. CASE loc_eng_agps_open
  <2>1. conn' = "open" /\ msgs' = Append(msgs, OpenedMsg) /\ UNCHANGED <<nif, requests, client, up>>
    BY <1>7 DEF loc_eng_agps_open, Report, OpenedMsg
  <2>2. ConnInv' /\ PendInv'
    BY <2>1, MsgsSent, ConnPush
  <2>3. QED BY <1>4, <2>1, <2>2 DEF AgreeInv
<1>8. CASE loc_eng_agps_open_failed
  <2>1. /\ conn = "opening" /\ conn' = "closed" /\ msgs' = Append(msgs, FailedMsg)
        /\ UNCHANGED <<nif, requests, client, up>>
    BY <1>8 DEF loc_eng_agps_open_failed, Report, FailedMsg
  <2>2. ConnInv' /\ PendInv'
    BY <2>1, MsgsSent, MsgNames, ConnPush
  <2>3. QED BY <1>4, <2>1, <2>2 DEF AgreeInv
<1>9. CASE loc_eng_agps_closed
  <2>1. /\ conn = "open" /\ conn' = "closed" /\ msgs' = Append(msgs, ClosedMsg)
        /\ UNCHANGED <<nif, requests, client, up>>
    BY <1>9 DEF loc_eng_agps_closed, Report, ClosedMsg
  <2>2. ConnInv' /\ PendInv'
    BY <2>1, MsgsSent, ConnPush
  <2>3. QED BY <1>4, <2>1, <2>2 DEF AgreeInv
<1>10. CASE ModemDown
  <2>1. up' = FALSE /\ UNCHANGED <<nif, msgs, requests, conn>>
    BY <1>10 DEF ModemDown
  <2>2. NoGhostSubscriber'
    BY <2>1 DEF NoGhostSubscriber
  <2>3. OriginInv' /\ ConnInv' /\ PendInv'
    BY <2>1 DEF AgreeInv, OriginInv, ConnInv, PendInv, InQueue, Behind, UpMsg, ReleaseMsg,
       RequestMsg, OpenedMsg, ClosedMsg, FailedMsg
  <2>4. QED BY <2>2, <2>3 DEF AgreeInv
<1>11. CASE ModemUp
  <2>1. msgs' = Append(msgs, UpMsg) /\ UNCHANGED <<nif, requests, conn, client>>
    BY <1>11 DEF ModemUp, Report, UpMsg
  <2>2. NoGhostSubscriber' /\ OriginInv'
    BY <2>1, MsgsSent, MsgNames, ClientsPush
  <2>3. ConnInv' /\ PendInv'
    BY <2>1, MsgsSent, MsgNames, ConnPush
  <2>4. QED BY <2>2, <2>3 DEF AgreeInv
<1>12. CASE UNCHANGED vars
  <2>1. UNCHANGED <<nif, msgs, requests, conn, client, up>>
    BY <1>12 DEF vars
  <2>2. NoGhostSubscriber' /\ OriginInv'
    BY <2>1 DEF AgreeInv, NoGhostSubscriber, OriginInv, InQueue, Behind, UpMsg, ReleaseMsg, RequestMsg
  <2>3. ConnInv' /\ PendInv'
    BY <2>1 DEF AgreeInv, ConnInv, PendInv, InQueue, Behind, OpenedMsg, ClosedMsg, FailedMsg
  <2>4. QED BY <2>2, <2>3 DEF AgreeInv
<1>13. QED
  BY <1>2, <1>3, <1>5, <1>6, <1>7, <1>8, <1>9, <1>10, <1>11, <1>12 DEF Service

\* The machine agrees with its clients and with the service: whatever stale
\* reports, releases and restarts come between, no subscriber has gone, an
\* ACQUIRED machine has a connection behind it once the reports are handled,
\* and a PENDING one has its answer to come.
THEOREM TheMachineAgrees == Spec => []MachineAgrees
<1>1. Init => AgreeInv
  <2> SUFFICES ASSUME Init PROVE AgreeInv
    OBVIOUS
  <2>1. nif.subs = {} /\ nif.state = "RELEASED" /\ 1..Len(msgs) = {}
    BY DEF Init, NewMachine
  <2>2. QED
    BY <2>1 DEF AgreeInv, NoGhostSubscriber, OriginInv, ConnInv, PendInv
<1>2. IInv /\ AgreeInv /\ [Next]_vars => AgreeInv'
  BY ThreadAgrees, OthersAgree DEF Next
<1>3. IInv /\ AgreeInv => MachineAgrees
  <2> SUFFICES ASSUME IInv, AgreeInv PROVE MachineAgrees
    OBVIOUS
  <2>1. AcquiredIsConnected
    <3>1. ClosedMsg \in ServiceMsgs
      BY DEF ClosedMsg, ServiceMsgs
    <3>2. QED
      BY <3>1 DEF AcquiredIsConnected, ReportQueued, AgreeInv, ConnInv, InQueue
  <2>2. PendingIsAnswered
    <3> SUFFICES ASSUME nif.state = "PENDING", requests # << >>
                 PROVE  \E i \in 1..Len(requests) : requests[i] = "REQUEST"
      BY DEF PendingIsAnswered, AgreeInv, PendInv, OpenedMsg, FailedMsg
    <3>1. requests[Len(requests)] = "REQUEST"
      BY DEF AgreeInv, PendInv
    <3>2. Len(requests) \in 1..Len(requests)
      BY DEF IInv, TypeOK
    <3>3. QED BY <3>1, <3>2
  <2>3. QED BY <2>1, <2>2 DEF MachineAgrees, AgreeInv
<1>4. QED BY <1>1, <1>2, <1>3, IInvHolds, PTL DEF Spec
=============================================================================
