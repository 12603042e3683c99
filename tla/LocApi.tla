------------------------------- MODULE LocApi --------------------------------
(***************************************************************************)
(* The contexts of the process (ContextBase, LocDualContext), the LocApi   *)
(* that each of them owns with its table of adapters and its event mask    *)
(* (LocApiBase), and the adapters (LocAdapterBase, LocAdapterProxyBase).   *)
(*                                                                         *)
(* Adapters are added and removed by the constructors and destructors of   *)
(* clients, and the changes of the mask are messages of the one message    *)
(* task that both contexts share.  Reports and requests of the modem reach *)
(* the adapters through the table.                                         *)
(***************************************************************************)
EXTENDS Naturals, Sequences, SequencesExt, FiniteSets

CONSTANTS
    Adapters,      \* the adapters clients may make
    Events,        \* the bits of an event mask
    ContextsOf,    \* adapter -> the contexts it may be made with
    EvtMask,       \* adapter -> the mask it is made with
    BgExclMask,    \* LocDualContext::mBgExclMask
    Toggled,       \* the events that clients turn on and off
    ApiRequests,      \* what the modem asks of the first adapter that answers
    Takes,         \* adapter -> the requests whose method returns true
    Platforms,     \* what the platform may offer: [mpq, lbs, v02, rpc]
    MAX_ADAPTERS,  \* slots of the table
    MaxMsgs        \* bound: messages that wait in the task

ASSUME LocApiAssumption ==
    /\ MAX_ADAPTERS \in Nat \ {0} /\ MaxMsgs \in Nat
    /\ EvtMask \in [Adapters -> SUBSET Events] /\ {BgExclMask, Toggled} \subseteq SUBSET Events
    /\ Takes \in [Adapters -> SUBSET ApiRequests]
    /\ "report" \notin ApiRequests /\ "closed" \notin Events /\ "NULL" \notin Adapters

Contexts == {"fg", "bg"}
Slots == 1 .. MAX_ADAPTERS
NoAdapter == "NULL"
NoContext == "NULL"

VARIABLES
    aApi,       \* context -> the class of its LocApi, "none" before it is made
    aInject,    \* mInjectContext
    aInjected,  \* the context of the last call of LBSProxy::injectFeatureConfig
    aTable,     \* context -> mLocAdapters
    aMask,      \* adapter -> mEvtMask, while it lives
    aHome,      \* history: adapter -> the context whose table it was put in
    aMsgs,      \* the messages that wait in the shared task
    aOpened,    \* context -> the events registered with the modem, {"closed"} if none
    aDown,      \* the contexts whose modem is down
    aTold       \* the report or request of the last step and the adapters it was given to

aVars == <<aApi, aInject, aInjected, aTable, aMask, aHome, aMsgs, aOpened, aDown, aTold>>
aContext == <<aApi, aInject, aInjected, aDown>>

Closed == {"closed"}

-----------------------------------------------------------------------------
Nothing == [what |-> "nothing", by |-> NoContext, to |-> <<>>]

LocApiInit ==
    /\ aApi = [c \in Contexts |-> "none"]
    /\ aInject = NoContext /\ aInjected = NoContext
    /\ aTable = [c \in Contexts |-> [i \in Slots |-> NoAdapter]]
    /\ aMask = [a \in Adapters |-> {}]
    /\ aHome = [a \in Adapters |-> NoContext]
    /\ aMsgs = <<>>
    /\ aOpened = [c \in Contexts |-> Closed]
    /\ aDown = {}
    /\ aTold = Nothing

ExcludedMask(c) == IF c = "bg" THEN BgExclMask ELSE {}

(* The slots a loop over the table visits: those before the first NULL. *)
Visited(table) ==
    {i \in Slots : \A j \in 1 .. i : table[j] # NoAdapter}

getEvtMask(table, mask, c) ==
    (UNION {mask[table[i]] : i \in Visited(table)}) \ ExcludedMask(c)

(* ContextBase::createLocApi, by what the platform offers: no modem at all *)
(* (MPQ), a LocApi of the LBS library, libloc_api_v02.so with or without a *)
(* getter, the RPC library.  The RPC library is not tried when the first   *)
(* library is there without a getter.                                      *)
createLocApi(p) ==
    CASE p.mpq -> "base"
      [] ~p.mpq /\ p.lbs -> "lbs"
      [] ~p.mpq /\ ~p.lbs /\ p.v02 # "absent" -> IF p.v02 = "getter" THEN "v02" ELSE "base"
      [] OTHER -> IF p.rpc THEN "rpc" ELSE "base"

(* getLocFgContext and getLocBgContext, under mGetLocContextMutex.  The    *)
(* context that is made first is the one features are injected through.    *)
getLocContext(c) ==
    /\ aApi[c] = "none"
    /\ \E p \in Platforms :
          /\ \A d \in Contexts : aApi[d] \in {"none", createLocApi(p)}
          /\ aApi' = [aApi EXCEPT ![c] = createLocApi(p)]
    /\ IF aInject = NoContext
       THEN aInject' = c /\ aInjected' = c
       ELSE UNCHANGED <<aInject, aInjected>>
    /\ aTold' = Nothing
    /\ UNCHANGED <<aTable, aMask, aHome, aMsgs, aOpened, aDown>>

(* The injection without the comparison. *)
InjectAnywhere(c) == aInjected' = c

(* injectFeatureConfig does nothing for the other context. *)
injectFeatureConfig(c) ==
    aInjected' = IF c = aInject THEN c ELSE aInjected

-----------------------------------------------------------------------------
(* Adapters. *)

sendMsg(m) == Len(aMsgs) < MaxMsgs /\ aMsgs' = Append(aMsgs, m)

OpenMsg(c, mask) == [kind |-> "LocOpenMsg", api |-> c, mask |-> mask]

(* LocAdapterBase's constructor: addAdapter puts the adapter in the first  *)
(* free slot and asks for its own events.  An adapter that finds the table *)
(* full is left out, and nobody is told.                                   *)
addAdapter(c, a) ==
    /\ aApi[c] # "none" /\ aHome[a] = NoContext /\ c \in ContextsOf[a]
    /\ aMask' = [aMask EXCEPT ![a] = EvtMask[a]]
    /\ LET free == {i \in Slots : aTable[c][i] = NoAdapter} IN
          IF free = {}
          THEN UNCHANGED <<aTable, aHome, aMsgs>>
          ELSE /\ aTable' = [aTable EXCEPT ![c][Min(free)] = a]
               /\ aHome' = [aHome EXCEPT ![a] = c]
               /\ sendMsg(OpenMsg(c, EvtMask[a]))
    /\ aTold' = Nothing
    /\ UNCHANGED <<aContext, aOpened>>

(* The removal that forgets to clear the last slot. *)
RemovedTwice(table, j) == [table EXCEPT ![j] = table[Max(Visited(table))]]

(* The removal that leaves a hole. *)
RemovedInPlace(table, j) == [table EXCEPT ![j] = NoAdapter]

(* The table without the adapter of slot j: the last adapter takes its     *)
(* place.                                                                  *)
Removed(table, j) ==
    LET last == Max(Visited(table))
    IN  [table EXCEPT ![j] = table[last], ![last] = NoAdapter]

(* LocAdapterBase's destructor: removeAdapter.  The API is closed at once  *)
(* when the table is empty, else a message asks for the events that are    *)
(* left.                                                                   *)
removeAdapter(a) ==
    LET c == aHome[a] IN
    /\ c # NoContext
    /\ \E j \in Visited(aTable[c]) :
          /\ aTable[c][j] = a
          /\ aTable' = [aTable EXCEPT ![c] = Removed(@, j)]
    /\ aHome' = [aHome EXCEPT ![a] = NoContext]
    /\ aMask' = [aMask EXCEPT ![a] = {}]
    /\ IF aTable'[c][1] = NoAdapter
       THEN aOpened' = [aOpened EXCEPT ![c] = Closed] /\ UNCHANGED aMsgs
       ELSE sendMsg(OpenMsg(c, getEvtMask(aTable'[c], aMask, c))) /\ UNCHANGED aOpened
    /\ aTold' = Nothing
    /\ UNCHANGED <<aContext>>

(* The update that sends the mask of before. *)
UpdateTooLate(a, event) ==
    LET c == aHome[a] IN
    /\ c # NoContext
    /\ \/ aMask' = [aMask EXCEPT ![a] = @ \cup {event}]
       \/ aMask' = [aMask EXCEPT ![a] = @ \ {event}]
    /\ sendMsg(OpenMsg(c, getEvtMask(aTable[c], aMask, c)))
    /\ aTold' = Nothing
    /\ UNCHANGED <<aContext, aTable, aHome, aOpened>>

(* LocAdapterBase::updateEvtMask: an event is turned on or off and the     *)
(* mask of all adapters is sent.                                           *)
updateEvtMask(a, event) ==
    LET c == aHome[a] IN
    /\ c # NoContext
    /\ \/ aMask' = [aMask EXCEPT ![a] = @ \cup {event}]
       \/ aMask' = [aMask EXCEPT ![a] = @ \ {event}]
    /\ sendMsg(OpenMsg(c, getEvtMask(aTable[c], aMask', c)))
    /\ aTold' = Nothing
    /\ UNCHANGED <<aContext, aTable, aHome, aOpened>>

-----------------------------------------------------------------------------
(* The open that leaves the mark of a closed handle. *)
OpenStaysClosed(opened, c, mask) ==
    IF aApi[c] = "base" \/ c \in aDown THEN opened
    ELSE [opened EXCEPT ![c] = @ \cup (mask \ ExcludedMask(c))]

(* open(mask) of a LocApi with a modem behind it (not in this repository)  *)
(* adds the mask to what is registered: addAdapter relies on it, as it     *)
(* sends the mask of the new adapter alone.  LocApiBase's own open does    *)
(* nothing, and a modem that is down registers nothing.                    *)
open(opened, c, mask) ==
    IF aApi[c] = "base" \/ c \in aDown THEN opened
    ELSE [opened EXCEPT ![c] = (@ \ Closed) \cup (mask \ ExcludedMask(c))]

(* LocOpenMsg::proc and LocSsrMsg::proc, which takes the mask of the time  *)
(* when it is handled.                                                     *)
MsgProc ==
    /\ aMsgs # <<>>
    /\ aMsgs' = Tail(aMsgs)
    /\ LET m == Head(aMsgs) IN
          aOpened' = IF m.kind = "LocOpenMsg"
                     THEN open(aOpened, m.api, m.mask)
                     ELSE open([aOpened EXCEPT ![m.api] = Closed], m.api,
                               getEvtMask(aTable[m.api], aMask, m.api))
    /\ aTold' = Nothing
    /\ UNCHANGED <<aContext, aTable, aMask, aHome>>

-----------------------------------------------------------------------------
(* The modem's side: calls of the library that a LocApi belongs to. *)

HasModem(c) == aApi[c] \notin {"none", "base"}

(* TO_ALL_LOCADAPTERS. *)
TO_ALL(c) == LET n == Cardinality(Visited(aTable[c])) IN SubSeq(aTable[c], 1, n)

(* The loop that stops at an adapter that declines. *)
StopsAtFirst(c, r) == LET all == TO_ALL(c) IN IF all = <<>> THEN all ELSE <<all[1]>>

(* TO_1ST_HANDLING_LOCADAPTERS: in turn, until a call returns true. *)
TO_1ST_HANDLING(c, r) ==
    LET all == TO_ALL(c)
        takers == {i \in DOMAIN all : r \in Takes[all[i]]}
    IN  IF takers = {} THEN all ELSE SubSeq(all, 1, Min(takers))

(* handleEngineUpEvent queues the renewal of the handle, injects features  *)
(* and tells the adapters.                                                 *)
handleEngineUpEvent(c) ==
    /\ c \in aDown
    /\ aDown' = aDown \ {c}
    /\ sendMsg([kind |-> "LocSsrMsg", api |-> c])
    /\ injectFeatureConfig(c)
    /\ aTold' = [what |-> "report", by |-> c, to |-> TO_ALL(c)]
    /\ UNCHANGED <<aApi, aInject, aTable, aMask, aHome, aOpened>>

(* A restart of the modem: its registrations are gone, and the adapters    *)
(* are told (handleEngineDownEvent).                                       *)
handleEngineDownEvent(c) ==
    /\ HasModem(c) /\ c \notin aDown
    /\ aDown' = aDown \cup {c}
    /\ aOpened' = [aOpened EXCEPT ![c] = Closed]
    /\ aTold' = [what |-> "report", by |-> c, to |-> TO_ALL(c)]
    /\ UNCHANGED <<aApi, aInject, aInjected, aTable, aMask, aHome, aMsgs>>

(* reportPosition, reportSv, reportStatus, reportNmea and                  *)
(* reportGnssMeasurementData.                                              *)
report(c) ==
    /\ HasModem(c) /\ c \notin aDown
    /\ aTold' = [what |-> "report", by |-> c, to |-> TO_ALL(c)]
    /\ UNCHANGED <<aContext, aTable, aMask, aHome, aMsgs, aOpened>>

(* reportXtraServer, requestXtraData, requestTime, requestLocation,        *)
(* requestATL, releaseATL, requestSuplES, reportDataCallOpened and -Closed *)
(* and requestNiNotify.                                                    *)
request(c, r) ==
    /\ HasModem(c) /\ c \notin aDown
    /\ aTold' = [what |-> r, by |-> c, to |-> TO_1ST_HANDLING(c, r)]
    /\ UNCHANGED <<aContext, aTable, aMask, aHome, aMsgs, aOpened>>

LocApiNext ==
    \/ MsgProc
    \/ \E c \in Contexts :
          \/ getLocContext(c)
          \/ \E a \in Adapters : addAdapter(c, a)
          \/ handleEngineUpEvent(c) \/ handleEngineDownEvent(c) \/ report(c)
          \/ \E r \in ApiRequests : request(c, r)
    \/ \E a \in Adapters :
          \/ removeAdapter(a)
          \/ \E e \in Toggled : updateEvtMask(a, e)

LocApiSpec == LocApiInit /\ [][LocApiNext]_aVars /\ WF_aVars(MsgProc)

-----------------------------------------------------------------------------
(* Type correctness of the contexts, the tables and the task's messages. *)
LocApiTypeOK ==
    /\ aApi \in [Contexts -> {"none", "base", "lbs", "v02", "rpc"}]
    /\ {aInject, aInjected} \subseteq Contexts \cup {NoContext}
    /\ aTable \in [Contexts -> [Slots -> Adapters \cup {NoAdapter}]]
    /\ aMask \in [Adapters -> SUBSET Events]
    /\ aHome \in [Adapters -> Contexts \cup {NoContext}]
    /\ Len(aMsgs) <= MaxMsgs
    /\ \A c \in Contexts : aOpened[c] = Closed \/ aOpened[c] \subseteq Events
    /\ aDown \subseteq Contexts

(* After any adds and removes the table of a context holds the adapters    *)
(* that were put in it and are still alive, each of them once, before the  *)
(* first free slot: the loops over the table, which stop there, miss none  *)
(* (addAdapter and the shift in removeAdapter).                            *)
TableIsDense ==
    \A c \in Contexts :
        LET here == {a \in Adapters : aHome[a] = c} IN
        /\ {aTable[c][i] : i \in Visited(aTable[c])} = here
        /\ {i \in Slots : aTable[c][i] # NoAdapter} = 1 .. Cardinality(here)

(* A report goes once to every adapter of the context.  A request is taken *)
(* by one adapter if any of them takes it, and none behind it is asked     *)
(* (TO_ALL_LOCADAPTERS, TO_1ST_HANDLING_LOCADAPTERS).                      *)
RightAdaptersAreTold ==
    [][LET here == {a \in Adapters : aHome[a] = aTold'.by}
           to == aTold'.to
           Took(i) == aTold'.what \in Takes[to[i]]
       IN  aTold' # Nothing =>
             /\ IsInjective(to)
             /\ aTold'.what = "report" => ToSet(to) = here
             /\ aTold'.what # "report" =>
                  /\ \A i \in DOMAIN to : Took(i) => i = Len(to)
                  /\ (\E a \in here : aTold'.what \in Takes[a]) => \E i \in DOMAIN to : Took(i)]_aVars

(* When no change of the mask is under way, the modem reports every event  *)
(* that some adapter wants and the context does not exclude, restarts of   *)
(* the modem and adapters that come and go included (LocOpenMsg,           *)
(* LocSsrMsg, updateEvtMask).                                              *)
EventsAreRegistered ==
    aMsgs = <<>> =>
        \A c \in Contexts \ aDown : \A a \in Adapters :
            aHome[a] = c /\ HasModem(c) => aMask[a] \ ExcludedMask(c) \subseteq aOpened[c]

(* Features are injected through the context that was made first, and      *)
(* through no other, however often either modem restarts.                  *)
OneInjectContext == aInjected = aInject

(* The table, the modem's registration and the injecting context follow    *)
(* the adapters that come and go and the modem that restarts.              *)
AdaptersAreServed ==
    LocApiTypeOK /\ TableIsDense /\ EventsAreRegistered /\ OneInjectContext
=============================================================================
