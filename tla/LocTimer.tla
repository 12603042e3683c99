------------------------------ MODULE LocTimer -------------------------------
(***************************************************************************)
(* The timer service (LocTimer.cpp): clients start and stop LocTimer       *)
(* objects from their own threads; a LocTimerDelegate per start waits in   *)
(* the container's heap, which only the container's message thread         *)
(* touches; a poll thread watches the one timerfd that is armed for the    *)
(* soonest delegate.                                                       *)
(*                                                                         *)
(* One container is modelled; the second one (alarms) has its own heap and *)
(* its own fd.  LocHeap is the set heap: its top is a delegate with the    *)
(* least time, the oldest of them when there are several.  A delegate is   *)
(* named by the number of its start.  clock_gettime is the variable now.   *)
(***************************************************************************)
EXTENDS Naturals, Sequences, FiniteSets

CONSTANTS
    Clients,    \* LocTimer objects
    Delays,     \* time outs they may be started with
    MaxStarts,  \* bound: starts in a behaviour
    MaxTime     \* bound: no timer is due after this time

ASSUME LocTimerAssumption ==
    /\ Delays \subseteq Nat /\ MaxStarts \in Nat /\ MaxTime \in Nat \ {0}
    /\ Clients \cap Nat = {}

Delegates == 1..MaxStarts
NULL == 0

VARIABLES
    now,
    mTimer,    \* the delegate of each LocTimer, or NULL
    mClient,   \* the LocTimer of each delegate, or NULL
    due,       \* mFutureTime of each delegate
    starts,    \* delegates created so far
    freed,     \* delegates deleted
    dead,      \* LocTimer objects deleted
    heap,      \* the delegates in the container
    armed,     \* what the timerfd is set to, 0 when it is disarmed
    polled,    \* whether the timerfd is in the epoll set
    queue,     \* the container's message queue
    msgThread, \* where the message thread is in MsgTimerExpire::proc
    poll,      \* where the poll thread is in LocTimerContainer::expire
    outcome    \* how each start ended

client == <<mTimer, mClient, due, starts, dead>>
kernel == <<armed, polled>>
timerVars == <<now, client, freed, heap, kernel, queue, msgThread, poll, outcome>>

Idle == [at |-> "idle", d |-> NULL, c |-> NULL, now |-> 0]
Messages == [type : {"Push", "Remove"}, d : Delegates] \cup [type : {"Expire"}]

\* The one type invariant.
TimerTypeOK ==
    /\ now \in 1..MaxTime
    /\ mTimer \in [Clients -> Delegates \cup {NULL}]
    /\ mClient \in [Delegates -> Clients \cup {NULL}]
    /\ due \in [Delegates -> 0..MaxTime]
    /\ starts \in 0..MaxStarts
    /\ freed \subseteq Delegates /\ heap \subseteq Delegates
    /\ dead \subseteq Clients
    /\ armed \in 0..MaxTime /\ polled \in BOOLEAN
    /\ queue \in Seq(Messages)
    /\ msgThread \in [at : {"idle", "expire", "stop", "callback"},
                      d : Delegates \cup {NULL}, c : Clients \cup {NULL},
                      now : 0..MaxTime]
    /\ poll \in {"wait", "disarm", "send"}
    /\ outcome \in [Delegates -> {"none", "ticking", "stopped", "fired"}]

TimerInit ==
    /\ now = 1
    /\ mTimer = [c \in Clients |-> NULL]
    /\ mClient = [d \in Delegates |-> NULL]
    /\ due = [d \in Delegates |-> 0]
    /\ starts = 0 /\ freed = {} /\ dead = {} /\ heap = {}
    /\ armed = 0 /\ polled = FALSE
    /\ queue = << >> /\ msgThread = Idle /\ poll = "wait"
    /\ outcome = [d \in Delegates |-> "none"]

-----------------------------------------------------------------------------
(* The clients.                                                            *)

\* LocTimer::start: does nothing when the timer is already running.  The new
\* delegate's constructor sends the Push while mLock is held.
start(c, delay) ==
    LET d == starts + 1
    IN  /\ c \notin dead /\ mTimer[c] = NULL
        /\ starts < MaxStarts /\ now + delay <= MaxTime
        /\ starts' = d
        /\ due' = [due EXCEPT ![d] = now + delay]
        /\ mTimer' = [mTimer EXCEPT ![c] = d]
        /\ mClient' = [mClient EXCEPT ![d] = c]
        /\ outcome' = [outcome EXCEPT ![d] = "ticking"]
        /\ queue' = Append(queue, [type |-> "Push", d |-> d])
        /\ UNCHANGED <<now, freed, dead, heap, kernel, msgThread, poll>>

\* Mutant of StopTimer: mTimer is not cleared.
StopTimerKept(c, how) ==
    LET d == mTimer[c]
    IN  /\ mClient' = [mClient EXCEPT ![d] = NULL]
        /\ outcome' = [outcome EXCEPT ![d] = how]
        /\ queue' = Append(queue, [type |-> "Remove", d |-> d])
        /\ UNCHANGED mTimer

\* LocTimer::stop with a timer running, and the delegate's destroyLocked; how
\* says who stops it.
StopTimer(c, how) ==
    LET d == mTimer[c]
    IN  /\ mTimer' = [mTimer EXCEPT ![c] = NULL]
        /\ mClient' = [mClient EXCEPT ![d] = NULL]
        /\ outcome' = [outcome EXCEPT ![d] = how]
        /\ queue' = Append(queue, [type |-> "Remove", d |-> d])

stop(c) ==
    /\ c \notin dead /\ mTimer[c] # NULL
    /\ StopTimer(c, "stopped")
    /\ UNCHANGED <<now, due, starts, dead, freed, heap, kernel, msgThread, poll>>

\* Mutant of Delete: mTimer is not looked at.
DeleteUnchecked(c) ==
    /\ c \notin dead
    /\ dead' = dead \cup {c}
    /\ StopTimer(c, "stopped")
    /\ UNCHANGED <<now, due, starts, freed, heap, kernel, msgThread, poll>>

\* LocTimer::~LocTimer stops the timer and lets go of the lock.
Delete(c) ==
    /\ c \notin dead
    /\ dead' = dead \cup {c}
    /\ \/ mTimer[c] # NULL /\ StopTimer(c, "stopped")
       \/ mTimer[c] = NULL /\ UNCHANGED <<mTimer, mClient, outcome, queue>>
    /\ UNCHANGED <<now, due, starts, freed, heap, kernel, msgThread, poll>>

-----------------------------------------------------------------------------
(* The message thread.                                                     *)

Sooner(d, e) == due[d] < due[e] \/ (due[d] = due[e] /\ d <= e)

\* getSoonestTimer.
Top(h) == IF h = {} THEN NULL ELSE CHOOSE d \in h : \A e \in h : Sooner(d, e)

\* Mutant of updateSoonestTime: only the first timer of an empty heap is armed.
updateSoonestTimeFirst(priorTop, h) ==
    IF priorTop = NULL /\ h # {}
    THEN polled' = TRUE /\ armed' = due[Top(h)]
    ELSE UNCHANGED kernel

\* updateSoonestTime: the timerfd is set when the top became another one that
\* is due earlier, and cleared when there is none; priorTop NULL forces it.
updateSoonestTime(priorTop, h) ==
    LET curTop == Top(h)
        sooner == curTop # NULL /\ (priorTop = NULL \/ due[curTop] < due[priorTop])
    IN  IF curTop = priorTop \/ (curTop # NULL /\ ~ sooner) THEN UNCHANGED kernel
        ELSE polled' = sooner /\ armed' = IF sooner THEN due[curTop] ELSE 0

Taken(type) ==
    msgThread = Idle /\ queue # << >> /\ Head(queue).type = type

\* MsgTimerPush::proc.
MsgTimerPush ==
    LET d == Head(queue).d
    IN  /\ Taken("Push")
        /\ heap' = heap \cup {d}
        /\ updateSoonestTime(Top(heap), heap')
        /\ queue' = Tail(queue)
        /\ UNCHANGED <<now, client, freed, msgThread, poll, outcome>>

\* Mutant of TimersRemove: the delegate is left in the heap.
HeapRemoveKept(d) == UNCHANGED heap

TimersRemove(d) == heap' = heap \ {d}

\* MsgTimerRemove::proc: the kernel is updated when the top was removed, and
\* the delegate deleted whether or not it was still in the heap.
MsgTimerRemove ==
    LET d == Head(queue).d
    IN  /\ Taken("Remove")
        /\ TimersRemove(d)
        /\ IF d = Top(heap) THEN updateSoonestTime(NULL, heap')
                            ELSE UNCHANGED kernel
        /\ freed' = freed \cup {d}
        /\ queue' = Tail(queue)
        /\ UNCHANGED <<now, client, msgThread, poll, outcome>>

\* Take the top off the heap and expire it, or end the loop.
Pop(more, t) ==
    IF more THEN /\ heap' = heap \ {Top(heap)}
                 /\ msgThread' = [at |-> "expire", d |-> Top(heap), c |-> NULL,
                                  now |-> t]
                 /\ UNCHANGED kernel
    ELSE /\ updateSoonestTime(NULL, heap) /\ msgThread' = Idle
         /\ UNCHANGED heap

\* MsgTimerExpire::proc: the first pop asks for nothing but a top.
MsgTimerExpire ==
    /\ Taken("Expire")
    /\ Pop(heap # {}, now)
    /\ queue' = Tail(queue)
    /\ UNCHANGED <<now, client, freed, poll, outcome>>

\* popIfOutRanks(timerOfNow): only what is due by now.
NextPop == Pop(heap # {} /\ due[Top(heap)] <= msgThread.now, msgThread.now)

\* LocTimerDelegate::expire reads mClient without the lock ...
ExpireRead ==
    LET c == mClient[msgThread.d]
    IN  /\ msgThread.at = "expire"
        /\ \/ /\ c = NULL /\ NextPop
           \/ /\ c # NULL /\ UNCHANGED <<heap, kernel>>
              /\ msgThread' = [at |-> "stop", d |-> msgThread.d, c |-> c,
                               now |-> msgThread.now]
        /\ UNCHANGED <<now, client, freed, queue, poll, outcome>>

\* ... and stops that client's timer, whichever that is by now.  A client that
\* was deleted meanwhile reads as one with no timer.
ExpireStop ==
    LET c == msgThread.c
    IN  /\ msgThread.at = "stop"
        /\ \/ /\ mTimer[c] # NULL /\ StopTimer(c, "fired")
              /\ msgThread' = [at |-> "callback", d |-> msgThread.d, c |-> c,
                               now |-> msgThread.now]
              /\ UNCHANGED <<heap, kernel>>
           \/ /\ mTimer[c] = NULL /\ NextPop
              /\ UNCHANGED <<mTimer, mClient, outcome, queue>>
        /\ UNCHANGED <<now, due, starts, dead, freed, poll>>

\* timeOutCallback has been called; the loop goes on.
Callback ==
    /\ msgThread.at = "callback"
    /\ NextPop
    /\ UNCHANGED <<now, client, freed, queue, poll, outcome>>

MsgThread == \/ MsgTimerPush \/ MsgTimerRemove \/ MsgTimerExpire
             \/ ExpireRead \/ ExpireStop \/ Callback

-----------------------------------------------------------------------------
(* The poll thread and time.                                               *)

\* LocTimerPollTask::run: epoll_wait reports the fd.
PollWake ==
    /\ poll = "wait" /\ polled /\ armed # 0 /\ armed <= now
    /\ poll' = "disarm"
    /\ UNCHANGED <<now, client, freed, heap, kernel, queue, msgThread, outcome>>

\* LocTimerContainer::expire: disarm, remove from the poll, tell the container.
PollDisarm ==
    /\ poll = "disarm" /\ poll' = "send"
    /\ armed' = 0
    /\ UNCHANGED <<now, client, freed, heap, polled, queue, msgThread, outcome>>

\* Mutant of PollSend: the container is not told.
PollSendLost ==
    /\ poll = "send" /\ poll' = "wait"
    /\ polled' = FALSE
    /\ UNCHANGED <<now, client, freed, heap, armed, queue, msgThread, outcome>>

PollSend ==
    /\ poll = "send" /\ poll' = "wait"
    /\ polled' = FALSE
    /\ queue' = Append(queue, [type |-> "Expire"])
    /\ UNCHANGED <<now, client, freed, heap, armed, msgThread, outcome>>

PollThread == PollWake \/ PollDisarm \/ PollSend

Tick ==
    /\ now < MaxTime /\ now' = now + 1
    /\ UNCHANGED <<client, freed, heap, kernel, queue, msgThread, poll, outcome>>

\* Nothing is ticking and nobody has to start another timer.
Quiet ==
    /\ queue = << >> /\ msgThread = Idle /\ now = MaxTime
    /\ \A d \in Delegates : outcome[d] # "ticking"
    /\ UNCHANGED timerVars

TimerNext ==
    \/ \E c \in Clients : (\E t \in Delays : start(c, t)) \/ stop(c) \/ Delete(c)
    \/ MsgThread \/ PollThread \/ Tick \/ Quiet

\* The two threads run and time passes.
TimerFairness == WF_timerVars(MsgThread) /\ WF_timerVars(PollThread) /\ WF_timerVars(Tick)

TimerSpec == TimerInit /\ [][TimerNext]_timerVars /\ TimerFairness

-----------------------------------------------------------------------------
(* Properties.                                                             *)

InQueue(m) == \E i \in DOMAIN queue : queue[i] = m

\* "the one that expires the soonest" is with the kernel: while a timer waits
\* in the heap, the timerfd is polled and set to no later than it is due, or
\* the container is about to look at its heap again.
SoonestIsArmed ==
    \A d \in heap :
        \/ polled /\ armed # 0 /\ armed <= due[d]
        \/ poll # "wait" \/ msgThread # Idle \/ InQueue([type |-> "Expire"])

\* "all timers are deleted here, and only here": a delegate the heap, a client
\* or the message thread can still reach is not deleted, is pushed before it is
\* removed, and is removed once.
DelegateIsAlive ==
    /\ heap \cap freed = {}
    /\ \A c \in Clients : mTimer[c] \notin freed
    /\ msgThread.at = "expire" => msgThread.d \notin freed
    /\ \A i, j \in DOMAIN queue : queue[i].type = "Remove" =>
          /\ queue[i].d \notin freed
          /\ queue[j].type # "Expire" /\ queue[j].d = queue[i].d => j <= i
          /\ queue[j] = queue[i] => j = i

\* Each start ends once: what was stopped is not called back later, and what
\* fired is not reported stopped.
EndsOnce ==
    [][\A d \in Delegates : outcome[d] \in {"stopped", "fired"} =>
          outcome'[d] = outcome[d]]_timerVars

\* "check and continuously pop the heap until the top node's timeout is in the
\* future": no timer calls back before its time.
NeverEarly ==
    [][\A d \in Delegates :
          outcome[d] # "fired" /\ outcome'[d] = "fired" => due[d] <= now]_timerVars

\* Every timer that was started is stopped by its client or calls back.
EveryTimerEnds ==
    \A d \in Delegates : outcome[d] = "ticking" ~> outcome[d] # "ticking"

\* What the message thread relies on when it handles a timer: the soonest one
\* is with the kernel, and no delegate it can reach was deleted.
TimersAreSound == TimerTypeOK /\ SoonestIsArmed /\ DelegateIsAlive

\* Every timer ends, by its client's stop or by its callback, and only once.
TimersEndOnce == EndsOnce /\ EveryTimerEnds
=============================================================================
