------------------------------- MODULE MsgTask -------------------------------
(***************************************************************************)
(* A message task: the queue of msg_q.c on the list of linked_list.c, the  *)
(* thread of MsgTask.cpp that handles its messages, and the life of the    *)
(* task and of its LocThreadDelegate (LocThread.cpp), which two threads    *)
(* release: the task's own and the one that calls MsgTask::destroy().      *)
(*                                                                         *)
(* A critical section of list_mutex or mMutex is one step.  The task's     *)
(* thread and the owner's call of destroy() are program counters.          *)
(* Messages are numbered in the order in which they are sent.              *)
(***************************************************************************)
EXTENDS Naturals, Sequences

CONSTANT MaxMsgs      \* bound: messages sent in a behaviour

ASSUME MsgTaskAssumption == MaxMsgs \in Nat

Msgs == 1..MaxMsgs

VARIABLES
    list,        \* the linked list, p_head first
    unblocked,   \* the queue's flag
    sent,        \* messages sent so far
    handled,     \* the messages whose proc() has run, in order
    refused,     \* messages that sendMsg could not queue: nobody deletes them
    flushed,     \* messages deleted by msg_q_flush
    thread,      \* where threadMain is; "none" if pthread_create failed
    msg,         \* the message in the thread's hands, 0 for none
    runnable,    \* threadMain's local pointer is not NULL
    mRunnable,   \* the delegate's pointer is not NULL
    mJoinable,
    mRefCount,
    delegate,    \* the LocThreadDelegate has not been deleted
    task,        \* the MsgTask has not been deleted
    owner        \* where the owner is in destroy()

queueVars == <<list, unblocked, sent, handled, refused, flushed>>
delegateVars == <<mRunnable, mJoinable, mRefCount, delegate>>
vars == <<queueVars, thread, msg, runnable, delegateVars, task, owner>>

ThreadAt == {"none", "start", "loop", "rcv", "wait", "woken", "proc", "exit",
             "delete", "destroy", "deleteThis", "done"}
OwnerAt == {"idle", "unblocked", "stop", "join", "destroy", "deleteThis",
            "gone"}

\* Type correctness; the thread has a message in hand exactly while it handles
\* it, and the list holds only messages that have been sent.
MsgTypeOK ==
    /\ list \in Seq(1..sent)
    /\ unblocked \in BOOLEAN
    /\ sent \in 0..MaxMsgs
    /\ handled \in Seq(1..sent)
    /\ refused \subseteq 1..sent
    /\ flushed \subseteq 1..sent
    /\ thread \in ThreadAt
    /\ msg \in 0..sent
    /\ (msg # 0) <=> (thread = "proc")
    /\ runnable \in BOOLEAN
    /\ mRunnable \in BOOLEAN
    /\ mJoinable \in BOOLEAN
    /\ mRefCount \in 0..2
    /\ delegate \in BOOLEAN
    /\ task \in BOOLEAN
    /\ owner \in OwnerAt

-----------------------------------------------------------------------------
\* The linked list: new elements become the head, the tail is removed.

\* Mutant of linked_list_add: the element is put behind the tail.
AddAtTail(m) == Append(list, m)

linked_list_add(m) == <<m>> \o list

\* The list without its tail.
linked_list_remove == SubSeq(list, 1, Len(list) - 1)

Tail_data == list[Len(list)]

-----------------------------------------------------------------------------
\* msg_q_init: an empty list, not unblocked.
msg_q_init ==
    /\ list = <<>> /\ unblocked = FALSE /\ sent = 0
    /\ handled = <<>> /\ refused = {} /\ flushed = {}

\* LocThreadDelegate's constructor: set up before the thread can run.
ThreadMade ==
    /\ thread = "start"
    /\ mRunnable = TRUE /\ mJoinable \in BOOLEAN
    /\ mRefCount = 2 /\ delegate = TRUE

\* pthread_create failed: LocThreadDelegate::create deletes the delegate.
ThreadFailed ==
    /\ thread = "none"
    /\ mRunnable = FALSE /\ mJoinable = FALSE
    /\ mRefCount = 0 /\ delegate = FALSE

\* MsgTask's constructor: the queue is made, then LocThread::start() makes the
\* delegate and its thread.
Init ==
    /\ msg_q_init
    /\ msg = 0 /\ runnable = FALSE /\ task = TRUE /\ owner = "idle"
    /\ ThreadMade \/ ThreadFailed

\* pthread_cond_signal and _broadcast: only the task's thread ever waits.
Signalled == IF thread = "wait" THEN "woken" ELSE thread

\* Mutant of Queued: the message is added without a signal.
QueuedSilently(m) ==
    /\ ~unblocked
    /\ list' = linked_list_add(m)
    /\ UNCHANGED <<thread, refused>>

\* msg_q_snd on a queue that has not been unblocked.
Queued(m) ==
    /\ ~unblocked
    /\ list' = linked_list_add(m)
    /\ thread' = Signalled
    /\ UNCHANGED refused

\* msg_q_snd without memory for a list element: the signal is sent all the same.
NotAdded(m) ==
    /\ ~unblocked
    /\ refused' = refused \cup {m}
    /\ thread' = Signalled
    /\ UNCHANGED list

\* msg_q_snd on an unblocked queue.
Refused(m) ==
    /\ unblocked
    /\ refused' = refused \cup {m}
    /\ UNCHANGED <<thread, list>>

\* MsgTask::sendMsg on any thread, a handler's included, while the task exists.
\* It ignores what msg_q_snd returns.
sendMsg ==
    /\ task
    /\ sent < MaxMsgs
    /\ sent' = sent + 1
    /\ LET m == sent + 1 IN Queued(m) \/ NotAdded(m) \/ Refused(m)
    /\ UNCHANGED <<unblocked, handled, flushed, msg, runnable, delegateVars,
                   task, owner>>

-----------------------------------------------------------------------------
\* The task's thread.

\* threadMain reads mRunnable; without one it only releases the delegate.
threadMain ==
    /\ thread = "start"
    /\ runnable' = mRunnable
    /\ thread' = IF mRunnable THEN "loop" ELSE "destroy"
    /\ UNCHANGED <<queueVars, msg, delegateVars, task, owner>>

\* while (isRunning() && run())
Loop ==
    /\ thread = "loop"
    /\ thread' = IF mRunnable THEN "rcv" ELSE "exit"
    /\ UNCHANGED <<queueVars, msg, runnable, delegateVars, task, owner>>

\* linked_list_remove has found a message, which run() will handle.
Take ==
    /\ msg' = Tail_data
    /\ list' = linked_list_remove
    /\ thread' = "proc"

\* The loop of msg_q_rcv around pthread_cond_wait, and what follows it.
WaitOrTake ==
    \/ /\ list = <<>> /\ ~unblocked
       /\ thread' = "wait"
       /\ UNCHANGED <<msg, list>>
    \/ /\ list = <<>> /\ unblocked
       /\ thread' = "exit"
       /\ UNCHANGED <<msg, list>>
    \/ list # <<>> /\ Take

\* Mutant of msg_q_rcv: the flag is not looked at first.
RcvRegardless ==
    /\ thread = "rcv"
    /\ WaitOrTake
    /\ UNCHANGED <<unblocked, sent, handled, refused, flushed, runnable,
                   delegateVars, task, owner>>

\* msg_q_rcv up to its first wait: an unblocked queue is refused at once.
msg_q_rcv ==
    /\ thread = "rcv"
    /\ \/ unblocked /\ thread' = "exit" /\ UNCHANGED <<msg, list>>
       \/ ~unblocked /\ WaitOrTake
    /\ UNCHANGED <<unblocked, sent, handled, refused, flushed, runnable,
                   delegateVars, task, owner>>

\* pthread_cond_wait may return without a signal.
Spurious ==
    /\ thread = "wait"
    /\ thread' = "woken"
    /\ UNCHANGED <<queueVars, msg, runnable, delegateVars, task, owner>>

\* pthread_cond_wait returns with the lock held.
Woken ==
    /\ thread = "woken"
    /\ WaitOrTake
    /\ UNCHANGED <<unblocked, sent, handled, refused, flushed, runnable,
                   delegateVars, task, owner>>

\* Mutant of proc: the thread goes on with the message still in hand.
ProcAndKeep ==
    /\ thread = "proc"
    /\ handled' = Append(handled, msg)
    /\ thread' = "loop"
    /\ UNCHANGED <<list, unblocked, sent, refused, flushed, msg, runnable,
                   delegateVars, task, owner>>

\* The rest of MsgTask::run(): the handler, then the message is deleted.
proc ==
    /\ thread = "proc"
    /\ handled' = Append(handled, msg)
    /\ msg' = 0
    /\ thread' = "loop"
    /\ UNCHANGED <<list, unblocked, sent, refused, flushed, runnable,
                   delegateVars, task, owner>>

\* The loop has ended: threadMain resets the delegate's pointer.
Exit ==
    /\ thread = "exit"
    /\ mRunnable' = FALSE
    /\ thread' = "delete"
    /\ UNCHANGED <<queueVars, msg, runnable, mJoinable, mRefCount, delegate,
                   task, owner>>

\* msg_q_flush: every message in the list is deleted.
msg_q_flush ==
    /\ flushed' = flushed \cup {list[i] : i \in 1..Len(list)}
    /\ list' = <<>>

\* ~MsgTask: the queue is flushed and destroyed.
DeleteTask ==
    /\ msg_q_flush
    /\ task' = FALSE
    /\ UNCHANGED <<unblocked, sent, handled, refused>>

\* Mutant of DeleteRunnable: the thread leaves the task to its owner.
KeepRunnable ==
    /\ thread = "delete"
    /\ thread' = "destroy"
    /\ UNCHANGED <<queueVars, msg, runnable, delegateVars, task, owner>>

\* delete runnable, which is the MsgTask itself.
DeleteRunnable ==
    /\ thread = "delete"
    /\ DeleteTask
    /\ thread' = "destroy"
    /\ UNCHANGED <<msg, runnable, delegateVars, owner>>

\* LocThreadDelegate::destroy() up to its unlock.
Decrement ==
    /\ mRefCount' = IF mRefCount > 0 THEN mRefCount - 1 ELSE 0
    /\ UNCHANGED <<mRunnable, mJoinable, delegate>>

\* The caller goes on to "delete this" when its reference was the last one.
AfterDecrement(next) == IF mRefCount = 1 THEN "deleteThis" ELSE next

ThreadDestroy ==
    /\ thread = "destroy"
    /\ Decrement
    /\ thread' = AfterDecrement("done")
    /\ UNCHANGED <<queueVars, msg, runnable, task, owner>>

ThreadDeleteThis ==
    /\ thread = "deleteThis"
    /\ delegate' = FALSE
    /\ thread' = "done"
    /\ UNCHANGED <<queueVars, msg, runnable, mRunnable, mJoinable, mRefCount,
                   task, owner>>

-----------------------------------------------------------------------------
\* The owner, who calls MsgTask::destroy() once, on a thread of its own.

\* Mutant of msg_q_unblock: the waiter is not woken.
UnblockSilently ==
    /\ owner = "idle"
    /\ unblocked' = TRUE
    /\ owner' = "unblocked"
    /\ UNCHANGED <<list, sent, handled, refused, flushed, thread, msg,
                   runnable, delegateVars, task>>

msg_q_unblock ==
    /\ owner = "idle"
    /\ unblocked' = TRUE
    /\ thread' = Signalled
    /\ owner' = "unblocked"
    /\ UNCHANGED <<list, sent, handled, refused, flushed, msg, runnable,
                   delegateVars, task>>

\* Mutant of bye: a detached thread is taken to be gone.
ByeAndDelete ==
    /\ owner = "unblocked" /\ thread # "none"
    /\ owner' = IF mJoinable THEN "stop" ELSE "deleteThis"
    /\ UNCHANGED <<queueVars, thread, msg, runnable, delegateVars, task>>

\* delete thread: ~LocThread calls bye(), which stops a joinable thread and
\* only releases the delegate of a detached one.
bye ==
    /\ owner = "unblocked" /\ thread # "none"
    /\ owner' = IF mJoinable THEN "stop" ELSE "destroy"
    /\ UNCHANGED <<queueVars, thread, msg, runnable, delegateVars, task>>

\* A task whose thread could not be made deletes itself.
DeleteSelf ==
    /\ owner = "unblocked" /\ thread = "none"
    /\ DeleteTask
    /\ owner' = "gone"
    /\ UNCHANGED <<thread, msg, runnable, delegateVars>>

\* LocThreadDelegate::stop() up to pthread_join.
stop ==
    /\ owner = "stop"
    /\ mRunnable' = FALSE
    /\ mJoinable' = FALSE
    /\ owner' = "join"
    /\ UNCHANGED <<queueVars, thread, msg, runnable, mRefCount, delegate,
                   task>>

\* pthread_join returns when the thread has ended.
Join ==
    /\ owner = "join" /\ thread = "done"
    /\ owner' = "destroy"
    /\ UNCHANGED <<queueVars, thread, msg, runnable, delegateVars, task>>

OwnerDestroy ==
    /\ owner = "destroy"
    /\ Decrement
    /\ owner' = AfterDecrement("gone")
    /\ UNCHANGED <<queueVars, thread, msg, runnable, task>>

OwnerDeleteThis ==
    /\ owner = "deleteThis"
    /\ delegate' = FALSE
    /\ owner' = "gone"
    /\ UNCHANGED <<queueVars, thread, msg, runnable, mRunnable, mJoinable,
                   mRefCount, task>>

-----------------------------------------------------------------------------
ThreadNext ==
    \/ threadMain
    \/ Loop
    \/ msg_q_rcv
    \/ Woken
    \/ proc
    \/ Exit
    \/ DeleteRunnable
    \/ ThreadDestroy
    \/ ThreadDeleteThis

\* destroy() once it has been called.
DestroyNext ==
    \/ bye
    \/ DeleteSelf
    \/ stop
    \/ Join
    \/ OwnerDestroy
    \/ OwnerDeleteThis

Next ==
    \/ sendMsg
    \/ ThreadNext
    \/ Spurious
    \/ msg_q_unblock
    \/ DestroyNext

\* Both threads run whenever they can; nobody has to send or to destroy.
Spec == Init /\ [][Next]_vars /\ WF_vars(ThreadNext) /\ WF_vars(DestroyNext)

-----------------------------------------------------------------------------
\* The list seen as a queue: the tail is the oldest message; a message in the
\* thread's hands has not been handled yet.
OldestFirst(s) == [i \in 1..Len(s) |-> s[Len(s) + 1 - i]]
Pending ==
    IF msg = 0 THEN OldestFirst(list) ELSE <<msg>> \o OldestFirst(list)

\* Once unblocked, a thread that waits or has a message can still handle one.
Phase ==
    IF ~unblocked THEN "open"
    ELSE IF thread \in {"wait", "woken", "proc"} THEN "closing"
    ELSE "closed"

Fifo == INSTANCE MsgFifo WITH
    Messages <- Msgs, fifo <- Pending, done <- handled, phase <- Phase

\* A message task is a FIFO: messages are handled one at a time, each at most
\* once and in the order of msg_q_snd, and after msg_q_unblock at most one more.
IsFifo == Fifo!FifoSpec

\* LocThreadDelegate and MsgTask are not used after they were deleted: by the
\* thread, from threadMain to destroy(), and by the owner, from bye() to the
\* end of LocThreadDelegate::destroy(), whichever of the two comes last.
AliveWhileUsed ==
    /\ thread \in {"start", "loop", "rcv", "wait", "woken", "proc", "exit",
                   "destroy", "deleteThis"} => delegate
    /\ owner \in {"stop", "join", "destroy", "deleteThis"} => delegate
    /\ thread \in {"loop", "rcv", "wait", "woken", "proc", "exit", "delete"}
         => task
    /\ owner = "idle" => task

\* When the owner has returned from destroy() and the thread has ended, both
\* objects are gone (unless stop() reset mRunnable before threadMain read it:
\* then nobody deletes the task).
NothingIsLeft ==
    owner = "gone" /\ thread \in {"done", "none"} =>
        ~delegate /\ (runnable \/ thread = "none" => ~task)

\* No message is lost: one that is in the list of a task with a thread is
\* handled, or deleted when the task is, unless the task itself is left over.
EveryMessageIsSettled ==
    \A m \in Msgs :
        (thread # "none" /\ m \in {list[i] : i \in 1..Len(list)}) ~>
            \/ m \in {handled[i] : i \in 1..Len(handled)} \cup flushed
            \/ thread = "done" /\ ~runnable

\* destroy() returns and the thread ends: the unblocked queue lets go of a
\* thread that waits in msg_q_rcv, and the join is answered.
DestroyEnds ==
    (owner = "unblocked") ~> (owner = "gone" /\ thread \in {"done", "none"})

\* The thread is woken for every message and for the end: nothing in the list
\* waits for ever, and destroy() returns.
TaskGoesOn == EveryMessageIsSettled /\ DestroyEnds
==============================================================================
