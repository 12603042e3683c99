---------------------------- MODULE MsgTaskProofs ----------------------------
(***************************************************************************)
(* Proofs about the message task, for every number of messages: it is a    *)
(* FIFO (the refinement of MsgFifo), neither thread uses a deleted object, *)
(* and nothing is left when both have ended.                               *)
(***************************************************************************)
EXTENDS MsgTask, TLAPS

\* The rest of MsgTypeOK, without the flags.
Shape ==
    /\ list \in Seq(1..sent)
    /\ sent \in 0..MaxMsgs
    /\ handled \in Seq(1..sent)
    /\ refused \subseteq 1..sent
    /\ flushed \subseteq 1..sent
    /\ thread \in ThreadAt
    /\ msg \in 0..sent
    /\ (msg # 0) <=> (thread = "proc")
    /\ mRefCount \in 0..2
    /\ owner \in OwnerAt

Flags ==
    /\ unblocked \in BOOLEAN
    /\ runnable \in BOOLEAN
    /\ mRunnable \in BOOLEAN
    /\ mJoinable \in BOOLEAN
    /\ delegate \in BOOLEAN
    /\ task \in BOOLEAN

\* Where the thread still holds its reference, and where it runs the task.
Holds == {"start", "loop", "rcv", "wait", "woken", "proc", "exit", "delete",
          "destroy"}
Runs == {"loop", "rcv", "wait", "woken", "proc", "exit", "delete"}
Over == {"exit", "delete", "destroy", "deleteThis", "done"}
OwnerHolds == {"idle", "unblocked", "stop", "join", "destroy"}

\* The thread ends only after the owner has unblocked the queue.
UnblockInv ==
    /\ unblocked <=> owner # "idle"
    /\ thread \in Over => unblocked
    /\ ~mRunnable => unblocked \/ thread = "none"

\* The count is the number of threads that still hold a reference, and the
\* delegate lives until the one that has found it to be 1 deletes it.
RefInv ==
    /\ thread \in Holds /\ owner \in OwnerHolds => mRefCount = 2
    /\ thread \in Holds /\ owner \notin OwnerHolds => mRefCount = 1
    /\ thread \notin Holds /\ thread # "none" /\ owner \in OwnerHolds
         => mRefCount = 1
    /\ thread \in Holds => delegate /\ owner # "deleteThis"
    /\ thread \in {"deleteThis", "done"} /\ owner \in OwnerHolds
         => delegate /\ thread = "done"
    /\ thread = "deleteThis" => delegate /\ owner = "gone"
    /\ owner = "deleteThis" => delegate /\ thread = "done"
    /\ thread = "done" /\ owner = "gone" => ~delegate
    /\ thread = "none" => ~delegate /\ owner \in {"idle", "unblocked", "gone"}

\* The thread deletes the task it runs, the owner one that has no thread.
TaskInv ==
    /\ thread \in {"start", "none"} => ~runnable
    /\ thread = "start" => task
    /\ thread \in Runs => task /\ runnable
    /\ thread \in {"destroy", "deleteThis", "done"} => (task <=> ~runnable)
    /\ thread = "none" => (task <=> owner # "gone")

\* The inductive invariant.
MsgInv == Shape /\ Flags /\ UnblockInv /\ RefInv /\ TaskInv

-----------------------------------------------------------------------------
\* The invariant holds when the constructor has returned.
LEMMA InitInv == Init => MsgInv
  <1> SUFFICES ASSUME Init PROVE MsgInv
    OBVIOUS
  <1>1. Shape
    BY MsgTaskAssumption DEF Init, msg_q_init, ThreadMade, ThreadFailed,
        Shape, ThreadAt, OwnerAt
  <1>2. Flags
    BY Zenon DEF Init, msg_q_init, ThreadMade, ThreadFailed,
        Flags
  <1>3. UnblockInv /\ TaskInv
    BY DEF Init, msg_q_init, ThreadMade, ThreadFailed,
        UnblockInv, TaskInv, Over, Runs
  <1>4. RefInv
    BY DEF Init, msg_q_init, ThreadMade, ThreadFailed,
        RefInv, Holds, OwnerHolds
  <1> QED
    BY <1>1, <1>2, <1>3, <1>4 DEF MsgInv

\* Taking the tail of a list leaves a list, and the message was in it.
LEMMA TakeType ==
    ASSUME NEW n \in Nat, NEW s \in Seq(1..n), s # <<>>
    PROVE  /\ SubSeq(s, 1, Len(s) - 1) \in Seq(1..n)
           /\ s[Len(s)] \in 1..n
  OBVIOUS

\* Every step keeps the counters, lists and program counters in range.
LEMMA ShapeStep == MsgInv /\ [Next]_vars => Shape'
  <1> SUFFICES ASSUME MsgInv, [Next]_vars PROVE Shape'
    OBVIOUS
  <1> USE MsgTaskAssumption
  <1> USE DEF MsgInv, Shape, ThreadAt, OwnerAt
  <1>1. CASE sendMsg
    <2>1. list' \in Seq(1..sent') /\ refused' \subseteq 1..sent'
      <3>1. /\ sent' = sent + 1 /\ sent + 1 \in 1..(sent + 1)
            /\ list \in Seq(1..(sent + 1)) /\ refused \subseteq 1..(sent + 1)
        BY <1>1 DEF sendMsg
      <3>2. <<sent + 1>> \o list \in Seq(1..(sent + 1))
        BY <3>1
      <3>3. \/ list' = <<sent + 1>> \o list /\ refused' = refused
            \/ list' = list /\ refused' = refused \cup {sent + 1}
        BY <1>1 DEF sendMsg, Queued, NotAdded, Refused, linked_list_add
      <3> QED
        BY <3>1, <3>2, <3>3
    <2>2. handled' \in Seq(1..sent') /\ flushed' \subseteq 1..sent'
      BY <1>1 DEF sendMsg
    <2> QED
      BY <1>1, <2>1, <2>2 DEF sendMsg, Queued, NotAdded, Refused, Signalled,
         delegateVars
  <1>2. ASSUME WaitOrTake, thread \in {"rcv", "woken"},
               UNCHANGED <<unblocked, sent, handled, refused, flushed,
                           runnable, delegateVars, task, owner>>
        PROVE  Shape'
    <2>1. CASE list # <<>> /\ Take
      <3>1. list' \in Seq(1..sent') /\ msg' \in 1..sent'
        BY <1>2, <2>1, TakeType DEF Take, Tail_data, linked_list_remove
      <3> QED BY <1>2, <2>1, <3>1 DEF Take, delegateVars
    <2> QED BY <1>2, <2>1 DEF WaitOrTake, delegateVars
  <1>3. CASE msg_q_rcv
    <2>1. CASE unblocked
      BY <1>3, <2>1 DEF msg_q_rcv, delegateVars
    <2> QED BY <1>2, <1>3, <2>1 DEF msg_q_rcv
  <1>4. CASE Woken
    BY <1>2, <1>4 DEF Woken
  <1>5. CASE proc
    BY <1>5 DEF proc, delegateVars
  <1>6. CASE DeleteRunnable \/ DeleteSelf
    <2>1. {list[i] : i \in 1..Len(list)} \subseteq 1..sent
      OBVIOUS
    <2>2. /\ sent' = sent /\ handled' = handled /\ refused' = refused
          /\ list' = <<>> /\ msg' = msg /\ mRefCount' = mRefCount
      BY <1>6 DEF DeleteRunnable, DeleteSelf, DeleteTask, msg_q_flush,
         delegateVars
    <2>3. \/ thread = "delete" /\ thread' = "destroy" /\ owner' = owner
          \/ thread' = thread /\ owner' = "gone"
      BY <1>6 DEF DeleteRunnable, DeleteSelf
    <2>4. flushed' \subseteq 1..sent
      BY <1>6, <2>1 DEF DeleteRunnable, DeleteSelf, DeleteTask, msg_q_flush
    <2>5. <<>> \in Seq(1..sent)
      OBVIOUS
    <2> QED
      BY <2>2, <2>3, <2>4, <2>5
  <1>7. CASE threadMain \/ Loop \/ Exit \/ Spurious
    BY <1>7 DEF threadMain, Loop, Exit, Spurious, queueVars, delegateVars
  <1>8. CASE ThreadDestroy \/ ThreadDeleteThis
    <2>1. /\ <<list, sent, handled, refused, flushed, msg, owner>>' =
               <<list, sent, handled, refused, flushed, msg, owner>>
          /\ thread \in {"destroy", "deleteThis"}
          /\ thread' \in {"deleteThis", "done"}
      BY <1>8 DEF ThreadDestroy, ThreadDeleteThis, AfterDecrement, queueVars
    <2>2. mRefCount' \in 0..2
      BY <1>8 DEF ThreadDestroy, ThreadDeleteThis, Decrement
    <2> QED
      BY <2>1, <2>2
  <1>9. CASE msg_q_unblock \/ bye \/ stop \/ Join
    BY <1>9 DEF msg_q_unblock, bye, stop, Join, Signalled, queueVars,
       delegateVars
  <1>10. CASE OwnerDestroy \/ OwnerDeleteThis
    <2>1. /\ <<list, sent, handled, refused, flushed, msg, thread>>' =
               <<list, sent, handled, refused, flushed, msg, thread>>
          /\ owner \in {"destroy", "deleteThis"}
          /\ owner' \in {"deleteThis", "gone"}
      BY <1>10 DEF OwnerDestroy, OwnerDeleteThis, AfterDecrement, queueVars
    <2>2. mRefCount' \in 0..2
      BY <1>10 DEF OwnerDestroy, OwnerDeleteThis, Decrement
    <2> QED
      BY <2>1, <2>2
  <1>11. CASE UNCHANGED vars
    BY <1>11 DEF vars, queueVars, delegateVars
  <1> QED
    BY <1>1, <1>3, <1>4, <1>5, <1>6, <1>7, <1>8, <1>9, <1>10, <1>11
    DEF Next, ThreadNext, DestroyNext

\* Every step keeps the flags Boolean.
LEMMA FlagsStep == MsgInv /\ [Next]_vars => Flags'
  <1> SUFFICES ASSUME Flags, [Next]_vars PROVE Flags'
    BY DEF MsgInv
  <1>1. CASE sendMsg
    BY <1>1, Zenon DEF Flags, sendMsg, delegateVars
  <1>2. CASE ThreadNext
    <2>1. CASE threadMain
      BY <2>1, Zenon DEF Flags, threadMain, queueVars, delegateVars
    <2>2. CASE Loop
      BY <2>2, Zenon DEF Flags, Loop, queueVars, delegateVars
    <2>3. CASE msg_q_rcv
      BY <2>3, Zenon DEF Flags, msg_q_rcv, delegateVars
    <2>4. CASE Woken
      BY <2>4, Zenon DEF Flags, Woken, delegateVars
    <2>5. CASE proc
      BY <2>5, Zenon DEF Flags, proc, delegateVars
    <2>6. CASE Exit
      BY <2>6, Zenon DEF Flags, Exit, queueVars
    <2>7. CASE DeleteRunnable
      BY <2>7, Zenon DEF Flags, DeleteRunnable, DeleteTask, delegateVars
    <2>8. CASE ThreadDestroy
      BY <2>8, Zenon DEF Flags, ThreadDestroy, Decrement, queueVars
    <2>9. CASE ThreadDeleteThis
      BY <2>9, Zenon DEF Flags, ThreadDeleteThis, queueVars
    <2> QED
      BY <1>2, <2>1, <2>2, <2>3, <2>4, <2>5, <2>6, <2>7, <2>8, <2>9
      DEF ThreadNext
  <1>3. CASE Spurious
    BY <1>3, Zenon DEF Flags, Spurious, queueVars, delegateVars
  <1>4. CASE msg_q_unblock
    BY <1>4, Zenon DEF Flags, msg_q_unblock, delegateVars
  <1>5. CASE DestroyNext
    <2>1. CASE bye
      BY <2>1, Zenon DEF Flags, bye, queueVars, delegateVars
    <2>2. CASE DeleteSelf
      BY <2>2, Zenon DEF Flags, DeleteSelf, DeleteTask, delegateVars
    <2>3. CASE stop
      BY <2>3, Zenon DEF Flags, stop, queueVars
    <2>4. CASE Join
      BY <2>4, Zenon DEF Flags, Join, queueVars, delegateVars
    <2>5. CASE OwnerDestroy
      BY <2>5, Zenon DEF Flags, OwnerDestroy, Decrement, queueVars
    <2>6. CASE OwnerDeleteThis
      BY <2>6, Zenon DEF Flags, OwnerDeleteThis, queueVars
    <2> QED
      BY <1>5, <2>1, <2>2, <2>3, <2>4, <2>5, <2>6 DEF DestroyNext
  <1>6. CASE UNCHANGED vars
    BY <1>6, Zenon DEF Flags, vars, queueVars, delegateVars
  <1> QED
    BY <1>1, <1>2, <1>3, <1>4, <1>5, <1>6 DEF Next

\* Every step keeps the accounts of references and objects.
LEMMA LifeStep == MsgInv /\ [Next]_vars => (UnblockInv /\ RefInv /\ TaskInv)'
  <1> SUFFICES ASSUME MsgInv, [Next]_vars
               PROVE  UnblockInv' /\ RefInv' /\ TaskInv'
    OBVIOUS
  <1> USE DEF MsgInv, Shape, Flags, ThreadAt, OwnerAt, UnblockInv, RefInv,
          TaskInv, Holds, Runs, Over, OwnerHolds
  <1>1. CASE sendMsg
    <2>0. thread' \in {thread, Signalled}
      BY <1>1, Zenon DEF sendMsg, Queued, NotAdded, Refused
    <2>1. thread' = thread \/ (thread = "wait" /\ thread' = "woken")
      BY <2>0, Zenon DEF Signalled
    <2> QED
      BY <1>1, <2>1 DEF sendMsg, delegateVars
  <1>2. CASE threadMain
    BY <1>2 DEF threadMain, queueVars, delegateVars
  <1>3. CASE Loop
    BY <1>3 DEF Loop, queueVars, delegateVars
  <1>4. CASE msg_q_rcv \/ Woken
    <2>1. \/ thread' \in {"wait", "proc"}
          \/ thread' = "exit" /\ unblocked
      BY <1>4 DEF msg_q_rcv, Woken, WaitOrTake, Take
    <2>2. thread \in {"rcv", "woken"}
      BY <1>4 DEF msg_q_rcv, Woken
    <2> QED
      BY <1>4, <2>1, <2>2 DEF msg_q_rcv, Woken, delegateVars
  <1>5. CASE proc
    BY <1>5 DEF proc, delegateVars
  <1>6. CASE Exit
    BY <1>6 DEF Exit, queueVars
  <1>7. CASE DeleteRunnable
    BY <1>7 DEF DeleteRunnable, DeleteTask, delegateVars
  <1>8. CASE ThreadDestroy
    BY <1>8 DEF ThreadDestroy, Decrement, AfterDecrement, queueVars
  <1>9. CASE ThreadDeleteThis
    BY <1>9 DEF ThreadDeleteThis, queueVars
  <1>10. CASE Spurious
    BY <1>10 DEF Spurious, queueVars, delegateVars
  <1>11. CASE msg_q_unblock
    BY <1>11 DEF msg_q_unblock, Signalled, delegateVars
  <1>12. CASE bye
    BY <1>12 DEF bye, queueVars, delegateVars
  <1>13. CASE DeleteSelf
    BY <1>13 DEF DeleteSelf, DeleteTask, delegateVars
  <1>14. CASE stop
    BY <1>14 DEF stop, queueVars
  <1>15. CASE Join
    BY <1>15 DEF Join, queueVars, delegateVars
  <1>16. CASE OwnerDestroy
    BY <1>16 DEF OwnerDestroy, Decrement, AfterDecrement, queueVars
  <1>17. CASE OwnerDeleteThis
    BY <1>17 DEF OwnerDeleteThis, queueVars
  <1>18. CASE UNCHANGED vars
    BY <1>18 DEF vars, queueVars, delegateVars
  <1> QED
    BY <1>1, <1>2, <1>3, <1>4, <1>5, <1>6, <1>7, <1>8, <1>9, <1>10, <1>11,
       <1>12, <1>13, <1>14, <1>15, <1>16, <1>17, <1>18
    DEF Next, ThreadNext, DestroyNext

\* MsgInv is an invariant of the message task.
THEOREM MsgInvHolds == Spec => []MsgInv
  <1>1. MsgInv /\ [Next]_vars => MsgInv'
    BY ShapeStep, FlagsStep, LifeStep DEF MsgInv
  <1> QED
    BY InitInv, <1>1, PTL DEF Spec

\* Type correctness of the queue, the two threads and the delegate.
THEOREM MsgTypeCorrect == Spec => []MsgTypeOK
  <1>1. MsgInv => MsgTypeOK
    <2> SUFFICES ASSUME MsgInv PROVE MsgTypeOK
      OBVIOUS
    <2> QED BY Zenon DEF MsgInv, Shape, Flags, MsgTypeOK
  <1> QED
    BY MsgInvHolds, <1>1, PTL

\* Neither thread uses the delegate or the task after it was deleted.
THEOREM UsesAreSafe == Spec => []AliveWhileUsed
  <1>1. MsgInv => AliveWhileUsed
    BY DEF MsgInv, Shape, ThreadAt, OwnerAt, UnblockInv, RefInv, TaskInv,
       Holds, Runs, Over, OwnerHolds, AliveWhileUsed
  <1> QED
    BY MsgInvHolds, <1>1, PTL

\* Once the owner and the thread have ended, both objects have been deleted.
THEOREM LeavesNothing == Spec => []NothingIsLeft
  <1>1. MsgInv => NothingIsLeft
    BY DEF MsgInv, RefInv, TaskInv, NothingIsLeft
  <1> QED
    BY MsgInvHolds, <1>1, PTL

-----------------------------------------------------------------------------
\* The refinement: sequences first.

\* Adding at the head is appending to the queue.
LEMMA AddIsAppend ==
    ASSUME NEW S, NEW s \in Seq(S), NEW m \in S
    PROVE  OldestFirst(<<m>> \o s) = Append(OldestFirst(s), m)
  <1> DEFINE t == <<m>> \o s
  <1>1. t \in Seq(S) /\ Len(t) = Len(s) + 1 /\ t[1] = m
    OBVIOUS
  <1>2. \A i \in 1..Len(s) : t[i + 1] = s[i]
    OBVIOUS
  <1>3. OldestFirst(s) \in Seq(S) /\ Len(OldestFirst(s)) = Len(s)
    BY DEF OldestFirst
  <1>4. OldestFirst(t) \in Seq(S) /\ Len(OldestFirst(t)) = Len(s) + 1
    BY <1>1 DEF OldestFirst
  <1> HIDE DEF t
  <1>5. \A i \in 1..(Len(s) + 1) :
          OldestFirst(t)[i] = Append(OldestFirst(s), m)[i]
    <2> TAKE i \in 1..(Len(s) + 1)
    <2>1. OldestFirst(t)[i] = t[Len(s) + 2 - i]
      BY <1>1 DEF OldestFirst
    <2>2. CASE i = Len(s) + 1
      BY <1>1, <1>3, <2>1, <2>2
    <2>3. CASE i \in 1..Len(s)
      <3>1. OldestFirst(s)[i] = s[Len(s) + 1 - i]
        BY <2>3 DEF OldestFirst
      <3>2. Len(s) + 1 - i \in 1..Len(s)
        BY <2>3
      <3>3. t[Len(s) + 1 - i + 1] = s[Len(s) + 1 - i]
        BY <1>2, <3>2
      <3> QED BY <1>3, <2>1, <2>3, <3>1, <3>3
    <2>4. i = Len(s) + 1 \/ i \in 1..Len(s)
      OBVIOUS
    <2> QED BY <2>2, <2>3, <2>4, Zenon
  <1>6. Append(OldestFirst(s), m) \in Seq(S)
        /\ Len(Append(OldestFirst(s), m)) = Len(s) + 1
    BY <1>3
  <1> QED
    BY <1>4, <1>5, <1>6 DEF t

\* Taking the tail is taking the oldest message.
LEMMA TakeIsHead ==
    ASSUME NEW S, NEW s \in Seq(S), s # <<>>
    PROVE  <<s[Len(s)]>> \o OldestFirst(SubSeq(s, 1, Len(s) - 1))
             = OldestFirst(s)
  <1> DEFINE t == SubSeq(s, 1, Len(s) - 1)
  <1>1. Len(s) \in Nat /\ Len(s) >= 1
    OBVIOUS
  <1>2. /\ t \in Seq(S)
        /\ Len(t) = Len(s) - 1
        /\ \A i \in 1..(Len(s) - 1) : t[i] = s[i]
    <2>1. t \in Seq(S)
      OBVIOUS
    <2>2. Len(t) = Len(s) - 1
      BY <1>1
    <2>3. \A i \in 1..(Len(s) - 1) : t[i] = s[i]
      BY <1>1
    <2> QED BY <2>1, <2>2, <2>3
  <1> HIDE DEF t
  <1>3. OldestFirst(t) \in Seq(S) /\ Len(OldestFirst(t)) = Len(s) - 1
    BY <1>2 DEF OldestFirst
  <1>4. OldestFirst(s) \in Seq(S) /\ Len(OldestFirst(s)) = Len(s)
    BY DEF OldestFirst
  <1> DEFINE u == <<s[Len(s)]>> \o OldestFirst(t)
  <1>5. u \in Seq(S) /\ Len(u) = Len(s)
    BY <1>1, <1>3
  <1>6. \A i \in 1..Len(s) : u[i] = OldestFirst(s)[i]
    <2> TAKE i \in 1..Len(s)
    <2>1. OldestFirst(s)[i] = s[Len(s) + 1 - i]
      BY DEF OldestFirst
    <2>2. CASE i = 1
      BY <1>1, <1>3, <2>1, <2>2
    <2>3. CASE i \in 2..Len(s)
      <3>1. u[i] = OldestFirst(t)[i - 1]
        BY <1>1, <1>3, <2>3
      <3>2. OldestFirst(t)[i - 1] = t[Len(s) + 1 - i]
        BY <1>2, <2>3 DEF OldestFirst
      <3>3. Len(s) + 1 - i \in 1..(Len(s) - 1)
        BY <2>3
      <3> QED BY <1>2, <2>1, <3>1, <3>2, <3>3
    <2>4. i = 1 \/ i \in 2..Len(s)
      OBVIOUS
    <2> QED BY <2>2, <2>3, <2>4, Zenon
  <1> HIDE DEF u
  <1>7. u = OldestFirst(s)
    BY <1>4, <1>5, <1>6
  <1> QED
    BY <1>7 DEF u, t

\* What appending to, and the head and the tail of, <<a>> \o t are.
LEMMA InFront ==
    ASSUME NEW S, NEW t \in Seq(S), NEW a \in S, NEW m \in S
    PROVE  /\ <<a>> \o t # <<>>
           /\ Head(<<a>> \o t) = a
           /\ Tail(<<a>> \o t) = t
           /\ Append(<<a>> \o t, m) = <<a>> \o Append(t, m)
  <1>1. <<a>> \o t # <<>> /\ Head(<<a>> \o t) = a
    OBVIOUS
  <1>2. Tail(<<a>> \o t) = t
    OBVIOUS
  <1>3. Append(<<a>> \o t, m) = <<a>> \o Append(t, m)
    OBVIOUS
  <1> QED BY <1>1, <1>2, <1>3

\* The constructed task is an empty open queue.
LEMMA InitRefines == Init => Fifo!FifoInit
  <1> SUFFICES ASSUME Init PROVE Fifo!FifoInit
    OBVIOUS
  <1>1. list = <<>> /\ msg = 0 /\ handled = <<>> /\ unblocked = FALSE
    BY DEF Init, msg_q_init
  <1>2. Pending = <<>>
    BY <1>1 DEF Pending, OldestFirst
  <1>3. Phase = "open"
    BY <1>1 DEF Phase
  <1> QED
    BY <1>1, <1>2, <1>3 DEF Fifo!FifoInit

\* A message that msg_q_snd queues is accepted.
LEMMA QueuedRefines ==
    ASSUME MsgInv, sendMsg, Queued(sent + 1)
    PROVE  Fifo!Accept(sent + 1) /\ sent + 1 \in Msgs
  <1> USE MsgTaskAssumption
  <1> DEFINE S == 1..(sent + 1)
             m == sent + 1
             old == OldestFirst(list)
  <1>1. /\ sent \in Nat /\ sent + 1 \in Msgs
        /\ list \in Seq(S) /\ m \in S /\ msg \in 0..sent
    BY DEF MsgInv, Shape, sendMsg, Msgs
  <1>2. list' = <<m>> \o list /\ msg' = msg /\ handled' = handled
        /\ unblocked' = unblocked /\ unblocked = FALSE
    BY DEF MsgInv, Flags, sendMsg, Queued, linked_list_add
  <1> HIDE DEF S, m
  <1>3. OldestFirst(list') = Append(old, m)
    BY <1>1, <1>2, AddIsAppend
  <1>4. old \in Seq(S)
    BY <1>1 DEF OldestFirst
  <1>5. Pending' = Append(Pending, m)
    <2>1. CASE msg = 0
      BY <1>2, <1>3, <2>1 DEF Pending
    <2>2. CASE msg # 0
      <3>1. msg \in S
        BY <1>1, <2>2 DEF S
      <3>2. Append(<<msg>> \o old, m) = <<msg>> \o Append(old, m)
        BY <1>1, <1>4, <3>1, InFront
      <3> QED BY <1>2, <1>3, <2>2, <3>2 DEF Pending
    <2> QED BY <2>1, <2>2
  <1>6. Phase = "open" /\ Phase' = "open"
    BY <1>2 DEF Phase
  <1> QED
    BY <1>1, <1>2, <1>5, <1>6 DEF Fifo!Accept, m

\* Moving a message from the list into the thread's hands changes nothing.
LEMMA TakeRefines ==
    ASSUME MsgInv, list # <<>>, Take, msg = 0
    PROVE  Pending' = Pending
  <1>1. list \in Seq(1..sent) /\ sent \in Nat
    BY DEF MsgInv, Shape
  <1>2. list[Len(list)] # 0
    BY <1>1
  <1>3. msg' = list[Len(list)] /\ list' = SubSeq(list, 1, Len(list) - 1)
    BY DEF Take, Tail_data, linked_list_remove
  <1>4. <<list[Len(list)]>> \o OldestFirst(SubSeq(list, 1, Len(list) - 1))
          = OldestFirst(list)
    BY <1>1, TakeIsHead
  <1> QED
    BY <1>2, <1>3, <1>4 DEF Pending

\* Running a handler is handling the oldest message.
LEMMA ProcRefines ==
    ASSUME MsgInv, proc
    PROVE  Fifo!Handle
  <1> DEFINE old == OldestFirst(list)
  <1>1. /\ thread = "proc" /\ thread' = "loop" /\ msg' = 0
        /\ list' = list /\ unblocked' = unblocked
        /\ handled' = Append(handled, msg)
    BY DEF proc
  <1>2. msg \in 1..sent /\ list \in Seq(1..sent) /\ sent \in Nat
    BY <1>1 DEF MsgInv, Shape
  <1>3. old \in Seq(1..sent)
    BY <1>2 DEF OldestFirst
  <1>4. Pending = <<msg>> \o old /\ Pending' = old
    BY <1>1, <1>2 DEF Pending
  <1>5. Pending # <<>> /\ Head(Pending) = msg /\ Tail(Pending) = old
    BY <1>2, <1>3, <1>4, InFront
  <1>6. Phase \in {"open", "closing"}
        /\ Phase' = IF Phase = "closing" THEN "closed" ELSE Phase
    BY <1>1 DEF Phase
  <1> QED
    BY <1>1, <1>4, <1>5, <1>6 DEF Fifo!Handle

\* Deleting the task discards what is queued.
LEMMA DeleteRefines ==
    ASSUME MsgInv, DeleteRunnable \/ DeleteSelf
    PROVE  Fifo!Discard
  <1>1. /\ list' = <<>> /\ msg' = msg /\ handled' = handled
        /\ unblocked' = unblocked
    BY DEF DeleteRunnable, DeleteSelf, DeleteTask, msg_q_flush
  <1>2. \/ thread = "delete" /\ thread' = "destroy"
        \/ owner = "unblocked" /\ thread = "none" /\ thread' = "none"
    BY DEF DeleteRunnable, DeleteSelf
  <1>3. unblocked = TRUE /\ msg = 0
    BY <1>2 DEF MsgInv, Shape, Flags, UnblockInv, Over
  <1>4. Phase = "closed" /\ Phase' = "closed"
    BY <1>1, <1>2, <1>3 DEF Phase
  <1>5. Pending' = <<>>
    BY <1>1, <1>3 DEF Pending, OldestFirst
  <1> QED
    BY <1>1, <1>4, <1>5 DEF Fifo!Discard

\* Unblocking the queue closes it.
LEMMA UnblockRefines ==
    ASSUME MsgInv, msg_q_unblock
    PROVE  Fifo!Close
  <1>1. /\ list' = list /\ msg' = msg /\ handled' = handled
        /\ unblocked' = TRUE
    BY DEF msg_q_unblock
  <1>2. unblocked = FALSE
    BY DEF MsgInv, Flags, UnblockInv, msg_q_unblock
  <1>3. Phase = "open" /\ Phase' \in {"closing", "closed"}
    BY <1>1, <1>2 DEF Phase
  <1>4. Pending' = Pending
    BY <1>1 DEF Pending
  <1> QED
    BY <1>1, <1>3, <1>4 DEF Fifo!Close

\* Every step of the message task is a step of the FIFO, or none.
LEMMA StepRefines ==
    MsgInv /\ [Next]_vars => [Fifo!FifoNext]_(Fifo!fifoVars)
  <1> SUFFICES ASSUME MsgInv, [Next]_vars
               PROVE  Fifo!FifoNext \/ UNCHANGED Fifo!fifoVars
    OBVIOUS
  <1>0. ASSUME list' = list, msg' = msg, handled' = handled, Phase' = Phase
        PROVE  UNCHANGED Fifo!fifoVars
    <2>1. Pending' = Pending
      BY <1>0 DEF Pending
    <2> QED BY <1>0, <2>1 DEF Fifo!fifoVars
  <1>1. CASE sendMsg
    <2>1. CASE Queued(sent + 1)
      BY <1>1, <2>1, QueuedRefines DEF Fifo!FifoNext
    <2>2. CASE NotAdded(sent + 1) \/ Refused(sent + 1)
      <3>1. list' = list /\ msg' = msg /\ handled' = handled
            /\ unblocked' = unblocked
        BY <1>1, <2>2 DEF sendMsg, NotAdded, Refused
      <3>2. ~unblocked \/ thread' = thread
        BY <2>2, Zenon DEF NotAdded, Refused
      <3>3. Phase' = Phase
        BY <3>1, <3>2 DEF Phase
      <3> QED BY <1>0, <3>1, <3>3
    <2> QED BY <1>1, <2>1, <2>2, Zenon DEF sendMsg
  <1>2. CASE msg_q_rcv
    <2>1. handled' = handled /\ unblocked' = unblocked /\ thread = "rcv"
      BY <1>2 DEF msg_q_rcv
    <2>2. CASE unblocked
      <3>1. list' = list /\ msg' = msg /\ thread' = "exit"
        BY <1>2, <2>2, Zenon DEF msg_q_rcv
      <3>2. Phase' = Phase
        BY <2>1, <2>2, <3>1 DEF Phase
      <3> QED BY <1>0, <2>1, <3>1, <3>2
    <2>3. CASE ~unblocked
      <3>1. Phase' = Phase
        BY <2>1, <2>3 DEF Phase
      <3>2. Pending' = Pending
        <4>1. CASE list # <<>> /\ Take
          <5>1. msg = 0
            BY <2>1 DEF MsgInv, Shape
          <5> QED BY <4>1, <5>1, TakeRefines
        <4>2. CASE list' = list /\ msg' = msg
          BY <4>2 DEF Pending
        <4> QED BY <1>2, <2>3, <4>1, <4>2, Zenon DEF msg_q_rcv, WaitOrTake
      <3> QED BY <2>1, <3>1, <3>2 DEF Fifo!fifoVars
    <2> QED BY <2>2, <2>3
  <1>3. CASE Woken
    <2>1. handled' = handled /\ unblocked' = unblocked /\ thread = "woken"
      BY <1>3 DEF Woken
    <2>2. CASE list = <<>> /\ ~unblocked /\ list' = list /\ msg' = msg
      <3>1. Phase' = Phase
        BY <2>1, <2>2 DEF Phase
      <3> QED BY <1>0, <2>1, <2>2, <3>1
    <2>3. CASE list = <<>> /\ unblocked /\ thread' = "exit"
               /\ list' = list /\ msg' = msg
      <3>1. Phase = "closing" /\ Phase' = "closed"
        BY <2>1, <2>3 DEF Phase
      <3>2. Pending' = Pending
        BY <2>3 DEF Pending
      <3> QED BY <2>1, <3>1, <3>2 DEF Fifo!FifoNext, Fifo!GiveUp
    <2>4. CASE list # <<>> /\ Take
      <3>1. msg = 0
        BY <2>1 DEF MsgInv, Shape
      <3>2. Pending' = Pending
        BY <2>4, <3>1, TakeRefines
      <3>3. Phase' = Phase
        BY <2>1, <2>4 DEF Phase, Take
      <3> QED BY <2>1, <3>2, <3>3 DEF Fifo!fifoVars
    <2> QED BY <1>3, <2>2, <2>3, <2>4, Zenon DEF Woken, WaitOrTake
  <1>4. CASE proc
    BY <1>4, ProcRefines DEF Fifo!FifoNext
  <1>5. CASE DeleteRunnable \/ DeleteSelf
    BY <1>5, DeleteRefines DEF Fifo!FifoNext
  <1>6. CASE msg_q_unblock
    BY <1>6, UnblockRefines DEF Fifo!FifoNext
  <1>7. CASE threadMain \/ Loop \/ Exit \/ Spurious \/ ThreadDestroy
               \/ ThreadDeleteThis
    <2>1. list' = list /\ msg' = msg /\ handled' = handled
          /\ unblocked' = unblocked
      BY <1>7 DEF threadMain, Loop, Exit, Spurious, ThreadDestroy,
         ThreadDeleteThis, queueVars
    <2>2. \/ thread = "wait" /\ thread' = "woken"
          \/ /\ thread \notin {"wait", "woken", "proc"}
             /\ thread' \notin {"wait", "woken", "proc"}
      BY <1>7 DEF threadMain, Loop, Exit, Spurious, ThreadDestroy,
         ThreadDeleteThis, AfterDecrement
    <2>3. Phase' = Phase
      BY <2>1, <2>2 DEF Phase
    <2> QED BY <1>0, <2>1, <2>3
  <1>8. CASE bye \/ stop \/ Join \/ OwnerDestroy \/ OwnerDeleteThis
             \/ UNCHANGED vars
    <2>1. list' = list /\ msg' = msg /\ handled' = handled
          /\ unblocked' = unblocked /\ thread' = thread
      BY <1>8 DEF bye, stop, Join, OwnerDestroy, OwnerDeleteThis, vars,
         queueVars
    <2>2. Phase' = Phase
      BY <2>1 DEF Phase
    <2> QED BY <1>0, <2>1, <2>2
  <1> QED
    BY <1>1, <1>2, <1>3, <1>4, <1>5, <1>6, <1>7, <1>8
    DEF Next, ThreadNext, DestroyNext

\* The message task implements the FIFO that the other components assume:
\* order, at most one handling of each message, at most one after unblock.
THEOREM TaskIsFifo == Spec => IsFifo
  <1> QED
    BY MsgInvHolds, InitRefines, StepRefines, PTL DEF Spec, IsFifo,
       Fifo!FifoSpec
==============================================================================
