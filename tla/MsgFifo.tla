------------------------------- MODULE MsgFifo -------------------------------
(***************************************************************************)
(* What the other components assume of a message task: messages are        *)
(* handled one at a time, each at most once, in the order in which they    *)
(* were accepted; and once the task is closed at most one more message is  *)
(* handled, the others being discarded.                                    *)
(***************************************************************************)
EXTENDS Naturals, Sequences

CONSTANT Messages      \* the messages that may be sent

VARIABLES fifo,        \* the messages accepted and not yet handled, in order
          done,        \* the messages handled, in order
          phase        \* "open", "closing" (one more may be handled), "closed"

fifoVars == <<fifo, done, phase>>

FifoInit ==
  /\ fifo = <<>>
  /\ done = <<>>
  /\ phase = "open"

Accept(m) ==
  /\ phase = "open"
  /\ fifo' = Append(fifo, m)
  /\ UNCHANGED <<done, phase>>

Handle ==
  /\ phase # "closed"
  /\ fifo # <<>>
  /\ done' = Append(done, Head(fifo))
  /\ fifo' = Tail(fifo)
  /\ phase' = IF phase = "closing" THEN "closed" ELSE phase

Close ==
  /\ phase = "open"
  /\ phase' \in {"closing", "closed"}
  /\ UNCHANGED <<fifo, done>>

GiveUp ==
  /\ phase = "closing"
  /\ phase' = "closed"
  /\ UNCHANGED <<fifo, done>>

Discard ==
  /\ phase = "closed"
  /\ fifo' = <<>>
  /\ UNCHANGED <<done, phase>>

FifoNext ==
  \/ \E m \in Messages : Accept(m)
  \/ Handle
  \/ Close
  \/ GiveUp
  \/ Discard

FifoSpec == FifoInit /\ [][FifoNext]_fifoVars
==============================================================================
