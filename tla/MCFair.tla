-------------------------------- MODULE MCFair --------------------------------
(***************************************************************************)
(* The components with liveness properties that do not interact, checked   *)
(* in one run: the daemon connection, the timers and the emergency NIF.    *)
(* The first state chooses which of them moves, so that the state space is *)
(* the sum of theirs and not the product.                                  *)
(***************************************************************************)
EXTENDS DmnConn, LocTimer, AgpsDs

OpenResults == {Queues, Queues \ {"server"}, {"server", "resp"}}

VARIABLE part

vars == <<part, dVars, timerVars, dsVars>>

Init == part \in {"dmn", "timer", "ds"} /\ DmnInit /\ TimerInit /\ DsInit

(* Timers and retries always go on; the server may rest once it has ended, *)
(* so that it is not checked for deadlock.                                 *)
Rest == part = "dmn" /\ UNCHANGED vars

Next ==
    \/ part = "dmn" /\ DmnNext /\ UNCHANGED <<part, timerVars, dsVars>>
    \/ part = "timer" /\ TimerNext /\ UNCHANGED <<part, dVars, dsVars>>
    \/ part = "ds" /\ DsNext /\ UNCHANGED <<part, dVars, timerVars>>
    \/ Rest

(* DmnFairness, DsFairness and TimerFairness; time is only fair to the     *)
(* timers, as it is the one action of these that the first state enables.  *)
Fairness ==
    /\ DmnFairness /\ DsFairness
    /\ WF_timerVars(MsgThread) /\ WF_timerVars(PollThread) /\ WF_timerVars(part = "timer" /\ Tick)

Spec == Init /\ [][Next]_vars /\ Fairness
=============================================================================
