-------------------------- MODULE AgpsStateMachine --------------------------
(***************************************************************************)
(* The transition function of the AGPS network-interface state machine     *)
(* (loc_eng_agps.cpp): the four AgpsState classes and the subscriber list  *)
(* they share.  Every operator is pure: it takes the machine m and an      *)
(* event and returns the machine after the event, the status each          *)
(* subscriber was told and the request made to the connectivity service.   *)
(*                                                                         *)
(* The list never holds two equal subscribers (addSubscriber), so it is    *)
(* the set m.subs of their IDs; m.inactive is the subset whose             *)
(* mIsInactive flag is set (always empty for ATL and BIT subscribers).     *)
(***************************************************************************)

AgpsStates == {"RELEASED", "PENDING", "ACQUIRED", "RELEASING"}

\* The events a connectivity service reports (AgpsRsrcStatus).
RsrcReports == {"GRANTED", "RELEASED", "DENIED"}

\* What a subscriber can be told through notifyRsrcStatus.
RsrcStatus == RsrcReports \cup {"UNSUBSCRIBE"}

\* The value of sendRsrcRequest's argument, or "none" when it is not called.
Requests == {"none", "REQUEST", "RELEASE"}

\* A freshly constructed AgpsStateMachine.
NewMachine == [state |-> "RELEASED", subs |-> {}, inactive |-> {}]

hasSubscribers(m) == m.subs # {}

Active(m) == m.subs \ m.inactive

hasActiveSubscribers(m) == Active(m) # {}

\* forMe: the members of the list a broadcast of the given group reaches.
forMe(m, group) ==
    CASE group = "ALL"      -> m.subs
      [] group = "ACTIVE"   -> Active(m)
      [] group = "INACTIVE" -> m.inactive

\* Mutants of addSubscriber: a subscriber that joins later is not recorded.
addSubscriberNotPending(m, id) ==
    IF m.state = "PENDING" THEN m ELSE [m EXCEPT !.subs = @ \cup {id}]

addSubscriberNotAcquired(m, id) ==
    IF m.state = "ACQUIRED" THEN m ELSE [m EXCEPT !.subs = @ \cup {id}]

\* addSubscriber clones the subscriber into the list unless an equal one,
\* active or not, is there already.
addSubscriber(m, id) == [m EXCEPT !.subs = @ \cup {id}]

Deleted(m, S) == [m EXCEPT !.subs = @ \ S, !.inactive = @ \ S]

MoveTo(m, s) == [m EXCEPT !.state = s]

\* The result of one event: the new machine, who was told what, the request.
Result(m, told, request) == [machine |-> m, told |-> told, request |-> request]

Tell(S, status) == S \X {status}

\* Mutant of NotifyAllAndDelete: postNotifyDelete is false.
NotifyAllAndKeep(m, event) ==
    Result(MoveTo(m, "RELEASED"), Tell(forMe(m, "ALL"), event), "none")

\* BROADCAST_ALL with postNotifyDelete: every subscriber is told the event and
\* deleted, and the machine is RELEASED.
NotifyAllAndDelete(m, event) ==
    Result(MoveTo(Deleted(m, forMe(m, "ALL")), "RELEASED"),
           Tell(forMe(m, "ALL"), event), "none")

\* Mutant of Unsubscribed: the subscriber is told but stays in the list.
UnsubscribedKept(m, id, waitForClose) == m

\* The part of RSRC_UNSUBSCRIBE that Pending, Acquired and Releasing share:
\* a subscriber that waits for the close to complete is marked inactive and
\* told at once; any other is told and deleted from the list.
Unsubscribed(m, id, waitForClose) ==
    IF waitForClose THEN [m EXCEPT !.inactive = @ \cup {id}]
                    ELSE Deleted(m, {id})

\* AgpsReleasedState::onRsrcEvent.  ok is sendRsrcRequest's success.
OnReleased(m, event, id, ok) ==
    CASE event = "SUBSCRIBE" ->
           LET a == addSubscriber(m, id)
           IN  Result(IF ok THEN MoveTo(a, "PENDING") ELSE a, {}, "REQUEST")
      [] event = "UNSUBSCRIBE" -> Result(m, Tell({id}, event), "none")
      [] OTHER -> Result(m, {}, "none")

\* Mutant of AfterUnsubscribe: the last subscriber to leave is not told.
AfterUnsubscribeSilent(u, told) ==
    IF ~ hasSubscribers(u) THEN Result(MoveTo(u, "RELEASED"), {}, "RELEASE")
                           ELSE Result(u, told, "none")

\* The last steps of RSRC_UNSUBSCRIBE in Pending and in Acquired: with nobody
\* left the NIF is given up at once, with only inactive subscribers left the
\* machine waits for the close to be reported.
AfterUnsubscribe(u, told) ==
    IF ~ hasSubscribers(u) THEN Result(MoveTo(u, "RELEASED"), told, "RELEASE")
    ELSE IF ~ hasActiveSubscribers(u)
         THEN Result(MoveTo(u, "RELEASING"), told, "RELEASE")
         ELSE Result(u, told, "none")

\* AgpsPendingState::onRsrcEvent.
OnPending(m, event, id, waitForClose) ==
    CASE event = "SUBSCRIBE" -> Result(addSubscriber(m, id), {}, "none")
      [] event = "UNSUBSCRIBE" ->
           AfterUnsubscribe(Unsubscribed(m, id, waitForClose), Tell({id}, event))
      [] event = "GRANTED" ->
           Result(MoveTo(m, "ACQUIRED"), Tell(forMe(m, "ACTIVE"), event), "none")
      [] event = "DENIED" -> NotifyAllAndDelete(m, event)
      [] OTHER -> Result(m, {}, "none")

\* AgpsAcquiredState::onRsrcEvent.
OnAcquired(m, event, id, waitForClose) ==
    CASE event = "SUBSCRIBE" ->
           Result(addSubscriber(m, id), Tell({id}, "GRANTED"), "none")
      [] event = "UNSUBSCRIBE" ->
           AfterUnsubscribe(Unsubscribed(m, id, waitForClose), Tell({id}, event))
      [] event = "RELEASED" -> NotifyAllAndDelete(m, event)
      [] OTHER -> Result(m, {}, "none")

\* AgpsReleasingState::onRsrcEvent.
OnReleasing(m, event, id, waitForClose) ==
    CASE event = "SUBSCRIBE" -> Result(addSubscriber(m, id), {}, "none")
      [] event = "UNSUBSCRIBE" ->
           LET u == Unsubscribed(m, id, waitForClose)
           IN  Result(IF hasSubscribers(u) THEN u ELSE MoveTo(u, "RELEASED"),
                      Tell({id}, event), "none")
      [] event \in {"DENIED", "RELEASED"} ->
           LET told == Tell(forMe(m, "INACTIVE"), event)
               d    == Deleted(m, forMe(m, "INACTIVE"))
           IN  IF hasActiveSubscribers(d)
               THEN Result(MoveTo(d, "PENDING"), told, "REQUEST")
               ELSE Result(MoveTo(d, "RELEASED"), told, "none")
      [] OTHER -> Result(m, {}, "none")

\* mStatePtr->onRsrcEvent(event, data).
onRsrcEvent(m, event, id, waitForClose, ok) ==
    CASE m.state = "RELEASED"  -> OnReleased(m, event, id, ok)
      [] m.state = "PENDING"   -> OnPending(m, event, id, waitForClose)
      [] m.state = "ACQUIRED"  -> OnAcquired(m, event, id, waitForClose)
      [] m.state = "RELEASING" -> OnReleasing(m, event, id, waitForClose)
=============================================================================
