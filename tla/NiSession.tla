------------------------------ MODULE NiSession ------------------------------
(***************************************************************************)
(* Network-initiated location requests (loc_eng_ni.cpp).  The message      *)
(* thread saves a request in one of two sessions and starts a thread that  *)
(* waits for the user's response or a timeout; the framework's thread      *)
(* delivers the response; an engine restart discards the requests.  The    *)
(* session's fields are only partly protected by its lock tLock, so every  *)
(* access made outside the lock is a step of its own here.                 *)
(*                                                                         *)
(* A request is known by its reqID n, which also names its thread and its  *)
(* payload (passThrough).  A request that is refused is freed on the spot  *)
(* and leaves no trace.  reqIDCounter stands for all requests made so far. *)
(***************************************************************************)
EXTENDS Naturals, Sequences, FiniteSets

CONSTANTS
    MaxRequests,  \* bound: requests accepted in a behaviour
    MaxRestarts   \* bound: engine restarts in a behaviour

ASSUME NiAssumption ==
    MaxRequests \in Nat /\ MaxRestarts \in Nat

Sessions  == {"sessionEs", "session"}
Requests  == 1..MaxRequests
Responses == {"ACCEPT", "DENY"}

VARIABLES
    raw,           \* rawRequest of each session, 0 for NULL
    reqID,         \* reqID of each session
    respRecvd,     \* respRecvd of each session
    resp,          \* resp of each session
    reqIDCounter,
    at,            \* where the NI thread of each request is
    sess,          \* the session it was started for
    out,           \* the message it is about to send
    inform,        \* queue of LocEngInformNiResponse messages
    freed,         \* how often each payload has been freed
    msgThread,     \* where the message thread is in an engine restart
    user,          \* where the framework's thread is in loc_eng_ni_respond
    given,         \* the user's response to each notification
    restarts

session == <<raw, reqID, respRecvd, resp>>
threads == <<at, sess, out>>
vars == <<session, reqIDCounter, threads, inform, freed, msgThread, user,
          given, restarts>>

None == "none"
Idle == [at |-> "idle", s |-> None, n |-> 0]
NoMsg == [n |-> 0, resp |-> None, by |-> 0]
Msgs == [n : Requests, resp : Responses \cup {"NORESP", "IGNORE", None},
         by : Requests]

\* The one type invariant.
NiTypeOK ==
    /\ raw \in [Sessions -> 0..MaxRequests]
    /\ reqID \in [Sessions -> 0..MaxRequests]
    /\ respRecvd \in [Sessions -> BOOLEAN]
    /\ resp \in [Sessions -> Responses \cup {"NORESP", "IGNORE", None}]
    /\ reqIDCounter \in 0..MaxRequests
    /\ at \in [Requests -> {None, "start", "wait", "out", "done"}]
    /\ sess \in [Requests -> Sessions \cup {None}]
    /\ out \in [Requests -> Msgs \cup {NoMsg}]
    /\ inform \in Seq(Msgs)
    /\ freed \in [Requests -> Nat]
    /\ msgThread \in [at : {"idle", "check", "free", "signal"},
                      s : Sessions \cup {None}, n : 0..MaxRequests]
    /\ user \in [at : {"idle", "ignore", "set"},
                 s : Sessions \cup {None}, n : 0..MaxRequests]
    /\ given \in [Requests -> Responses \cup {None}]
    /\ restarts \in 0..MaxRestarts

\* loc_eng_ni_init; resp is zero because loc_afw_data is static.
Init ==
    /\ raw = [s \in Sessions |-> 0]
    /\ reqID = [s \in Sessions |-> 0]
    /\ respRecvd = [s \in Sessions |-> FALSE]
    /\ resp = [s \in Sessions |-> None]
    /\ reqIDCounter = 0
    /\ at = [n \in Requests |-> None]
    /\ sess = [n \in Requests |-> None]
    /\ out = [n \in Requests |-> NoMsg]
    /\ inform = << >>
    /\ freed = [n \in Requests |-> 0]
    /\ msgThread = Idle /\ user = Idle
    /\ given = [n \in Requests |-> None]
    /\ restarts = 0

-----------------------------------------------------------------------------
(* The message thread.                                                     *)

\* Mutant of MayStart: a request in session is overwritten.
MayStartUnchecked(s) == raw["sessionEs"] = 0

\* Mutant of MayStart: the emergency session is not looked at.
MayStartAny(s) == raw[s] = 0

\* An emergency request needs only its own session free; any other request
\* is ignored while either session is in progress.
MayStart(s) == raw[s] = 0 /\ raw["sessionEs"] = 0

\* Mutant of request_handler: the id is taken before the increment is stored.
request_handlerMiscounted(s, created) ==
    /\ msgThread = Idle /\ reqIDCounter < MaxRequests /\ MayStart(s)
    /\ LET n == reqIDCounter + 1
       IN  /\ raw' = [raw EXCEPT ![s] = n]
           /\ reqID' = [reqID EXCEPT ![s] = n + 1]
           /\ reqIDCounter' = n
           /\ at' = [at EXCEPT ![n] = "start"]
           /\ sess' = [sess EXCEPT ![n] = s]
    /\ UNCHANGED <<respRecvd, resp, out, inform, freed, msgThread, user, given,
                   restarts>>

\* loc_eng_ni_request_handler, on the message thread and without tLock; created
\* says whether pthread_create succeeded.
request_handler(s, created) ==
    /\ msgThread = Idle /\ reqIDCounter < MaxRequests /\ MayStart(s)
    /\ LET n == reqIDCounter + 1
       IN  /\ raw' = [raw EXCEPT ![s] = n]
           /\ reqID' = [reqID EXCEPT ![s] = n]
           /\ reqIDCounter' = n
           /\ at' = [at EXCEPT ![n] = IF created THEN "start" ELSE None]
           /\ sess' = [sess EXCEPT ![n] = s]
    /\ UNCHANGED <<respRecvd, resp, out, inform, freed, msgThread, user, given,
                   restarts>>

RequestNi(s) == \E created \in BOOLEAN : request_handler(s, created)

\* Mutant of InformNiResponse: the message is processed and kept.
InformNiResponseKept ==
    /\ msgThread = Idle /\ inform # << >>
    /\ freed' = [freed EXCEPT ![Head(inform).n] = @ + 1]
    /\ UNCHANGED <<session, reqIDCounter, threads, inform, msgThread, user,
                   given, restarts>>

\* LocEngInformNiResponse::proc and its destructor, which frees the payload.
InformNiResponse ==
    /\ msgThread = Idle /\ inform # << >>
    /\ inform' = Tail(inform)
    /\ freed' = [freed EXCEPT ![Head(inform).n] = @ + 1]
    /\ UNCHANGED <<session, reqIDCounter, threads, msgThread, user, given,
                   restarts>>

\* loc_eng_ni_reset_on_engine_restart handles sessionEs, then session.
NextReset(s) == IF s = "sessionEs"
                THEN [at |-> "check", s |-> "session", n |-> 0] ELSE Idle

EngineDown ==
    /\ msgThread = Idle /\ restarts < MaxRestarts
    /\ restarts' = restarts + 1
    /\ msgThread' = [at |-> "check", s |-> "sessionEs", n |-> 0]
    /\ UNCHANGED <<session, reqIDCounter, threads, inform, freed, user, given>>

\* The test of rawRequest, without the lock.
ResetCheck ==
    LET s == msgThread.s
    IN  /\ msgThread.at = "check"
        /\ msgThread' = IF raw[s] = 0 THEN NextReset(s)
                        ELSE [at |-> "free", s |-> s, n |-> raw[s]]
        /\ UNCHANGED <<session, reqIDCounter, threads, inform, freed, user,
                       given, restarts>>

\* free(rawRequest), still without the lock: the value freed is the one the
\* test read or the one there now.
ResetFree ==
    LET s == msgThread.s
    IN  /\ msgThread.at = "free"
        /\ \E n \in {msgThread.n, raw[s]} :
              freed' = IF n = 0 THEN freed ELSE [freed EXCEPT ![n] = @ + 1]
        /\ raw' = [raw EXCEPT ![s] = 0]
        /\ msgThread' = [at |-> "signal", s |-> s, n |-> 0]
        /\ UNCHANGED <<reqID, respRecvd, resp, reqIDCounter, threads, inform,
                       user, given, restarts>>

\* The wake-up of ni_thread_proc, under the lock.
ResetSignal ==
    LET s == msgThread.s
    IN  /\ msgThread.at = "signal"
        /\ respRecvd' = [respRecvd EXCEPT ![s] = TRUE]
        /\ msgThread' = NextReset(s)
        /\ UNCHANGED <<raw, reqID, resp, reqIDCounter, threads, inform, freed,
                       user, given, restarts>>

Reset == ResetCheck \/ ResetFree \/ ResetSignal

-----------------------------------------------------------------------------
(* ni_thread_proc, one thread per request.                                 *)

\* The first test of respRecvd finds no response.
Wait(n) ==
    /\ at[n] = "start" /\ ~ respRecvd[sess[n]]
    /\ at' = [at EXCEPT ![n] = "wait"]
    /\ UNCHANGED <<session, sess, out, reqIDCounter, inform, freed, msgThread,
                   user, given, restarts>>

\* Mutant of TakeRequest: rawRequest is not cleared.
TakeRequestKept(n, r) ==
    LET s == sess[n]
    IN  /\ respRecvd' = [respRecvd EXCEPT ![s] = FALSE]
        /\ resp' = [resp EXCEPT ![s] = r]
        /\ at' = [at EXCEPT ![n] = "out"]
        /\ out' = [out EXCEPT ![n] = IF raw[s] = 0 \/ r = "IGNORE" THEN NoMsg
                                     ELSE [n |-> raw[s], resp |-> r, by |-> n]]
        /\ UNCHANGED <<raw, freed>>

\* The rest of the critical section, with resp being r: a request that is
\* still there goes into a message, or is freed when it is to be ignored.
TakeRequest(n, r) ==
    LET s == sess[n]
    IN  /\ respRecvd' = [respRecvd EXCEPT ![s] = FALSE]
        /\ resp' = [resp EXCEPT ![s] = r]
        /\ at' = [at EXCEPT ![n] = "out"]
        /\ out' = [out EXCEPT ![n] = IF raw[s] = 0 \/ r = "IGNORE" THEN NoMsg
                                     ELSE [n |-> raw[s], resp |-> r, by |-> n]]
        /\ freed' = IF raw[s] # 0 /\ r = "IGNORE"
                    THEN [freed EXCEPT ![raw[s]] = @ + 1] ELSE freed
        /\ raw' = [raw EXCEPT ![s] = 0]

\* The loop ends because respRecvd is set.
Answered(n) ==
    /\ at[n] \in {"start", "wait"} /\ respRecvd[sess[n]]
    /\ TakeRequest(n, resp[sess[n]])
    /\ UNCHANGED <<reqID, reqIDCounter, sess, inform, msgThread, user, given,
                   restarts>>

\* Mutant of TimedOut: a timeout is not noticed, the thread waits on.
TimedOutIgnored(n) ==
    /\ at[n] = "wait" /\ respRecvd[sess[n]]
    /\ TakeRequest(n, "NORESP")
    /\ UNCHANGED <<reqID, reqIDCounter, sess, inform, msgThread, user, given,
                   restarts>>

\* pthread_cond_timedwait returns ETIMEDOUT, whatever respRecvd is by now.
TimedOut(n) ==
    /\ at[n] = "wait"
    /\ TakeRequest(n, "NORESP")
    /\ UNCHANGED <<reqID, reqIDCounter, sess, inform, msgThread, user, given,
                   restarts>>

\* What the thread does after unlocking: reqID is cleared without the lock, and
\* the message sent.
Exit(n) ==
    /\ at[n] = "out"
    /\ reqID' = [reqID EXCEPT ![sess[n]] = 0]
    /\ inform' = IF out[n] = NoMsg THEN inform ELSE Append(inform, out[n])
    /\ at' = [at EXCEPT ![n] = "done"]
    /\ out' = [out EXCEPT ![n] = NoMsg]
    /\ UNCHANGED <<raw, respRecvd, resp, reqIDCounter, sess, freed, msgThread,
                   user, given, restarts>>

NiThread(n) == Wait(n) \/ Answered(n) \/ TimedOut(n) \/ Exit(n)

-----------------------------------------------------------------------------
(* loc_eng_ni_respond, on the framework's thread.                          *)

\* The session a response to notification n belongs to, found without a lock.
InSession(s, n) == reqID[s] = n /\ raw[s] # 0

Found(n) == IF InSession("sessionEs", n) THEN "sessionEs"
            ELSE IF InSession("session", n) THEN "session" ELSE None

\* The user answers a notification once.
respond(n, r) ==
    /\ user = Idle /\ n <= reqIDCounter /\ given[n] = None
    /\ given' = [given EXCEPT ![n] = r]
    /\ user' = IF Found(n) = None THEN Idle
               ELSE [at |-> IF Found(n) = "sessionEs" /\ r = "ACCEPT"
                               /\ raw["session"] # 0 THEN "ignore" ELSE "set",
                     s |-> Found(n), n |-> n]
    /\ UNCHANGED <<session, reqIDCounter, threads, inform, freed, msgThread,
                   restarts>>

\* An accepted emergency request makes the other session's thread ignore its
\* request.
RespondIgnore ==
    /\ user.at = "ignore"
    /\ resp' = [resp EXCEPT !["session"] = "IGNORE"]
    /\ respRecvd' = [respRecvd EXCEPT !["session"] = TRUE]
    /\ user' = [at |-> "set", s |-> user.s, n |-> user.n]
    /\ UNCHANGED <<raw, reqID, reqIDCounter, threads, inform, freed, msgThread,
                   given, restarts>>

\* The response is handed to the session's thread, under the lock.
RespondSet ==
    /\ user.at = "set"
    /\ resp' = [resp EXCEPT ![user.s] = given[user.n]]
    /\ respRecvd' = [respRecvd EXCEPT ![user.s] = TRUE]
    /\ user' = Idle
    /\ UNCHANGED <<raw, reqID, reqIDCounter, threads, inform, freed, msgThread,
                   given, restarts>>

Framework == RespondIgnore \/ RespondSet

-----------------------------------------------------------------------------
\* All is quiet: nobody has to make another request or to restart the engine.
Quiet ==
    /\ msgThread = Idle /\ user = Idle /\ inform = << >>
    /\ \A n \in Requests : at[n] \in {None, "done"}
    /\ UNCHANGED vars

Next ==
    \/ \E s \in Sessions : RequestNi(s)
    \/ InformNiResponse \/ EngineDown \/ Reset
    \/ \E n \in Requests : NiThread(n)
    \/ \E n \in Requests, r \in Responses : respond(n, r)
    \/ Framework
    \/ Quiet

\* Threads run, waits time out, and a handler that has started goes on; nobody
\* has to make requests, to answer them or to restart the engine.
Fairness ==
    /\ WF_vars(InformNiResponse) /\ WF_vars(Reset) /\ WF_vars(Framework)
    /\ \A n \in Requests : WF_vars(NiThread(n))

Spec == Init /\ [][Next]_vars /\ Fairness

-----------------------------------------------------------------------------
(* Properties.                                                             *)

\* The messages that answer the modem: queued, or about to be queued.
Answers == {inform[i] : i \in DOMAIN inform}
             \cup ({out[n] : n \in Requests} \ {NoMsg})

\* No payload is lost, sent twice or freed under somebody who still uses it:
\* until an engine restart, whose free is not synchronised with the threads, a
\* request's payload is in a session, in one message or freed once.
PayloadHasOneOwner ==
    restarts = 0 =>
    \A n \in 1..reqIDCounter :
        Cardinality({s \in Sessions : raw[s] = n})
          + Cardinality({k \in Requests : out[k].n = n})
          + Cardinality({i \in DOMAIN inform : inform[i].n = n})
          + freed[n] = 1

\* A request is never answered twice, whatever threads, restarts and late
\* responses do: no two sessions, threads or messages hold the same request.
AnsweredOnce ==
    /\ \A s, t \in Sessions : raw[s] = raw[t] /\ raw[s] # 0 => s = t
    /\ \A k, l \in Requests :
          out[k].n = out[l].n /\ out[k].n # 0 => k = l
    /\ \A i, j \in DOMAIN inform : inform[i].n = inform[j].n => i = j
    /\ \A s \in Sessions, k \in Requests : raw[s] # 0 => raw[s] # out[k].n
    /\ \A s \in Sessions, i \in DOMAIN inform : raw[s] # inform[i].n
    /\ \A k \in Requests, i \in DOMAIN inform : out[k].n # inform[i].n

\* Until the engine restarts, the thread that finds a request in the session
\* is the request's own: every answer is sent by the thread of the request it
\* is for.
AnswerBySelf == restarts = 0 => \A a \in Answers : a.by = a.n

\* "Reset the user response flag for the next session": what the modem is told
\* the user answered is what the user answered to that very notification.
AnswerIsGiven == \A a \in Answers : a.resp # "NORESP" => a.resp = given[a.n]

\* "new supl NI ignored": an ordinary request is never taken up while an
\* emergency one is in progress, so of two requests in session the emergency
\* one is the newer.
EsIsNewer ==
    (\A s \in Sessions : raw[s] # 0) => raw["session"] < raw["sessionEs"]

\* "spawn a thread at this point to timeout to clear up the notification
\* status": no request that got its thread stays in session for ever.
EveryRequestIsSettled ==
    \A s \in Sessions, n \in Requests :
        raw[s] = n /\ at[n] # None ~> raw[s] # n

\* Every NI thread ends, even when its wake-up was consumed by another one.
EveryThreadExits ==
    \A n \in Requests : at[n] = "start" ~> at[n] = "done"

\* The sessions, threads and messages are of their types, and every payload
\* has one owner: loc_eng_ni_request_handler, ni_thread_proc and
\* LocEngInformNiResponse hand it on without losing or doubling it.
NiIsSound == NiTypeOK /\ PayloadHasOneOwner

\* A request and its thread both come to an end: the one leaves the session,
\* the other leaves ni_thread_proc, in every order of responses, time-outs and
\* restarts.
EveryRequestEnds == EveryRequestIsSettled /\ EveryThreadExits
=============================================================================
