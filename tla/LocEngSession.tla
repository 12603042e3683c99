---------------------------- MODULE LocEngSession ----------------------------
(***************************************************************************)
(* The positioning session of the location engine (loc_eng.cpp): the       *)
(* framework's calls, the reports of the modem and its restarts become     *)
(* messages of one queue, handled by one thread that keeps the session     *)
(* flag, the fix criteria, the engine status, the muted session and the    *)
(* pending deletion of aiding data.  Calls go through the ULP proxy, which *)
(* a loaded ULP library replaces while calls are under way.                *)
(*                                                                         *)
(* The fix criteria are abstracted to whether their mode is valid and to   *)
(* their recurrence; a position report to its status and whether it meets  *)
(* the reporting criteria.  NMEA, satellite reports and the settings that  *)
(* only pass through to the modem are left out.                            *)
(***************************************************************************)
EXTENDS Naturals, Sequences, FiniteSets

CONSTANTS
    AidingData,  \* kinds of aiding data
    MaxCalls,    \* bound: calls of the framework
    MaxReports,  \* bound: position reports and NI requests of the modem
    MaxRestarts, \* bound: restarts of the modem
    MaxQueue     \* bound: messages waiting when another one is posted

ASSUME LocEngSessionAssumption ==
    /\ MaxCalls \in Nat /\ MaxReports \in Nat
    /\ MaxRestarts \in Nat /\ MaxQueue \in Nat

Recurrences == {"SINGLE", "PERIODIC"}
Criteria == [valid : BOOLEAN, recurrence : Recurrences]
NoFix == [valid |-> FALSE, recurrence |-> "NONE"]
Statuses == {"SESSION_BEGIN", "SESSION_END", "ENGINE_ON", "ENGINE_OFF"}
FixStatuses == {"SUCCESS", "INTERMEDIATE", "FAILURE"}

\* What LocApiBase::startFix returns; ERR_INTERNAL is treated like
\* PHONE_OFFLINE.
StartResults == {"SUCCESS", "ENGINE_DOWN", "PHONE_OFFLINE", "FAILURE"}

Simple == {"StartFix", "StopFix", "SetUlpProxy", "MuteOneSession",
           "Down", "Ssr", "Up"}
PositionReports ==
    [type : {"ReportPosition"}, status : FixStatuses, meets : BOOLEAN]
Messages == [type : Simple]
    \cup [type : {"PositionMode"}, recurrence : Recurrences]
    \cup [type : {"DelAidData"}, f : SUBSET AidingData]
    \cup [type : {"ReportStatus"}, status : Statuses]
    \cup PositionReports

VARIABLES
    asked,     \* the framework has called start and not stopped that session
    modeSet,   \* it has called set_position_mode for the next start
    calls,     \* how many calls it has made
    ulp,       \* the proxy: who has it, its mFixSet and its mPosMode
    ulpQueue,  \* what a ULP library has yet to pass on
    queue,     \* the queue of the message task
    mNavigating, mFixCriteria,
    engine_status, fix_session_status, mute_session_state,
    aiding_data_for_deletion,
    told,      \* the statuses the framework has been told and holds for true
    over,      \* the session asked for last was refused, or its fix reported
    up,        \* the modem is running
    track,     \* the criteria of the fix it is working on, or NoFix
    sent,      \* whether its last status report says it is on
    reports, restarts

framework == <<asked, modeSet, calls>>
proxy == <<ulp, ulpQueue>>
session == <<mNavigating, mFixCriteria, over>>
status == <<engine_status, fix_session_status, mute_session_state, told>>
modem == <<up, track, sent, reports, restarts>>
vars == <<framework, proxy, queue, session, status, aiding_data_for_deletion,
          modem>>

\* The one type invariant.
SessionTypeOK ==
    /\ asked \in BOOLEAN /\ modeSet \in BOOLEAN /\ calls \in 0..MaxCalls
    /\ ulp \in [loaded : BOOLEAN, mFixSet : BOOLEAN,
                mPosMode : Recurrences \cup {"INVALID"}]
    /\ ulpQueue \in Seq(Messages) /\ queue \in Seq(Messages)
    /\ mNavigating \in BOOLEAN /\ mFixCriteria \in Criteria
    /\ over \in BOOLEAN
    /\ engine_status \in {"NONE", "ENGINE_ON", "ENGINE_OFF"}
    /\ fix_session_status \in {"NONE", "SESSION_BEGIN", "SESSION_END"}
    /\ mute_session_state \in {"NONE", "WAIT", "IN_SESSION"}
    /\ aiding_data_for_deletion \subseteq AidingData
    /\ told \subseteq {"ENGINE_ON", "SESSION_BEGIN"}
    /\ up \in BOOLEAN /\ track \in Criteria \cup {NoFix}
    /\ sent \in BOOLEAN
    /\ reports \in 0..MaxReports /\ restarts \in 0..MaxRestarts

\* loc_init: the memset of loc_eng_init, the constructors of LocEngAdapter and
\* UlpProxyBase, and requestUlp, which posts setUlpProxy when there is a
\* library.
Init ==
    /\ asked = FALSE /\ modeSet = FALSE /\ calls = 0
    /\ ulp = [loaded |-> FALSE, mFixSet |-> FALSE, mPosMode |-> "INVALID"]
    /\ ulpQueue = << >>
    /\ queue \in {<< >>, << [type |-> "SetUlpProxy"] >>}
    /\ mNavigating = FALSE
    /\ mFixCriteria = [valid |-> FALSE, recurrence |-> "PERIODIC"]
    /\ over = FALSE
    /\ engine_status = "NONE" /\ fix_session_status = "NONE"
    /\ mute_session_state = "NONE" /\ aiding_data_for_deletion = {} /\ told = {}
    /\ up = TRUE /\ track = NoFix /\ sent = FALSE
    /\ reports = 0 /\ restarts = 0

-----------------------------------------------------------------------------
(* The framework.  It sets the mode before it starts, starts what is       *)
(* stopped, and stops before it cleans up.                                 *)

Call ==
    calls < MaxCalls /\ calls' = calls + 1 /\ Len(queue \o ulpQueue) < MaxQueue

\* The base proxy remembers a call and leaves it to the engine; a library
\* takes it and passes it on later through LocInternalAdapter.
ToProxy(m, base) ==
    IF ulp.loaded THEN /\ ulpQueue' = Append(ulpQueue, m)
                       /\ UNCHANGED <<ulp, queue>>
                  ELSE /\ ulp' = base /\ queue' = Append(queue, m)
                       /\ UNCHANGED ulpQueue

loc_eng_set_position_mode(r) ==
    /\ Call /\ modeSet' = TRUE
    /\ ToProxy([type |-> "PositionMode", recurrence |-> r],
               [loaded |-> FALSE, mFixSet |-> ulp.mFixSet, mPosMode |-> r])
    /\ UNCHANGED <<asked, session, status, aiding_data_for_deletion, modem>>

loc_eng_start ==
    /\ Call /\ ~ asked /\ modeSet
    /\ asked' = TRUE /\ modeSet' = FALSE /\ over' = FALSE
    /\ ToProxy([type |-> "StartFix"],
               [loaded |-> FALSE, mFixSet |-> TRUE, mPosMode |-> ulp.mPosMode])
    /\ UNCHANGED <<mNavigating, mFixCriteria, status,
                   aiding_data_for_deletion, modem>>

\* Mutant of SendStop: a loaded library is not asked.
SendStopDirect ==
    /\ queue' = Append(queue, [type |-> "StopFix"])
    /\ UNCHANGED <<ulp, ulpQueue>>

SendStop ==
    ToProxy([type |-> "StopFix"],
            [loaded |-> FALSE, mFixSet |-> FALSE, mPosMode |-> ulp.mPosMode])

loc_eng_stop ==
    /\ Call /\ asked /\ asked' = FALSE /\ over' = FALSE
    /\ SendStop
    /\ UNCHANGED <<modeSet, mNavigating, mFixCriteria, status, aiding_data_for_deletion, modem>>

\* loc_eng_cleanup stops a session it finds, from the framework's thread; it
\* finds none while the start that was asked for is still in a queue.
loc_eng_cleanup ==
    /\ Call
    /\ IF mNavigating THEN SendStop /\ asked' = FALSE /\ over' = FALSE
       ELSE UNCHANGED <<ulp, ulpQueue, queue, asked, over>>
    /\ UNCHANGED <<modeSet, mNavigating, mFixCriteria, status, aiding_data_for_deletion, modem>>

loc_eng_delete_aiding_data(f) ==
    /\ Call
    /\ queue' = Append(queue, [type |-> "DelAidData", f |-> f])
    /\ UNCHANGED <<asked, modeSet, proxy, session, status,
                   aiding_data_for_deletion, modem>>

Framework ==
    \/ \E r \in Recurrences : loc_eng_set_position_mode(r)
    \/ loc_eng_start \/ loc_eng_stop \/ loc_eng_cleanup
    \/ \E f \in SUBSET AidingData \ {{}} : loc_eng_delete_aiding_data(f)

-----------------------------------------------------------------------------
(* The ULP library.                                                        *)

\* startFixInt, stopFixInt and setPositionModeInt.
UlpForward ==
    /\ ulpQueue # << >>
    /\ queue' = Append(queue, Head(ulpQueue))
    /\ ulpQueue' = Tail(ulpQueue)
    /\ UNCHANGED <<framework, ulp, session, status, aiding_data_for_deletion,
                   modem>>

-----------------------------------------------------------------------------
(* The message thread.                                                     *)

Taken(type) == queue # << >> /\ Head(queue).type = type /\ queue' = Tail(queue)

\* setInSession(false) also invalidates the mode of the criteria.
SessionOff ==
    /\ mNavigating' = FALSE
    /\ mFixCriteria' = [valid |-> FALSE, recurrence |-> mFixCriteria.recurrence]

\* startFix, and the session flag that most of its errors leave set.  A modem
\* that works on a fix does not refuse to start it again.
StartFix(criteria) ==
    \E r \in StartResults :
        /\ r = "ENGINE_DOWN" <=> ~ up
        /\ track # NoFix => r = "SUCCESS"
        /\ IF r = "SUCCESS"
           THEN track' = criteria ELSE UNCHANGED track
        /\ mFixCriteria' = criteria
        /\ mNavigating' = (r # "FAILURE")
        /\ over' = (asked /\ (over \/ r = "FAILURE"))

\* LocEngStartFix::proc.
start_handler ==
    /\ Taken("StartFix")
    /\ IF mNavigating THEN UNCHANGED <<session, track>>
                      ELSE StartFix(mFixCriteria)
    /\ UNCHANGED <<framework, proxy, status, aiding_data_for_deletion, up, sent,
                   reports, restarts>>

\* Mutant of stop_handler: the modem is not told.
stop_handlerSilent ==
    /\ Taken("StopFix")
    /\ SessionOff
    /\ UNCHANGED <<framework, proxy, over, status, aiding_data_for_deletion,
                   modem>>

\* LocEngStopFix::proc.
stop_handler ==
    /\ Taken("StopFix")
    /\ IF mNavigating THEN track' = NoFix /\ SessionOff
                      ELSE UNCHANGED <<track, mNavigating, mFixCriteria>>
    /\ UNCHANGED <<framework, proxy, over, status, aiding_data_for_deletion,
                   up, sent, reports, restarts>>

\* LocEngPositionMode::proc: a fix under way takes the new criteria.
PositionMode ==
    LET r == Head(queue).recurrence
    IN  /\ Taken("PositionMode")
        /\ mFixCriteria' = [valid |-> TRUE, recurrence |-> r]
        /\ IF mNavigating /\ track # NoFix
           THEN track' = mFixCriteria' ELSE UNCHANGED track
        /\ UNCHANGED <<framework, proxy, mNavigating, over, status,
                       aiding_data_for_deletion, up, sent, reports, restarts>>

\* LocEngAdapter::setUlpProxy sends mode and start to the new proxy.
setUlpProxy ==
    LET mode == IF ulp.mPosMode = "INVALID" THEN << >>
                ELSE << [type |-> "PositionMode", recurrence |-> ulp.mPosMode] >>
        fix  == IF ulp.mFixSet THEN << [type |-> "StartFix"] >> ELSE << >>
    IN  /\ Taken("SetUlpProxy")
        /\ ulpQueue' = ulpQueue \o mode \o fix
        /\ ulp' = [loaded |-> TRUE, mFixSet |-> FALSE, mPosMode |-> "INVALID"]
        /\ UNCHANGED <<framework, session, status, aiding_data_for_deletion,
                       modem>>

\* A report of a failure, and one that meets the reporting criteria.
Reported(m) == m.status = "FAILURE" \/ m.meets

\* LocEngReportPosition::proc: a reported single shot is over, and is stopped
\* when the modem may still be working on it.
ReportPosition ==
    LET m == Head(queue)
        ends == /\ mute_session_state # "IN_SESSION" /\ Reported(m)
                /\ mFixCriteria.recurrence = "SINGLE"
    IN  /\ Taken("ReportPosition")
        /\ IF ends THEN SessionOff /\ over' = asked ELSE UNCHANGED session
        /\ IF ends /\ m.status = "INTERMEDIATE" THEN track' = NoFix
                                                ELSE UNCHANGED track
        /\ UNCHANGED <<framework, proxy, status, aiding_data_for_deletion, up,
                       sent, reports, restarts>>

\* Mutant of MuteAfter: the session stays muted.
MuteAfterKept(st) ==
    IF mute_session_state = "WAIT" /\ st \in {"SESSION_BEGIN", "ENGINE_ON"}
    THEN "IN_SESSION" ELSE mute_session_state

MuteAfter(st) ==
    IF mute_session_state = "WAIT" /\ st \in {"SESSION_BEGIN", "ENGINE_ON"}
    THEN "IN_SESSION"
    ELSE IF mute_session_state = "IN_SESSION"
            /\ st \in {"SESSION_END", "ENGINE_OFF"}
    THEN "NONE" ELSE mute_session_state

\* Mutant of report_status: every status is kept as the engine's.
report_statusAny(st) ==
    /\ mute_session_state' = MuteAfter(st)
    /\ engine_status' = st
    /\ UNCHANGED <<fix_session_status, told>>

\* Mutant of Informed: what comes in a muted session is muted, its end too.
InformedMuted(st) ==
    /\ st = "SESSION_END" => ~ mNavigating
    /\ st = "SESSION_BEGIN" => mNavigating
    /\ mute_session_state # "IN_SESSION"

\* Whether loc_inform_gps_status is called, after muting has been switched.
Informed(st) ==
    /\ st = "SESSION_END" => ~ mNavigating
    /\ st = "SESSION_BEGIN" => mNavigating
    /\ MuteAfter(st) # "IN_SESSION"

\* loc_eng_report_status.
report_status(st) ==
    /\ mute_session_state' = MuteAfter(st)
    /\ engine_status' = IF st \in {"ENGINE_ON", "ENGINE_OFF"} THEN st
                        ELSE engine_status
    /\ fix_session_status' = IF st \in {"SESSION_BEGIN", "SESSION_END"} THEN st
                             ELSE fix_session_status
    /\ told' = IF ~ Informed(st) THEN told
               ELSE CASE st = "ENGINE_OFF"  -> {}
                      [] st = "SESSION_END" -> told \ {"SESSION_BEGIN"}
                      [] OTHER              -> told \cup {st}

\* Mutant of AfterUpdate: nothing is deleted.
AfterUpdateNever(pending) == pending

\* update_aiding_data_for_deletion: what is still pending after it.
AfterUpdate(pending) == IF engine_status' # "ENGINE_ON" THEN {} ELSE pending

\* LocEngReportStatus::proc.
ReportStatus ==
    /\ Taken("ReportStatus")
    /\ report_status(Head(queue).status)
    /\ aiding_data_for_deletion' = AfterUpdate(aiding_data_for_deletion)
    /\ UNCHANGED <<framework, proxy, session, modem>>

\* LocEngDelAidData::proc replaces what is pending.
DelAidData ==
    /\ Taken("DelAidData")
    /\ UNCHANGED status
    /\ aiding_data_for_deletion' = AfterUpdate(Head(queue).f)
    /\ UNCHANGED <<framework, proxy, session, modem>>

\* loc_eng_ni_request_handler with the privacy override.
loc_eng_mute_one_session ==
    /\ Taken("MuteOneSession")
    /\ mute_session_state' = "WAIT"
    /\ UNCHANGED <<framework, proxy, session, engine_status, fix_session_status, told,
                   aiding_data_for_deletion, modem>>

\* loc_eng_handle_engine_down; the NI sessions are modelled in NiSession.
handle_engine_down ==
    /\ Taken("Down")
    /\ report_status("ENGINE_OFF")
    /\ UNCHANGED <<framework, proxy, session, aiding_data_for_deletion, modem>>

\* LocSsrMsg::proc closes and opens the connection to the modem, which ends
\* what the modem works on.
LocSsrMsg ==
    /\ Taken("Ssr")
    /\ track' = NoFix
    /\ UNCHANGED <<framework, proxy, session, status, aiding_data_for_deletion,
                   up, sent, reports, restarts>>

\* Mutant of handle_engine_up: the session is not started again.
handle_engine_upIdle ==
    /\ Taken("Up")
    /\ IF mNavigating THEN SessionOff ELSE UNCHANGED <<mNavigating, mFixCriteria>>
    /\ UNCHANGED <<framework, proxy, over, status, aiding_data_for_deletion,
                   modem>>

\* loc_eng_handle_engine_up: the session flag is cleared, and the mode with
\* it, for the start handler to start again.
handle_engine_up ==
    /\ Taken("Up")
    /\ IF mNavigating
       THEN StartFix([valid |-> FALSE, recurrence |-> mFixCriteria.recurrence])
       ELSE UNCHANGED <<session, track>>
    /\ UNCHANGED <<framework, proxy, status, aiding_data_for_deletion, up, sent,
                   reports, restarts>>

MsgThread ==
    \/ start_handler \/ stop_handler \/ PositionMode \/ setUlpProxy
    \/ ReportPosition \/ ReportStatus \/ DelAidData \/ loc_eng_mute_one_session
    \/ handle_engine_down \/ LocSsrMsg \/ handle_engine_up

-----------------------------------------------------------------------------
(* The modem.                                                              *)

Post(ms) == Len(queue) < MaxQueue /\ queue' = queue \o ms

\* It reports a position; a final one ends a single shot.
ModemFix(m) ==
    /\ track # NoFix /\ reports < MaxReports /\ reports' = reports + 1
    /\ track' = IF track.recurrence = "SINGLE" /\ m.status # "INTERMEDIATE"
                THEN NoFix ELSE track
    /\ Post(<< m >>)
    /\ UNCHANGED <<framework, proxy, session, status, aiding_data_for_deletion,
                   up, sent, restarts>>

FinalFix == [type |-> "ReportPosition", status |-> "SUCCESS", meets |-> TRUE]

\* A single shot ends in the end, with no report when the bound is reached.
ModemGivesUp ==
    /\ track.recurrence = "SINGLE" /\ reports = MaxReports /\ track' = NoFix
    /\ UNCHANGED <<framework, proxy, queue, session, status,
                   aiding_data_for_deletion, up, sent, reports,
                   restarts>>

StatusReport(st) == [type |-> "ReportStatus", status |-> st]

\* It reports that it is on, and off again.
ModemStatus ==
    /\ up /\ sent # (track # NoFix) /\ sent' = ~ sent
    /\ Post(IF sent
            THEN << StatusReport("SESSION_END"), StatusReport("ENGINE_OFF") >>
            ELSE << StatusReport("ENGINE_ON"), StatusReport("SESSION_BEGIN") >>)
    /\ UNCHANGED <<framework, proxy, session, status, aiding_data_for_deletion,
                   up, track, reports, restarts>>

\* A network-initiated request with the privacy override.
ModemMute ==
    /\ reports < MaxReports /\ reports' = reports + 1
    /\ Post(<< [type |-> "MuteOneSession"] >>)
    /\ UNCHANGED <<framework, proxy, session, status, aiding_data_for_deletion,
                   up, track, sent, restarts>>

\* LocApiBase::handleEngineDownEvent.
ModemDown ==
    /\ up /\ restarts < MaxRestarts /\ restarts' = restarts + 1
    /\ up' = FALSE /\ track' = NoFix /\ sent' = FALSE
    /\ Post(<< [type |-> "Down"] >>)
    /\ UNCHANGED <<framework, proxy, session, status, aiding_data_for_deletion,
                   reports>>

\* LocApiBase::handleEngineUpEvent.
ModemUp ==
    /\ ~ up /\ up' = TRUE
    /\ Post(<< [type |-> "Ssr"], [type |-> "Up"] >>)
    /\ UNCHANGED <<framework, proxy, session, status, aiding_data_for_deletion,
                   track, sent, reports, restarts>>

Modem ==
    \/ \E m \in PositionReports : ModemFix(m)
    \/ ModemGivesUp \/ ModemStatus \/ ModemMute \/ ModemDown \/ ModemUp

-----------------------------------------------------------------------------

Next == Framework \/ UlpForward \/ MsgThread \/ Modem

\* The message thread and the library run; the modem comes back after a crash,
\* reports what it does and ends its single shots.
Fairness ==
    /\ WF_vars(MsgThread) /\ WF_vars(UlpForward)
    /\ WF_vars(ModemUp) /\ WF_vars(ModemStatus)
    /\ WF_vars(ModemGivesUp \/ ModemFix(FinalFix))

Spec == Init /\ [][Next]_vars /\ Fairness

-----------------------------------------------------------------------------
(* Properties.                                                             *)

\* Nothing the framework, the library or the modem has said is unhandled.
Drained == queue = << >> /\ ulpQueue = << >>

\* loc_eng_stop, through restarts, late reports and the change of proxy: once
\* a stop has been handled the modem works on no periodic fix, and on a single
\* shot only when a report of an earlier fix had ended it for the engine.
StoppedIsIdle ==
    Drained /\ ~ asked => ~ mNavigating /\ track.recurrence # "PERIODIC"

\* "If we crashed in the middle of navigating, we restart": what the framework
\* asked for last is in session unless it was refused or reported.
RequestIsServed ==
    Drained /\ asked /\ ~ over => mNavigating

\* "Mutes one session": a muted session is one the modem has begun and not
\* ended, and no session is muted for ever once the framework has stopped.
MutedIsOn ==
    mute_session_state = "IN_SESSION" =>
        engine_status = "ENGINE_ON" \/ fix_session_status = "SESSION_BEGIN"
MuteEnds ==
    mute_session_state = "IN_SESSION" /\ ~ asked
        ~> mute_session_state # "IN_SESSION" \/ asked

\* "Inform GpsLocationProvider": the framework never holds an engine for on
\* that is off, though a muted session was begun without its knowledge, and a
\* session for begun only while the engine is on.
ToldIsTrue ==
    /\ "ENGINE_ON" \in told => engine_status = "ENGINE_ON"
    /\ "SESSION_BEGIN" \in told => engine_status # "ENGINE_OFF"

\* A framework that stops stops the modem.
StopEndsTracking == ~ asked ~> track = NoFix \/ asked

\* "Otherwise, the actual action will happen when gps engine is turned off":
\* once the framework has stopped, a pending deletion is carried out, unless
\* it was the modem's crash that turned the engine off.
DeletionHappens ==
    aiding_data_for_deletion # {} /\ ~ asked
        ~> aiding_data_for_deletion = {} \/ asked \/ restarts > 0

\* "This sets the copy in adapter to modem": the modem works on every fix with
\* the mode that the framework has set before it started.
FixHasMode == track # NoFix => track.valid

\* Muting and what the framework was told follow the modem's status
\* (loc_eng_report_status and the engine-down handler).
StatusIsKnown == MutedIsOn /\ ToldIsTrue

\* After the framework's stop everything comes to its end: the muting of a
\* session, the modem's fix and a pending deletion.
SessionSettles == MuteEnds /\ StopEndsTracking /\ DeletionHappens
==============================================================================
