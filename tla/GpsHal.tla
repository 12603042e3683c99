------------------------------- MODULE GpsHal --------------------------------
(***************************************************************************)
(* The HAL the framework calls (loc.cpp) and the settings the engine keeps *)
(* at the modem (loc_eng_init, loc_eng_reinit, loc_eng_agps_reinit, the    *)
(* server proxy, loc_eng_configuration_update in loc_eng.cpp; power vote   *)
(* and GPS lock in LocEngAdapter).  The framework calls from one thread;   *)
(* what it asks for is queued, and the message thread passes it to the     *)
(* modem, which forgets its settings when it restarts.  Both threads use   *)
(* gps_conf without a lock: a configuration update takes three steps       *)
(* between which messages are processed.                                   *)
(*                                                                         *)
(* A configuration is the value of each setting, the capabilities and the  *)
(* lock.  Outside the module: sessions (LocEngSession), and the ULP and    *)
(* XTRA, whose messages only pass a value on.                              *)
(***************************************************************************)
EXTENDS Naturals, Sequences, SequencesExt, FiniteSets

CONSTANTS
    Updatable,      \* settings a configuration update may change: SUPL_VER, LPP_PROFILE, ...
    ReinitOnly,     \* settings from the files alone: XTRA_VERSION_CHECK, the sensors', ...
    ConfigData,     \* what a configuration update may hold: a configuration each
    GpsConf,        \* the configuration of the files
    Hosts,          \* SUPL servers
    GnssType,       \* getTargetGnssType()
    VoteRight,      \* the target is QCA1530
    HasMeasurements,\* the modem reports GNSS measurements
    MaxCalls, MaxRestarts,
    MaxPending      \* a call is not made while more messages wait

Settings == Updatable \cup ReinitOnly

(* There are finitely many settings, each of one kind, and a configuration *)
(* has a value for every one of them.                                      *)
ASSUME GpsHalAssumption ==
    /\ IsFiniteSet(Updatable) /\ IsFiniteSet(ReinitOnly) /\ Updatable \cap ReinitOnly = {}
    /\ \A d \in ConfigData \cup {GpsConf} :
          /\ d = [set |-> d.set, caps |-> d.caps, lock |-> d.lock]
          /\ d.set = [s \in Settings |-> d.set[s]]
    /\ {VoteRight, HasMeasurements} \subseteq BOOLEAN
    /\ {MaxCalls, MaxRestarts, MaxPending} \subseteq Nat

NoModem == [s \in Settings |-> "unset"]

VARIABLES
    gAdapter,   \* loc_afw_data.adapter is there
    gConf,      \* gps_conf: [set, caps, lock]
    gTmp,       \* gps_conf_tmp of an update
    gUpd,       \* where the update is: idle, parsed, sent
    gServer,    \* supl_host_buf, <<>> while supl_host_set is 0
    gAgps,      \* agps_status_cb is set
    gMeasCb,    \* gnss_measurement_cb is set
    gAvail,     \* agpsStatus
    gVote,      \* mPowerVote & POWER_VOTE_VALUE
    gQueue,     \* messages of the adapter's task
    gModem,     \* [up, set, server, data, lock, power, meas]
    gCaps,      \* what set_capabilities_cb was told last, <<>> before
    gCalls, gRestarts,
    gAsked,     \* history: the last server asked for, and before what
    gExcuse     \* history: what may make modem and engine differ

gVars == <<gAdapter, gConf, gTmp, gUpd, gServer, gAgps, gMeasCb, gAvail, gVote, gQueue, gModem,
           gCaps, gCalls, gRestarts, gAsked, gExcuse>>

(* get_gps_interface: targets without a modem for assistance.              *)
Apq == GnssType \in {"GNSS_GSS", "GNSS_AUTO", "GNSS_QCA1530"}
TrimCaps(conf) == IF Apq THEN [conf EXCEPT !.caps = @ \ {"MSA", "MSB"}] ELSE conf

GpsHalInit ==
    /\ gAdapter = FALSE
    /\ gConf = TrimCaps(GpsConf) /\ gTmp = TrimCaps(GpsConf) /\ gUpd = "idle"
    /\ gServer = <<>> /\ gAgps = FALSE /\ gMeasCb = FALSE /\ gAvail = "0" /\ gVote = FALSE
    /\ gQueue = <<>>
    /\ gModem = [up |-> TRUE, set |-> NoModem, server |-> <<>>, data |-> "unset", lock |-> "unset",
                 power |-> "unset", meas |-> FALSE]
    /\ gCaps = <<>>
    /\ gCalls = 0 /\ gRestarts = 0
    /\ gAsked = [host |-> <<>>, early |-> FALSE]
    /\ gExcuse = {}

(* A call of the framework: from its one thread, so not within an update.  *)
HalCall ==
    /\ gUpd = "idle" /\ Len(gQueue) <= MaxPending
    /\ gCalls < MaxCalls /\ gCalls' = gCalls + 1

Msg(name, value) == [m |-> name, v |-> value]

(* LocEngSuplVer, LocEngLppConfig, LocEngAGlonassProtocol ...              *)
Setting(s, conf) == [m |-> "Setting", v |-> s, to |-> conf.set[s]]

(* LocEngSensorControlConfig, LocEngSensorProperties, ...: one message for *)
(* the values of the files.                                                *)
FileSetting(s, conf) == [m |-> "Setting", v |-> s, to |-> conf.set[s]]

(* The vote as an engine lock. *)
LockAsVote(modem, vote) ==
    IF VoteRight /\ modem.up THEN [modem EXCEPT !.lock = IF vote THEN "103" ELSE "101"] ELSE modem

(* LocEngAdapter::requestPowerVote, straight to the modem.                 *)
requestPowerVote(modem, vote) ==
    IF VoteRight /\ modem.up THEN [modem EXCEPT !.power = IF vote THEN "103" ELSE "101"] ELSE modem

(* loc_init and loc_eng_init.  The second call finds the instance and      *)
(* still unlocks and votes; the first clears the whole instance with       *)
(* memset, the server buffered before it too.                              *)
loc_init ==
    /\ HalCall
    /\ gAdapter' = TRUE
    /\ IF gAdapter
       THEN gQueue' = Append(gQueue, Msg("GpsLock", "0")) /\ UNCHANGED gServer
       ELSE gQueue' = gQueue \o <<Msg("Init", ""), Msg("GpsLock", "0")>> /\ gServer' = <<>>
    /\ gVote' = TRUE
    /\ gModem' = requestPowerVote(gModem, TRUE)
    /\ UNCHANGED <<gConf, gTmp, gUpd, gAgps, gMeasCb, gAvail, gCaps, gRestarts, gAsked, gExcuse>>

(* loc_cleanup: the vote goes down, the lock of the configuration comes    *)
(* back; the adapter stays.                                                *)
loc_cleanup ==
    /\ HalCall /\ gAdapter
    /\ gVote' = FALSE
    /\ gModem' = requestPowerVote(gModem, FALSE)
    /\ gQueue' = Append(gQueue, Msg("GpsLock", gConf.lock))
    /\ UNCHANGED <<gAdapter, gConf, gTmp, gUpd, gServer, gAgps, gMeasCb, gAvail, gCaps, gRestarts,
                   gAsked, gExcuse>>

(* loc_eng_agps_reinit: the server that is buffered.                       *)
agps_reinit(server) == IF server = <<>> THEN <<>> ELSE <<Msg("Server", server[1])>>

(* loc_agps_init: refused before loc_init and the second time.             *)
loc_agps_init ==
    /\ HalCall /\ gAdapter /\ ~gAgps
    /\ gAgps' = TRUE
    /\ gQueue' = gQueue \o agps_reinit(gServer)
    /\ UNCHANGED <<gAdapter, gConf, gTmp, gUpd, gServer, gMeasCb, gAvail, gVote, gModem, gCaps,
                   gRestarts, gAsked, gExcuse>>

(* loc_agps_set_server with loc_eng_set_server_proxy.                      *)
loc_agps_set_server(host) ==
    /\ HalCall
    /\ gServer' = <<host>>
    /\ gQueue' = IF gAdapter THEN Append(gQueue, Msg("Server", host)) ELSE gQueue
    /\ gAsked' = [host |-> <<host>>, early |-> ~gAdapter]
    /\ UNCHANGED <<gAdapter, gConf, gTmp, gUpd, gAgps, gMeasCb, gAvail, gVote, gModem, gCaps,
                   gRestarts, gExcuse>>

(* loc_agps_ril_update_network_availability: without an APN the status is  *)
(* kept for the next restart and not sent.                                 *)
update_network_availability(available, apn) ==
    /\ HalCall
    /\ gAvail' = available
    /\ gQueue' = IF gAdapter /\ apn THEN Append(gQueue, Msg("EnableData", available)) ELSE gQueue
    /\ gExcuse' = IF gAdapter /\ ~apn THEN gExcuse \cup {"no APN"} ELSE gExcuse \ {"no APN"}
    /\ UNCHANGED <<gAdapter, gConf, gTmp, gUpd, gServer, gAgps, gMeasCb, gVote, gModem, gCaps,
                   gRestarts, gAsked>>

(* The second opening after a close that leaves the modem's mask.          *)
measurement_set ==
    /\ HalCall /\ gAdapter /\ ~gMeasCb
    /\ gMeasCb' = TRUE
    /\ UNCHANGED <<gAdapter, gConf, gTmp, gUpd, gServer, gAgps, gAvail, gVote, gQueue, gModem,
                   gCaps, gRestarts, gAsked, gExcuse>>

(* loc_eng_gps_measurement_init and _close.                                *)
measurement_init ==
    /\ HalCall /\ gAdapter /\ ~gMeasCb
    /\ gMeasCb' = TRUE
    /\ gQueue' = Append(gQueue, Msg("Measurements", "1"))
    /\ UNCHANGED <<gAdapter, gConf, gTmp, gUpd, gServer, gAgps, gAvail, gVote, gModem, gCaps,
                   gRestarts, gAsked, gExcuse>>

measurement_close ==
    /\ HalCall /\ gAdapter
    /\ gMeasCb' = FALSE
    /\ gQueue' = Append(gQueue, Msg("Measurements", "0"))
    /\ UNCHANGED <<gAdapter, gConf, gTmp, gUpd, gServer, gAgps, gAvail, gVote, gModem, gCaps,
                   gRestarts, gAsked, gExcuse>>

-----------------------------------------------------------------------------
(* loc_configuration_update, in three steps of the framework's thread.     *)

(* The text is parsed into gps_conf itself; the old values are in a copy.  *)
UpdateParse(data) ==
    /\ HalCall
    /\ gTmp' = gConf /\ gConf' = data
    /\ gUpd' = "parsed"
    /\ UNCHANGED <<gAdapter, gServer, gAgps, gMeasCb, gAvail, gVote, gQueue, gModem, gCaps,
                   gRestarts, gAsked, gExcuse>>

(* The settings that had no value. *)
Added == {s \in Updatable : gTmp.set[s] = "0" /\ gConf.set[s] # "0"}

(* The lock of the configuration, whatever the vote is. *)
ConfLock == gConf.lock

(* "if we have power vote, HAL is on, lock mask 0; else gps_conf.GPS_LOCK" *)
LockMask == IF gVote THEN "0" ELSE gConf.lock

(* What has changed is sent, and the lock always.                          *)
Changed == {s \in Updatable : gTmp.set[s] # gConf.set[s]}

UpdateSend ==
    /\ gUpd = "parsed" /\ gUpd' = "sent"
    /\ gQueue' = IF ~gAdapter THEN gQueue
                 ELSE gQueue \o SetToSeq({Setting(s, gConf) : s \in Changed})
                             \o <<Msg("GpsLock", LockMask)>>
    /\ UNCHANGED <<gAdapter, gConf, gTmp, gServer, gAgps, gMeasCb, gAvail, gVote, gModem, gCaps,
                   gCalls, gRestarts, gAsked, gExcuse>>

(* The other values go back to the copy, the capabilities too.             *)
KeptConf == gConf

RestoredConf ==
    TrimCaps([gTmp EXCEPT !.set = [s \in Settings |-> IF s \in Updatable THEN gConf.set[s] ELSE @[s]],
                          !.lock = gConf.lock])

UpdateRestore ==
    /\ gUpd = "sent" /\ gUpd' = "idle"
    /\ gConf' = RestoredConf
    /\ UNCHANGED <<gAdapter, gTmp, gServer, gAgps, gMeasCb, gAvail, gVote, gQueue, gModem, gCaps,
                   gCalls, gRestarts, gAsked, gExcuse>>

-----------------------------------------------------------------------------
(* The message thread. *)

(* The messages of loc_eng_reinit. *)
reinit ==
    <<Msg("Constellation", "")>> \o SetToSeq({Setting(s, gConf) : s \in Updatable})
       \o SetToSeq({FileSetting(s, gConf) : s \in ReinitOnly})
       \o <<Msg("EnableData", gAvail)>>

(* What a message sets at a modem that is up. *)
Told(msg) ==
    IF ~gModem.up THEN gModem ELSE
    CASE msg.m = "Setting"      -> [gModem EXCEPT !.set[msg.v] = msg.to]
      [] msg.m = "Server"       -> [gModem EXCEPT !.server = <<msg.v>>]
      [] msg.m = "EnableData"   -> [gModem EXCEPT !.data = msg.v]
      [] msg.m = "GpsLock"      -> [gModem EXCEPT !.lock = msg.v]
      [] msg.m = "Measurements" -> [gModem EXCEPT !.meas = (msg.v = "1")]
      [] msg.m = "Up"           -> requestPowerVote(gModem, gVote)
      [] OTHER                  -> gModem

(* The restart without its second half. *)
FollowsInit(msg) ==
    CASE msg.m = "Init" -> Append(reinit, Msg("Capabilities", ""))
      [] msg.m = "Up"   -> reinit
      [] OTHER          -> <<>>

(* What a message queues in turn: LocEngInit::proc and                     *)
(* loc_eng_handle_engine_up.                                               *)
Follows(msg) ==
    CASE msg.m = "Init" -> Append(reinit, Msg("Capabilities", ""))
      [] msg.m = "Up"   -> reinit \o (IF gAgps THEN agps_reinit(gServer) ELSE <<>>)
      [] OTHER          -> <<>>

(* LocEngGnssConstellationConfig::proc. *)
Supports(msg) == msg.m = "Constellation" /\ gModem.up /\ HasMeasurements

(* A lock sent to a modem that is down is not sent again; values read      *)
(* within an update are of no update; a restart sends agpsStatus.          *)
Excuses(msg) ==
    LET lost == msg.m = "GpsLock" /\ ~gModem.up
        raced == gUpd # "idle" /\ msg.m \in {"Init", "Up", "Constellation", "Capabilities"}
        over == (IF msg.m = "GpsLock" THEN {"lock"} ELSE {})
                   \cup (IF msg.m \in {"Init", "Up"} THEN {"no APN"} ELSE {})
    IN  (gExcuse \ over) \cup (IF lost THEN {"lock"} ELSE {}) \cup (IF raced THEN {"race"} ELSE {})

HalProc ==
    /\ gQueue # <<>>
    /\ LET msg == Head(gQueue) IN
       /\ gQueue' = Tail(gQueue) \o Follows(msg)
       /\ gModem' = Told(msg)
       /\ gConf' = IF Supports(msg) THEN [gConf EXCEPT !.caps = @ \cup {"MEASUREMENTS"}] ELSE gConf
       /\ gCaps' = IF msg.m = "Capabilities" THEN <<gConf.caps>> ELSE gCaps
       /\ gExcuse' = Excuses(msg)
    /\ UNCHANGED <<gAdapter, gTmp, gUpd, gServer, gAgps, gMeasCb, gAvail, gVote, gCalls, gRestarts, gAsked>>

-----------------------------------------------------------------------------
(* The modem goes down, and comes back with the events of the adapter's    *)
(* mask and nothing else but the lock, which it keeps.                     *)
EngineDown ==
    /\ gModem.up /\ gAdapter /\ gRestarts < MaxRestarts /\ Len(gQueue) <= MaxPending
    /\ gRestarts' = gRestarts + 1
    /\ gModem' = [gModem EXCEPT !.up = FALSE]
    /\ gQueue' = Append(gQueue, Msg("Down", ""))
    /\ UNCHANGED <<gAdapter, gConf, gTmp, gUpd, gServer, gAgps, gMeasCb, gAvail, gVote, gCaps,
                   gCalls, gAsked, gExcuse>>

EngineUp ==
    /\ ~gModem.up
    /\ gModem' = [up |-> TRUE, set |-> NoModem, server |-> <<>>, data |-> "unset", lock |-> gModem.lock,
                  power |-> "unset", meas |-> TRUE]
    /\ gQueue' = Append(gQueue, Msg("Up", ""))
    /\ UNCHANGED <<gAdapter, gConf, gTmp, gUpd, gServer, gAgps, gMeasCb, gAvail, gVote, gCaps,
                   gCalls, gRestarts, gAsked, gExcuse>>

GpsHalNext ==
    \/ loc_init \/ loc_cleanup \/ loc_agps_init
    \/ \E h \in Hosts : loc_agps_set_server(h)
    \/ \E a \in {"0", "1"}, apn \in BOOLEAN : update_network_availability(a, apn)
    \/ measurement_init \/ measurement_close
    \/ \E data \in ConfigData : UpdateParse(data)
    \/ UpdateSend \/ UpdateRestore
    \/ HalProc
    \/ EngineDown \/ EngineUp

GpsHalSpec == GpsHalInit /\ [][GpsHalNext]_gVars

-----------------------------------------------------------------------------
(* Type correctness of the HAL's and the modem's state. *)
GpsHalTypeOK ==
    /\ {gAdapter, gAgps, gMeasCb, gVote, gModem.up, gModem.meas} \subseteq BOOLEAN
    /\ gUpd \in {"idle", "parsed", "sent"} /\ gAvail \in {"0", "1"}
    /\ gModem.lock \in {"unset", "0", GpsConf.lock} \cup {d.lock : d \in ConfigData}
    /\ gModem.power \in {"unset"} \cup (IF VoteRight THEN {"101", "103"} ELSE {})
    /\ Len(gServer) <= 1 /\ Len(gCaps) <= 1
    /\ gExcuse \subseteq {"race", "lock", "no APN"}

(* Nothing is left to do, and the modem is there. *)
Settled == gAdapter /\ gQueue = <<>> /\ gUpd = "idle" /\ gModem.up

(* Once everything is processed the modem has the value of every setting,  *)
(* although settings change while it restarts and messages are lost on a   *)
(* modem that is down (loc_eng_reinit from loc_eng_handle_engine_up, and   *)
(* the comparison in loc_eng_configuration_update), unless a               *)
(* re-initialisation fell within an update.                                *)
SettingsAreRestored ==
    Settled /\ "race" \notin gExcuse => gModem.set = gConf.set

(* The modem is unlocked while the HAL votes for power, and has the lock   *)
(* of the configuration while it does not, whichever of loc_init,          *)
(* loc_cleanup and an update came last, unless the lock was sent to a      *)
(* modem that was down.  Where the HAL may vote, the modem has its vote.   *)
LockFollowsVote ==
    Settled =>
        /\ "lock" \in gExcuse \/ gModem.lock = (IF gVote THEN "0" ELSE gConf.lock)
        /\ VoteRight => gModem.power = (IF gVote THEN "103" ELSE "101")

(* The modem has the last SUPL server the framework has set since          *)
(* loc_init, also after a restart (loc_eng_agps_reinit), and may use data  *)
(* as the network said last (agpsStatus in loc_eng_reinit).                *)
ServerAndDataAreRestored ==
    Settled =>
        /\ gAgps /\ gAsked.host # <<>> /\ ~gAsked.early => gModem.server = gAsked.host
        /\ "no APN" \in gExcuse \/ gModem.data = gAvail

(* The framework is never told of a capability the engine does not have,   *)
(* although updates carry capabilities of their own and a measuring modem  *)
(* adds one later (LocEngSetCapabilities).                                 *)
CapabilitiesAreOurs ==
    gCaps # <<>> /\ gUpd = "idle" /\ "race" \notin gExcuse =>
        /\ gCaps[1] \subseteq gConf.caps
        /\ Apq => gCaps[1] \cap {"MSA", "MSB"} = {}

(* A framework that takes measurements has them enabled at the modem, after*)
(* any sequence of init, close and restart (loc_eng_gps_measurement_init). *)
MeasurementsAreEnabled ==
    Settled /\ gMeasCb => gModem.meas

(* Modem and framework have what the engine holds: settings, lock and      *)
(* vote, server and data, capabilities and measurements, after any calls,  *)
(* configuration updates and restarts.                                     *)
ModemFollowsEngine ==
    /\ GpsHalTypeOK /\ SettingsAreRestored /\ LockFollowsVote /\ ServerAndDataAreRestored
    /\ CapabilitiesAreOurs /\ MeasurementsAreEnabled
=============================================================================
