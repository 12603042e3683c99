------------------------------- MODULE MCParts -------------------------------
(***************************************************************************)
(* The components with safety properties alone that do not interact,       *)
(* checked in one run: the first state chooses which of them moves.        *)
(***************************************************************************)
EXTENDS LocApi, LocHeap, Nmea, GpsHal, Lights

AdapterMask == [a1 |-> {"POSITION"}, a2 |-> {"POSITION", "NI"}, a3 |-> {"NI"}]
AdapterContexts == [a1 |-> {"fg"}, a2 |-> {"fg"}, a3 |-> {"fg", "bg"}]
AdapterTakes == [a1 |-> {}, a2 |-> {"requestTime"}, a3 |-> {"requestTime"}]

LocPlatforms ==
    {[mpq |-> FALSE, lbs |-> FALSE, v02 |-> v, rpc |-> TRUE] : v \in {"present", "getter"}}

TimerRank == [t1 |-> 1, t2 |-> 2, t3 |-> 2, t4 |-> 3, t5 |-> 3, t6 |-> 2]

Sv(con, id, used) == [con |-> con, svid |-> id, used |-> used]
SvLists ==
    {<<>>,
     <<Sv("GPS", 3, TRUE), Sv("GLONASS", 7, TRUE), Sv("GPS", 5, FALSE), Sv("BEIDOU", 5, TRUE)>>,
     [i \in 1 .. 9 |-> Sv(IF i = 4 THEN "GLONASS" ELSE "GPS", i, i # 2)],
     [i \in 1 .. 14 |-> Sv("GPS", i, TRUE)]}
SatelliteReports == [svs : SvLists, dop : {"0", "sv"}]
NmeaFixes ==
    [flags : {{}, {"LAT_LONG", "BEARING"}, {"LAT_LONG", "ALTITUDE", "SPEED"}},
     ext : {{}, {"DOP", "MSL"}, {"USED", "MAG_DEV"}},
     dop : {"fix"},
     usedIds : {[c \in Constellations |-> IF c = "GPS" THEN {3, 8} ELSE {}]}]

Conf(ver, check, caps, lock) ==
    [set |-> [SUPL_VER |-> ver, XTRA_VERSION_CHECK |-> check], caps |-> caps, lock |-> lock]
FileConf == Conf("1", "0", {"MSB", "TIME"}, "3")
UpdateData == {Conf("2", "0", {"MSB"}, "2"), Conf("2", "1", {"MSA", "TIME"}, "3")}

Light(lit, alpha, flash, on, off) == [lit |-> lit, alpha |-> alpha, flash |-> flash, onMS |-> on, offMS |-> off]
LightsSet ==
    {Light(FALSE, 0, FALSE, 0, 0), Light(FALSE, 0, TRUE, 1, 1000), Light(TRUE, 0, FALSE, 0, 0),
     Light(TRUE, 15, FALSE, 5, 5), Light(TRUE, 16, TRUE, 1, 100), Light(TRUE, 99, TRUE, 3000, 500),
     Light(TRUE, 100, TRUE, 1, 2), Light(TRUE, 255, TRUE, 0, 7)}

VARIABLE part

vars == <<part, aVars, hVars, nVars, gVars, lVars>>

Init ==
    /\ part \in {"api", "heap", "nmea", "hal", "lights"}
    /\ LocApiInit /\ HeapInit /\ NmeaInit /\ GpsHalInit /\ LightsInit

Next ==
    /\ UNCHANGED part
    /\ \/ part = "api" /\ LocApiNext /\ UNCHANGED <<hVars, nVars, gVars, lVars>>
       \/ part = "heap" /\ HeapNext /\ UNCHANGED <<aVars, nVars, gVars, lVars>>
       \/ part = "nmea" /\ NmeaNext /\ UNCHANGED <<aVars, hVars, gVars, lVars>>
       \/ part = "hal" /\ GpsHalNext /\ UNCHANGED <<aVars, hVars, nVars, lVars>>
       \/ part = "lights" /\ LightsNext /\ UNCHANGED <<aVars, hVars, nVars, gVars>>

Spec == Init /\ [][Next]_vars
=============================================================================
