-------------------------------- MODULE Nmea ---------------------------------
(***************************************************************************)
(* NMEA sentences made from the reports of the modem (loc_eng_nmea.cpp,    *)
(* and LocEngReportSv in loc_eng.cpp).  A satellite report is the source   *)
(* of the GSV sentences, and leaves in a cache what the next position      *)
(* report needs: the satellites used in the fix and the dilution of        *)
(* precision (DOP).  A position report of a fix with satellite data in     *)
(* turn decides which satellites later reports mark as used.               *)
(*                                                                         *)
(* A sentence is the record of what it says: which fields are filled in,   *)
(* and the fields the properties compare.  The buffer of 200 characters    *)
(* holds every sentence the modem's values can make, so the error returns  *)
(* after snprintf are not taken.                                           *)
(***************************************************************************)
EXTENDS Naturals, Sequences, SequencesExt, FiniteSets, FiniteSetsExt

CONSTANTS
    SvReports,  \* satellite reports: [svs : Seq([con, svid, used]), dop]
    Fixes       \* position reports: [flags, ext, dop, usedIds]

NoDop == "0"
Constellations == {"GPS", "GLONASS", "BEIDOU", "GALILEO"}

VARIABLES
    nAvail,     \* mGnssSvIdUsedInPosAvail
    nUsedIds,   \* mGnssSvIdUsedInPosition: constellation -> ids
    nMask,      \* gps_used_mask and glo_used_mask: constellation -> ids
    nDop,       \* pdop, hdop and vdop
    nSent,      \* the sentences of the last step
    nLatest,    \* history: the ids used, by the latest satellite report
    nUnused     \* history: no position sentences were made since that report

nVars == <<nAvail, nUsedIds, nMask, nDop, nSent, nLatest, nUnused>>

NmeaInit ==
    /\ nAvail = FALSE
    /\ nUsedIds = [c \in Constellations |-> {}]
    /\ nMask = [c \in {"GPS", "GLONASS"} |-> {}]
    /\ nDop = NoDop
    /\ nSent = <<>>
    /\ nLatest = [c \in {"GPS", "GLONASS"} |-> {}]
    /\ nUnused = FALSE

-----------------------------------------------------------------------------
(* Satellite reports. *)

(* LocEngReportSv::proc: once a fix has told which satellites it used, its *)
(* word replaces the flags of the modem; a constellation without a mask    *)
(* has none used.  The test of the mask is membership for ids up to 31, as *)
(* the bit it looks for is made by a shift of an int.                      *)
Flagged(svs) ==
    [i \in DOMAIN svs |->
        IF ~nAvail THEN svs[i]
        ELSE [svs[i] EXCEPT !.used = svs[i].con \in Constellations /\ svs[i].svid \in nUsedIds[svs[i].con]]]

GLONASS_SV_ID_OFFSET == 64

(* The ids as the sentences show them. *)
ShownMask(svs, con) ==
    {svs[i].svid + (IF con = "GLONASS" THEN GLONASS_SV_ID_OFFSET ELSE 0) :
        i \in {j \in DOMAIN svs : svs[j].con = con /\ svs[j].used}}

(* The ids cached for the GSA sentences. *)
UsedMask(svs, con) == {svs[i].svid : i \in {j \in DOMAIN svs : svs[j].con = con /\ svs[j].used}}

CountOf(svs, con) == Cardinality({i \in DOMAIN svs : svs[i].con = con})

(* The inner loop of a GSV sentence: from satellite n on, up to four of    *)
(* the constellation, and where it stopped.                                *)
RECURSIVE Fill(_, _, _, _)
Fill(svs, con, n, i) ==
    IF n > Len(svs) \/ i = 4 THEN [ids |-> <<>>, next |-> n]
    ELSE IF svs[n].con # con THEN Fill(svs, con, n + 1, i)
    ELSE LET rest == Fill(svs, con, n + 1, i + 1)
         IN  [rest EXCEPT !.ids = <<svs[n].svid>> \o @]

(* The count without the sentence of the remainder. *)
WholeSentences(count) == count \div 4

sentenceCount(count) == count \div 4 + (IF count % 4 # 0 THEN 1 ELSE 0)

(* The outer loop: sentence number k, from satellite n on. *)
RECURSIVE GsvFrom(_, _, _, _)
GsvFrom(svs, con, n, k) ==
    LET count == CountOf(svs, con)
        line == Fill(svs, con, n, 0)
    IN  IF k > sentenceCount(count) THEN <<>>
        ELSE <<[kind |-> "GSV", con |-> con, of |-> sentenceCount(count), number |-> k,
                count |-> count, ids |-> line.ids]>> \o GsvFrom(svs, con, line.next, k + 1)

Gsv(svs, con) ==
    IF CountOf(svs, con) = 0
    THEN <<[kind |-> "GSV", con |-> con, of |-> 1, number |-> 1, count |-> 0, ids |-> <<>>]>>
    ELSE GsvFrom(svs, con, 1, 1)

(* loc_eng_nmea_generate_sv. *)
ReportSv(report) ==
    LET svs == Flagged(report.svs)
        used == [c \in {"GPS", "GLONASS"} |-> UsedMask(svs, c)]
    IN  /\ nSent' = Gsv(svs, "GPS") \o Gsv(svs, "GLONASS")
        /\ nMask' = used
        /\ nDop' = report.dop
        /\ nLatest' = used /\ nUnused' = TRUE
        /\ UNCHANGED <<nAvail, nUsedIds>>

-----------------------------------------------------------------------------
(* Position reports. *)

(* The DOP of the report (QMI), else the one cached from the satellite     *)
(* report (RPC), else none.                                                *)
DopOf(fix) == IF "DOP" \in fix.ext THEN fix.dop ELSE nDop

fixType(count) == IF count = 0 THEN "1" ELSE IF count <= 3 THEN "2" ELSE "3"

(* The first twelve ids, in ascending order. *)
First12(ids) ==
    [k \in 1 .. Min({12, Cardinality(ids)}) |-> CHOOSE id \in ids : Cardinality({x \in ids : x < id}) = k - 1]

(* $GPGSA and $GNGSA. *)
Gsa(fix, con) ==
    LET offset == IF con = "GPS" THEN 0 ELSE GLONASS_SV_ID_OFFSET
    IN  [kind |-> "GSA", con |-> con, fix |-> fixType(Cardinality(nMask[con])),
         ids |-> First12({id + offset : id \in nMask[con]}), dop |-> DopOf(fix)]

(* No fix, autonomous or differential. *)
PosMode(fix, standalone) ==
    IF "LAT_LONG" \notin fix.flags THEN "N" ELSE IF standalone THEN "A" ELSE "D"

(* The quality taken from the mode alone. *)
QualityOfMode(fix, standalone) == IF standalone THEN "1" ELSE "2"

gpsQuality(fix, standalone) ==
    IF "LAT_LONG" \notin fix.flags THEN "0" ELSE IF standalone THEN "1" ELSE "2"

(* $GPVTG: the magnetic track is printed from the outer magTrack, which is *)
(* the true bearing whether there is a deviation or not.                   *)
Vtg(fix, standalone) ==
    [kind |-> "VTG", mode |-> PosMode(fix, standalone),
     fields |-> fix.flags \cap {"BEARING", "SPEED"}]

(* $GPRMC. *)
Rmc(fix, standalone) ==
    [kind |-> "RMC", mode |-> PosMode(fix, standalone),
     fields |-> (fix.flags \cap {"LAT_LONG", "SPEED", "BEARING"}) \cup (fix.ext \cap {"MAG_DEV"})]

(* $GPGGA: the geoid separation needs both altitudes. *)
Gga(fix, standalone) ==
    [kind |-> "GGA", quality |-> gpsQuality(fix, standalone),
     count |-> Cardinality(nMask["GPS"]), dop |-> DopOf(fix),
     fields |-> (fix.flags \cap {"LAT_LONG"}) \cup (fix.ext \cap {"MSL"})
                \cup (IF "ALTITUDE" \in fix.flags /\ "MSL" \in fix.ext THEN {"GEOID"} ELSE {})]

(* The five sentences with nothing in them, for a fix that is not final. *)
Blank ==
    <<[kind |-> "GSA", con |-> "GPS", fix |-> "1", ids |-> <<>>, dop |-> NoDop],
      [kind |-> "GSA", con |-> "GLONASS", fix |-> "1", ids |-> <<>>, dop |-> NoDop],
      [kind |-> "VTG", mode |-> "N", fields |-> {}],
      [kind |-> "RMC", mode |-> "N", fields |-> {}],
      [kind |-> "GGA", quality |-> "0", count |-> 0, dop |-> NoDop, fields |-> {}]>>

(* The caches that survive a fix. *)
KeepCaches == UNCHANGED <<nMask, nDop>>

(* The masks are cleared once they are used, the DOP also after a blank    *)
(* report.                                                                 *)
ClearCaches == nMask' = [c \in {"GPS", "GLONASS"} |-> {}] /\ nDop' = NoDop

(* The part of LocEngReportPosition::proc that keeps the satellites of a   *)
(* fix that was reported.                                                  *)
setGnssSvUsedListData(fix, reported) ==
    IF reported /\ "USED" \in fix.ext
    THEN nAvail' = TRUE /\ nUsedIds' = fix.usedIds
    ELSE UNCHANGED <<nAvail, nUsedIds>>

(* loc_eng_nmea_generate_pos.  Outside a session, and for a timestamp that *)
(* gmtime refuses, no sentence is made and nothing is cleared.             *)
ReportPosition(fix, reported, standalone) ==
    /\ setGnssSvUsedListData(fix, reported)
    /\ \/ nSent' = <<>> /\ UNCHANGED <<nMask, nDop, nUnused>>
       \/ /\ reported
          /\ nSent' = <<Gsa(fix, "GPS"), Gsa(fix, "GLONASS"), Vtg(fix, standalone),
                        Rmc(fix, standalone), Gga(fix, standalone)>>
          /\ ClearCaches
          /\ nUnused' = FALSE
       \/ /\ ~reported
          /\ nSent' = Blank
          /\ nDop' = NoDop
          /\ UNCHANGED <<nMask, nUnused>>
    /\ UNCHANGED nLatest

(* The part of LocEngStopFix::proc that forgets the satellites of the fix. *)
clearGnssSvUsedListData ==
    /\ nAvail' = FALSE
    /\ nUsedIds' = [c \in Constellations |-> {}]
    /\ nSent' = <<>>
    /\ UNCHANGED <<nMask, nDop, nLatest, nUnused>>

NmeaNext ==
    \/ clearGnssSvUsedListData
    \/ \E r \in SvReports : ReportSv(r)
    \/ \E fix \in Fixes, reported, standalone \in BOOLEAN : ReportPosition(fix, reported, standalone)

NmeaSpec == NmeaInit /\ [][NmeaNext]_nVars

-----------------------------------------------------------------------------
(* Type correctness of the caches; an id cached for the GSA sentences is a *)
(* bit of a mask of 32.                                                    *)
NmeaTypeOK ==
    /\ nAvail \in BOOLEAN /\ nUnused \in BOOLEAN
    /\ \A c \in Constellations : nUsedIds[c] \subseteq Nat
    /\ \A c \in {"GPS", "GLONASS"} : {nMask[c], nLatest[c]} \subseteq SUBSET (1 .. 32)

(* The GSV sentences of a report name every satellite of their             *)
(* constellation once, in the report's order, four to a sentence but the   *)
(* last, numbered from 1 to the count that each of them gives, although    *)
(* the report mixes constellations (the loops of loc_eng_nmea_generate_sv).*)
GsvNamesEverySatellite ==
    [][nSent' # nSent => \A r \in SvReports : \A c \in {"GPS", "GLONASS"} :
         LET lines == SelectSeq(nSent', LAMBDA s : s.kind = "GSV" /\ s.con = c)
             named == FlattenSeq([i \in DOMAIN lines |-> lines[i].ids])
             seen == SelectSeq(r.svs, LAMBDA s : s.con = c)
         IN  ReportSv(r) =>
               /\ named = [i \in DOMAIN seen |-> seen[i].svid]
               /\ \A i \in DOMAIN lines :
                     /\ lines[i].number = i /\ lines[i].of = Len(lines) /\ lines[i].count = Len(seen)
                     /\ i < Len(lines) => Len(lines[i].ids) = 4]_nVars

(* A GSA sentence shows the satellites of the latest satellite report, and *)
(* those of one report only once: a fix without a satellite report of its  *)
(* own shows none (the masks that are cleared once they are used).         *)
SatellitesAreShownOnce ==
    [][\A i \in DOMAIN nSent' :
         LET s == nSent'[i] IN
         s.kind = "GSA" /\ s.ids # <<>> =>
            /\ nUnused
            /\ Len(s.ids) = Min({12, Cardinality(nLatest[s.con])})
            /\ {id % GLONASS_SV_ID_OFFSET : id \in ToSet(s.ids)} \subseteq nLatest[s.con]]_nVars

(* The sentences of one fix agree: mode and quality say the same, and the  *)
(* count of the GGA and the fix type of the GSA belong together.           *)
SentencesAgree ==
    Len(nSent) = 5 /\ nSent[1].kind = "GSA" =>
        LET gsa == nSent[1] vtg == nSent[3] rmc == nSent[4] gga == nSent[5] IN
        /\ vtg.mode = rmc.mode
        /\ gga.quality = [N |-> "0", A |-> "1", D |-> "2"][rmc.mode]
        /\ (rmc.mode = "N") = ("LAT_LONG" \notin rmc.fields)
        /\ gsa.fix = fixType(gga.count) /\ gsa.dop = gga.dop

(* What a position or satellite report is turned into is complete,         *)
(* consistent and of that report.                                          *)
SentencesAreRight ==
    []NmeaTypeOK /\ []SentencesAgree /\ GsvNamesEverySatellite /\ SatellitesAreShownOnce
=============================================================================
