------------------------------ MODULE HalProofs -------------------------------
(***************************************************************************)
(* The light HAL: LedIsRight, for every set of light states and of colour  *)
(* channels; and the GPS HAL with the settings at the modem:               *)
(* ModemFollowsEngine, for every set of settings and of configurations.    *)
(***************************************************************************)
EXTENDS Lights, GpsHal, FiniteSetTheorems, TLAPS

(* What a light can be set to. *)
LightType(s) ==
    /\ s.lit \in BOOLEAN /\ s.flash \in BOOLEAN
    /\ s.alpha \in 0 .. 255 /\ s.onMS \in Nat /\ s.offMS \in Nat

(* The inductive invariant: the kept lights are lights, and the files hold *)
(* numbers.                                                                *)
LightsInv ==
    /\ DOMAIN g_lights = {"ATTENTION", "NOTIFICATION"}
    /\ \A l \in {"ATTENTION", "NOTIFICATION"} : LightType(g_lights[l])
    /\ leds \in [LedFiles -> Nat]
    /\ LedIsRight

-----------------------------------------------------------------------------
(* The brightness of the screen is a byte: the weights of the colours add  *)
(* up to 256.                                                              *)
LEMMA BrightnessIsAByte ==
    ASSUME NEW r \in 0 .. 255, NEW g \in 0 .. 255, NEW b \in 0 .. 255
    PROVE  rgb_to_brightness(r, g, b) \in 0 .. 255
<1> DEFINE n == 77 * r + 150 * g + 29 * b
<1>1. n \in Int /\ 0 <= n /\ n <= 65280
  OBVIOUS
<1>2. n \div 256 \in 0 .. 255
  BY <1>1, SMT
<1> QED
  BY <1>2 DEF rgb_to_brightness

(* A ratio of on to off is a byte. *)
LEMMA RatioIsAByte ==
    ASSUME NEW m \in Nat, NEW n \in Nat, m > 0
    PROVE  (m * 255) \div (m + n) \in 0 .. 255
<1> DEFINE a == m * 255
           d == m + n
           q == a \div d
<1>1. a \in Nat /\ d \in Nat /\ d > 0 /\ a <= d * 255
  OBVIOUS
<1> HIDE DEF a, d
<1>2. q \in Int /\ a = d * q + (a % d) /\ 0 <= a % d /\ a % d < d
  BY <1>1, SMT
<1>3. q >= 0
  <2> SUFFICES ASSUME q <= -1 PROVE FALSE
    BY <1>2
  <2>1. d * q <= d * (-1)
    BY <1>1, <1>2, SMT
  <2> QED
    BY <2>1, <1>1, <1>2, SMT
<1>4. q <= 255
  <2> SUFFICES ASSUME q >= 256 PROVE FALSE
    BY <1>2
  <2>1. d * q >= d * 256
    BY <1>1, <1>2, SMT
  <2> QED
    BY <2>1, <1>1, <1>2, SMT
<1> QED
  BY <1>2, <1>3, <1>4 DEF a, d

(* A light that blinks has a brightness the hardware can tell from off.    *)
LEMMA PwmIsVisible ==
    ASSUME NEW s, LightType(s), Blinks(s)
    PROVE  fake_pwm(s) \in 0 .. 255 /\ (fake_pwm(s) = 0 \/ fake_pwm(s) >= 16)
<1> DEFINE r == (s.onMS * 255) \div (s.onMS + s.offMS)
<1>1. r \in 0 .. 255
  BY RatioIsAByte DEF LightType, Blinks
<1>2. fake_pwm(s) = IF r > 0 /\ r < 16 THEN 16 ELSE r
  BY DEF fake_pwm
<1> HIDE DEF r
<1> QED
  BY <1>1, <1>2

(* What set_light_locked leaves in the files. *)
LEMMA LockedWrites ==
    ASSUME NEW s, LightType(s), LightsInv, set_light_locked(s)
    PROVE  /\ leds' \in [LedFiles -> Nat]
           /\ leds'["red"] = 0 /\ leds'["lcd"] = leds["lcd"]
           /\ Blinks(s) => leds'["green"] = fake_pwm(s) /\ leds'["green_pwm"] = s.offMS * 1000
           /\ ~Blinks(s) => leds'["green"] = brightness_level(s) /\ leds'["green_pwm"] = 100
<1>1. CASE Blinks(s)
  <2> DEFINE v == [green |-> fake_pwm(s), green_pwm |-> s.offMS * 1000, red |-> 0]
  <2>1. leds' = [f \in LedFiles |-> IF f \in DOMAIN v THEN v[f] ELSE leds[f]]
    BY <1>1 DEF set_light_locked, write_int
  <2>2. s.offMS * 1000 \in Nat /\ fake_pwm(s) \in Nat
    BY <1>1, PwmIsVisible DEF LightType
  <2>3. DOMAIN v = {"green", "green_pwm", "red"} /\ \A f \in DOMAIN v : v[f] \in Nat
    BY <2>2
  <2>4. leds' \in [LedFiles -> Nat]
    <3> HIDE DEF v
    <3> QED
      BY <2>1, <2>3 DEF LightsInv
  <2>5. /\ leds'["red"] = 0 /\ leds'["lcd"] = leds["lcd"]
        /\ leds'["green"] = fake_pwm(s) /\ leds'["green_pwm"] = s.offMS * 1000
    BY <2>1 DEF LedFiles
  <2> QED
    BY <2>4, <2>5, <1>1
<1>2. CASE ~Blinks(s)
  <2> DEFINE v == [green |-> brightness_level(s), green_pwm |-> 100, red |-> 0]
  <2>1. leds' = [f \in LedFiles |-> IF f \in DOMAIN v THEN v[f] ELSE leds[f]]
    BY <1>2 DEF set_light_locked, write_int
  <2>2. brightness_level(s) \in Nat
    BY DEF LightType, brightness_level
  <2>3. DOMAIN v = {"green", "green_pwm", "red"} /\ \A f \in DOMAIN v : v[f] \in Nat
    BY <2>2
  <2>4. leds' \in [LedFiles -> Nat]
    <3> HIDE DEF v
    <3> QED
      BY <2>1, <2>3 DEF LightsInv
  <2>5. /\ leds'["red"] = 0 /\ leds'["lcd"] = leds["lcd"]
        /\ leds'["green"] = brightness_level(s) /\ leds'["green_pwm"] = 100
    BY <2>1 DEF LedFiles
  <2> QED
    BY <2>4, <2>5, <1>2
<1> QED
  BY <1>1, <1>2

-----------------------------------------------------------------------------
(* Attention or notification is set. *)
LEMMA SharedStep ==
    ASSUME NEW l \in {"ATTENTION", "NOTIFICATION"}, NEW s, LightType(s), LightsInv,
           g_lights' = [g_lights EXCEPT ![l] = s], lSetter' = l,
           set_light_locked(Prioritized(g_lights', s))
    PROVE  LightsInv'
<1>1. /\ DOMAIN g_lights' = {"ATTENTION", "NOTIFICATION"}
      /\ \A k \in {"ATTENTION", "NOTIFICATION"} : LightType(g_lights'[k])
      /\ g_lights'[l] = s
  BY DEF LightsInv
<1> PICK p : p = Prioritized(g_lights', s)
  OBVIOUS
<1>2. LightType(p)
  BY <1>1 DEF Prioritized
<1>3. /\ leds' \in [LedFiles -> Nat]
      /\ leds'["red"] = 0 /\ leds'["lcd"] = leds["lcd"]
      /\ Blinks(p) => leds'["green"] = fake_pwm(p) /\ leds'["green_pwm"] = p.offMS * 1000
      /\ ~Blinks(p) => leds'["green"] = brightness_level(p) /\ leds'["green_pwm"] = 100
  BY <1>2, LockedWrites
<1>4. leds'["green"] \in 0 .. 255 /\ (leds'["green_pwm"] > 100 => leds'["green"] = 0 \/ leds'["green"] >= 16)
  <2>1. CASE Blinks(p)
    BY <2>1, <1>3, <1>2, PwmIsVisible
  <2>2. CASE ~Blinks(p)
    BY <2>2, <1>3, <1>2 DEF brightness_level, LightType
  <2> QED
    BY <2>1, <2>2
<1>5. LedIsInRange'
  BY <1>3, <1>4 DEF LedIsInRange, LightsInv, LedIsRight
<1>6. LedFollowsPriority'
  <2> DEFINE on == {k \in DOMAIN g_lights' : is_lit(g_lights'[k])}
             t == g_lights'[IF "ATTENTION" \in on THEN "ATTENTION" ELSE "NOTIFICATION"]
  <2>1. on = {k \in {"ATTENTION", "NOTIFICATION"} : is_lit(g_lights'[k])}
    BY <1>1
  <2>2. on = {} => ~is_lit(p) /\ p = g_lights'[l]
    BY <2>1, <1>1 DEF Prioritized
  <2>3. on # {} => p = t /\ is_lit(p)
    <3>1. CASE is_lit(g_lights'["ATTENTION"])
      BY <3>1, <2>1 DEF Prioritized
    <3>2. CASE ~is_lit(g_lights'["ATTENTION"])
      BY <3>2, <2>1 DEF Prioritized
    <3> QED
      BY <3>1, <3>2
  <2> HIDE DEF on, t
  <2>4. on = {} /\ ~Blinks(g_lights'[l]) => leds'["green"] = 0
    BY <2>2, <1>3 DEF brightness_level
  <2>5. on # {} /\ ~Blinks(t) => leds'["green"] > 0 /\ t.alpha \in {0, leds'["green"]}
    BY <2>3, <1>2, <1>3 DEF brightness_level, LightType
  <2>6. on # {} /\ Blinks(t) => leds'["green_pwm"] = t.offMS * 1000
    BY <2>3, <1>3
  <2> QED
    BY <1>3, <2>4, <2>5, <2>6 DEF LedFollowsPriority, on, t
<1> QED
  BY <1>1, <1>3, <1>5, <1>6 DEF LightsInv, LedIsRight

(* The battery's light is set, over the others. *)
LEMMA BatteryStep ==
    ASSUME NEW s, LightType(s), LightsInv, set_light_battery(s)
    PROVE  LightsInv'
<1>1. PICK v \in UNION {[D -> {0, 100, 255}] : D \in SUBSET (LedFiles \ {"lcd"})} :
         /\ leds' = [f \in LedFiles |-> IF f \in DOMAIN v THEN v[f] ELSE leds[f]]
         /\ {"green", "red"} \subseteq DOMAIN v
  <2>1. CASE ~is_lit(s)
    <3> DEFINE v == [green |-> 0, red |-> 0]
    <3>1. v \in [{"green", "red"} -> {0, 100, 255}] /\ DOMAIN v = {"green", "red"}
      OBVIOUS
    <3>2. leds' = [f \in LedFiles |-> IF f \in DOMAIN v THEN v[f] ELSE leds[f]]
      BY <2>1 DEF set_light_battery, write_int
    <3> HIDE DEF v
    <3> QED
      BY <3>1, <3>2 DEF LedFiles
  <2>2. CASE is_lit(s) /\ s.alpha <= 15
    <3> DEFINE v == [green |-> 0, red |-> 255, red_pwm |-> 100]
    <3>1. v \in [{"green", "red", "red_pwm"} -> {0, 100, 255}] /\ DOMAIN v = {"green", "red", "red_pwm"}
      OBVIOUS
    <3>2. leds' = [f \in LedFiles |-> IF f \in DOMAIN v THEN v[f] ELSE leds[f]]
      BY <2>2 DEF set_light_battery, write_int, LightType
    <3> HIDE DEF v
    <3> QED
      BY <3>1, <3>2 DEF LedFiles
  <2>3. CASE is_lit(s) /\ s.alpha \in 16 .. 99
    <3> DEFINE v == [green |-> 255, green_pwm |-> 100, red |-> 255, red_pwm |-> 100]
    <3>1. /\ v \in [{"green", "green_pwm", "red", "red_pwm"} -> {0, 100, 255}]
          /\ DOMAIN v = {"green", "green_pwm", "red", "red_pwm"}
      OBVIOUS
    <3>2. leds' = [f \in LedFiles |-> IF f \in DOMAIN v THEN v[f] ELSE leds[f]]
      BY <2>3 DEF set_light_battery, write_int, LightType
    <3> HIDE DEF v
    <3> QED
      BY <3>1, <3>2 DEF LedFiles
  <2>4. CASE is_lit(s) /\ ~(s.alpha <= 15) /\ s.alpha \notin 16 .. 99
    <3> DEFINE v == [green |-> 255, green_pwm |-> 100, red |-> 0]
    <3>1. v \in [{"green", "green_pwm", "red"} -> {0, 100, 255}] /\ DOMAIN v = {"green", "green_pwm", "red"}
      OBVIOUS
    <3>2. leds' = [f \in LedFiles |-> IF f \in DOMAIN v THEN v[f] ELSE leds[f]]
      BY <2>4 DEF set_light_battery, write_int, LightType
    <3> HIDE DEF v
    <3> QED
      BY <3>1, <3>2 DEF LedFiles
  <2> QED
    BY <2>1, <2>2, <2>3, <2>4
<1>2. \A f \in DOMAIN v : v[f] \in {0, 100, 255}
  BY <1>1
<1>3. "lcd" \notin DOMAIN v
  BY <1>1
<1>4. leds' \in [LedFiles -> Nat] /\ leds'["lcd"] = leds["lcd"]
      /\ leds'["green"] \in 0 .. 255 /\ leds'["red"] \in 0 .. 255
  BY <1>1, <1>2, <1>3 DEF LightsInv, LedFiles
<1>5. g_lights' = g_lights /\ lSetter' = "BATTERY"
  BY DEF set_light_battery
<1> QED
  BY <1>4, <1>5 DEF LightsInv, LedIsRight, LedFollowsPriority, LedIsInRange

(* The screen's brightness is set. *)
LEMMA BacklightStep ==
    ASSUME NEW r \in Channels, NEW g \in Channels, NEW b \in Channels,
           LightsInv, set_light_backlight(r, g, b)
    PROVE  LightsInv'
<1> DEFINE v == [lcd |-> rgb_to_brightness(r, g, b)]
<1>1. v["lcd"] \in 0 .. 255
  BY BrightnessIsAByte, LightAssumption
<1>2. leds' = [f \in LedFiles |-> IF f \in DOMAIN v THEN v[f] ELSE leds[f]]
  BY DEF set_light_backlight, write_int
<1>3. DOMAIN v = {"lcd"}
  OBVIOUS
<1> HIDE DEF v
<1>4. leds' \in [LedFiles -> Nat] /\ leds'["lcd"] \in 0 .. 255
  BY <1>1, <1>2, <1>3 DEF LightsInv, LedFiles
<1>5. \A f \in {"green", "green_pwm", "red", "red_pwm"} : leds'[f] = leds[f]
  BY <1>2, <1>3 DEF LedFiles
<1>6. g_lights' = g_lights /\ lSetter' = lSetter
  BY DEF set_light_backlight
<1>7. LedFollowsPriority'
  BY <1>5, <1>6 DEF LightsInv, LedIsRight, LedFollowsPriority
<1>8. LedIsInRange'
  BY <1>4, <1>5, <1>6 DEF LightsInv, LedIsRight, LedIsInRange
<1> QED
  BY <1>4, <1>6, <1>7, <1>8 DEF LightsInv, LedIsRight

(* The shared LED shows the light of highest priority, in a form the       *)
(* kernel takes, after every sequence of calls (lights.c).                 *)
THEOREM TheLedIsRight == LightsSpec => []LedIsRight
<1>1. LightsInit => LightsInv
  <2> SUFFICES ASSUME LightsInit PROVE LightsInv
    OBVIOUS
  <2>1. LightType(LightOff) /\ ~is_lit(LightOff)
    BY DEF LightType, LightOff, is_lit
  <2>2. leds \in [LedFiles -> Nat] /\ \A f \in LedFiles : leds[f] = 0
    BY DEF LightsInit
  <2>3. DOMAIN g_lights = {"ATTENTION", "NOTIFICATION"} /\ lSetter \notin DOMAIN g_lights
    BY DEF LightsInit
  <2>4. \A l \in {"ATTENTION", "NOTIFICATION"} : LightType(g_lights[l])
    BY <2>1 DEF LightsInit
  <2>5. LedIsRight
    BY <2>2, <2>3 DEF LedIsRight, LedFollowsPriority, LedIsInRange, LedFiles
  <2> QED
    BY <2>2, <2>3, <2>4, <2>5 DEF LightsInv
<1>2. LightsInv /\ [LightsNext]_lVars => LightsInv'
  <2> SUFFICES ASSUME LightsInv, [LightsNext]_lVars PROVE LightsInv'
    OBVIOUS
  <2>1. ASSUME NEW s \in LightStates PROVE LightType(s)
    BY LightAssumption DEF LightType
  <2>2. ASSUME NEW s \in LightStates, set_light_attention(s) PROVE LightsInv'
    BY <2>1, <2>2, SharedStep DEF set_light_attention
  <2>3. ASSUME NEW s \in LightStates, set_light_notifications(s) PROVE LightsInv'
    BY <2>1, <2>3, SharedStep DEF set_light_notifications
  <2>4. ASSUME NEW s \in LightStates, set_light_battery(s) PROVE LightsInv'
    BY <2>1, <2>4, BatteryStep
  <2>5. ASSUME NEW r \in Channels, NEW g \in Channels, NEW b \in Channels,
               set_light_backlight(r, g, b)
        PROVE  LightsInv'
    BY <2>5, BacklightStep
  <2>6. CASE UNCHANGED lVars
    BY <2>6 DEF LightsInv, lVars, LedIsRight, LedFollowsPriority, LedIsInRange
  <2> QED
    BY <2>2, <2>3, <2>4, <2>5, <2>6 DEF LightsNext
<1>3. LightsInv => LedIsRight
  BY DEF LightsInv
<1> QED
  BY <1>1, <1>2, <1>3, PTL DEF LightsSpec

-----------------------------------------------------------------------------
(* The HAL and the settings at the modem. *)

(* The values a configuration, a message and the modem can hold. *)
Confs == ConfigData \cup {GpsConf}
SettingValues == {d.set[s] : d \in Confs, s \in Settings}
Locks == {"0"} \cup {d.lock : d \in Confs}
Caps == (UNION {d.caps : d \in Confs}) \cup {"MEASUREMENTS"}
Servers == {<<>>} \cup {<<h>> : h \in Hosts}
ConfType == [set : [Settings -> SettingValues], caps : SUBSET Caps, lock : Locks]

About(s) == [m : {"Setting"}, v : {s}, to : SettingValues]
SettingMsgs == [m : {"Setting"}, v : Settings, to : SettingValues]
LockMsgs == [m : {"GpsLock"}, v : Locks]
ServerMsgs == [m : {"Server"}, v : Hosts]
DataMsgs == [m : {"EnableData"}, v : {"0", "1"}]
MeasMsgs == [m : {"Measurements"}, v : {"0", "1"}]
UpMsgs == [m : {"Up"}, v : {""}]
ReinitMsgs == [m : {"Init", "Up"}, v : {""}]
OtherMsgs == [m : {"Down", "Constellation", "Capabilities"}, v : {""}]
HalMsgs == SettingMsgs \cup LockMsgs \cup ServerMsgs \cup DataMsgs \cup MeasMsgs \cup ReinitMsgs
             \cup OtherMsgs

ModemType ==
    [up : BOOLEAN, set : [Settings -> SettingValues \cup {"unset"}], server : Servers,
     data : {"unset", "0", "1"}, lock : Locks \cup {"unset"},
     power : {"unset"} \cup (IF VoteRight THEN {"101", "103"} ELSE {}), meas : BOOLEAN]

HalTypes ==
    /\ {gAdapter, gAgps, gMeasCb, gVote} \subseteq BOOLEAN
    /\ gConf \in ConfType /\ gTmp \in ConfType
    /\ gUpd \in {"idle", "parsed", "sent"} /\ gAvail \in {"0", "1"}
    /\ gServer \in Servers
    /\ gQueue \in Seq(HalMsgs)
    /\ gModem \in ModemType
    /\ gCaps \in {<<>>} \cup {<<c>> : c \in SUBSET Caps}
    /\ gAsked \in [host : Servers, early : BOOLEAN]
    /\ gExcuse \subseteq {"race", "lock", "no APN"}

(* No message of the kind K is queued. *)
NoneOf(q, K) == \A i \in 1 .. Len(q) : q[i] \notin K

(* The last message of the kind K is one of G. *)
EndsIn(q, K, G) ==
    \E i \in 1 .. Len(q) : q[i] \in G /\ \A j \in i + 1 .. Len(q) : q[j] \notin K

(* What the engine wants the modem to have: within an update, of what is   *)
(* not sent yet or is to be restored, the value of the copy.               *)
Wanted(s) ==
    IF gUpd = "parsed" \/ (gUpd = "sent" /\ s \in ReinitOnly) THEN gTmp.set[s] ELSE gConf.set[s]

WantedLock == IF gVote THEN "0" ELSE IF gUpd = "parsed" THEN gTmp.lock ELSE gConf.lock

WantedMsg(s) == [m |-> "Setting", v |-> s, to |-> Wanted(s)]

(* A setting is as it is wanted, or the last message about it makes it so, *)
(* unless a re-initialisation is to come, which sends them all.            *)
SettingsInv ==
    gAdapter /\ gModem.up /\ "race" \notin gExcuse /\ NoneOf(gQueue, ReinitMsgs) =>
        \A s \in Settings :
            \/ EndsIn(gQueue, About(s), {WantedMsg(s)})
            \/ NoneOf(gQueue, About(s)) /\ gModem.set[s] = Wanted(s)

LockInv ==
    gAdapter =>
        \/ EndsIn(gQueue, LockMsgs, {Msg("GpsLock", WantedLock)})
        \/ NoneOf(gQueue, LockMsgs) /\ ("lock" \in gExcuse \/ gModem.lock = WantedLock)

PowerInv ==
    VoteRight /\ gAdapter /\ gModem.up /\ NoneOf(gQueue, UpMsgs) =>
        gModem.power = (IF gVote THEN "103" ELSE "101")

(* A server was set since loc_init. *)
ServerAsked == gAsked.host # <<>> /\ ~gAsked.early

ServerInv ==
    /\ gAgps => gAdapter
    /\ ServerAsked => gAdapter /\ gServer = gAsked.host
    /\ ServerAsked /\ gAgps /\ gModem.up /\ NoneOf(gQueue, UpMsgs) =>
          \/ EndsIn(gQueue, ServerMsgs, {Msg("Server", gAsked.host[1])})
          \/ NoneOf(gQueue, ServerMsgs) /\ gModem.server = gAsked.host

DataInv ==
    gAdapter /\ gModem.up /\ "no APN" \notin gExcuse /\ NoneOf(gQueue, ReinitMsgs) =>
        \/ EndsIn(gQueue, DataMsgs, {Msg("EnableData", gAvail)})
        \/ NoneOf(gQueue, DataMsgs) /\ gModem.data = gAvail

(* The capabilities are those of the copy while an update is under way. *)
OurCaps == IF gUpd = "idle" THEN gConf.caps ELSE gTmp.caps

CapsInv ==
    "race" \notin gExcuse =>
        /\ gCaps # <<>> => gCaps[1] \subseteq OurCaps
        /\ Apq => OurCaps \cap {"MSA", "MSB"} = {}

(* A modem that starts measures: what was sent to one that was down need   *)
(* not be sent again.                                                      *)
MeasInv ==
    gMeasCb =>
        \/ EndsIn(gQueue, MeasMsgs, {Msg("Measurements", "1")})
        \/ NoneOf(gQueue, MeasMsgs) /\ (gModem.up => gModem.meas)

(* The inductive invariant. *)
HalIInv ==
    /\ HalTypes /\ SettingsInv /\ LockInv /\ PowerInv /\ ServerInv /\ DataInv /\ CapsInv
    /\ MeasInv

-----------------------------------------------------------------------------
(* Queues. *)

(* One queue behind another. *)
LEMMA Joined ==
    ASSUME NEW S, NEW q \in Seq(S), NEW t \in Seq(S), NEW r, r = q \o t
    PROVE  /\ r \in Seq(S) /\ Len(q) \in Nat /\ Len(t) \in Nat /\ Len(r) = Len(q) + Len(t)
           /\ \A i \in 1 .. Len(q) : r[i] = q[i]
           /\ \A i \in 1 .. Len(t) : r[Len(q) + i] = t[i]
           /\ \A i \in 1 .. Len(r) : i > Len(q) => i - Len(q) \in 1 .. Len(t) /\ r[i] = t[i - Len(q)]
OBVIOUS

(* Nothing of a kind is in a queue when it is in neither part. *)
LEMMA NoneJoined ==
    ASSUME NEW S, NEW q \in Seq(S), NEW t \in Seq(S), NEW r, r = q \o t, NEW K
    PROVE  NoneOf(r, K) <=> NoneOf(q, K) /\ NoneOf(t, K)
<1>1. /\ Len(q) \in Nat /\ Len(t) \in Nat /\ Len(r) = Len(q) + Len(t)
      /\ \A i \in 1 .. Len(q) : r[i] = q[i]
      /\ \A i \in 1 .. Len(t) : r[Len(q) + i] = t[i]
      /\ \A i \in 1 .. Len(r) : i > Len(q) => i - Len(q) \in 1 .. Len(t) /\ r[i] = t[i - Len(q)]
  BY Joined
<1>2. NoneOf(r, K) => NoneOf(q, K) /\ NoneOf(t, K)
  <2> SUFFICES ASSUME NoneOf(r, K) PROVE NoneOf(q, K) /\ NoneOf(t, K)
    OBVIOUS
  <2>1. ASSUME NEW i \in 1 .. Len(q) PROVE q[i] \notin K
    <3>1. i \in 1 .. Len(r) /\ r[i] = q[i]
      BY <1>1
    <3> QED
      BY <3>1 DEF NoneOf
  <2>2. ASSUME NEW i \in 1 .. Len(t) PROVE t[i] \notin K
    <3>1. Len(q) + i \in 1 .. Len(r) /\ r[Len(q) + i] = t[i]
      BY <1>1
    <3> QED
      BY <3>1 DEF NoneOf
  <2> QED
    BY <2>1, <2>2 DEF NoneOf
<1>3. NoneOf(q, K) /\ NoneOf(t, K) => NoneOf(r, K)
  <2> SUFFICES ASSUME NoneOf(q, K), NoneOf(t, K), NEW i \in 1 .. Len(r) PROVE r[i] \notin K
    BY DEF NoneOf
  <2>1. CASE i <= Len(q)
    <3>1. i \in 1 .. Len(q) /\ r[i] = q[i]
      BY <1>1, <2>1
    <3> QED
      BY <3>1 DEF NoneOf
  <2>2. CASE i > Len(q)
    <3>1. i - Len(q) \in 1 .. Len(t) /\ r[i] = t[i - Len(q)]
      BY <1>1, <2>2
    <3> QED
      BY <3>1 DEF NoneOf
  <2> QED
    BY <1>1, <2>1, <2>2
<1> QED
  BY <1>2, <1>3

(* The last of a kind stays the last when nothing of it comes behind. *)
LEMMA LastStays ==
    ASSUME NEW S, NEW q \in Seq(S), NEW t \in Seq(S), NEW r, r = q \o t, NEW K, NEW G,
           EndsIn(q, K, G), NoneOf(t, K)
    PROVE  EndsIn(r, K, G)
<1>1. /\ Len(q) \in Nat /\ Len(t) \in Nat /\ Len(r) = Len(q) + Len(t)
      /\ \A i \in 1 .. Len(q) : r[i] = q[i]
      /\ \A i \in 1 .. Len(r) : i > Len(q) => i - Len(q) \in 1 .. Len(t) /\ r[i] = t[i - Len(q)]
  BY Joined
<1>2. PICK i \in 1 .. Len(q) : q[i] \in G /\ \A j \in i + 1 .. Len(q) : q[j] \notin K
  BY DEF EndsIn
<1>3. i \in 1 .. Len(r) /\ r[i] \in G
  BY <1>1, <1>2
<1>4. ASSUME NEW j \in i + 1 .. Len(r) PROVE r[j] \notin K
  <2>1. CASE j <= Len(q)
    <3>1. j \in i + 1 .. Len(q) /\ j \in 1 .. Len(q)
      BY <1>1, <2>1
    <3> QED
      BY <1>1, <1>2, <3>1
  <2>2. CASE j > Len(q)
    <3>1. j \in 1 .. Len(r)
      BY <1>1
    <3>2. j - Len(q) \in 1 .. Len(t) /\ r[j] = t[j - Len(q)]
      BY <1>1, <2>2, <3>1
    <3> QED
      BY <3>2 DEF NoneOf
  <2> QED
    BY <1>1, <2>1, <2>2
<1> QED
  BY <1>3, <1>4 DEF EndsIn

(* The last of a kind is that of the part that comes behind. *)
LEMMA LastIsBehind ==
    ASSUME NEW S, NEW q \in Seq(S), NEW t \in Seq(S), NEW r, r = q \o t, NEW K, NEW G,
           EndsIn(t, K, G)
    PROVE  EndsIn(r, K, G)
<1>1. /\ Len(q) \in Nat /\ Len(t) \in Nat /\ Len(r) = Len(q) + Len(t)
      /\ \A i \in 1 .. Len(t) : r[Len(q) + i] = t[i]
      /\ \A i \in 1 .. Len(r) : i > Len(q) => i - Len(q) \in 1 .. Len(t) /\ r[i] = t[i - Len(q)]
  BY Joined
<1>2. PICK i \in 1 .. Len(t) : t[i] \in G /\ \A j \in i + 1 .. Len(t) : t[j] \notin K
  BY DEF EndsIn
<1>3. Len(q) + i \in 1 .. Len(r) /\ r[Len(q) + i] \in G
  BY <1>1, <1>2
<1>4. ASSUME NEW j \in Len(q) + i + 1 .. Len(r) PROVE r[j] \notin K
  <2>1. j \in 1 .. Len(r) /\ j > Len(q) /\ j - Len(q) \in i + 1 .. Len(t)
    BY <1>1
  <2> QED
    BY <1>1, <1>2, <2>1
<1>5. \A j \in (Len(q) + i) + 1 .. Len(r) : r[j] \notin K
  BY <1>4
<1> QED
  BY <1>3, <1>5 DEF EndsIn

(* What taking the first message does to the last of a kind. *)
LEMMA LastTaken ==
    ASSUME NEW S, NEW q \in Seq(S), q # <<>>, NEW K, NEW G
    PROVE  /\ Tail(q) \in Seq(S) /\ Head(q) \in S
           /\ NoneOf(q, K) <=> NoneOf(Tail(q), K) /\ Head(q) \notin K
           /\ EndsIn(q, K, G) => EndsIn(Tail(q), K, G) \/ (NoneOf(Tail(q), K) /\ Head(q) \in G)
<1>1. PICK t : t = Tail(q)
  OBVIOUS
<1>2. /\ t \in Seq(S) /\ Head(q) = q[1] /\ q[1] \in S
      /\ Len(q) \in Nat \ {0} /\ Len(t) = Len(q) - 1
      /\ \A i \in 1 .. Len(t) : t[i] = q[i + 1] /\ i + 1 \in 1 .. Len(q)
      /\ \A i \in 2 .. Len(q) : q[i] = t[i - 1] /\ i - 1 \in 1 .. Len(t)
  BY <1>1
<1>3. NoneOf(q, K) => NoneOf(t, K) /\ Head(q) \notin K
  BY <1>2 DEF NoneOf
<1>4. ASSUME NoneOf(t, K), Head(q) \notin K PROVE NoneOf(q, K)
  <2> SUFFICES ASSUME NEW i \in 1 .. Len(q) PROVE q[i] \notin K
    BY DEF NoneOf
  <2>1. CASE i = 1
    BY <1>2, <1>4, <2>1
  <2>2. CASE i # 1
    <3>1. i \in 2 .. Len(q)
      BY <1>2, <2>2
    <3> QED
      BY <1>2, <1>4, <3>1 DEF NoneOf
  <2> QED
    BY <2>1, <2>2
<1>5. ASSUME EndsIn(q, K, G) PROVE EndsIn(t, K, G) \/ (NoneOf(t, K) /\ Head(q) \in G)
  <2>1. PICK i \in 1 .. Len(q) : q[i] \in G /\ \A j \in i + 1 .. Len(q) : q[j] \notin K
    BY <1>5 DEF EndsIn
  <2>2. CASE i = 1
    <3>1. \A j \in 1 .. Len(t) : j + 1 \in i + 1 .. Len(q)
      BY <1>2, <2>2
    <3> QED
      BY <1>2, <2>1, <2>2, <3>1 DEF NoneOf
  <2>3. CASE i # 1
    <3>1. i \in 2 .. Len(q)
      BY <1>2, <2>3
    <3>2. i - 1 \in 1 .. Len(t) /\ t[i - 1] \in G
      BY <1>2, <2>1, <3>1
    <3>3. \A j \in (i - 1) + 1 .. Len(t) : t[j] \notin K
      <4> SUFFICES ASSUME NEW j \in (i - 1) + 1 .. Len(t) PROVE t[j] \notin K
        OBVIOUS
      <4>1. j \in 1 .. Len(t) /\ j + 1 \in i + 1 .. Len(q)
        BY <1>2, <3>1
      <4> QED
        BY <1>2, <2>1, <4>1
    <3> QED
      BY <3>2, <3>3 DEF EndsIn
  <2> QED
    BY <2>2, <2>3
<1> QED
  BY <1>1, <1>2, <1>3, <1>4, <1>5

(* Queues of one and of no message. *)
LEMMA OneMsg ==
    ASSUME NEW S, NEW x \in S, NEW K, NEW G
    PROVE  /\ <<x>> \in Seq(S) /\ <<>> \in Seq(S)
           /\ NoneOf(<<x>>, K) <=> x \notin K
           /\ x \in G => EndsIn(<<x>>, K, G)
           /\ NoneOf(<<>>, K)
<1>1. /\ <<x>> \in Seq(S) /\ <<>> \in Seq(S) /\ Len(<<x>>) = 1 /\ <<x>>[1] = x /\ Len(<<>>) = 0
  OBVIOUS
<1>2. NoneOf(<<x>>, K) <=> x \notin K
  BY <1>1 DEF NoneOf
<1>3. ASSUME x \in G PROVE EndsIn(<<x>>, K, G)
  <2>1. 1 \in 1 .. Len(<<x>>) /\ \A j \in 1 + 1 .. Len(<<x>>) : FALSE
    BY <1>1
  <2> QED
    BY <1>1, <1>3, <2>1 DEF EndsIn
<1>4. NoneOf(<<>>, K)
  BY <1>1 DEF NoneOf
<1> QED
  BY <1>1, <1>2, <1>3, <1>4

(* SetToSeq lists every element of a finite set once. *)
LEMMA Listed ==
    ASSUME NEW S, IsFiniteSet(S), NEW f, f = SetToSeq(S)
    PROVE  /\ f \in Seq(S) /\ Len(f) \in Nat /\ f \in [1 .. Len(f) -> S]
           /\ \A x \in S : \E i \in 1 .. Len(f) : f[i] = x /\ \A j \in 1 .. Len(f) : f[j] = x => j = i
<1>1. PICK n : n = Cardinality(S)
  OBVIOUS
<1>2. n \in Nat /\ ExistsBijection(1 .. n, S)
  BY <1>1, FS_CardinalityType
<1>3. \E g \in [1 .. n -> S] : IsInjective(g)
  BY <1>2 DEF ExistsBijection, Bijection, Injection
<1>4. f \in [1 .. n -> S] /\ IsInjective(f)
  BY <1>1, <1>3 DEF SetToSeq
<1>5. f \in Seq(S) /\ Len(f) = n /\ DOMAIN f = 1 .. n
  BY <1>2, <1>4
<1>6. PICK T : T = {f[i] : i \in 1 .. n}
  OBVIOUS
<1>7. T \in SUBSET S
  BY <1>4, <1>6
<1>8. f \in Bijection(1 .. n, T)
  <2>1. f \in [1 .. n -> T]
    BY <1>4, <1>6
  <2> QED
    BY <2>1, <1>4, <1>6 DEF Bijection, Injection, Surjection
<1>9. Cardinality(T) = n
  BY <1>2, <1>8, FS_CountingElements DEF ExistsBijection
<1>10. S = T
  BY <1>1, <1>7, <1>9, FS_Subset
<1>11. \A x \in S : \E i \in 1 .. n : f[i] = x
  BY <1>6, <1>10
<1> QED
  BY <1>2, <1>4, <1>5, <1>11 DEF IsInjective

(* The one message of its kind in a list of messages. *)
LEMMA LastListed ==
    ASSUME NEW S, IsFiniteSet(S), NEW f, f = SetToSeq(S), NEW K
    PROVE  /\ S \cap K = {} => NoneOf(f, K)
           /\ \A x \in S : S \cap K \subseteq {x} => EndsIn(f, K, {x})
<1>1. /\ f \in Seq(S)
      /\ \A x \in S : \E i \in 1 .. Len(f) : f[i] = x /\ \A j \in 1 .. Len(f) : f[j] = x => j = i
  BY Listed
<1>2. Len(f) \in Nat /\ \A i \in 1 .. Len(f) : f[i] \in S
  BY <1>1
<1>3. S \cap K = {} => NoneOf(f, K)
  BY <1>2 DEF NoneOf
<1>4. ASSUME NEW x \in S, S \cap K \subseteq {x} PROVE EndsIn(f, K, {x})
  <2>1. PICK i \in 1 .. Len(f) : f[i] = x /\ \A j \in 1 .. Len(f) : f[j] = x => j = i
    BY <1>1
  <2>2. ASSUME NEW j \in i + 1 .. Len(f) PROVE f[j] \notin K
    <3>1. j \in 1 .. Len(f) /\ j # i
      BY <1>2
    <3> QED
      BY <1>2, <1>4, <2>1, <3>1
  <2> QED
    BY <2>1, <2>2 DEF EndsIn
<1> QED
  BY <1>3, <1>4

-----------------------------------------------------------------------------
(* Messages. *)

(* The kind of a message is in its name. *)
LEMMA KindOfMsg ==
    ASSUME NEW x \in HalMsgs
    PROVE  /\ x.m \in {"Setting", "GpsLock", "Server", "EnableData", "Measurements", "Init", "Up",
                       "Down", "Constellation", "Capabilities"}
           /\ x \in SettingMsgs <=> x.m = "Setting"
           /\ x \in LockMsgs <=> x.m = "GpsLock"
           /\ x \in ServerMsgs <=> x.m = "Server"
           /\ x \in DataMsgs <=> x.m = "EnableData"
           /\ x \in MeasMsgs <=> x.m = "Measurements"
           /\ x \in UpMsgs <=> x.m = "Up"
           /\ x \in ReinitMsgs <=> x.m \in {"Init", "Up"}
           /\ \A s \in Settings : x \in About(s) <=> x.m = "Setting" /\ x.v = s
BY DEF HalMsgs, SettingMsgs, LockMsgs, ServerMsgs, DataMsgs, MeasMsgs, UpMsgs, ReinitMsgs, OtherMsgs,
       About

(* The messages the HAL and the modem queue. *)
LEMMA MsgsQueued ==
    /\ \A n \in {"Init", "Up", "Down", "Constellation", "Capabilities"} :
          Msg(n, "") \in HalMsgs /\ Msg(n, "").m = n
    /\ \A k \in Locks : Msg("GpsLock", k) \in HalMsgs /\ Msg("GpsLock", k).m = "GpsLock"
    /\ \A h \in Hosts : Msg("Server", h) \in HalMsgs /\ Msg("Server", h).m = "Server"
    /\ \A a \in {"0", "1"} :
          /\ Msg("EnableData", a) \in HalMsgs /\ Msg("EnableData", a).m = "EnableData"
          /\ Msg("Measurements", a) \in HalMsgs /\ Msg("Measurements", a).m = "Measurements"
BY DEF Msg, HalMsgs, SettingMsgs, LockMsgs, ServerMsgs, DataMsgs, MeasMsgs, ReinitMsgs, OtherMsgs

(* A setting of a configuration makes a message about it, of the update and *)
(* of the files alike.                                                     *)
LEMMA SettingQueued ==
    ASSUME NEW s \in Settings, NEW c \in ConfType
    PROVE  /\ Setting(s, c) \in HalMsgs /\ Setting(s, c) = FileSetting(s, c)
           /\ Setting(s, c).m = "Setting" /\ Setting(s, c).v = s /\ Setting(s, c).to = c.set[s]
BY DEF Setting, FileSetting, HalMsgs, SettingMsgs, ConfType

(* The settings of a configuration, each in a message of its own. *)
LEMMA SettingsListed ==
    ASSUME NEW c \in ConfType, NEW S \in SUBSET Settings, IsFiniteSet(S),
           NEW t, t = SetToSeq({Setting(s, c) : s \in S})
    PROVE  /\ t \in Seq(HalMsgs)
           /\ \A s \in S : EndsIn(t, About(s), {Setting(s, c)})
           /\ \A s \in Settings \ S : NoneOf(t, About(s))
           /\ NoneOf(t, LockMsgs) /\ NoneOf(t, ServerMsgs) /\ NoneOf(t, DataMsgs)
           /\ NoneOf(t, MeasMsgs) /\ NoneOf(t, UpMsgs) /\ NoneOf(t, ReinitMsgs)
<1>1. PICK M : M = {Setting(s, c) : s \in S}
  OBVIOUS
<1>2. IsFiniteSet(M)
  <2>1. PICK f : f = [s \in S |-> Setting(s, c)]
    OBVIOUS
  <2>2. f \in [S -> M] /\ \A x \in M : \E s \in S : f[s] = x
    BY <1>1, <2>1
  <2>3. f \in Surjection(S, M)
    BY <2>2 DEF Surjection
  <2> QED
    BY <2>3, FS_Surjection
<1>3. \A x \in M : x \in HalMsgs /\ x.m = "Setting" /\ x.v \in S /\ x = Setting(x.v, c)
  BY <1>1, SettingQueued
<1>4. t = SetToSeq(M)
  BY <1>1
<1>5. t \in Seq(HalMsgs)
  <2>1. Len(t) \in Nat /\ t \in [1 .. Len(t) -> M]
    BY <1>2, <1>4, Listed
  <2> QED
    BY <2>1, <1>3
<1>6. ASSUME NEW s \in S PROVE EndsIn(t, About(s), {Setting(s, c)})
  <2>1. Setting(s, c) \in M /\ M \cap About(s) \subseteq {Setting(s, c)}
    BY <1>1, <1>3, KindOfMsg
  <2> QED
    BY <1>2, <1>4, <2>1, LastListed
<1>7. ASSUME NEW s \in Settings \ S PROVE NoneOf(t, About(s))
  <2>1. M \cap About(s) = {}
    BY <1>3, KindOfMsg
  <2> QED
    BY <1>2, <1>4, <2>1, LastListed
<1>8. ASSUME NEW K \in {LockMsgs, ServerMsgs, DataMsgs, MeasMsgs, UpMsgs, ReinitMsgs}
      PROVE  NoneOf(t, K)
  <2>1. M \cap K = {}
    BY <1>3, KindOfMsg
  <2> QED
    BY <1>2, <1>4, <2>1, LastListed
<1> QED
  BY <1>5, <1>6, <1>7, <1>8

-----------------------------------------------------------------------------
(* Steps that queue t behind what is there and leave a part of the state   *)
(* as it is.                                                               *)
LEMMA SettingsKept ==
    ASSUME HalTypes, SettingsInv, NEW t \in Seq(HalMsgs), gQueue' = gQueue \o t,
           \A s \in Settings : NoneOf(t, About(s)) /\ Wanted(s)' = Wanted(s),
           "race" \in gExcuse => "race" \in gExcuse',
           NoneOf(t, ReinitMsgs) =>
              (gAdapter' => gAdapter) /\ (gModem'.up => gModem.up) /\ gModem'.set = gModem.set
    PROVE  SettingsInv'
<1> SUFFICES ASSUME gAdapter', gModem'.up, "race" \notin gExcuse', NoneOf(gQueue', ReinitMsgs),
                    NEW s \in Settings
             PROVE  \/ EndsIn(gQueue', About(s), {WantedMsg(s)})
                    \/ NoneOf(gQueue', About(s)) /\ gModem'.set[s] = Wanted(s)
  BY DEF SettingsInv, WantedMsg
<1>1. gQueue \in Seq(HalMsgs)
  BY DEF HalTypes
<1>2. NoneOf(gQueue, ReinitMsgs) /\ NoneOf(t, ReinitMsgs)
  BY <1>1, NoneJoined
<1>3. \/ EndsIn(gQueue, About(s), {WantedMsg(s)})
      \/ NoneOf(gQueue, About(s)) /\ gModem.set[s] = Wanted(s)
  BY <1>2 DEF SettingsInv
<1>4. CASE EndsIn(gQueue, About(s), {WantedMsg(s)})
  BY <1>1, <1>4, LastStays
<1>5. CASE NoneOf(gQueue, About(s)) /\ gModem.set[s] = Wanted(s)
  BY <1>1, <1>2, <1>5, NoneJoined
<1> QED
  BY <1>3, <1>4, <1>5

(* The lock stays right when nothing is queued that changes it. *)
LEMMA LockKept ==
    ASSUME HalTypes, LockInv, NEW t \in Seq(HalMsgs), gQueue' = gQueue \o t, NoneOf(t, LockMsgs),
           gAdapter' => gAdapter, WantedLock' = WantedLock, gModem'.lock = gModem.lock,
           "lock" \in gExcuse => "lock" \in gExcuse'
    PROVE  LockInv'
<1>1. gQueue \in Seq(HalMsgs)
  BY DEF HalTypes
<1>2. EndsIn(gQueue, LockMsgs, {Msg("GpsLock", WantedLock)})
         => EndsIn(gQueue', LockMsgs, {Msg("GpsLock", WantedLock)})
  BY <1>1, LastStays
<1>3. NoneOf(gQueue, LockMsgs) => NoneOf(gQueue', LockMsgs)
  BY <1>1, NoneJoined
<1> QED
  BY <1>2, <1>3 DEF LockInv

(* The vote stays where it is, or an Up is queued that brings it. *)
LEMMA PowerKept ==
    ASSUME HalTypes, PowerInv, NEW t \in Seq(HalMsgs), gQueue' = gQueue \o t,
           NoneOf(t, UpMsgs) =>
              /\ gAdapter' => gAdapter
              /\ gModem'.up => gModem.up
              /\ gModem'.power = gModem.power /\ gVote' = gVote
    PROVE  PowerInv'
<1>1. gQueue \in Seq(HalMsgs)
  BY DEF HalTypes
<1>2. NoneOf(gQueue', UpMsgs) => NoneOf(gQueue, UpMsgs) /\ NoneOf(t, UpMsgs)
  BY <1>1, NoneJoined
<1> QED
  BY <1>2 DEF PowerInv

(* The server stays right when none is queued, or an Up is that sends it. *)
LEMMA ServerKept ==
    ASSUME HalTypes, ServerInv, NEW t \in Seq(HalMsgs), gQueue' = gQueue \o t,
           NoneOf(t, ServerMsgs), UNCHANGED <<gAgps, gAsked>>,
           gAdapter => gAdapter' /\ gServer' = gServer,
           NoneOf(t, UpMsgs) => (gModem'.up => gModem.up) /\ gModem'.server = gModem.server
    PROVE  ServerInv'
<1>1. gQueue \in Seq(HalMsgs)
  BY DEF HalTypes
<1>2. NoneOf(gQueue', UpMsgs) => NoneOf(gQueue, UpMsgs) /\ NoneOf(t, UpMsgs)
  BY <1>1, NoneJoined
<1>3. EndsIn(gQueue, ServerMsgs, {Msg("Server", gAsked.host[1])})
         => EndsIn(gQueue', ServerMsgs, {Msg("Server", gAsked.host[1])})
  BY <1>1, LastStays
<1>4. NoneOf(gQueue, ServerMsgs) => NoneOf(gQueue', ServerMsgs)
  BY <1>1, NoneJoined
<1> QED
  BY <1>2, <1>3, <1>4 DEF ServerInv, ServerAsked

(* The data status stays right when none is queued, or a restart is. *)
LEMMA DataKept ==
    ASSUME HalTypes, DataInv, NEW t \in Seq(HalMsgs), gQueue' = gQueue \o t,
           NoneOf(t, DataMsgs), gAvail' = gAvail,
           "no APN" \in gExcuse => "no APN" \in gExcuse',
           NoneOf(t, ReinitMsgs) =>
              (gAdapter' => gAdapter) /\ (gModem'.up => gModem.up) /\ gModem'.data = gModem.data
    PROVE  DataInv'
<1>1. gQueue \in Seq(HalMsgs)
  BY DEF HalTypes
<1>2. NoneOf(gQueue', ReinitMsgs) => NoneOf(gQueue, ReinitMsgs) /\ NoneOf(t, ReinitMsgs)
  BY <1>1, NoneJoined
<1>3. EndsIn(gQueue, DataMsgs, {Msg("EnableData", gAvail)})
         => EndsIn(gQueue', DataMsgs, {Msg("EnableData", gAvail)})
  BY <1>1, LastStays
<1>4. NoneOf(gQueue, DataMsgs) => NoneOf(gQueue', DataMsgs)
  BY <1>1, NoneJoined
<1> QED
  BY <1>2, <1>3, <1>4 DEF DataInv

(* The capabilities stay ours. *)
LEMMA CapsKept ==
    ASSUME CapsInv, gCaps' = gCaps, OurCaps' = OurCaps, "race" \in gExcuse => "race" \in gExcuse'
    PROVE  CapsInv'
BY DEF CapsInv

(* The measurements stay on when nothing is queued that changes them. *)
LEMMA MeasKept ==
    ASSUME HalTypes, MeasInv, NEW t \in Seq(HalMsgs), gQueue' = gQueue \o t,
           NoneOf(t, MeasMsgs), gMeasCb' => gMeasCb,
           gModem'.up /\ (gModem.up => gModem.meas) => gModem'.meas
    PROVE  MeasInv'
<1>1. gQueue \in Seq(HalMsgs)
  BY DEF HalTypes
<1>2. EndsIn(gQueue, MeasMsgs, {Msg("Measurements", "1")})
         => EndsIn(gQueue', MeasMsgs, {Msg("Measurements", "1")})
  BY <1>1, LastStays
<1>3. NoneOf(gQueue, MeasMsgs) => NoneOf(gQueue', MeasMsgs)
  BY <1>1, NoneJoined
<1> QED
  BY <1>2, <1>3 DEF MeasInv

(* A message of another kind, or none, is queued. *)
LEMMA OneOther ==
    ASSUME NEW x \in HalMsgs, NEW q \in Seq(HalMsgs)
    PROVE  /\ <<x>> \in Seq(HalMsgs) /\ Append(q, x) = q \o <<x>>
           /\ x.m # "Setting" => \A s \in Settings : NoneOf(<<x>>, About(s))
           /\ x.m # "GpsLock" => NoneOf(<<x>>, LockMsgs)
           /\ x.m # "Server" => NoneOf(<<x>>, ServerMsgs)
           /\ x.m # "EnableData" => NoneOf(<<x>>, DataMsgs)
           /\ x.m # "Measurements" => NoneOf(<<x>>, MeasMsgs)
           /\ NoneOf(<<x>>, UpMsgs) <=> x.m # "Up"
           /\ NoneOf(<<x>>, ReinitMsgs) <=> x.m \notin {"Init", "Up"}
<1>1. <<x>> \in Seq(HalMsgs) /\ Append(q, x) = q \o <<x>>
  OBVIOUS
<1> QED
  BY <1>1, OneMsg, KindOfMsg

(* An empty queue changes nothing. *)
LEMMA NoOther ==
    ASSUME NEW q \in Seq(HalMsgs)
    PROVE  /\ <<>> \in Seq(HalMsgs) /\ q = q \o <<>>
           /\ \A s \in Settings : NoneOf(<<>>, About(s))
           /\ NoneOf(<<>>, LockMsgs) /\ NoneOf(<<>>, ServerMsgs) /\ NoneOf(<<>>, DataMsgs)
           /\ NoneOf(<<>>, MeasMsgs) /\ NoneOf(<<>>, UpMsgs) /\ NoneOf(<<>>, ReinitMsgs)
<1>1. <<>> \in Seq(HalMsgs) /\ q = q \o <<>> /\ Len(<<>>) = 0
  OBVIOUS
<1> QED
  BY <1>1 DEF NoneOf

-----------------------------------------------------------------------------
(* The calls of the framework. *)

(* The vote changes nothing else at the modem. *)
LEMMA VoteFacts ==
    ASSUME NEW md \in ModemType, NEW v \in BOOLEAN, NEW r, r = requestPowerVote(md, v)
    PROVE  /\ r \in ModemType
           /\ r.up = md.up /\ r.set = md.set /\ r.server = md.server /\ r.data = md.data
           /\ r.lock = md.lock /\ r.meas = md.meas
           /\ VoteRight /\ md.up /\ v = TRUE => r.power = "103"
           /\ VoteRight /\ md.up /\ v = FALSE => r.power = "101"
<1>1. CASE VoteRight /\ md.up
  BY <1>1 DEF requestPowerVote, ModemType
<1>2. CASE ~(VoteRight /\ md.up)
  BY <1>2 DEF requestPowerVote
<1> QED
  BY <1>1, <1>2

(* The lock that is wanted is one, and the lock that is queued last holds. *)
LEMMA LockSent ==
    ASSUME HalTypes, WantedLock' \in Locks, NEW t \in Seq(HalMsgs), gQueue' = gQueue \o t,
           EndsIn(t, LockMsgs, {Msg("GpsLock", WantedLock')})
    PROVE  LockInv'
<1>1. EndsIn(gQueue', LockMsgs, {Msg("GpsLock", WantedLock')})
  BY LastIsBehind DEF HalTypes
<1> QED
  BY <1>1 DEF LockInv

(* loc_init queues the lock that is wanted behind the Init it may need. *)
LEMMA InitStep == HalIInv /\ loc_init => HalIInv'
<1> SUFFICES ASSUME HalIInv, loc_init PROVE HalIInv'
  OBVIOUS
<1> USE DEF HalIInv
<1>1. PICK lock : lock = Msg("GpsLock", "0")
  OBVIOUS
<1>2. PICK init : init = Msg("Init", "")
  OBVIOUS
<1>3. lock \in HalMsgs /\ lock.m = "GpsLock" /\ init \in HalMsgs /\ init.m = "Init"
  BY <1>1, <1>2, MsgsQueued DEF Locks
<1>4. PICK t : t = IF gAdapter THEN <<lock>> ELSE <<init, lock>>
  OBVIOUS
<1>5. gQueue \in Seq(HalMsgs) /\ gAdapter \in BOOLEAN /\ gModem \in ModemType
  BY DEF HalTypes
<1>6. t \in Seq(HalMsgs) /\ gQueue' = gQueue \o t
  <2>1. t \in Seq(HalMsgs)
    BY <1>3, <1>4
  <2>2. gQueue' = IF gAdapter THEN Append(gQueue, lock) ELSE gQueue \o <<init, lock>>
    BY <1>1, <1>2 DEF loc_init
  <2>3. Append(gQueue, lock) = gQueue \o <<lock>>
    BY <1>3, <1>5
  <2> QED
    BY <2>1, <2>2, <2>3, <1>4
<1>7. <<init>> \in Seq(HalMsgs) /\ <<lock>> \in Seq(HalMsgs) /\ <<init, lock>> = <<init>> \o <<lock>>
  BY <1>3
<1>8. /\ \A s \in Settings : NoneOf(t, About(s))
      /\ NoneOf(t, ServerMsgs) /\ NoneOf(t, DataMsgs) /\ NoneOf(t, MeasMsgs) /\ NoneOf(t, UpMsgs)
      /\ NoneOf(t, ReinitMsgs) => gAdapter
      /\ EndsIn(t, LockMsgs, {lock})
  <2>1. EndsIn(<<lock>>, LockMsgs, {lock})
    BY <1>3, OneMsg
  <2>2. CASE gAdapter
    BY <1>3, <1>4, <1>5, <2>1, <2>2, OneOther
  <2>3. CASE ~gAdapter
    <3>1. t = <<init>> \o <<lock>>
      BY <1>4, <1>7, <2>3
    <3>2. \A s \in Settings : NoneOf(t, About(s))
      BY <1>3, <1>5, <1>7, <3>1, OneOther, NoneJoined
    <3>3. NoneOf(t, ServerMsgs) /\ NoneOf(t, DataMsgs) /\ NoneOf(t, MeasMsgs) /\ NoneOf(t, UpMsgs)
      BY <1>3, <1>5, <1>7, <3>1, OneOther, NoneJoined
    <3>4. ~NoneOf(t, ReinitMsgs)
      BY <1>3, <1>5, <1>7, <3>1, OneOther, NoneJoined
    <3>5. EndsIn(t, LockMsgs, {lock})
      BY <1>7, <2>1, <3>1, LastIsBehind
    <3> QED
      BY <3>2, <3>3, <3>4, <3>5
  <2> QED
    BY <2>2, <2>3
<1>9. /\ gModem' \in ModemType
      /\ gModem'.up = gModem.up /\ gModem'.set = gModem.set /\ gModem'.server = gModem.server
      /\ gModem'.data = gModem.data /\ gModem'.lock = gModem.lock /\ gModem'.meas = gModem.meas
      /\ VoteRight /\ gModem.up => gModem'.power = "103"
  <2>1. gModem' = requestPowerVote(gModem, TRUE)
    BY DEF loc_init
  <2>2. TRUE \in BOOLEAN /\ TRUE = TRUE
    OBVIOUS
  <2> QED
    BY <1>5, <2>1, <2>2, VoteFacts
<1>10. /\ gAdapter' = TRUE /\ gVote' = TRUE
       /\ gServer' = IF gAdapter THEN gServer ELSE <<>>
       /\ UNCHANGED <<gConf, gTmp, gUpd, gAgps, gMeasCb, gAvail, gCaps, gAsked, gExcuse>>
  BY <1>5 DEF loc_init
<1>11. HalTypes'
  <2>1. gQueue' \in Seq(HalMsgs)
    BY <1>5, <1>6, Joined
  <2>2. gServer' \in Servers
    BY <1>5, <1>10 DEF HalTypes, Servers
  <2> QED
    BY <2>1, <2>2, <1>9, <1>10 DEF HalTypes
<1>12. SettingsInv'
  <2>1. \A s \in Settings : Wanted(s)' = Wanted(s)
    BY <1>10 DEF Wanted
  <2> QED
    BY <2>1, <1>6, <1>8, <1>9, <1>10, SettingsKept
<1>13. LockInv'
  <2>1. WantedLock' = "0"
    BY <1>10 DEF WantedLock
  <2> QED
    BY <2>1, <1>1, <1>6, <1>8, LockSent DEF Locks
<1>14. PowerInv'
  BY <1>9, <1>10 DEF PowerInv
<1>15. ServerInv'
  BY <1>6, <1>8, <1>9, <1>10, ServerKept
<1>16. DataInv'
  BY <1>6, <1>8, <1>9, <1>10, DataKept
<1>17. CapsInv'
  <2>1. OurCaps' = OurCaps
    BY <1>10 DEF OurCaps
  <2> QED
    BY <2>1, <1>10, CapsKept
<1>18. MeasInv'
  BY <1>6, <1>8, <1>9, <1>10, MeasKept
<1> QED
  BY <1>11, <1>12, <1>13, <1>14, <1>15, <1>16, <1>17, <1>18

(* loc_cleanup queues the lock of the configuration as it takes the vote. *)
LEMMA CleanupStep == HalIInv /\ loc_cleanup => HalIInv'
<1> SUFFICES ASSUME HalIInv, loc_cleanup PROVE HalIInv'
  OBVIOUS
<1> USE DEF HalIInv
<1>1. PICK lock : lock = Msg("GpsLock", gConf.lock)
  OBVIOUS
<1>2. gConf.lock \in Locks /\ gQueue \in Seq(HalMsgs) /\ gModem \in ModemType
  BY DEF HalTypes, ConfType
<1>3. lock \in HalMsgs /\ lock.m = "GpsLock"
  BY <1>1, <1>2, MsgsQueued
<1>4. PICK t : t = <<lock>>
  OBVIOUS
<1>5. /\ t \in Seq(HalMsgs) /\ gQueue' = gQueue \o t
      /\ \A s \in Settings : NoneOf(t, About(s))
      /\ NoneOf(t, ServerMsgs) /\ NoneOf(t, DataMsgs) /\ NoneOf(t, MeasMsgs)
  BY <1>1, <1>2, <1>3, <1>4, OneOther DEF loc_cleanup
<1>6. EndsIn(t, LockMsgs, {lock})
  BY <1>3, <1>4, OneMsg
<1>7. /\ gModem' \in ModemType
      /\ gModem'.up = gModem.up /\ gModem'.set = gModem.set /\ gModem'.server = gModem.server
      /\ gModem'.data = gModem.data /\ gModem'.lock = gModem.lock /\ gModem'.meas = gModem.meas
      /\ VoteRight /\ gModem.up => gModem'.power = "101"
  BY <1>2, VoteFacts DEF loc_cleanup
<1>8. /\ gVote' = FALSE /\ gUpd = "idle"
      /\ UNCHANGED <<gAdapter, gConf, gTmp, gUpd, gServer, gAgps, gMeasCb, gAvail, gCaps, gAsked,
                     gExcuse>>
  BY DEF loc_cleanup, HalCall
<1>9. HalTypes'
  <2>1. gQueue' \in Seq(HalMsgs)
    BY <1>2, <1>5, Joined
  <2> QED
    BY <2>1, <1>7, <1>8 DEF HalTypes
<1>10. SettingsInv'
  <2>1. \A s \in Settings : Wanted(s)' = Wanted(s)
    BY <1>8 DEF Wanted
  <2> QED
    BY <2>1, <1>5, <1>7, <1>8, SettingsKept
<1>11. LockInv'
  <2>1. WantedLock' = gConf.lock
    BY <1>8 DEF WantedLock
  <2> QED
    BY <2>1, <1>1, <1>2, <1>5, <1>6, LockSent
<1>12. PowerInv'
  BY <1>7, <1>8 DEF PowerInv
<1>13. ServerInv'
  BY <1>5, <1>7, <1>8, ServerKept
<1>14. DataInv'
  BY <1>5, <1>7, <1>8, DataKept
<1>15. CapsInv'
  <2>1. OurCaps' = OurCaps
    BY <1>8 DEF OurCaps
  <2> QED
    BY <2>1, <1>8, CapsKept
<1>16. MeasInv'
  BY <1>5, <1>7, <1>8, MeasKept
<1> QED
  BY <1>9, <1>10, <1>11, <1>12, <1>13, <1>14, <1>15, <1>16

(* A call that only queues t, which is not a lock, a setting or a restart, *)
(* and changes a callback, the server or the status.                       *)
LEMMA SendStep ==
    ASSUME HalIInv, NEW t \in Seq(HalMsgs), gQueue' = gQueue \o t,
           \A s \in Settings : NoneOf(t, About(s)), NoneOf(t, LockMsgs),
           UNCHANGED <<gAdapter, gConf, gTmp, gUpd, gVote, gModem, gCaps>>,
           {gAgps', gMeasCb'} \subseteq BOOLEAN, gServer' \in Servers, gAvail' \in {"0", "1"},
           gAsked' \in [host : Servers, early : BOOLEAN],
           gExcuse' \subseteq {"race", "lock", "no APN"},
           gExcuse \ {"no APN"} = gExcuse' \ {"no APN"},
           ServerInv', DataInv', MeasInv'
    PROVE  HalIInv'
<1> USE DEF HalIInv
<1>1. HalTypes'
  <2>1. gQueue' \in Seq(HalMsgs)
    BY Joined DEF HalTypes
  <2> QED
    BY <2>1 DEF HalTypes
<1>2. "race" \in gExcuse => "race" \in gExcuse'
  OBVIOUS
<1>3. "lock" \in gExcuse => "lock" \in gExcuse'
  OBVIOUS
<1>4. SettingsInv'
  <2>1. \A s \in Settings : Wanted(s)' = Wanted(s)
    BY DEF Wanted
  <2> QED
    BY <2>1, <1>2, SettingsKept
<1>5. LockInv'
  <2>1. WantedLock' = WantedLock
    BY DEF WantedLock
  <2> QED
    BY <2>1, <1>3, LockKept
<1>6. PowerInv'
  BY PowerKept
<1>7. CapsInv'
  <2>1. OurCaps' = OurCaps
    BY DEF OurCaps
  <2> QED
    BY <2>1, <1>2, CapsKept
<1> QED
  BY <1>1, <1>4, <1>5, <1>6, <1>7

(* A buffered server is one of the hosts. *)
LEMMA ServerIs ==
    ASSUME NEW x \in Servers
    PROVE  x # <<>> => x[1] \in Hosts /\ x = <<x[1]>>
BY DEF Servers

(* What loc_eng_agps_reinit queues. *)
LEMMA ServerSent ==
    ASSUME NEW x \in Servers, NEW t, t = agps_reinit(x)
    PROVE  /\ t \in Seq(HalMsgs)
           /\ \A s \in Settings : NoneOf(t, About(s))
           /\ NoneOf(t, LockMsgs) /\ NoneOf(t, DataMsgs) /\ NoneOf(t, MeasMsgs)
           /\ NoneOf(t, UpMsgs) /\ NoneOf(t, ReinitMsgs)
           /\ x # <<>> => EndsIn(t, ServerMsgs, {Msg("Server", x[1])})
<1>1. <<>> \in Seq(HalMsgs)
  OBVIOUS
<1>2. CASE x = <<>>
  BY <1>1, <1>2, NoOther DEF agps_reinit
<1>3. CASE x # <<>>
  <2>1. PICK m : m = Msg("Server", x[1])
    OBVIOUS
  <2>2. m \in HalMsgs /\ m.m = "Server" /\ t = <<m>>
    BY <1>3, <2>1, ServerIs, MsgsQueued DEF agps_reinit
  <2>3. EndsIn(t, ServerMsgs, {m})
    BY <2>2, OneMsg
  <2> QED
    BY <1>1, <2>1, <2>2, <2>3, OneOther
<1> QED
  BY <1>2, <1>3

(* loc_agps_init queues the buffered server. *)
LEMMA AgpsInitStep == HalIInv /\ loc_agps_init => HalIInv'
<1> SUFFICES ASSUME HalIInv, loc_agps_init PROVE HalIInv'
  OBVIOUS
<1> USE DEF HalIInv
<1>1. PICK t : t = agps_reinit(gServer)
  OBVIOUS
<1>2. /\ gQueue' = gQueue \o t /\ gAgps' = TRUE /\ gAdapter
      /\ UNCHANGED <<gAdapter, gConf, gTmp, gUpd, gServer, gMeasCb, gAvail, gVote, gModem, gCaps,
                     gAsked, gExcuse>>
  BY <1>1 DEF loc_agps_init
<1>3. gServer \in Servers /\ gQueue \in Seq(HalMsgs)
  BY DEF HalTypes
<1>4. /\ t \in Seq(HalMsgs)
      /\ \A s \in Settings : NoneOf(t, About(s))
      /\ NoneOf(t, LockMsgs) /\ NoneOf(t, DataMsgs) /\ NoneOf(t, MeasMsgs)
      /\ gServer # <<>> => EndsIn(t, ServerMsgs, {Msg("Server", gServer[1])})
  BY <1>1, <1>3, ServerSent
<1>5. ServerInv'
  <2>1. ServerAsked' <=> ServerAsked
    BY <1>2 DEF ServerAsked
  <2>2. ServerAsked => gServer = gAsked.host /\ gServer # <<>>
    BY DEF ServerInv, ServerAsked
  <2>3. ASSUME ServerAsked PROVE EndsIn(gQueue', ServerMsgs, {Msg("Server", gAsked.host[1])})
    <3>1. PICK m : m = Msg("Server", gAsked.host[1])
      OBVIOUS
    <3>2. EndsIn(t, ServerMsgs, {m})
      BY <1>4, <2>2, <2>3, <3>1
    <3>3. EndsIn(gQueue', ServerMsgs, {m})
      BY <1>2, <1>3, <1>4, <3>2, LastIsBehind
    <3> QED
      BY <3>1, <3>3
  <2> QED
    BY <1>2, <2>1, <2>2, <2>3 DEF ServerInv
<1>6. DataInv'
  BY <1>2, <1>4, DataKept
<1>7. MeasInv'
  BY <1>2, <1>4, MeasKept
<1>8. {gAgps', gMeasCb'} \subseteq BOOLEAN
  BY <1>2 DEF HalTypes
<1>9. /\ gServer' \in Servers /\ gAvail' \in {"0", "1"} /\ gAsked' \in [host : Servers, early : BOOLEAN]
      /\ gExcuse' \subseteq {"race", "lock", "no APN"}
  BY <1>2 DEF HalTypes
<1> QED
  BY <1>2, <1>4, <1>5, <1>6, <1>7, <1>8, <1>9, SendStep

(* loc_agps_set_server buffers and queues the server. *)
LEMMA SetServerStep ==
    ASSUME HalIInv, NEW host \in Hosts, loc_agps_set_server(host)
    PROVE  HalIInv'
<1> USE DEF HalIInv
<1>1. PICK m : m = Msg("Server", host)
  OBVIOUS
<1>2. m \in HalMsgs /\ m.m = "Server" /\ gQueue \in Seq(HalMsgs) /\ gAdapter \in BOOLEAN
  BY <1>1, MsgsQueued DEF HalTypes
<1>3. PICK t : t = IF gAdapter THEN <<m>> ELSE <<>>
  OBVIOUS
<1>4. /\ gServer' = <<host>> /\ gAsked' = [host |-> <<host>>, early |-> ~gAdapter]
      /\ UNCHANGED <<gAdapter, gConf, gTmp, gUpd, gAgps, gMeasCb, gAvail, gVote, gModem, gCaps, gExcuse>>
      /\ gQueue' = IF gAdapter THEN Append(gQueue, m) ELSE gQueue
  BY <1>1 DEF loc_agps_set_server
<1>5. /\ t \in Seq(HalMsgs) /\ gQueue' = gQueue \o t
      /\ \A s \in Settings : NoneOf(t, About(s))
      /\ NoneOf(t, LockMsgs) /\ NoneOf(t, DataMsgs) /\ NoneOf(t, MeasMsgs)
      /\ NoneOf(t, UpMsgs) /\ NoneOf(t, ReinitMsgs)
  <2>1. CASE gAdapter
    BY <1>2, <1>3, <1>4, <2>1, OneOther
  <2>2. CASE ~gAdapter
    BY <1>2, <1>3, <1>4, <2>2, NoOther
  <2> QED
    BY <2>1, <2>2
<1>6. ServerInv'
  <2>1. gAgps' => gAdapter'
    BY <1>4 DEF ServerInv
  <2>2. gAsked'.host = <<host>> /\ gAsked'.early = ~gAdapter
    BY <1>4
  <2>3. ServerAsked' => gAdapter' /\ gServer' = gAsked'.host
    BY <1>2, <1>4, <2>2 DEF ServerAsked
  <2>4. gAdapter => EndsIn(gQueue', ServerMsgs, {Msg("Server", gAsked'.host[1])})
    <3> SUFFICES ASSUME gAdapter PROVE EndsIn(gQueue', ServerMsgs, {Msg("Server", gAsked'.host[1])})
      OBVIOUS
    <3>1. EndsIn(t, ServerMsgs, {m})
      BY <1>2, <1>3, OneMsg
    <3>2. EndsIn(gQueue', ServerMsgs, {m})
      BY <1>2, <1>5, <3>1, LastIsBehind
    <3>3. gAsked'.host[1] = host
      BY <2>2
    <3> QED
      BY <1>1, <3>2, <3>3
  <2> QED
    BY <1>4, <2>1, <2>3, <2>4 DEF ServerInv
<1>7. DataInv'
  BY <1>4, <1>5, DataKept
<1>8. MeasInv'
  BY <1>4, <1>5, MeasKept
<1>9. {gAgps', gMeasCb'} \subseteq BOOLEAN
  BY <1>4 DEF HalTypes
<1>10. /\ gServer' \in Servers /\ gAvail' \in {"0", "1"}
       /\ gAsked' \in [host : Servers, early : BOOLEAN]
       /\ gExcuse' \subseteq {"race", "lock", "no APN"}
  BY <1>2, <1>4 DEF HalTypes, Servers
<1> QED
  BY <1>4, <1>5, <1>6, <1>7, <1>8, <1>9, <1>10, SendStep

(* The network status is queued, or the missing APN excuses it. *)
LEMMA NetworkStep ==
    ASSUME HalIInv, NEW available \in {"0", "1"}, NEW apn \in BOOLEAN,
           update_network_availability(available, apn)
    PROVE  HalIInv'
<1> USE DEF HalIInv
<1>1. PICK m : m = Msg("EnableData", available)
  OBVIOUS
<1>2. m \in HalMsgs /\ m.m = "EnableData" /\ gQueue \in Seq(HalMsgs) /\ gAdapter \in BOOLEAN
  BY <1>1, MsgsQueued DEF HalTypes
<1>3. PICK t : t = IF gAdapter /\ apn THEN <<m>> ELSE <<>>
  OBVIOUS
<1>4. /\ gAvail' = available
      /\ UNCHANGED <<gAdapter, gConf, gTmp, gUpd, gServer, gAgps, gMeasCb, gVote, gModem, gCaps, gAsked>>
      /\ gQueue' = IF gAdapter /\ apn THEN Append(gQueue, m) ELSE gQueue
      /\ gExcuse' = IF gAdapter /\ ~apn THEN gExcuse \cup {"no APN"} ELSE gExcuse \ {"no APN"}
  BY <1>1 DEF update_network_availability
<1>5. /\ t \in Seq(HalMsgs) /\ gQueue' = gQueue \o t
      /\ \A s \in Settings : NoneOf(t, About(s))
      /\ NoneOf(t, LockMsgs) /\ NoneOf(t, ServerMsgs) /\ NoneOf(t, MeasMsgs)
      /\ NoneOf(t, UpMsgs) /\ NoneOf(t, ReinitMsgs)
  <2>1. CASE gAdapter /\ apn
    BY <1>2, <1>3, <1>4, <2>1, OneOther
  <2>2. CASE ~(gAdapter /\ apn)
    BY <1>2, <1>3, <1>4, <2>2, NoOther
  <2> QED
    BY <2>1, <2>2
<1>6. ServerInv'
  BY <1>4, <1>5, ServerKept
<1>7. DataInv'
  <2>1. CASE gAdapter /\ apn
    <3>1. EndsIn(t, DataMsgs, {m})
      BY <1>2, <1>3, <2>1, OneMsg
    <3>2. EndsIn(gQueue', DataMsgs, {m})
      BY <1>2, <1>5, <3>1, LastIsBehind
    <3> QED
      BY <1>1, <1>4, <3>2 DEF DataInv
  <2>2. CASE gAdapter /\ ~apn
    BY <1>4, <2>2 DEF DataInv
  <2>3. CASE ~gAdapter
    BY <1>4, <2>3 DEF DataInv
  <2> QED
    BY <2>1, <2>2, <2>3
<1>8. MeasInv'
  BY <1>4, <1>5, MeasKept
<1>9. {gAgps', gMeasCb'} \subseteq BOOLEAN
  BY <1>4 DEF HalTypes
<1>10. /\ gServer' \in Servers /\ gAvail' \in {"0", "1"}
       /\ gAsked' \in [host : Servers, early : BOOLEAN]
       /\ gExcuse' \subseteq {"race", "lock", "no APN"}
       /\ gExcuse \ {"no APN"} = gExcuse' \ {"no APN"}
  BY <1>4 DEF HalTypes
<1> QED
  BY <1>4, <1>5, <1>6, <1>7, <1>8, <1>9, <1>10, SendStep

(* Measurements are queued as the callback is set or cleared. *)
LEMMA MeasurementStep == HalIInv /\ (measurement_init \/ measurement_close) => HalIInv'
<1> SUFFICES ASSUME HalIInv, measurement_init \/ measurement_close PROVE HalIInv'
  OBVIOUS
<1> USE DEF HalIInv
<1>1. PICK on \in {"0", "1"} :
         /\ gMeasCb' = (on = "1") /\ gQueue' = Append(gQueue, Msg("Measurements", on))
         /\ UNCHANGED <<gAdapter, gConf, gTmp, gUpd, gServer, gAgps, gAvail, gVote, gModem, gCaps,
                        gAsked, gExcuse>>
  <2>1. CASE measurement_init
    <3>1. gMeasCb' = ("1" = "1") /\ "1" \in {"0", "1"}
      BY <2>1 DEF measurement_init
    <3> QED
      BY <2>1, <3>1 DEF measurement_init
  <2>2. CASE measurement_close
    <3>1. gMeasCb' = ("0" = "1") /\ "0" \in {"0", "1"}
      BY <2>2 DEF measurement_close
    <3> QED
      BY <2>2, <3>1 DEF measurement_close
  <2> QED
    BY <2>1, <2>2
<1>2. PICK m : m = Msg("Measurements", on)
  OBVIOUS
<1>3. m \in HalMsgs /\ m.m = "Measurements" /\ gQueue \in Seq(HalMsgs)
  BY <1>2, MsgsQueued DEF HalTypes
<1>4. PICK t : t = <<m>>
  OBVIOUS
<1>5. /\ t \in Seq(HalMsgs) /\ gQueue' = gQueue \o t
      /\ \A s \in Settings : NoneOf(t, About(s))
      /\ NoneOf(t, LockMsgs) /\ NoneOf(t, ServerMsgs) /\ NoneOf(t, DataMsgs)
      /\ NoneOf(t, UpMsgs) /\ NoneOf(t, ReinitMsgs)
  BY <1>1, <1>2, <1>3, <1>4, OneOther
<1>6. ServerInv'
  BY <1>1, <1>5, ServerKept
<1>7. DataInv'
  BY <1>1, <1>5, DataKept
<1>8. MeasInv'
  <2>1. EndsIn(t, MeasMsgs, {m})
    BY <1>3, <1>4, OneMsg
  <2>2. EndsIn(gQueue', MeasMsgs, {m})
    BY <1>3, <1>5, <2>1, LastIsBehind
  <2> QED
    BY <1>1, <1>2, <2>2 DEF MeasInv
<1>9. {gAgps', gMeasCb'} \subseteq BOOLEAN
  BY <1>1 DEF HalTypes
<1>10. /\ gServer' \in Servers /\ gAvail' \in {"0", "1"}
       /\ gAsked' \in [host : Servers, early : BOOLEAN]
       /\ gExcuse' \subseteq {"race", "lock", "no APN"}
  BY <1>1 DEF HalTypes
<1> QED
  BY <1>1, <1>5, <1>6, <1>7, <1>8, <1>9, <1>10, SendStep

-----------------------------------------------------------------------------
(* The configuration update, and the modem going down and up. *)

(* The configurations of the files and of the updates. *)
LEMMA ConfsAre ==
    ASSUME NEW d \in Confs
    PROVE  d \in ConfType /\ TrimCaps(d) \in ConfType
<1>1. /\ d = [set |-> d.set, caps |-> d.caps, lock |-> d.lock]
      /\ d.set = [s \in Settings |-> d.set[s]]
  BY GpsHalAssumption DEF Confs
<1>2. \A s \in Settings : d.set[s] \in SettingValues
  BY DEF SettingValues
<1>3. d.set \in [Settings -> SettingValues]
  BY <1>1, <1>2
<1>4. d.caps \in SUBSET Caps
  BY DEF Caps
<1>5. d.lock \in Locks
  BY DEF Locks
<1>6. d \in ConfType
  BY <1>1, <1>3, <1>4, <1>5 DEF ConfType
<1>7. [d EXCEPT !.caps = @ \ {"MSA", "MSB"}] \in ConfType
  BY <1>6 DEF ConfType
<1> QED
  BY <1>6, <1>7 DEF TrimCaps

(* Parsing an update moves what is wanted into the copy. *)
LEMMA ParseStep ==
    ASSUME HalIInv, NEW data \in ConfigData, UpdateParse(data)
    PROVE  HalIInv'
<1> USE DEF HalIInv
<1>1. /\ gUpd = "idle" /\ gUpd' = "parsed" /\ gTmp' = gConf /\ gConf' = data
      /\ UNCHANGED <<gAdapter, gServer, gAgps, gMeasCb, gAvail, gVote, gQueue, gModem, gCaps,
                     gAsked, gExcuse>>
  BY DEF UpdateParse, HalCall
<1>2. HalTypes'
  <2>1. gConf' \in ConfType
    BY <1>1, ConfsAre DEF Confs
  <2>2. gTmp' \in ConfType
    BY <1>1 DEF HalTypes
  <2> QED
    BY <1>1, <2>1, <2>2 DEF HalTypes
<1>3. PICK t : t = <<>>
  OBVIOUS
<1>4. gQueue \in Seq(HalMsgs)
  BY DEF HalTypes
<1>5. /\ t \in Seq(HalMsgs) /\ gQueue' = gQueue \o t
      /\ \A s \in Settings : NoneOf(t, About(s))
      /\ NoneOf(t, LockMsgs) /\ NoneOf(t, ServerMsgs) /\ NoneOf(t, DataMsgs) /\ NoneOf(t, MeasMsgs)
  BY <1>1, <1>3, <1>4, NoOther
<1>6. SettingsInv'
  <2>1. \A s \in Settings : Wanted(s)' = Wanted(s)
    BY <1>1 DEF Wanted
  <2> QED
    BY <2>1, <1>1, <1>5, SettingsKept
<1>7. LockInv'
  <2>1. WantedLock' = WantedLock
    BY <1>1 DEF WantedLock
  <2> QED
    BY <2>1, <1>1, <1>5, LockKept
<1>8. PowerInv'
  BY <1>1, <1>5, PowerKept
<1>9. ServerInv'
  BY <1>1, <1>5, ServerKept
<1>10. DataInv'
  BY <1>1, <1>5, DataKept
<1>11. CapsInv'
  <2>1. OurCaps' = OurCaps
    BY <1>1 DEF OurCaps
  <2> QED
    BY <2>1, <1>1, CapsKept
<1>12. MeasInv'
  BY <1>1, <1>5, MeasKept
<1> QED
  BY <1>2, <1>6, <1>7, <1>8, <1>9, <1>10, <1>11, <1>12

(* Sending an update queues what the copy and the configuration differ in. *)
LEMMA SendingStep == HalIInv /\ UpdateSend => HalIInv'
<1> SUFFICES ASSUME HalIInv, UpdateSend PROVE HalIInv'
  OBVIOUS
<1> USE DEF HalIInv
<1>1. PICK u : u = SetToSeq({Setting(s, gConf) : s \in Changed})
  OBVIOUS
<1>2. PICK lock : lock = Msg("GpsLock", LockMask)
  OBVIOUS
<1>3. /\ gUpd = "parsed" /\ gUpd' = "sent"
      /\ gQueue' = IF ~gAdapter THEN gQueue ELSE (gQueue \o u) \o <<lock>>
      /\ UNCHANGED <<gAdapter, gConf, gTmp, gServer, gAgps, gMeasCb, gAvail, gVote, gModem, gCaps,
                     gAsked, gExcuse>>
  BY <1>1, <1>2 DEF UpdateSend
<1>4. gQueue \in Seq(HalMsgs) /\ gConf \in ConfType /\ gTmp \in ConfType /\ gAdapter \in BOOLEAN
  BY DEF HalTypes
<1>5. Changed \in SUBSET Settings /\ IsFiniteSet(Changed)
  <2>1. Changed \in SUBSET Updatable
    BY DEF Changed
  <2> QED
    BY <2>1, GpsHalAssumption, FS_Subset DEF Settings
<1>6. /\ u \in Seq(HalMsgs)
      /\ \A s \in Changed : EndsIn(u, About(s), {Setting(s, gConf)})
      /\ \A s \in Settings \ Changed : NoneOf(u, About(s))
      /\ NoneOf(u, ServerMsgs) /\ NoneOf(u, DataMsgs) /\ NoneOf(u, MeasMsgs)
      /\ NoneOf(u, UpMsgs) /\ NoneOf(u, ReinitMsgs)
  BY <1>1, <1>4, <1>5, SettingsListed
<1>7. LockMask \in Locks
  BY <1>4 DEF LockMask, Locks, ConfType
<1>8. lock \in HalMsgs /\ lock.m = "GpsLock"
  BY <1>2, <1>7, MsgsQueued
<1>9. /\ <<lock>> \in Seq(HalMsgs) /\ \A s \in Settings : NoneOf(<<lock>>, About(s))
      /\ NoneOf(<<lock>>, ServerMsgs) /\ NoneOf(<<lock>>, DataMsgs) /\ NoneOf(<<lock>>, MeasMsgs)
      /\ NoneOf(<<lock>>, UpMsgs) /\ NoneOf(<<lock>>, ReinitMsgs)
  BY <1>4, <1>8, OneOther
<1>10. EndsIn(<<lock>>, LockMsgs, {lock})
  BY <1>8, OneMsg
<1>11. PICK t : t = IF gAdapter THEN u \o <<lock>> ELSE <<>>
  OBVIOUS
<1>12. t \in Seq(HalMsgs) /\ gQueue' = gQueue \o t
  <2>1. CASE gAdapter
    <3>1. (gQueue \o u) \o <<lock>> = gQueue \o (u \o <<lock>>)
      BY <1>4, <1>6, <1>9
    <3> QED
      BY <1>3, <1>6, <1>9, <1>11, <2>1, <3>1, Joined
  <2>2. CASE ~gAdapter
    BY <1>3, <1>4, <1>11, <2>2, NoOther
  <2> QED
    BY <2>1, <2>2
<1>13. /\ NoneOf(t, ServerMsgs) /\ NoneOf(t, DataMsgs) /\ NoneOf(t, MeasMsgs)
       /\ NoneOf(t, UpMsgs) /\ NoneOf(t, ReinitMsgs)
  <2>1. CASE gAdapter
    BY <1>6, <1>9, <1>11, <2>1, NoneJoined
  <2>2. CASE ~gAdapter
    BY <1>4, <1>11, <2>2, NoOther
  <2> QED
    BY <2>1, <2>2
<1>14. HalTypes'
  <2>1. gQueue' \in Seq(HalMsgs)
    BY <1>4, <1>12, Joined
  <2> QED
    BY <2>1, <1>3 DEF HalTypes
<1>15. SettingsInv'
  <2> SUFFICES ASSUME gAdapter, gModem.up, "race" \notin gExcuse, NoneOf(gQueue', ReinitMsgs),
                      NEW s \in Settings
               PROVE  \/ EndsIn(gQueue', About(s), {WantedMsg(s)'})
                      \/ NoneOf(gQueue', About(s)) /\ gModem.set[s] = Wanted(s)'
    BY <1>3 DEF SettingsInv
  <2>1. t = u \o <<lock>>
    BY <1>11
  <2>2. CASE s \in Changed
    <3>1. EndsIn(t, About(s), {Setting(s, gConf)})
      BY <1>6, <1>9, <2>1, <2>2, LastStays
    <3>2. EndsIn(gQueue', About(s), {Setting(s, gConf)})
      BY <1>4, <1>12, <3>1, LastIsBehind
    <3>3. s \in Updatable /\ s \notin ReinitOnly
      BY <2>2, GpsHalAssumption DEF Changed
    <3>4. WantedMsg(s)' = Setting(s, gConf)
      BY <1>3, <3>3 DEF WantedMsg, Wanted, Setting
    <3> QED
      BY <3>2, <3>4
  <2>3. CASE s \notin Changed
    <3>1. NoneOf(t, About(s))
      BY <1>6, <1>9, <2>1, <2>3, NoneJoined
    <3>2. s \in ReinitOnly \/ gTmp.set[s] = gConf.set[s]
      BY <2>3 DEF Changed, Settings
    <3>3. Wanted(s)' = Wanted(s) /\ WantedMsg(s)' = WantedMsg(s)
      BY <1>3, <3>2 DEF Wanted, WantedMsg
    <3>4. NoneOf(gQueue, ReinitMsgs)
      BY <1>4, <1>12, NoneJoined
    <3>5. \/ EndsIn(gQueue, About(s), {WantedMsg(s)})
          \/ NoneOf(gQueue, About(s)) /\ gModem.set[s] = Wanted(s)
      BY <3>4 DEF SettingsInv
    <3>6. CASE EndsIn(gQueue, About(s), {WantedMsg(s)})
      <4>1. EndsIn(gQueue', About(s), {WantedMsg(s)})
        BY <1>4, <1>12, <3>1, <3>6, LastStays
      <4> QED
        BY <3>3, <4>1
    <3>7. CASE NoneOf(gQueue, About(s)) /\ gModem.set[s] = Wanted(s)
      <4>1. NoneOf(gQueue', About(s))
        BY <1>4, <1>12, <3>1, <3>7, NoneJoined
      <4> QED
        BY <3>3, <3>7, <4>1
    <3> QED
      BY <3>5, <3>6, <3>7
  <2> QED
    BY <2>2, <2>3
<1>16. LockInv'
  <2>1. CASE gAdapter
    <3>1. EndsIn(t, LockMsgs, {lock})
      BY <1>6, <1>9, <1>10, <1>11, <2>1, LastIsBehind
    <3>2. WantedLock' = LockMask
      BY <1>3 DEF WantedLock, LockMask
    <3> QED
      BY <1>2, <1>7, <1>12, <3>1, <3>2, LockSent
  <2>2. CASE ~gAdapter
    BY <1>3, <2>2 DEF LockInv
  <2> QED
    BY <2>1, <2>2
<1>17. PowerInv'
  BY <1>3, <1>12, PowerKept
<1>18. ServerInv'
  BY <1>3, <1>12, <1>13, ServerKept
<1>19. DataInv'
  BY <1>3, <1>12, <1>13, DataKept
<1>20. CapsInv'
  <2>1. OurCaps' = OurCaps
    BY <1>3 DEF OurCaps
  <2> QED
    BY <2>1, <1>3, CapsKept
<1>21. MeasInv'
  BY <1>3, <1>12, <1>13, MeasKept
<1> QED
  BY <1>14, <1>15, <1>16, <1>17, <1>18, <1>19, <1>20, <1>21

(* Restoring brings back what an update must not change. *)
LEMMA RestoreStep == HalIInv /\ UpdateRestore => HalIInv'
<1> SUFFICES ASSUME HalIInv, UpdateRestore PROVE HalIInv'
  OBVIOUS
<1> USE DEF HalIInv
<1>1. /\ gUpd = "sent" /\ gUpd' = "idle" /\ gConf' = RestoredConf
      /\ UNCHANGED <<gAdapter, gTmp, gServer, gAgps, gMeasCb, gAvail, gVote, gQueue, gModem, gCaps,
                     gAsked, gExcuse>>
  BY DEF UpdateRestore
<1>2. gQueue \in Seq(HalMsgs) /\ gConf \in ConfType /\ gTmp \in ConfType
  BY DEF HalTypes
<1>3. /\ gConf' \in ConfType /\ gConf'.lock = gConf.lock
      /\ \A s \in Settings : gConf'.set[s] = IF s \in Updatable THEN gConf.set[s] ELSE gTmp.set[s]
      /\ gConf'.caps = IF Apq THEN gTmp.caps \ {"MSA", "MSB"} ELSE gTmp.caps
  <2>1. PICK c : c = [gTmp EXCEPT !.set = [s \in Settings |-> IF s \in Updatable THEN gConf.set[s]
                                                                            ELSE @[s]],
                                  !.lock = gConf.lock]
    OBVIOUS
  <2>2. /\ c \in ConfType /\ c.lock = gConf.lock /\ c.caps = gTmp.caps
        /\ \A s \in Settings : c.set[s] = IF s \in Updatable THEN gConf.set[s] ELSE gTmp.set[s]
    BY <1>2, <2>1 DEF ConfType
  <2>3. gConf' = TrimCaps(c)
    BY <1>1, <2>1 DEF RestoredConf
  <2>4. CASE Apq
    BY <2>2, <2>3, <2>4 DEF TrimCaps, ConfType
  <2>5. CASE ~Apq
    BY <2>2, <2>3, <2>5 DEF TrimCaps
  <2> QED
    BY <2>4, <2>5
<1>4. HalTypes'
  BY <1>1, <1>3 DEF HalTypes
<1>5. PICK t : t = <<>>
  OBVIOUS
<1>6. /\ t \in Seq(HalMsgs) /\ gQueue' = gQueue \o t
      /\ \A s \in Settings : NoneOf(t, About(s))
      /\ NoneOf(t, LockMsgs) /\ NoneOf(t, ServerMsgs) /\ NoneOf(t, DataMsgs) /\ NoneOf(t, MeasMsgs)
  BY <1>1, <1>2, <1>5, NoOther
<1>7. SettingsInv'
  <2>1. ASSUME NEW s \in Settings PROVE Wanted(s)' = Wanted(s)
    <3>1. s \in Updatable <=> s \notin ReinitOnly
      BY GpsHalAssumption DEF Settings
    <3> QED
      BY <1>1, <1>3, <3>1 DEF Wanted
  <2> QED
    BY <2>1, <1>1, <1>6, SettingsKept
<1>8. LockInv'
  <2>1. WantedLock' = WantedLock
    BY <1>1, <1>3 DEF WantedLock
  <2> QED
    BY <2>1, <1>1, <1>6, LockKept
<1>9. PowerInv'
  BY <1>1, <1>6, PowerKept
<1>10. ServerInv'
  BY <1>1, <1>6, ServerKept
<1>11. DataInv'
  BY <1>1, <1>6, DataKept
<1>12. CapsInv'
  <2>1. "race" \notin gExcuse => OurCaps' = OurCaps
    BY <1>1, <1>3 DEF OurCaps, CapsInv
  <2> QED
    BY <2>1, <1>1 DEF CapsInv
<1>13. MeasInv'
  BY <1>1, <1>6, MeasKept
<1> QED
  BY <1>4, <1>7, <1>8, <1>9, <1>10, <1>11, <1>12, <1>13

(* A modem that comes up has an Up queued, and measures. *)
LEMMA RestartStep == HalIInv /\ (EngineDown \/ EngineUp) => HalIInv'
<1> SUFFICES ASSUME HalIInv, EngineDown \/ EngineUp PROVE HalIInv'
  OBVIOUS
<1> USE DEF HalIInv
<1>1. gQueue \in Seq(HalMsgs) /\ gModem \in ModemType
  BY DEF HalTypes
<1>2. PICK n \in {"Down", "Up"} : gQueue' = Append(gQueue, Msg(n, "")) /\ (n = "Down" => EngineDown)
  BY DEF EngineDown, EngineUp
<1>3. /\ UNCHANGED <<gAdapter, gConf, gTmp, gUpd, gServer, gAgps, gMeasCb, gAvail, gVote, gCaps,
                     gAsked, gExcuse>>
      /\ gModem' \in ModemType /\ gModem'.lock = gModem.lock
      /\ gModem'.up => gModem'.meas
  <2>1. CASE EngineDown
    BY <1>1, <2>1 DEF EngineDown, ModemType
  <2>2. CASE EngineUp
    <3>1. NoModem \in [Settings -> SettingValues \cup {"unset"}] /\ <<>> \in Servers
      BY DEF NoModem, Servers
    <3> QED
      BY <1>1, <2>2, <3>1 DEF EngineUp, ModemType
  <2> QED
    BY <2>1, <2>2
<1>4. n = "Down" => ~gModem'.up
  BY <1>1, <1>2 DEF EngineDown, ModemType
<1>5. PICK m : m = Msg(n, "")
  OBVIOUS
<1>6. m \in HalMsgs /\ m.m = n
  BY <1>5, MsgsQueued
<1>7. PICK t : t = <<m>>
  OBVIOUS
<1>8. /\ t \in Seq(HalMsgs) /\ gQueue' = gQueue \o t
      /\ \A s \in Settings : NoneOf(t, About(s))
      /\ NoneOf(t, LockMsgs) /\ NoneOf(t, ServerMsgs) /\ NoneOf(t, DataMsgs) /\ NoneOf(t, MeasMsgs)
      /\ gModem'.up => ~NoneOf(t, UpMsgs) /\ ~NoneOf(t, ReinitMsgs)
  BY <1>1, <1>2, <1>4, <1>5, <1>6, <1>7, OneOther
<1>9. HalTypes'
  <2>1. gQueue' \in Seq(HalMsgs)
    BY <1>1, <1>8, Joined
  <2> QED
    BY <2>1, <1>3 DEF HalTypes
<1>10. gModem'.up => ~NoneOf(gQueue', UpMsgs) /\ ~NoneOf(gQueue', ReinitMsgs)
  BY <1>1, <1>8, NoneJoined
<1>11. SettingsInv' /\ PowerInv' /\ DataInv'
  BY <1>10 DEF SettingsInv, PowerInv, DataInv
<1>12. LockInv'
  <2>1. WantedLock' = WantedLock
    BY <1>3 DEF WantedLock
  <2> QED
    BY <2>1, <1>3, <1>8, LockKept
<1>13. ServerInv'
  BY <1>3, <1>10 DEF ServerInv, ServerAsked
<1>14. CapsInv'
  <2>1. OurCaps' = OurCaps
    BY <1>3 DEF OurCaps
  <2> QED
    BY <2>1, <1>3, CapsKept
<1>15. MeasInv'
  BY <1>3, <1>8, MeasKept
<1> QED
  BY <1>9, <1>11, <1>12, <1>13, <1>14, <1>15

-----------------------------------------------------------------------------
(* The message thread. *)

(* What a re-initialisation queues. *)
LEMMA ReinitSent ==
    ASSUME HalTypes, NEW t, t = reinit
    PROVE  /\ t \in Seq(HalMsgs)
           /\ \A s \in Settings : EndsIn(t, About(s), {Setting(s, gConf)})
           /\ EndsIn(t, DataMsgs, {Msg("EnableData", gAvail)})
           /\ NoneOf(t, LockMsgs) /\ NoneOf(t, ServerMsgs) /\ NoneOf(t, MeasMsgs)
           /\ NoneOf(t, UpMsgs) /\ NoneOf(t, ReinitMsgs)
<1>1. gConf \in ConfType /\ gAvail \in {"0", "1"} /\ gQueue \in Seq(HalMsgs)
  BY DEF HalTypes
<1>2. PICK a : a = Msg("Constellation", "")
  OBVIOUS
<1>3. PICK d : d = Msg("EnableData", gAvail)
  OBVIOUS
<1>4. PICK u : u = SetToSeq({Setting(s, gConf) : s \in Updatable})
  OBVIOUS
<1>5. PICK f : f = SetToSeq({Setting(s, gConf) : s \in ReinitOnly})
  OBVIOUS
<1>6. t = ((<<a>> \o u) \o f) \o <<d>>
  <2>1. {FileSetting(s, gConf) : s \in ReinitOnly} = {Setting(s, gConf) : s \in ReinitOnly}
    BY DEF FileSetting, Setting
  <2> QED
    BY <1>2, <1>3, <1>4, <1>5, <2>1 DEF reinit
<1>7. a \in HalMsgs /\ a.m = "Constellation" /\ d \in HalMsgs /\ d.m = "EnableData"
  BY <1>1, <1>2, <1>3, MsgsQueued
<1>8. /\ u \in Seq(HalMsgs)
      /\ \A s \in Updatable : EndsIn(u, About(s), {Setting(s, gConf)})
      /\ \A s \in Settings \ Updatable : NoneOf(u, About(s))
      /\ NoneOf(u, LockMsgs) /\ NoneOf(u, ServerMsgs) /\ NoneOf(u, MeasMsgs)
      /\ NoneOf(u, UpMsgs) /\ NoneOf(u, ReinitMsgs)
  <2>1. Updatable \in SUBSET Settings /\ IsFiniteSet(Updatable)
    BY GpsHalAssumption DEF Settings
  <2> QED
    BY <1>1, <1>4, <2>1, SettingsListed
<1>9. /\ f \in Seq(HalMsgs)
      /\ \A s \in ReinitOnly : EndsIn(f, About(s), {Setting(s, gConf)})
      /\ \A s \in Settings \ ReinitOnly : NoneOf(f, About(s))
      /\ NoneOf(f, LockMsgs) /\ NoneOf(f, ServerMsgs) /\ NoneOf(f, MeasMsgs)
      /\ NoneOf(f, UpMsgs) /\ NoneOf(f, ReinitMsgs)
  <2>1. ReinitOnly \in SUBSET Settings /\ IsFiniteSet(ReinitOnly)
    BY GpsHalAssumption DEF Settings
  <2> QED
    BY <1>1, <1>5, <2>1, SettingsListed
<1>10. /\ <<a>> \in Seq(HalMsgs)
       /\ NoneOf(<<a>>, LockMsgs) /\ NoneOf(<<a>>, ServerMsgs) /\ NoneOf(<<a>>, MeasMsgs)
       /\ NoneOf(<<a>>, UpMsgs) /\ NoneOf(<<a>>, ReinitMsgs)
  BY <1>1, <1>7, OneOther
<1>11. /\ <<d>> \in Seq(HalMsgs) /\ \A s \in Settings : NoneOf(<<d>>, About(s))
       /\ NoneOf(<<d>>, LockMsgs) /\ NoneOf(<<d>>, ServerMsgs) /\ NoneOf(<<d>>, MeasMsgs)
       /\ NoneOf(<<d>>, UpMsgs) /\ NoneOf(<<d>>, ReinitMsgs)
  BY <1>1, <1>7, OneOther
<1>12. EndsIn(<<d>>, DataMsgs, {d})
  BY <1>7, OneMsg
<1>13. PICK v : v = <<a>> \o u
  OBVIOUS
<1>14. PICK w : w = v \o f
  OBVIOUS
<1>15. t = w \o <<d>>
  BY <1>6, <1>13, <1>14
<1>16. v \in Seq(HalMsgs) /\ w \in Seq(HalMsgs) /\ t \in Seq(HalMsgs)
  <2>1. v \in Seq(HalMsgs)
    BY <1>8, <1>10, <1>13, Joined
  <2>2. w \in Seq(HalMsgs)
    BY <1>9, <1>14, <2>1, Joined
  <2> QED
    BY <1>11, <1>15, <2>1, <2>2, Joined
<1>17. ASSUME NEW K \in {LockMsgs, ServerMsgs, MeasMsgs, UpMsgs, ReinitMsgs} PROVE NoneOf(t, K)
  <2>1. NoneOf(<<a>>, K) /\ NoneOf(u, K) /\ NoneOf(f, K) /\ NoneOf(<<d>>, K)
    BY <1>8, <1>9, <1>10, <1>11
  <2>2. NoneOf(v, K)
    BY <1>8, <1>10, <1>13, <2>1, NoneJoined
  <2>3. NoneOf(w, K)
    BY <1>9, <1>14, <1>16, <2>1, <2>2, NoneJoined
  <2> QED
    BY <1>11, <1>15, <1>16, <2>1, <2>3, NoneJoined
<1>18. ASSUME NEW s \in Settings PROVE EndsIn(t, About(s), {Setting(s, gConf)})
  <2>1. PICK m : m = Setting(s, gConf)
    OBVIOUS
  <2>2. EndsIn(w, About(s), {m})
    <3>1. CASE s \in ReinitOnly
      BY <1>9, <1>14, <1>16, <2>1, <3>1, LastIsBehind
    <3>2. CASE s \notin ReinitOnly
      <4>1. s \in Updatable /\ NoneOf(f, About(s))
        BY <1>9, <3>2 DEF Settings
      <4>2. EndsIn(v, About(s), {m})
        BY <1>8, <1>10, <1>13, <2>1, <4>1, LastIsBehind
      <4> QED
        BY <1>9, <1>14, <1>16, <4>1, <4>2, LastStays
    <3> QED
      BY <3>1, <3>2
  <2>3. EndsIn(t, About(s), {m})
    BY <1>11, <1>15, <1>16, <2>2, LastStays
  <2> QED
    BY <2>1, <2>3
<1>19. EndsIn(t, DataMsgs, {Msg("EnableData", gAvail)})
  <2>1. EndsIn(t, DataMsgs, {d})
    BY <1>11, <1>12, <1>15, <1>16, LastIsBehind
  <2> QED
    BY <1>3, <2>1
<1> QED
  BY <1>16, <1>17, <1>18, <1>19

(* What handling a message queues behind the others. *)
LEMMA FollowsSent ==
    ASSUME HalTypes, NEW msg \in HalMsgs, NEW t, t = Follows(msg)
    PROVE  /\ t \in Seq(HalMsgs)
           /\ NoneOf(t, LockMsgs) /\ NoneOf(t, MeasMsgs) /\ NoneOf(t, UpMsgs) /\ NoneOf(t, ReinitMsgs)
           /\ msg.m \notin {"Init", "Up"} => t = <<>>
           /\ msg.m \in {"Init", "Up"} =>
                 /\ \A s \in Settings : EndsIn(t, About(s), {Setting(s, gConf)})
                 /\ EndsIn(t, DataMsgs, {Msg("EnableData", gAvail)})
           /\ msg.m = "Init" => NoneOf(t, ServerMsgs)
           /\ msg.m = "Up" /\ gAgps /\ gServer # <<>> =>
                 EndsIn(t, ServerMsgs, {Msg("Server", gServer[1])})
<1>1. PICK r : r = reinit
  OBVIOUS
<1>2. /\ r \in Seq(HalMsgs)
      /\ \A s \in Settings : EndsIn(r, About(s), {Setting(s, gConf)})
      /\ EndsIn(r, DataMsgs, {Msg("EnableData", gAvail)})
      /\ NoneOf(r, LockMsgs) /\ NoneOf(r, ServerMsgs) /\ NoneOf(r, MeasMsgs)
      /\ NoneOf(r, UpMsgs) /\ NoneOf(r, ReinitMsgs)
  BY <1>1, ReinitSent
<1>3. PICK d : d = Msg("EnableData", gAvail)
  OBVIOUS
<1>4. CASE msg.m \notin {"Init", "Up"}
  BY <1>2, <1>4, NoOther DEF Follows
<1>5. ASSUME NEW x \in Seq(HalMsgs), t = r \o x,
             \A s \in Settings : NoneOf(x, About(s)), NoneOf(x, DataMsgs), NoneOf(x, LockMsgs),
             NoneOf(x, MeasMsgs), NoneOf(x, UpMsgs), NoneOf(x, ReinitMsgs)
      PROVE  /\ t \in Seq(HalMsgs)
             /\ NoneOf(t, LockMsgs) /\ NoneOf(t, MeasMsgs) /\ NoneOf(t, UpMsgs) /\ NoneOf(t, ReinitMsgs)
             /\ \A s \in Settings : EndsIn(t, About(s), {Setting(s, gConf)})
             /\ EndsIn(t, DataMsgs, {d})
  <2>1. t \in Seq(HalMsgs)
    BY <1>2, <1>5, Joined
  <2>2. NoneOf(t, LockMsgs) /\ NoneOf(t, MeasMsgs) /\ NoneOf(t, UpMsgs) /\ NoneOf(t, ReinitMsgs)
    BY <1>2, <1>5, NoneJoined
  <2>3. ASSUME NEW s \in Settings PROVE EndsIn(t, About(s), {Setting(s, gConf)})
    <3>1. PICK m : m = Setting(s, gConf)
      OBVIOUS
    <3>2. EndsIn(r, About(s), {m})
      BY <1>2, <3>1
    <3>3. EndsIn(t, About(s), {m})
      BY <1>2, <1>5, <3>2, LastStays
    <3> QED
      BY <3>1, <3>3
  <2>4. EndsIn(r, DataMsgs, {d})
    BY <1>2, <1>3
  <2>5. EndsIn(t, DataMsgs, {d})
    BY <1>2, <1>5, <2>4, LastStays
  <2> QED
    BY <2>1, <2>2, <2>3, <2>5
<1>6. CASE msg.m = "Init"
  <2>1. PICK c : c = Msg("Capabilities", "")
    OBVIOUS
  <2>2. c \in HalMsgs /\ c.m = "Capabilities"
    BY <2>1, MsgsQueued
  <2>3. /\ <<c>> \in Seq(HalMsgs) /\ Append(r, c) = r \o <<c>>
        /\ \A s \in Settings : NoneOf(<<c>>, About(s))
        /\ NoneOf(<<c>>, DataMsgs) /\ NoneOf(<<c>>, LockMsgs) /\ NoneOf(<<c>>, ServerMsgs)
        /\ NoneOf(<<c>>, MeasMsgs) /\ NoneOf(<<c>>, UpMsgs) /\ NoneOf(<<c>>, ReinitMsgs)
    BY <1>2, <2>2, OneOther
  <2>4. t = r \o <<c>>
    BY <1>1, <1>6, <2>1, <2>3 DEF Follows
  <2>5. NoneOf(t, ServerMsgs)
    BY <1>2, <2>3, <2>4, NoneJoined
  <2> QED
    BY <1>3, <1>5, <1>6, <2>3, <2>4, <2>5
<1>7. CASE msg.m = "Up"
  <2>1. PICK x : x = IF gAgps THEN agps_reinit(gServer) ELSE <<>>
    OBVIOUS
  <2>2. gServer \in Servers /\ gAgps \in BOOLEAN
    BY DEF HalTypes
  <2>3. /\ x \in Seq(HalMsgs)
        /\ \A s \in Settings : NoneOf(x, About(s))
        /\ NoneOf(x, LockMsgs) /\ NoneOf(x, DataMsgs) /\ NoneOf(x, MeasMsgs)
        /\ NoneOf(x, UpMsgs) /\ NoneOf(x, ReinitMsgs)
        /\ gAgps /\ gServer # <<>> => EndsIn(x, ServerMsgs, {Msg("Server", gServer[1])})
    <3>1. CASE gAgps
      BY <2>1, <2>2, <3>1, ServerSent
    <3>2. CASE ~gAgps
      BY <1>2, <2>1, <2>2, <3>2, NoOther
    <3> QED
      BY <3>1, <3>2
  <2>4. t = r \o x
    BY <1>1, <1>7, <2>1 DEF Follows
  <2>5. ASSUME gAgps, gServer # <<>> PROVE EndsIn(t, ServerMsgs, {Msg("Server", gServer[1])})
    <3>1. PICK m : m = Msg("Server", gServer[1])
      OBVIOUS
    <3>2. EndsIn(x, ServerMsgs, {m})
      BY <2>3, <2>5, <3>1
    <3>3. EndsIn(t, ServerMsgs, {m})
      BY <1>2, <2>3, <2>4, <3>2, LastIsBehind
    <3> QED
      BY <3>1, <3>3
  <2> QED
    BY <1>3, <1>5, <1>7, <2>3, <2>4, <2>5
<1> QED
  BY <1>4, <1>6, <1>7

(* What a message does at the modem. *)
LEMMA ToldFacts ==
    ASSUME HalTypes, NEW msg \in HalMsgs, NEW r, r = Told(msg)
    PROVE  /\ r \in ModemType /\ r.up = gModem.up
           /\ ~gModem.up => r = gModem
           /\ gModem.up =>
                 /\ \A s \in Settings :
                       r.set[s] = IF msg.m = "Setting" /\ msg.v = s THEN msg.to ELSE gModem.set[s]
                 /\ r.server = IF msg.m = "Server" THEN <<msg.v>> ELSE gModem.server
                 /\ r.data = IF msg.m = "EnableData" THEN msg.v ELSE gModem.data
                 /\ r.lock = IF msg.m = "GpsLock" THEN msg.v ELSE gModem.lock
                 /\ msg.m # "Measurements" => r.meas = gModem.meas
                 /\ msg.m = "Measurements" => r.meas = (msg.v = "1")
                 /\ msg.m # "Up" => r.power = gModem.power
                 /\ msg.m = "Up" /\ VoteRight => r.power = (IF gVote THEN "103" ELSE "101")
<1>1. gModem \in ModemType /\ gVote \in BOOLEAN
  BY DEF HalTypes
<1>2. gModem.up \in BOOLEAN
  BY <1>1 DEF ModemType
<1>3. CASE ~gModem.up
  BY <1>1, <1>3 DEF Told
<1> SUFFICES ASSUME gModem.up
             PROVE  /\ r \in ModemType /\ r.up = gModem.up
                    /\ \A s \in Settings :
                          r.set[s] = IF msg.m = "Setting" /\ msg.v = s THEN msg.to ELSE gModem.set[s]
                    /\ r.server = IF msg.m = "Server" THEN <<msg.v>> ELSE gModem.server
                    /\ r.data = IF msg.m = "EnableData" THEN msg.v ELSE gModem.data
                    /\ r.lock = IF msg.m = "GpsLock" THEN msg.v ELSE gModem.lock
                    /\ msg.m # "Measurements" => r.meas = gModem.meas
                    /\ msg.m = "Measurements" => r.meas = (msg.v = "1")
                    /\ msg.m # "Up" => r.power = gModem.power
                    /\ msg.m = "Up" /\ VoteRight => r.power = (IF gVote THEN "103" ELSE "101")
  BY <1>2, <1>3
<1>4. CASE msg.m = "Setting"
  <2>1. r = [gModem EXCEPT !.set[msg.v] = msg.to]
    BY <1>4 DEF Told
  <2>2. msg.v \in Settings /\ msg.to \in SettingValues
    BY <1>4, KindOfMsg DEF SettingMsgs
  <2>3. gModem.set \in [Settings -> SettingValues \cup {"unset"}]
    BY <1>1 DEF ModemType
  <2>4. /\ [gModem.set EXCEPT ![msg.v] = msg.to] \in [Settings -> SettingValues \cup {"unset"}]
        /\ \A s \in Settings :
              [gModem.set EXCEPT ![msg.v] = msg.to][s] = IF msg.v = s THEN msg.to ELSE gModem.set[s]
    BY <2>2, <2>3
  <2>5. r = [gModem EXCEPT !.set = [gModem.set EXCEPT ![msg.v] = msg.to]]
    BY <2>1
  <2>6. r \in ModemType /\ r.set = [gModem.set EXCEPT ![msg.v] = msg.to]
    BY <1>1, <2>4, <2>5 DEF ModemType
  <2>7. /\ r.up = gModem.up /\ r.server = gModem.server /\ r.data = gModem.data
        /\ r.lock = gModem.lock /\ r.meas = gModem.meas /\ r.power = gModem.power
    BY <1>1, <2>5 DEF ModemType
  <2> QED
    BY <1>4, <2>4, <2>6, <2>7
<1>5. CASE msg.m = "Server"
  <2>1. r = [gModem EXCEPT !.server = <<msg.v>>]
    BY <1>5 DEF Told
  <2>2. <<msg.v>> \in Servers
    BY <1>5, KindOfMsg DEF ServerMsgs, Servers
  <2> QED
    BY <1>1, <1>5, <2>1, <2>2 DEF ModemType
<1>6. CASE msg.m = "EnableData"
  <2>1. r = [gModem EXCEPT !.data = msg.v]
    BY <1>6 DEF Told
  <2>2. msg.v \in {"0", "1"}
    BY <1>6, KindOfMsg DEF DataMsgs
  <2> QED
    BY <1>1, <1>6, <2>1, <2>2 DEF ModemType
<1>7. CASE msg.m = "GpsLock"
  <2>1. r = [gModem EXCEPT !.lock = msg.v]
    BY <1>7 DEF Told
  <2>2. msg.v \in Locks
    BY <1>7, KindOfMsg DEF LockMsgs
  <2> QED
    BY <1>1, <1>7, <2>1, <2>2 DEF ModemType
<1>8. CASE msg.m = "Measurements"
  <2>1. r = [gModem EXCEPT !.meas = (msg.v = "1")]
    BY <1>8 DEF Told
  <2> QED
    BY <1>1, <1>8, <2>1 DEF ModemType
<1>9. CASE msg.m = "Up"
  <2>1. r = requestPowerVote(gModem, gVote)
    BY <1>9 DEF Told
  <2>2. /\ r \in ModemType
        /\ r.up = gModem.up /\ r.set = gModem.set /\ r.server = gModem.server /\ r.data = gModem.data
        /\ r.lock = gModem.lock /\ r.meas = gModem.meas
        /\ VoteRight /\ gVote = TRUE => r.power = "103"
        /\ VoteRight /\ gVote = FALSE => r.power = "101"
    <3>1. CASE VoteRight
      <4>1. PICK p \in {"103", "101"} : p = IF gVote THEN "103" ELSE "101"
        OBVIOUS
      <4>2. r = [gModem EXCEPT !.power = p]
        BY <2>1, <3>1, <4>1 DEF requestPowerVote
      <4> QED
        BY <1>1, <3>1, <4>1, <4>2 DEF ModemType
    <3>2. CASE ~VoteRight
      BY <1>1, <2>1, <3>2 DEF requestPowerVote
    <3> QED
      BY <3>1, <3>2
  <2>3. gVote = TRUE \/ gVote = FALSE
    BY <1>1
  <2> QED
    BY <1>9, <2>2, <2>3
<1>10. CASE msg.m \notin {"Setting", "Server", "EnableData", "GpsLock", "Measurements", "Up"}
  BY <1>1, <1>10 DEF Told
<1> QED
  BY <1>4, <1>5, <1>6, <1>7, <1>8, <1>9, <1>10

(* What handling a message excuses. *)
LEMMA ExcuseFacts ==
    ASSUME HalTypes, NEW msg, NEW e, e = Excuses(msg)
    PROVE  /\ e \subseteq {"race", "lock", "no APN"}
           /\ "race" \in gExcuse => "race" \in e
           /\ "race" \notin e /\ msg.m \in {"Init", "Up", "Constellation", "Capabilities"} => gUpd = "idle"
           /\ msg.m # "GpsLock" => ("lock" \in e <=> "lock" \in gExcuse)
           /\ msg.m = "GpsLock" /\ ~gModem.up => "lock" \in e
           /\ msg.m \notin {"Init", "Up"} => ("no APN" \in e <=> "no APN" \in gExcuse)
BY DEF Excuses, HalTypes

(* Handling a message sets its value, or queues everything anew. *)
LEMMA ProcStep == HalIInv /\ HalProc => HalIInv'
<1> SUFFICES ASSUME HalIInv, HalProc PROVE HalIInv'
  OBVIOUS
<1> USE DEF HalIInv
<1>1. PICK msg : msg = Head(gQueue)
  OBVIOUS
<1>2. PICK t : t = Follows(msg)
  OBVIOUS
<1>3. PICK q : q = Tail(gQueue)
  OBVIOUS
<1>4. /\ gQueue # <<>> /\ gQueue' = q \o t /\ gModem' = Told(msg) /\ gExcuse' = Excuses(msg)
      /\ gConf' = IF Supports(msg) THEN [gConf EXCEPT !.caps = @ \cup {"MEASUREMENTS"}] ELSE gConf
      /\ gCaps' = IF msg.m = "Capabilities" THEN <<gConf.caps>> ELSE gCaps
      /\ UNCHANGED <<gAdapter, gTmp, gUpd, gServer, gAgps, gMeasCb, gAvail, gVote, gAsked>>
  BY <1>1, <1>2, <1>3 DEF HalProc
<1>5. gQueue \in Seq(HalMsgs) /\ gConf \in ConfType /\ gModem \in ModemType
  BY DEF HalTypes
<1>6. msg \in HalMsgs /\ q \in Seq(HalMsgs)
  BY <1>1, <1>3, <1>4, <1>5, LastTaken
<1>7. ASSUME NEW K, NEW G
      PROVE  /\ NoneOf(gQueue, K) <=> NoneOf(q, K) /\ msg \notin K
             /\ EndsIn(gQueue, K, G) => EndsIn(q, K, G) \/ (NoneOf(q, K) /\ msg \in G)
  BY <1>1, <1>3, <1>4, <1>5, LastTaken
<1>8. /\ t \in Seq(HalMsgs)
      /\ NoneOf(t, LockMsgs) /\ NoneOf(t, MeasMsgs) /\ NoneOf(t, UpMsgs) /\ NoneOf(t, ReinitMsgs)
      /\ msg.m \notin {"Init", "Up"} => t = <<>>
      /\ msg.m \in {"Init", "Up"} =>
            /\ \A s \in Settings : EndsIn(t, About(s), {Setting(s, gConf)})
            /\ EndsIn(t, DataMsgs, {Msg("EnableData", gAvail)})
      /\ msg.m = "Init" => NoneOf(t, ServerMsgs)
      /\ msg.m = "Up" /\ gAgps /\ gServer # <<>> => EndsIn(t, ServerMsgs, {Msg("Server", gServer[1])})
  BY <1>2, <1>6, FollowsSent
<1>9. /\ gModem' \in ModemType /\ gModem'.up = gModem.up
      /\ ~gModem.up => gModem' = gModem
      /\ gModem.up =>
            /\ \A s \in Settings :
                  gModem'.set[s] = IF msg.m = "Setting" /\ msg.v = s THEN msg.to ELSE gModem.set[s]
            /\ gModem'.server = IF msg.m = "Server" THEN <<msg.v>> ELSE gModem.server
            /\ gModem'.data = IF msg.m = "EnableData" THEN msg.v ELSE gModem.data
            /\ gModem'.lock = IF msg.m = "GpsLock" THEN msg.v ELSE gModem.lock
            /\ msg.m # "Measurements" => gModem'.meas = gModem.meas
            /\ msg.m = "Measurements" => gModem'.meas = (msg.v = "1")
            /\ msg.m # "Up" => gModem'.power = gModem.power
            /\ msg.m = "Up" /\ VoteRight => gModem'.power = (IF gVote THEN "103" ELSE "101")
  BY <1>4, <1>6, ToldFacts
<1>10. /\ gExcuse' \subseteq {"race", "lock", "no APN"}
       /\ "race" \in gExcuse => "race" \in gExcuse'
       /\ "race" \notin gExcuse' /\ msg.m \in {"Init", "Up", "Constellation", "Capabilities"}
             => gUpd = "idle"
       /\ msg.m # "GpsLock" => ("lock" \in gExcuse' <=> "lock" \in gExcuse)
       /\ msg.m = "GpsLock" /\ ~gModem.up => "lock" \in gExcuse'
       /\ msg.m \notin {"Init", "Up"} => ("no APN" \in gExcuse' <=> "no APN" \in gExcuse)
  BY <1>4, ExcuseFacts
<1>11. /\ gConf' \in ConfType /\ gConf'.set = gConf.set /\ gConf'.lock = gConf.lock
       /\ gConf'.caps = IF Supports(msg) THEN gConf.caps \cup {"MEASUREMENTS"} ELSE gConf.caps
  <2>1. "MEASUREMENTS" \in Caps
    BY DEF Caps
  <2>2. CASE Supports(msg)
    BY <1>4, <1>5, <2>1, <2>2 DEF ConfType
  <2>3. CASE ~Supports(msg)
    BY <1>4, <2>3, <1>5
  <2> QED
    BY <2>2, <2>3
<1>12. msg.m \notin {"Init", "Up"} => gQueue' = q
  BY <1>4, <1>6, <1>8, NoOther
<1>13. HalTypes'
  <2>1. gQueue' \in Seq(HalMsgs)
    BY <1>4, <1>6, <1>8, Joined
  <2>2. gCaps' \in {<<>>} \cup {<<c>> : c \in SUBSET Caps}
    BY <1>4, <1>5 DEF HalTypes, ConfType
  <2>3. /\ {gAdapter', gAgps', gMeasCb', gVote'} \subseteq BOOLEAN /\ gTmp' \in ConfType
        /\ gUpd' \in {"idle", "parsed", "sent"} /\ gAvail' \in {"0", "1"} /\ gServer' \in Servers
        /\ gAsked' \in [host : Servers, early : BOOLEAN]
    BY <1>4 DEF HalTypes
  <2> QED
    BY <2>1, <2>2, <2>3, <1>9, <1>10, <1>11 DEF HalTypes
<1>14. SettingsInv'
  <2> SUFFICES ASSUME gAdapter, gModem.up, "race" \notin gExcuse', NoneOf(gQueue', ReinitMsgs),
                      NEW s \in Settings
               PROVE  \/ EndsIn(gQueue', About(s), {WantedMsg(s)'})
                      \/ NoneOf(gQueue', About(s)) /\ gModem'.set[s] = Wanted(s)'
    BY <1>4, <1>9 DEF SettingsInv
  <2>1. Wanted(s)' = Wanted(s) /\ WantedMsg(s)' = WantedMsg(s)
    BY <1>4, <1>11 DEF Wanted, WantedMsg
  <2>2. CASE msg.m \in {"Init", "Up"}
    <3>1. PICK m : m = Setting(s, gConf)
      OBVIOUS
    <3>2. EndsIn(t, About(s), {m})
      BY <1>8, <2>2, <3>1
    <3>3. EndsIn(gQueue', About(s), {m})
      BY <1>4, <1>6, <1>8, <3>2, LastIsBehind
    <3>4. m = WantedMsg(s)
      BY <1>10, <2>2, <3>1 DEF Setting, WantedMsg, Wanted
    <3> QED
      BY <2>1, <3>3, <3>4
  <2>3. CASE msg.m \notin {"Init", "Up"}
    <3>1. gQueue' = q /\ NoneOf(gQueue, ReinitMsgs)
      BY <1>6, <1>7, <1>12, <2>3, KindOfMsg
    <3>2. \/ EndsIn(gQueue, About(s), {WantedMsg(s)})
          \/ NoneOf(gQueue, About(s)) /\ gModem.set[s] = Wanted(s)
      BY <1>10, <3>1 DEF SettingsInv
    <3>3. CASE EndsIn(gQueue, About(s), {WantedMsg(s)})
      <4>1. EndsIn(q, About(s), {WantedMsg(s)}) \/ (NoneOf(q, About(s)) /\ msg \in {WantedMsg(s)})
        BY <1>7, <3>3
      <4>2. msg = WantedMsg(s) => gModem'.set[s] = Wanted(s)
        BY <1>9 DEF WantedMsg
      <4> QED
        BY <2>1, <3>1, <4>1, <4>2
    <3>4. CASE NoneOf(gQueue, About(s)) /\ gModem.set[s] = Wanted(s)
      <4>1. NoneOf(q, About(s)) /\ msg \notin About(s)
        BY <1>7, <3>4
      <4>2. ~(msg.m = "Setting" /\ msg.v = s)
        BY <1>6, <4>1, KindOfMsg
      <4> QED
        BY <1>9, <2>1, <3>1, <3>4, <4>1, <4>2
    <3> QED
      BY <3>2, <3>3, <3>4
  <2> QED
    BY <2>2, <2>3
<1>15. LockInv'
  <2> SUFFICES ASSUME gAdapter
               PROVE  \/ EndsIn(gQueue', LockMsgs, {Msg("GpsLock", WantedLock')})
                      \/ /\ NoneOf(gQueue', LockMsgs)
                         /\ "lock" \in gExcuse' \/ gModem'.lock = WantedLock'
    BY <1>4 DEF LockInv
  <2>1. WantedLock' = WantedLock
    BY <1>4, <1>11 DEF WantedLock
  <2>2. PICK m : m = Msg("GpsLock", WantedLock)
    OBVIOUS
  <2>3. EndsIn(q, LockMsgs, {m}) => EndsIn(gQueue', LockMsgs, {m})
    BY <1>4, <1>6, <1>8, LastStays
  <2>4. NoneOf(q, LockMsgs) => NoneOf(gQueue', LockMsgs)
    BY <1>4, <1>6, <1>8, NoneJoined
  <2>5. CASE EndsIn(gQueue, LockMsgs, {m})
    <3>1. EndsIn(q, LockMsgs, {m}) \/ (NoneOf(q, LockMsgs) /\ msg \in {m})
      BY <1>7, <2>5
    <3>2. msg = m => msg.m = "GpsLock" /\ msg.v = WantedLock
      BY <2>2 DEF Msg
    <3>3. msg = m => "lock" \in gExcuse' \/ gModem'.lock = WantedLock
      BY <1>9, <1>10, <3>2
    <3> QED
      BY <2>1, <2>2, <2>3, <2>4, <3>1, <3>3
  <2>6. CASE NoneOf(gQueue, LockMsgs) /\ ("lock" \in gExcuse \/ gModem.lock = WantedLock)
    <3>1. NoneOf(q, LockMsgs) /\ msg \notin LockMsgs
      BY <1>7, <2>6
    <3>2. msg.m # "GpsLock"
      BY <1>6, <3>1, KindOfMsg
    <3> QED
      BY <1>9, <1>10, <2>1, <2>4, <2>6, <3>1, <3>2
  <2> QED
    BY <2>2, <2>5, <2>6 DEF LockInv
<1>16. PowerInv'
  <2> SUFFICES ASSUME VoteRight, gAdapter, gModem.up, NoneOf(gQueue', UpMsgs)
               PROVE  gModem'.power = (IF gVote THEN "103" ELSE "101")
    BY <1>4, <1>9 DEF PowerInv
  <2>1. CASE msg.m = "Up"
    BY <1>9, <2>1
  <2>2. CASE msg.m # "Up"
    <3>1. NoneOf(q, UpMsgs)
      BY <1>4, <1>6, <1>8, NoneJoined
    <3>2. NoneOf(gQueue, UpMsgs)
      BY <1>6, <1>7, <2>2, <3>1, KindOfMsg
    <3> QED
      BY <1>9, <2>2, <3>2 DEF PowerInv
  <2> QED
    BY <2>1, <2>2
<1>17. ServerInv'
  <2>1. ServerAsked' <=> ServerAsked
    BY <1>4 DEF ServerAsked
  <2> SUFFICES ASSUME ServerAsked, gAgps, gModem.up, NoneOf(gQueue', UpMsgs)
               PROVE  \/ EndsIn(gQueue', ServerMsgs, {Msg("Server", gAsked.host[1])})
                      \/ NoneOf(gQueue', ServerMsgs) /\ gModem'.server = gAsked.host
    BY <1>4, <1>9, <2>1 DEF ServerInv
  <2>2. gServer = gAsked.host /\ gServer # <<>> /\ gServer \in Servers
    BY DEF ServerInv, ServerAsked, HalTypes
  <2>3. PICK m : m = Msg("Server", gAsked.host[1])
    OBVIOUS
  <2>4. CASE msg.m = "Up"
    <3>1. EndsIn(t, ServerMsgs, {m})
      BY <1>8, <2>2, <2>3, <2>4
    <3>2. EndsIn(gQueue', ServerMsgs, {m})
      BY <1>4, <1>6, <1>8, <3>1, LastIsBehind
    <3> QED
      BY <2>3, <3>2
  <2>5. CASE msg.m # "Up"
    <3>1. NoneOf(t, ServerMsgs)
      BY <1>5, <1>6, <1>8, <2>5, KindOfMsg, NoOther
    <3>2. NoneOf(q, UpMsgs)
      BY <1>4, <1>6, <1>8, NoneJoined
    <3>3. NoneOf(gQueue, UpMsgs)
      BY <1>6, <1>7, <2>5, <3>2, KindOfMsg
    <3>4. EndsIn(q, ServerMsgs, {m}) => EndsIn(gQueue', ServerMsgs, {m})
      BY <1>4, <1>6, <1>8, <3>1, LastStays
    <3>5. NoneOf(q, ServerMsgs) => NoneOf(gQueue', ServerMsgs)
      BY <1>4, <1>6, <1>8, <3>1, NoneJoined
    <3>6. CASE EndsIn(gQueue, ServerMsgs, {m})
      <4>1. EndsIn(q, ServerMsgs, {m}) \/ (NoneOf(q, ServerMsgs) /\ msg \in {m})
        BY <1>7, <3>6
      <4>2. msg = m => msg.m = "Server" /\ msg.v = gAsked.host[1]
        BY <2>3 DEF Msg
      <4>3. msg = m => gModem'.server = gAsked.host
        BY <1>9, <2>2, <4>2, ServerIs
      <4> QED
        BY <2>3, <3>4, <3>5, <4>1, <4>3
    <3>7. CASE NoneOf(gQueue, ServerMsgs) /\ gModem.server = gAsked.host
      <4>1. NoneOf(q, ServerMsgs) /\ msg \notin ServerMsgs
        BY <1>7, <3>7
      <4>2. msg.m # "Server"
        BY <1>6, <4>1, KindOfMsg
      <4> QED
        BY <1>9, <3>5, <3>7, <4>1, <4>2
    <3> QED
      BY <2>3, <3>3, <3>6, <3>7 DEF ServerInv
  <2> QED
    BY <2>4, <2>5
<1>18. DataInv'
  <2> SUFFICES ASSUME gAdapter, gModem.up, "no APN" \notin gExcuse', NoneOf(gQueue', ReinitMsgs)
               PROVE  \/ EndsIn(gQueue', DataMsgs, {Msg("EnableData", gAvail)})
                      \/ NoneOf(gQueue', DataMsgs) /\ gModem'.data = gAvail
    BY <1>4, <1>9 DEF DataInv
  <2>1. PICK m : m = Msg("EnableData", gAvail)
    OBVIOUS
  <2>2. CASE msg.m \in {"Init", "Up"}
    <3>1. EndsIn(t, DataMsgs, {m})
      BY <1>8, <2>1, <2>2
    <3>2. EndsIn(gQueue', DataMsgs, {m})
      BY <1>4, <1>6, <1>8, <3>1, LastIsBehind
    <3> QED
      BY <2>1, <3>2
  <2>3. CASE msg.m \notin {"Init", "Up"}
    <3>1. gQueue' = q /\ NoneOf(gQueue, ReinitMsgs)
      BY <1>6, <1>7, <1>12, <2>3, KindOfMsg
    <3>2. CASE EndsIn(gQueue, DataMsgs, {m})
      <4>1. EndsIn(q, DataMsgs, {m}) \/ (NoneOf(q, DataMsgs) /\ msg \in {m})
        BY <1>7, <3>2
      <4>2. msg = m => msg.m = "EnableData" /\ msg.v = gAvail
        <5>1. m = [m |-> "EnableData", v |-> gAvail]
          BY <2>1 DEF Msg
        <5>2. m.m = "EnableData" /\ m.v = gAvail
          BY <5>1
        <5> QED
          BY <5>2
      <4>3. msg = m => gModem'.data = gAvail
        BY <1>9, <4>2
      <4> QED
        BY <2>1, <3>1, <4>1, <4>3
    <3>3. CASE NoneOf(gQueue, DataMsgs) /\ gModem.data = gAvail
      <4>1. NoneOf(q, DataMsgs) /\ msg \notin DataMsgs
        BY <1>7, <3>3
      <4>2. msg.m # "EnableData"
        BY <1>6, <4>1, KindOfMsg
      <4> QED
        BY <1>9, <3>1, <3>3, <4>1, <4>2
    <3> QED
      BY <1>10, <2>1, <2>3, <3>1, <3>2, <3>3 DEF DataInv
  <2> QED
    BY <2>2, <2>3
<1>19. CapsInv'
  <2> SUFFICES ASSUME "race" \notin gExcuse'
               PROVE  /\ gCaps' # <<>> => gCaps'[1] \subseteq OurCaps'
                      /\ Apq => OurCaps' \cap {"MSA", "MSB"} = {}
    BY DEF CapsInv
  <2>1. /\ gCaps # <<>> => gCaps[1] \subseteq OurCaps
        /\ Apq => OurCaps \cap {"MSA", "MSB"} = {}
    BY <1>10 DEF CapsInv
  <2>2. OurCaps \subseteq OurCaps' /\ OurCaps' \subseteq OurCaps \cup {"MEASUREMENTS"}
    BY <1>4, <1>11 DEF OurCaps
  <2>3. msg.m = "Capabilities" => gCaps'[1] = OurCaps
    BY <1>4, <1>10 DEF OurCaps
  <2> QED
    BY <1>4, <2>1, <2>2, <2>3
<1>20. MeasInv'
  <2> SUFFICES ASSUME gMeasCb
               PROVE  \/ EndsIn(gQueue', MeasMsgs, {Msg("Measurements", "1")})
                      \/ NoneOf(gQueue', MeasMsgs) /\ (gModem'.up => gModem'.meas)
    BY <1>4 DEF MeasInv
  <2>1. PICK m : m = Msg("Measurements", "1")
    OBVIOUS
  <2>2. EndsIn(q, MeasMsgs, {m}) => EndsIn(gQueue', MeasMsgs, {m})
    BY <1>4, <1>6, <1>8, LastStays
  <2>3. NoneOf(q, MeasMsgs) => NoneOf(gQueue', MeasMsgs)
    BY <1>4, <1>6, <1>8, NoneJoined
  <2>4. CASE EndsIn(gQueue, MeasMsgs, {m})
    <3>1. EndsIn(q, MeasMsgs, {m}) \/ (NoneOf(q, MeasMsgs) /\ msg \in {m})
      BY <1>7, <2>4
    <3>2. msg = m => msg.m = "Measurements" /\ msg.v = "1"
      BY <2>1 DEF Msg
    <3>3. msg = m => (gModem'.up => gModem'.meas)
      BY <1>9, <3>2
    <3> QED
      BY <2>1, <2>2, <2>3, <3>1, <3>3
  <2>5. CASE NoneOf(gQueue, MeasMsgs) /\ (gModem.up => gModem.meas)
    <3>1. NoneOf(q, MeasMsgs) /\ msg \notin MeasMsgs
      BY <1>7, <2>5
    <3>2. msg.m # "Measurements"
      BY <1>6, <3>1, KindOfMsg
    <3> QED
      BY <1>9, <2>3, <2>5, <3>1, <3>2
  <2> QED
    BY <2>1, <2>4, <2>5 DEF MeasInv
<1> QED
  BY <1>13, <1>14, <1>15, <1>16, <1>17, <1>18, <1>19, <1>20

-----------------------------------------------------------------------------
(* Modem and framework have what the engine holds (settings, lock and      *)
(* vote, server and data, capabilities and measurements) once everything   *)
(* is processed, for all settings, configurations, calls and restarts.     *)
THEOREM TheModemFollows == GpsHalSpec => []ModemFollowsEngine
<1>1. GpsHalInit => HalIInv
  <2> SUFFICES ASSUME GpsHalInit PROVE HalIInv
    OBVIOUS
  <2>1. GpsConf \in Confs
    BY DEF Confs
  <2>2. TrimCaps(GpsConf) \in ConfType
    BY <2>1, ConfsAre
  <2>3. NoModem \in [Settings -> SettingValues \cup {"unset"}] /\ <<>> \in Servers
    BY DEF NoModem, Servers
  <2>4. gModem \in ModemType /\ gModem.up /\ ~gModem.meas
    BY <2>3 DEF GpsHalInit, ModemType
  <2>5. HalTypes
    <3>1. gAsked \in [host : Servers, early : BOOLEAN]
      BY <2>3 DEF GpsHalInit
    <3>2. gConf \in ConfType /\ gTmp \in ConfType /\ gServer \in Servers
      BY <2>2, <2>3 DEF GpsHalInit
    <3>3. {gAdapter, gAgps, gMeasCb, gVote} \subseteq BOOLEAN
      BY DEF GpsHalInit
    <3>4. gQueue \in Seq(HalMsgs) /\ gCaps \in {<<>>} \cup {<<c>> : c \in SUBSET Caps}
      BY DEF GpsHalInit
    <3>5. gUpd = "idle" /\ gAvail = "0" /\ gExcuse = {}
      BY DEF GpsHalInit
    <3> QED
      BY <2>4, <3>1, <3>2, <3>3, <3>4, <3>5 DEF HalTypes
  <2>6. SettingsInv /\ LockInv /\ PowerInv /\ DataInv /\ MeasInv
    BY DEF GpsHalInit, SettingsInv, LockInv, PowerInv, DataInv, MeasInv
  <2>7. ServerInv
    BY DEF GpsHalInit, ServerInv, ServerAsked
  <2>8. CapsInv
    <3>1. Apq => gConf.caps \cap {"MSA", "MSB"} = {}
      <4>1. GpsConf \in ConfType
        BY <2>1, ConfsAre
      <4> QED
        BY <4>1 DEF GpsHalInit, TrimCaps, ConfType
    <3> QED
      BY <3>1 DEF GpsHalInit, CapsInv, OurCaps
  <2> QED
    BY <2>5, <2>6, <2>7, <2>8 DEF HalIInv
<1>2. HalIInv /\ [GpsHalNext]_gVars => HalIInv'
  <2> SUFFICES ASSUME HalIInv, [GpsHalNext]_gVars PROVE HalIInv'
    OBVIOUS
  <2>1. CASE UNCHANGED gVars
    <3> USE <2>1 DEF HalIInv, gVars
    <3>1. HalTypes'
      BY DEF HalTypes
    <3>2. SettingsInv'
      BY DEF SettingsInv, Wanted, WantedMsg
    <3>3. LockInv' /\ PowerInv'
      BY DEF LockInv, PowerInv, WantedLock
    <3>4. ServerInv' /\ DataInv'
      BY DEF ServerInv, DataInv, ServerAsked
    <3>5. CapsInv' /\ MeasInv'
      BY DEF CapsInv, MeasInv, OurCaps
    <3> QED
      BY <3>1, <3>2, <3>3, <3>4, <3>5
  <2>2. CASE GpsHalNext
    BY <2>2, InitStep, CleanupStep, AgpsInitStep, SetServerStep, NetworkStep, MeasurementStep,
       ParseStep, SendingStep, RestoreStep, ProcStep, RestartStep DEF GpsHalNext
  <2> QED
    BY <2>1, <2>2
<1>3. HalIInv => ModemFollowsEngine
  <2> SUFFICES ASSUME HalIInv PROVE ModemFollowsEngine
    OBVIOUS
  <2> USE DEF HalIInv
  <2>1. GpsHalTypeOK
    <3>1. gModem \in ModemType /\ gServer \in Servers
      BY DEF HalTypes
    <3>2. /\ {gModem.up, gModem.meas} \subseteq BOOLEAN
          /\ gModem.lock \in {"unset", "0", GpsConf.lock} \cup {d.lock : d \in ConfigData}
          /\ gModem.power \in {"unset"} \cup (IF VoteRight THEN {"101", "103"} ELSE {})
      BY <3>1 DEF ModemType, Locks, Confs
    <3>3. Len(gServer) <= 1 /\ Len(gCaps) <= 1
      <4>1. \A x : Len(<<x>>) = 1
        OBVIOUS
      <4>2. Len(<<>>) = 0
        OBVIOUS
      <4>3. Len(gServer) \in {0, 1}
        BY <3>1, <4>1, <4>2 DEF Servers
      <4>4. Len(gCaps) \in {0, 1}
        BY <4>1, <4>2 DEF HalTypes
      <4> QED
        BY <4>3, <4>4
    <3> QED
      BY <3>2, <3>3 DEF HalTypes, GpsHalTypeOK
  <2>2. ASSUME NEW K, NEW G, gQueue = <<>> PROVE NoneOf(gQueue, K) /\ ~EndsIn(gQueue, K, G)
    BY <2>2 DEF NoneOf, EndsIn
  <2>3. SettingsAreRestored
    <3> SUFFICES ASSUME Settled, "race" \notin gExcuse PROVE gModem.set = gConf.set
      BY DEF SettingsAreRestored
    <3>1. \A s \in Settings : gModem.set[s] = gConf.set[s]
      <4> SUFFICES ASSUME NEW s \in Settings PROVE gModem.set[s] = gConf.set[s]
        OBVIOUS
      <4>1. ~EndsIn(gQueue, About(s), {WantedMsg(s)}) /\ NoneOf(gQueue, ReinitMsgs)
        BY <2>2 DEF Settled
      <4>2. gModem.set[s] = Wanted(s)
        BY <4>1 DEF SettingsInv, Settled
      <4> QED
        BY <4>2 DEF Wanted, Settled
    <3>2. /\ gModem.set \in [Settings -> SettingValues \cup {"unset"}]
          /\ gConf.set \in [Settings -> SettingValues]
      BY DEF HalTypes, ModemType, ConfType
    <3> QED
      BY <3>1, <3>2
  <2>4. LockFollowsVote
    <3> SUFFICES ASSUME Settled
                 PROVE  /\ "lock" \in gExcuse \/ gModem.lock = (IF gVote THEN "0" ELSE gConf.lock)
                        /\ VoteRight => gModem.power = (IF gVote THEN "103" ELSE "101")
      BY DEF LockFollowsVote
    <3>1. ~EndsIn(gQueue, LockMsgs, {Msg("GpsLock", WantedLock)}) /\ NoneOf(gQueue, UpMsgs)
      BY <2>2 DEF Settled
    <3>2. WantedLock = (IF gVote THEN "0" ELSE gConf.lock)
      BY DEF WantedLock, Settled
    <3> QED
      BY <3>1, <3>2 DEF LockInv, PowerInv, Settled
  <2>5. ServerAndDataAreRestored
    <3> SUFFICES ASSUME Settled
                 PROVE  /\ gAgps /\ ServerAsked => gModem.server = gAsked.host
                        /\ "no APN" \in gExcuse \/ gModem.data = gAvail
      BY DEF ServerAndDataAreRestored, ServerAsked
    <3>1. /\ NoneOf(gQueue, UpMsgs) /\ NoneOf(gQueue, ReinitMsgs)
          /\ ~EndsIn(gQueue, ServerMsgs, {Msg("Server", gAsked.host[1])})
          /\ ~EndsIn(gQueue, DataMsgs, {Msg("EnableData", gAvail)})
      BY <2>2 DEF Settled
    <3> QED
      BY <3>1 DEF ServerInv, DataInv, Settled
  <2>6. CapabilitiesAreOurs
    BY DEF CapsInv, CapabilitiesAreOurs, OurCaps
  <2>7. MeasurementsAreEnabled
    <3>1. Settled => ~EndsIn(gQueue, MeasMsgs, {Msg("Measurements", "1")})
      BY <2>2 DEF Settled
    <3> QED
      BY <3>1 DEF MeasInv, MeasurementsAreEnabled, Settled
  <2> QED
    BY <2>1, <2>3, <2>4, <2>5, <2>6, <2>7 DEF ModemFollowsEngine
<1> QED
  BY <1>1, <1>2, <1>3, PTL DEF GpsHalSpec

=============================================================================
