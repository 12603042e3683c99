-------------------------------- MODULE Lights --------------------------------
(***************************************************************************)
(* The light HAL (lights.c): three lights of the framework share one green *)
(* and one red LED, and the fourth is the screen's; each is a file of the  *)
(* kernel.  A light's state is its colour, for a LED as lit or not and the *)
(* alpha byte, and its flashing.  Every function holds g_lock while it     *)
(* writes and is one step; files that cannot be written are left out.      *)
(***************************************************************************)
EXTENDS Integers

CONSTANTS LightStates,  \* [lit, alpha, flash, onMS, offMS]
          Channels      \* values of red, green and blue for the screen

ASSUME LightAssumption ==
    /\ \A s \in LightStates : /\ s.lit \in BOOLEAN /\ s.flash \in BOOLEAN
                              /\ s.alpha \in 0 .. 255 /\ s.onMS \in Nat /\ s.offMS \in Nat
    /\ Channels \subseteq 0 .. 255

VARIABLES g_lights,  \* what was set for ATTENTION and NOTIFICATION
          leds,      \* what the files have: brightness and pwm_us of both LEDs, the screen's brightness
          lSetter    \* the light of the LEDs that was set last

lVars == <<g_lights, leds, lSetter>>

LedFiles == {"green", "green_pwm", "red", "red_pwm", "lcd"}
LightOff == [lit |-> FALSE, alpha |-> 0, flash |-> FALSE, onMS |-> 0, offMS |-> 0]

LightsInit ==
    /\ g_lights = [l \in {"ATTENTION", "NOTIFICATION"} |-> LightOff]
    /\ leds = [f \in LedFiles |-> 0] /\ lSetter = "none"

is_lit(s) == s.lit

(* write_int, once for each file a function has a value for. *)
write_int(values) == leds' = [f \in LedFiles |-> IF f \in DOMAIN values THEN values[f] ELSE leds[f]]

-----------------------------------------------------------------------------
(* set_light_backlight, with rgb_to_brightness. *)
rgb_to_brightness(r, g, b) == (77 * r + 150 * g + 29 * b) \div 256

set_light_backlight(r, g, b) ==
    /\ write_int([lcd |-> rgb_to_brightness(r, g, b)])
    /\ UNCHANGED <<g_lights, lSetter>>

Blinks(s) == s.flash /\ s.onMS > 0 /\ s.offMS > 0

(* Mutant: the ratio is taken of the time off. *)
fake_ratio(s) == (s.onMS * 255) \div s.offMS

(* The ratio of on to off, at least 16 because the hardware ignores the    *)
(* low four bits; a light on for less than 1/255 of the time stays at 0.   *)
fake_pwm(s) == LET r == (s.onMS * 255) \div (s.onMS + s.offMS) IN IF r > 0 /\ r < 16 THEN 16 ELSE r

brightness_level(s) == IF ~is_lit(s) THEN 0 ELSE IF s.alpha > 0 THEN s.alpha ELSE 255

(* set_light_locked: both LEDs off, then the green one. *)
set_light_locked(s) ==
    write_int(IF Blinks(s) THEN [green |-> fake_pwm(s), green_pwm |-> s.offMS * 1000, red |-> 0]
              ELSE [green |-> brightness_level(s), green_pwm |-> 100, red |-> 0])

(* Mutant: what is being set is shown. *)
LastOne(lights, s) == s

(* handle_led_prioritized_locked. *)
Prioritized(lights, s) ==
    IF is_lit(lights["ATTENTION"]) THEN lights["ATTENTION"]
    ELSE IF is_lit(lights["NOTIFICATION"]) THEN lights["NOTIFICATION"] ELSE s

set_light_attention(s) ==
    /\ g_lights' = [g_lights EXCEPT !["ATTENTION"] = s] /\ lSetter' = "ATTENTION"
    /\ set_light_locked(Prioritized(g_lights', s))

set_light_notifications(s) ==
    /\ g_lights' = [g_lights EXCEPT !["NOTIFICATION"] = s] /\ lSetter' = "NOTIFICATION"
    /\ set_light_locked(Prioritized(g_lights', s))

(* set_light_battery: the alpha byte is the level of the battery, and the  *)
(* light is neither kept nor compared with the others.                     *)
set_light_battery(s) ==
    /\ write_int(CASE ~is_lit(s) -> [green |-> 0, red |-> 0]
                   [] is_lit(s) /\ s.alpha <= 15 -> [green |-> 0, red |-> 255, red_pwm |-> 100]
                   [] is_lit(s) /\ s.alpha \in 16 .. 99 ->
                        [green |-> 255, green_pwm |-> 100, red |-> 255, red_pwm |-> 100]
                   [] OTHER -> [green |-> 255, green_pwm |-> 100, red |-> 0])
    /\ lSetter' = "BATTERY"
    /\ UNCHANGED g_lights

LightsNext ==
    \/ \E s \in LightStates :
          set_light_attention(s) \/ set_light_notifications(s) \/ set_light_battery(s)
    \/ \E r, g, b \in Channels : set_light_backlight(r, g, b)

LightsSpec == LightsInit /\ [][LightsNext]_lVars

-----------------------------------------------------------------------------
(* After attention or notification was set, the LED shows the first of     *)
(* them that is lit: turning one off never leaves its light behind nor     *)
(* hides the other's, and nothing of the battery's light remains.          *)
LedFollowsPriority ==
    lSetter \in DOMAIN g_lights =>
        LET lit == {l \in DOMAIN g_lights : is_lit(g_lights[l])}
            s == g_lights[IF "ATTENTION" \in lit THEN "ATTENTION" ELSE "NOTIFICATION"]
        IN  /\ leds["red"] = 0
            /\ lit = {} /\ ~Blinks(g_lights[lSetter]) => leds["green"] = 0
            /\ lit # {} /\ ~Blinks(s) => leds["green"] > 0 /\ s.alpha \in {0, leds["green"]}
            /\ lit # {} /\ Blinks(s) => leds["green_pwm"] = s.offMS * 1000

(* The brightness the kernel is given is in its range, also for the        *)
(* brightest screen, and a LED that blinks is off or bright enough for the *)
(* hardware to see.                                                        *)
LedIsInRange ==
    /\ \A f \in {"green", "red", "lcd"} : leds[f] \in 0 .. 255
    /\ leds["green_pwm"] > 100 /\ lSetter # "BATTERY" => leds["green"] = 0 \/ leds["green"] >= 16

(* The shared LED shows what it should, in a form the kernel takes.        *)
LedIsRight == LedFollowsPriority /\ LedIsInRange
=============================================================================
