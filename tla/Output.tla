-------------------------------- MODULE Output ---------------------------------
(* One output channel below the fades: the logical level passes the output     *)
(* curve, is scaled into the physical range and becomes the compare value of   *)
(* timer 3 (boards/*/dimming.c).  On the DDM845R (Kind "triac") the zero-cross *)
(* interrupt does this, between any two instructions of the main loop, which   *)
(* may be storing a new profile at that moment.  On the DDL84R main does it,   *)
(* whenever a level is applied, for a leading or for a trailing pulse.         *)
EXTENDS Integers

CONSTANTS
  MaxLevel, \* DIMMING_MAX_LEVEL: 1023
  Wrap,     \* 2^32 in the code: above the product of two levels
  Kinds,    \* of output: "triac", "leading" and "trailing"
  Profiles, \* that may be in force at first, all accepted by ddm_config_validate
  Writes,   \* profiles that may be written
  Moving    \* bound: levels between which a channel moves and at which a profile is
            \* written; a channel at another level stays as it is

Level == 0 .. MaxLevel
Curve == {"linear", "gamma 0.5", "gamma 0.7", "gamma 1.5", "gamma 2.0", "gamma 2.5", "gamma 3.0"}
Profile == [min : Level, max : Level, curve : Curve]

ASSUME OutputAssumption ==
  /\ MaxLevel \in Nat \ {0} /\ Wrap \in Nat /\ Wrap > MaxLevel * (MaxLevel + 1)
  /\ Kinds \subseteq {"triac", "leading", "trailing"}
  /\ \A p \in Profiles \cup Writes : p \in Profile /\ p.min <= p.max
  /\ Moving \subseteq Level

VARIABLES
  kind,    \* of the channel, given by the board and the pin
  zone,    \* g_zone_min, g_zone_max and g_output_curve of the channel
  before,  \* history: the zone when the stores of a profile began
  profile, \* arguments of dimming_set_channel_profile
  pending, \* those of its three stores that are not yet done
  level,   \* g_applied_level, and g_shadow_level on the DDM845R
  compare  \* the capture/compare register

vars == <<kind, zone, before, profile, pending, level, compare>>

-------------------------------------------------------------------------------
Rounded(a) == (a + MaxLevel \div 2) \div MaxLevel
Square(x) == Rounded(x * x)
Cube(x) == Rounded(Square(x) * x)

(* The unsigned variables of the binary search: hi must not go below 0.       *)
Search == [lo : 0 .. MaxLevel + 1, hi : Level, best : Level]
Whole == [lo |-> 0, hi |-> MaxLevel, best |-> 0]

(* Mutant: the search gives up one candidate early. *)
SquareRootShort(x) ==
  LET search[s \in Search] ==
        LET mid == (s.lo + s.hi) \div 2
        IN  IF s.lo >= s.hi THEN s.best
            ELSE IF Square(mid) <= x THEN search[[s EXCEPT !.lo = mid + 1, !.best = mid]]
            ELSE search[[s EXCEPT !.hi = mid - 1]]
  IN  search[Whole]

(* The binary search of curve_level. *)
SquareRoot(x) ==
  LET search[s \in Search] ==
        LET mid == (s.lo + s.hi) \div 2
        IN  IF s.lo > s.hi THEN s.best
            ELSE IF Square(mid) <= x THEN search[[s EXCEPT !.lo = mid + 1, !.best = mid]]
            ELSE search[[s EXCEPT !.hi = mid - 1]]
  IN  search[Whole]

(* Mutant: gamma 2.5 is computed without the division by two. *)
CurveUnhalved(x, curve) == IF curve = "gamma 2.5" THEN Square(x) + Cube(x) ELSE x

curve_level(x, curve) ==
  CASE curve = "gamma 0.5" -> SquareRoot(x)
    [] curve = "gamma 0.7" -> (SquareRoot(x) + x + 1) \div 2
    [] curve = "gamma 1.5" -> (x + Square(x) + 1) \div 2
    [] curve = "gamma 2.0" -> Square(x)
    [] curve = "gamma 2.5" -> (Square(x) + Cube(x) + 1) \div 2
    [] curve = "gamma 3.0" -> Cube(x)
    [] OTHER -> x

(* Mutant: the guard against an empty range is gone. *)
ScaledUnguarded(z, l) == z.min + Rounded(((z.max - z.min) * curve_level(l, z.curve)) % Wrap)

(* level_to_phase_level, and the last lines of level_to_output_level.         *)
Scaled(z, l) ==
  IF z.max <= z.min THEN z.max
  ELSE z.min + Rounded(((z.max - z.min) * curve_level(l, z.curve)) % Wrap)

level_to_output_level(z, l) == IF l = 0 \/ z.max = 0 THEN 0 ELSE Scaled(z, l)

(* ARR of timer 3 *)
Steps == IF kind = "triac" THEN MaxLevel ELSE MaxLevel - 1

level_to_compare(z, l) == IF l = 0 THEN MaxLevel + 1 ELSE MaxLevel - Scaled(z, l)

leading_level_to_compare(o) == IF o >= MaxLevel THEN MaxLevel ELSE o

(* Mutant: the pulse is taken from the last count, not from the period. *)
TrailingShort(o) == IF o >= MaxLevel THEN 0 ELSE MaxLevel - 1 - o

trailing_level_to_compare(o) == IF o >= MaxLevel THEN 0 ELSE MaxLevel - o

(* The value the timer gets for level l. *)
Compare(z, l) ==
  CASE kind = "triac" -> level_to_compare(z, l)
    [] kind = "leading" -> leading_level_to_compare(level_to_output_level(z, l))
    [] OTHER -> trailing_level_to_compare(level_to_output_level(z, l))

(* Counts of a period, 0 .. Steps, in which the output is driven: PWM mode 1  *)
(* is active below the compare value and mode 2 from it on; the active-low    *)
(* gate of the TRIAC is driven where mode 1 is not active.                    *)
Below(k) == IF k > Steps + 1 THEN Steps + 1 ELSE k
Driven(k) == IF kind = "leading" THEN Below(k) ELSE Steps + 1 - Below(k)

-------------------------------------------------------------------------------
TypeOK ==
  /\ kind \in Kinds /\ zone \in Profile /\ before \in Profile /\ profile \in Profile
  /\ pending \subseteq {"min", "max", "curve"}
  /\ level \in Level /\ compare \in 0 .. MaxLevel + 1

(* A channel at rest: any profile in force, any level applied. *)
Init ==
  /\ kind \in Kinds /\ zone \in Profiles /\ before = zone /\ profile = zone /\ pending = {}
  /\ level \in Level /\ compare = Compare(zone, level)

(* dimming_set_channel_profile is called.  Its arguments passed               *)
(* ddm_config_validate, so its clamps change nothing.                         *)
SetProfile(p) ==
  /\ pending = {} /\ level \in Moving
  /\ before' = zone /\ profile' = p /\ pending' = {"min", "max", "curve"}
  /\ UNCHANGED <<kind, zone, level, compare>>

(* The variables are not volatile: the compiler may order the stores.         *)
Store(f) ==
  /\ f \in pending
  /\ zone' = [zone EXCEPT ![f] = profile[f]] /\ pending' = pending \ {f}
  /\ UNCHANGED <<kind, before, profile, level, compare>>

(* apply_channel_level: from a button, from Modbus or from a fade.            *)
Apply(l) ==
  /\ pending = {} /\ level \in Moving
  /\ level' = l
  /\ compare' = IF kind = "triac" THEN compare ELSE Compare(zone, l)
  /\ UNCHANGED <<kind, zone, before, profile, pending>>

(* Mutant: the interrupt looks only after channels that are lit. *)
ZeroCrossLit ==
  /\ kind = "triac" /\ level # 0
  /\ compare' = Compare(zone, level)
  /\ UNCHANGED <<kind, zone, before, profile, pending, level>>

(* exti0_isr *)
ZeroCross ==
  /\ kind = "triac"
  /\ compare' = Compare(zone, level)
  /\ UNCHANGED <<kind, zone, before, profile, pending, level>>

Next ==
  \/ \E p \in Writes : SetProfile(p)
  \/ \E f \in {"min", "max", "curve"} : Store(f)
  \/ \E l \in Moving : Apply(l)
  \/ ZeroCross

Spec == Init /\ [][Next]_vars

(* The loop goes on and the mains keeps crossing zero.                        *)
FairSpec == Spec /\ WF_vars(\E f \in {"min", "max", "curve"} : Store(f)) /\ WF_vars(ZeroCross)

-------------------------------------------------------------------------------
(* The level the output shows: a TRIAC is driven one count longer.            *)
Shown(k) == Driven(k) - (IF kind = "triac" THEN 1 ELSE 0)

(* What is driven anew is inside the range of the last profile written; an    *)
(* interrupt between the stores of a profile finds minimum and maximum of two *)
(* profiles, perhaps the wrong way round, and stays between the two it finds. *)
(* A channel at level 0 is never driven (README.md:357-359).                  *)
StaysInRange ==
  [][compare' # compare =>
       LET z == IF pending = {} THEN profile ELSE zone
       IN  IF level' = 0 THEN Driven(compare') = 0
           ELSE /\ Shown(compare') >= (IF z.min < z.max THEN z.min ELSE z.max)
                /\ Shown(compare') <= z.max]_vars

(* What is driven is inside the old or the new range, also while the new one  *)
(* is being stored. False: the new minimum with the old maximum make a third  *)
(* range, of which an interrupt may drive any level (dimming.c:254).          *)
InOldOrNewRange ==
  [][compare' # compare /\ level' # 0 =>
       \E z \in {before, profile} : z.min <= Shown(compare') /\ Shown(compare') <= z.max]_vars

(* A brighter level never gives less light, for any curve and range, those    *)
(* of a half-stored profile included: a ramp never turns back.                *)
BrighterIsBrighter ==
  level < MaxLevel => Driven(Compare(zone, level)) <= Driven(Compare(zone, level + 1))

(* The binary search finds the largest level whose square is not above x.     *)
RootIsExact ==
  LET r == SquareRoot(level)
  IN  Square(r) <= level /\ \A m \in Level : Square(m) <= level => m <= r

(* Leading and trailing pulses have the same duty (README.md:380).            *)
EqualDuty ==
  kind # "triac" =>
    LET o == level_to_output_level(zone, level)
    IN  Below(leading_level_to_compare(o)) = Steps + 1 - Below(trailing_level_to_compare(o))

(* A TRIAC channel comes to show its level through the curve and in the range *)
(* that are configured (README.md:357-359).                                   *)
CrossShowsProfile ==
  (<>[][UNCHANGED <<zone, pending, level>>]_vars /\ kind = "triac")
     => <>[](compare = Compare(zone, level))

(* So does every channel (README.md:376-378).                                 *)
ProfileIsShown ==
  <>[][UNCHANGED <<zone, pending, level>>]_vars => <>[](compare = Compare(zone, level))
===============================================================================
