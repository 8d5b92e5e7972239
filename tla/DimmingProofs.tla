----------------------------- MODULE DimmingProofs -----------------------------
(* The fades for any number of channels and levels, any fade times and any    *)
(* width of the clock, however often it wraps.                                *)
EXTENDS Dimming, TLAPS

(* More than a times leaves at least one more. *)
LEMMA OneMore ==
  ASSUME NEW d \in Nat, NEW a \in Nat, NEW q \in Nat, q > a
  PROVE  d * q >= d * a + d
<1>1. q - (a + 1) \in Nat
  OBVIOUS
<1>2. d * (q - (a + 1)) >= 0
  BY <1>1
<1>3. d * (q - (a + 1)) = d * q - (d * a + d)
  BY <1>1
<1> QED BY <1>2, <1>3

(* A share e / d of a distance, rounded down, stays within the distance: the  *)
(* multiplication comes before the division.                                  *)
LEMMA Share ==
  ASSUME NEW a \in Nat, NEW e \in Nat, NEW d \in Nat \ {0}, e < d
  PROVE  (a * e) \div d \in 0 .. a
<1> DEFINE q == (a * e) \div d
<1>1. a * e \in Nat /\ d * a \in Nat
  OBVIOUS
<1>2. a * e <= d * a
  <2>1. a * (d - e) >= 0
    OBVIOUS
  <2>2. a * (d - e) = d * a - a * e
    OBVIOUS
  <2> QED BY <2>1, <2>2
<1>3. q \in Nat /\ d * q <= a * e
  BY <1>1
<1>4. d * q \in Nat
  BY <1>3
<1> HIDE DEF q
<1>5. ~(q > a)
  BY <1>1, <1>2, <1>3, <1>4, OneMore
<1>6. q \in 0 .. a
  BY <1>3, <1>5
<1> QED BY <1>6 DEF q

(* The distance of two instants less than a clock width apart can be read off *)
(* the wrapping clock.                                                        *)
LEMMA ClockDistance ==
  ASSUME NEW W \in Nat \ {0}, NEW n \in Nat, NEW m \in Nat, m <= n, n - m < W
  PROVE  ((n % W) + W - (m % W)) % W = n - m
<1> DEFINE x == n % W
           y == m % W
           a == n \div W
           b == m \div W
<1>1. /\ x \in 0 .. W - 1 /\ y \in 0 .. W - 1
      /\ a \in Nat /\ b \in Nat /\ n = a * W + x /\ m = b * W + y
  OBVIOUS
<1> HIDE DEF x, y, a, b
<1>2. a = b \/ a = b + 1
  <2>1. ~(a < b)
    <3> SUFFICES ASSUME a < b PROVE FALSE
      OBVIOUS
    <3>1. PICK k \in Nat : b = a + 1 + k
      <4>1. b - (a + 1) \in Nat
        BY <1>1
      <4> QED BY <1>1, <4>1
    <3>2. b * W = a * W + W + k * W /\ k * W \in Nat
      BY <1>1, <3>1
    <3> QED BY <1>1, <3>2
  <2>2. ~(a > b + 1)
    <3> SUFFICES ASSUME a > b + 1 PROVE FALSE
      OBVIOUS
    <3>1. PICK k \in Nat : a = b + 2 + k
      <4>1. a - (b + 2) \in Nat
        BY <1>1
      <4> QED BY <1>1, <4>1
    <3>2. a * W = b * W + 2 * W + k * W /\ k * W \in Nat
      BY <1>1, <3>1
    <3> QED BY <1>1, <3>2
  <2> QED BY <1>1, <2>1, <2>2
<1>3. x + W - y = n - m + W \/ x + W - y = n - m
  BY <1>1, <1>2
<1>4. (x + W - y) % W = n - m
  BY <1>1, <1>3
<1> QED BY <1>4 DEF x, y

-------------------------------------------------------------------------------
(* The light between where the fade began and where it goes. *)
OnTheWay(f) == \/ f.from <= f.applied /\ f.applied <= f.target
               \/ f.target <= f.applied /\ f.applied <= f.from

LEMMA ElapsedRange ==
  ASSUME NEW f \in Fade, NEW t \in 0 .. Wrap - 1
  PROVE  Elapsed(f, t) \in 0 .. Wrap - 1
BY DimmingAssumption DEF DimmingAssumption, Elapsed, Fade

(* Advancing a fade leaves its plan alone, keeps the light on the way and     *)
(* starts nothing.                                                            *)
LEMMA AdvanceStays ==
  ASSUME NEW f \in Fade, OnTheWay(f), NEW t \in 0 .. Wrap - 1
  PROVE  LET g == Advance(f, t)
         IN  /\ g \in Fade /\ OnTheWay(g)
             /\ g.target = f.target /\ g.started = f.started /\ g.duration = f.duration
             /\ g.active => f.active /\ Elapsed(f, t) < f.duration
             /\ ~g.active => (f.active /\ g.applied = f.target) \/ (~f.active /\ g = f)
<1> DEFINE e == Elapsed(f, t)
           g == Advance(f, t)
<1>1. /\ f.target \in Level /\ f.from \in Level /\ f.applied \in Level /\ f.duration \in Nat
      /\ f.active \in BOOLEAN /\ LevelMax \in Nat
  BY DimmingAssumption DEF DimmingAssumption, Fade
<1>2. e \in Nat
  BY ElapsedRange, DimmingAssumption DEF DimmingAssumption
<1>3. CASE ~f.active
  BY <1>3 DEF Advance
<1>4. CASE f.active /\ e >= f.duration
  <2>1. g = [f EXCEPT !.active = FALSE, !.applied = f.target]
    BY <1>4 DEF Advance
  <2>2. g \in Fade /\ g.applied = f.target /\ g.target = f.target /\ g.from = f.from
    BY <1>1, <2>1 DEF Fade
  <2>3. ~g.active /\ g.started = f.started /\ g.duration = f.duration
    BY <2>1 DEF Fade
  <2> QED BY <1>1, <1>4, <2>2, <2>3 DEF OnTheWay, Level
<1>5. CASE f.active /\ ~(e >= f.duration)
  <2> DEFINE q == Quotient((f.target - f.from) * e, f.duration)
  <2>1. g = [f EXCEPT !.applied = f.from + q]
    BY <1>5 DEF Advance
  <2>2. e < f.duration /\ f.duration \in Nat \ {0}
    BY <1>1, <1>2, <1>5
  <2>3. /\ f.target \in Nat /\ f.from \in Nat /\ LevelMax \in Nat
        /\ f.target <= LevelMax /\ f.from <= LevelMax
    BY <1>1 DEF Level
  <2>4. CASE f.target >= f.from
    <3> DEFINE a == f.target - f.from
    <3>1. a \in Nat
      BY <2>3, <2>4
    <3>2. (a * e) \div f.duration \in 0 .. a
      <4> HIDE DEF a, e
      <4> QED BY <1>2, <2>2, <3>1, Share
    <3>3. q \in 0 .. a
      <4>1. a * e >= 0
        BY <1>2, <3>1
      <4> QED BY <3>2, <4>1 DEF Quotient
    <3>4. f.from + q \in Level /\ f.from <= f.from + q /\ f.from + q <= f.target
      <4> HIDE DEF q
      <4> QED BY <2>3, <3>3 DEF Level
    <3> HIDE DEF q, g
    <3>5. g \in Fade /\ g.applied = f.from + q /\ g.target = f.target /\ g.from = f.from
      BY <1>1, <2>1, <3>4 DEF Fade
    <3>6. g.active = f.active /\ g.started = f.started /\ g.duration = f.duration
      BY <2>1 DEF Fade
    <3> QED BY <1>5, <2>2, <3>4, <3>5, <3>6 DEF OnTheWay, g
  <2>5. CASE f.target < f.from
    <3> DEFINE a == f.from - f.target
    <3>1. a \in Nat \ {0}
      BY <2>3, <2>5
    <3>2. (a * e) \div f.duration \in 0 .. a
      BY <1>2, <2>2, <3>1, Share
    <3>3. (f.target - f.from) * e = -(a * e) /\ a * e \in Nat
      BY <1>2, <2>3, <3>1
    <3>4. q = -((a * e) \div f.duration)
      <4>1. CASE a * e = 0
        <5>1. (f.target - f.from) * e = 0
          BY <3>3, <4>1
        <5>2. 0 \div f.duration = 0
          BY <2>2
        <5> QED BY <4>1, <5>1, <5>2 DEF Quotient
      <4>2. CASE a * e > 0
        <5> DEFINE n == (f.target - f.from) * e
        <5>1. ~(n >= 0) /\ -n = a * e
          BY <3>3, <4>2
        <5> HIDE DEF n
        <5>2. Quotient(n, f.duration) = -((a * e) \div f.duration)
          BY <5>1 DEF Quotient
        <5> QED BY <5>2 DEF n
      <4> QED BY <3>3, <4>1, <4>2
    <3>5. f.from + q \in Level /\ f.target <= f.from + q /\ f.from + q <= f.from
      <4> DEFINE s == (a * e) \div f.duration
      <4> HIDE DEF s
      <4>1. s \in 0 .. a /\ q = -s
        BY <3>2, <3>4 DEF s
      <4> HIDE DEF q
      <4> QED BY <2>3, <3>1, <4>1 DEF Level
    <3> HIDE DEF q, g
    <3>6. g \in Fade /\ g.applied = f.from + q /\ g.target = f.target /\ g.from = f.from
      BY <1>1, <2>1, <3>5 DEF Fade
    <3>7. g.active = f.active /\ g.started = f.started /\ g.duration = f.duration
      BY <2>1 DEF Fade
    <3> QED BY <1>5, <2>2, <3>5, <3>6, <3>7 DEF OnTheWay, g
  <2> QED BY <2>3, <2>4, <2>5
<1> QED BY <1>3, <1>4, <1>5

(* A new fade begins where the light is. *)
LEMMA RetargetStays ==
  ASSUME NEW f \in Fade, NEW l \in Level, NEW fade \in 0 .. Wrap \div 2, clock \in Nat
  PROVE  LET g == Retarget(f, l, fade)
         IN  /\ g \in Fade /\ OnTheWay(g) /\ g.target = l
             /\ g.active => /\ g.started = clock % Wrap /\ g.duration = fade
                            /\ fade # 0 /\ f.applied # l
             /\ ~g.active => g.applied = l
<1> DEFINE g == Retarget(f, l, fade)
<1>1. /\ Wrap \in Nat \ {0} /\ Wrap \div 2 \in Nat /\ 0 \in 0 .. Wrap \div 2
      /\ LevelMax \in Nat /\ f.applied \in Level
  BY DimmingAssumption DEF DimmingAssumption, Fade
<1>2. clock % Wrap \in 0 .. Wrap - 1
  BY <1>1
<1>3. CASE fade = 0 \/ f.applied = l
  <2>1. g = [f EXCEPT !.target = l, !.applied = l, !.from = l, !.duration = 0, !.active = FALSE]
    BY <1>3 DEF Retarget
  <2> HIDE DEF g
  <2>2. g \in Fade /\ g.target = l /\ g.applied = l /\ g.from = l
    BY <1>1, <2>1 DEF Fade
  <2>3. ~g.active
    BY <2>1 DEF Fade
  <2>4. g \in Fade /\ OnTheWay(g) /\ g.target = l /\ ~g.active /\ g.applied = l
    BY <1>1, <2>2, <2>3 DEF OnTheWay, Level
  <2> QED BY <2>4 DEF g
<1>4. CASE ~(fade = 0 \/ f.applied = l)
  <2>1. g = [f EXCEPT !.target = l, !.from = f.applied, !.started = clock % Wrap,
                      !.duration = fade, !.active = TRUE]
    BY <1>4 DEF Retarget
  <2> HIDE DEF g
  <2>2. /\ g \in Fade /\ g.target = l /\ g.applied = f.applied /\ g.from = f.applied
        /\ g.started = clock % Wrap /\ g.duration = fade
    BY <1>1, <1>2, <2>1 DEF Fade
  <2>3. g.active
    BY <2>1 DEF Fade
  <2>4. OnTheWay(g)
    BY <1>1, <2>2 DEF OnTheWay, Level
  <2> QED BY <1>4, <2>2, <2>3, <2>4 DEF g
<1> QED BY <1>3, <1>4

-------------------------------------------------------------------------------
(* The plan of a fade is the one that was last asked for. *)
Planned(c) ==
  /\ out[c].target = level[c]
  /\ ~out[c].active => out[c].applied = level[c]
  /\ out[c].active => out[c].started = asked[c].at % Wrap /\ out[c].duration = asked[c].fade

(* A fade that goes on was not over when the last round ended, so that its    *)
(* end is never a turn of the clock ago.                                      *)
InTime(c) ==
  out[c].active =>
    loopNow < asked[c].at + asked[c].fade + (IF stage = "top" THEN 0 ELSE Watchdog)

Clocks == loopNow <= clock /\ clock <= loopNow + Watchdog

Starting == stage \in {"load", "setup"} => \A c \in Channel : level[c] = 0

IInv ==
  /\ TypeOK /\ Clocks /\ Starting
  /\ \A c \in Channel : OnTheWay(out[c]) /\ Planned(c) /\ InTime(c)

LEMMA DarkIsPlanned ==
  Dark \in Fade /\ OnTheWay(Dark) /\ ~Dark.active /\ Dark.applied = 0 /\ Dark.target = 0
BY DimmingAssumption DEF DimmingAssumption, Dark, Fade, OnTheWay, Level

LEMMA InitIInv == Init => IInv
<1> SUFFICES ASSUME Init PROVE IInv
  OBVIOUS
<1> USE DimmingAssumption DEF DimmingAssumption
<1>1. 0 \in Level /\ 0 \in 0 .. Wrap \div 2
  BY DEF Level
<1>2. TypeOK
  BY <1>1, DarkIsPlanned DEF Init, TypeOK
<1>3. Clocks /\ Starting
  BY DEF Init, Clocks, Starting
<1>4. \A c \in Channel : OnTheWay(out[c]) /\ Planned(c) /\ InTime(c)
  BY DarkIsPlanned DEF Init, Planned, InTime
<1> QED BY <1>2, <1>3, <1>4 DEF IInv

(* A level is set, by a button or by Modbus. *)
LEMMA SetLevelKeeps ==
  ASSUME IInv, NEW c \in Channel, NEW l \in Level, NEW fade \in 0 .. Wrap \div 2,
         SetLevel(c, l, fade), l = level[c] => fade = 0,
         stage \in {"poll", "inputs"}, stage' \in {"inputs", "output"}
  PROVE  IInv'
<1> DEFINE t == clock % Wrap
           adv == [d \in Channel |-> Advance(out[d], t)]
<1>1. /\ Wrap \in Nat \ {0} /\ clock \in Nat /\ loopNow \in Nat /\ t \in 0 .. Wrap - 1
      /\ Wrap \div 2 \in Nat /\ 0 \in 0 .. Wrap \div 2 /\ Watchdog \in Nat
  BY DimmingAssumption DEF DimmingAssumption, IInv, TypeOK
<1>2. /\ level' = [level EXCEPT ![c] = l]
      /\ out' = [adv EXCEPT ![c] = Retarget(@, l, fade)]
      /\ asked' = IF l = level[c] THEN asked
                  ELSE [asked EXCEPT ![c] = [at |-> clock, fade |-> IF adv[c].applied = l THEN 0 ELSE fade]]
      /\ UNCHANGED <<clock, loopNow, cfg, zone>>
  BY DEF SetLevel
<1> HIDE DEF t
<1>3. \A d \in Channel : LET f == out[d] g == adv[d] IN
        /\ f \in Fade /\ g \in Fade /\ OnTheWay(g)
        /\ g.target = f.target /\ g.started = f.started /\ g.duration = f.duration
        /\ g.active => f.active
        /\ ~g.active => (f.active /\ g.applied = f.target) \/ (~f.active /\ g = f)
  BY <1>1, AdvanceStays DEF IInv, TypeOK
<1> DEFINE r == Retarget(adv[c], l, fade)
<1>4. /\ r \in Fade /\ OnTheWay(r) /\ r.target = l
      /\ r.active => /\ r.started = t /\ r.duration = fade /\ fade # 0 /\ adv[c].applied # l
      /\ ~r.active => r.applied = l
  BY <1>1, <1>3, RetargetStays DEF t
<1>5. /\ out'[c] = r
      /\ \A d \in Channel \ {c} : out'[d] = adv[d]
      /\ out' \in [Channel -> Fade]
  BY <1>2, <1>3, <1>4
<1> HIDE DEF adv, r
<1>6. /\ asked' \in [Channel -> [at : Nat, fade : 0 .. Wrap \div 2]]
      /\ \A d \in Channel \ {c} : asked'[d] = asked[d] /\ level'[d] = level[d]
      /\ level'[c] = l /\ level' \in [Channel -> Level]
      /\ r.active => asked'[c].at = clock /\ asked'[c].fade = fade
  BY <1>1, <1>2, <1>4 DEF IInv, TypeOK
<1>7. TypeOK' /\ Clocks' /\ Starting'
  BY <1>1, <1>2, <1>5, <1>6 DEF IInv, TypeOK, Clocks, Starting
<1>8. ASSUME NEW d \in Channel \ {c} PROVE OnTheWay(out'[d]) /\ Planned(d)' /\ InTime(d)'
  BY <1>2, <1>3, <1>5, <1>6, <1>8 DEF IInv, Planned, InTime
<1>9. OnTheWay(out'[c]) /\ Planned(c)'
  BY <1>4, <1>5, <1>6 DEF Planned, t
<1>10. InTime(c)'
  BY <1>1, <1>2, <1>4, <1>5, <1>6 DEF InTime, IInv, Clocks
<1> QED BY <1>7, <1>8, <1>9, <1>10 DEF IInv

(* The round ends: a fade whose time is over by the instant the round began   *)
(* with is ended, since less than a turn of the clock has gone by.            *)
LEMMA PollKeeps ==
  ASSUME IInv, dimming_poll
  PROVE  IInv'
<1> DEFINE t == loopNow % Wrap
           adv == [c \in Channel |-> Advance(out[c], t)]
<1>1. /\ Wrap \in Nat \ {0} /\ clock \in Nat /\ loopNow \in Nat /\ t \in 0 .. Wrap - 1
      /\ Wrap \div 2 \in Nat /\ Watchdog \in Nat /\ Wrap \div 2 + Watchdog < Wrap
  BY DimmingAssumption DEF DimmingAssumption, IInv, TypeOK
<1>2. /\ stage = "output" /\ stage' = "top"
      /\ out' = [c \in Channel |-> IF adv[c].active THEN adv[c]
                                   ELSE [adv[c] EXCEPT !.applied = adv[c].target]]
      /\ UNCHANGED <<clock, loopNow, cfg, level, zone, asked>>
  BY DEF dimming_poll
<1> HIDE DEF t
<1>3. \A c \in Channel : LET f == out[c] g == adv[c] IN
        /\ f \in Fade /\ g \in Fade /\ OnTheWay(g)
        /\ g.target = f.target /\ g.started = f.started /\ g.duration = f.duration
        /\ g.active => f.active /\ Elapsed(f, t) < f.duration
        /\ ~g.active => (f.active /\ g.applied = f.target) \/ (~f.active /\ g = f)
  BY <1>1, AdvanceStays DEF IInv, TypeOK
<1> HIDE DEF adv
<1>4. \A c \in Channel : ~adv[c].active => adv[c].applied = adv[c].target
  BY <1>3 DEF IInv, Planned
<1>5. \A c \in Channel : out'[c] = adv[c]
  <2> SUFFICES ASSUME NEW c \in Channel, ~adv[c].active
               PROVE  [adv[c] EXCEPT !.applied = adv[c].target] = adv[c]
    BY <1>2
  <2> QED BY <1>3, <1>4 DEF Fade
<1>6. TypeOK' /\ Clocks' /\ Starting'
  <2>1. out' \in [Channel -> Fade]
    BY <1>2, <1>3, <1>5
  <2> QED BY <1>1, <1>2, <2>1 DEF IInv, TypeOK, Clocks, Starting
<1>7. ASSUME NEW c \in Channel PROVE OnTheWay(out'[c]) /\ Planned(c)'
  BY <1>2, <1>3, <1>4, <1>5 DEF IInv, Planned
<1>8. ASSUME NEW c \in Channel PROVE InTime(c)'
  <2> SUFFICES ASSUME adv[c].active, asked[c].at + asked[c].fade <= loopNow PROVE FALSE
    BY <1>1, <1>2, <1>5 DEF InTime, IInv, TypeOK
  <2>1. /\ out[c].active /\ Elapsed(out[c], t) < out[c].duration
        /\ out[c].started = asked[c].at % Wrap /\ out[c].duration = asked[c].fade
    BY <1>3 DEF IInv, Planned
  <2>2. /\ asked[c].at \in Nat /\ asked[c].fade \in 0 .. Wrap \div 2
        /\ loopNow < asked[c].at + asked[c].fade + Watchdog
    BY <1>2, <2>1 DEF IInv, TypeOK, InTime
  <2>3. asked[c].at <= loopNow /\ loopNow - asked[c].at < Wrap
    BY <1>1, <2>2
  <2>4. Elapsed(out[c], t) = ((loopNow % Wrap) + Wrap - (asked[c].at % Wrap)) % Wrap
    BY <2>1 DEF Elapsed, t
  <2>5. Elapsed(out[c], t) = loopNow - asked[c].at
    BY <1>1, <2>2, <2>3, <2>4, ClockDistance
  <2> QED BY <1>1, <2>1, <2>2, <2>5
<1> QED BY <1>6, <1>7, <1>8 DEF IInv

LEMMA StepKeepsIInv == IInv /\ [Next]_vars => IInv'
<1> SUFFICES ASSUME IInv, [Next]_vars PROVE IInv'
  OBVIOUS
<1>0. 0 \in 0 .. Wrap \div 2 /\ 0 \in Level
  BY DimmingAssumption DEF DimmingAssumption, Level
<1>a. \A c \in Channel, l \in Level : TransitionFade(c, l) \in 0 .. Wrap \div 2
  BY <1>0, DimmingAssumption DEF DimmingAssumption, TransitionFade, IInv, TypeOK
<1>b. \A c \in Channel : TransitionFade(c, level[c]) = 0
  BY DEF TransitionFade
<1>1. CASE Load
  BY <1>1 DEF Load, IInv, TypeOK, Clocks, Starting, Planned, InTime
<1>2. CASE Setup
  <2>1. out' = [c \in Channel |-> Dark] /\ level' = level /\ (\A c \in Channel : level[c] = 0)
    BY <1>2 DEF Setup, IInv, Starting
  <2>2. \A c \in Channel : OnTheWay(out'[c]) /\ Planned(c)' /\ InTime(c)'
    BY <2>1, DarkIsPlanned DEF Planned, InTime
  <2>3. TypeOK'
    BY <1>2, <2>1, DarkIsPlanned DEF Setup, IInv, TypeOK
  <2> QED BY <1>2, <2>2, <2>3 DEF Setup, IInv, Clocks, Starting
<1>3. CASE LoopBegins
  <2>1. \A c \in Channel : InTime(c)'
    <3> SUFFICES ASSUME NEW c \in Channel, out[c].active
                 PROVE  clock < asked[c].at + asked[c].fade + Watchdog
      BY <1>3 DEF LoopBegins, InTime
    <3>1. /\ loopNow < asked[c].at + asked[c].fade /\ clock <= loopNow + Watchdog
          /\ asked[c].at \in Nat /\ asked[c].fade \in Nat /\ loopNow \in Nat /\ clock \in Nat
          /\ Watchdog \in Nat
      BY <1>3, DimmingAssumption DEF DimmingAssumption, LoopBegins, IInv, TypeOK, InTime, Clocks
    <3> QED BY <3>1
  <2>2. Clocks'
    BY <1>3, DimmingAssumption DEF DimmingAssumption, LoopBegins, IInv, TypeOK, Clocks
  <2> QED BY <1>3, <2>1, <2>2 DEF LoopBegins, IInv, TypeOK, Starting, Planned
<1>4. ASSUME NEW c \in Channel, NEW l \in Level, PollWrite(c, l) PROVE IInv'
  BY <1>4, <1>a, <1>b, SetLevelKeeps DEF PollWrite
<1>5. ASSUME NEW c \in Channel, NEW l \in Level, Button(c, l) PROVE IInv'
  <2>1. /\ stage = "inputs" /\ l # level[c]
        /\ \E fade \in 0 .. Wrap \div 2 : SetLevel(c, l, fade)
    BY <1>0, <1>5, <1>a DEF Button
  <2> QED BY <1>5, <2>1, SetLevelKeeps DEF Button
<1>6. ASSUME NEW k \in Settings, PollConfig(k) PROVE IInv'
  BY <1>6 DEF PollConfig, IInv, TypeOK, Clocks, Starting, Planned, InTime
<1>7. CASE PollNothing \/ NoButton
  BY <1>7 DEF PollNothing, NoButton, IInv, TypeOK, Clocks, Starting, Planned, InTime
<1>8. CASE dimming_poll
  BY <1>8, PollKeeps
<1>9. CASE SysTick
  <2>1. Clocks' /\ clock' \in Nat
    BY <1>9, DimmingAssumption DEF DimmingAssumption, SysTick, IInv, TypeOK, Clocks
  <2> QED BY <1>9, <2>1 DEF SysTick, IInv, TypeOK, Starting, Planned, InTime
<1>10. CASE UNCHANGED vars
  BY <1>10 DEF vars, IInv, TypeOK, Clocks, Starting, Planned, InTime
<1> QED
  BY <1>1, <1>2, <1>3, <1>4, <1>5, <1>6, <1>7, <1>8, <1>9, <1>10 DEF Next

THEOREM DimmingInvariant == Spec => []IInv
BY InitIInv, StepKeepsIInv, PTL DEF Spec

(* Levels, fades and instants stay in their ranges, the started instant on    *)
(* the wrapping clock.                                                        *)
THEOREM DimmingTypes == Spec => []TypeOK
<1>1. IInv => TypeOK
  BY DEF IInv
<1> QED BY <1>1, DimmingInvariant, PTL

(* However often a fade is turned round, for whatever levels and times, the   *)
(* light never leaves the interval the fade runs over: no rounding of         *)
(* advance_fades overshoots.                                                  *)
THEOREM NeverOvershoots == Spec => []Between
<1>1. IInv => Between
  BY DEF IInv, Between, OnTheWay
<1> QED BY <1>1, DimmingInvariant, PTL

(* A fade is over when its time is, however often the clock wraps, as long as *)
(* the loop comes round within the time of the watchdog.                      *)
THEOREM FadesEnd == Spec => []FadeIsDone
<1>1. IInv => FadeIsDone
  <2> SUFFICES ASSUME IInv, stage = "top", NEW c \in Channel, loopNow >= asked[c].at + asked[c].fade
               PROVE  out[c].applied = level[c]
    BY DEF FadeIsDone
  <2>1. ~out[c].active
    <3>1. asked[c].at \in Nat /\ asked[c].fade \in Nat /\ loopNow \in Nat
      BY DimmingAssumption DEF DimmingAssumption, IInv, TypeOK
    <3> QED BY <3>1 DEF IInv, InTime
  <2> QED BY <2>1 DEF IInv, Planned
<1> QED BY <1>1, DimmingInvariant, PTL
===============================================================================
