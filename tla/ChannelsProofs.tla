---------------------------- MODULE ChannelsProofs ----------------------------
(* What holds of the channel runtime, alone and with the buttons in the loop, *)
(* for every scale, clock width, number of channels, set of configurations,   *)
(* list of bindings and order of events.                                      *)
EXTENDS Buttons, TLAPS, WellFoundedInduction

-------------------------------------------------------------------------------
(* The conversions stay on their scales. *)
LEMMA ConversionRange ==
  /\ \A p \in Percent : PercentToLevel(p) \in Level /\ (PercentToLevel(p) = 0 <=> p = 0)
  /\ \A l \in Level : LevelToPercent(l) \in Percent /\ (LevelToPercent(l) = 0 <=> l = 0)
<1>1. ASSUME NEW p \in Percent
      PROVE  PercentToLevel(p) \in Level /\ (PercentToLevel(p) = 0 <=> p = 0)
  BY ScaleAssumption, SMT DEF Percent, Level, PercentToLevel
<1>2. ASSUME NEW l \in Level
      PROVE  LevelToPercent(l) \in Percent /\ (LevelToPercent(l) = 0 <=> l = 0)
  BY ScaleAssumption, SMT DEF Percent, Level, LevelToPercent
<1> QED BY <1>1, <1>2

(* A percent written through HR 45..48 or HR 54 survives the detour over the  *)
(* level scale, on every scale with at least as many levels as percents; the  *)
(* stored percent_setpoint and the recomputed one can never disagree.         *)
THEOREM PercentRoundTrip == \A p \in Percent : LevelToPercent(PercentToLevel(p)) = p
BY ScaleAssumption, SMT DEF Percent, LevelToPercent, PercentToLevel

(* The full scale means the same on both sides. *)
LEMMA FullScale == LevelToPercent(LevelMax) = PercentMax /\ LevelMax \in Level \ {0}
BY ScaleAssumption, SMT DEF Level, LevelToPercent

-------------------------------------------------------------------------------
(* What every command leaves in a channel it sets to level l. *)
Plain(s)   == s.level = 0 => ~s.auto /\ ~s.night
Rounded(s) == s.level # 0 => s.percent = LevelToPercent(s.level)

(* apply_level sets the level asked for, leaves auto-light and keeps a channel
   well formed. *)
LEMMA ApplyLevel ==
  ASSUME NEW s \in ChannelState, NEW l \in Level, cfg \in Settings, now \in Time
  PROVE  LET t == apply_level(s, l)
         IN  t \in ChannelState /\ Plain(t) /\ Rounded(t) /\ t.level = l /\ ~t.auto
<1> DEFINE t == apply_level(s, l)
           u == IF s.level # 0 /\ cfg.suppress # 0 THEN (timebase + cfg.suppress) % Wrap ELSE s.until
           r == IF s.auto THEN s ELSE remember_nonzero(s)
<1>1. u \in 0 .. Wrap - 1
  BY ChannelsAssumption, SMT DEF ChannelState, timebase, Time
<1>2. r \in ChannelState /\ r.until = s.until
  BY DEF remember_nonzero, ChannelState
<1>3. 0 \in Level /\ 0 \in Percent
  BY ScaleAssumption DEF Level, Percent
<1>4. CASE l = 0
  <2>1. t = [r EXCEPT !.level = 0, !.percent = 0, !.auto = FALSE, !.night = FALSE, !.until = u]
    BY <1>2, <1>4 DEF apply_level
  <2> QED BY <1>1, <1>2, <1>3, <1>4, <2>1 DEF ChannelState, Plain, Rounded
<1>5. CASE l # 0
  <2>1. t = [s EXCEPT !.level = l, !.percent = LevelToPercent(l), !.auto = FALSE]
    BY <1>5 DEF apply_level
  <2>2. t \in ChannelState
    BY <2>1, ConversionRange DEF ChannelState
  <2>3. t.level = l /\ t.percent = LevelToPercent(l) /\ t.auto = FALSE
    BY <2>1 DEF ChannelState
  <2> QED BY <1>5, <2>2, <2>3 DEF Plain, Rounded
<1> QED BY <1>4, <1>5

(* apply_auto_level sets the level it is asked for unless it is ignored, keeps a
   channel well formed and never touches the remembered level. *)
LEMMA ApplyAutoLevel ==
  ASSUME NEW s \in ChannelState, NEW l \in Level, Plain(s), Rounded(s)
  PROVE  LET t == apply_auto_level(s, l)
         IN  /\ t \in ChannelState /\ Plain(t) /\ Rounded(t)
             /\ t.level = IF AutoIgnored(s, l) THEN s.level ELSE l
             /\ t.last = s.last
             /\ t.auto = IF AutoIgnored(s, l) THEN s.auto ELSE l # 0
<1> DEFINE a == IF l = 0 THEN [s EXCEPT !.until = 0] ELSE s
           t == apply_auto_level(s, l)
<1>1. a \in ChannelState /\ a.level = s.level /\ a.auto = s.auto /\ a.last = s.last
      /\ a.percent = s.percent /\ a.night = s.night
  BY ChannelsAssumption DEF ChannelState
<1>2. CASE AutoIgnored(s, l)
  <2>1. t = a
    BY <1>2 DEF apply_auto_level
  <2> QED BY <1>1, <1>2, <2>1 DEF Plain, Rounded
<1>3. CASE ~AutoIgnored(s, l)
  <2>1. t = [a EXCEPT !.level = l, !.percent = LevelToPercent(l), !.auto = l # 0, !.night = FALSE]
    BY <1>3 DEF apply_auto_level
  <2>2. t \in ChannelState
    BY <1>1, <2>1, ConversionRange DEF ChannelState
  <2>3. t.level = l /\ t.auto = (l # 0) /\ t.night = FALSE /\ t.last = s.last /\ t.percent = LevelToPercent(l)
    BY <1>1, <2>1 DEF ChannelState
  <2> QED BY <1>3, <2>2, <2>3 DEF Plain, Rounded
<1> QED BY <1>2, <1>3

-------------------------------------------------------------------------------
(* The inductive invariant: besides the types, everything said of one channel *)
(* at a time.                                                                 *)
IInv == ChannelsTypeOK /\ DarkIsPlain /\ PercentMatchesLevel /\ OutputFollowsLevel /\ ManualWins

(* An ordinary command keeps it if it leaves each channel it addresses at the *)
(* level it names, plain, rounded and no longer under auto-light.             *)
LEMMA ManualKeeps ==
  ASSUME IInv,
         NEW C \in SUBSET Channel, NEW new \in [C -> ChannelState], NEW asked \in [C -> Level],
         \A c \in C : /\ Plain(new[c]) /\ Rounded(new[c])
                      /\ new[c].level = asked[c] /\ ~new[c].auto,
         Manual(new, asked)
  PROVE  IInv'
<1>1. DOMAIN new = C
  OBVIOUS
<1>2. /\ ch' = [c \in Channel |-> IF c \in C THEN new[c] ELSE ch[c]]
      /\ output' = [c \in Channel |-> IF c \in C THEN new[c].level ELSE output[c]]
      /\ manual' = [c \in Channel |-> IF c \in C THEN asked[c] ELSE manual[c]]
      /\ cfg' = cfg /\ now' = now
  BY <1>1 DEF Manual
<1>3. quiet' \in [Channel -> Time]
  <2>1. quiet' = [c \in Channel |->
           IF c \in C /\ ch[c].level # 0 /\ asked[c] = 0 /\ cfg.suppress # 0
           THEN now + cfg.suppress ELSE quiet[c]]
    BY <1>1 DEF Manual
  <2>2. now + cfg.suppress \in Time
    BY ChannelsAssumption DEF IInv, ChannelsTypeOK, Time
  <2> QED BY <2>1, <2>2 DEF IInv, ChannelsTypeOK
<1>4. ch' \in [Channel -> ChannelState] /\ manual' \in [Channel -> Level]
  BY <1>2 DEF IInv, ChannelsTypeOK
<1>5. output' \in [Channel -> Level]
  BY <1>2 DEF IInv, ChannelsTypeOK, ChannelState
<1>6. ChannelsTypeOK'
  BY <1>2, <1>3, <1>4, <1>5 DEF IInv, ChannelsTypeOK
<1>7. DarkIsPlain' /\ PercentMatchesLevel'
  BY <1>2 DEF IInv, DarkIsPlain, PercentMatchesLevel, Plain, Rounded
<1>8. OutputFollowsLevel' /\ ManualWins'
  BY <1>2 DEF IInv, OutputFollowsLevel, ManualWins
<1> QED BY <1>6, <1>7, <1>8 DEF IInv

(* Every register addresses channels that exist. *)
LEMMA TargetIsChannels == \A C \in Target : C \subseteq Channel
BY DEF Target

(* The inductive invariant holds at start-up. *)
LEMMA InitIInv == ChannelsInit => IInv
<1> SUFFICES ASSUME ChannelsInit PROVE IInv
  OBVIOUS
<1>1. 0 \in Level /\ PercentMax \in Percent /\ 0 \in 0 .. Wrap - 1 /\ 0 \in Time
  BY ScaleAssumption, ChannelsAssumption DEF Level, Percent, Time
<1>2. \A c \in Channel : ch[c] = [level |-> 0, percent |-> PercentMax, last |-> 0,
                                  auto |-> FALSE, night |-> FALSE, until |-> 0]
  BY DEF ChannelsInit
<1>3. ch \in [Channel -> ChannelState]
  BY <1>1 DEF ChannelsInit, ChannelState
<1>4. ChannelsTypeOK
  BY <1>1, <1>3, ChannelsAssumption DEF ChannelsInit, ChannelsTypeOK, Never
<1>5. DarkIsPlain /\ PercentMatchesLevel /\ OutputFollowsLevel /\ ManualWins
  BY <1>2 DEF ChannelsInit, DarkIsPlain, PercentMatchesLevel, OutputFollowsLevel, ManualWins
<1> QED BY <1>4, <1>5 DEF IInv

(* Every register write, config write and tick keeps the inductive invariant. *)
LEMMA NextIInv == IInv /\ [ChannelsNext]_chVars => IInv'
<1> SUFFICES ASSUME IInv, [ChannelsNext]_chVars PROVE IInv'
  OBVIOUS
<1>0. /\ cfg \in Settings /\ now \in Time /\ ch \in [Channel -> ChannelState]
      /\ \A c \in Channel : ch[c] \in ChannelState /\ Plain(ch[c]) /\ Rounded(ch[c])
  BY DEF IInv, ChannelsTypeOK, DarkIsPlain, PercentMatchesLevel, Plain, Rounded
<1>1. ASSUME NEW C \in Target, NEW l \in Level, SetLevel(C, l) PROVE IInv'
  <2> DEFINE new == [c \in C |-> apply_level(ch[c], l)]
             asked == [c \in C |-> l]
  <2>1. C \in SUBSET Channel
    BY TargetIsChannels
  <2>2. \A c \in C : LET t == apply_level(ch[c], l)
                     IN t \in ChannelState /\ Plain(t) /\ Rounded(t) /\ t.level = l /\ ~t.auto
    BY <1>0, <2>1, ApplyLevel
  <2>3. new \in [C -> ChannelState] /\ asked \in [C -> Level] /\ Manual(new, asked)
    BY <1>1, <2>2 DEF SetLevel
  <2>4. \A c \in C : /\ Plain(new[c]) /\ Rounded(new[c])
                     /\ new[c].level = asked[c] /\ ~new[c].auto
    BY <2>2
  <2> HIDE DEF new, asked
  <2> QED BY <2>1, <2>3, <2>4, ManualKeeps
<1>2. ASSUME NEW C \in Target, NEW p \in Percent, SetPercent(C, p) PROVE IInv'
  <2> DEFINE l == PercentToLevel(p)
             new == [c \in C |-> [apply_level(ch[c], l) EXCEPT !.percent = p]]
             asked == [c \in C |-> l]
  <2>1. C \in SUBSET Channel /\ l \in Level /\ LevelToPercent(l) = p
    BY TargetIsChannels, ConversionRange, PercentRoundTrip
  <2>2. \A c \in C : LET t == apply_level(ch[c], l)
                     IN t \in ChannelState /\ Plain(t) /\ Rounded(t) /\ t.level = l /\ ~t.auto
    BY <1>0, <2>1, ApplyLevel
  <2>3. Manual(new, asked)
    BY <1>2 DEF SetPercent
  <2> HIDE DEF l
  <2>4. \A c \in C : /\ new[c] \in ChannelState /\ Plain(new[c]) /\ Rounded(new[c])
                     /\ new[c].level = asked[c] /\ ~new[c].auto
    BY <2>1, <2>2 DEF ChannelState, Plain, Rounded
  <2>5. new \in [C -> ChannelState] /\ asked \in [C -> Level]
    BY <2>1, <2>4
  <2> HIDE DEF new, asked
  <2> QED BY <2>1, <2>3, <2>4, <2>5, ManualKeeps
<1>3. ASSUME NEW C \in Target, SwitchOn(C) PROVE IInv'
  <2> DEFINE l == [c \in C |-> IF ch[c].level = 0 THEN LevelMax ELSE ch[c].level]
             new == [c \in C |-> [apply_level(ch[c], l[c]) EXCEPT
                                    !.percent = IF ch[c].level = 0 THEN PercentMax ELSE @]]
  <2>1. C \in SUBSET Channel /\ l \in [C -> Level]
    BY <1>0, TargetIsChannels, FullScale DEF ChannelState
  <2>2. \A c \in C : LET t == apply_level(ch[c], l[c])
                     IN t \in ChannelState /\ Plain(t) /\ Rounded(t) /\ t.level = l[c] /\ ~t.auto
    BY <1>0, <2>1, ApplyLevel
  <2>3. Manual(new, l)
    BY <1>3 DEF SwitchOn
  <2>4. \A c \in C : ch[c].level = 0 => l[c] = LevelMax
    OBVIOUS
  <2> HIDE DEF l
  <2>5. \A c \in C : /\ new[c] \in ChannelState /\ Plain(new[c]) /\ Rounded(new[c])
                     /\ new[c].level = l[c] /\ ~new[c].auto
    <3> SUFFICES ASSUME NEW c \in C
                 PROVE  /\ new[c] \in ChannelState /\ Plain(new[c]) /\ Rounded(new[c])
                        /\ new[c].level = l[c] /\ ~new[c].auto
      OBVIOUS
    <3>1. PercentMax \in Percent
      BY ScaleAssumption DEF Percent
    <3> QED BY <2>2, <2>4, <3>1, FullScale DEF ChannelState, Plain, Rounded
  <2>6. new \in [C -> ChannelState]
    BY <2>5
  <2> HIDE DEF new
  <2> QED BY <2>1, <2>3, <2>5, <2>6, ManualKeeps
<1>4. ASSUME NEW c \in Channel, NEW l \in Level, SetAutoLevel(c, l) PROVE IInv'
  <2> DEFINE t == apply_auto_level(ch[c], l)
  <2>1. /\ t \in ChannelState /\ Plain(t) /\ Rounded(t)
        /\ t.level = IF AutoIgnored(ch[c], l) THEN ch[c].level ELSE l
        /\ t.auto = IF AutoIgnored(ch[c], l) THEN ch[c].auto ELSE l # 0
    BY <1>0, ApplyAutoLevel
  <2> HIDE DEF t
  <2>2. /\ ch' = [ch EXCEPT ![c] = t]
        /\ output' = IF AutoIgnored(ch[c], l) THEN output ELSE [output EXCEPT ![c] = l]
        /\ cfg' = cfg /\ now' = now /\ manual' = manual
        /\ quiet' = IF l = 0 THEN [quiet EXCEPT ![c] = Never] ELSE quiet
    BY <1>4 DEF SetAutoLevel, t
  <2>3. ChannelsTypeOK'
    BY <2>1, <2>2 DEF IInv, ChannelsTypeOK, Never, Time
  <2>4. DarkIsPlain' /\ PercentMatchesLevel'
    BY <2>1, <2>2 DEF IInv, ChannelsTypeOK, DarkIsPlain, PercentMatchesLevel, Plain, Rounded
  <2>5. OutputFollowsLevel'
    BY <2>1, <2>2 DEF IInv, ChannelsTypeOK, OutputFollowsLevel
  <2>6. /\ manual[c] # 0 => t.level = manual[c] /\ ~t.auto
        /\ manual[c] = 0 => (t.level # 0 <=> t.auto)
    BY <2>1 DEF IInv, ManualWins, AutoIgnored
  <2>7. ManualWins'
    BY <2>2, <2>6 DEF IInv, ChannelsTypeOK, ManualWins
  <2> QED BY <2>3, <2>4, <2>5, <2>7 DEF IInv
<1>5. ASSUME NEW k \in Settings, SetConfig(k) PROVE IInv'
  <2>1. /\ ch' = [c \in Channel |-> IF ch[c].level = 0 THEN ch[c]
                              ELSE [ch[c] EXCEPT !.percent = LevelToPercent(ch[c].level)]]
        /\ cfg' = k /\ UNCHANGED <<output, now, manual, quiet>>
    BY <1>5 DEF SetConfig
  <2>2. \A c \in Channel : /\ ch'[c] \in ChannelState /\ ch'[c].level = ch[c].level
                           /\ ch'[c].auto = ch[c].auto /\ ch'[c].night = ch[c].night
                           /\ ch[c].level # 0 => ch'[c].percent = LevelToPercent(ch[c].level)
    BY <1>0, <2>1, ConversionRange DEF ChannelState
  <2>3. ChannelsTypeOK'
    BY <2>1, <2>2 DEF IInv, ChannelsTypeOK
  <2> QED BY <2>1, <2>2, <2>3
          DEF IInv, DarkIsPlain, PercentMatchesLevel, OutputFollowsLevel, ManualWins
<1>6. ASSUME Elapse PROVE IInv'
  <2>1. now' \in Time /\ UNCHANGED <<ch, cfg, output, manual, quiet>>
    BY <1>0, <1>6 DEF Elapse, Time
  <2> QED BY <2>1 DEF IInv, ChannelsTypeOK, DarkIsPlain, PercentMatchesLevel, OutputFollowsLevel,
          ManualWins
<1>7. CASE UNCHANGED chVars
  BY <1>7 DEF chVars, IInv, ChannelsTypeOK, DarkIsPlain, PercentMatchesLevel, OutputFollowsLevel,
     ManualWins
<1>8. ASSUME NEW C \in Target, SwitchOff(C) PROVE IInv'
  BY <1>1, <1>8, ScaleAssumption DEF SwitchOff, Level
<1>9. ASSUME NEW c \in Channel, NEW p \in Percent, SetAutoPercent(c, p) PROVE IInv'
  BY <1>4, <1>9, ConversionRange DEF SetAutoPercent
<1> QED
  BY <1>1, <1>2, <1>3, <1>4, <1>5, <1>6, <1>7, <1>8, <1>9 DEF ChannelsNext, ModbusWrite

(* Types are correct in every reachable state. *)
THEOREM ChannelsTypes == ChannelsSpec => []ChannelsTypeOK
<1>1. IInv => ChannelsTypeOK BY DEF IInv
<1> QED BY InitIInv, NextIInv, <1>1, PTL DEF ChannelsSpec

(* Auto-light never moves a channel that an ordinary command has lit. *)
THEOREM ManualAlwaysWins == ChannelsSpec => []ManualWins
<1>1. IInv => ManualWins BY DEF IInv
<1> QED BY InitIInv, NextIInv, <1>1, PTL DEF ChannelsSpec

(* The three views of a channel agree: registers, percent and output layer. *)
THEOREM ViewsAgree == ChannelsSpec => [](PercentMatchesLevel /\ OutputFollowsLevel /\ DarkIsPlain)
<1>1. IInv => PercentMatchesLevel /\ OutputFollowsLevel /\ DarkIsPlain BY DEF IInv
<1> QED BY InitIInv, NextIInv, <1>1, PTL DEF ChannelsSpec

-------------------------------------------------------------------------------
(* The distance of two instants less than a clock width apart can be read off *)
(* the wrapping clock.                                                        *)
LEMMA ClockDistance ==
  ASSUME NEW q \in Nat, NEW n \in Nat, n < q, q - n < Wrap
  PROVE  ((q % Wrap) + Wrap - (n % Wrap)) % Wrap = q - n
<1> DEFINE x == q % Wrap
           y == n % Wrap
           a == q \div Wrap
           b == n \div Wrap
<1>1. /\ Wrap \in Nat \ {0} /\ x \in 0 .. Wrap - 1 /\ y \in 0 .. Wrap - 1
      /\ a \in Nat /\ b \in Nat /\ q = a * Wrap + x /\ n = b * Wrap + y
  BY ChannelsAssumption
<1> HIDE DEF x, y, a, b
<1>2. a = b \/ a = b + 1
  <2>1. CASE a < b
    <3>1. a * Wrap + Wrap <= b * Wrap
      BY <1>1, <2>1
    <3> QED BY <1>1, <3>1
  <2>2. CASE a > b + 1
    <3>1. b * Wrap + Wrap + Wrap <= a * Wrap
      <4>1. PICK k \in Nat : a = b + 2 + k
        BY <1>1, <2>2
      <4>2. a * Wrap = b * Wrap + 2 * Wrap + k * Wrap /\ k * Wrap \in Nat
        BY <1>1, <4>1
      <4> QED BY <1>1, <4>2
    <3> QED BY <1>1, <3>1
  <2> QED BY <1>1, <2>1, <2>2
<1>3. x + Wrap - y = q - n \/ x + Wrap - y = q - n + Wrap
  BY <1>1, <1>2
<1>4. (x + Wrap - y) % Wrap = q - n
  BY <1>1, <1>3
<1> QED BY <1>4 DEF x, y

(* Reducing the first summand does not change a sum modulo W. *)
LEMMA ModAdd ==
  ASSUME NEW W \in Nat \ {0}, NEW n \in Nat, NEW k \in Nat
  PROVE  ((n % W) + k) % W = (n + k) % W
<1> DEFINE a == n \div W
           y == n % W
           b == (y + k) \div W
           z == (y + k) % W
<1>1. a \in Nat /\ y \in 0 .. W - 1 /\ n = a * W + y
  OBVIOUS
<1> HIDE DEF a, y
<1>2. b \in Nat /\ z \in 0 .. W - 1 /\ y + k = b * W + z
  BY <1>1
<1> HIDE DEF b, z
<1>3. n + k = (a + b) * W + z
  BY <1>1, <1>2
<1>4. (n + k) % W = z
  <2>1. a + b \in Nat /\ W \in Nat \ {0} /\ z \in 0 .. W - 1
    BY <1>1, <1>2
  <2>2. \A m \in Nat : (m * W + z) % W = z
    BY <2>1
  <2> QED BY <1>3, <2>1, <2>2
<1> QED BY <1>4 DEF z, y

(* What keeps auto-light off: until is the end of the quiet time on the       *)
(* wrapping clock, less than half a clock width away as long as it runs.      *)
QuietStored ==
  \A c \in Channel :
     /\ ch[c].until = quiet[c] % Wrap
     /\ now < quiet[c] => quiet[c] - now <= Wrap \div 2 - 1

(* What the two ways of setting a level do to the suppression instant. *)
LEMMA UntilAfter ==
  ASSUME NEW s \in ChannelState, NEW l \in Level
  PROVE  /\ apply_level(s, l).until =
              IF l = 0 /\ s.level # 0 /\ cfg.suppress # 0
              THEN (timebase + cfg.suppress) % Wrap ELSE s.until
         /\ apply_auto_level(s, l).until = IF l = 0 THEN 0 ELSE s.until
BY DEF apply_level, apply_auto_level, remember_nonzero, ChannelState

(* An ordinary level write keeps QuietStored. *)
LEMMA QuietManual ==
  ASSUME ChannelsTypeOK, QuietStored,
         NEW C \in SUBSET Channel, NEW new, NEW asked \in [C -> Level], DOMAIN new = C,
         \A c \in C : new[c].until = apply_level(ch[c], asked[c]).until,
         Manual(new, asked)
  PROVE  QuietStored'
<1>1. /\ ch' = [c \in Channel |-> IF c \in C THEN new[c] ELSE ch[c]]
      /\ now' = now
      /\ quiet' = [c \in Channel |->
           IF c \in C /\ ch[c].level # 0 /\ asked[c] = 0 /\ cfg.suppress # 0
           THEN now + cfg.suppress ELSE quiet[c]]
  BY DEF Manual
<1>2. SUFFICES ASSUME NEW c \in Channel
               PROVE  /\ ch'[c].until = quiet'[c] % Wrap
                      /\ now < quiet'[c] => quiet'[c] - now <= Wrap \div 2 - 1
  BY <1>1 DEF QuietStored
<1>3. CASE c \in C /\ ch[c].level # 0 /\ asked[c] = 0 /\ cfg.suppress # 0
  <2>1. quiet'[c] = now + cfg.suppress
    BY <1>1, <1>3
  <2>2. ch'[c].until = (timebase + cfg.suppress) % Wrap
    BY <1>1, <1>3, UntilAfter DEF ChannelsTypeOK
  <2>5. cfg.suppress \in Nat
    BY ChannelsAssumption DEF ChannelsTypeOK
  <2>3. cfg.suppress \in 0 .. Wrap \div 2 - 1 /\ Wrap \in Nat \ {0} /\ now \in Nat
    BY ChannelsAssumption DEF ChannelsTypeOK, Time
  <2>4. ((now % Wrap) + cfg.suppress) % Wrap = (now + cfg.suppress) % Wrap
    BY <2>3, <2>5, ModAdd
  <2> QED BY <2>1, <2>2, <2>3, <2>4 DEF timebase
<1>4. CASE ~(c \in C /\ ch[c].level # 0 /\ asked[c] = 0 /\ cfg.suppress # 0)
  <2>1. quiet'[c] = quiet[c]
    BY <1>1, <1>4
  <2>2. ch'[c].until = ch[c].until
    BY <1>1, <1>4, UntilAfter DEF ChannelsTypeOK
  <2> QED BY <1>2, <2>1, <2>2 DEF QuietStored
<1> QED BY <1>3, <1>4

(* Every step keeps QuietStored. *)
LEMMA QuietNext == IInv /\ QuietStored /\ [ChannelsNext]_chVars => QuietStored'
<1> SUFFICES ASSUME IInv, QuietStored, [ChannelsNext]_chVars PROVE QuietStored'
  OBVIOUS
<1>0. ChannelsTypeOK /\ (\A c \in Channel : ch[c] \in ChannelState)
  BY DEF IInv, ChannelsTypeOK
<1>1. ASSUME NEW C \in Target, NEW l \in Level, SetLevel(C, l) PROVE QuietStored'
  <2> DEFINE new == [c \in C |-> apply_level(ch[c], l)]
             asked == [c \in C |-> l]
  <2>1. C \in SUBSET Channel /\ asked \in [C -> Level] /\ DOMAIN new = C /\ Manual(new, asked)
    BY <1>1, TargetIsChannels DEF SetLevel
  <2>2. \A c \in C : new[c].until = apply_level(ch[c], asked[c]).until
    OBVIOUS
  <2> HIDE DEF new, asked
  <2> QED BY <1>0, <2>1, <2>2, QuietManual
<1>2. ASSUME NEW C \in Target, NEW p \in Percent, SetPercent(C, p) PROVE QuietStored'
  <2> DEFINE l == PercentToLevel(p)
             new == [c \in C |-> [apply_level(ch[c], l) EXCEPT !.percent = p]]
             asked == [c \in C |-> l]
  <2>1. C \in SUBSET Channel /\ asked \in [C -> Level] /\ DOMAIN new = C /\ Manual(new, asked)
    BY <1>2, TargetIsChannels, ConversionRange DEF SetPercent
  <2>2. \A c \in C : apply_level(ch[c], l) \in ChannelState
    BY <1>0, <2>1, ConversionRange, ApplyLevel DEF ChannelsTypeOK
  <2> HIDE DEF l
  <2>3. \A c \in C : new[c].until = apply_level(ch[c], asked[c]).until
    BY <2>2 DEF ChannelState
  <2> HIDE DEF new, asked
  <2> QED BY <1>0, <2>1, <2>3, QuietManual
<1>3. ASSUME NEW C \in Target, SwitchOn(C) PROVE QuietStored'
  <2> DEFINE l == [c \in C |-> IF ch[c].level = 0 THEN LevelMax ELSE ch[c].level]
             new == [c \in C |-> [apply_level(ch[c], l[c]) EXCEPT
                                    !.percent = IF ch[c].level = 0 THEN PercentMax ELSE @]]
  <2>1. C \in SUBSET Channel /\ l \in [C -> Level] /\ DOMAIN new = C /\ Manual(new, l)
    BY <1>0, <1>3, TargetIsChannels, FullScale DEF SwitchOn, ChannelState
  <2> HIDE DEF l
  <2>2. \A c \in C : apply_level(ch[c], l[c]) \in ChannelState
    BY <1>0, <2>1, ApplyLevel DEF ChannelsTypeOK
  <2>3. \A c \in C : new[c].until = apply_level(ch[c], l[c]).until
    BY <2>2 DEF ChannelState
  <2> HIDE DEF new
  <2> QED BY <1>0, <2>1, <2>3, QuietManual
<1>4. ASSUME NEW c \in Channel, NEW l \in Level, SetAutoLevel(c, l) PROVE QuietStored'
  <2>1. ch' = [ch EXCEPT ![c] = apply_auto_level(ch[c], l)] /\ now' = now
        /\ quiet' = IF l = 0 THEN [quiet EXCEPT ![c] = Never] ELSE quiet
    BY <1>4 DEF SetAutoLevel
  <2>2. apply_auto_level(ch[c], l).until = IF l = 0 THEN 0 ELSE ch[c].until
    BY <1>0, UntilAfter
  <2>3. \A d \in Channel : \/ quiet'[d] = quiet[d] /\ ch'[d].until = ch[d].until
                           \/ quiet'[d] = 0 /\ ch'[d].until = 0
    BY <1>0, <2>1, <2>2 DEF ChannelsTypeOK, Never
  <2>4. 0 % Wrap = 0 /\ now \in Nat
    BY <1>0, ChannelsAssumption DEF ChannelsTypeOK, Time
  <2>5. ASSUME NEW d \in Channel
        PROVE  /\ ch'[d].until = quiet'[d] % Wrap
               /\ now' < quiet'[d] => quiet'[d] - now' <= Wrap \div 2 - 1
    BY <2>1, <2>3, <2>4 DEF QuietStored
  <2> QED BY <2>5 DEF QuietStored
<1>5. ASSUME NEW k \in Settings, SetConfig(k) PROVE QuietStored'
  <2>1. \A c \in Channel : ch'[c].until = ch[c].until
    BY <1>0, <1>5 DEF SetConfig, ChannelState
  <2> QED BY <1>5, <2>1 DEF SetConfig, QuietStored
<1>6. ASSUME Elapse PROVE QuietStored'
  BY <1>0, <1>6, ChannelsAssumption DEF Elapse, QuietStored, ChannelsTypeOK, Time
<1>7. CASE UNCHANGED chVars
  BY <1>7 DEF chVars, QuietStored
<1>8. ASSUME NEW C \in Target, SwitchOff(C) PROVE QuietStored'
  BY <1>1, <1>8, ScaleAssumption DEF SwitchOff, Level
<1>9. ASSUME NEW c \in Channel, NEW p \in Percent, SetAutoPercent(c, p) PROVE QuietStored'
  BY <1>4, <1>9, ConversionRange DEF SetAutoPercent
<1> QED
  BY <1>1, <1>2, <1>3, <1>4, <1>5, <1>6, <1>7, <1>8, <1>9 DEF ChannelsNext, ModbusWrite

(* As long as the quiet time runs, the stored instant makes auto-light refuse. *)
LEMMA QuietSuppresses == IInv /\ QuietStored => QuietIsKept
<1> SUFFICES ASSUME IInv, QuietStored, NEW c \in Channel, NEW l \in Level,
                    ch[c].level = 0, now < quiet[c], quiet[c] % Wrap # 0
             PROVE  apply_auto_level(ch[c], l).level = 0
  BY DEF QuietIsKept
<1>1. /\ ch[c] \in ChannelState /\ now \in Nat /\ quiet[c] \in Nat /\ ~ch[c].auto
      /\ Plain(ch[c]) /\ Rounded(ch[c])
  BY DEF IInv, ChannelsTypeOK, Time, DarkIsPlain, PercentMatchesLevel, Plain, Rounded
<1>2. Wrap \in Nat \ {0} /\ quiet[c] - now \in 1 .. Wrap \div 2 - 1 /\ quiet[c] - now < Wrap
  BY <1>1, ChannelsAssumption DEF QuietStored
<1>10. (ch[c].until + Wrap - timebase) % Wrap = quiet[c] - now
  BY <1>1, <1>2, ClockDistance DEF QuietStored, timebase
<1>11. ch[c].until # 0
  BY <1>1 DEF QuietStored
<1>3. auto_suppressed(ch[c])
  BY <1>2, <1>10, <1>11 DEF auto_suppressed, Ahead
<1>4. AutoIgnored(ch[c], l)
  BY <1>1, <1>3 DEF AutoIgnored
<1> QED BY <1>1, <1>4, ApplyAutoLevel

LEMMA QuietAtFirst == ChannelsInit => QuietStored
<1>1. 0 % Wrap = 0 /\ \A t \in StartTime : t \in Nat
  BY ChannelsAssumption DEF Time
<1> QED BY <1>1 DEF ChannelsInit, QuietStored, Never

(* The quiet time after an ordinary switch-off is kept, wherever the clock    *)
(* wraps meanwhile and whatever else is written; only one that ends exactly   *)
(* on a multiple of the clock width is lost.                                  *)
THEOREM QuietTimeIsKept == ChannelsSpec => []QuietIsKept
<1>1. ChannelsInit => QuietStored
  BY QuietAtFirst
<1> QED BY InitIInv, NextIInv, <1>1, QuietNext, QuietSuppresses, PTL DEF ChannelsSpec

-------------------------------------------------------------------------------
(* The end of the quiet time.  As long as the device has been on for less     *)
(* than half a turn of the clock, no instant stored lies that far back.       *)
Early ==
  \E t \in StartTime : /\ t <= now /\ (now = t \/ now <= Horizon)
                       /\ \A c \in Channel : quiet[c] = 0 \/ t <= quiet[c]

(* How a step may move the clock and the quiet times. *)
QuietMoves ==
  /\ now' \in Nat /\ now <= now' /\ (now' = now \/ now' <= Horizon)
  /\ \A c \in Channel : \/ quiet'[c] = quiet[c] \/ quiet'[c] = 0
                        \/ quiet'[c] \in Nat /\ now <= quiet'[c]

LEMMA EarlyStep == IInv /\ Early /\ QuietMoves => Early'
<1> SUFFICES ASSUME IInv, Early, QuietMoves PROVE Early'
  OBVIOUS
<1>1. PICK t \in StartTime : /\ t <= now /\ (now = t \/ now <= Horizon)
                             /\ \A c \in Channel : quiet[c] = 0 \/ t <= quiet[c]
  BY DEF Early
<1>2. t \in Nat /\ now \in Nat /\ now' \in Nat /\ Horizon \in Nat
  BY ChannelsAssumption DEF IInv, ChannelsTypeOK, Time, QuietMoves
<1>3. t <= now' /\ (now' = t \/ now' <= Horizon)
  BY <1>1, <1>2 DEF QuietMoves
<1>4. \A c \in Channel : quiet'[c] = 0 \/ t <= quiet'[c]
  BY <1>1, <1>2 DEF QuietMoves
<1> QED BY <1>3, <1>4 DEF Early

LEMMA ChannelsQuietMoves == IInv /\ ChannelsNext => QuietMoves
<1> SUFFICES ASSUME IInv, ChannelsNext PROVE QuietMoves
  OBVIOUS
<1>0. now \in Nat /\ quiet \in [Channel -> Nat] /\ cfg.suppress \in Nat
  BY ChannelsAssumption DEF IInv, ChannelsTypeOK, Time
<1>1. ASSUME NEW new, NEW asked, Manual(new, asked) PROVE QuietMoves
  BY <1>0, <1>1 DEF Manual, QuietMoves
<1>2. ASSUME NEW c \in Channel, NEW l, SetAutoLevel(c, l) PROVE QuietMoves
  BY <1>0, <1>2 DEF SetAutoLevel, QuietMoves, Never
<1>3. ASSUME NEW k, SetConfig(k) PROVE QuietMoves
  BY <1>0, <1>3 DEF SetConfig, QuietMoves
<1>4. CASE Elapse
  <2>1. now' = now + 1 /\ quiet' = quiet /\ now < Horizon /\ Horizon \in Nat
    BY <1>4, ChannelsAssumption DEF Elapse, Time
  <2> QED BY <1>0, <2>1 DEF QuietMoves
<1> QED BY <1>1, <1>2, <1>3, <1>4
       DEF ChannelsNext, ModbusWrite, SetLevel, SetPercent, SwitchOff, SwitchOn, SetAutoPercent

LEMMA EarlyNext == IInv /\ Early /\ [ChannelsNext]_chVars => Early'
<1>1. IInv /\ Early /\ UNCHANGED chVars => Early'
  BY DEF chVars, Early
<1> QED BY <1>1, EarlyStep, ChannelsQuietMoves

LEMMA EarlyAtFirst == ChannelsInit => Early
<1> SUFFICES ASSUME ChannelsInit PROVE Early
  OBVIOUS
<1>1. now \in StartTime /\ now <= now /\ \A c \in Channel : quiet[c] = 0
  BY ChannelsAssumption DEF ChannelsInit, Never, Time
<1> QED BY <1>1 DEF Early

(* A stored instant that is over, by less than half a turn, does not suppress. *)
LEMMA QuietIsOver ==
  ASSUME \A t \in StartTime : Horizon - t < Wrap \div 2, IInv, QuietStored, Early
  PROVE  QuietEnds
<1> SUFFICES ASSUME NEW c \in Channel, NEW l \in Level, ch[c].level = 0, quiet[c] <= now
             PROVE  apply_auto_level(ch[c], l).level = l
  BY DEF QuietEnds
<1>1. /\ ch[c] \in ChannelState /\ now \in Nat /\ quiet[c] \in Nat /\ ~ch[c].auto
      /\ Plain(ch[c]) /\ Rounded(ch[c]) /\ ch[c].until = quiet[c] % Wrap
  BY DEF IInv, ChannelsTypeOK, Time, DarkIsPlain, PercentMatchesLevel, Plain, Rounded, QuietStored
<1>2. Wrap \in Nat \ {0} /\ Wrap % 2 = 0 /\ Wrap \div 2 \in Nat /\ Wrap = 2 * (Wrap \div 2)
  BY ChannelsAssumption
<1>3. quiet[c] = 0 \/ now - quiet[c] < Wrap \div 2
  <2>1. PICK t \in StartTime : /\ t <= now /\ (now = t \/ now <= Horizon)
                               /\ quiet[c] = 0 \/ t <= quiet[c]
    BY DEF Early
  <2>2. t \in Nat /\ Horizon \in Nat /\ Horizon - t < Wrap \div 2
    BY ChannelsAssumption DEF Time
  <2>3. Wrap \div 2 > 0
    BY <1>2
  <2> QED BY <1>1, <1>2, <2>1, <2>2, <2>3
<1>4. ~auto_suppressed(ch[c])
  <2> DEFINE q == quiet[c]
  <2>1. CASE quiet[c] = 0
    <3>1. 0 % Wrap = 0
      BY <1>2
    <3> QED BY <1>1, <2>1, <3>1 DEF auto_suppressed
  <2>2. CASE q = now
    <3>1. ((q % Wrap) + Wrap - (now % Wrap)) % Wrap = 0
      BY <1>1, <1>2, <2>2
    <3> QED BY <1>1, <1>2, <3>1 DEF auto_suppressed, Ahead, timebase
  <2>3. CASE q < now /\ now - q < Wrap \div 2
    <3> HIDE DEF q
    <3> DEFINE k == (q % Wrap) + Wrap - (now % Wrap)
               m == (now % Wrap) + Wrap - (q % Wrap)
    <3>1. q \in Nat /\ now \in Nat /\ q < now /\ now - q < Wrap
      BY <1>1, <1>2, <2>3 DEF q
    <3>2. m % Wrap = now - q
      BY <3>1, ClockDistance
    <3>3. q % Wrap \in 0 .. Wrap - 1 /\ now % Wrap \in 0 .. Wrap - 1
      BY <1>2, <3>1
    <3>4. k + m = 2 * Wrap /\ k \in 1 .. 2 * Wrap - 1 /\ m \in 1 .. 2 * Wrap - 1
      BY <1>2, <3>3
    <3> HIDE DEF k, m
    <3>5. m = now - q \/ m = now - q + Wrap
      BY <1>2, <3>1, <3>2, <3>4
    <3>6. k % Wrap = Wrap - (now - q)
      <4>1. CASE m = now - q
        <5>1. k = Wrap + (Wrap - (now - q)) /\ Wrap - (now - q) \in 1 .. Wrap - 1
          BY <1>2, <3>1, <3>4, <4>1
        <5> QED BY <1>2, <5>1
      <4>2. CASE m = now - q + Wrap
        <5>1. k = Wrap - (now - q) /\ Wrap - (now - q) \in 1 .. Wrap - 1
          BY <1>2, <3>1, <3>4, <4>2
        <5> QED BY <1>2, <5>1
      <4> QED BY <3>5, <4>1, <4>2
    <3>7. k % Wrap > Wrap \div 2
      BY <1>2, <2>3, <3>1, <3>6
    <3>8. ~(k % Wrap \in 1 .. Wrap \div 2 - 1)
      BY <1>2, <3>7
    <3> QED BY <1>1, <3>8 DEF auto_suppressed, Ahead, timebase, k, q
  <2> QED BY <1>1, <1>3, <2>1, <2>2, <2>3
<1>5. l = 0 \/ ~AutoIgnored(ch[c], l)
  BY <1>1, <1>4 DEF AutoIgnored
<1> QED BY <1>1, <1>5, ApplyAutoLevel

(* Once the quiet time is over an auto write lights a dark channel, for as    *)
(* long as the device has been on for less than half a turn of its clock.     *)
THEOREM QuietTimeEnds ==
  (\A t \in StartTime : Horizon - t < Wrap \div 2) => (ChannelsSpec => []QuietEnds)
<1> SUFFICES ASSUME \A t \in StartTime : Horizon - t < Wrap \div 2
             PROVE  ChannelsSpec => []QuietEnds
  OBVIOUS
<1>1. IInv /\ QuietStored /\ Early => QuietEnds
  BY QuietIsOver
<1> QED
  BY InitIInv, NextIInv, QuietAtFirst, QuietNext, EarlyAtFirst, EarlyNext, <1>1, PTL DEF ChannelsSpec

-------------------------------------------------------------------------------
(* apply_level remembers only a level that was on and not under auto-light. *)
LEMMA RememberedAfter ==
  ASSUME NEW s \in ChannelState, NEW l \in Level
  PROVE  LET t == apply_level(s, l)
         IN  t.last # s.last => s.level # 0 /\ ~s.auto /\ t.last = s.level
BY DEF apply_level, remember_nonzero, ChannelState

(* An ordinary level write remembers what an ordinary command had set. *)
LEMMA RememberedManual ==
  ASSUME IInv, NEW C \in SUBSET Channel, NEW new, NEW asked \in [C -> Level], DOMAIN new = C,
         \A c \in C : new[c].last = apply_level(ch[c], asked[c]).last,
         Manual(new, asked), NEW c \in Channel, ch'[c].last # ch[c].last
  PROVE  ch'[c].last = manual[c]
<1>1. ch' = [d \in Channel |-> IF d \in C THEN new[d] ELSE ch[d]]
  BY DEF Manual
<1>2. c \in C /\ ch[c] \in ChannelState /\ ch'[c].last = apply_level(ch[c], asked[c]).last
  BY <1>1 DEF IInv, ChannelsTypeOK
<1>3. ch[c].level # 0 /\ ~ch[c].auto /\ ch'[c].last = ch[c].level
  BY <1>2, RememberedAfter
<1> QED BY <1>2, <1>3 DEF IInv, ManualWins

(* No register write lets a level chosen by auto-light become the one a later *)
(* switch-on restores.                                                        *)
THEOREM AutoNeverRemembered == ChannelsSpec => LastIsManual
<1> DEFINE Kept == \A c \in Channel : ch'[c].last # ch[c].last => ch'[c].last = manual[c]
<1>1. IInv /\ [ChannelsNext]_chVars => [Kept]_chVars
  <2> SUFFICES ASSUME IInv, ChannelsNext, NEW c \in Channel, ch'[c].last # ch[c].last
               PROVE  ch'[c].last = manual[c]
    OBVIOUS
  <2>0. ChannelsTypeOK /\ (\A d \in Channel : ch[d] \in ChannelState)
    BY DEF IInv, ChannelsTypeOK
  <2>1. ASSUME NEW C \in Target, NEW l \in Level, SetLevel(C, l) PROVE ch'[c].last = manual[c]
    <3> DEFINE new == [d \in C |-> apply_level(ch[d], l)]
               asked == [d \in C |-> l]
    <3>1. C \in SUBSET Channel /\ asked \in [C -> Level] /\ DOMAIN new = C /\ Manual(new, asked)
      BY <2>1, TargetIsChannels DEF SetLevel
    <3>2. \A d \in C : new[d].last = apply_level(ch[d], asked[d]).last
      OBVIOUS
    <3> HIDE DEF new, asked
    <3> QED BY <3>1, <3>2, RememberedManual
  <2>2. ASSUME NEW C \in Target, NEW p \in Percent, SetPercent(C, p) PROVE ch'[c].last = manual[c]
    <3> DEFINE l == PercentToLevel(p)
               new == [d \in C |-> [apply_level(ch[d], l) EXCEPT !.percent = p]]
               asked == [d \in C |-> l]
    <3>1. C \in SUBSET Channel /\ asked \in [C -> Level] /\ DOMAIN new = C /\ Manual(new, asked)
      BY <2>2, TargetIsChannels, ConversionRange DEF SetPercent
    <3>2. \A d \in C : apply_level(ch[d], l) \in ChannelState
      BY <2>0, <3>1, ConversionRange, ApplyLevel DEF ChannelsTypeOK
    <3> HIDE DEF l
    <3>3. \A d \in C : new[d].last = apply_level(ch[d], asked[d]).last
      BY <3>2 DEF ChannelState
    <3> HIDE DEF new, asked
    <3> QED BY <3>1, <3>3, RememberedManual
  <2>3. ASSUME NEW C \in Target, SwitchOn(C) PROVE ch'[c].last = manual[c]
    <3> DEFINE l == [d \in C |-> IF ch[d].level = 0 THEN LevelMax ELSE ch[d].level]
               new == [d \in C |-> [apply_level(ch[d], l[d]) EXCEPT
                                      !.percent = IF ch[d].level = 0 THEN PercentMax ELSE @]]
    <3>1. C \in SUBSET Channel /\ l \in [C -> Level] /\ DOMAIN new = C /\ Manual(new, l)
      BY <2>0, <2>3, TargetIsChannels, FullScale DEF SwitchOn, ChannelState
    <3> HIDE DEF l
    <3>2. \A d \in C : apply_level(ch[d], l[d]) \in ChannelState
      BY <2>0, <3>1, ApplyLevel DEF ChannelsTypeOK
    <3>3. \A d \in C : new[d].last = apply_level(ch[d], l[d]).last
      BY <3>2 DEF ChannelState
    <3> HIDE DEF new
    <3> QED BY <3>1, <3>3, RememberedManual
  <2>4. ASSUME NEW d \in Channel, NEW l \in Level, SetAutoLevel(d, l) PROVE FALSE
    <3>1. apply_auto_level(ch[d], l).last = ch[d].last
      BY <2>0 DEF apply_auto_level, ChannelState
    <3> QED BY <2>0, <2>4, <3>1 DEF SetAutoLevel, ChannelsTypeOK
  <2>5. ASSUME NEW k \in Settings, SetConfig(k) PROVE FALSE
    BY <2>0, <2>5 DEF SetConfig, ChannelState
  <2>6. ASSUME Elapse PROVE FALSE
    BY <2>6 DEF Elapse
  <2>7. ASSUME NEW C \in Target, SwitchOff(C) PROVE ch'[c].last = manual[c]
    BY <2>1, <2>7, ScaleAssumption DEF SwitchOff, Level
  <2>8. ASSUME NEW d \in Channel, NEW p \in Percent, SetAutoPercent(d, p) PROVE FALSE
    BY <2>4, <2>8, ConversionRange DEF SetAutoPercent
  <2> QED
    BY <2>1, <2>2, <2>3, <2>4, <2>5, <2>6, <2>7, <2>8 DEF ChannelsNext, ModbusWrite
<1> QED BY InitIInv, NextIInv, <1>1, PTL DEF ChannelsSpec, LastIsManual

-------------------------------------------------------------------------------
(* The buttons in the loop.  First, what the lists and the scale are. *)
LEMMA LeastOne ==
  ASSUME NEW T, T \subseteq Nat, T # {}
  PROVE  \E x \in T : \A y \in T : x <= y
<1>1. IsWellFoundedOn(OpToRel(<, Nat), Nat)
  BY NatLessThanWellFounded
<1>2. \E x \in T : \A y \in T : ~ (<<y, x>> \in OpToRel(<, Nat))
  BY <1>1, WFMin
<1>3. PICK x \in T : \A y \in T : ~ (<<y, x>> \in OpToRel(<, Nat))
  BY <1>2
<1>4. \A y \in T : ~(y < x)
  BY <1>3 DEF OpToRel
<1> QED BY <1>4

LEMMA Lists ==
  ASSUME bindings \in BindingLists
  PROVE  /\ bindings \in Seq(ButtonBinding) /\ DOMAIN bindings = 1 .. Len(bindings) /\ Len(bindings) \in Nat
         /\ \A i \in DOMAIN bindings : bindings[i] \in ButtonBinding /\ bindings[i].target \subseteq Channel
<1>1. bindings \in Seq(ButtonBinding)
  BY ButtonsAssumption DEF ButtonsAssumption
<1>2. DOMAIN bindings = 1 .. Len(bindings) /\ Len(bindings) \in Nat
  BY <1>1
<1>3. ASSUME NEW i \in DOMAIN bindings
      PROVE  bindings[i] \in ButtonBinding /\ bindings[i].target \subseteq Channel
  <2>1. bindings[i] \in ButtonBinding
    BY <1>1
  <2> QED BY <2>1, TargetIsChannels DEF ButtonBinding
<1> QED BY <1>1, <1>2, <1>3

LEMMA Lit == LevelMax \in Nat /\ LevelMax >= 1 /\ NoAsk \notin Level /\ NoAsk \in Nat /\ 0 \in Level
BY ScaleAssumption DEF Level, NoAsk

(* A level read off a target is one of its channels'. *)
LEMMA BindingLevel ==
  ASSUME NEW w, w.ch \in [Channel -> ChannelState], NEW b, b.target \subseteq Channel, b.target # {}
  PROVE  binding_level(w, b) \in Level
<1> DEFINE levels == {w.ch[c].level : c \in b.target}
           T == {n \in Nat : n <= LevelMax /\ LevelMax - n \in levels}
<1>1. levels \subseteq Level /\ levels # {}
  BY DEF ChannelState
<1> HIDE DEF levels
<1>2. T # {}
  <2>1. PICK l \in levels : TRUE
    BY <1>1
  <2>2. l \in Nat /\ l <= LevelMax
    BY <1>1, Lit DEF Level
  <2>3. LevelMax - l \in T
    <3>1. LevelMax - l \in Nat /\ LevelMax - l <= LevelMax /\ LevelMax - (LevelMax - l) = l
      BY <2>2, Lit
    <3> QED BY <2>1, <3>1
  <2> QED BY <2>3
<1>3. PICK n \in T : \A m \in T : n <= m
  <2> HIDE DEF T
  <2>1. T \subseteq Nat
    BY DEF T
  <2> QED BY <1>2, <2>1, LeastOne
<1>4. \A m \in levels : m <= LevelMax - n
  <2> SUFFICES ASSUME NEW m \in levels PROVE m <= LevelMax - n
    OBVIOUS
  <2>1. m \in Nat /\ m <= LevelMax
    BY <1>1, Lit DEF Level
  <2>2. LevelMax - m \in T
    <3>1. LevelMax - m \in Nat /\ LevelMax - m <= LevelMax /\ LevelMax - (LevelMax - m) = m
      BY <2>1, Lit
    <3> QED BY <3>1
  <2>3. n <= LevelMax - m /\ n \in Nat
    BY <1>3, <2>2
  <2> QED BY <2>1, <2>3, Lit
<1>5. \E l \in levels : \A m \in levels : m <= l
  BY <1>3, <1>4
<1>6. binding_level(w, b) = CHOOSE l \in levels : \A m \in levels : m <= l
  BY DEF binding_level, levels
<1>7. binding_level(w, b) \in levels
  BY <1>5, <1>6
<1> QED BY <1>1, <1>7

-------------------------------------------------------------------------------
(* A handler's record: its channels are well formed, and a channel is either  *)
(* where it was before the step or where it was last asked to go; auto-light  *)
(* has to wait from now on if the channel was lit and is asked to be dark.    *)
IsWorld(w) ==
  /\ w = [ch |-> w.ch, ramp |-> w.ramp, run |-> w.run, asked |-> w.asked]
  /\ w.ch \in [Channel -> ChannelState]
  /\ w.asked \in [Channel -> Level \cup {NoAsk}]

Waits(w, c) ==
  w.ch[c].until = IF w.asked[c] = 0 /\ ch[c].level # 0 /\ cfg.suppress # 0
                  THEN (timebase + cfg.suppress) % Wrap ELSE ch[c].until

SoundAt(w, c) ==
  /\ Plain(w.ch[c]) /\ Rounded(w.ch[c]) /\ Waits(w, c)
  /\ IF w.asked[c] = NoAsk THEN w.ch[c].level = ch[c].level /\ w.ch[c].auto = ch[c].auto
     ELSE w.ch[c].level = w.asked[c] /\ ~w.ch[c].auto

Sound(w) == IsWorld(w) /\ \A c \in Channel : SoundAt(w, c)

(* A channel that a handler may still switch off, or light again. *)
Mayset(w, c, l) ==
  /\ Waits(w, c) /\ w.asked[c] # 0
  /\ w.asked[c] = NoAsk => w.ch[c].level = ch[c].level
  /\ l = 0 => w.asked[c] = NoAsk

LEMMA WorldSound ==
  ASSUME IInv
  PROVE  Sound(World) /\ World.run = run /\ World.ch = ch /\ \A c \in Channel : World.asked[c] = NoAsk
<1>1. World = [ch |-> ch, ramp |-> ramp, run |-> run, asked |-> [c \in Channel |-> NoAsk]]
  BY DEF World
<1>2. IsWorld(World)
  BY <1>1 DEF IsWorld, IInv, ChannelsTypeOK
<1>3. \A c \in Channel : Plain(ch[c]) /\ Rounded(ch[c])
  BY DEF IInv, DarkIsPlain, PercentMatchesLevel, Plain, Rounded
<1>4. \A c \in Channel : Waits(World, c)
  BY <1>1, Lit DEF Waits
<1> QED BY <1>1, <1>2, <1>3, <1>4 DEF Sound, SoundAt

(* Asking for levels makes the channels asked sound, whatever they were, and  *)
(* leaves the others alone.                                                   *)
LEMMA StartLevel ==
  ASSUME IInv, NEW w, IsWorld(w), NEW level, DOMAIN level \subseteq Channel,
         \A c \in DOMAIN level : level[c] \in Level,
         \A c \in DOMAIN level : Mayset(w, c, level[c]),
         \A c \in Channel \ DOMAIN level : SoundAt(w, c),
         NEW v, v = start_level(w, level)
  PROVE  /\ Sound(v) /\ v.run = w.run /\ v.ramp = w.ramp
         /\ \A c \in Channel : v.asked[c] = IF c \in DOMAIN level THEN level[c] ELSE w.asked[c]
         /\ \A c \in Channel : c \notin DOMAIN level => v.ch[c] = w.ch[c]
<1> DEFINE C == DOMAIN level
           newCh == [c \in Channel |-> IF c \in C THEN apply_level(w.ch[c], level[c]) ELSE w.ch[c]]
           newAsked == [c \in Channel |-> IF c \in C THEN level[c] ELSE w.asked[c]]
<1>1. v = [w EXCEPT !.ch = newCh, !.asked = newAsked]
  BY DEF start_level
<1> HIDE DEF newCh, newAsked
<1>2. v = [ch |-> newCh, ramp |-> w.ramp, run |-> w.run, asked |-> newAsked]
  BY <1>1 DEF IsWorld
<1>3. v.ch = newCh /\ v.asked = newAsked /\ v.run = w.run /\ v.ramp = w.ramp
  BY <1>2
<1>4. \A c \in C : c \in Channel /\ w.ch[c] \in ChannelState /\ level[c] \in Level
  BY DEF IsWorld
<1>5. ASSUME NEW c \in C
      PROVE  LET t == apply_level(w.ch[c], level[c])
             IN  t \in ChannelState /\ Plain(t) /\ Rounded(t) /\ t.level = level[c] /\ ~t.auto
  <2>1. cfg \in Settings /\ now \in Time
    BY DEF IInv, ChannelsTypeOK
  <2>2. w.ch[c] \in ChannelState /\ level[c] \in Level
    BY <1>4
  <2> QED BY <2>1, <2>2, ApplyLevel
<1>6. newCh \in [Channel -> ChannelState]
  BY <1>5 DEF newCh, IsWorld
<1>7. newAsked \in [Channel -> Level \cup {NoAsk}]
  BY DEF newAsked, IsWorld
<1>8. IsWorld(v)
  BY <1>2, <1>3, <1>6, <1>7 DEF IsWorld
<1>9. ASSUME NEW c \in Channel PROVE SoundAt(v, c)
  <2>1. CASE c \in C
    <3>1. v.ch[c] = apply_level(w.ch[c], level[c]) /\ v.asked[c] = level[c]
      BY <1>3, <2>1 DEF newCh, newAsked
    <3>2. level[c] # NoAsk
      BY <1>4, <2>1, Lit
    <3>3. v.ch[c].until = IF level[c] = 0 /\ w.ch[c].level # 0 /\ cfg.suppress # 0
                          THEN (timebase + cfg.suppress) % Wrap ELSE w.ch[c].until
      BY <1>4, <2>1, <3>1, UntilAfter
    <3>4. Mayset(w, c, level[c])
      BY <2>1
    <3>5. Waits(v, c)
      <4>1. CASE level[c] = 0
        BY <3>1, <3>3, <3>4, <4>1, Lit DEF Mayset, Waits
      <4>2. CASE level[c] # 0
        BY <3>1, <3>3, <3>4, <4>2 DEF Mayset, Waits
      <4> QED BY <4>1, <4>2
    <3> QED BY <1>5, <2>1, <3>1, <3>2, <3>5 DEF SoundAt
  <2>2. CASE c \notin C
    <3>1. v.ch[c] = w.ch[c] /\ v.asked[c] = w.asked[c]
      BY <1>3, <2>2 DEF newCh, newAsked
    <3> QED BY <2>2, <3>1 DEF SoundAt, Waits
  <2> QED BY <2>1, <2>2
<1>10. \A c \in Channel : v.asked[c] = IF c \in C THEN level[c] ELSE w.asked[c]
  BY <1>3 DEF newAsked
<1>11. \A c \in Channel : c \notin C => v.ch[c] = w.ch[c]
  BY <1>3 DEF newCh
<1> QED BY <1>3, <1>8, <1>9, <1>10, <1>11 DEF Sound

(* A record sound everywhere but on the channels about to be set. *)
SoundBut(u, w, C) ==
  /\ IsWorld(u) /\ u.run = w.run
  /\ \A c \in Channel \ C : SoundAt(u, c)
  /\ \A c \in C, l \in Level : Mayset(u, c, l)

(* A handler's record in which nothing has been asked for yet. *)
Fresh(w) == Sound(w) /\ \A c \in Channel : w.asked[c] = NoAsk

LEMMA FreshBut ==
  ASSUME NEW w, Fresh(w), NEW C, C \subseteq Channel
  PROVE  SoundBut(w, w, C)
BY Lit DEF Fresh, Sound, SoundAt, SoundBut, Mayset

LEMMA SetNight ==
  ASSUME NEW w, Fresh(w), NEW C, C \subseteq Channel, NEW value \in BOOLEAN,
         NEW v, v = set_night(w, C, value)
  PROVE  SoundBut(v, w, C)
<1> DEFINE newCh == [c \in Channel |-> IF c \in C THEN [w.ch[c] EXCEPT !.night = value] ELSE w.ch[c]]
<1>1. v = [w EXCEPT !.ch = newCh]
  BY DEF set_night
<1> HIDE DEF newCh
<1>2. v = [ch |-> newCh, ramp |-> w.ramp, run |-> w.run, asked |-> w.asked]
  BY <1>1 DEF Fresh, Sound, IsWorld
<1>3. v.ch = newCh /\ v.asked = w.asked /\ v.run = w.run /\ v.ramp = w.ramp
  BY <1>2
<1>4. newCh \in [Channel -> ChannelState]
  BY DEF newCh, Fresh, Sound, IsWorld, ChannelState
<1>5. IsWorld(v)
  BY <1>2, <1>3, <1>4 DEF Fresh, Sound, IsWorld
<1>6. \A c \in Channel \ C : v.ch[c] = w.ch[c]
  BY <1>3 DEF newCh
<1>7. \A c \in Channel \ C : SoundAt(v, c)
  BY <1>3, <1>6 DEF Fresh, Sound, SoundAt, Waits
<1>8. \A c \in C : v.ch[c].level = w.ch[c].level /\ v.ch[c].until = w.ch[c].until
  BY <1>3 DEF newCh, Fresh, Sound, IsWorld, ChannelState
<1>9. \A c \in C : w.asked[c] = NoAsk /\ SoundAt(w, c)
  BY DEF Fresh, Sound
<1>10. \A c \in C, l \in Level : Mayset(v, c, l)
  BY <1>3, <1>8, <1>9, Lit DEF SoundAt, Mayset, Waits
<1> QED BY <1>3, <1>5, <1>7, <1>10 DEF SoundBut

(* The end of a ramp remembers levels; it moves no channel. *)
LEMMA EndRamp ==
  ASSUME NEW w, Sound(w), NEW b, b.target \subseteq Channel, NEW v, v = end_ramp(w, b)
  PROVE  /\ Sound(v) /\ v.run = w.run /\ v.asked = w.asked
         /\ \A c \in Channel : v.ch[c].level = w.ch[c].level
<1> DEFINE newCh == [c \in Channel |-> IF c \in b.target THEN remember_nonzero(w.ch[c]) ELSE w.ch[c]]
           newRamp == [w.ramp EXCEPT ![Owner(b)].due = 0]
<1>1. v = [w EXCEPT !.ramp = newRamp, !.ch = newCh]
  BY DEF end_ramp, Sound, IsWorld
<1> HIDE DEF newCh, newRamp
<1>2. v = [ch |-> newCh, ramp |-> newRamp, run |-> w.run, asked |-> w.asked]
  BY <1>1 DEF Sound, IsWorld
<1>3. v.ch = newCh /\ v.asked = w.asked /\ v.run = w.run /\ v.ramp = newRamp
  BY <1>2
<1>4. ASSUME NEW c \in Channel
      PROVE  /\ newCh[c] \in ChannelState
             /\ newCh[c].level = w.ch[c].level /\ newCh[c].percent = w.ch[c].percent
             /\ newCh[c].auto = w.ch[c].auto /\ newCh[c].night = w.ch[c].night
             /\ newCh[c].until = w.ch[c].until
  <2>1. w.ch[c] \in ChannelState
    BY DEF Sound, IsWorld
  <2> QED BY <2>1 DEF newCh, remember_nonzero, ChannelState
<1>5. newCh \in [Channel -> ChannelState]
  BY <1>4 DEF newCh
<1>6. IsWorld(v)
  BY <1>2, <1>3, <1>5 DEF Sound, IsWorld
<1>7. ASSUME NEW c \in Channel PROVE SoundAt(v, c)
  <2>1. SoundAt(w, c)
    BY DEF Sound
  <2>2. v.ch[c] = newCh[c] /\ v.asked[c] = w.asked[c]
    BY <1>3
  <2> QED BY <1>4, <2>1, <2>2 DEF SoundAt, Plain, Rounded, Waits
<1> QED BY <1>3, <1>4, <1>6, <1>7 DEF Sound

(* Setting levels on a target. *)
LEMMA LightTarget ==
  ASSUME IInv, NEW w, NEW C, C \subseteq Channel, NEW u, SoundBut(u, w, C),
         NEW level, DOMAIN level = C, \A c \in C : level[c] \in Level,
         NEW v, v = start_level(u, level)
  PROVE  Sound(v) /\ v.run = w.run
BY StartLevel DEF SoundBut

(* What a switch-on restores is a level that lights. *)
LEMMA StartupLights ==
  ASSUME IInv, NEW c \in Channel, NEW s \in ChannelState
  PROVE  startup_level(c, s) \in Level \ {0}
<1>1. cfg.default[c] \in Level
  BY ChannelsAssumption DEF IInv, ChannelsTypeOK
<1> QED BY <1>1, FullScale DEF startup_level, ChannelState

LEMMA StartStartup ==
  ASSUME IInv, NEW w, NEW C, C \subseteq Channel, NEW u, SoundBut(u, w, C),
         NEW v, v = start_startup(u, C)
  PROVE  Sound(v) /\ v.run = w.run
<1> DEFINE level == [c \in C |-> startup_level(c, u.ch[c])]
<1>1. DOMAIN level = C /\ \A c \in C : level[c] \in Level
  BY StartupLights DEF IsWorld, SoundBut
<1>2. v = start_level(u, level)
  BY DEF start_startup
<1> HIDE DEF level
<1> QED BY <1>1, <1>2, LightTarget

LEMMA StartNight ==
  ASSUME IInv, NEW w, Fresh(w), NEW C, C \subseteq Channel, NEW v, v = start_night(w, C)
  PROVE  Sound(v) /\ v.run = w.run
<1> DEFINE lit == {c \in C : cfg.night[c] # 0}
           level == [c \in lit |-> cfg.night[c]]
           u == set_night(w, lit, TRUE)
<1>1. lit \subseteq Channel /\ DOMAIN level = lit /\ \A c \in lit : level[c] \in Level
  BY ChannelsAssumption DEF IInv, ChannelsTypeOK
<1>2. v = start_level(u, level)
  BY DEF start_night
<1>3. SoundBut(u, w, lit)
  <2>1. TRUE \in BOOLEAN
    OBVIOUS
  <2> HIDE DEF lit
  <2> QED BY <1>1, <2>1, SetNight, Zenon
<1> HIDE DEF level, lit, u
<1> QED BY <1>1, <1>2, <1>3, LightTarget

(* A release keeps the channels sound; one that ends a ramp, or whose press   *)
(* was not a short one, moves none.                                           *)
LEMMA Release ==
  ASSUME IInv, NEW w, Fresh(w), NEW b, b.target \subseteq Channel, NEW side,
         NEW long \in BOOLEAN, NEW duration,
         NEW v, v = rocker_release(w, b, side, long, duration) \/ v = momentary_release(w, b, long, duration)
  PROVE  /\ Sound(v) /\ v.run = w.run
         /\ long \/ ~Short(duration) => \A c \in Channel : v.ch[c].level = w.ch[c].level
<1> DEFINE C == b.target
           off == [c \in C |-> 0]
           full == [c \in C |-> LevelMax]
           plain == set_night(w, C, FALSE)
<1>1. CASE long
  BY <1>1, EndRamp DEF Fresh, rocker_release, momentary_release
<1>2. CASE ~long /\ ~Short(duration)
  BY <1>2 DEF Fresh, rocker_release, momentary_release
<1>3. CASE ~long /\ Short(duration)
  <2>1. \/ v = start_startup(plain, C) \/ v = start_level(plain, full)
        \/ v = start_night(w, C) \/ v = start_level(w, off)
    BY <1>3 DEF rocker_release, momentary_release
  <2>2. DOMAIN off = C /\ DOMAIN full = C /\ (\A c \in C : off[c] \in Level /\ full[c] \in Level)
    BY Lit, FullScale
  <2>3. SoundBut(plain, w, C) /\ SoundBut(w, w, C) /\ C \subseteq Channel
    <3>1. FALSE \in BOOLEAN /\ C \subseteq Channel
      OBVIOUS
    <3>2. SoundBut(plain, w, C)
      <4> HIDE DEF C
      <4> QED BY <3>1, SetNight, Zenon
    <3> QED BY <3>1, <3>2, FreshBut
  <2> HIDE DEF plain, off, full, C
  <2>4. CASE v = start_startup(plain, C)
    BY <1>3, <2>3, <2>4, StartStartup
  <2>5. CASE v = start_level(plain, full)
    BY <1>3, <2>2, <2>3, <2>5, LightTarget
  <2>6. CASE v = start_night(w, C)
    BY <1>3, <2>3, <2>6, StartNight
  <2>7. CASE v = start_level(w, off)
    BY <1>3, <2>2, <2>3, <2>7, LightTarget
  <2> QED BY <2>1, <2>4, <2>5, <2>6, <2>7
<1> QED BY <1>1, <1>2, <1>3

-------------------------------------------------------------------------------
(* buttons_tick, one binding at a time.                                       *)
Press == [pressed : BOOLEAN, long : BOOLEAN, at : 0 .. Wrap - 1]
RunTyped(r) == r \in [DOMAIN bindings -> [Side -> Press]]

(* A press is only ever marked long when it is a long one. *)
LongOnly(r, q) ==
  \A j \in DOMAIN bindings, s \in Side :
     /\ q[j][s].pressed = r[j][s].pressed /\ q[j][s].at = r[j][s].at
     /\ q[j][s].long => r[j][s].long \/ HeldLong(r[j][s])

LEMMA StartRamp ==
  ASSUME NEW w, Sound(w), RunTyped(w.run), NEW i \in DOMAIN bindings,
         NEW v, v = start_ramp(w, i)
  PROVE  Sound(v) /\ RunTyped(v.run) /\ LongOnly(w.run, v.run) /\ v.ch = w.ch /\ v.asked = w.asked
<1> DEFINE b == bindings[i]
           starts(s) == /\ HeldLong(w.run[i][s]) /\ ~w.run[i][s].long
                        /\ s = "down" => binding_level(w, b) # 0
           here == [s \in Side |-> [w.run[i][s] EXCEPT !.long = @ \/ starts(s)]]
           due == IF \E s \in Side : starts(s) THEN timebase ELSE w.ramp[Owner(b)].due
           newRun == [w.run EXCEPT ![i] = here]
           newRamp == [w.ramp EXCEPT ![Owner(b)].due = due]
<1>1. v = [w EXCEPT !.run = newRun, !.ramp = newRamp]
  BY DEF start_ramp, Sound, IsWorld
<1>2. \A s \in Side : starts(s) => HeldLong(w.run[i][s])
  OBVIOUS
<1> HIDE DEF starts, newRamp
<1>3. \A s \in Side : w.run[i][s] \in Press
  BY DEF RunTyped
<1>4. here \in [Side -> Press]
  BY <1>3 DEF Press
<1>5. \A s \in Side : /\ here[s].pressed = w.run[i][s].pressed /\ here[s].at = w.run[i][s].at
                      /\ here[s].long = (w.run[i][s].long \/ starts(s))
  BY <1>3 DEF Press
<1> HIDE DEF here
<1>6. newRun \in [DOMAIN bindings -> [Side -> Press]]
  BY <1>4 DEF RunTyped
<1>7. \A j \in DOMAIN bindings : newRun[j] = IF j = i THEN here ELSE w.run[j]
  BY DEF RunTyped
<1> HIDE DEF newRun
<1>8. v = [ch |-> w.ch, ramp |-> newRamp, run |-> newRun, asked |-> w.asked]
  BY <1>1 DEF Sound, IsWorld
<1>9. v.ch = w.ch /\ v.asked = w.asked /\ v.run = newRun /\ v.ramp = newRamp
  BY <1>8
<1>10. Sound(v)
  BY <1>8, <1>9 DEF Sound, IsWorld, SoundAt, Waits
<1>11. ASSUME NEW j \in DOMAIN bindings, NEW s \in Side
       PROVE  /\ newRun[j][s].pressed = w.run[j][s].pressed /\ newRun[j][s].at = w.run[j][s].at
              /\ newRun[j][s].long => w.run[j][s].long \/ HeldLong(w.run[j][s])
  <2>1. CASE j = i
    BY <1>2, <1>5, <1>7, <2>1
  <2>2. CASE j # i
    <3>1. newRun[j] = w.run[j]
      BY <1>7, <2>2
    <3> QED BY <3>1
  <2> QED BY <2>1, <2>2
<1>12. LongOnly(w.run, v.run)
  BY <1>9, <1>11 DEF LongOnly
<1> QED BY <1>6, <1>9, <1>10, <1>12 DEF RunTyped

(* A step of a ramp asks its target for a level that is not dark. *)
LEMMA RampStep ==
  ASSUME IInv, NEW w, Sound(w), \A c \in Channel : w.asked[c] = NoAsk \/ w.asked[c] \in Level \ {0},
         NEW i \in DOMAIN bindings, bindings \in BindingLists, NEW dir,
         NEW v, v = ramp_step(w, bindings[i], dir)
  PROVE  /\ Sound(v) /\ v.run = w.run
         /\ \A c \in Channel : v.asked[c] = w.asked[c] \/ v.asked[c] \in Level \ {0}
<1> DEFINE b == bindings[i]
           C == b.target
           level == binding_level(w, b)
           next == IF dir = 1
                   THEN IF level + b.step >= LevelMax THEN LevelMax ELSE level + b.step
                   ELSE IF level > b.step + 1 THEN level - b.step ELSE 1
           asks == [c \in C |-> next]
           u == start_level(w, asks)
           turn  == b.type = "momentary" /\ next = (IF dir = 1 THEN LevelMax ELSE 1)
<1>1. C \subseteq Channel /\ b \in ButtonBinding
  BY Lists
<1>2. C # {} => next \in Level \ {0}
  <2> SUFFICES ASSUME C # {} PROVE next \in Level \ {0}
    OBVIOUS
  <2>1. level \in Level
    BY <1>1, BindingLevel DEF Sound, IsWorld
  <2>2. b.step \in Nat /\ b.step >= 1 /\ level \in Nat /\ level <= LevelMax
    BY <1>1, <2>1, Lit DEF ButtonBinding, Level
  <2> HIDE DEF level, b
  <2>3. next \in Nat /\ next >= 1 /\ next <= LevelMax
    BY <2>2, Lit
  <2> HIDE DEF next
  <2> QED BY <2>3, Lit DEF Level
<1> HIDE DEF next
<1>3. DOMAIN asks = C /\ (\A c \in C : asks[c] = next /\ asks[c] \in Level)
  BY <1>2
<1>4. v = [u EXCEPT !.ramp[Owner(b)].due = (timebase + b.period) % Wrap,
                    !.ramp[Owner(b)].dir = IF turn THEN -dir ELSE @]
  BY DEF ramp_step, next
<1>5. Sound(u) /\ u.run = w.run /\ u.ramp = w.ramp
      /\ \A c \in Channel : u.asked[c] = IF c \in DOMAIN asks THEN asks[c] ELSE w.asked[c]
  <2>1. IsWorld(w) /\ \A c \in Channel \ DOMAIN asks : SoundAt(w, c)
    BY DEF Sound
  <2>2. u = start_level(w, asks) /\ DOMAIN asks \subseteq Channel /\ \A c \in DOMAIN asks : asks[c] \in Level
    BY <1>1, <1>3
  <2>3. \A c \in DOMAIN asks : Mayset(w, c, asks[c])
    <3> SUFFICES ASSUME NEW c \in C PROVE Mayset(w, c, next)
      BY <1>3
    <3>1. next # 0 /\ SoundAt(w, c) /\ w.asked[c] # 0
      BY <1>1, <1>2, Lit DEF Sound
    <3> QED BY <3>1 DEF Mayset, SoundAt
  <2> HIDE DEF u, asks
  <2> QED BY <2>1, <2>2, <2>3, StartLevel
<1> HIDE DEF u, asks, turn
<1>6. v = [ch |-> u.ch, ramp |-> v.ramp, run |-> u.run, asked |-> u.asked]
      /\ v.ch = u.ch /\ v.run = u.run /\ v.asked = u.asked
  <2>1. PICK r : v = [u EXCEPT !.ramp = r]
    BY <1>4
  <2>2. v = [ch |-> u.ch, ramp |-> r, run |-> u.run, asked |-> u.asked]
    BY <1>5, <2>1 DEF Sound, IsWorld
  <2> QED BY <2>2
<1>7. Sound(v)
  BY <1>5, <1>6 DEF Sound, IsWorld, SoundAt, Waits
<1>8. ASSUME NEW c \in Channel PROVE v.asked[c] = w.asked[c] \/ v.asked[c] \in Level \ {0}
  BY <1>2, <1>3, <1>5, <1>6
<1> QED BY <1>5, <1>6, <1>7, <1>8

(* What holds of the record after any number of bindings. *)
TickSound(w, v) ==
  /\ Sound(v) /\ RunTyped(v.run) /\ LongOnly(w.run, v.run)
  /\ \A c \in Channel : v.asked[c] = NoAsk \/ v.asked[c] \in Level \ {0}

LEMMA TickOne ==
  ASSUME IInv, bindings \in BindingLists, NEW w, TickSound(World, w), NEW i \in DOMAIN bindings,
         NEW v, v = tick(w, i)
  PROVE  TickSound(World, v)
<1> DEFINE b == bindings[i]
           u == start_ramp(w, i)
<1>1. v = w \/ v = u \/ \E dir : v = ramp_step(u, b, dir)
  BY DEF tick
<1>2. CASE v = w
  BY <1>2
<1>3. ASSUME v = u \/ \E dir : v = ramp_step(u, b, dir)
      PROVE  TickSound(World, v)
  <2>1. Sound(u) /\ RunTyped(u.run) /\ LongOnly(w.run, u.run) /\ u.asked = w.asked
    <3>1. Sound(w) /\ RunTyped(w.run)
      BY DEF TickSound
    <3> QED BY <1>3, <3>1, StartRamp
  <2> HIDE DEF u
  <2>2. v.run = u.run /\ Sound(v)
        /\ \A c \in Channel : v.asked[c] = u.asked[c] \/ v.asked[c] \in Level \ {0}
    <3>1. CASE v = u
      BY <2>1, <3>1
    <3>2. ASSUME NEW dir, v = ramp_step(u, b, dir)
          PROVE  v.run = u.run /\ Sound(v)
                 /\ \A c \in Channel : v.asked[c] = u.asked[c] \/ v.asked[c] \in Level \ {0}
      <4>1. \A c \in Channel : u.asked[c] = NoAsk \/ u.asked[c] \in Level \ {0}
        BY <2>1 DEF TickSound
      <4> QED BY <2>1, <3>2, <4>1, RampStep
    <3> QED BY <1>3, <3>1, <3>2
  <2>3. LongOnly(World.run, v.run)
    <3>1. LongOnly(World.run, w.run) /\ LongOnly(w.run, v.run)
      BY <2>1, <2>2 DEF TickSound
    <3>2. ASSUME NEW j \in DOMAIN bindings, NEW s \in Side
          PROVE  /\ v.run[j][s].pressed = World.run[j][s].pressed /\ v.run[j][s].at = World.run[j][s].at
                 /\ v.run[j][s].long => World.run[j][s].long \/ HeldLong(World.run[j][s])
      BY <3>1 DEF LongOnly, HeldLong
    <3> QED BY <3>2 DEF LongOnly
  <2>4. ASSUME NEW c \in Channel PROVE v.asked[c] = NoAsk \/ v.asked[c] \in Level \ {0}
    BY <2>1, <2>2 DEF TickSound
  <2> QED BY <2>1, <2>2, <2>3, <2>4 DEF TickSound
<1> QED BY <1>1, <1>2, <1>3

(* A set of numbers that holds 0 and the successor of each of its members. *)
LEMMA NatSet ==
  ASSUME NEW S, 0 \in S, \A n \in Nat : n \in S => n + 1 \in S
  PROVE  Nat \subseteq S
<1> DEFINE T == Nat \ S
<1> SUFFICES ASSUME T # {} PROVE FALSE
  OBVIOUS
<1>1. \E x \in T : \A y \in T : x <= y
  <2>1. T \subseteq Nat
    OBVIOUS
  <2> HIDE DEF T
  <2> QED BY <2>1, LeastOne
<1>2. PICK x \in T : \A y \in T : x <= y
  BY <1>1
<1>3. x # 0 /\ x - 1 \in Nat /\ ~(x <= x - 1)
  OBVIOUS
<1>4. x - 1 \in T /\ x - 1 \in Nat
  BY <1>3
<1> QED BY <1>2, <1>3, <1>4

(* The fold of buttons_tick over the bindings, unrolled. *)
LEMMA BindingByBinding ==
  ASSUME bindings \in BindingLists
  PROVE  \E after : /\ after[0] = World
                    /\ \A n \in 1 .. Len(bindings) : after[n] = tick(after[n - 1], n)
                    /\ Ticked = after[Len(bindings)]
<1> DEFINE L == Len(bindings)
           Rec(f, m) == f = [n \in 0 .. m |-> IF n = 0 THEN World ELSE tick(f[n - 1], n)]
           S == {m \in Nat : m <= L => \E f : Rec(f, m)}
<1>1. L \in Nat
  BY Lists
<1>2. 0 \in S
  <2>1. Rec([n \in 0 .. 0 |-> World], 0)
    OBVIOUS
  <2> QED BY <2>1
<1>3. ASSUME NEW m \in Nat, m \in S PROVE m + 1 \in S
  <2> SUFFICES ASSUME m + 1 <= L PROVE \E f : Rec(f, m + 1)
    OBVIOUS
  <2>1. PICK f : Rec(f, m)
    BY <1>1, <1>3
  <2> DEFINE g == [n \in 0 .. m + 1 |-> IF n = m + 1 THEN tick(f[m], m + 1) ELSE f[n]]
  <2>2. \A n \in 0 .. m : g[n] = f[n]
    OBVIOUS
  <2>3. ASSUME NEW n \in 0 .. m + 1 PROVE g[n] = IF n = 0 THEN World ELSE tick(g[n - 1], n)
    <3>1. CASE n = m + 1
      BY <2>2, <3>1
    <3>2. CASE n = 0
      BY <2>1, <2>2, <3>2
    <3>3. CASE n \in 1 .. m
      <4>1. f[n] = tick(f[n - 1], n)
        BY <2>1, <3>3
      <4>2. g[n] = f[n] /\ g[n - 1] = f[n - 1]
        BY <2>2, <3>3
      <4> QED BY <4>1, <4>2, <3>3
    <3> QED BY <3>1, <3>2, <3>3
  <2> HIDE DEF g
  <2>4. g = [n \in 0 .. m + 1 |-> g[n]]
    BY DEF g
  <2>5. Rec(g, m + 1)
    BY <2>3, <2>4
  <2> QED BY <2>5
<1>4. L \in S
  <2> HIDE DEF S, L
  <2>1. Nat \subseteq S
    BY <1>2, <1>3, NatSet
  <2> QED BY <1>1, <2>1
<1>5. \E f : Rec(f, L)
  BY <1>1, <1>4
<1> DEFINE after == CHOOSE f : Rec(f, L)
<1>6. Rec(after, L)
  BY <1>5
<1>7. Ticked = after[L]
  BY DEF Ticked
<1> HIDE DEF after
<1>8. after[0] = World /\ \A n \in 1 .. L : after[n] = tick(after[n - 1], n)
  BY <1>1, <1>6
<1> QED BY <1>7, <1>8

LEMMA AllTicked ==
  ASSUME IInv, bindings \in BindingLists, RunTyped(run)
  PROVE  TickSound(World, Ticked)
<1> DEFINE L == Len(bindings)
<1>1. PICK after : /\ after[0] = World
                   /\ \A n \in 1 .. L : after[n] = tick(after[n - 1], n)
                   /\ Ticked = after[L]
  BY BindingByBinding
<1>2. L \in Nat /\ DOMAIN bindings = 1 .. L
  BY Lists
<1> HIDE DEF L
<1> DEFINE S == {k \in Nat : k <= L => TickSound(World, after[k])}
<1>3. 0 \in S
  <2>1. TickSound(World, World)
    BY WorldSound DEF TickSound, LongOnly
  <2> QED BY <1>1, <2>1
<1>4. ASSUME NEW k \in Nat, k \in S PROVE k + 1 \in S
  <2> SUFFICES ASSUME k + 1 <= L PROVE TickSound(World, after[k + 1])
    OBVIOUS
  <2>1. TickSound(World, after[k])
    BY <1>2, <1>4
  <2>2. k + 1 \in DOMAIN bindings /\ after[k + 1] = tick(after[k], k + 1)
    <3>1. k + 1 \in 1 .. L /\ (k + 1) - 1 = k
      BY <1>2
    <3> QED BY <1>1, <1>2, <3>1
  <2> QED BY <2>1, <2>2, TickOne
<1>5. Nat \subseteq S
  <2> HIDE DEF S
  <2> QED BY <1>3, <1>4, NatSet
<1> QED BY <1>1, <1>2, <1>5

-------------------------------------------------------------------------------
(* What a handler has done becomes a state of the channels. *)
LEMMA CommitKeeps ==
  ASSUME IInv, NEW v, Sound(v), Commit(v), now' \in Time
  PROVE  IInv'
<1>1. /\ ch' = v.ch /\ cfg' = cfg
      /\ output' = [c \in Channel |-> IF v.asked[c] = NoAsk THEN output[c] ELSE v.ch[c].level]
      /\ manual' = [c \in Channel |-> IF v.asked[c] = NoAsk THEN manual[c] ELSE v.asked[c]]
      /\ quiet' = [c \in Channel |->
           IF v.asked[c] = 0 /\ ch[c].level # 0 /\ cfg.suppress # 0
           THEN now + cfg.suppress ELSE quiet[c]]
  BY DEF Commit
<1>2. v.ch \in [Channel -> ChannelState] /\ v.asked \in [Channel -> Level \cup {NoAsk}]
  BY DEF Sound, IsWorld
<1>3. quiet' \in [Channel -> Time]
  <2>1. now + cfg.suppress \in Time
    BY ChannelsAssumption DEF IInv, ChannelsTypeOK, Time
  <2> QED BY <1>1, <2>1 DEF IInv, ChannelsTypeOK
<1>4. manual' \in [Channel -> Level]
  BY <1>1, <1>2 DEF IInv, ChannelsTypeOK
<1>5. output' \in [Channel -> Level]
  BY <1>1, <1>2 DEF IInv, ChannelsTypeOK, ChannelState
<1>6. ChannelsTypeOK'
  BY <1>1, <1>2, <1>3, <1>4, <1>5 DEF IInv, ChannelsTypeOK
<1>7. DarkIsPlain' /\ PercentMatchesLevel'
  BY <1>1 DEF Sound, SoundAt, DarkIsPlain, PercentMatchesLevel, Plain, Rounded
<1>8. OutputFollowsLevel'
  BY <1>1 DEF Sound, SoundAt, OutputFollowsLevel, IInv
<1>9. ManualWins'
  <2> SUFFICES ASSUME NEW c \in Channel
               PROVE  /\ manual'[c] # 0 => ch'[c].level = manual'[c] /\ ~ch'[c].auto
                      /\ manual'[c] = 0 => (ch'[c].level # 0 <=> ch'[c].auto)
    BY DEF ManualWins
  <2>1. CASE v.asked[c] = NoAsk
    <3>1. manual'[c] = manual[c] /\ ch'[c].level = ch[c].level /\ ch'[c].auto = ch[c].auto
      BY <1>1, <2>1 DEF Sound, SoundAt
    <3> QED BY <3>1 DEF IInv, ManualWins
  <2>2. CASE v.asked[c] # NoAsk
    <3>1. manual'[c] = v.asked[c] /\ ch'[c].level = v.asked[c] /\ ~ch'[c].auto
      BY <1>1, <2>2 DEF Sound, SoundAt
    <3> QED BY <3>1
  <2> QED BY <2>1, <2>2
<1> QED BY <1>6, <1>7, <1>8, <1>9 DEF IInv

(* An event of an input in use goes to a binding that uses it, at the side    *)
(* the input works.                                                           *)
LEMMA HandlerIs ==
  ASSUME bindings \in BindingLists, NEW d \in InputsOf(bindings)
  PROVE  Handler(d) \in DOMAIN bindings /\ Uses(Handler(d), d)
<1> DEFINE T == {i \in DOMAIN bindings : Uses(i, d)}
<1>1. DOMAIN bindings = 1 .. Len(bindings) /\ Len(bindings) \in Nat
  BY Lists
<1>2. T # {} /\ T \subseteq Nat
  BY <1>1 DEF InputsOf, Uses
<1>3. \E i \in T : \A j \in T : i <= j
  <2> HIDE DEF T
  <2> QED BY <1>2, LeastOne
<1>4. PICK i \in T : \A j \in T : i <= j
  BY <1>3
<1>5. \A j \in 1 .. i - 1 : ~Uses(j, d)
  <2> SUFFICES ASSUME NEW j \in 1 .. i - 1, Uses(j, d) PROVE FALSE
    OBVIOUS
  <2>1. i \in 1 .. Len(bindings)
    BY <1>1
  <2>2. j \in DOMAIN bindings /\ ~(i <= j)
    BY <1>1, <2>1
  <2> QED BY <1>4, <2>2
<1>6. \E k \in DOMAIN bindings : Uses(k, d) /\ \A j \in 1 .. k - 1 : ~Uses(j, d)
  BY <1>5
<1> QED BY <1>6 DEF Handler

LEMMA SideIs ==
  ASSUME bindings \in BindingLists, NEW d \in InputsOf(bindings)
  PROVE  /\ Handler(d) \in DOMAIN bindings /\ SideOf(d) \in Side /\ bindings[Handler(d)][SideOf(d)] = d
         /\ SideOf(d) = "down" => bindings[Handler(d)].up # d
BY HandlerIs DEF SideOf, Side, Uses

-------------------------------------------------------------------------------
(* A press that a binding follows is the press of its input that inputs.c     *)
(* reports, and it began when that one did.                                   *)
PressOf(i, s) ==
  LET d == bindings[i][s]
  IN  /\ d \in InputsOf(bindings) /\ pressed[d] /\ run[i][s].at = since[d] % Wrap
      /\ Handler(d) = i /\ (s = "down" => bindings[i].up # d)

(* What has lasted for a time. *)
HeldFor(d, time) == pressed[d] /\ now - since[d] >= time

ButtonTypes ==
  /\ bindings \in BindingLists /\ press \in PressLimits /\ RunTyped(run)
  /\ pressed \in [Input -> BOOLEAN] /\ since \in [Input -> Time] /\ ramped \in [Input -> Nat]

Presses ==
  /\ \A d \in Input : since[d] <= now
  /\ \A i \in DOMAIN bindings, s \in Side :
       /\ run[i][s].pressed => PressOf(i, s)
       /\ run[i][s].long => run[i][s].pressed /\ HeldFor(bindings[i][s], press.long)
  /\ \A d \in Input : ramped[d] # 0 => HeldFor(d, ramped[d])

BInv == IInv /\ ButtonTypes /\ Presses

(* The inputs of the list in force, and its press limits. *)
LEMMA ConfigIs ==
  ASSUME bindings \in BindingLists, press \in PressLimits
  PROVE  /\ InputsOf(bindings) \subseteq Input
         /\ press.min \in Nat /\ press.max \in Nat /\ press.long \in Nat
         /\ press.max <= press.long /\ press.long < Wrap \div 2
BY ButtonsAssumption DEF Input, Valid

LEMMA InitBInv == Init => BInv
<1> SUFFICES ASSUME Init PROVE BInv
  OBVIOUS
<1>1. IInv
  BY InitIInv DEF Init
<1>2. Released \in Press
  BY ChannelsAssumption DEF Released, Press
<1>3. RunTyped(run)
  BY <1>2 DEF Init, NoPress, RunTyped
<1>4. now \in Nat
  BY <1>1 DEF IInv, ChannelsTypeOK, Time
<1>5. ButtonTypes
  BY <1>3 DEF Init, ButtonTypes, Time
<1>6. \A i \in DOMAIN bindings, s \in Side : ~run[i][s].pressed /\ ~run[i][s].long
  BY DEF Init, NoPress, Released
<1>7. \A d \in Input : since[d] = 0 /\ ramped[d] = 0
  BY DEF Init
<1>8. Presses
  BY <1>4, <1>6, <1>7 DEF Presses
<1> QED BY <1>1, <1>5, <1>8 DEF BInv

(* What the clock shows of a press that is under way. *)
LEMMA HeldLongMeans ==
  ASSUME BInv, NEW i \in DOMAIN bindings, NEW s \in Side, HeldLong(run[i][s])
  PROVE  run[i][s].pressed /\ HeldFor(bindings[i][s], press.long)
<1> DEFINE d == bindings[i][s]
           n == since[d]
<1>1. run[i][s].pressed /\ PressOf(i, s)
  BY DEF HeldLong, BInv, Presses
<1>2. n \in Nat /\ now \in Nat /\ n <= now /\ pressed[d] /\ run[i][s].at = n % Wrap
  BY <1>1, ConfigIs DEF PressOf, BInv, ButtonTypes, Presses, IInv, ChannelsTypeOK, Time
<1>3. press.long \in Nat /\ Wrap \in Nat \ {0} /\ press.long < Wrap
  BY ChannelsAssumption, ConfigIs DEF BInv, ButtonTypes
<1>4. ((now % Wrap) + Wrap - (n % Wrap)) % Wrap >= press.long
  BY <1>2 DEF HeldLong, timebase
<1> HIDE DEF n, d
<1>5. now - n >= press.long
  <2>1. CASE n = now
    <3>1. ((now % Wrap) + Wrap - (n % Wrap)) % Wrap = 0
      BY <1>2, <1>3, <2>1
    <3> QED BY <1>2, <1>3, <1>4, <2>1, <3>1
  <2>2. CASE n < now /\ now - n < Wrap
    <3>1. ((now % Wrap) + Wrap - (n % Wrap)) % Wrap = now - n
      BY <1>2, <2>2, ClockDistance
    <3> QED BY <1>4, <3>1
  <2>3. CASE now - n >= Wrap
    BY <1>2, <1>3, <2>3
  <2> QED BY <1>2, <1>3, <2>1, <2>2, <2>3
<1> QED BY <1>1, <1>2, <1>5 DEF HeldFor, n, d

(* What stands after buttons_tick. *)
LEMMA LongAfterTick ==
  ASSUME BInv, NEW i \in DOMAIN bindings, NEW s \in Side, Ticked.run[i][s].long
  PROVE  run[i][s].pressed /\ HeldFor(bindings[i][s], press.long)
<1>1. LongOnly(run, Ticked.run)
  BY AllTicked, WorldSound DEF TickSound, BInv, ButtonTypes
<1>2. run[i][s].long \/ HeldLong(run[i][s])
  BY <1>1 DEF LongOnly
<1> QED BY <1>2, HeldLongMeans DEF BInv, Presses

(* A round of buttons_tick keeps the invariant. *)
LEMMA TickKeeps == BInv /\ Tick => BInv'
<1> SUFFICES ASSUME BInv, Tick PROVE BInv'
  OBVIOUS
<1>1. Commit(Ticked) /\ now' \in Nat /\ now <= now' /\ now \in Nat
      /\ UNCHANGED <<pressed, since, bindings, press>>
      /\ ramped' = [d \in Input |->
           IF \E i \in DOMAIN bindings, s \in Side : bindings[i][s] = d /\ Ticked.run[i][s].long
           THEN press.long ELSE ramped[d]]
  BY ButtonsAssumption DEF Tick, Commit, configVars, BInv, IInv, ChannelsTypeOK, Time
<1>2. TickSound(World, Ticked) /\ World.run = run
  BY AllTicked, WorldSound DEF BInv, ButtonTypes
<1>3. IInv'
  <2>1. now' \in Time /\ Sound(Ticked) /\ IInv
    BY <1>1, <1>2 DEF Time, TickSound, BInv
  <2> QED BY <1>1, <2>1, CommitKeeps
<1>4. run' = Ticked.run
  BY <1>1 DEF Commit
<1>5. press.long \in Nat /\ InputsOf(bindings) \subseteq Input
  BY ConfigIs DEF BInv, ButtonTypes
<1>6. ButtonTypes'
  <2>1. ramped' \in [Input -> Nat]
    BY <1>1, <1>5 DEF BInv, ButtonTypes
  <2> QED BY <1>1, <1>2, <1>4, <2>1 DEF TickSound, RunTyped, BInv, ButtonTypes
<1>7. \A d \in Input : since[d] \in Nat /\ since[d] <= now
  BY DEF BInv, ButtonTypes, Presses, Time
<1>8. \A d \in Input : since'[d] <= now'
  BY <1>1, <1>7
<1>9. ASSUME NEW d \in Input, NEW t \in Nat, HeldFor(d, t)
      PROVE  pressed'[d] /\ now' - since'[d] >= t
  <2>1. pressed'[d] = pressed[d] /\ since'[d] = since[d] /\ since[d] \in Nat
    BY <1>1, <1>7
  <2> QED BY <1>1, <1>9, <2>1 DEF HeldFor
<1>10. ASSUME NEW i \in DOMAIN bindings, NEW s \in Side
       PROVE  /\ run'[i][s].pressed => PressOf(i, s)'
              /\ run'[i][s].long => run'[i][s].pressed /\ HeldFor(bindings[i][s], press.long)'
  <2>1. run'[i][s].pressed = run[i][s].pressed /\ run'[i][s].at = run[i][s].at
    BY <1>2, <1>4 DEF TickSound, LongOnly
  <2>2. run[i][s].pressed => PressOf(i, s)
    BY DEF BInv, Presses
  <2>3. run'[i][s].pressed => PressOf(i, s)'
    BY <1>1, <2>1, <2>2 DEF PressOf, Handler, Uses
  <2>4. run'[i][s].long => run[i][s].pressed /\ HeldFor(bindings[i][s], press.long)
    BY <1>4, LongAfterTick
  <2>5. ASSUME run'[i][s].long PROVE HeldFor(bindings[i][s], press.long)'
    <3>1. bindings[i][s] \in Input
      BY <1>5, <2>2, <2>4, <2>5 DEF PressOf
    <3> QED BY <1>1, <1>5, <1>9, <2>4, <2>5, <3>1 DEF HeldFor
  <2> QED BY <2>1, <2>3, <2>4, <2>5
<1>11. ASSUME NEW d \in Input, ramped'[d] # 0 PROVE HeldFor(d, ramped[d])'
  <2>1. CASE ramped'[d] = ramped[d]
    <3>1. HeldFor(d, ramped[d]) /\ ramped[d] \in Nat
      BY <1>11, <2>1 DEF BInv, Presses, ButtonTypes
    <3> QED BY <1>9, <2>1, <3>1 DEF HeldFor
  <2>2. ASSUME NEW i \in DOMAIN bindings, NEW s \in Side, bindings[i][s] = d,
               Ticked.run[i][s].long, ramped'[d] = press.long
        PROVE  HeldFor(d, ramped[d])'
    <3>1. HeldFor(d, press.long)
      BY <2>2, LongAfterTick
    <3> QED BY <1>5, <1>9, <2>2, <3>1 DEF HeldFor
  <2> QED BY <1>1, <2>1, <2>2
<1>12. Presses'
  BY <1>1, <1>8, <1>10, <1>11 DEF Presses
<1> QED BY <1>3, <1>6, <1>12 DEF BInv

(* Steps that leave the clock, the buttons and their configuration alone.     *)
LEMMA OthersKeep ==
  ASSUME BInv, UNCHANGED <<now, bindings, press, pressed, since, run, ramped>>, IInv'
  PROVE  BInv'
<1>1. ButtonTypes'
  BY DEF BInv, ButtonTypes, RunTyped
<1>2. \A i, s : PressOf(i, s)' <=> PressOf(i, s)
  BY DEF PressOf, Handler, Uses
<1>3. \A d, t : HeldFor(d, t)' <=> HeldFor(d, t)
  BY DEF HeldFor
<1>4. Presses'
  BY <1>2, <1>3 DEF BInv, Presses, HeldFor
<1> QED BY <1>1, <1>4 DEF BInv

(* A new configuration ends every press as far as the bindings go; for how    *)
(* long an input has been held when it began to dim does not change with it.  *)
LEMMA ConfigKeeps ==
  ASSUME BInv, UNCHANGED <<now, pressed, since, ramped>>, IInv',
         bindings' \in BindingLists, press' \in PressLimits, run' = NoPress(bindings')
  PROVE  BInv'
<1>1. Released \in Press /\ ~Released.pressed /\ ~Released.long
  BY ChannelsAssumption DEF Released, Press
<1>2. RunTyped(run)' /\ \A i \in DOMAIN bindings', s \in Side : run'[i][s] = Released
  BY <1>1 DEF NoPress, RunTyped
<1>3. ButtonTypes'
  BY <1>2 DEF BInv, ButtonTypes
<1>4. \A d \in Input : /\ since'[d] <= now'
                       /\ ramped'[d] # 0 => HeldFor(d, ramped[d])'
  BY DEF BInv, Presses, HeldFor
<1>5. Presses'
  BY <1>1, <1>2, <1>4 DEF Presses
<1> QED BY <1>3, <1>5 DEF BInv

(* The end of a press that has lasted longer than short_press_max_ms moves no *)
(* channel, unless its binding is a latching switch.                          *)
TooLong(d) ==
  /\ pressed[d] /\ press.max < ramped[d]
  /\ \A i \in DOMAIN bindings : Uses(i, d) => bindings[i].type # "latching"

(* What an event does to the binding that handles it. *)
LEMMA EventHandled ==
  ASSUME BInv, NEW d \in InputsOf(bindings),
         NEW v, v = on_input_event(World, d)
  PROVE  /\ Sound(v)
         /\ pressed[d] => v.run = [run EXCEPT ![Handler(d)][SideOf(d)] = Released]
         /\ ~pressed[d] => v.run = [run EXCEPT ![Handler(d)][SideOf(d)] =
                                          [@ EXCEPT !.pressed = TRUE, !.at = timebase]]
         /\ TooLong(d) => \A c \in Channel : v.ch[c].level = ch[c].level
<1> DEFINE i == Handler(d)
           s == SideOf(d)
           b == bindings[i]
           begun == [run[i][s] EXCEPT !.pressed = TRUE, !.at = timebase]
           w == [World EXCEPT !.run[i][s] = begun]
           r == [World EXCEPT !.run[i][s] = Released]
           long == run[i][s].long
           newRun == [run EXCEPT ![i][s] = begun]
           endRun == [run EXCEPT ![i][s] = Released]
<1>1. v = IF pressed[d] THEN on_release(World, i, s, now - since[d]) ELSE on_press(World, i, s)
  BY DEF on_input_event
<1>2. i \in DOMAIN bindings /\ s \in Side /\ b.target \subseteq Channel /\ b \in ButtonBinding
      /\ Uses(i, d) /\ d \in Input
  BY SideIs, HandlerIs, Lists, ConfigIs DEF BInv, ButtonTypes
<1>3. World = [ch |-> ch, ramp |-> ramp, run |-> run, asked |-> [c \in Channel |-> NoAsk]]
      /\ Sound(World) /\ World.run = run /\ World.ch = ch
  BY WorldSound DEF World, BInv
<1> DEFINE none == [c \in Channel |-> NoAsk]
<1>4. w = [ch |-> ch, ramp |-> ramp, run |-> newRun, asked |-> none]
      /\ r = [ch |-> ch, ramp |-> ramp, run |-> endRun, asked |-> none]
  <2> HIDE DEF i, s, begun
  <2>1. World = [ch |-> ch, ramp |-> ramp, run |-> run, asked |-> none]
    BY <1>3
  <2> HIDE DEF none
  <2>2. r = [World EXCEPT !.run = endRun]
    BY <2>1
  <2>3. w = [World EXCEPT !.run = newRun]
    BY <2>1
  <2> HIDE DEF w, r, newRun, endRun
  <2> QED BY <2>1, <2>2, <2>3
<1> HIDE DEF newRun, endRun
<1>5. w.run = newRun /\ r.run = endRun /\ w.ch = ch /\ r.ch = ch
  BY <1>4
<1>6. Fresh(w) /\ Fresh(r)
  <2>1. w.asked = World.asked /\ r.asked = World.asked /\ w.ch = World.ch /\ r.ch = World.ch
        /\ w.ramp = World.ramp /\ r.ramp = World.ramp
    BY <1>3, <1>4
  <2> HIDE DEF w, r, none
  <2>2. IsWorld(w) /\ IsWorld(r)
    BY <1>3, <1>4, <2>1 DEF Sound, IsWorld
  <2>3. \A c \in Channel : World.asked[c] = NoAsk
    BY WorldSound DEF BInv
  <2> QED BY <1>3, <2>1, <2>2, <2>3 DEF Fresh, Sound, SoundAt, Waits
<1>7. ASSUME ~pressed[d]
      PROVE  Sound(v) /\ v.run = newRun
  <2>1. v = w \/ v = start_startup(w, b.target)
    BY <1>1, <1>3, <1>7 DEF on_press
  <2>2. SoundBut(w, w, b.target) /\ Sound(w)
    <3> HIDE DEF w, b
    <3> QED BY <1>2, <1>6, FreshBut DEF Fresh
  <2> HIDE DEF w, b
  <2>3. CASE v = w
    BY <1>5, <2>2, <2>3
  <2>4. CASE v = start_startup(w, b.target)
    BY <1>2, <1>5, <2>2, <2>4, StartStartup DEF BInv
  <2> QED BY <2>1, <2>3, <2>4
<1>8. ASSUME pressed[d]
      PROVE  /\ Sound(v) /\ v.run = endRun
             /\ TooLong(d) => \A c \in Channel : v.ch[c].level = ch[c].level
  <2> DEFINE duration == now - since[d]
             off == [c \in b.target |-> 0]
  <2>1. long \in BOOLEAN
    BY <1>2 DEF BInv, ButtonTypes, RunTyped, Press
  <2>2. \/ \/ v = rocker_release(r, b, s, long, duration)
           \/ v = momentary_release(r, b, long, duration)
        \/ b.type = "latching" /\ v = start_level(r, off)
    BY <1>1, <1>2, <1>3, <1>8 DEF on_release, ButtonBinding
  <2>3. TooLong(d) => b.type # "latching" /\ ~Short(duration)
    <3>1. now \in Nat /\ since[d] \in Nat /\ press.max \in Nat /\ ramped[d] \in Nat
      BY <1>2, ConfigIs DEF BInv, IInv, ChannelsTypeOK, ButtonTypes, Time
    <3>2. press.max < ramped[d] => duration >= ramped[d]
      BY <1>2, <3>1 DEF BInv, Presses, HeldFor
    <3> HIDE DEF duration
    <3>3. press.max < ramped[d] => ~(duration <= press.max)
      <4>1. duration \in Int
        BY <3>1 DEF duration
      <4> QED BY <3>1, <3>2, <4>1
    <3> QED BY <1>2, <3>3 DEF Short, TooLong
  <2>4. DOMAIN off = b.target /\ \A c \in b.target : off[c] \in Level
    BY Lit
  <2>5. SoundBut(r, r, b.target)
    <3> HIDE DEF r, b
    <3> QED BY <1>2, <1>6, FreshBut
  <2> HIDE DEF r, b, off, long, duration
  <2>6. CASE v = start_level(r, off) /\ b.type = "latching"
    <3>1. Sound(v) /\ v.run = r.run
      BY <1>2, <2>4, <2>5, <2>6, LightTarget DEF BInv
    <3> QED BY <1>5, <2>3, <2>6, <3>1
  <2>7. CASE v = rocker_release(r, b, s, long, duration) \/ v = momentary_release(r, b, long, duration)
    <3>1. Fresh(r) /\ b.target \subseteq Channel /\ IInv
      BY <1>2, <1>6 DEF BInv
    <3> HIDE DEF w, i, s
    <3>2. /\ Sound(v) /\ v.run = r.run
          /\ long \/ ~Short(duration) => \A c \in Channel : v.ch[c].level = r.ch[c].level
      BY <2>1, <2>7, <3>1, Release
    <3> QED BY <1>5, <2>3, <3>2
  <2> QED BY <2>2, <2>6, <2>7
<1>9. TooLong(d) => pressed[d]
  BY DEF TooLong
<1> QED BY <1>7, <1>8, <1>9 DEF newRun, endRun

LEMMA EventDoes ==
  ASSUME BInv, NEW d \in Input, InputEvent(d)
  PROVE  /\ IInv' /\ UNCHANGED <<now, bindings, press>> /\ (\E v : Sound(v) /\ Commit(v))
         /\ pressed' = [pressed EXCEPT ![d] = ~@]
         /\ since' = [since EXCEPT ![d] = IF pressed[d] THEN 0 ELSE now]
         /\ ramped' = [ramped EXCEPT ![d] = 0]
         /\ d \notin InputsOf(bindings) => run' = run
         /\ d \in InputsOf(bindings) /\ pressed[d] =>
               run' = [run EXCEPT ![Handler(d)][SideOf(d)] = Released]
         /\ d \in InputsOf(bindings) /\ ~pressed[d] =>
               run' = [run EXCEPT ![Handler(d)][SideOf(d)] = [@ EXCEPT !.pressed = TRUE, !.at = timebase]]
         /\ TooLong(d) => \A c \in Channel : ch'[c].level = ch[c].level
<1> DEFINE v == on_input_event(World, d)
<1>1. /\ Commit(v) /\ UNCHANGED <<now, bindings, press>>
      /\ pressed' = [pressed EXCEPT ![d] = ~@]
      /\ since' = [since EXCEPT ![d] = IF pressed[d] THEN 0 ELSE now]
      /\ ramped' = [ramped EXCEPT ![d] = 0]
  BY DEF InputEvent, Commit, configVars
<1>2. run' = v.run /\ ch' = v.ch
  BY <1>1 DEF Commit
<1>3. d \notin InputsOf(bindings) => v = World
  BY DEF on_input_event
<1>4. Sound(World) /\ World.run = run /\ World.ch = ch
  BY WorldSound DEF World, BInv
<1>5. d \in InputsOf(bindings) =>
        /\ Sound(v)
        /\ pressed[d] => v.run = [run EXCEPT ![Handler(d)][SideOf(d)] = Released]
        /\ ~pressed[d] => v.run = [run EXCEPT ![Handler(d)][SideOf(d)] =
                                         [@ EXCEPT !.pressed = TRUE, !.at = timebase]]
        /\ TooLong(d) => \A c \in Channel : v.ch[c].level = ch[c].level
  BY EventHandled
<1> HIDE DEF v
<1>6. Sound(v) /\ now' \in Time
  BY <1>1, <1>3, <1>4, <1>5 DEF BInv, IInv, ChannelsTypeOK
<1>7. IInv'
  BY <1>1, <1>6, CommitKeeps DEF BInv
<1>8. TooLong(d) => \A c \in Channel : ch'[c].level = ch[c].level
  BY <1>2, <1>3, <1>4, <1>5
<1>9. \E x : Sound(x) /\ Commit(x)
  BY <1>1, <1>6
<1>10. d \notin InputsOf(bindings) => run' = run
  BY <1>2, <1>3, <1>4
<1> QED BY <1>1, <1>2, <1>5, <1>7, <1>8, <1>9, <1>10

(* The event of an input keeps the invariant: the binding that handles it     *)
(* follows the new press, or has forgotten the one that ends.                 *)
LEMMA EventKeeps ==
  ASSUME BInv, NEW d \in Input, InputEvent(d)
  PROVE  BInv'
<1> DEFINE h == Handler(d)
           t == SideOf(d)
           used == d \in InputsOf(bindings)
<1>1. /\ IInv' /\ now' = now /\ bindings' = bindings /\ press' = press
      /\ pressed' = [pressed EXCEPT ![d] = ~@]
      /\ since' = [since EXCEPT ![d] = IF pressed[d] THEN 0 ELSE now]
      /\ ramped' = [ramped EXCEPT ![d] = 0]
      /\ ~used => run' = run
      /\ used /\ pressed[d] => run' = [run EXCEPT ![h][t] = Released]
      /\ used /\ ~pressed[d] => run' = [run EXCEPT ![h][t] = [@ EXCEPT !.pressed = TRUE, !.at = timebase]]
  BY EventDoes, Zenon
<1>2. \A e : Handler(e)' = Handler(e)
  BY <1>1 DEF Handler, Uses
<1>3. used => /\ h \in DOMAIN bindings /\ t \in Side /\ bindings[h][t] = d
              /\ t = "down" => bindings[h].up # d
  BY SideIs DEF BInv, ButtonTypes
<1>4. /\ pressed \in [Input -> BOOLEAN] /\ since \in [Input -> Nat] /\ ramped \in [Input -> Nat]
      /\ now \in Nat /\ RunTyped(run) /\ \A i \in DOMAIN bindings, s \in Side : run[i][s] \in Press
      /\ InputsOf(bindings) \subseteq Input
  BY ConfigIs DEF BInv, ButtonTypes, RunTyped, IInv, ChannelsTypeOK, Time
<1>5. Released \in Press /\ timebase \in 0 .. Wrap - 1 /\ Wrap \in Nat \ {0}
  BY <1>4, ChannelsAssumption DEF Released, Press, timebase
<1>6. Released.pressed = FALSE /\ Released.long = FALSE
  BY DEF Released
<1> HIDE DEF h, t, used
<1>7. \A i \in DOMAIN bindings, s \in Side :
         ~used \/ i # h \/ s # t => run'[i][s] = run[i][s]
  BY <1>1, <1>3, <1>4 DEF RunTyped
<1>8. used /\ pressed[d] => run'[h][t] = Released
  BY <1>1, <1>3, <1>4 DEF RunTyped
<1>9. used /\ ~pressed[d] => /\ run'[h][t] \in Press /\ run'[h][t].pressed /\ run'[h][t].at = timebase
                             /\ run'[h][t].long = run[h][t].long
  <2> SUFFICES ASSUME used, ~pressed[d]
               PROVE /\ run'[h][t] \in Press /\ run'[h][t].pressed /\ run'[h][t].at = timebase
                     /\ run'[h][t].long = run[h][t].long
    OBVIOUS
  <2>1. run'[h][t] = [run[h][t] EXCEPT !.pressed = TRUE, !.at = timebase]
    BY <1>1, <1>3, <1>4 DEF RunTyped
  <2>2. run[h][t] \in Press
    BY <1>3, <1>4
  <2> QED BY <1>5, <2>1, <2>2 DEF Press
<1>10. RunTyped(run')
  <2>1. CASE ~used
    BY <1>1, <1>4, <2>1
  <2>2. CASE used
    <3>1. PICK p : run' = [run EXCEPT ![h][t] = p]
      BY <1>1, <2>2
    <3>2. p \in Press
      BY <1>3, <1>4, <1>5, <1>8, <1>9, <2>2, <3>1 DEF RunTyped
    <3> QED BY <1>4, <3>1, <3>2 DEF RunTyped
  <2> QED BY <2>1, <2>2
<1>11. ButtonTypes'
  <2>1. pressed' \in [Input -> BOOLEAN] /\ since' \in [Input -> Time] /\ ramped' \in [Input -> Nat]
    BY <1>1, <1>4 DEF Time
  <2>2. RunTyped(run)'
    BY <1>1, <1>10 DEF RunTyped
  <2> QED BY <1>1, <2>1, <2>2 DEF BInv, ButtonTypes
<1>12. \A e \in Input : since'[e] <= now'
  BY <1>1, <1>4 DEF BInv, Presses
<1>13. \A e \in Input : e # d => pressed'[e] = pressed[e] /\ since'[e] = since[e] /\ ramped'[e] = ramped[e]
  BY <1>1, <1>4
<1>14. ramped'[d] = 0
  BY <1>1, <1>4
<1>15. ASSUME NEW e \in Input, ramped'[e] # 0 PROVE HeldFor(e, ramped[e])'
  <2>1. e # d
    BY <1>14, <1>15
  <2>2. HeldFor(e, ramped[e])
    BY <1>13, <1>15, <2>1 DEF BInv, Presses
  <2> QED BY <1>1, <1>13, <2>1, <2>2 DEF HeldFor
<1>16. ASSUME NEW i \in DOMAIN bindings, NEW s \in Side
       PROVE  /\ run'[i][s].pressed => PressOf(i, s)'
              /\ run'[i][s].long => run'[i][s].pressed /\ HeldFor(bindings[i][s], press.long)'
  <2>1. /\ run[i][s].pressed => PressOf(i, s)
        /\ run[i][s].long => run[i][s].pressed /\ HeldFor(bindings[i][s], press.long)
    BY DEF BInv, Presses
  <2>2. CASE used /\ i = h /\ s = t /\ pressed[d]
    BY <1>6, <1>8, <2>2
  <2>3. CASE used /\ i = h /\ s = t /\ ~pressed[d]
    <3>1. ~run[i][s].long
      BY <1>3, <2>1, <2>3 DEF PressOf
    <3>2. pressed'[d] /\ since'[d] = now
      BY <1>1, <1>4, <2>3
    <3>3. PressOf(i, s)'
      BY <1>1, <1>2, <1>3, <1>9, <2>3, <3>2 DEF PressOf, timebase, h, used
    <3> QED BY <1>9, <2>3, <3>1, <3>3
  <2>4. CASE ~used \/ i # h \/ s # t
    <3>1. run'[i][s] = run[i][s]
      BY <1>7, <2>4
    <3>2. ASSUME run[i][s].pressed
          PROVE  bindings[i][s] \in Input /\ bindings[i][s] # d
      <4>1. bindings[i][s] \in InputsOf(bindings)
        BY <2>1, <3>2 DEF PressOf
      <4>2. SUFFICES ASSUME bindings[i][s] = d PROVE FALSE
        BY <1>4, <4>1
      <4>3. used /\ i = h /\ (s = "down" => bindings[i].up # d)
        BY <2>1, <3>2, <4>1, <4>2 DEF PressOf, h, used
      <4>4. s = t
        <5>1. s \in {"up", "down"} /\ t \in {"up", "down"}
          BY <1>3, <4>3 DEF Side
        <5>2. CASE s = "up"
          BY <1>3, <4>2, <4>3, <5>1, <5>2
        <5>3. CASE s = "down"
          BY <1>3, <4>2, <4>3, <5>1, <5>3
        <5> QED BY <5>1, <5>2, <5>3
      <4> QED BY <2>4, <4>3, <4>4
    <3>3. run[i][s].pressed => PressOf(i, s)'
      <4> SUFFICES ASSUME run[i][s].pressed PROVE PressOf(i, s)'
        OBVIOUS
      <4>1. PICK e \in Input : bindings[i][s] = e /\ e # d
        BY <3>2
      <4>2. PressOf(i, s)
        BY <2>1
      <4> QED BY <1>1, <1>2, <1>13, <3>1, <4>1, <4>2 DEF PressOf
    <3>4. run[i][s].long => HeldFor(bindings[i][s], press.long)'
      <4> SUFFICES ASSUME run[i][s].long PROVE HeldFor(bindings[i][s], press.long)'
        OBVIOUS
      <4>1. PICK e \in Input : bindings[i][s] = e /\ e # d
        BY <2>1, <3>2
      <4>2. HeldFor(e, press.long)
        BY <2>1, <4>1
      <4> QED BY <1>1, <1>13, <4>1, <4>2 DEF HeldFor
    <3> QED BY <2>1, <3>1, <3>3, <3>4
  <2> QED BY <2>2, <2>3, <2>4
<1>17. Presses'
  BY <1>1, <1>12, <1>15, <1>16 DEF Presses
<1> QED BY <1>1, <1>11, <1>17 DEF BInv

(* A register write takes no time. *)
LEMMA WriteTakesNoTime == ModbusWrite => now' = now
<1>1. ASSUME NEW C, NEW l, SetLevel(C, l) PROVE now' = now
  BY <1>1 DEF SetLevel, Manual
<1>2. ASSUME NEW C, NEW p, SetPercent(C, p) PROVE now' = now
  BY <1>2 DEF SetPercent, Manual
<1>3. ASSUME NEW C, SwitchOn(C) PROVE now' = now
  BY <1>3 DEF SwitchOn, Manual
<1>4. ASSUME NEW c, NEW l, SetAutoLevel(c, l) PROVE now' = now
  BY <1>4 DEF SetAutoLevel
<1> QED BY <1>1, <1>2, <1>3, <1>4 DEF ModbusWrite, SwitchOff, SetAutoPercent

LEMMA NextBInv == BInv /\ [Next]_vars => BInv'
<1> SUFFICES ASSUME BInv, [Next]_vars PROVE BInv'
  OBVIOUS
<1>1. IInv /\ (UNCHANGED chVars => IInv')
  BY NextIInv DEF BInv
<1>2. CASE Poll \/ Scanned \/ UNCHANGED vars
  BY <1>1, <1>2, OthersKeep DEF Poll, Scanned, vars, chVars, buttonVars, configVars
<1>3. CASE PollWrite
  <2>1. IInv' /\ now' = now
    BY <1>1, <1>3, NextIInv, WriteTakesNoTime DEF PollWrite, ChannelsNext
  <2> QED BY <1>3, <2>1, OthersKeep DEF PollWrite, buttonVars, configVars
<1>4. ASSUME NEW k \in Settings, NEW list \in BindingLists, NEW limits \in PressLimits,
             PollConfig(k, list, limits)
      PROVE  BInv'
  <2>1. IInv' /\ now' = now
    BY <1>1, <1>4, NextIInv DEF PollConfig, ChannelsNext, SetConfig
  <2> QED BY <1>4, <2>1, ConfigKeeps DEF PollConfig
<1>5. ASSUME NEW d \in Input, InputEvent(d) PROVE BInv'
  BY <1>5, EventKeeps
<1>6. CASE Tick
  BY <1>6, TickKeeps
<1> QED BY <1>2, <1>3, <1>4, <1>5, <1>6 DEF Next

(* The buttons keep what the registers keep: with presses, ramps and writes   *)
(* in the loop a level that a button or an ordinary register chose is never   *)
(* moved by auto-light, and registers, percents and output layer agree.       *)
THEOREM ButtonsKeepChannels ==
  Spec => [](ManualWins /\ PercentMatchesLevel /\ OutputFollowsLevel /\ DarkIsPlain)
<1>1. BInv => ManualWins /\ PercentMatchesLevel /\ OutputFollowsLevel /\ DarkIsPlain
  BY DEF BInv, IInv
<1> QED BY InitBInv, NextBInv, <1>1, PTL DEF Spec

(* No ramp outlives the press it came from, whatever list of bindings is in   *)
(* force and whatever is written or configured while the button is held.      *)
THEOREM RampsNeedPresses == Spec => []RampNeedsPress
<1>1. BInv => RampNeedsPress
  BY DEF BInv, Presses, PressOf, RampNeedsPress
<1> QED BY InitBInv, NextBInv, <1>1, PTL DEF Spec

(* A ramp starts long_press_ms after the press at the earliest, also when the *)
(* millisecond clock wraps while the button is held.                          *)
THEOREM RampsAfterLong == Spec => RampAfterLong
<1> DEFINE Late == Tick => \A i \in DOMAIN bindings, s \in Side :
                     run'[i][s].long => now - since[bindings[i][s]] >= press.long
<1>1. BInv /\ [Next]_vars => [Late]_vars
  <2> SUFFICES ASSUME BInv, Tick, NEW i \in DOMAIN bindings, NEW s \in Side, run'[i][s].long
               PROVE  now - since[bindings[i][s]] >= press.long
    OBVIOUS
  <2>1. Ticked.run[i][s].long
    BY DEF Tick, Commit
  <2> QED BY <2>1, LongAfterTick DEF HeldFor
<1> QED BY InitBInv, NextBInv, <1>1, PTL DEF Spec, RampAfterLong

(* The release of a press that has dimmed sets no level, whatever is          *)
(* configured while the button is held, unless short_press_max_ms is then no  *)
(* longer below the time after which the ramp began, or the binding has       *)
(* become a latching switch.                                                  *)
THEOREM RampedNeverToggles == Spec => RampedPressNeverToggles
<1> DEFINE Still == \A d \in Input :
                      /\ InputEvent(d) /\ pressed[d] /\ press.max < ramped[d]
                      /\ \A i \in DOMAIN bindings : Uses(i, d) => bindings[i].type # "latching"
                      => \A c \in Channel : ch'[c].level = ch[c].level
<1>1. BInv /\ [Next]_vars => [Still]_vars
  <2>1. ASSUME BInv, NEW d \in Input, InputEvent(d), TooLong(d), NEW c \in Channel
        PROVE  ch'[c].level = ch[c].level
    BY <2>1, EventDoes
  <2> QED BY <2>1 DEF TooLong
<1> QED BY InitBInv, NextBInv, <1>1, PTL DEF Spec, RampedPressNeverToggles

(* buttons_tick never switches a lit channel off.                             *)
THEOREM RampsKeepLight == Spec => RampKeepsLight
<1> DEFINE Lights == Tick => \A c \in Channel : ch[c].level # 0 => ch'[c].level # 0
<1>1. BInv /\ [Next]_vars => [Lights]_vars
  <2> SUFFICES ASSUME BInv, Tick, NEW c \in Channel, ch[c].level # 0
               PROVE  ch'[c].level # 0
    OBVIOUS
  <2>1. TickSound(World, Ticked) /\ ch' = Ticked.ch
    BY AllTicked DEF BInv, ButtonTypes, Tick, Commit
  <2>2. SoundAt(Ticked, c) /\ (Ticked.asked[c] = NoAsk \/ Ticked.asked[c] \in Level \ {0})
    BY <2>1 DEF TickSound, Sound
  <2> QED BY <2>1, <2>2, Lit DEF SoundAt
<1> QED BY InitBInv, NextBInv, <1>1, PTL DEF Spec, RampKeepsLight

(* What a handler has done keeps what auto-light has to wait for. *)
LEMMA QuietCommit ==
  ASSUME IInv, QuietStored, NEW v, Sound(v), Commit(v), now' \in Time, now <= now',
         now' = now \/ \A c \in Channel : v.asked[c] # 0
  PROVE  QuietStored'
<1>1. /\ ch' = v.ch
      /\ quiet' = [c \in Channel |->
           IF v.asked[c] = 0 /\ ch[c].level # 0 /\ cfg.suppress # 0
           THEN now + cfg.suppress ELSE quiet[c]]
  BY DEF Commit
<1>2. SUFFICES ASSUME NEW c \in Channel
               PROVE  /\ ch'[c].until = quiet'[c] % Wrap
                      /\ now' < quiet'[c] => quiet'[c] - now' <= Wrap \div 2 - 1
  BY DEF QuietStored
<1>3. Waits(v, c) /\ now \in Nat /\ now' \in Nat /\ quiet[c] \in Nat
      /\ Wrap \in Nat \ {0} /\ Wrap \div 2 \in Nat
  BY ChannelsAssumption DEF Sound, SoundAt, IInv, ChannelsTypeOK, Time
<1>4. CASE v.asked[c] = 0 /\ ch[c].level # 0 /\ cfg.suppress # 0
  <2>1. quiet'[c] = now + cfg.suppress /\ now' = now
    BY <1>1, <1>4
  <2>2. ch'[c].until = (timebase + cfg.suppress) % Wrap
    BY <1>1, <1>3, <1>4 DEF Waits
  <2>3. cfg.suppress \in 0 .. Wrap \div 2 - 1
    BY ChannelsAssumption DEF IInv, ChannelsTypeOK
  <2>4. cfg.suppress \in Nat
    BY <1>3, <2>3
  <2>5. ((now % Wrap) + cfg.suppress) % Wrap = (now + cfg.suppress) % Wrap
    BY <1>3, <2>4, ModAdd
  <2> QED BY <1>3, <2>1, <2>2, <2>3, <2>5 DEF timebase
<1>5. CASE ~(v.asked[c] = 0 /\ ch[c].level # 0 /\ cfg.suppress # 0)
  <2>1. quiet'[c] = quiet[c]
    BY <1>1, <1>5
  <2>2. ch'[c].until = ch[c].until
    BY <1>1, <1>3, <1>5 DEF Waits
  <2>3. now' < quiet[c] => now < quiet[c]
    BY <1>3
  <2>4. /\ ch[c].until = quiet[c] % Wrap
        /\ now < quiet[c] => quiet[c] - now <= Wrap \div 2 - 1
    BY DEF QuietStored
  <2> QED BY <1>3, <2>1, <2>2, <2>3, <2>4
<1> QED BY <1>4, <1>5

LEMMA QuietNextB == BInv /\ QuietStored /\ [Next]_vars => QuietStored'
<1> SUFFICES ASSUME BInv, QuietStored, [Next]_vars PROVE QuietStored'
  OBVIOUS
<1>1. IInv /\ (UNCHANGED chVars => QuietStored')
  BY QuietNext DEF BInv
<1>2. CASE Poll \/ Scanned \/ UNCHANGED vars
  BY <1>1, <1>2 DEF Poll, Scanned, vars
<1>3. CASE PollWrite
  BY <1>1, <1>3, QuietNext DEF PollWrite, ChannelsNext
<1>4. ASSUME NEW k \in Settings, NEW list, NEW limits, PollConfig(k, list, limits) PROVE QuietStored'
  BY <1>1, <1>4, QuietNext DEF PollConfig, ChannelsNext
<1>5. ASSUME NEW d \in Input, InputEvent(d) PROVE QuietStored'
  <2>1. PICK v : Sound(v) /\ Commit(v) /\ now' = now
    BY <1>5, EventDoes
  <2>2. now' \in Time /\ now <= now'
    BY <1>1, <2>1 DEF IInv, ChannelsTypeOK, Time
  <2> QED BY <1>1, <2>1, <2>2, QuietCommit
<1>6. CASE Tick
  <2>1. Commit(Ticked) /\ now' \in Time /\ now <= now'
    BY <1>1, <1>6, ButtonsAssumption DEF Tick, IInv, ChannelsTypeOK, Time
  <2>2. Sound(Ticked) /\ \A c \in Channel : Ticked.asked[c] # 0
    BY AllTicked, Lit DEF BInv, ButtonTypes, TickSound
  <2> QED BY <1>1, <2>1, <2>2, QuietCommit
<1> QED BY <1>2, <1>3, <1>4, <1>5, <1>6 DEF Next

(* The quiet time is kept with the buttons in the loop as well: after a press *)
(* that switches a channel off auto-light leaves it dark for as long.         *)
THEOREM ButtonsKeepQuiet == Spec => []QuietIsKept
<1>1. Init => QuietStored
  BY QuietAtFirst DEF Init
<1>2. BInv /\ QuietStored => QuietIsKept
  BY QuietSuppresses DEF BInv
<1> QED BY InitBInv, NextBInv, <1>1, QuietNextB, <1>2, PTL DEF Spec

LEMMA CommitQuietMoves ==
  ASSUME IInv, NEW v, Commit(v), now' \in Nat, now <= now', now' = now \/ now' <= Horizon
  PROVE  QuietMoves
<1>1. quiet' = [c \in Channel |->
           IF v.asked[c] = 0 /\ ch[c].level # 0 /\ cfg.suppress # 0
           THEN now + cfg.suppress ELSE quiet[c]]
  BY DEF Commit
<1>2. now \in Nat /\ cfg.suppress \in Nat
  BY ChannelsAssumption DEF IInv, ChannelsTypeOK, Time
<1>3. now + cfg.suppress \in Nat /\ now <= now + cfg.suppress
  BY <1>2
<1> QED BY <1>1, <1>3 DEF QuietMoves

LEMMA EarlyNextB == BInv /\ Early /\ [Next]_vars => Early'
<1> SUFFICES ASSUME BInv, Early, [Next]_vars PROVE Early'
  OBVIOUS
<1>1. IInv /\ (UNCHANGED chVars => Early')
  BY EarlyNext DEF BInv
<1>2. CASE Poll \/ Scanned \/ UNCHANGED vars
  BY <1>1, <1>2 DEF Poll, Scanned, vars
<1>3. CASE PollWrite
  BY <1>1, <1>3, EarlyNext DEF PollWrite, ChannelsNext
<1>4. ASSUME NEW k \in Settings, NEW list, NEW limits, PollConfig(k, list, limits) PROVE Early'
  BY <1>1, <1>4, EarlyNext DEF PollConfig, ChannelsNext
<1>5. ASSUME NEW d \in Input, InputEvent(d) PROVE Early'
  <2>1. PICK v : Commit(v) /\ now' = now
    BY <1>5, EventDoes
  <2>2. now' \in Nat /\ now <= now'
    BY <1>1, <2>1 DEF IInv, ChannelsTypeOK, Time
  <2> QED BY <1>1, <2>1, <2>2, CommitQuietMoves, EarlyStep
<1>6. CASE Tick
  <2>1. Commit(Ticked) /\ now' \in Nat /\ now <= now' /\ now' <= Horizon
    BY <1>1, <1>6, ButtonsAssumption DEF Tick, IInv, ChannelsTypeOK, Time
  <2> QED BY <1>1, <2>1, CommitQuietMoves, EarlyStep
<1> QED BY <1>2, <1>3, <1>4, <1>5, <1>6 DEF Next

(* With the buttons in the loop the quiet time ends as well: once it is over  *)
(* an auto write lights a channel that a button has switched off.             *)
THEOREM ButtonsEndQuiet ==
  (\A t \in StartTime : Horizon - t < Wrap \div 2) => (Spec => []QuietEnds)
<1> SUFFICES ASSUME \A t \in StartTime : Horizon - t < Wrap \div 2
             PROVE  Spec => []QuietEnds
  OBVIOUS
<1>1. Init => QuietStored /\ Early
  BY QuietAtFirst, EarlyAtFirst DEF Init
<1>2. BInv /\ QuietStored /\ Early => QuietEnds
  BY QuietIsOver DEF BInv
<1> QED BY InitBInv, NextBInv, <1>1, QuietNextB, EarlyNextB, <1>2, PTL DEF Spec
===============================================================================
