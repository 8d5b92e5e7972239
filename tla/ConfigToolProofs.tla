---------------------------- MODULE ConfigToolProofs ----------------------------
(* The configuration tool and the device it writes to, for every number of    *)
(* channels and bindings, every set of files and of earlier settings, and any *)
(* number of attempts and faults.                                             *)
EXTENDS ConfigTool, TLAPS, SequenceTheorems, WellFoundedInduction

(* Induction over the natural numbers, for a set of them. *)
LEMMA NatSet ==
  ASSUME NEW S, 0 \in S, \A n \in Nat : n \in S => n + 1 \in S
  PROVE  Nat \subseteq S
<1> DEFINE T == Nat \ S
<1> SUFFICES ASSUME T # {} PROVE FALSE
  OBVIOUS
<1>1. IsWellFoundedOn(OpToRel(<, Nat), Nat)
  BY NatLessThanWellFounded
<1>2. T \subseteq Nat
  OBVIOUS
<1> HIDE DEF T
<1>3. \E x \in T : \A y \in T : ~ (<<y, x>> \in OpToRel(<, Nat))
  BY <1>1, <1>2, WFMin
<1> USE DEF T
<1>4. PICK x \in T : \A y \in T : ~ (<<y, x>> \in OpToRel(<, Nat))
  BY <1>3
<1>5. \A y \in T : ~(y < x)
  BY <1>4 DEF OpToRel
<1>6. x # 0 /\ x - 1 \in Nat /\ x - 1 < x
  OBVIOUS
<1> QED BY <1>5, <1>6

-------------------------------------------------------------------------------
(* Registers and configurations. *)
LEMMA Fields ==
  /\ In(GlobalFields) = {"count", "threshold", "debounce", "short_min", "short_max", "long", "suppress"}
  /\ In(ProfileFields) = {"min_level", "max_level", "default_level", "night_level",
                          "fade_on", "fade_off", "output_curve", "reserved"}
  /\ In(BindingFields) = {"enabled", "type", "target_type", "target_id", "di_primary", "di_secondary",
                          "hold_step", "hold_period", "flags", "reserved"}
BY DEF In, GlobalFields, ProfileFields, BindingFields

LEMMA Sizes == Channels \in Nat /\ Slots \in Nat /\ Channels >= 3 /\ Slots >= 3
BY ConfigAssumption DEF ConfigAssumption

LEMMA WordRange == WordTop \in Nat /\ WordTop >= 65535
BY DEF WordTop

LEMMA KeptIsWord == ASSUME NEW f, NEW v \in Word PROVE Kept(f, v) \in Word
BY WordRange DEF Kept, Word, NoInput

LEMMA ShownIsWord == ASSUME NEW f, NEW v \in Word PROVE Shown(f, v) \in Word
BY WordRange DEF Shown, Word

(* The three areas. *)
LEMMA RegisterCases ==
  ASSUME NEW r \in Register
  PROVE  \/ r = <<"global", 1, r[3]>> /\ r[3] \in In(GlobalFields)
         \/ r = <<"profile", r[2], r[3]>> /\ r[2] \in Channel /\ r[3] \in In(ProfileFields)
         \/ r = <<"binding", r[2], r[3]>> /\ r[2] \in Slot /\ r[3] \in In(BindingFields)
BY DEF Register, Global, Profile, Binding

LEMMA AtIsWord == ASSUME NEW c \in Config, NEW r \in Register PROVE At(c, r) \in Word
<1>1. CASE r = <<"global", 1, r[3]>> /\ r[3] \in In(GlobalFields)
  BY <1>1 DEF Config, At
<1>2. CASE r = <<"profile", r[2], r[3]>> /\ r[2] \in Channel /\ r[3] \in In(ProfileFields)
  BY <1>2 DEF Config, At
<1>3. CASE r = <<"binding", r[2], r[3]>> /\ r[2] \in Slot /\ r[3] \in In(BindingFields)
  BY <1>3 DEF Config, At
<1> QED BY <1>1, <1>2, <1>3, RegisterCases

(* A configuration with one register changed. *)
With(c, r, w) == [c EXCEPT ![r[1]][r[2]][r[3]] = w]

LEMMA WithOne ==
  ASSUME NEW c \in Config, NEW r \in Register, NEW w \in Word
  PROVE  /\ With(c, r, w) \in Config
         /\ At(With(c, r, w), r) = w
         /\ \A s \in Register : s # r => At(With(c, r, w), s) = At(c, s)
<1>1. CASE r = <<"global", 1, r[3]>> /\ r[3] \in In(GlobalFields)
  <2> DEFINE d == [c EXCEPT !.global[1][r[3]] = w]
  <2>1. With(c, r, w) = d
    BY <1>1 DEF With
  <2>2. d \in Config /\ d.global[1][r[3]] = w
    BY <1>1 DEF Config
  <2>3. d.profile = c.profile /\ d.binding = c.binding
    BY DEF Config
  <2>4. \A f \in In(GlobalFields) : f # r[3] => d.global[1][f] = c.global[1][f]
    BY <1>1 DEF Config
  <2> HIDE DEF d
  <2>5. At(d, r) = w
    BY <1>1, <2>2 DEF At
  <2>6. ASSUME NEW s \in Register, s # r PROVE At(d, s) = At(c, s)
    BY <1>1, <2>3, <2>4, <2>6, RegisterCases DEF At
  <2> QED BY <2>1, <2>2, <2>5, <2>6
<1>2. CASE r = <<"profile", r[2], r[3]>> /\ r[2] \in Channel /\ r[3] \in In(ProfileFields)
  <2> DEFINE d == [c EXCEPT !.profile[r[2]][r[3]] = w]
  <2>1. With(c, r, w) = d
    BY <1>2 DEF With
  <2>2. d \in Config /\ d.profile[r[2]][r[3]] = w
    BY <1>2 DEF Config
  <2>3. d.global = c.global /\ d.binding = c.binding
    BY DEF Config
  <2>4. \A i \in Channel, f \in In(ProfileFields) :
          i # r[2] \/ f # r[3] => d.profile[i][f] = c.profile[i][f]
    BY <1>2 DEF Config
  <2> HIDE DEF d
  <2>5. At(d, r) = w
    BY <1>2, <2>2 DEF At
  <2>6. ASSUME NEW s \in Register, s # r PROVE At(d, s) = At(c, s)
    BY <1>2, <2>3, <2>4, <2>6, RegisterCases DEF At
  <2> QED BY <2>1, <2>2, <2>5, <2>6
<1>3. CASE r = <<"binding", r[2], r[3]>> /\ r[2] \in Slot /\ r[3] \in In(BindingFields)
  <2> DEFINE d == [c EXCEPT !.binding[r[2]][r[3]] = w]
  <2>1. With(c, r, w) = d
    BY <1>3 DEF With
  <2>2. d \in Config /\ d.binding[r[2]][r[3]] = w
    BY <1>3 DEF Config
  <2>3. d.global = c.global /\ d.profile = c.profile
    BY DEF Config
  <2>4. \A i \in Slot, f \in In(BindingFields) :
          i # r[2] \/ f # r[3] => d.binding[i][f] = c.binding[i][f]
    BY <1>3 DEF Config
  <2> HIDE DEF d
  <2>5. At(d, r) = w
    BY <1>3, <2>2 DEF At
  <2>6. ASSUME NEW s \in Register, s # r PROVE At(d, s) = At(c, s)
    BY <1>3, <2>3, <2>4, <2>6, RegisterCases DEF At
  <2> QED BY <2>1, <2>2, <2>5, <2>6
<1> QED BY <1>1, <1>2, <1>3, RegisterCases

-------------------------------------------------------------------------------
(* One word written, and several. *)
LEMMA KeptOnce == ASSUME NEW f, NEW v \in Word PROVE Kept(f, Kept(f, v)) = Kept(f, v)
<1>1. v % 256 \in 0 .. 255 /\ (v % 256) % 256 = v % 256
  BY WordRange DEF Word
<1> QED BY <1>1 DEF Kept, NoInput, ByteFields

LEMMA OneWord ==
  ASSUME NEW c, ValidConfig(c), NEW s, NEW r \in Register, NEW v \in Word, NEW w,
         w = config_registers_hr_write(c, s, r, v)
  PROVE  /\ ValidConfig(w.cfg)
         /\ w.status \in {s, StatusOK, StatusInvalid, StatusReserved}
         /\ \A q \in Register : q # r => At(w.cfg, q) = At(c, q)
         /\ At(w.cfg, r) \in {At(c, r), Kept(r[3], v)}
         /\ w.ok => At(w.cfg, r) = Kept(r[3], v)
<1> DEFINE d == With(c, r, Kept(r[3], v))
<1>1. /\ d \in Config /\ At(d, r) = Kept(r[3], v)
      /\ \A q \in Register : q # r => At(d, q) = At(c, q)
  BY KeptIsWord, WithOne DEF ValidConfig
<1>2. \A q \in Register : Holds(q[3], At(c, q))
  BY DEF ValidConfig
<1>3. CASE r[3] = "reserved"
  <2>1. w.cfg = c /\ (w.ok <=> v = 0) /\ w.status \in {s, StatusReserved}
    BY <1>3 DEF config_registers_hr_write
  <2>2. At(c, r) = 0
    BY <1>2, <1>3 DEF Holds
  <2>3. Kept(r[3], 0) = 0
    BY <1>3 DEF Kept, ByteFields
  <2> QED BY <2>1, <2>2, <2>3
<1>4. CASE r[3] # "reserved" /\ ddm_config_validate(d)
  <2>1. w.cfg = d /\ w.status = StatusOK
    BY <1>4 DEF config_registers_hr_write, With
  <2>2. Holds(r[3], At(d, r))
    BY <1>1, <1>4, KeptOnce DEF Holds
  <2>3. \A q \in Register : Holds(q[3], At(d, q))
    BY <1>1, <1>2, <2>2
  <2>4. ValidConfig(d)
    BY <1>1, <1>4, <2>3 DEF ValidConfig
  <2> HIDE DEF d
  <2> QED BY <1>1, <2>1, <2>4
<1>5. CASE r[3] # "reserved" /\ ~ddm_config_validate(d)
  <2>1. w.cfg = c /\ w.status = StatusInvalid /\ ~w.ok
    BY <1>5 DEF config_registers_hr_write, With
  <2> QED BY <2>1
<1> QED BY <1>3, <1>4, <1>5

LEMMA OneAccepted ==
  ASSUME NEW c, ValidConfig(c), NEW s, NEW r \in Register, NEW v \in Word, NEW w,
         w = config_registers_hr_write(c, s, r, v), w.ok
  PROVE  At(w.cfg, r) = Kept(r[3], v)
BY OneWord

Writing == Register \X Word

(* write_multiple writes word by word: its recursive function exists. *)
LEMMA WordByWord ==
  ASSUME NEW c, NEW s, NEW words \in Seq(Writing)
  PROVE  \E after :
           /\ after[0] = [ok |-> TRUE, cfg |-> c, status |-> s]
           /\ \A n \in 1 .. Len(words) :
                after[n] = IF after[n - 1].ok
                           THEN config_registers_hr_write(after[n - 1].cfg, after[n - 1].status,
                                                          words[n][1], words[n][2])
                           ELSE after[n - 1]
           /\ write_multiple(c, s, words) = after[Len(words)]
<1> DEFINE L == Len(words)
           Base == [ok |-> TRUE, cfg |-> c, status |-> s]
           One(p, n) == IF p.ok
                        THEN config_registers_hr_write(p.cfg, p.status, words[n][1], words[n][2])
                        ELSE p
           Rec(f, m) == f = [n \in 0 .. m |-> IF n = 0 THEN Base ELSE One(f[n - 1], n)]
           S == {m \in Nat : m <= L => \E f : Rec(f, m)}
<1> HIDE DEF Base, One
<1>1. L \in Nat
  OBVIOUS
<1>2. 0 \in S
  <2>1. Rec([n \in 0 .. 0 |-> Base], 0)
    OBVIOUS
  <2> QED BY <2>1
<1>3. ASSUME NEW m \in Nat, m \in S PROVE m + 1 \in S
  <2> SUFFICES ASSUME m + 1 <= L PROVE \E f : Rec(f, m + 1)
    OBVIOUS
  <2>1. PICK f : Rec(f, m)
    BY <1>1, <1>3
  <2> DEFINE g == [n \in 0 .. m + 1 |-> IF n = m + 1 THEN One(f[m], m + 1) ELSE f[n]]
  <2>2. \A n \in 0 .. m : g[n] = f[n]
    OBVIOUS
  <2>3. ASSUME NEW n \in 0 .. m + 1 PROVE g[n] = IF n = 0 THEN Base ELSE One(g[n - 1], n)
    <3>1. CASE n = m + 1
      BY <2>2, <3>1
    <3>2. CASE n = 0
      BY <2>1, <2>2, <3>2
    <3>3. CASE n \in 1 .. m
      <4>1. f[n] = One(f[n - 1], n)
        BY <2>1, <3>3
      <4>2. g[n] = f[n] /\ g[n - 1] = f[n - 1]
        BY <2>2, <3>3
      <4> QED BY <4>1, <4>2, <3>3
    <3> QED BY <3>1, <3>2, <3>3
  <2> HIDE DEF g
  <2>4. g = [n \in 0 .. m + 1 |-> g[n]]
    BY DEF g
  <2>5. Rec(g, m + 1)
    BY <2>3, <2>4
  <2> QED BY <2>5
<1>4. L \in S
  <2> HIDE DEF S, L
  <2>1. Nat \subseteq S
    BY <1>2, <1>3, NatSet
  <2> QED BY <1>1, <2>1
<1>5. \E f : Rec(f, L)
  BY <1>1, <1>4
<1> DEFINE after == CHOOSE f : Rec(f, L)
<1>6. Rec(after, L)
  BY <1>5
<1>7. write_multiple(c, s, words) = after[L]
  BY DEF write_multiple, Base, One
<1> HIDE DEF after
<1>8. after[0] = Base /\ \A n \in 1 .. L : after[n] = One(after[n - 1], n)
  BY <1>1, <1>6
<1> QED BY <1>7, <1>8 DEF Base, One

Status == {StatusOK, StatusInvalid, StatusReserved}

(* What several words leave: every register untouched by them keeps its       *)
(* value, also when a later word is refused, and if none is they are all kept. *)
LEMMA ManyWords ==
  ASSUME NEW c, ValidConfig(c), NEW s \in Status, NEW words \in Seq(Writing), NEW w,
         w = write_multiple(c, s, words)
  PROVE  /\ ValidConfig(w.cfg) /\ w.status \in Status
         /\ \A q \in Register :
              \/ At(w.cfg, q) = At(c, q)
              \/ \E n \in 1 .. Len(words) :
                   words[n][1] = q /\ At(w.cfg, q) = Kept(q[3], words[n][2])
         /\ w.ok /\ (\A m, n \in 1 .. Len(words) : words[m][1] = words[n][1] => m = n)
            => \A n \in 1 .. Len(words) : At(w.cfg, words[n][1]) = Kept(words[n][1][3], words[n][2])
<1> DEFINE L == Len(words)
           R(n) == words[n][1]
           V(n) == words[n][2]
           Apart == \A m, n \in 1 .. L : R(m) = R(n) => m = n
<1>1. PICK after :
        /\ after[0] = [ok |-> TRUE, cfg |-> c, status |-> s]
        /\ \A n \in 1 .. L :
             after[n] = IF after[n - 1].ok
                        THEN config_registers_hr_write(after[n - 1].cfg, after[n - 1].status, R(n), V(n))
                        ELSE after[n - 1]
        /\ write_multiple(c, s, words) = after[L]
  BY WordByWord
<1>2. L \in Nat /\ \A n \in 1 .. L : R(n) \in Register /\ V(n) \in Word
  BY DEF Writing
<1> DEFINE Typed(k) == ValidConfig(after[k].cfg) /\ after[k].status \in Status
           Touched(k) == \A q \in Register :
             \/ At(after[k].cfg, q) = At(c, q)
             \/ \E n \in 1 .. k : R(n) = q /\ At(after[k].cfg, q) = Kept(q[3], V(n))
           Taken(k) == after[k].ok /\ Apart =>
             \A n \in 1 .. k : At(after[k].cfg, R(n)) = Kept(R(n)[3], V(n))
           S == {k \in Nat : k <= L => Typed(k) /\ Touched(k) /\ Taken(k)}
<1> HIDE DEF L, R, V
<1>3. 0 \in S
  BY <1>1
<1>4. ASSUME NEW k \in Nat, k \in S PROVE k + 1 \in S
  <2> SUFFICES ASSUME k + 1 <= L PROVE Typed(k + 1) /\ Touched(k + 1) /\ Taken(k + 1)
    OBVIOUS
  <2> DEFINE p == after[k]
             w1 == after[k + 1]
  <2>1. Typed(k) /\ Touched(k) /\ Taken(k)
    BY <1>2, <1>4
  <2>2. k + 1 \in 1 .. L /\ R(k + 1) \in Register /\ V(k + 1) \in Word
    BY <1>2
  <2>3. w1 = IF p.ok THEN config_registers_hr_write(p.cfg, p.status, R(k + 1), V(k + 1)) ELSE p
    BY <1>1, <2>2
  <2>4. CASE ~p.ok
    <3>1. w1 = p
      BY <2>3, <2>4
    <3> QED BY <2>1, <2>4, <3>1
  <2>5. CASE p.ok
    <3>1. w1 = config_registers_hr_write(p.cfg, p.status, R(k + 1), V(k + 1))
      BY <2>3, <2>5
    <3>2. /\ ValidConfig(w1.cfg)
          /\ w1.status \in {p.status, StatusOK, StatusInvalid, StatusReserved}
          /\ \A q \in Register : q # R(k + 1) => At(w1.cfg, q) = At(p.cfg, q)
          /\ At(w1.cfg, R(k + 1)) \in {At(p.cfg, R(k + 1)), Kept(R(k + 1)[3], V(k + 1))}
          /\ w1.ok => At(w1.cfg, R(k + 1)) = Kept(R(k + 1)[3], V(k + 1))
      <4> DEFINE c1 == p.cfg
                 s1 == p.status
                 r1 == R(k + 1)
                 v1 == V(k + 1)
      <4>1. ValidConfig(c1)
        BY <2>1
      <4>2. r1 \in Register /\ v1 \in Word /\ w1 = config_registers_hr_write(c1, s1, r1, v1)
        BY <2>2, <3>1
      <4> HIDE DEF w1, c1, s1, r1, v1
      <4>3. /\ ValidConfig(w1.cfg)
            /\ w1.status \in {s1, StatusOK, StatusInvalid, StatusReserved}
            /\ \A q \in Register : q # r1 => At(w1.cfg, q) = At(c1, q)
            /\ At(w1.cfg, r1) \in {At(c1, r1), Kept(r1[3], v1)}
            /\ w1.ok => At(w1.cfg, r1) = Kept(r1[3], v1)
        <5>1. ValidConfig(w1.cfg)
          BY <4>1, <4>2, OneWord
        <5>2. w1.status \in {s1, StatusOK, StatusInvalid, StatusReserved}
          BY <4>1, <4>2, OneWord
        <5>3. \A q \in Register : q # r1 => At(w1.cfg, q) = At(c1, q)
          BY <4>1, <4>2, OneWord
        <5>4. At(w1.cfg, r1) \in {At(c1, r1), Kept(r1[3], v1)}
          BY <4>1, <4>2, OneWord
        <5>5. ASSUME w1.ok PROVE At(w1.cfg, r1) = Kept(r1[3], v1)
          BY <4>1, <4>2, <5>5, OneAccepted
        <5> QED BY <5>1, <5>2, <5>3, <5>4, <5>5
      <4> QED BY <4>3, Zenon DEF c1, s1, r1, v1
    <3>3. Typed(k + 1)
      BY <2>1, <3>2 DEF Status
    <3>4. Touched(k + 1)
      <4> SUFFICES ASSUME NEW q \in Register
                   PROVE  \/ At(w1.cfg, q) = At(c, q)
                          \/ \E n \in 1 .. k + 1 : R(n) = q /\ At(w1.cfg, q) = Kept(q[3], V(n))
        OBVIOUS
      <4>1. CASE q = R(k + 1) /\ At(w1.cfg, q) = Kept(q[3], V(k + 1))
        BY <4>1
      <4>2. CASE At(w1.cfg, q) = At(p.cfg, q)
        BY <2>1, <4>2
      <4> QED BY <3>2, <4>1, <4>2
    <3>5. Taken(k + 1)
      <4> SUFFICES ASSUME w1.ok, Apart, NEW n \in 1 .. k + 1
                   PROVE  At(w1.cfg, R(n)) = Kept(R(n)[3], V(n))
        OBVIOUS
      <4>1. CASE n = k + 1
        BY <3>2, <4>1
      <4>2. CASE n \in 1 .. k
        <5>1. R(n) # R(k + 1) /\ R(n) \in Register
          BY <1>2, <2>2, <4>2
        <5>2. At(p.cfg, R(n)) = Kept(R(n)[3], V(n))
          BY <2>1, <2>5, <4>2
        <5> QED BY <3>2, <5>1, <5>2
      <4> QED BY <4>1, <4>2
    <3> QED BY <3>3, <3>4, <3>5
  <2> QED BY <2>4, <2>5
<1>5. L \in S
  <2> HIDE DEF S
  <2>1. Nat \subseteq S
    BY <1>3, <1>4, NatSet
  <2> QED BY <1>2, <2>1
<1>6. Typed(L) /\ Touched(L) /\ Taken(L) /\ w = after[L]
  BY <1>1, <1>2, <1>5
<1> QED BY <1>6 DEF L, R, V

-------------------------------------------------------------------------------
(* The factory settings are valid. *)
LEMMA FactoryParts ==
  /\ FactoryGlobals \in [In(GlobalFields) -> Word] /\ ValidGlobals(FactoryGlobals)
  /\ \A i \in Channel : FactoryProfile(i) \in [In(ProfileFields) -> Word] /\ ValidProfile(FactoryProfile(i))
  /\ \A i \in Slot : FactoryBinding(i) \in [In(BindingFields) -> Word]
<1>1. /\ {0, 1, 2, 3, 4, 8, 15, 20, 30, 50, 60, 80} \subseteq Word
      /\ {100, 255, 300, 500, 700, 800, 850, 900, 1000, 1023} \subseteq Word
  BY WordRange DEF Word
<1>2. FactoryGlobals \in [In(GlobalFields) -> Word]
  BY <1>1, Fields DEF FactoryGlobals
<1>3. ValidGlobals(FactoryGlobals)
  BY Sizes DEF FactoryGlobals, ValidGlobals
<1>4. Plain \in [In(ProfileFields) -> Word]
  BY <1>1, Fields DEF Plain, LevelTop
<1>5. ASSUME NEW i \in Channel PROVE FactoryProfile(i) \in [In(ProfileFields) -> Word]
  <2>1. CASE i = 1
    <3>1. FactoryProfile(i) = [Plain EXCEPT !.min_level = 80, !.max_level = 900, !.default_level = 700,
                                            !.night_level = 80, !.fade_on = 500, !.fade_off = 500]
      BY <2>1 DEF FactoryProfile
    <3> DEFINE p == [Plain EXCEPT !.min_level = 80, !.max_level = 900, !.default_level = 700]
    <3>0. 80 \in Word /\ 900 \in Word /\ 700 \in Word /\ 500 \in Word
      BY <1>1
    <3>2. p \in [In(ProfileFields) -> Word]
      BY <1>4, <3>0
    <3> HIDE DEF p
    <3>3. [p EXCEPT !.night_level = 80, !.fade_on = 500, !.fade_off = 500] \in [In(ProfileFields) -> Word]
      BY <3>0, <3>2
    <3> QED BY <3>1, <3>3 DEF p
  <2>2. CASE i = 2
    <3>1. FactoryProfile(i) = [Plain EXCEPT !.min_level = 60, !.max_level = 850, !.default_level = 700,
                                            !.night_level = 60, !.fade_on = 300, !.fade_off = 300]
      BY <2>2 DEF FactoryProfile
    <3> DEFINE p == [Plain EXCEPT !.min_level = 60, !.max_level = 850, !.default_level = 700]
    <3>0. 60 \in Word /\ 850 \in Word /\ 700 \in Word /\ 300 \in Word
      BY <1>1
    <3>2. p \in [In(ProfileFields) -> Word]
      BY <1>4, <3>0
    <3> HIDE DEF p
    <3>3. [p EXCEPT !.night_level = 60, !.fade_on = 300, !.fade_off = 300] \in [In(ProfileFields) -> Word]
      BY <3>0, <3>2
    <3> QED BY <3>1, <3>3 DEF p
  <2>3. CASE i = 3
    <3>1. FactoryProfile(i) = [Plain EXCEPT !.min_level = 100, !.night_level = 100]
      BY <2>3 DEF FactoryProfile
    <3>2. 100 \in Word
      BY <1>1
    <3> QED BY <1>4, <3>1, <3>2
  <2>4. CASE i \notin {1, 2, 3}
    BY <1>4, <2>4 DEF FactoryProfile
  <2> QED BY <2>1, <2>2, <2>3, <2>4
<1>6. ASSUME NEW i \in Channel PROVE ValidProfile(FactoryProfile(i))
  BY DEF FactoryProfile, ValidProfile, Plain, LevelTop
<1>7. Unused \in [In(BindingFields) -> Word]
  BY <1>1 DEF Unused
<1>8. ASSUME NEW i \in Slot PROVE FactoryBinding(i) \in [In(BindingFields) -> Word]
  BY <1>1, <1>7, Fields DEF FactoryBinding, Button, Rocker, Momentary, Latching, ToChannel, NoInput
<1> QED BY <1>2, <1>3, <1>5, <1>6, <1>8

LEMMA FactoryIsValid == ValidConfig(ddm_config_set_defaults)
<1> DEFINE c == ddm_config_set_defaults
<1>1. /\ c.global = <<FactoryGlobals>>
      /\ c.profile = [i \in Channel |-> FactoryProfile(i)]
      /\ c.binding = [i \in Slot |-> FactoryBinding(i)]
      /\ c = [global |-> c.global, profile |-> c.profile, binding |-> c.binding]
  BY DEF ddm_config_set_defaults, Compose
<1> HIDE DEF c
<1>2. c \in Config
  BY <1>1, FactoryParts DEF Config
<1>3. ActiveSlots(c) \subseteq 1 .. 3
  BY <1>1 DEF ActiveSlots, Globals, FactoryGlobals, Slot
<1>4. {1, 2, 3} \subseteq Channel /\ {1, 2, 3} \subseteq Slot
  BY Sizes DEF Channel, Slot
<1>5. /\ c.binding[1] = Button(Rocker, ToChannel, 1, 1, 2)
      /\ c.binding[2] = Button(Momentary, ToChannel, 2, 3, NoInput)
      /\ c.binding[3] = Button(Latching, ToChannel, 3, 4, NoInput)
  BY <1>1, <1>4 DEF FactoryBinding
<1>6. \A i \in {1, 2, 3} : ValidBinding(c.binding[i])
  <2>1. ValidBinding(c.binding[1])
    BY <1>4, <1>5 DEF ValidBinding, Button, Rocker, ToChannel, Inputs, LevelTop
  <2>2. ValidBinding(c.binding[2])
    BY <1>4, <1>5 DEF ValidBinding, Button, Rocker, Momentary, Latching, ToChannel, Inputs, LevelTop
  <2>3. ValidBinding(c.binding[3])
    BY <1>4, <1>5 DEF ValidBinding, Button, Rocker, Momentary, Latching, ToChannel, Inputs, LevelTop
  <2> QED BY <2>1, <2>2, <2>3
<1>7. /\ UsedInputs(c.binding[1]) = {1, 2}
      /\ UsedInputs(c.binding[2]) = {3}
      /\ UsedInputs(c.binding[3]) = {4}
  BY <1>5 DEF UsedInputs, Button, Rocker, Momentary, Latching
<1>8. \A i, j \in {1, 2, 3} : i # j => UsedInputs(c.binding[i]) \cap UsedInputs(c.binding[j]) = {}
  BY <1>7
<1>9. ddm_config_validate(c)
  <2>1. ValidGlobals(Globals(c)) /\ \A i \in Channel : ValidProfile(c.profile[i])
    BY <1>1, FactoryParts DEF Globals
  <2>2. ActiveSlots(c) \subseteq {1, 2, 3}
    BY <1>3
  <2> QED BY <1>6, <1>8, <2>1, <2>2 DEF ddm_config_validate
<1>10. ASSUME NEW r \in Register PROVE Holds(r[3], At(c, r))
  <2>1. CASE r = <<"global", 1, r[3]>> /\ r[3] \in In(GlobalFields)
    <3>1. At(c, r) = FactoryGlobals[r[3]]
      BY <1>1, <2>1 DEF At
    <3> QED BY <2>1, <3>1, Fields DEF Holds, Kept, ByteFields, FactoryGlobals
  <2>2. CASE r = <<"profile", r[2], r[3]>> /\ r[2] \in Channel /\ r[3] \in In(ProfileFields)
    <3>1. At(c, r) = FactoryProfile(r[2])[r[3]]
      BY <1>1, <2>2 DEF At
    <3>2. r[3] = "reserved" => FactoryProfile(r[2])[r[3]] = 0
      BY DEF FactoryProfile, Plain
    <3> QED BY <2>2, <3>1, <3>2, Fields DEF Holds, Kept, ByteFields
  <2>3. CASE r = <<"binding", r[2], r[3]>> /\ r[2] \in Slot /\ r[3] \in In(BindingFields)
    <3>1. At(c, r) = FactoryBinding(r[2])[r[3]]
      BY <1>1, <2>3 DEF At
    <3>2. ASSUME NEW b, b \in {Unused, Button(Rocker, ToChannel, 1, 1, 2),
                               Button(Momentary, ToChannel, 2, 3, NoInput),
                               Button(Latching, ToChannel, 3, 4, NoInput)},
                 NEW f \in In(BindingFields)
          PROVE  Holds(f, b[f])
      BY <3>2, Fields DEF Holds, Kept, ByteFields, Unused, Button, Rocker, Momentary, Latching,
                          ToChannel, NoInput
    <3>3. FactoryBinding(r[2]) \in {Unused, Button(Rocker, ToChannel, 1, 1, 2),
                               Button(Momentary, ToChannel, 2, 3, NoInput),
                               Button(Latching, ToChannel, 3, 4, NoInput)}
      BY DEF FactoryBinding
    <3> QED BY <2>3, <3>1, <3>2, <3>3
  <2> QED BY <2>1, <2>2, <2>3, RegisterCases
<1> QED BY <1>2, <1>9, <1>10 DEF ValidConfig, c

-------------------------------------------------------------------------------
(* The requests of the script, one by one. *)
Request ==
  [kind : {"words"}, words : Seq(Writing)]
    \cup [kind : {"address", "port"}, value : Word]
    \cup [kind : {"save", "read_link"}]
    \cup [kind : {"read"}, regs : Seq(Register)]
ScriptStep == [ask : Request, want : Seq(Word)]

LEMMA TargetTypes ==
  ASSUME NEW t \in Targets
  PROVE  t.cfg \in Config /\ t.link.address \in Word /\ t.link.port \in Word
BY ToolAssumption DEF ToolAssumption

LEMMA PutIsStep ==
  ASSUME NEW t \in Targets, NEW regs \in Seq(Register)
  PROVE  /\ Put(t, regs) \in ScriptStep
         /\ Put(t, regs).ask.kind = "words"
         /\ Put(t, regs).ask.words \in Seq(Writing)
         /\ Len(Put(t, regs).ask.words) = Len(regs)
         /\ \A k \in 1 .. Len(regs) : Put(t, regs).ask.words[k] = <<regs[k], At(t.cfg, regs[k])>>
         /\ Put(t, regs).want = <<>>
<1> DEFINE words == [k \in DOMAIN regs |-> <<regs[k], At(t.cfg, regs[k])>>]
<1>1. \A k \in 1 .. Len(regs) : regs[k] \in Register /\ At(t.cfg, regs[k]) \in Word
  BY TargetTypes, AtIsWord
<1>2. words \in Seq(Writing) /\ Len(words) = Len(regs)
  BY <1>1 DEF Writing
<1>3. Put(t, regs) = [ask |-> [kind |-> "words", words |-> words], want |-> <<>>]
  BY DEF Put, Words, Step
<1> HIDE DEF words
<1>4. Put(t, regs) \in ScriptStep
  BY <1>2, <1>3 DEF ScriptStep, Request
<1>5. \A k \in 1 .. Len(regs) : words[k] = <<regs[k], At(t.cfg, regs[k])>>
  BY DEF words
<1> QED BY <1>2, <1>3, <1>4, <1>5

LEMMA ZeroIsStep ==
  ASSUME NEW r \in Register
  PROVE  /\ Zero(r) \in ScriptStep
         /\ Zero(r).ask.kind = "words"
         /\ Zero(r).ask.words = <<<<r, 0>>>>
         /\ Zero(r).ask.words \in Seq(Writing)
         /\ Zero(r).want = <<>>
<1>1. <<<<r, 0>>>> \in Seq(Writing)
  BY WordRange DEF Writing, Word
<1>2. Zero(r) = [ask |-> [kind |-> "words", words |-> <<<<r, 0>>>>], want |-> <<>>]
  BY DEF Zero, Words, Step
<1> DEFINE words == <<<<r, 0>>>>
<1> HIDE DEF words
<1>3. [ask |-> [kind |-> "words", words |-> words], want |-> <<>>] \in ScriptStep
  BY <1>1 DEF ScriptStep, Request, words
<1> QED BY <1>1, <1>2, <1>3 DEF words

LEMMA GetIsStep ==
  ASSUME NEW t \in Targets, NEW regs \in Seq(Register)
  PROVE  /\ Get(t, regs) \in ScriptStep
         /\ Get(t, regs).ask = [kind |-> "read", regs |-> regs]
         /\ Get(t, regs).want = [k \in DOMAIN regs |-> At(t.cfg, regs[k])]
<1>1. \A k \in 1 .. Len(regs) : regs[k] \in Register /\ At(t.cfg, regs[k]) \in Word
  BY TargetTypes, AtIsWord
<1>2. [k \in DOMAIN regs |-> At(t.cfg, regs[k])] \in Seq(Word)
  BY <1>1
<1> QED BY <1>2 DEF ScriptStep, Request, Get, Step

LEMMA RegisterLists ==
  /\ GlobalRegs \in Seq(Register) /\ Len(GlobalRegs) = 7
  /\ \A k \in 1 .. 7 : GlobalRegs[k] = Global(GlobalFields[k])
  /\ \A i \in Channel :
       /\ ProfileRegs(i) \in Seq(Register) /\ Len(ProfileRegs(i)) = 8
       /\ \A k \in 1 .. 8 : ProfileRegs(i)[k] = Profile(i, ProfileFields[k])
  /\ \A i \in Slot :
       /\ BindingRegs(i) \in Seq(Register) /\ Len(BindingRegs(i)) = 10
       /\ \A k \in 1 .. 10 : BindingRegs(i)[k] = Binding(i, BindingFields[k])
<1>1. /\ DOMAIN GlobalFields = 1 .. 7 /\ DOMAIN ProfileFields = 1 .. 8 /\ DOMAIN BindingFields = 1 .. 10
  BY DEF GlobalFields, ProfileFields, BindingFields
<1>2. \A k \in 1 .. 7 : Global(GlobalFields[k]) \in Register
  BY <1>1 DEF Register, In
<1>3. \A i \in Channel, k \in 1 .. 8 : Profile(i, ProfileFields[k]) \in Register
  BY <1>1 DEF Register, In
<1>4. \A i \in Slot, k \in 1 .. 10 : Binding(i, BindingFields[k]) \in Register
  BY <1>1 DEF Register, In
<1> QED BY <1>1, <1>2, <1>3, <1>4 DEF GlobalRegs, ProfileRegs, BindingRegs

LEMMA Piece ==
  ASSUME NEW X, NEW s \in Seq(X), NEW m \in Nat, NEW n \in Nat, 1 <= m, m <= n, n <= Len(s)
  PROVE  /\ SubSeq(s, m, n) \in Seq(X) /\ Len(SubSeq(s, m, n)) = n - m + 1
         /\ \A k \in Nat : 1 <= k /\ k <= n - m + 1 => SubSeq(s, m, n)[k] = s[m + k - 1]
OBVIOUS

LEMMA TailPiece ==
  ASSUME NEW X, NEW s \in Seq(X), s # <<>>
  PROVE  /\ Tail(s) \in Seq(X) /\ Len(Tail(s)) = Len(s) - 1
         /\ \A k \in Nat : 1 <= k /\ k <= Len(s) - 1 => Tail(s)[k] = s[k + 1]
BY HeadTailProperties

(* The parts of a binding's registers the script uses. *)
LEMMA BindingParts ==
  ASSUME NEW i \in Slot
  PROVE  /\ Tail(BindingRegs(i)) \in Seq(Register) /\ Len(Tail(BindingRegs(i))) = 9
         /\ \A k \in 1 .. 9 : Tail(BindingRegs(i))[k] = Binding(i, BindingFields[k + 1])
         /\ SubSeq(BindingRegs(i), 1, 8) \in Seq(Register) /\ Len(SubSeq(BindingRegs(i), 1, 8)) = 8
         /\ \A k \in 1 .. 8 : SubSeq(BindingRegs(i), 1, 8)[k] = Binding(i, BindingFields[k])
         /\ SubSeq(BindingRegs(i), 9, 10) \in Seq(Register) /\ Len(SubSeq(BindingRegs(i), 9, 10)) = 2
         /\ \A k \in 1 .. 2 : SubSeq(BindingRegs(i), 9, 10)[k] = Binding(i, BindingFields[k + 8])
<1> DEFINE s == BindingRegs(i)
<1>1. s \in Seq(Register) /\ Len(s) = 10
  BY RegisterLists
<1>2. \A k \in 1 .. 10 : s[k] = Binding(i, BindingFields[k])
  BY RegisterLists
<1> HIDE DEF s
<1>3. s # <<>>
  BY <1>1
<1>4. Tail(s) \in Seq(Register) /\ Len(Tail(s)) = 9
  BY <1>1, <1>3, TailPiece
<1>5. ASSUME NEW k \in 1 .. 9 PROVE Tail(s)[k] = Binding(i, BindingFields[k + 1])
  <2>1. k \in Nat /\ 1 <= k /\ k <= Len(s) - 1 /\ k + 1 \in 1 .. 10
    BY <1>1
  <2>2. Tail(s)[k] = s[k + 1]
    BY <1>1, <1>3, <2>1, TailPiece
  <2> QED BY <1>2, <2>1, <2>2
<1>6. SubSeq(s, 1, 8) \in Seq(Register)
  <2>1. 1 \in Nat /\ 8 \in Nat /\ 1 <= 1 /\ 1 <= 8 /\ 8 <= Len(s)
    BY <1>1
  <2> QED BY <1>1, <2>1, Piece, Zenon
<1>7. SubSeq(s, 9, 10) \in Seq(Register)
  <2>1. 9 \in Nat /\ 10 \in Nat /\ 1 <= 9 /\ 9 <= 10 /\ 10 <= Len(s)
    BY <1>1
  <2> QED BY <1>1, <2>1, Piece, Zenon
<1>8. Len(SubSeq(s, 1, 8)) = 8 /\ Len(SubSeq(s, 9, 10)) = 2
  BY <1>1
<1>9. \A k \in 1 .. 8 : SubSeq(s, 1, 8)[k] = s[k]
  BY <1>1
<1>10. \A k \in 1 .. 2 : SubSeq(s, 9, 10)[k] = s[k + 8]
  BY <1>1
<1>11. \A k \in 1 .. 8 : SubSeq(s, 1, 8)[k] = Binding(i, BindingFields[k])
  BY <1>2, <1>9
<1>12. \A k \in 1 .. 2 : SubSeq(s, 9, 10)[k] = Binding(i, BindingFields[k + 8])
  BY <1>2, <1>10
<1> QED BY <1>4, <1>5, <1>6, <1>7, <1>8, <1>11, <1>12 DEF s

LEMMA Concat ==
  ASSUME NEW X, NEW a \in Seq(X), NEW b \in Seq(X)
  PROVE  /\ a \o b \in Seq(X) /\ Len(a \o b) = Len(a) + Len(b)
         /\ \A k \in 1 .. Len(a) : (a \o b)[k] = a[k]
         /\ \A k \in 1 .. Len(b) : (a \o b)[Len(a) + k] = b[k]
OBVIOUS

LEMMA GlobalWord == ASSUME NEW c \in Config PROVE Globals(c).count \in Word
<1>1. "count" \in In(GlobalFields)
  BY Fields
<1> QED BY <1>1 DEF Config, Globals

(* Where each request of write_device stands. *)
LEMMA WriteTable ==
  ASSUME NEW t \in Targets, NEW s, s = write_device(t)
  PROVE  /\ s \in Seq(ScriptStep) /\ Len(s) = Channels + 3 * Slots + 5
         /\ s[1] = Zero(Global("count"))
         /\ \A i \in Channel : s[1 + i] = Put(t, ProfileRegs(i))
         /\ \A i \in Slot : s[1 + Channels + i] = Zero(Binding(i, "enabled"))
         /\ \A i \in Slot : s[1 + Channels + Slots + i] = Put(t, Tail(BindingRegs(i)))
         /\ \A i \in Slot : s[1 + Channels + 2 * Slots + i] = Put(t, <<Binding(i, "enabled")>>)
         /\ s[Channels + 3 * Slots + 2] = Put(t, GlobalRegs)
         /\ s[Channels + 3 * Slots + 3] = Step([kind |-> "address", value |-> t.link.address], <<>>)
         /\ s[Channels + 3 * Slots + 4] = Step([kind |-> "port", value |-> t.link.port], <<>>)
         /\ s[Channels + 3 * Slots + 5] = Step([kind |-> "save"], <<>>)
<1> DEFINE C == Channels
           S == Slots
           a == <<Zero(Global("count"))>>
           b == Profiles(t)
           c == Disable
           d == Bindings(t)
           e == Enable(t)
           f == Finish(t)
<1>1. Global("count") \in Register /\ \A i \in Slot : Binding(i, "enabled") \in Register
  BY Fields DEF Register
<1>2. a \in Seq(ScriptStep) /\ Len(a) = 1 /\ a[1] = Zero(Global("count"))
  BY <1>1, ZeroIsStep
<1>3. b \in Seq(ScriptStep) /\ Len(b) = C /\ \A i \in Channel : b[i] = Put(t, ProfileRegs(i))
  <2>1. \A i \in Channel : Put(t, ProfileRegs(i)) \in ScriptStep
    BY RegisterLists, PutIsStep
  <2> QED BY <2>1, Sizes DEF Profiles, Channel
<1>4. c \in Seq(ScriptStep) /\ Len(c) = S /\ \A i \in Slot : c[i] = Zero(Binding(i, "enabled"))
  <2>1. \A i \in Slot : Zero(Binding(i, "enabled")) \in ScriptStep
    BY <1>1, ZeroIsStep
  <2> QED BY <2>1, Sizes DEF Disable, Slot
<1>5. d \in Seq(ScriptStep) /\ Len(d) = S /\ \A i \in Slot : d[i] = Put(t, Tail(BindingRegs(i)))
  <2>1. \A i \in Slot : Put(t, Tail(BindingRegs(i))) \in ScriptStep
    BY BindingParts, PutIsStep
  <2> QED BY <2>1, Sizes DEF Bindings, Slot
<1>6. e \in Seq(ScriptStep) /\ Len(e) = S /\ \A i \in Slot : e[i] = Put(t, <<Binding(i, "enabled")>>)
  <2>1. \A i \in Slot : <<Binding(i, "enabled")>> \in Seq(Register)
    BY <1>1
  <2>2. \A i \in Slot : Put(t, <<Binding(i, "enabled")>>) \in ScriptStep
    BY <2>1, PutIsStep
  <2> QED BY <2>2, Sizes DEF Enable, Slot
<1>7. /\ f \in Seq(ScriptStep) /\ Len(f) = 4
      /\ f[1] = Put(t, GlobalRegs)
      /\ f[2] = Step([kind |-> "address", value |-> t.link.address], <<>>)
      /\ f[3] = Step([kind |-> "port", value |-> t.link.port], <<>>)
      /\ f[4] = Step([kind |-> "save"], <<>>)
  <2>1. Put(t, GlobalRegs) \in ScriptStep
    BY RegisterLists, PutIsStep
  <2>2. /\ Step([kind |-> "address", value |-> t.link.address], <<>>) \in ScriptStep
        /\ Step([kind |-> "port", value |-> t.link.port], <<>>) \in ScriptStep
        /\ Step([kind |-> "save"], <<>>) \in ScriptStep
    BY TargetTypes DEF Step, ScriptStep, Request
  <2> QED BY <2>1, <2>2 DEF Finish
<1>8. s = ((((a \o b) \o c) \o d) \o e) \o f
  BY DEF write_device
<1> HIDE DEF a, b, c, d, e, f
<1> DEFINE ab == a \o b
           ac == ab \o c
           ad == ac \o d
           ae == ad \o e
<1>9. /\ ab \in Seq(ScriptStep) /\ Len(ab) = 1 + C
      /\ \A k \in 1 .. 1 : ab[k] = a[k]
      /\ \A k \in 1 .. C : ab[1 + k] = b[k]
  <2>1. /\ ab \in Seq(ScriptStep) /\ Len(ab) = Len(a) + Len(b)
        /\ \A k \in 1 .. Len(a) : ab[k] = a[k]
        /\ \A k \in 1 .. Len(b) : ab[Len(a) + k] = b[k]
    <3>1. a \in Seq(ScriptStep) /\ b \in Seq(ScriptStep)
      BY <1>2, <1>3
    <3> QED BY <3>1, Concat
  <2>2. Len(a) = 1 /\ Len(b) = C
    BY <1>2, <1>3
  <2> QED BY <2>1, <2>2, Sizes
<1> HIDE DEF ab
<1>10. /\ ac \in Seq(ScriptStep) /\ Len(ac) = 1 + C + S
       /\ \A k \in 1 .. 1 + C : ac[k] = ab[k]
       /\ \A k \in 1 .. S : ac[1 + C + k] = c[k]
  <2>1. /\ ac \in Seq(ScriptStep) /\ Len(ac) = Len(ab) + Len(c)
        /\ \A k \in 1 .. Len(ab) : ac[k] = ab[k]
        /\ \A k \in 1 .. Len(c) : ac[Len(ab) + k] = c[k]
    <3>1. ab \in Seq(ScriptStep) /\ c \in Seq(ScriptStep)
      BY <1>9, <1>4
    <3> QED BY <3>1, Concat
  <2>2. Len(ab) = 1 + C /\ Len(c) = S
    BY <1>9, <1>4
  <2> QED BY <2>1, <2>2, Sizes
<1> HIDE DEF ac
<1>11. /\ ad \in Seq(ScriptStep) /\ Len(ad) = 1 + C + 2 * S
       /\ \A k \in 1 .. 1 + C + S : ad[k] = ac[k]
       /\ \A k \in 1 .. S : ad[1 + C + S + k] = d[k]
  <2>1. /\ ad \in Seq(ScriptStep) /\ Len(ad) = Len(ac) + Len(d)
        /\ \A k \in 1 .. Len(ac) : ad[k] = ac[k]
        /\ \A k \in 1 .. Len(d) : ad[Len(ac) + k] = d[k]
    <3>1. ac \in Seq(ScriptStep) /\ d \in Seq(ScriptStep)
      BY <1>10, <1>5
    <3> QED BY <3>1, Concat
  <2>2. Len(ac) = 1 + C + S /\ Len(d) = S
    BY <1>10, <1>5
  <2> QED BY <2>1, <2>2, Sizes
<1> HIDE DEF ad
<1>12. /\ ae \in Seq(ScriptStep) /\ Len(ae) = 1 + C + 3 * S
       /\ \A k \in 1 .. 1 + C + 2 * S : ae[k] = ad[k]
       /\ \A k \in 1 .. S : ae[1 + C + 2 * S + k] = e[k]
  <2>1. /\ ae \in Seq(ScriptStep) /\ Len(ae) = Len(ad) + Len(e)
        /\ \A k \in 1 .. Len(ad) : ae[k] = ad[k]
        /\ \A k \in 1 .. Len(e) : ae[Len(ad) + k] = e[k]
    <3>1. ad \in Seq(ScriptStep) /\ e \in Seq(ScriptStep)
      BY <1>11, <1>6
    <3> QED BY <3>1, Concat
  <2>2. Len(ad) = 1 + C + 2 * S /\ Len(e) = S
    BY <1>11, <1>6
  <2> QED BY <2>1, <2>2, Sizes
<1> HIDE DEF ae
<1>13. s = ae \o f
  BY <1>8 DEF ae, ad, ac, ab
<1>14. /\ s \in Seq(ScriptStep) /\ Len(s) = C + 3 * S + 5
       /\ \A k \in 1 .. 1 + C + 3 * S : s[k] = ae[k]
       /\ \A k \in 1 .. 4 : s[1 + C + 3 * S + k] = f[k]
  <2>1. /\ s \in Seq(ScriptStep) /\ Len(s) = Len(ae) + Len(f)
        /\ \A k \in 1 .. Len(ae) : s[k] = ae[k]
        /\ \A k \in 1 .. Len(f) : s[Len(ae) + k] = f[k]
    <3>1. ae \in Seq(ScriptStep) /\ f \in Seq(ScriptStep)
      BY <1>12, <1>7
    <3> QED BY <1>13, <3>1, Concat
  <2>2. Len(ae) = 1 + C + 3 * S /\ Len(f) = 4
    BY <1>12, <1>7
  <2> QED BY <2>1, <2>2, Sizes
<1>15. ASSUME NEW k \in 1 .. 1 + C PROVE s[k] = ab[k]
  <2>1. k \in 1 .. 1 + C + S /\ k \in 1 .. 1 + C + 2 * S /\ k \in 1 .. 1 + C + 3 * S
    BY Sizes
  <2> QED BY <1>10, <1>11, <1>12, <1>14, <2>1
<1>16. s[1] = Zero(Global("count"))
  BY <1>2, <1>9, <1>15, Sizes
<1>17. ASSUME NEW i \in Channel PROVE s[1 + i] = Put(t, ProfileRegs(i))
  <2>1. i \in 1 .. C /\ 1 + i \in 1 .. 1 + C
    BY Sizes DEF Channel
  <2> QED BY <1>3, <1>9, <1>15, <2>1
<1>18. ASSUME NEW i \in Slot PROVE s[1 + C + i] = Zero(Binding(i, "enabled"))
  <2> DEFINE k == 1 + C + i
  <2>1. i \in 1 .. S /\ k \in 1 .. 1 + C + S /\ k \in 1 .. 1 + C + 2 * S /\ k \in 1 .. 1 + C + 3 * S
    BY Sizes DEF Slot
  <2>2. s[k] = ac[k]
    BY <1>11, <1>12, <1>14, <2>1
  <2>3. ac[k] = c[i]
    BY <1>10, <2>1
  <2> QED BY <1>4, <2>2, <2>3
<1>19. ASSUME NEW i \in Slot PROVE s[1 + C + S + i] = Put(t, Tail(BindingRegs(i)))
  <2> DEFINE k == 1 + C + S + i
  <2>1. i \in 1 .. S /\ k \in 1 .. 1 + C + 2 * S /\ k \in 1 .. 1 + C + 3 * S
    BY Sizes DEF Slot
  <2>2. s[k] = ad[k]
    BY <1>12, <1>14, <2>1
  <2>3. ad[k] = d[i]
    BY <1>11, <2>1
  <2> QED BY <1>5, <2>2, <2>3
<1>20. ASSUME NEW i \in Slot PROVE s[1 + C + 2 * S + i] = Put(t, <<Binding(i, "enabled")>>)
  <2> DEFINE k == 1 + C + 2 * S + i
  <2>1. i \in 1 .. S /\ k \in 1 .. 1 + C + 3 * S
    BY Sizes DEF Slot
  <2>2. s[k] = ae[k]
    BY <1>14, <2>1
  <2>3. ae[k] = e[i]
    BY <1>12, <2>1
  <2> QED BY <1>6, <2>2, <2>3
<1>21. /\ s[1 + C + 3 * S + 1] = f[1] /\ s[1 + C + 3 * S + 2] = f[2]
       /\ s[1 + C + 3 * S + 3] = f[3] /\ s[1 + C + 3 * S + 4] = f[4]
  BY <1>14
<1>22. /\ 1 + C + 3 * S + 1 = C + 3 * S + 2 /\ 1 + C + 3 * S + 2 = C + 3 * S + 3
       /\ 1 + C + 3 * S + 3 = C + 3 * S + 4 /\ 1 + C + 3 * S + 4 = C + 3 * S + 5
  BY Sizes
<1> QED BY <1>7, <1>14, <1>16, <1>17, <1>18, <1>19, <1>20, <1>21, <1>22

(* Where each request of read_device stands. *)
LEMMA ReadTable ==
  ASSUME NEW t \in Targets, NEW s, s = read_device(t), NEW n, n = Globals(t.cfg).count
  PROVE  /\ n \in Nat /\ n <= Slots
         /\ s \in Seq(ScriptStep) /\ Len(s) = 2 + Channels + 2 * n
         /\ s[1] = Step([kind |-> "read_link"], <<t.link.address, t.link.port>>)
         /\ s[2] = Get(t, GlobalRegs)
         /\ \A i \in Channel : s[2 + i] = Get(t, ProfileRegs(i))
         /\ \A i \in 1 .. n : s[2 + Channels + i] = Get(t, SubSeq(BindingRegs(i), 1, 8))
         /\ \A i \in 1 .. n : s[2 + Channels + n + i] = Get(t, SubSeq(BindingRegs(i), 9, 10))
<1> DEFINE C == Channels
           a == <<Step([kind |-> "read_link"], <<t.link.address, t.link.port>>), Get(t, GlobalRegs)>>
           b == [i \in Channel |-> Get(t, ProfileRegs(i))]
           c == [i \in Counted(t) |-> Get(t, SubSeq(BindingRegs(i), 1, 8))]
           d == [i \in Counted(t) |-> Get(t, SubSeq(BindingRegs(i), 9, 10))]
<1>1. n \in Nat /\ n <= Slots /\ Counted(t) = 1 .. n /\ \A i \in 1 .. n : i \in Slot
  <2>1. n \in Nat
    BY TargetTypes, GlobalWord, WordRange DEF Word
  <2>2. n <= Slots
    BY ToolAssumption DEF ToolAssumption
  <2> QED BY <2>1, <2>2, Sizes DEF Slot, Counted
<1>2. /\ a \in Seq(ScriptStep) /\ Len(a) = 2
      /\ a[1] = Step([kind |-> "read_link"], <<t.link.address, t.link.port>>) /\ a[2] = Get(t, GlobalRegs)
  <2>1. Get(t, GlobalRegs) \in ScriptStep
    BY RegisterLists, GetIsStep
  <2>2. <<t.link.address, t.link.port>> \in Seq(Word)
    BY TargetTypes
  <2>3. Step([kind |-> "read_link"], <<t.link.address, t.link.port>>) \in ScriptStep
    BY <2>2 DEF Step, ScriptStep, Request
  <2> QED BY <2>1, <2>3
<1>3. b \in Seq(ScriptStep) /\ Len(b) = C /\ \A i \in Channel : b[i] = Get(t, ProfileRegs(i))
  <2>1. \A i \in Channel : Get(t, ProfileRegs(i)) \in ScriptStep
    BY RegisterLists, GetIsStep
  <2> QED BY <2>1, Sizes DEF Channel
<1>4. /\ c \in Seq(ScriptStep) /\ Len(c) = n
      /\ \A i \in 1 .. n : c[i] = Get(t, SubSeq(BindingRegs(i), 1, 8))
  <2>1. \A i \in 1 .. n : Get(t, SubSeq(BindingRegs(i), 1, 8)) \in ScriptStep
    BY <1>1, BindingParts, GetIsStep
  <2> QED BY <1>1, <2>1
<1>5. /\ d \in Seq(ScriptStep) /\ Len(d) = n
      /\ \A i \in 1 .. n : d[i] = Get(t, SubSeq(BindingRegs(i), 9, 10))
  <2>1. \A i \in 1 .. n : Get(t, SubSeq(BindingRegs(i), 9, 10)) \in ScriptStep
    BY <1>1, BindingParts, GetIsStep
  <2> QED BY <1>1, <2>1
<1>6. s = ((a \o b) \o c) \o d
  BY DEF read_device
<1> HIDE DEF a, b, c, d
<1> DEFINE ab == a \o b
           ac == ab \o c
<1>7. /\ ab \in Seq(ScriptStep) /\ Len(ab) = 2 + C
      /\ \A k \in 1 .. 2 : ab[k] = a[k]
      /\ \A k \in 1 .. C : ab[2 + k] = b[k]
  <2>1. /\ ab \in Seq(ScriptStep) /\ Len(ab) = Len(a) + Len(b)
        /\ \A k \in 1 .. Len(a) : ab[k] = a[k]
        /\ \A k \in 1 .. Len(b) : ab[Len(a) + k] = b[k]
    <3>1. a \in Seq(ScriptStep) /\ b \in Seq(ScriptStep)
      BY <1>2, <1>3
    <3> QED BY <3>1, Concat
  <2>2. Len(a) = 2 /\ Len(b) = C
    BY <1>2, <1>3
  <2> QED BY <2>1, <2>2, <1>1, Sizes
<1> HIDE DEF ab
<1>8. /\ ac \in Seq(ScriptStep) /\ Len(ac) = 2 + C + n
      /\ \A k \in 1 .. 2 + C : ac[k] = ab[k]
      /\ \A k \in 1 .. n : ac[2 + C + k] = c[k]
  <2>1. /\ ac \in Seq(ScriptStep) /\ Len(ac) = Len(ab) + Len(c)
        /\ \A k \in 1 .. Len(ab) : ac[k] = ab[k]
        /\ \A k \in 1 .. Len(c) : ac[Len(ab) + k] = c[k]
    <3>1. ab \in Seq(ScriptStep) /\ c \in Seq(ScriptStep)
      BY <1>7, <1>4
    <3> QED BY <3>1, Concat
  <2>2. Len(ab) = 2 + C /\ Len(c) = n
    BY <1>7, <1>4
  <2> QED BY <2>1, <2>2, <1>1, Sizes
<1> HIDE DEF ac
<1>9. s = ac \o d
  BY <1>6 DEF ac, ab
<1>10. /\ s \in Seq(ScriptStep) /\ Len(s) = 2 + C + 2 * n
       /\ \A k \in 1 .. 2 + C + n : s[k] = ac[k]
       /\ \A k \in 1 .. n : s[2 + C + n + k] = d[k]
  <2>1. /\ s \in Seq(ScriptStep) /\ Len(s) = Len(ac) + Len(d)
        /\ \A k \in 1 .. Len(ac) : s[k] = ac[k]
        /\ \A k \in 1 .. Len(d) : s[Len(ac) + k] = d[k]
    <3>1. ac \in Seq(ScriptStep) /\ d \in Seq(ScriptStep)
      BY <1>8, <1>5
    <3> QED BY <1>9, <3>1, Concat
  <2>2. Len(ac) = 2 + C + n /\ Len(d) = n
    BY <1>8, <1>5
  <2> QED BY <2>1, <2>2, <1>1, Sizes
<1>11. ASSUME NEW k \in 1 .. 2 + C PROVE s[k] = ab[k]
  <2>1. k \in 1 .. 2 + C + n
    BY <1>1, Sizes
  <2> QED BY <1>8, <1>10, <2>1
<1>12. s[1] = a[1] /\ s[2] = a[2]
  <2>1. 1 \in 1 .. 2 + C /\ 2 \in 1 .. 2 + C
    BY Sizes
  <2> QED BY <1>7, <1>11, <2>1
<1>13. ASSUME NEW i \in Channel PROVE s[2 + i] = Get(t, ProfileRegs(i))
  <2>1. i \in 1 .. C /\ 2 + i \in 1 .. 2 + C
    BY Sizes DEF Channel
  <2> QED BY <1>3, <1>7, <1>11, <2>1
<1>14. ASSUME NEW i \in 1 .. n PROVE s[2 + C + i] = Get(t, SubSeq(BindingRegs(i), 1, 8))
  <2>1. 2 + C + i \in 1 .. 2 + C + n
    BY <1>1, Sizes
  <2> QED BY <1>4, <1>8, <1>10, <2>1
<1>15. ASSUME NEW i \in 1 .. n PROVE s[2 + C + n + i] = Get(t, SubSeq(BindingRegs(i), 9, 10))
  BY <1>5, <1>10
<1> QED BY <1>1, <1>2, <1>10, <1>12, <1>13, <1>14, <1>15

Writes == Channels + 3 * Slots + 5 \* requests of write_device

LEMMA ScriptTable ==
  ASSUME NEW t \in Targets, NEW s, s = Script[t]
  PROVE  /\ s \in Seq(ScriptStep) /\ Len(s) = Writes + Len(read_device(t)) /\ Len(s) > Writes
         /\ Writes \in Nat /\ Writes >= 17
         /\ \A k \in 1 .. Writes : s[k] = write_device(t)[k]
         /\ \A k \in 1 .. Len(read_device(t)) : s[Writes + k] = read_device(t)[k]
<1> DEFINE w == write_device(t)
           r == read_device(t)
<1>1. w \in Seq(ScriptStep) /\ Len(w) = Writes
  BY WriteTable DEF Writes
<1>2. r \in Seq(ScriptStep) /\ Len(r) >= 2
  <2> DEFINE n == Globals(t.cfg).count
  <2>1. n \in Nat /\ r \in Seq(ScriptStep) /\ Len(r) = 2 + Channels + 2 * n
    BY ReadTable
  <2> HIDE DEF n, r
  <2> QED BY <2>1, Sizes
<1>3. s = w \o r
  BY DEF Script
<1> HIDE DEF w, r
<1>4. Writes \in Nat /\ Writes >= 17
  BY Sizes DEF Writes
<1>5. /\ s \in Seq(ScriptStep) /\ Len(s) = Len(w) + Len(r)
      /\ \A k \in 1 .. Len(w) : s[k] = w[k]
      /\ \A k \in 1 .. Len(r) : s[Len(w) + k] = r[k]
  <2>1. w \in Seq(ScriptStep) /\ r \in Seq(ScriptStep)
    BY <1>1, <1>2
  <2> QED BY <1>3, <2>1, Concat
<1> QED BY <1>1, <1>2, <1>4, <1>5 DEF w, r

LEMMA NowIsStep ==
  ASSUME target \in Targets, Running
  PROVE  /\ Now \in ScriptStep /\ step \in Nat
         /\ Now.ask \in Request /\ Now.want \in Seq(Word) /\ Now.ask # Quiet
         /\ Now.ask.kind = "words" => Now.ask.words \in Seq(Writing)
         /\ Now.ask.kind \in {"address", "port"} => Now.ask.value \in Word
         /\ Now.ask.kind = "read" => Now.ask.regs \in Seq(Register)
<1>1. Script[target] \in Seq(ScriptStep)
  BY ScriptTable
<1>2. Now \in ScriptStep /\ step \in Nat
  BY <1>1 DEF Now, Running
<1>3. Now.ask \in Request /\ Now.want \in Seq(Word)
  BY <1>2 DEF ScriptStep
<1> HIDE DEF Now
<1> QED BY <1>2, <1>3 DEF Request, Quiet

-------------------------------------------------------------------------------
(* A request on the line is the one the tool is at, and an answer is for it:  *)
(* no answer comes late.                                                      *)
OneRequest ==
  /\ waiting => Running
  /\ rx # Quiet => waiting /\ rx = Now.ask /\ tx = Quiet
  /\ tx # Quiet => waiting

Typed == TypeOK /\ OneRequest

LEMMA FactoryLink == DefaultLink \in Link
<1>1. 67 \in Word
  BY WordRange DEF Word
<1>2. ddm_modbus_port_cfg_valid(67)
  BY DEF ddm_modbus_port_cfg_valid
<1> QED BY <1>1, <1>2 DEF DefaultLink, Link

LEMMA LoadedIsValid ==
  ASSUME NEW s, s = NoSaved \/ ValidSettings(s)
  PROVE  ValidSettings(Loaded(s))
BY FactoryIsValid, FactoryLink DEF Loaded, ValidSettings

LEMMA InitTyped == Init => Typed
<1> SUFFICES ASSUME Init PROVE Typed
  OBVIOUS
<1>1. saved = NoSaved \/ ValidSettings(saved)
  BY ToolAssumption DEF Init, ToolAssumption
<1>2. ValidSettings(Loaded(saved))
  BY <1>1, LoadedIsValid
<1>3. DeviceTypeOK
  BY <1>1, <1>2 DEF Init, DeviceInit, DeviceTypeOK, ValidSettings
<1>4. 1 \in 1 .. Len(Script[target])
  BY ScriptTable DEF Init
<1>5. Tries \in Nat /\ MaxFaults \in Nat
  BY ToolAssumption DEF ToolAssumption
<1>6. TypeOK
  <2>1. step \in 1 .. Len(Script[target])
    BY <1>4 DEF Init
  <2>2. tries \in 0 .. Tries /\ faults \in [FaultKind -> 0 .. MaxFaults]
    BY <1>5 DEF Init
  <2>3. target \in Targets /\ before \in Starts /\ waiting \in BOOLEAN
    BY DEF Init
  <2> QED BY <1>3, <2>1, <2>2, <2>3 DEF TypeOK
<1>7. OneRequest
  BY DEF Init, DeviceInit, OneRequest
<1> QED BY <1>6, <1>7 DEF Typed

LEMMA AddressFits == ASSUME NEW v, ValidAddress(v) PROVE v % 256 \in 1 .. 247
<1>1. v \in Nat /\ 1 <= v /\ v <= 247
  BY DEF ValidAddress
<1>2. v % 256 = v
  BY <1>1
<1> QED BY <1>1, <1>2

(* What the device does with a request keeps it valid. *)
LEMMA HandleKeepsDevice ==
  ASSUME Typed, Handle
  PROVE  DeviceTypeOK'
<1> USE DEF Typed, TypeOK, DeviceTypeOK
<1>1. ASSUME NEW kind, Receives(kind), kind # "none"
      PROVE  rx # Quiet /\ rx.kind = kind /\ rx = Now.ask /\ Running /\ target \in Targets
  BY <1>1 DEF Receives, Quiet, OneRequest
<1>2. CASE WriteWords
  <2>1. rx.words \in Seq(Writing)
    BY <1>1, <1>2, NowIsStep DEF WriteWords, Receives
  <2>2. /\ ValidConfig(write_multiple(cfg, status, rx.words).cfg)
        /\ write_multiple(cfg, status, rx.words).status \in Status
    BY <2>1, ManyWords DEF Status
  <2> QED BY <1>2, <2>2 DEF WriteWords, Status
<1>3. CASE WriteAddress
  <2>1. link' = link \/ (ValidAddress(rx.value) /\ link' = [link EXCEPT !.address = rx.value % 256])
    BY <1>3 DEF WriteAddress
  <2>2. link' \in Link
    <3> DEFINE A == 1 .. 247
               P == {v \in Word : ddm_modbus_port_cfg_valid(v)}
               v == rx.value % 256
    <3>1. link \in [address : A, port : P] /\ (ValidAddress(rx.value) => v \in A)
      BY AddressFits DEF Link
    <3> HIDE DEF A, P, v
    <3>2. ValidAddress(rx.value) => [link EXCEPT !.address = v] \in [address : A, port : P]
      BY <3>1
    <3> QED BY <2>1, <3>1, <3>2 DEF Link, A, P, v
  <2> QED BY <1>3, <2>2 DEF WriteAddress
<1>4. CASE WritePort
  <2>1. rx.value \in Word
    BY <1>1, <1>4, NowIsStep DEF WritePort, Receives
  <2>2. link' \in Link
    <3> DEFINE A == 1 .. 247
               P == {v \in Word : ddm_modbus_port_cfg_valid(v)}
    <3>1. link \in [address : A, port : P] /\ (ddm_modbus_port_cfg_valid(rx.value) => rx.value \in P)
      BY <2>1 DEF Link
    <3> HIDE DEF A, P
    <3>2. rx.value \in P => [link EXCEPT !.port = rx.value] \in [address : A, port : P]
      BY <3>1
    <3> DEFINE new == [link EXCEPT !.port = rx.value]
               good == ddm_modbus_port_cfg_valid(rx.value)
    <3>3. good => link' = new
      BY <1>4 DEF WritePort
    <3>4. ~good => link' = link
      BY <1>4 DEF WritePort
    <3> QED BY <3>1, <3>2, <3>3, <3>4 DEF Link, A, P
  <2> QED BY <1>4, <2>2 DEF WritePort
<1>5. CASE WriteCommand
  BY <1>5 DEF WriteCommand
<1>6. CASE ReadLink
  BY <1>6 DEF ReadLink, deviceVars
<1>7. CASE ReadWords
  BY <1>7 DEF ReadWords, deviceVars
<1> QED BY <1>2, <1>3, <1>4, <1>5, <1>6, <1>7 DEF Handle

LEMMA SaveKeepsDevice == ASSUME DeviceTypeOK, Save \/ SaveFails PROVE DeviceTypeOK'
<1> USE DEF DeviceTypeOK
<1>1. CASE Save
  BY <1>1 DEF Save, ValidSettings
<1>2. CASE SaveFails
  BY <1>2 DEF SaveFails
<1> QED BY <1>1, <1>2

LEMMA ResetKeepsDevice == ASSUME DeviceTypeOK, Reset PROVE DeviceTypeOK'
<1>1. ValidSettings(Loaded(saved))
  BY LoadedIsValid DEF DeviceTypeOK
<1> QED BY <1>1 DEF Reset, DeviceTypeOK, ValidSettings

(* Where the tool may stand, and where a step of it leads.                    *)
StepTypeOK == step \in 1 .. Len(Script[target]) \cup {0, Len(Script[target]) + 1}

LEMMA NextStep ==
  ASSUME target \in Targets, target' = target, StepTypeOK,
         \/ step' \in {0, 1, step}
         \/ Running /\ step' = step + 1
  PROVE  StepTypeOK'
<1> DEFINE n == Len(Script[target])
<1>1. n \in Nat /\ 1 <= n
  BY ScriptTable
<1>2. n' = n
  OBVIOUS
<1> HIDE DEF n
<1>3. step \in 1 .. n \cup {0, n + 1}
  BY DEF StepTypeOK, n
<1>4. Running => step \in 1 .. n
  BY DEF Running, n
<1>5. step' \in 1 .. n \cup {0, n + 1}
  BY <1>1, <1>3, <1>4
<1> QED BY <1>2, <1>5 DEF StepTypeOK, n

(* A request is the present one, and once an answer is out it is gone.        *)
LEMMA DeviceOneRequest ==
  ASSUME Typed, Handle \/ Save \/ SaveFails, UNCHANGED toolVars
  PROVE  OneRequest'
<1>1. Now' = Now /\ Running' = Running /\ waiting' = waiting
  BY DEF toolVars, Now, Running
<1>2. CASE Handle
  <2>1. rx # Quiet /\ rx' = Quiet
    BY <1>2 DEF Handle, WriteWords, WriteAddress, WritePort, WriteCommand, ReadLink, ReadWords,
                Receives, Quiet
  <2> QED BY <1>1, <2>1 DEF Typed, OneRequest
<1>3. CASE Save \/ SaveFails
  BY <1>1, <1>3 DEF Save, SaveFails, Typed, OneRequest
<1> QED BY <1>2, <1>3

LEMMA StepTyped == Typed /\ [Next]_vars => Typed'
<1> SUFFICES ASSUME Typed, [Next]_vars PROVE Typed'
  OBVIOUS
<1>1. /\ DeviceTypeOK /\ StepTypeOK /\ OneRequest
      /\ target \in Targets /\ before \in Starts /\ waiting \in BOOLEAN
      /\ tries \in 0 .. Tries /\ faults \in [FaultKind -> 0 .. MaxFaults]
  BY DEF Typed, TypeOK, StepTypeOK
<1>2. Tries \in Nat /\ MaxFaults \in Nat
  BY ToolAssumption DEF ToolAssumption
<1>3. target' = target /\ before' = before
  BY DEF Next, Device, Tool, Send, Answer, Refused, NoAnswer, Again, LoseRequest, LoseAnswer,
         LosePower, LoseSave, Fault, toolVars, Idle, vars
<1>4. DeviceTypeOK'
  <2>1. CASE Handle
    BY <2>1, HandleKeepsDevice
  <2>2. CASE Save \/ SaveFails
    BY <1>1, <2>2, SaveKeepsDevice
  <2>3. CASE Reset
    BY <1>1, <2>3, ResetKeepsDevice
  <2>4. CASE UNCHANGED deviceVars
    BY <1>1, <2>4 DEF deviceVars, DeviceTypeOK
  <2>5. Handle \/ Save \/ SaveFails \/ Reset \/ UNCHANGED deviceVars
    BY DEF Next, Device, Tool, Send, Answer, Refused, NoAnswer, Again, LoseRequest, LoseAnswer,
           LosePower, LoseSave, Idle, vars
  <2> QED BY <2>1, <2>2, <2>3, <2>4, <2>5
<1>5. StepTypeOK'
  <2>1. \/ step' \in {0, 1, step}
        \/ Running /\ step' = step + 1
    BY <1>1 DEF OneRequest, Next, Device, Tool, Send, Answer, Refused, NoAnswer, Again,
           LoseRequest, LoseAnswer, LosePower, LoseSave, Fault, toolVars, Idle, vars
  <2> QED BY <1>1, <1>3, <2>1, NextStep
<1>6. waiting' \in BOOLEAN /\ tries' \in 0 .. Tries
  <2>1. waiting' \in {TRUE, FALSE, waiting}
    BY DEF Next, Device, Tool, Send, Answer, Refused, NoAnswer, Again, LoseRequest, LoseAnswer,
           LosePower, LoseSave, Fault, toolVars, Idle, vars
  <2>2. \/ tries' \in {0, tries}
        \/ tries < Tries /\ tries' = tries + 1
    BY DEF Next, Device, Tool, Send, Answer, Refused, NoAnswer, Again, LoseRequest, LoseAnswer,
           LosePower, LoseSave, Fault, toolVars, Idle, vars
  <2>3. waiting' \in BOOLEAN
    BY <1>1, <2>1, Zenon
  <2>4. tries' \in 0 .. Tries
    BY <1>1, <1>2, <2>2
  <2> QED BY <2>3, <2>4
<1>7. faults' \in [FaultKind -> 0 .. MaxFaults]
  <2>1. CASE faults' = faults
    BY <1>1, <2>1
  <2>2. ASSUME NEW kind, Fault(kind) PROVE faults' \in [FaultKind -> 0 .. MaxFaults]
    <3> DEFINE D == 0 .. MaxFaults
    <3>1. kind \in FaultKind
      BY <2>2, ToolAssumption DEF Fault, ToolAssumption
    <3>2. {"request", "answer", "power", "flash"} \subseteq FaultKind
      BY DEF FaultKind
    <3>3. faults[kind] + 1 \in D
      BY <1>1, <1>2, <2>2, <3>1 DEF Fault, FaultKind
    <3>4. faults \in [FaultKind -> D] /\ faults' = [faults EXCEPT ![kind] = @ + 1]
      BY <1>1, <2>2 DEF Fault
    <3> HIDE DEF D
    <3>5. faults' \in [FaultKind -> D]
      BY <3>1, <3>3, <3>4
    <3> QED BY <3>5 DEF D
  <2> QED BY <2>1, <2>2 DEF Next, Device, Tool, Send, Answer, Refused, NoAnswer, Again,
           LoseRequest, LoseAnswer, LosePower, LoseSave, toolVars, Idle, vars
<1>8. OneRequest'
  <2>1. CASE Device
    BY <2>1, DeviceOneRequest DEF Device
  <2>2. CASE Send
    <3>1. Running' /\ Now' = Now /\ waiting' /\ tx' = Quiet
      BY <2>2, <1>3 DEF Send, Running, Now
    <3>2. rx' \in {Now.ask, Quiet}
      BY <2>2 DEF Send
    <3> QED BY <3>1, <3>2 DEF OneRequest
  <2>3. CASE Answer \/ Refused
    <3>1. tx # Quiet /\ waiting' = FALSE /\ tx' = Quiet /\ rx' = rx
      BY <2>3 DEF Answer, Refused, Quiet
    <3>2. rx = Quiet
      BY <1>1, <3>1 DEF OneRequest
    <3> QED BY <3>1, <3>2 DEF OneRequest
  <2>4. CASE NoAnswer
    BY <2>4 DEF NoAnswer, OneRequest
  <2>5. CASE Again
    <3>1. ~Running
      <4> DEFINE n == Len(Script[target])
      <4>1. step = 0
        BY <2>5 DEF Again, Failed
      <4> QED BY <4>1 DEF Running
    <3> QED BY <1>1, <2>5, <3>1 DEF Again, OneRequest, deviceVars
  <2>6. CASE LoseRequest \/ LoseAnswer
    <3>1. Running' = Running /\ Now' = Now /\ waiting' = waiting
      BY <2>6, <1>3 DEF LoseRequest, LoseAnswer, Fault, toolVars, Running, Now
    <3> QED BY <1>1, <2>6, <3>1 DEF LoseRequest, LoseAnswer, OneRequest
  <2>7. CASE LosePower
    <3>1. Running' = Running /\ waiting' = waiting /\ rx' = Quiet /\ tx' = Quiet
      BY <2>7, <1>3 DEF LosePower, Reset, Fault, toolVars, Running
    <3> QED BY <1>1, <3>1 DEF OneRequest
  <2>8. CASE LoseSave
    BY <2>8, DeviceOneRequest DEF LoseSave, Fault
  <2>9. CASE UNCHANGED vars
    <3>1. /\ Running' = Running /\ Now' = Now /\ waiting' = waiting /\ rx' = rx /\ tx' = tx
      BY <2>9 DEF vars, toolVars, Running, Now
    <3> QED BY <1>1, <3>1 DEF OneRequest
  <2> QED BY <2>1, <2>2, <2>3, <2>4, <2>5, <2>6, <2>7, <2>8, <2>9 DEF Next, Tool, Idle
<1> QED BY <1>3, <1>1, <1>4, <1>5, <1>6, <1>7, <1>8 DEF Typed, TypeOK, StepTypeOK

THEOREM ToolTypes == Spec => []TypeOK
<1>1. Typed => TypeOK
  BY DEF Typed
<1> QED BY <1>1, InitTyped, StepTyped, PTL DEF Spec

-------------------------------------------------------------------------------
(* The order of the script. *)
LEMMA WriteSpots ==
  ASSUME NEW k \in Nat, 1 <= k, k <= Writes
  PROVE  \/ k = 1
         \/ \E i \in Channel : k = 1 + i
         \/ \E i \in Slot : k = 1 + Channels + i
         \/ \E i \in Slot : k = 1 + Channels + Slots + i
         \/ \E i \in Slot : k = 1 + Channels + 2 * Slots + i
         \/ k = Channels + 3 * Slots + 2
         \/ k = Channels + 3 * Slots + 3
         \/ k = Channels + 3 * Slots + 4
         \/ k = Writes
<1> DEFINE C == Channels
           S == Slots
<1>1. C \in Nat /\ S \in Nat
  BY Sizes
<1>2. ASSUME k > 1, k <= 1 + C PROVE k - 1 \in Channel /\ k = 1 + (k - 1)
  BY <1>1, <1>2 DEF Channel
<1>3. ASSUME k > 1 + C, k <= 1 + C + S PROVE k - 1 - C \in Slot /\ k = 1 + C + (k - 1 - C)
  BY <1>1, <1>3 DEF Slot
<1>4. ASSUME k > 1 + C + S, k <= 1 + C + 2 * S
      PROVE  k - 1 - C - S \in Slot /\ k = 1 + C + S + (k - 1 - C - S)
  BY <1>1, <1>4 DEF Slot
<1>5. ASSUME k > 1 + C + 2 * S, k <= 1 + C + 3 * S
      PROVE  k - 1 - C - 2 * S \in Slot /\ k = 1 + C + 2 * S + (k - 1 - C - 2 * S)
  BY <1>1, <1>5 DEF Slot
<1>6. \/ k = 1
      \/ k > 1 /\ k <= 1 + C
      \/ k > 1 + C /\ k <= 1 + C + S
      \/ k > 1 + C + S /\ k <= 1 + C + 2 * S
      \/ k > 1 + C + 2 * S /\ k <= 1 + C + 3 * S
      \/ k = C + 3 * S + 2
      \/ k = C + 3 * S + 3
      \/ k = C + 3 * S + 4
      \/ k = Writes
  BY <1>1 DEF Writes
<1> QED BY <1>2, <1>3, <1>4, <1>5, <1>6

LEMMA ReadSpots ==
  ASSUME NEW n \in Nat, NEW k \in Nat, 1 <= k, k <= 2 + Channels + 2 * n
  PROVE  \/ k = 1
         \/ k = 2
         \/ \E i \in Channel : k = 2 + i
         \/ \E i \in 1 .. n : k = 2 + Channels + i
         \/ \E i \in 1 .. n : k = 2 + Channels + n + i
<1> DEFINE C == Channels
<1>1. C \in Nat
  BY Sizes
<1>2. ASSUME k > 2, k <= 2 + C PROVE k - 2 \in Channel /\ k = 2 + (k - 2)
  BY <1>1, <1>2 DEF Channel
<1>3. ASSUME k > 2 + C, k <= 2 + C + n PROVE k - 2 - C \in 1 .. n /\ k = 2 + C + (k - 2 - C)
  BY <1>1, <1>3
<1>4. ASSUME k > 2 + C + n PROVE k - 2 - C - n \in 1 .. n /\ k = 2 + C + n + (k - 2 - C - n)
  BY <1>1, <1>4
<1>5. \/ k = 1
      \/ k = 2
      \/ k > 2 /\ k <= 2 + C
      \/ k > 2 + C /\ k <= 2 + C + n
      \/ k > 2 + C + n
  BY <1>1
<1> QED BY <1>2, <1>3, <1>4, <1>5

(* First the writes, then the save, then the reads. *)
LEMMA ScriptKinds ==
  ASSUME NEW t \in Targets, NEW k \in Nat, 1 <= k, k <= Len(Script[t])
  PROVE  /\ k < Writes => Script[t][k].ask.kind \in {"words", "address", "port"}
         /\ k = Writes => Script[t][k].ask.kind = "save"
         /\ k > Writes => Script[t][k].ask.kind \in {"read_link", "read"}
<1> DEFINE s == Script[t]
           w == write_device(t)
           r == read_device(t)
<1>1. /\ Len(s) = Writes + Len(r) /\ Writes \in Nat
      /\ \A j \in 1 .. Writes : s[j] = w[j]
      /\ \A j \in 1 .. Len(r) : s[Writes + j] = r[j]
  BY ScriptTable
<1>2. ASSUME k <= Writes
      PROVE  /\ k < Writes => w[k].ask.kind \in {"words", "address", "port"}
             /\ k = Writes => w[k].ask.kind = "save"
  <2>1. CASE k = 1
    <3>1. Global("count") \in Register
      BY Fields DEF Register
    <3>2. w[1].ask.kind = "words"
      BY <3>1, WriteTable, ZeroIsStep
    <3>3. Writes > 1
      BY ScriptTable
    <3> QED BY <2>1, <3>2, <3>3
  <2>2. ASSUME NEW i \in Channel, k = 1 + i PROVE k # Writes /\ w[k].ask.kind = "words"
    <3>1. w[1 + i] = Put(t, ProfileRegs(i))
      BY WriteTable
    <3>2. Put(t, ProfileRegs(i)).ask.kind = "words"
      BY RegisterLists, PutIsStep
    <3>3. k # Writes
      BY <2>2, Sizes DEF Writes, Channel
    <3> QED BY <2>2, <3>1, <3>2, <3>3
  <2>3. ASSUME NEW i \in Slot
        PROVE  /\ w[1 + Channels + i].ask.kind = "words"
               /\ w[1 + Channels + Slots + i].ask.kind = "words"
               /\ w[1 + Channels + 2 * Slots + i].ask.kind = "words"
    <3>1. Binding(i, "enabled") \in Register /\ <<Binding(i, "enabled")>> \in Seq(Register)
      BY Fields DEF Register
    <3>2. Zero(Binding(i, "enabled")).ask.kind = "words"
      BY <3>1, ZeroIsStep
    <3>3. Put(t, Tail(BindingRegs(i))).ask.kind = "words" /\ Put(t, <<Binding(i, "enabled")>>).ask.kind = "words"
      BY <3>1, BindingParts, PutIsStep
    <3> QED BY <3>2, <3>3, WriteTable
  <2>4. /\ w[Channels + 3 * Slots + 2].ask.kind = "words"
        /\ w[Channels + 3 * Slots + 3].ask.kind = "address"
        /\ w[Channels + 3 * Slots + 4].ask.kind = "port"
        /\ w[Writes].ask.kind = "save"
    <3>1. Put(t, GlobalRegs).ask.kind = "words"
      BY RegisterLists, PutIsStep
    <3>2. /\ w[Channels + 3 * Slots + 2] = Put(t, GlobalRegs)
          /\ w[Channels + 3 * Slots + 3] = Step([kind |-> "address", value |-> t.link.address], <<>>)
          /\ w[Channels + 3 * Slots + 4] = Step([kind |-> "port", value |-> t.link.port], <<>>)
          /\ w[Writes] = Step([kind |-> "save"], <<>>)
      BY WriteTable DEF Writes
    <3> HIDE DEF w
    <3>3. \A a, b : Step(a, b).ask = a
      BY DEF Step
    <3> QED BY <3>1, <3>2, <3>3
  <2>5. \/ k = 1
        \/ \E i \in Channel : k = 1 + i
        \/ \E i \in Slot : k = 1 + Channels + i
        \/ \E i \in Slot : k = 1 + Channels + Slots + i
        \/ \E i \in Slot : k = 1 + Channels + 2 * Slots + i
        \/ k = Channels + 3 * Slots + 2
        \/ k = Channels + 3 * Slots + 3
        \/ k = Channels + 3 * Slots + 4
        \/ k = Writes
    BY <1>2, WriteSpots
  <2>6. \A i \in Slot : /\ 1 + Channels + i # Writes /\ 1 + Channels + Slots + i # Writes
                        /\ 1 + Channels + 2 * Slots + i # Writes
    BY Sizes DEF Writes, Slot
  <2>7. /\ Channels + 3 * Slots + 2 # Writes /\ Channels + 3 * Slots + 3 # Writes
        /\ Channels + 3 * Slots + 4 # Writes
    BY Sizes DEF Writes
  <2> HIDE DEF w
  <2> QED BY <2>1, <2>2, <2>3, <2>4, <2>5, <2>6, <2>7, <1>1
<1>3. ASSUME NEW j \in Nat, 1 <= j, j <= Len(r) PROVE r[j].ask.kind \in {"read_link", "read"}
  <2> DEFINE n == Globals(t.cfg).count
  <2>0. n = Globals(t.cfg).count /\ r = read_device(t)
    OBVIOUS
  <2> HIDE DEF n, r
  <2>1. /\ n \in Nat /\ n <= Slots /\ Len(r) = 2 + Channels + 2 * n
        /\ r[1] = Step([kind |-> "read_link"], <<t.link.address, t.link.port>>)
        /\ r[2] = Get(t, GlobalRegs)
        /\ \A i \in Channel : r[2 + i] = Get(t, ProfileRegs(i))
        /\ \A i \in 1 .. n : r[2 + Channels + i] = Get(t, SubSeq(BindingRegs(i), 1, 8))
        /\ \A i \in 1 .. n : r[2 + Channels + n + i] = Get(t, SubSeq(BindingRegs(i), 9, 10))
    BY <2>0, ReadTable
  <2>2. \A i \in 1 .. n : i \in Slot
    BY <2>1, Sizes DEF Slot
  <2> DEFINE reads(q) == q.ask.kind \in {"read_link", "read"}
  <2>3. \A regs : reads(Get(t, regs)) /\ \A want : reads(Step([kind |-> "read_link"], want))
    BY DEF Get, Step
  <2>6. \/ j = 1
        \/ j = 2
        \/ \E i \in Channel : j = 2 + i
        \/ \E i \in 1 .. n : j = 2 + Channels + i
        \/ \E i \in 1 .. n : j = 2 + Channels + n + i
    BY <1>3, <2>1, ReadSpots
  <2> SUFFICES reads(r[j])
    OBVIOUS
  <2> HIDE DEF reads
  <2> QED BY <2>1, <2>3, <2>6
<1> HIDE DEF w, r
<1>4. CASE k <= Writes
  <2>1. s[k] = w[k] /\ ~(k > Writes)
    BY <1>1, <1>4
  <2> HIDE DEF s
  <2> QED BY <1>2, <1>4, <2>1 DEF s
<1>5. CASE k > Writes
  <2> DEFINE j == k - Writes
  <2>0. Len(r) \in Nat
    BY <1>1, ReadTable, Sizes DEF r
  <2>1. j \in Nat /\ 1 <= j /\ j <= Len(r) /\ k = Writes + j
    BY <1>1, <1>5, <2>0
  <2>2. s[Writes + j] = r[j]
    BY <1>1, <2>1, <2>0
  <2> HIDE DEF j
  <2>3. r[j].ask.kind \in {"read_link", "read"}
    BY <2>1, <1>3
  <2> QED BY <1>1, <1>5, <2>1, <2>2, <2>3 DEF s
<1>6. k <= Writes \/ k > Writes
  BY <1>1
<1> QED BY <1>4, <1>5, <1>6

-------------------------------------------------------------------------------
(* What the device would answer to a read of the script now.                  *)
Reads(ask) ==
  IF ask.kind = "read_link" THEN <<link.address, link.port>>
  ELSE [i \in DOMAIN ask.regs |-> config_registers_hr_read(cfg, ask.regs[i])]

(* A step of the tool, and the same with its answer on the line.              *)
Beyond(k) == step > k \/ (step = k /\ tx.kind = "ok")

(* After the save the next start loads what is in force.                      *)
InStep == Loaded(saved).cfg = cfg /\ Loaded(saved).link = link
Synced ==
  /\ Beyond(Writes) => command \/ InStep
  /\ Beyond(Writes + 1) => ~command

(* An answer on the line still says what the registers hold, and so does      *)
(* every answer compared so far: a reset in between brings back the same.     *)
AnswerIsTrue == step > Writes /\ tx.kind = "ok" => tx.values = Reads(Now.ask)
Verified == \A k \in Writes + 1 .. step - 1 : Reads(Script[target][k].ask) = Script[target][k].want

Checked == faults["flash"] = 0 => Synced /\ AnswerIsTrue /\ Verified

LEMMA StepNumber ==
  ASSUME Typed
  PROVE  step \in Nat /\ Writes \in Nat /\ Writes >= 17 /\ Len(Script[target]) \in Nat
<1>1. Writes \in Nat /\ Writes >= 17 /\ Len(Script[target]) \in Nat
  BY ScriptTable DEF Typed, TypeOK
<1> DEFINE n == Len(Script[target])
<1>2. step \in 1 .. n \cup {0, n + 1} /\ n \in Nat
  BY <1>1 DEF Typed, TypeOK
<1> HIDE DEF n
<1>3. step \in Nat
  BY <1>2
<1> QED BY <1>1, <1>3

(* Which requests are on the line when. *)
LEMMA RequestKind ==
  ASSUME Typed, Handle
  PROVE  /\ rx = Now.ask /\ Running /\ ~command
         /\ \/ step < Writes /\ (WriteWords \/ WriteAddress \/ WritePort)
            \/ step = Writes /\ WriteCommand
            \/ step > Writes /\ (ReadLink \/ ReadWords)
<1>1. rx # Quiet /\ ~command
  BY DEF Handle, WriteWords, WriteAddress, WritePort, WriteCommand, ReadLink, ReadWords, Receives, Quiet
<1>2. rx = Now.ask /\ Running
  BY <1>1 DEF Typed, OneRequest
<1> DEFINE n == Len(Script[target])
<1>3. target \in Targets /\ n \in Nat /\ Writes \in Nat
  BY StepNumber DEF Typed, TypeOK
<1>4. step \in 1 .. n
  BY <1>2 DEF Running
<1> HIDE DEF n
<1>5. step \in Nat /\ 1 <= step /\ step <= n
  BY <1>3, <1>4
<1>6. /\ step < Writes => rx.kind \in {"words", "address", "port"}
      /\ step = Writes => rx.kind = "save"
      /\ step > Writes => rx.kind \in {"read_link", "read"}
  BY <1>2, <1>3, <1>5, ScriptKinds DEF Now, n
<1>7. step < Writes \/ step = Writes \/ step > Writes
  BY <1>3, <1>5
<1> QED BY <1>1, <1>2, <1>6, <1>7
        DEF Handle, WriteWords, WriteAddress, WritePort, WriteCommand, ReadLink, ReadWords, Receives

LEMMA EmptyVerified == ASSUME Typed, step <= Writes + 1 PROVE Verified
<1>1. ASSUME NEW k \in Writes + 1 .. step - 1 PROVE FALSE
  BY StepNumber
<1> QED BY <1>1 DEF Verified

LEMMA SameVerified == ASSUME Verified, UNCHANGED <<cfg, link, target, step>> PROVE Verified'
BY DEF Verified, Reads

LEMMA InitChecked == Typed /\ Init => Checked
<1> SUFFICES ASSUME Typed, Init PROVE Checked
  OBVIOUS
<1>1. step = 1 /\ tx = Quiet
  BY DEF Init, DeviceInit
<1>2. step <= Writes + 1 /\ ~(step > Writes) /\ ~(step > Writes + 1)
  BY <1>1, StepNumber
<1> QED BY <1>1, <1>2, EmptyVerified DEF Checked, Synced, Beyond, AnswerIsTrue, Quiet

LEMMA StepChecked == Typed /\ Typed' /\ Checked /\ [Next]_vars => Checked'
<1> SUFFICES ASSUME Typed, Typed', Checked, [Next]_vars, faults'["flash"] = 0
             PROVE  Synced' /\ AnswerIsTrue' /\ Verified'
  BY DEF Checked
<1>1. /\ step \in Nat /\ step' \in Nat /\ Writes \in Nat /\ Writes' = Writes /\ Writes >= 17
      /\ target' = target /\ Script' = Script
  <2>1. target' = target
    BY DEF Next, Device, Tool, Send, Answer, Refused, NoAnswer, Again, LoseRequest, LoseAnswer,
           LosePower, LoseSave, Fault, toolVars, Idle, vars
  <2>2. step' \in Nat
    <3> DEFINE n == Len(Script[target])
    <3>1. n \in Nat
      BY StepNumber
    <3>2. step' \in 1 .. n \cup {0, n + 1}
      BY <2>1 DEF Typed, TypeOK
    <3> HIDE DEF n
    <3> QED BY <3>1, <3>2
  <2> QED BY <2>1, <2>2, StepNumber
<1>2. faults["flash"] = 0 /\ ~LoseSave
  <2>1. CASE faults' = faults
    <3>1. ASSUME LoseSave PROVE FALSE
      <4>1. faults["flash"] \in Nat /\ "flash" \in DOMAIN faults
        BY ToolAssumption DEF ToolAssumption, Typed, TypeOK, FaultKind
      <4> QED BY <2>1, <3>1, <4>1 DEF LoseSave, Fault
    <3> QED BY <2>1, <3>1
  <2>2. ASSUME NEW kind, Fault(kind) PROVE kind # "flash" /\ faults["flash"] = 0
    <3> DEFINE F == faults["flash"]
    <3>1. F \in Nat /\ faults \in [FaultKind -> 0 .. MaxFaults] /\ "flash" \in FaultKind
      BY ToolAssumption DEF ToolAssumption, Typed, TypeOK, FaultKind
    <3>2. faults' = [faults EXCEPT ![kind] = @ + 1]
      BY <2>2 DEF Fault
    <3>3. kind = "flash" => faults'["flash"] = F + 1
      BY <3>1, <3>2
    <3>4. kind # "flash" => faults'["flash"] = F
      BY <3>1, <3>2
    <3> QED BY <3>1, <3>3, <3>4
  <2> QED BY <2>1, <2>2 DEF Next, Device, Tool, Send, Answer, Refused, NoAnswer, Again, LoseRequest,
          LoseAnswer, LosePower, LoseSave, Idle, vars
<1>3. Synced /\ AnswerIsTrue /\ Verified
  BY <1>2 DEF Checked
<1>e. step' <= Writes + 1 => Verified'
  <2> DEFINE n == step'
             w == Writes
  <2>1. n \in Nat /\ w \in Nat
    BY <1>1
  <2> HIDE DEF n, w
  <2>2. ASSUME n <= w + 1, NEW k \in w + 1 .. n - 1 PROVE FALSE
    BY <2>1, <2>2
  <2>3. n <= w + 1 => \A k \in w + 1 .. n - 1 : Reads(Script[target][k].ask)' = Script'[target'][k].want
    BY <2>2
  <2> QED BY <1>1, <2>3 DEF Verified, n, w
<1>4. CASE Device
  <2>1. step' = step /\ waiting' = waiting /\ Now' = Now
    BY <1>1, <1>4 DEF Device, toolVars, Now
  <2>2. CASE Save
    <3>1. [cfg |-> cfg, link |-> link] # NoSaved
      <4>1. cfg \in Config /\ link \in Link
        BY DEF Typed, TypeOK, DeviceTypeOK, ValidConfig
      <4> QED BY <4>1, SavedAssumption
    <3>2. saved' # NoSaved /\ saved'.cfg = cfg /\ saved'.link = link
      BY <2>2, <3>1 DEF Save
    <3>3. InStep'
      BY <2>2, <3>2 DEF Save, InStep, Loaded
    <3>4. tx' = tx /\ cfg' = cfg /\ link' = link /\ command
      BY <2>2 DEF Save
    <3>5. Synced'
      BY <1>1, <1>3, <2>1, <3>3, <3>4 DEF Synced, Beyond
    <3>6. AnswerIsTrue'
      BY <1>1, <1>3, <2>1, <3>4 DEF AnswerIsTrue, Reads
    <3>7. Verified'
      BY <1>1, <1>3, <2>1, <3>4, SameVerified
    <3> QED BY <3>5, <3>6, <3>7
  <2>3. ASSUME Handle, step < Writes PROVE Synced' /\ AnswerIsTrue' /\ Verified'
    <3>1. step' <= Writes + 1 /\ ~(step' > Writes) /\ ~(step' > Writes + 1) /\ step' # Writes
          /\ step' # Writes + 1
      BY <1>1, <2>1, <2>3
    <3> QED BY <1>1, <1>e, <3>1 DEF Synced, Beyond, AnswerIsTrue
  <2>4. ASSUME WriteCommand, step = Writes PROVE Synced' /\ AnswerIsTrue' /\ Verified'
    <3>1. /\ ~(step' > Writes) /\ ~(step' > Writes + 1) /\ step' # Writes + 1 /\ step' <= Writes + 1
          /\ command'
      BY <1>1, <2>1, <2>4 DEF WriteCommand
    <3> QED BY <1>1, <1>e, <3>1 DEF Synced, Beyond, AnswerIsTrue
  <2>5. ASSUME ReadLink \/ ReadWords, step > Writes, rx = Now.ask, ~command
        PROVE  Synced' /\ AnswerIsTrue' /\ Verified'
    <3>1. UNCHANGED deviceVars
      BY <2>5 DEF ReadLink, ReadWords
    <3>2. Reads(Now.ask)' = Reads(Now.ask)
      BY <2>1, <3>1 DEF Reads, deviceVars
    <3>3. tx' = Answered(Reads(Now.ask))
      BY <2>5 DEF ReadLink, ReadWords, Receives, Reads
    <3>4. AnswerIsTrue'
      BY <2>1, <3>2, <3>3 DEF AnswerIsTrue, Answered
    <3>5. Synced'
      BY <1>1, <1>3, <2>1, <2>5, <3>1 DEF Synced, Beyond, deviceVars, InStep
    <3>6. Verified'
      BY <1>1, <1>3, <2>1, <3>1, SameVerified DEF deviceVars
    <3> QED BY <3>4, <3>5, <3>6
  <2>6. CASE Handle
    BY <2>3, <2>4, <2>5, <2>6, RequestKind
  <2> QED BY <1>4, <2>2, <2>6 DEF Device
<1>5. CASE Send
  <2>1. step' = step /\ tx' = Quiet /\ UNCHANGED deviceVars
    BY <1>5 DEF Send
  <2> QED BY <1>1, <1>3, <2>1, SameVerified DEF Synced, Beyond, AnswerIsTrue, Quiet, deviceVars, InStep
<1>6. CASE Answer
  <2>1. UNCHANGED deviceVars /\ tx' = Quiet /\ tx.kind = "ok"
        /\ \/ step' = 0
           \/ tx.values = Now.want /\ step' = step + 1
    BY <1>6 DEF Answer
  <2>2. AnswerIsTrue'
    BY <2>1 DEF AnswerIsTrue, Quiet
  <2>3. CASE step' = 0
    <3>1. step' <= Writes + 1
      BY <1>1, <2>3
    <3>2. ~Beyond(Writes)' /\ ~Beyond(Writes + 1)'
      BY <1>1, <2>3 DEF Beyond
    <3> QED BY <1>1, <1>e, <2>2, <3>1, <3>2 DEF Synced
  <2>4. CASE tx.values = Now.want /\ step' = step + 1
    <3>1. Synced'
      BY <1>1, <1>3, <2>1, <2>4 DEF Synced, Beyond, Quiet, deviceVars, InStep
    <3>2. ASSUME NEW k \in Writes + 1 .. step' - 1
          PROVE  Reads(Script[target][k].ask)' = Script[target][k].want
      <4>1. Reads(Script[target][k].ask)' = Reads(Script[target][k].ask)
        BY <1>1, <2>1 DEF Reads, deviceVars
      <4>2. CASE k = step
        <5>1. step > Writes
          BY <1>1, <3>2, <4>2
        <5> QED BY <1>3, <2>1, <2>4, <4>1, <4>2, <5>1 DEF AnswerIsTrue, Now
      <4>3. CASE k # step
        <5>1. k \in Writes + 1 .. step - 1
          BY <1>1, <2>4, <3>2, <4>3
        <5> QED BY <1>3, <4>1, <5>1 DEF Verified
      <4> QED BY <4>2, <4>3
    <3>3. Verified'
      BY <1>1, <3>2 DEF Verified
    <3> QED BY <2>2, <3>1, <3>3
  <2> QED BY <2>1, <2>3, <2>4
<1>7. CASE Refused \/ NoAnswer \/ Again
  <2>1. CASE step' \in {0, 1} /\ UNCHANGED deviceVars /\ tx' \in {Quiet, Exception}
    <3>1. step' <= Writes + 1 /\ ~Beyond(Writes)' /\ ~Beyond(Writes + 1)'
      BY <1>1, <2>1 DEF Beyond
    <3> QED BY <1>1, <1>e, <2>1, <3>1 DEF Synced, AnswerIsTrue, Quiet, Exception
  <2>2. CASE step' = step /\ UNCHANGED deviceVars /\ tx' \in {Quiet, Exception}
    BY <1>1, <1>3, <2>2, SameVerified
       DEF Synced, Beyond, AnswerIsTrue, Quiet, Exception, deviceVars, InStep
  <2>3. CASE Again
    <3>1. tx = Quiet
      <4>1. ~Running
        BY <2>3 DEF Again, Failed, Running
      <4> QED BY <4>1 DEF Typed, OneRequest
    <3> QED BY <2>1, <2>3, <3>1 DEF Again
  <2> QED BY <1>7, <2>1, <2>2, <2>3 DEF Refused, NoAnswer
<1>8. CASE LoseRequest \/ LoseAnswer
  <2>1. step' = step /\ UNCHANGED deviceVars /\ (tx' = tx \/ tx' \in {Quiet, Exception}) /\ Now' = Now
    BY <1>1, <1>8 DEF LoseRequest, LoseAnswer, Fault, toolVars, Now
  <2> QED BY <1>1, <1>3, <2>1, SameVerified
          DEF Synced, Beyond, AnswerIsTrue, Quiet, Exception, deviceVars, InStep, Reads
<1>9. CASE LosePower
  <2>1. step' = step /\ tx' = Quiet /\ saved' = saved /\ command' = FALSE
        /\ cfg' = Loaded(saved).cfg /\ link' = Loaded(saved).link
    BY <1>9 DEF LosePower, Fault, toolVars, Reset
  <2>2. InStep'
    BY <2>1 DEF InStep
  <2>3. Synced'
    BY <2>1, <2>2 DEF Synced
  <2>4. AnswerIsTrue'
    BY <2>1 DEF AnswerIsTrue, Quiet
  <2>5. CASE step > Writes + 1
    <3>1. InStep
      BY <1>1, <1>3, <2>5 DEF Synced, Beyond
    <3>2. cfg' = cfg /\ link' = link
      BY <2>1, <3>1 DEF InStep
    <3> QED BY <1>1, <1>3, <2>1, <2>3, <2>4, <3>2, SameVerified
  <2>6. CASE ~(step > Writes + 1)
    <3>1. step' <= Writes + 1
      BY <1>1, <2>1, <2>6
    <3> QED BY <1>e, <2>3, <2>4, <3>1
  <2> QED BY <2>5, <2>6
<1>10. CASE UNCHANGED vars
  <2>1. step' = step /\ UNCHANGED deviceVars /\ tx' = tx /\ Now' = Now
    BY <1>1, <1>10 DEF vars, toolVars, Now
  <2> QED BY <1>1, <1>3, <2>1, SameVerified
          DEF Synced, Beyond, AnswerIsTrue, deviceVars, InStep, Reads
<1> QED BY <1>2, <1>4, <1>5, <1>6, <1>7, <1>8, <1>9, <1>10 DEF Next, Tool, Idle

(* What a register shows, written back, is what it holds. *)
LEMMA KeptShown ==
  ASSUME NEW f, NEW v \in Word, Holds(f, v)
  PROVE  Kept(f, Shown(f, v)) = v
BY WordRange DEF Holds, Kept, Shown, Word, NoInput

LEMMA FieldNumbers ==
  /\ \A f \in In(GlobalFields) : \E k \in 1 .. 7 : GlobalFields[k] = f
  /\ \A f \in In(ProfileFields) : \E k \in 1 .. 8 : ProfileFields[k] = f
  /\ \A f \in In(BindingFields) : \E k \in 1 .. 10 : BindingFields[k] = f
BY DEF In, GlobalFields, ProfileFields, BindingFields

(* What a file means, register by register. *)
LEMMA MeantParts ==
  ASSUME NEW t \in Targets, NEW m, m = Meant(t).cfg
  PROVE  /\ m \in Config /\ Meant(t).link = t.link
         /\ \A r \in Register : At(m, r) = Kept(r[3], At(t.cfg, r))
<1> DEFINE G == In(GlobalFields)
           P == In(ProfileFields)
           B == In(BindingFields)
           c == t.cfg
<1>1. c \in [global : [1 .. 1 -> [G -> Word]], profile : [Channel -> [P -> Word]], binding : [Slot -> [B -> Word]]]
  BY TargetTypes DEF Config
<1>2. /\ m = [area \in DOMAIN c |-> [i \in DOMAIN c[area] |-> [f \in DOMAIN c[area][i] |-> Kept(f, c[area][i][f])]]]
      /\ Meant(t).link = t.link
  BY DEF Meant
<1> HIDE DEF G, P, B, c
<1>3. /\ DOMAIN c = {"global", "profile", "binding"} /\ DOMAIN c["global"] = 1 .. 1
      /\ DOMAIN c["profile"] = Channel /\ DOMAIN c["binding"] = Slot
      /\ DOMAIN c["global"][1] = G
      /\ \A i \in Channel : DOMAIN c["profile"][i] = P
      /\ \A i \in Slot : DOMAIN c["binding"][i] = B
  BY <1>1
<1>4. /\ \A f \in G : c["global"][1][f] \in Word
      /\ \A i \in Channel, f \in P : c["profile"][i][f] \in Word
      /\ \A i \in Slot, f \in B : c["binding"][i][f] \in Word
  BY <1>1
<1>5. /\ m["global"] = [i \in 1 .. 1 |-> [f \in G |-> Kept(f, c["global"][i][f])]]
      /\ m["profile"] = [i \in Channel |-> [f \in P |-> Kept(f, c["profile"][i][f])]]
      /\ m["binding"] = [i \in Slot |-> [f \in B |-> Kept(f, c["binding"][i][f])]]
  BY <1>2, <1>3
<1>6. m = [global |-> m["global"], profile |-> m["profile"], binding |-> m["binding"]]
  BY <1>2, <1>3
<1>7. /\ m["global"] \in [1 .. 1 -> [G -> Word]]
      /\ m["profile"] \in [Channel -> [P -> Word]]
      /\ m["binding"] \in [Slot -> [B -> Word]]
  BY <1>4, <1>5, KeptIsWord
<1>8. m \in Config
  BY <1>6, <1>7 DEF Config, G, P, B
<1>9. ASSUME NEW r \in Register PROVE At(m, r) = Kept(r[3], At(c, r))
  BY <1>5, RegisterCases DEF At, G, P, B
<1> QED BY <1>2, <1>8, <1>9 DEF c

(* Two configurations with the same globals, profiles and counted bindings    *)
(* have the same effect. *)
LEMMA SameEffect ==
  ASSUME NEW c \in Config, NEW m \in Config, NEW n, n = Globals(c).count,
         \A f \in In(GlobalFields) : At(c, Global(f)) = At(m, Global(f)),
         \A i \in Channel, f \in In(ProfileFields) : At(c, Profile(i, f)) = At(m, Profile(i, f)),
         \A i \in Slot, f \in In(BindingFields) : i <= n => At(c, Binding(i, f)) = At(m, Binding(i, f))
  PROVE  Globals(c) = Globals(m) /\ c.profile = m.profile /\ InForce(c) = InForce(m)
<1> DEFINE G == In(GlobalFields)
           P == In(ProfileFields)
           B == In(BindingFields)
<1>1. /\ c \in [global : [1 .. 1 -> [G -> Word]], profile : [Channel -> [P -> Word]], binding : [Slot -> [B -> Word]]]
      /\ m \in [global : [1 .. 1 -> [G -> Word]], profile : [Channel -> [P -> Word]], binding : [Slot -> [B -> Word]]]
  BY DEF Config
<1>2. /\ \A f \in G : c.global[1][f] = m.global[1][f]
      /\ \A i \in Channel, f \in P : c.profile[i][f] = m.profile[i][f]
      /\ \A i \in Slot, f \in B : i <= n => c.binding[i][f] = m.binding[i][f]
  BY DEF At, Global, Profile, Binding
<1> HIDE DEF G, P, B
<1>3. Globals(c) = Globals(m)
  BY <1>1, <1>2 DEF Globals
<1>4. c.profile = m.profile
  <2>1. \A i \in Channel : c.profile[i] = m.profile[i]
    BY <1>1, <1>2
  <2> QED BY <1>1, <2>1
<1>5. \A i \in Slot : i <= n => c.binding[i] = m.binding[i]
  BY <1>1, <1>2
<1>6. Globals(m).count = n
  BY <1>3
<1>7. ActiveSlots(c) = ActiveSlots(m)
  BY <1>5, <1>6 DEF ActiveSlots
<1>8. \A i \in ActiveSlots(c) : c.binding[i] = m.binding[i]
  BY <1>5 DEF ActiveSlots
<1>9. InForce(c) = InForce(m)
  BY <1>7, <1>8 DEF InForce
<1> QED BY <1>3, <1>4, <1>9

LEMMA ReadMatches ==
  ASSUME NEW t \in Targets, NEW regs \in Seq(Register), ValidConfig(cfg),
         Reads(Get(t, regs).ask) = Get(t, regs).want, NEW k \in 1 .. Len(regs)
  PROVE  At(cfg, regs[k]) = Kept(regs[k][3], At(t.cfg, regs[k]))
<1> DEFINE r == regs[k]
<1>1. Get(t, regs).ask = [kind |-> "read", regs |-> regs]
      /\ Get(t, regs).want = [j \in DOMAIN regs |-> At(t.cfg, regs[j])]
  BY GetIsStep
<1>2. [j \in DOMAIN regs |-> config_registers_hr_read(cfg, regs[j])] = [j \in DOMAIN regs |-> At(t.cfg, regs[j])]
  BY <1>1 DEF Reads
<1>3. k \in DOMAIN regs /\ r \in Register
  OBVIOUS
<1>4. config_registers_hr_read(cfg, r) = At(t.cfg, r)
  BY <1>2, <1>3
<1> HIDE DEF r
<1>5. At(cfg, r) \in Word /\ Holds(r[3], At(cfg, r))
  BY <1>3, AtIsWord DEF ValidConfig
<1>6. Kept(r[3], Shown(r[3], At(cfg, r))) = At(cfg, r)
  BY <1>5, KeptShown
<1> QED BY <1>4, <1>6 DEF config_registers_hr_read, r

(* Reads that all match leave nothing of the file's effect out. *)
LEMMA AllReadMatches ==
  ASSUME Typed, Verified, Done, NEW m, m = Meant(target).cfg
  PROVE  /\ link = Meant(target).link
         /\ Globals(cfg) = Globals(m) /\ cfg.profile = m.profile /\ InForce(cfg) = InForce(m)
<1> DEFINE t == target
           s == Script[t]
           r == read_device(t)
           n == Globals(t.cfg).count
<1>1. t \in Targets /\ ValidConfig(cfg) /\ cfg \in Config /\ link \in Link
  BY DEF Typed, TypeOK, DeviceTypeOK, ValidConfig
<1>2. /\ Writes \in Nat /\ Len(s) = Writes + Len(r) /\ step = Len(s) + 1
      /\ \A k \in 1 .. Len(r) : s[Writes + k] = r[k]
  BY <1>1, ScriptTable DEF Done
<1>3. /\ n \in Nat /\ n <= Slots /\ Len(r) = 2 + Channels + 2 * n
      /\ r[1] = Step([kind |-> "read_link"], <<t.link.address, t.link.port>>)
      /\ r[2] = Get(t, GlobalRegs)
      /\ \A i \in Channel : r[2 + i] = Get(t, ProfileRegs(i))
      /\ \A i \in 1 .. n : r[2 + Channels + i] = Get(t, SubSeq(BindingRegs(i), 1, 8))
      /\ \A i \in 1 .. n : r[2 + Channels + n + i] = Get(t, SubSeq(BindingRegs(i), 9, 10))
  <2>1. n = Globals(t.cfg).count /\ r = read_device(t)
    OBVIOUS
  <2> HIDE DEF n, r
  <2> QED BY <1>1, <2>1, ReadTable
<1>4. ASSUME NEW k \in Nat, 1 <= k, k <= Len(r)
      PROVE  Reads(r[k].ask) = r[k].want
  <2>1. Len(r) \in Nat
    BY <1>3, Sizes
  <2>2. Writes + k \in Writes + 1 .. step - 1 /\ k \in 1 .. Len(r)
    BY <1>2, <1>4, <2>1
  <2> QED BY <1>2, <2>2 DEF Verified
<1>5. m \in Config /\ Meant(t).link = t.link /\ \A q \in Register : At(m, q) = Kept(q[3], At(t.cfg, q))
  BY <1>1, MeantParts
<1> HIDE DEF n, r, s
<1>6. link = t.link
  <2>1. Reads(r[1].ask) = r[1].want
    BY <1>3, <1>4, Sizes
  <2>2. <<link.address, link.port>> = <<t.link.address, t.link.port>>
    BY <1>3, <2>1 DEF Reads, Step
  <2>3. t.link \in [address : Word, port : Word]
    BY <1>1, ToolAssumption DEF ToolAssumption
  <2> DEFINE A == 1 .. 247
             P == {v \in Word : ddm_modbus_port_cfg_valid(v)}
  <2>4. link \in [address : A, port : P]
    BY <1>1 DEF Link
  <2> HIDE DEF A, P
  <2> QED BY <2>2, <2>3, <2>4
<1>7. ASSUME NEW f \in In(GlobalFields) PROVE At(cfg, Global(f)) = At(m, Global(f))
  <2>1. PICK k \in 1 .. 7 : GlobalFields[k] = f
    BY FieldNumbers
  <2>2. Reads(Get(t, GlobalRegs).ask) = Get(t, GlobalRegs).want
    BY <1>3, <1>4, Sizes
  <2>3. GlobalRegs \in Seq(Register) /\ k \in 1 .. Len(GlobalRegs) /\ GlobalRegs[k] = Global(f)
    BY <2>1, RegisterLists
  <2>4. At(cfg, GlobalRegs[k]) = Kept(GlobalRegs[k][3], At(t.cfg, GlobalRegs[k]))
    BY <1>1, <2>2, <2>3, ReadMatches
  <2>5. Global(f) \in Register
    BY DEF Register
  <2> QED BY <1>5, <2>3, <2>4, <2>5
<1>8. ASSUME NEW i \in Channel, NEW f \in In(ProfileFields)
      PROVE  At(cfg, Profile(i, f)) = At(m, Profile(i, f))
  <2> DEFINE regs == ProfileRegs(i)
  <2>1. PICK k \in 1 .. 8 : ProfileFields[k] = f
    BY FieldNumbers
  <2>2. 2 + i \in Nat /\ 1 <= 2 + i /\ 2 + i <= Len(r)
    BY <1>3, Sizes DEF Channel
  <2>3. r[2 + i] = Get(t, regs)
    BY <1>3
  <2>4. regs \in Seq(Register) /\ k \in 1 .. Len(regs) /\ regs[k] = Profile(i, f)
    BY <2>1, RegisterLists
  <2> HIDE DEF regs
  <2>5. Reads(Get(t, regs).ask) = Get(t, regs).want
    BY <1>4, <2>2, <2>3
  <2>6. At(cfg, regs[k]) = Kept(regs[k][3], At(t.cfg, regs[k]))
    BY <1>1, <2>5, <2>4, ReadMatches
  <2>7. Profile(i, f) \in Register
    BY DEF Register
  <2> QED BY <1>5, <2>4, <2>6, <2>7
<1>9. ASSUME NEW i \in Slot, NEW f \in In(BindingFields), i <= n
      PROVE  At(cfg, Binding(i, f)) = At(m, Binding(i, f))
  <2> DEFINE low == SubSeq(BindingRegs(i), 1, 8)
             high == SubSeq(BindingRegs(i), 9, 10)
  <2>1. PICK k \in 1 .. 10 : BindingFields[k] = f
    BY FieldNumbers
  <2>2. i \in 1 .. n /\ i \in Nat
    BY <1>3, <1>9, Sizes DEF Slot
  <2>3. /\ 2 + Channels + i \in Nat /\ 1 <= 2 + Channels + i /\ 2 + Channels + i <= Len(r)
        /\ 2 + Channels + n + i \in Nat /\ 1 <= 2 + Channels + n + i /\ 2 + Channels + n + i <= Len(r)
    BY <1>3, <2>2, Sizes
  <2>4. r[2 + Channels + i] = Get(t, low) /\ r[2 + Channels + n + i] = Get(t, high)
    BY <1>3, <2>2
  <2>5. /\ low \in Seq(Register) /\ Len(low) = 8 /\ high \in Seq(Register) /\ Len(high) = 2
        /\ \A j \in 1 .. 8 : low[j] = Binding(i, BindingFields[j])
        /\ \A j \in 1 .. 2 : high[j] = Binding(i, BindingFields[j + 8])
    BY BindingParts
  <2> HIDE DEF low, high
  <2>6. Reads(Get(t, low).ask) = Get(t, low).want
    BY <1>4, <2>3, <2>4
  <2>7. Reads(Get(t, high).ask) = Get(t, high).want
    BY <1>4, <2>3, <2>4
  <2>8. Binding(i, f) \in Register
    BY DEF Register
  <2>9. CASE k \in 1 .. 8
    <3>1. k \in 1 .. Len(low) /\ low[k] = Binding(i, f)
      BY <2>1, <2>5, <2>9
    <3>2. At(cfg, low[k]) = Kept(low[k][3], At(t.cfg, low[k]))
      BY <1>1, <2>5, <2>6, <3>1, ReadMatches
    <3> QED BY <1>5, <2>8, <3>1, <3>2
  <2>10. CASE k \in 9 .. 10
    <3> DEFINE j == k - 8
    <3>0. j \in 1 .. 2 /\ k = j + 8
      BY <2>10
    <3> HIDE DEF j
    <3>1. j \in 1 .. Len(high) /\ j \in 1 .. 2 /\ k = j + 8
      BY <2>5, <3>0
    <3>2. high[j] = Binding(i, f)
      BY <2>1, <2>5, <3>1
    <3>3. At(cfg, high[j]) = Kept(high[j][3], At(t.cfg, high[j]))
      BY <1>1, <2>5, <2>7, <3>1, ReadMatches
    <3> QED BY <1>5, <2>8, <3>2, <3>3
  <2> QED BY <2>9, <2>10
<1>10. n = Globals(cfg).count
  <2> DEFINE q == Global("count")
  <2>1. /\ GlobalRegs \in Seq(Register) /\ Len(GlobalRegs) = 7 /\ GlobalRegs[1] = q
    BY RegisterLists DEF GlobalFields
  <2>2. Reads(Get(t, GlobalRegs).ask) = Get(t, GlobalRegs).want
    BY <1>3, <1>4, Sizes
  <2>3. /\ Get(t, GlobalRegs).ask = [kind |-> "read", regs |-> GlobalRegs]
        /\ Get(t, GlobalRegs).want = [j \in DOMAIN GlobalRegs |-> At(t.cfg, GlobalRegs[j])]
    BY <1>1, <2>1, GetIsStep
  <2>4. config_registers_hr_read(cfg, q) = At(t.cfg, q)
    BY <2>1, <2>2, <2>3 DEF Reads
  <2> QED BY <2>4 DEF config_registers_hr_read, Shown, At, Global, Globals, n
<1>11. Globals(cfg) = Globals(m) /\ cfg.profile = m.profile /\ InForce(cfg) = InForce(m)
  BY <1>1, <1>5, <1>7, <1>8, <1>9, <1>10, SameEffect
<1> QED BY <1>5, <1>6, <1>11

LEMMA CheckedIsInstalled == Typed /\ Checked => VerifiedMeansInstalled
<1> SUFFICES ASSUME Typed, Checked, Done, faults["flash"] = 0
             PROVE  /\ Effect([cfg |-> cfg, link |-> link]) = Effect(Meant(target))
                    /\ Effect(Loaded(saved)) = Effect(Meant(target))
  BY DEF VerifiedMeansInstalled
<1>1. Synced /\ Verified
  BY DEF Checked
<1> DEFINE m == Meant(target).cfg
<1>2. /\ link = Meant(target).link
      /\ Globals(cfg) = Globals(m) /\ cfg.profile = m.profile /\ InForce(cfg) = InForce(m)
  BY <1>1, AllReadMatches
<1>3. Effect([cfg |-> cfg, link |-> link]) = Effect(Meant(target))
  BY <1>2 DEF Effect
<1>4. step > Writes + 1
  <2>1. target \in Targets
    BY DEF Typed, TypeOK
  <2> DEFINE n == Len(Script[target])
  <2>2. n \in Nat /\ n > Writes /\ Writes \in Nat
    BY <2>1, StepNumber, ScriptTable
  <2>3. step = n + 1
    BY DEF Done
  <2> HIDE DEF n
  <2> QED BY <2>2, <2>3
<1>5. InStep
  <2>1. step > Writes /\ step \in Nat /\ Writes \in Nat
    BY <1>4, StepNumber
  <2> QED BY <1>1, <1>4, <2>1 DEF Synced, Beyond
<1>6. Effect(Loaded(saved)) = Effect([cfg |-> cfg, link |-> link])
  BY <1>5 DEF InStep, Effect
<1> QED BY <1>3, <1>6

(* What the operator is told is true, for every file and every earlier        *)
(* configuration, however many attempts, lost messages and resets there were. *)
THEOREM Verification == Spec => []VerifiedMeansInstalled
<1>1. Init => Typed /\ Checked
  BY InitTyped, InitChecked
<1>2. Typed /\ Checked /\ [Next]_vars => (Typed /\ Checked)'
  BY StepTyped, StepChecked
<1>3. Typed /\ Checked => VerifiedMeansInstalled
  BY CheckedIsInstalled
<1> QED BY <1>1, <1>2, <1>3, PTL DEF Spec

-------------------------------------------------------------------------------
(* Which request is the last to write a register, and what it writes.         *)
Wholes == Channels + 3 * Slots + 2 \* the globals are written, all the rest is

LastWrite(r) ==
  CASE r[1] = "global"  -> Wholes
    [] r[1] = "profile" -> 1 + r[2]
    [] r[1] = "binding" /\ r[3] = "enabled" -> 1 + Channels + 2 * Slots + r[2]
    [] OTHER -> 1 + Channels + Slots + r[2]

LEMMA LastWriteCases ==
  /\ \A f \in In(GlobalFields) : LastWrite(Global(f)) = Wholes
  /\ \A i \in Channel, f \in In(ProfileFields) : LastWrite(Profile(i, f)) = 1 + i
  /\ \A i \in Slot : LastWrite(Binding(i, "enabled")) = 1 + Channels + 2 * Slots + i
  /\ \A i \in Slot, f \in In(BindingFields) :
       f # "enabled" => LastWrite(Binding(i, f)) = 1 + Channels + Slots + i
BY DEF LastWrite, Global, Profile, Binding

LEMMA AnyRegister ==
  ASSUME NEW r \in Register
  PROVE  \/ \E f \in In(GlobalFields) : r = Global(f)
         \/ \E i \in Channel, f \in In(ProfileFields) : r = Profile(i, f)
         \/ \E i \in Slot : r = Binding(i, "enabled")
         \/ \E i \in Slot, f \in In(BindingFields) : f # "enabled" /\ r = Binding(i, f)
BY DEF Register

LEMMA LastWriteRange ==
  ASSUME NEW r \in Register
  PROVE  LastWrite(r) \in Nat /\ 2 <= LastWrite(r) /\ LastWrite(r) <= Wholes
<1> DEFINE l == LastWrite(r)
<1>1. \A i \in Channel : i \in Nat /\ 1 <= i /\ i <= Channels
  BY Sizes DEF Channel
<1>2. \A i \in Slot : i \in Nat /\ 1 <= i /\ i <= Slots
  BY Sizes DEF Slot
<1>3. \/ l = Wholes
      \/ \E i \in Channel : l = 1 + i
      \/ \E i \in Slot : l = 1 + Channels + 2 * Slots + i
      \/ \E i \in Slot : l = 1 + Channels + Slots + i
  BY AnyRegister, LastWriteCases
<1> HIDE DEF l
<1>4. l \in Nat /\ 2 <= l /\ l <= Wholes
  BY <1>1, <1>2, <1>3, Sizes DEF Wholes
<1> QED BY <1>4 DEF l

(* The registers a request of the file's words writes: each once, and all     *)
(* those it is the last to write. *)
Lists(regs, k) ==
  /\ regs \in Seq(Register)
  /\ \A j \in 1 .. Len(regs) : LastWrite(regs[j]) = k
  /\ \A i, j \in 1 .. Len(regs) : regs[i] = regs[j] => i = j
  /\ \A r \in Register : LastWrite(r) = k => \E j \in 1 .. Len(regs) : regs[j] = r

LEMMA FieldsDiffer ==
  /\ \A i, j \in 1 .. 7 : GlobalFields[i] = GlobalFields[j] => i = j
  /\ \A i, j \in 1 .. 8 : ProfileFields[i] = ProfileFields[j] => i = j
  /\ \A i, j \in 1 .. 10 : BindingFields[i] = BindingFields[j] => i = j
  /\ BindingFields[1] = "enabled" /\ GlobalFields[1] = "count"
  /\ \A i \in 1 .. 7 : GlobalFields[i] \in In(GlobalFields)
  /\ \A i \in 1 .. 8 : ProfileFields[i] \in In(ProfileFields)
  /\ \A i \in 1 .. 10 : BindingFields[i] \in In(BindingFields)
BY DEF In, GlobalFields, ProfileFields, BindingFields

LEMMA GlobalList == Lists(GlobalRegs, Wholes)
<1>1. /\ GlobalRegs \in Seq(Register) /\ Len(GlobalRegs) = 7
      /\ \A k \in 1 .. 7 : GlobalRegs[k] = Global(GlobalFields[k])
  BY RegisterLists
<1>2. \A j \in 1 .. 7 : LastWrite(GlobalRegs[j]) = Wholes
  BY <1>1, FieldsDiffer, LastWriteCases
<1>3. \A i, j \in 1 .. 7 : GlobalRegs[i] = GlobalRegs[j] => i = j
  BY <1>1, FieldsDiffer DEF Global
<1>4. ASSUME NEW r \in Register, LastWrite(r) = Wholes
      PROVE  \E j \in 1 .. 7 : GlobalRegs[j] = r
  <2>1. \A i \in Channel : 1 + i # Wholes
    BY Sizes DEF Channel, Wholes
  <2>2. \A i \in Slot : 1 + Channels + 2 * Slots + i # Wholes /\ 1 + Channels + Slots + i # Wholes
    BY Sizes DEF Slot, Wholes
  <2>3. \E f \in In(GlobalFields) : r = Global(f)
    BY <1>4, <2>1, <2>2, AnyRegister, LastWriteCases
  <2> QED BY <1>1, <2>3, FieldNumbers
<1> QED BY <1>1, <1>2, <1>3, <1>4 DEF Lists

LEMMA ProfileList == ASSUME NEW i \in Channel PROVE Lists(ProfileRegs(i), 1 + i)
<1> DEFINE regs == ProfileRegs(i)
<1>1. /\ regs \in Seq(Register) /\ Len(regs) = 8
      /\ \A k \in 1 .. 8 : regs[k] = Profile(i, ProfileFields[k])
  BY RegisterLists
<1> HIDE DEF regs
<1>2. \A j \in 1 .. 8 : LastWrite(regs[j]) = 1 + i
  BY <1>1, FieldsDiffer, LastWriteCases
<1>3. \A m, n \in 1 .. 8 : regs[m] = regs[n] => m = n
  BY <1>1, FieldsDiffer DEF Profile
<1>4. ASSUME NEW r \in Register, LastWrite(r) = 1 + i
      PROVE  \E j \in 1 .. 8 : regs[j] = r
  <2>1. 1 + i # Wholes
    BY Sizes DEF Channel, Wholes
  <2>2. \A j \in Slot : 1 + Channels + 2 * Slots + j # 1 + i /\ 1 + Channels + Slots + j # 1 + i
    BY Sizes DEF Slot, Channel
  <2>3. \A j \in Channel : 1 + j = 1 + i => j = i
    BY Sizes DEF Channel
  <2>4. \E f \in In(ProfileFields) : r = Profile(i, f)
    BY <1>4, <2>1, <2>2, <2>3, AnyRegister, LastWriteCases
  <2> QED BY <1>1, <2>4, FieldNumbers
<1> QED BY <1>1, <1>2, <1>3, <1>4 DEF Lists, regs

LEMMA BindingList == ASSUME NEW i \in Slot PROVE Lists(Tail(BindingRegs(i)), 1 + Channels + Slots + i)
<1> DEFINE regs == Tail(BindingRegs(i))
           k == 1 + Channels + Slots + i
<1>1. /\ regs \in Seq(Register) /\ Len(regs) = 9
      /\ \A j \in 1 .. 9 : regs[j] = Binding(i, BindingFields[j + 1])
  BY BindingParts
<1>2. \A j \in 1 .. 9 : j + 1 \in 1 .. 10 /\ j + 1 # 1
  OBVIOUS
<1>3. \A j \in 1 .. 9 : BindingFields[j + 1] \in In(BindingFields) /\ BindingFields[j + 1] # "enabled"
  BY <1>2, FieldsDiffer
<1> HIDE DEF regs
<1>4. \A j \in 1 .. 9 : LastWrite(regs[j]) = k
  BY <1>1, <1>3, LastWriteCases
<1>5. ASSUME NEW m \in 1 .. 9, NEW n \in 1 .. 9, regs[m] = regs[n] PROVE m = n
  <2>1. BindingFields[m + 1] = BindingFields[n + 1]
    <3>1. Binding(i, BindingFields[m + 1]) = Binding(i, BindingFields[n + 1])
      BY <1>1, <1>5
    <3> DEFINE f == BindingFields[m + 1]
               g == BindingFields[n + 1]
    <3> HIDE DEF f, g
    <3>2. Binding(i, f) = Binding(i, g) => f = g
      BY DEF Binding
    <3> QED BY <3>1, <3>2 DEF f, g
  <2>2. m + 1 = n + 1
    BY <1>2, <2>1, FieldsDiffer
  <2> QED BY <2>2
<1>6. ASSUME NEW r \in Register, LastWrite(r) = k
      PROVE  \E j \in 1 .. 9 : regs[j] = r
  <2>1. k # Wholes /\ \A j \in Channel : 1 + j # k
    BY Sizes DEF Channel, Slot, Wholes
  <2>2. \A j \in Slot : 1 + Channels + 2 * Slots + j # k
    BY Sizes DEF Slot
  <2>3. \A j \in Slot : 1 + Channels + Slots + j = k => j = i
    BY Sizes DEF Slot
  <2> HIDE DEF k
  <2>4. \E f \in In(BindingFields) : f # "enabled" /\ r = Binding(i, f)
    BY <1>6, <2>1, <2>2, <2>3, AnyRegister, LastWriteCases
  <2>5. PICK f \in In(BindingFields) : f # "enabled" /\ r = Binding(i, f)
    BY <2>4
  <2>6. PICK n \in 1 .. 10 : BindingFields[n] = f
    BY FieldNumbers
  <2>7. n # 1
    BY <2>5, <2>6, FieldsDiffer
  <2>8. n - 1 \in 1 .. 9 /\ (n - 1) + 1 = n
    BY <2>7
  <2>9. regs[n - 1] = r
    BY <1>1, <2>5, <2>6, <2>8
  <2> QED BY <2>8, <2>9
<1> QED BY <1>1, <1>4, <1>5, <1>6 DEF Lists, regs

LEMMA EnabledList == ASSUME NEW i \in Slot PROVE Lists(<<Binding(i, "enabled")>>, 1 + Channels + 2 * Slots + i)
<1> DEFINE r == Binding(i, "enabled")
           k == 1 + Channels + 2 * Slots + i
<1>1. r \in Register
  BY Fields DEF Register
<1>2. LastWrite(r) = k
  BY LastWriteCases
<1>3. ASSUME NEW q \in Register, LastWrite(q) = k PROVE q = r
  <2>1. k # Wholes /\ \A j \in Channel : 1 + j # k
    BY Sizes DEF Channel, Slot, Wholes
  <2>2. \A j \in Slot : 1 + Channels + Slots + j # k
    BY Sizes DEF Slot
  <2>3. \A j \in Slot : 1 + Channels + 2 * Slots + j = k => j = i
    BY Sizes DEF Slot
  <2> HIDE DEF k
  <2> QED BY <1>3, <2>1, <2>2, <2>3, AnyRegister, LastWriteCases
<1> HIDE DEF r, k
<1>4. Lists(<<r>>, k)
  BY <1>1, <1>2, <1>3 DEF Lists
<1> QED BY <1>4 DEF r, k

(* The requests of write_device before the save. *)
LEMMA WriteCases ==
  ASSUME NEW t \in Targets, NEW k \in Nat, 1 <= k, k < Writes, NEW q, q = Script[t][k]
  PROVE  \/ k = 1 /\ q = Zero(Global("count"))
         \/ \E i \in Slot : k = 1 + Channels + i /\ q = Zero(Binding(i, "enabled"))
         \/ \E regs \in Seq(Register) : q = Put(t, regs) /\ Lists(regs, k) /\ k > 1 /\ k <= Wholes
         \/ k = Wholes + 1 /\ q = Step([kind |-> "address", value |-> t.link.address], <<>>)
         \/ k = Wholes + 2 /\ q = Step([kind |-> "port", value |-> t.link.port], <<>>)
<1> DEFINE w == write_device(t)
<1>1. q = w[k]
  BY ScriptTable
<1>2. /\ w[1] = Zero(Global("count"))
      /\ \A i \in Channel : w[1 + i] = Put(t, ProfileRegs(i))
      /\ \A i \in Slot : w[1 + Channels + i] = Zero(Binding(i, "enabled"))
      /\ \A i \in Slot : w[1 + Channels + Slots + i] = Put(t, Tail(BindingRegs(i)))
      /\ \A i \in Slot : w[1 + Channels + 2 * Slots + i] = Put(t, <<Binding(i, "enabled")>>)
      /\ w[Channels + 3 * Slots + 2] = Put(t, GlobalRegs)
      /\ w[Channels + 3 * Slots + 3] = Step([kind |-> "address", value |-> t.link.address], <<>>)
      /\ w[Channels + 3 * Slots + 4] = Step([kind |-> "port", value |-> t.link.port], <<>>)
  BY WriteTable
<1> HIDE DEF w
<1>3. CASE k = 1
  BY <1>1, <1>2, <1>3
<1>4. ASSUME NEW i \in Channel, k = 1 + i
      PROVE  \E regs \in Seq(Register) : q = Put(t, regs) /\ Lists(regs, k) /\ k > 1 /\ k <= Wholes
  <2>1. k > 1 /\ k <= Wholes
    BY <1>4, Sizes DEF Channel, Wholes
  <2> QED BY <1>1, <1>2, <1>4, <2>1, ProfileList DEF Lists
<1>5. ASSUME NEW i \in Slot, k = 1 + Channels + i
      PROVE  q = Zero(Binding(i, "enabled"))
  BY <1>1, <1>2, <1>5
<1>6. ASSUME NEW i \in Slot, k = 1 + Channels + Slots + i
      PROVE  \E regs \in Seq(Register) : q = Put(t, regs) /\ Lists(regs, k) /\ k > 1 /\ k <= Wholes
  <2>1. k > 1 /\ k <= Wholes
    BY <1>6, Sizes DEF Slot, Wholes
  <2> DEFINE regs == Tail(BindingRegs(i))
  <2>2. Lists(regs, k) /\ q = Put(t, regs)
    BY <1>1, <1>2, <1>6, BindingList
  <2> HIDE DEF regs
  <2>3. regs \in Seq(Register)
    BY <2>2 DEF Lists
  <2> QED BY <2>1, <2>2, <2>3
<1>7. ASSUME NEW i \in Slot, k = 1 + Channels + 2 * Slots + i
      PROVE  \E regs \in Seq(Register) : q = Put(t, regs) /\ Lists(regs, k) /\ k > 1 /\ k <= Wholes
  <2>1. k > 1 /\ k <= Wholes
    BY <1>7, Sizes DEF Slot, Wholes
  <2> DEFINE regs == <<Binding(i, "enabled")>>
  <2>2. Lists(regs, k) /\ q = Put(t, regs)
    BY <1>1, <1>2, <1>7, EnabledList
  <2> HIDE DEF regs
  <2>3. regs \in Seq(Register)
    BY <2>2 DEF Lists
  <2> QED BY <2>1, <2>2, <2>3
<1>8. ASSUME k = Channels + 3 * Slots + 2
      PROVE  \E regs \in Seq(Register) : q = Put(t, regs) /\ Lists(regs, k) /\ k > 1 /\ k <= Wholes
  <2>1. k > 1 /\ k = Wholes /\ k <= Wholes
    BY <1>8, Sizes DEF Wholes
  <2> QED BY <1>1, <1>2, <1>8, <2>1, GlobalList DEF Lists
<1>9. /\ Channels + 3 * Slots + 3 = Wholes + 1
      /\ Channels + 3 * Slots + 4 = Wholes + 2
      /\ Writes \in Nat
  BY Sizes DEF Wholes, Writes
<1>10. \/ k = 1
       \/ \E i \in Channel : k = 1 + i
       \/ \E i \in Slot : k = 1 + Channels + i
       \/ \E i \in Slot : k = 1 + Channels + Slots + i
       \/ \E i \in Slot : k = 1 + Channels + 2 * Slots + i
       \/ k = Channels + 3 * Slots + 2
       \/ k = Channels + 3 * Slots + 3
       \/ k = Channels + 3 * Slots + 4
  BY <1>9, WriteSpots
<1> QED BY <1>1, <1>2, <1>3, <1>4, <1>5, <1>6, <1>7, <1>8, <1>9, <1>10

(* One request of words: what the script has written before stays, and what   *)
(* this request is the last to write holds once it is accepted.  The count    *)
(* goes to 0 with the first and to its value with the last. *)
LEMMA WordsEffect ==
  ASSUME NEW t \in Targets, NEW k \in Nat, 1 <= k, k < Writes, NEW q, q = Script[t][k],
         q.ask.kind = "words", NEW c, ValidConfig(c), NEW s \in Status, NEW w,
         w = write_multiple(c, s, q.ask.words), NEW m, m = Meant(t).cfg,
         NEW n, n = Global("count")
  PROVE  /\ k <= Wholes
         /\ \A r \in Register : LastWrite(r) < k => At(w.cfg, r) = At(c, r)
         /\ w.ok => \A r \in Register : LastWrite(r) = k => At(w.cfg, r) = At(m, r)
         /\ k = 1 => /\ At(w.cfg, n) \in {At(c, n), 0} /\ (w.ok => At(w.cfg, n) = 0)
                     /\ \A r \in Register : r # n => At(w.cfg, r) = At(c, r)
         /\ 1 < k /\ k < Wholes => At(w.cfg, n) = At(c, n)
         /\ k = Wholes => At(w.cfg, n) \in {At(c, n), At(m, n)}
<1>1. n \in Register /\ LastWrite(n) = Wholes /\ n[3] = "count"
  BY Fields, LastWriteCases DEF Register, Global
<1>2. Wholes \in Nat /\ Wholes > 1 /\ Writes = Wholes + 3
  BY Sizes DEF Wholes, Writes
<1>3. \A r \in Register : At(m, r) = Kept(r[3], At(t.cfg, r))
  BY MeantParts
<1>4. \A r \in Register : LastWrite(r) \in Nat /\ 2 <= LastWrite(r) /\ LastWrite(r) <= Wholes
  BY LastWriteRange
<1> DEFINE words == q.ask.words
<1>5. words \in Seq(Writing)
        => /\ \A r \in Register :
                \/ At(w.cfg, r) = At(c, r)
                \/ \E j \in 1 .. Len(words) :
                     words[j][1] = r /\ At(w.cfg, r) = Kept(r[3], words[j][2])
           /\ w.ok /\ (\A i, j \in 1 .. Len(words) : words[i][1] = words[j][1] => i = j)
                => \A j \in 1 .. Len(words) : At(w.cfg, words[j][1]) = Kept(words[j][1][3], words[j][2])
  <2>1. w = write_multiple(c, s, words)
    OBVIOUS
  <2> HIDE DEF words
  <2> QED BY <2>1, ManyWords
<1>6. ASSUME NEW z \in Register, q = Zero(z)
      PROVE  /\ \A r \in Register : r # z => At(w.cfg, r) = At(c, r)
             /\ At(w.cfg, z) \in {At(c, z), Kept(z[3], 0)}
             /\ w.ok => At(w.cfg, z) = Kept(z[3], 0)
  <2>1. words = <<<<z, 0>>>> /\ words \in Seq(Writing)
    BY <1>6, ZeroIsStep
  <2> HIDE DEF words
  <2>2. Len(words) = 1 /\ words[1][1] = z /\ words[1][2] = 0
    BY <2>1
  <2>3. \A j \in 1 .. Len(words) : j = 1
    BY <2>2
  <2>4. 1 \in 1 .. Len(words)
    BY <2>2
  <2> QED BY <1>5, <2>1, <2>2, <2>3, <2>4
<1>7. CASE k = 1 /\ q = Zero(n)
  <2>1. Kept(n[3], 0) = 0
    BY <1>1 DEF Kept, ByteFields
  <2>2. /\ \A r \in Register : r # n => At(w.cfg, r) = At(c, r)
        /\ At(w.cfg, n) \in {At(c, n), 0} /\ (w.ok => At(w.cfg, n) = 0)
    BY <1>1, <1>6, <1>7, <2>1
  <2>3. \A r \in Register : ~(LastWrite(r) < k) /\ LastWrite(r) # k
    BY <1>4, <1>7
  <2>4. k <= Wholes /\ k # Wholes /\ ~(1 < k)
    BY <1>2, <1>7
  <2> QED BY <2>2, <2>3, <2>4
<1>8. ASSUME NEW i \in Slot, k = 1 + Channels + i, q = Zero(Binding(i, "enabled"))
      PROVE  /\ k < Wholes /\ 1 < k
             /\ \A r \in Register : LastWrite(r) <= k => At(w.cfg, r) = At(c, r) /\ LastWrite(r) # k
             /\ At(w.cfg, n) = At(c, n)
  <2> DEFINE z == Binding(i, "enabled")
  <2>1. z \in Register /\ LastWrite(z) = 1 + Channels + 2 * Slots + i /\ z # n
    <3>1. z \in Register /\ z[1] = "binding" /\ n[1] = "global"
      BY Fields DEF Register, Binding, Global
    <3> QED BY <3>1, LastWriteCases
  <2>2. i \in Nat /\ 1 <= i /\ i <= Slots
    BY Sizes DEF Slot
  <2>3. k < Wholes /\ 1 < k /\ k < LastWrite(z)
    BY <1>8, <2>1, <2>2, Sizes DEF Wholes
  <2>4. \A r \in Register : r # z => At(w.cfg, r) = At(c, r)
    BY <1>6, <1>8, <2>1
  <2>5. ASSUME NEW r \in Register, LastWrite(r) <= k PROVE r # z /\ LastWrite(r) # k
    <3>1. r # z
      BY <1>4, <2>1, <2>3, <2>5
    <3>2. \A j \in Channel : j \in Nat /\ 1 + j < k
      BY <1>8, <2>2, Sizes DEF Channel
    <3>3. \A j \in Slot : /\ 1 + Channels + 2 * Slots + j > k /\ 1 + Channels + Slots + j > k
                          /\ j \in Nat
      BY <1>8, <2>2, Sizes DEF Slot
    <3>4. \/ LastWrite(r) = Wholes
          \/ \E j \in Channel : LastWrite(r) = 1 + j
          \/ \E j \in Slot : LastWrite(r) = 1 + Channels + 2 * Slots + j
          \/ \E j \in Slot : LastWrite(r) = 1 + Channels + Slots + j
      BY AnyRegister, LastWriteCases
    <3>5. LastWrite(r) # k
      BY <1>2, <2>3, <3>2, <3>3, <3>4, Sizes
    <3> QED BY <3>1, <3>5
  <2> QED BY <1>1, <2>1, <2>3, <2>4, <2>5
<1>9. ASSUME NEW regs \in Seq(Register), q = Put(t, regs), Lists(regs, k), k > 1, k <= Wholes
      PROVE  /\ k <= Wholes
             /\ \A r \in Register : LastWrite(r) # k => At(w.cfg, r) = At(c, r)
             /\ \A r \in Register : At(w.cfg, r) \in {At(c, r), At(m, r)}
             /\ w.ok => \A r \in Register : LastWrite(r) = k => At(w.cfg, r) = At(m, r)
  <2> DEFINE L == Len(regs)
  <2>1. /\ words \in Seq(Writing) /\ Len(words) = L
        /\ \A j \in 1 .. L : words[j] = <<regs[j], At(t.cfg, regs[j])>>
    BY <1>9, PutIsStep
  <2> HIDE DEF words
  <2>2. \A j \in 1 .. L : regs[j] \in Register /\ LastWrite(regs[j]) = k
    BY <1>9 DEF Lists
  <2>3. \A j \in 1 .. L : words[j][1] = regs[j] /\ words[j][2] = At(t.cfg, regs[j])
    BY <2>1
  <2>4. \A i, j \in 1 .. L : regs[i] = regs[j] => i = j
    BY <1>9 DEF Lists
  <2>5. \A r \in Register : LastWrite(r) = k => \E j \in 1 .. L : regs[j] = r
    BY <1>9 DEF Lists
  <2> HIDE DEF L
  <2>6. \A r \in Register : \/ At(w.cfg, r) = At(c, r)
                            \/ LastWrite(r) = k /\ At(w.cfg, r) = At(m, r)
    BY <1>3, <1>5, <2>1, <2>2, <2>3
  <2>7. ASSUME w.ok, NEW r \in Register, LastWrite(r) = k PROVE At(w.cfg, r) = At(m, r)
    <3>1. \A i, j \in 1 .. L : words[i][1] = words[j][1] => i = j
      BY <2>3, <2>4
    <3>2. \A j \in 1 .. L : At(w.cfg, regs[j]) = Kept(regs[j][3], At(t.cfg, regs[j]))
      BY <1>5, <2>1, <2>3, <2>7, <3>1
    <3>3. PICK j \in 1 .. L : regs[j] = r
      BY <2>5, <2>7
    <3> QED BY <1>3, <3>2, <3>3
  <2> QED BY <1>1, <1>9, <2>6, <2>7
<1>10. ~(q = Step([kind |-> "address", value |-> t.link.address], <<>>))
       /\ ~(q = Step([kind |-> "port", value |-> t.link.port], <<>>))
  BY DEF Step
<1>11. CASE \E i \in Slot : k = 1 + Channels + i /\ q = Zero(Binding(i, "enabled"))
  <2>1. /\ k < Wholes /\ 1 < k /\ k # 1 /\ k <= Wholes /\ k # Wholes
        /\ \A r \in Register : LastWrite(r) <= k => At(w.cfg, r) = At(c, r) /\ LastWrite(r) # k
        /\ At(w.cfg, n) = At(c, n)
    BY <1>2, <1>8, <1>11
  <2>2. \A r \in Register : LastWrite(r) < k => LastWrite(r) <= k
    BY <1>4
  <2>3. \A r \in Register : LastWrite(r) # k
    BY <1>4, <2>1
  <2> QED BY <2>1, <2>2, <2>3
<1>12. CASE \E regs \in Seq(Register) : q = Put(t, regs) /\ Lists(regs, k) /\ k > 1 /\ k <= Wholes
  <2>1. /\ k <= Wholes /\ k # 1
        /\ \A r \in Register : LastWrite(r) # k => At(w.cfg, r) = At(c, r)
        /\ \A r \in Register : At(w.cfg, r) \in {At(c, r), At(m, r)}
        /\ w.ok => \A r \in Register : LastWrite(r) = k => At(w.cfg, r) = At(m, r)
    BY <1>9, <1>12
  <2>2. \A r \in Register : LastWrite(r) < k => LastWrite(r) # k
    BY <1>4
  <2>3. k < Wholes => LastWrite(n) # k
    BY <1>1, <1>2
  <2> QED BY <1>1, <2>1, <2>2, <2>3
<1> QED BY <1>7, <1>10, <1>11, <1>12, WriteCases

-------------------------------------------------------------------------------
(* Without a reset, what the script has written stays written: the tool is    *)
(* the only one to write.  The count is 0 from the first request on until the *)
(* globals are written, and those come after the bindings.                    *)
Counter == Global("count")

Written ==
  /\ \A r \in Register : Beyond(LastWrite(r)) => At(cfg, r) = At(Meant(target).cfg, r)
  /\ Beyond(Wholes + 1) => link.address = target.link.address
  /\ Beyond(Wholes + 2) => link.port = target.link.port

CountStays ==
  /\ Beyond(1) /\ step < Wholes => At(cfg, Counter) = 0
  /\ step = Wholes => At(cfg, Counter) \in {0, At(Meant(target).cfg, Counter)}

(* A save waits only when all is written, and keeps it so till it is done.    *)
SavesMeant == command => Effect([cfg |-> cfg, link |-> link]) = Effect(Meant(target))

Whole == faults["power"] = 0 => Written /\ CountStays /\ BindingsAreWhole /\ SavesMeant /\ SavedIsWhole

LEMMA CounterField ==
  /\ Counter \in Register /\ LastWrite(Counter) = Wholes /\ \A c : At(c, Counter) = Globals(c).count
  /\ \A i, f : Binding(i, f) # Counter
  /\ \A i \in Slot, f \in In(BindingFields) : Binding(i, f) \in Register
<1>1. "count" \in In(GlobalFields)
  BY Fields
<1>2. Counter \in Register
  BY <1>1 DEF Counter, Register
<1>3. LastWrite(Counter) = Wholes
  BY <1>1, LastWriteCases DEF Counter
<1>4. \A c : At(c, Counter) = Globals(c).count
  BY DEF At, Counter, Global, Globals
<1>5. \A i, f : Binding(i, f) # Counter
  BY DEF Counter, Global, Binding
<1>6. \A i \in Slot, f \in In(BindingFields) : Binding(i, f) \in Register
  BY DEF Register
<1> QED BY <1>2, <1>3, <1>4, <1>5, <1>6

LEMMA NoneInForce == ASSUME NEW c, At(c, Counter) = 0 PROVE InForce(c) = {}
<1>1. Globals(c).count = 0
  BY CounterField
<1>2. \A i \in Slot : ~(i <= 0)
  BY Sizes DEF Slot
<1>3. ActiveSlots(c) = {}
  BY <1>1, <1>2 DEF ActiveSlots
<1> QED BY <1>3 DEF InForce

LEMMA SameInForce ==
  ASSUME NEW c \in Config, NEW m \in Config, At(c, Counter) = At(m, Counter),
         \A i \in Slot, f \in In(BindingFields) : At(c, Binding(i, f)) = At(m, Binding(i, f))
  PROVE  InForce(c) = InForce(m)
<1> DEFINE B == In(BindingFields)
<1>1. c.binding \in [Slot -> [B -> Word]] /\ m.binding \in [Slot -> [B -> Word]]
  BY DEF Config
<1>2. \A i \in Slot, f \in B : c.binding[i][f] = m.binding[i][f]
  BY DEF At, Binding
<1> HIDE DEF B
<1>3. \A i \in Slot : c.binding[i] = m.binding[i]
  BY <1>1, <1>2
<1>4. Globals(c).count = Globals(m).count
  BY CounterField
<1>5. ActiveSlots(c) = ActiveSlots(m)
  BY <1>3, <1>4 DEF ActiveSlots
<1>6. \A i \in ActiveSlots(c) : c.binding[i] = m.binding[i]
  BY <1>3 DEF ActiveSlots
<1> QED BY <1>5, <1>6 DEF InForce

(* All written is the file in force. *)
LEMMA WrittenIsMeant ==
  ASSUME Typed, Written, step = Writes
  PROVE  Effect([cfg |-> cfg, link |-> link]) = Effect(Meant(target))
<1> DEFINE m == Meant(target).cfg
<1>1. target \in Targets /\ cfg \in Config /\ link \in Link
  BY DEF Typed, TypeOK, DeviceTypeOK, ValidConfig
<1>2. m \in Config /\ Meant(target).link = target.link
  BY <1>1, MeantParts
<1>3. Writes = Wholes + 3 /\ Wholes \in Nat
  BY Sizes DEF Writes, Wholes
<1>4. Beyond(Wholes + 1) /\ Beyond(Wholes + 2) /\ \A r \in Register : Beyond(LastWrite(r))
  BY <1>3, LastWriteRange DEF Beyond
<1>5. \A r \in Register : At(cfg, r) = At(m, r)
  BY <1>4 DEF Written
<1>6. link.address = target.link.address /\ link.port = target.link.port
  BY <1>4 DEF Written
<1>7. link = target.link
  <2>1. target.link \in [address : Word, port : Word]
    BY <1>1, ToolAssumption DEF ToolAssumption
  <2> DEFINE A == 1 .. 247
             P == {v \in Word : ddm_modbus_port_cfg_valid(v)}
  <2>2. link \in [address : A, port : P]
    BY <1>1 DEF Link
  <2> HIDE DEF A, P
  <2> QED BY <1>6, <2>1, <2>2
<1> HIDE DEF m
<1>8. Globals(cfg) = Globals(m) /\ cfg.profile = m.profile /\ InForce(cfg) = InForce(m)
  <2>1. /\ \A f \in In(GlobalFields) : Global(f) \in Register
        /\ \A i \in Channel, f \in In(ProfileFields) : Profile(i, f) \in Register
        /\ \A i \in Slot, f \in In(BindingFields) : Binding(i, f) \in Register
    BY DEF Register
  <2>2. /\ \A f \in In(GlobalFields) : At(cfg, Global(f)) = At(m, Global(f))
        /\ \A i \in Channel, f \in In(ProfileFields) : At(cfg, Profile(i, f)) = At(m, Profile(i, f))
        /\ \A i \in Slot, f \in In(BindingFields) : At(cfg, Binding(i, f)) = At(m, Binding(i, f))
    BY <1>5, <2>1
  <2> QED BY <1>1, <1>2, <2>2, SameEffect
<1> QED BY <1>2, <1>7, <1>8 DEF Effect, m

LEMMA InitWhole == Typed /\ Init => Whole
<1> SUFFICES ASSUME Typed, Init PROVE Written /\ CountStays /\ BindingsAreWhole /\ SavesMeant /\ SavedIsWhole
  BY DEF Whole
<1>1. step = 1 /\ tx.kind # "ok" /\ before = saved /\ cfg = Loaded(saved).cfg /\ ~command
  BY DEF Init, DeviceInit, Quiet
<1>2. Wholes \in Nat /\ Wholes > 1
  BY Sizes DEF Wholes
<1>3. ~Beyond(1) /\ ~Beyond(Wholes + 1) /\ ~Beyond(Wholes + 2) /\ step # Wholes
  BY <1>1, <1>2 DEF Beyond
<1>4. \A r \in Register : ~Beyond(LastWrite(r))
  BY <1>1, LastWriteRange DEF Beyond
<1> QED BY <1>1, <1>3, <1>4 DEF Written, CountStays, BindingsAreWhole, SavesMeant, SavedIsWhole

(* Steps that leave the device alone: the tool stays, goes on after an        *)
(* accepted answer, or starts over. *)
LEMMA ToolKeepsWhole ==
  ASSUME Typed, Whole, faults["power"] = 0, UNCHANGED <<deviceVars, target, before>>,
         \/ step' = step /\ (tx'.kind = "ok" => tx.kind = "ok")
         \/ step' \in {0, 1} /\ tx'.kind # "ok"
         \/ step' = step + 1 /\ tx.kind = "ok" /\ tx'.kind # "ok" /\ Running
  PROVE  Whole'
<1>1. Written /\ CountStays /\ BindingsAreWhole /\ SavesMeant /\ SavedIsWhole
  BY DEF Whole
<1>2. step \in Nat /\ Wholes \in Nat /\ Wholes > 1 /\ Wholes' = Wholes
  BY StepNumber, Sizes DEF Wholes
<1>3. ASSUME NEW k \in Nat, 1 <= k, Beyond(k)' PROVE Beyond(k)
  BY <1>2, <1>3 DEF Beyond
<1>4. \A r \in Register : Beyond(LastWrite(r))' => Beyond(LastWrite(r))
  BY <1>3, LastWriteRange
<1>5. /\ Beyond(1)' => Beyond(1)
      /\ Beyond(Wholes + 1)' => Beyond(Wholes + 1)
      /\ Beyond(Wholes + 2)' => Beyond(Wholes + 2)
  BY <1>2, <1>3
<1>6. Meant(target)' = Meant(target)
  BY DEF Meant
<1>7. cfg' = cfg /\ link' = link /\ target' = target
  BY DEF deviceVars
<1>8. Written'
  BY <1>1, <1>2, <1>4, <1>5, <1>6, <1>7 DEF Written
<1>9. CountStays'
  <2>1. step' = step \/ step' \in {0, 1} \/ step' = step + 1
    OBVIOUS
  <2>2. step' \in Nat
    BY <1>2, <2>1
  <2>3. ASSUME Beyond(1)', step' < Wholes PROVE At(cfg, Counter) = 0
    <3>1. Beyond(1) /\ step < Wholes
      BY <1>2, <1>5, <2>3 DEF Beyond
    <3> QED BY <1>1, <3>1 DEF CountStays
  <2>4. ASSUME step' = Wholes PROVE At(cfg, Counter) \in {0, At(Meant(target).cfg, Counter)}
    <3>1. CASE step' = step
      BY <1>1, <2>4, <3>1 DEF CountStays
    <3>2. CASE step' = step + 1 /\ tx.kind = "ok" /\ Running
      <4>1. step >= 1
        <5> DEFINE n == Len(Script[target])
        <5>1. step \in 1 .. n /\ n \in Nat
          BY <3>2, StepNumber DEF Running
        <5> HIDE DEF n
        <5> QED BY <5>1
      <4>2. Beyond(1) /\ step < Wholes
        BY <1>2, <2>4, <3>2, <4>1 DEF Beyond
      <4> QED BY <1>1, <4>2 DEF CountStays
    <3> QED BY <1>2, <2>4, <3>1, <3>2
  <2> QED BY <1>2, <1>6, <1>7, <2>3, <2>4 DEF CountStays
<1>10. BindingsAreWhole' /\ SavesMeant' /\ SavedIsWhole'
  BY <1>1, <1>6 DEF BindingsAreWhole, SavesMeant, SavedIsWhole, deviceVars
<1> QED BY <1>8, <1>9, <1>10 DEF Whole

LEMMA WordsKeepWhole ==
  ASSUME Typed, DeviceTypeOK', Whole, faults["power"] = 0, WriteWords, step < Writes, rx = Now.ask, Running,
         UNCHANGED <<step, target, before, faults>>
  PROVE  Whole'
<1> DEFINE m == Meant(target).cfg
           k == step
           q == Script[target][k]
<1>1. Written /\ CountStays /\ BindingsAreWhole /\ SavesMeant /\ SavedIsWhole
  BY DEF Whole
<1>2. /\ k \in Nat /\ 1 <= k /\ k < Writes /\ target \in Targets /\ ValidConfig(cfg) /\ status \in Status
      /\ q.ask.kind = "words"
  <2>1. k \in Nat /\ target \in Targets /\ ValidConfig(cfg) /\ status \in Status
    BY StepNumber DEF Typed, TypeOK, DeviceTypeOK, Status
  <2>2. 1 <= k
    <3> DEFINE n == Len(Script[target])
    <3>1. step \in 1 .. n /\ n \in Nat
      BY StepNumber DEF Running
    <3> HIDE DEF n
    <3> QED BY <3>1
  <2>3. q.ask.kind = "words"
    BY DEF WriteWords, Receives, Now
  <2> QED BY <2>1, <2>2, <2>3
<1> DEFINE w == write_multiple(cfg, status, q.ask.words)
<1>3. /\ cfg' = w.cfg /\ (tx'.kind = "ok" => w.ok) /\ ~command /\ command' = command
      /\ link' = link /\ saved' = saved
  BY DEF WriteWords, Receives, Now, Exception, Answered
<1> HIDE DEF w, q
<1>4. /\ k <= Wholes
      /\ \A r \in Register : LastWrite(r) < k => At(w.cfg, r) = At(cfg, r)
      /\ w.ok => \A r \in Register : LastWrite(r) = k => At(w.cfg, r) = At(m, r)
      /\ k = 1 => /\ At(w.cfg, Counter) \in {At(cfg, Counter), 0} /\ (w.ok => At(w.cfg, Counter) = 0)
                  /\ \A r \in Register : r # Counter => At(w.cfg, r) = At(cfg, r)
      /\ 1 < k /\ k < Wholes => At(w.cfg, Counter) = At(cfg, Counter)
      /\ k = Wholes => At(w.cfg, Counter) \in {At(cfg, Counter), At(m, Counter)}
  <2>1. w = write_multiple(cfg, status, q.ask.words) /\ m = Meant(target).cfg /\ Counter = Global("count")
        /\ q = Script[target][k]
    BY DEF w, q, Counter
  <2> HIDE DEF m, k
  <2>2. k \in Nat /\ 1 <= k /\ k < Writes
    BY <1>2
  <2> QED BY <1>2, <2>1, <2>2, WordsEffect
<1>5. Wholes \in Nat /\ Wholes > 1 /\ Wholes' = Wholes
  BY Sizes DEF Wholes
<1>6. Meant(target)' = Meant(target) /\ m \in Config
  BY <1>2, MeantParts DEF Meant
<1>7. \A r \in Register : LastWrite(r) \in Nat /\ 2 <= LastWrite(r) /\ LastWrite(r) <= Wholes
  BY LastWriteRange
<1>8. Written'
  <2>1. ~Beyond(Wholes + 1)' /\ ~Beyond(Wholes + 2)'
    BY <1>2, <1>4, <1>5 DEF Beyond
  <2>2. ASSUME NEW r \in Register, Beyond(LastWrite(r))' PROVE At(w.cfg, r) = At(m, r)
    <3>1. CASE LastWrite(r) < k
      <4>1. Beyond(LastWrite(r))
        BY <3>1 DEF Beyond
      <4> QED BY <1>1, <1>4, <3>1, <4>1 DEF Written
    <3>2. CASE LastWrite(r) = k
      <4>1. tx'.kind = "ok"
        BY <1>2, <2>2, <3>2 DEF Beyond
      <4> QED BY <1>3, <1>4, <3>2, <4>1
    <3>3. CASE LastWrite(r) > k
      BY <1>2, <1>7, <2>2, <3>3 DEF Beyond
    <3> QED BY <1>2, <1>7, <3>1, <3>2, <3>3
  <2> QED BY <1>3, <1>5, <1>6, <2>1, <2>2 DEF Written
<1>9. At(w.cfg, Counter) \in {0, At(cfg, Counter), At(m, Counter)}
  <2>1. k = 1 \/ (1 < k /\ k < Wholes) \/ k = Wholes
    BY <1>2, <1>4, <1>5
  <2> QED BY <1>4, <2>1
<1>10. CountStays'
  <2>1. ASSUME Beyond(1)', k < Wholes PROVE At(w.cfg, Counter) = 0
    <3>1. CASE k = 1
      BY <1>3, <1>4, <2>1, <3>1 DEF Beyond
    <3>2. CASE k > 1
      <4>1. Beyond(1)
        BY <3>2 DEF Beyond
      <4> QED BY <1>1, <1>4, <2>1, <3>2, <4>1 DEF CountStays
    <3> QED BY <1>2, <3>1, <3>2
  <2>2. ASSUME k = Wholes PROVE At(w.cfg, Counter) \in {0, At(m, Counter)}
    BY <1>1, <1>4, <2>2 DEF CountStays
  <2> QED BY <1>3, <1>5, <1>6, <2>1, <2>2 DEF CountStays
<1>11. w.cfg \in Config /\ cfg \in Config
  BY <1>2, <1>3 DEF DeviceTypeOK, ValidConfig
<1>12. InForce(w.cfg) \in {InForce(cfg), {}, InForce(m)}
  <2>1. CASE k = 1
    <3>1. \A i \in Slot, f \in In(BindingFields) : At(w.cfg, Binding(i, f)) = At(cfg, Binding(i, f))
      BY <1>4, <2>1, CounterField
    <3>2. CASE At(w.cfg, Counter) = 0
      BY <3>2, NoneInForce
    <3>3. CASE At(w.cfg, Counter) = At(cfg, Counter)
      BY <1>11, <3>1, <3>3, SameInForce
    <3> QED BY <1>4, <2>1, <3>2, <3>3
  <2>2. CASE 1 < k /\ k < Wholes
    <3>1. Beyond(1)
      BY <2>2 DEF Beyond
    <3>2. At(w.cfg, Counter) = 0
      BY <1>1, <1>4, <2>2, <3>1 DEF CountStays
    <3> QED BY <3>2, NoneInForce
  <2>3. CASE k = Wholes
    <3>1. ASSUME NEW i \in Slot, NEW f \in In(BindingFields)
          PROVE  At(w.cfg, Binding(i, f)) = At(m, Binding(i, f))
      <4> DEFINE r == Binding(i, f)
      <4>1. LastWrite(r) < k
        <5>1. i \in Nat /\ 1 <= i /\ i <= Slots
          BY Sizes DEF Slot
        <5>2. LastWrite(r) \in {1 + Channels + 2 * Slots + i, 1 + Channels + Slots + i}
          BY LastWriteCases
        <5> HIDE DEF r
        <5> QED BY <2>3, <5>1, <5>2, Sizes DEF Wholes
      <4>2. Beyond(LastWrite(r)) /\ r \in Register
        BY <4>1, CounterField DEF Beyond
      <4> QED BY <1>1, <1>4, <4>1, <4>2 DEF Written
    <3>2. CASE At(w.cfg, Counter) = 0
      BY <3>2, NoneInForce
    <3>3. CASE At(w.cfg, Counter) = At(m, Counter)
      BY <1>6, <1>11, <3>1, <3>3, SameInForce
    <3> QED BY <1>1, <1>4, <2>3, <3>2, <3>3 DEF CountStays
  <2> QED BY <1>2, <1>4, <1>5, <2>1, <2>2, <2>3
<1>13. BindingsAreWhole'
  BY <1>1, <1>3, <1>6, <1>12 DEF BindingsAreWhole
<1>14. SavesMeant' /\ SavedIsWhole'
  BY <1>1, <1>3, <1>6 DEF SavesMeant, SavedIsWhole
<1> QED BY <1>8, <1>10, <1>13, <1>14 DEF Whole

(* Where the address and the port are written. *)
LEMMA LinkSpots ==
  ASSUME NEW t \in Targets, NEW k \in Nat, 1 <= k, k < Writes, NEW q, q = Script[t][k]
  PROVE  /\ q.ask.kind = "address" => k = Wholes + 1 /\ q.ask.value = t.link.address
         /\ q.ask.kind = "port" => k = Wholes + 2 /\ q.ask.value = t.link.port
<1>1. \A z \in Register : Zero(z).ask.kind = "words"
  BY ZeroIsStep
<1>2. \A regs \in Seq(Register) : Put(t, regs).ask.kind = "words"
  BY PutIsStep
<1>3. Global("count") \in Register /\ \A i \in Slot : Binding(i, "enabled") \in Register
  BY Fields DEF Register
<1>4. \A a, b : Step(a, b).ask = a
  BY DEF Step
<1>5. CASE q = Zero(Global("count")) \/ \E i \in Slot : q = Zero(Binding(i, "enabled"))
  BY <1>1, <1>3, <1>5
<1>6. CASE \E regs \in Seq(Register) : q = Put(t, regs)
  BY <1>2, <1>6
<1>7. CASE k = Wholes + 1 /\ q = Step([kind |-> "address", value |-> t.link.address], <<>>)
  BY <1>4, <1>7
<1>8. CASE k = Wholes + 2 /\ q = Step([kind |-> "port", value |-> t.link.port], <<>>)
  BY <1>4, <1>8
<1> QED BY <1>5, <1>6, <1>7, <1>8, WriteCases

LEMMA LinkKeepsWhole ==
  ASSUME Typed, Whole, faults["power"] = 0, WriteAddress \/ WritePort, step < Writes, rx = Now.ask, Running,
         UNCHANGED <<step, target, before, faults>>
  PROVE  Whole'
<1> DEFINE k == step
           q == Script[target][k]
<1>1. Written /\ CountStays /\ BindingsAreWhole /\ SavesMeant /\ SavedIsWhole
  BY DEF Whole
<1>2. k \in Nat /\ 1 <= k /\ k < Writes /\ target \in Targets /\ rx = q.ask /\ rx.value \in Nat
  <2>1. k \in Nat /\ target \in Targets /\ rx = q.ask
    BY StepNumber DEF Typed, TypeOK, Now
  <2>2. 1 <= k
    <3> DEFINE n == Len(Script[target])
    <3>1. step \in 1 .. n /\ n \in Nat
      BY StepNumber DEF Running
    <3> HIDE DEF n
    <3> QED BY <3>1
  <2>3. rx.kind \in {"address", "port"}
    BY DEF WriteAddress, WritePort, Receives
  <2>4. rx.value \in Word
    BY <2>1, <2>3, NowIsStep
  <2> QED BY <2>1, <2>2, <2>4, WordRange DEF Word
<1> HIDE DEF q
<1>3. Wholes \in Nat /\ Wholes > 1 /\ Wholes' = Wholes
  BY Sizes DEF Wholes
<1>4. /\ rx.kind = "address" => k = Wholes + 1 /\ rx.value = target.link.address
      /\ rx.kind = "port" => k = Wholes + 2 /\ rx.value = target.link.port
  BY <1>2, LinkSpots DEF q
<1>5. Meant(target)' = Meant(target)
  BY DEF Meant
<1>6. k > Wholes /\ cfg' = cfg /\ saved' = saved /\ ~command /\ command' = command
  BY <1>3, <1>4 DEF WriteAddress, WritePort, Receives
<1>7. \A r \in Register : At(cfg', r) = At(Meant(target).cfg, r)
  <2>1. \A r \in Register : Beyond(LastWrite(r))
    BY <1>2, <1>3, <1>6, LastWriteRange DEF Beyond
  <2> QED BY <1>1, <1>6, <2>1 DEF Written
<1>10. CountStays' /\ BindingsAreWhole' /\ SavesMeant' /\ SavedIsWhole'
  <2>1. ~(step' < Wholes') /\ step' # Wholes'
    BY <1>2, <1>3, <1>6
  <2>2. CountStays'
    BY <2>1 DEF CountStays
  <2> QED BY <1>1, <1>5, <1>6, <2>2 DEF BindingsAreWhole, SavesMeant, SavedIsWhole
<1>8. CASE WriteAddress
  <2>1. k = Wholes + 1 /\ rx.value = target.link.address
    BY <1>4, <1>8 DEF WriteAddress, Receives
  <2>2. tx'.kind = "ok" => link'.address = target.link.address
    <3>1. tx'.kind = "ok" => ValidAddress(rx.value)
      BY <1>8 DEF WriteAddress, Exception
    <3>2. ValidAddress(rx.value) => rx.value % 256 = rx.value
      <4> DEFINE v == rx.value
      <4>1. v \in Nat
        BY <1>2
      <4> HIDE DEF v
      <4>2. ASSUME ValidAddress(v) PROVE v % 256 = v
        <5>1. 1 <= v /\ v <= 247
          BY <4>2 DEF ValidAddress
        <5> QED BY <4>1, <5>1
      <4> QED BY <4>2 DEF v
    <3>3. ValidAddress(rx.value) => link' = [link EXCEPT !.address = rx.value % 256]
      BY <1>8 DEF WriteAddress
    <3>4. link \in [address : 1 .. 247, port : {v \in Word : ddm_modbus_port_cfg_valid(v)}]
      BY DEF Typed, TypeOK, DeviceTypeOK, Link
    <3> DEFINE A == 1 .. 247
               P == {v \in Word : ddm_modbus_port_cfg_valid(v)}
    <3>5. link \in [address : A, port : P]
      BY <3>4
    <3> HIDE DEF A, P
    <3>6. ValidAddress(rx.value) => link'.address = rx.value % 256
      BY <3>3, <3>5
    <3> QED BY <2>1, <3>1, <3>2, <3>6
  <2>3. Beyond(Wholes + 1)' => tx'.kind = "ok"
    BY <1>2, <1>3, <2>1 DEF Beyond
  <2>4. ~Beyond(Wholes + 2)'
    BY <1>2, <1>3, <2>1 DEF Beyond
  <2>5. Written'
    BY <1>3, <1>5, <1>7, <2>2, <2>3, <2>4 DEF Written
  <2> QED BY <1>10, <2>5 DEF Whole
<1>9. CASE WritePort
  <2>1. k = Wholes + 2 /\ rx.value = target.link.port
    BY <1>4, <1>9 DEF WritePort, Receives
  <2> DEFINE A == 1 .. 247
             P == {v \in Word : ddm_modbus_port_cfg_valid(v)}
  <2>2. link \in [address : A, port : P]
    BY DEF Typed, TypeOK, DeviceTypeOK, Link
  <2> HIDE DEF A, P
  <2>3. \/ link' = link /\ tx'.kind # "ok"
        \/ link' = [link EXCEPT !.port = rx.value]
    BY <1>9 DEF WritePort, Exception
  <2>4. link'.address = link.address /\ (tx'.kind = "ok" => link'.port = target.link.port)
    BY <2>1, <2>2, <2>3
  <2>5. Beyond(Wholes + 1)
    BY <1>2, <1>3, <2>1 DEF Beyond
  <2>6. Beyond(Wholes + 2)' => tx'.kind = "ok"
    BY <1>2, <1>3, <2>1 DEF Beyond
  <2>7. Written'
    BY <1>1, <1>3, <1>5, <1>7, <2>4, <2>5, <2>6 DEF Written
  <2> QED BY <1>10, <2>7 DEF Whole
<1> QED BY <1>8, <1>9

LEMMA SaveKeepsWhole ==
  ASSUME Typed, Whole, faults["power"] = 0, faults'["power"] = 0, Save \/ SaveFails,
         UNCHANGED <<step, target, before>>
  PROVE  Whole'
<1>1. Written /\ CountStays /\ BindingsAreWhole /\ SavesMeant /\ SavedIsWhole
  BY DEF Whole
<1>2. /\ cfg' = cfg /\ link' = link /\ tx' = tx /\ command /\ ~command' /\ Wholes' = Wholes
      /\ Meant(target)' = Meant(target)
  BY DEF Save, SaveFails, Wholes, Meant
<1>3. Written'
  BY <1>1, <1>2 DEF Written, Beyond
<1>4. CountStays' /\ BindingsAreWhole'
  BY <1>1, <1>2 DEF CountStays, BindingsAreWhole, Beyond
<1>5. SavesMeant'
  BY <1>2 DEF SavesMeant
<1>6. CASE SaveFails
  <2>1. SavedIsWhole'
    BY <1>1, <1>2, <1>6 DEF SavedIsWhole, SaveFails
  <2> QED BY <1>3, <1>4, <1>5, <2>1 DEF Whole
<1>7. CASE Save
  <2>1. [cfg |-> cfg, link |-> link] # NoSaved
    <3>1. cfg \in Config /\ link \in Link
      BY DEF Typed, TypeOK, DeviceTypeOK, ValidConfig
    <3> QED BY <3>1, SavedAssumption
  <2>2. Loaded(saved') = [cfg |-> cfg, link |-> link]
    BY <1>7, <2>1 DEF Save, Loaded
  <2>3. Effect(Loaded(saved')) = Effect(Meant(target))
    BY <1>1, <1>2, <2>2 DEF SavesMeant
  <2>4. SavedIsWhole'
    BY <1>2, <2>3 DEF SavedIsWhole
  <2> QED BY <1>3, <1>4, <1>5, <2>4 DEF Whole
<1> QED BY <1>6, <1>7

LEMMA CommandKeepsWhole ==
  ASSUME Typed, Whole, faults["power"] = 0, WriteCommand, step = Writes,
         UNCHANGED <<step, target, before, faults>>
  PROVE  Whole'
<1>1. Written /\ CountStays /\ BindingsAreWhole /\ SavesMeant /\ SavedIsWhole
  BY DEF Whole
<1>2. Wholes' = Wholes /\ Meant(target)' = Meant(target) /\ Wholes \in Nat /\ step = Wholes + 3
  BY Sizes DEF Wholes, Writes, Meant
<1>3. /\ cfg' = cfg /\ link' = link /\ saved' = saved
  BY DEF WriteCommand
<1>4. Beyond(Wholes + 1) /\ Beyond(Wholes + 2) /\ \A r \in Register : Beyond(LastWrite(r))
  BY <1>2, LastWriteRange DEF Beyond
<1>5. Written'
  BY <1>1, <1>2, <1>3, <1>4 DEF Written
<1>6. ~(step < Wholes) /\ step # Wholes
  BY <1>2
<1>7. CountStays'
  BY <1>2, <1>6 DEF CountStays
<1>8. Effect([cfg |-> cfg, link |-> link]) = Effect(Meant(target))
  BY <1>1, WrittenIsMeant
<1>9. SavesMeant'
  BY <1>2, <1>3, <1>8 DEF SavesMeant
<1>10. BindingsAreWhole' /\ SavedIsWhole'
  BY <1>1, <1>2, <1>3 DEF BindingsAreWhole, SavedIsWhole
<1> QED BY <1>5, <1>7, <1>9, <1>10 DEF Whole

LEMMA ReadKeepsWhole ==
  ASSUME Typed, Whole, faults["power"] = 0, ReadLink \/ ReadWords, step > Writes,
         UNCHANGED <<step, target, before, faults>>
  PROVE  Whole'
<1>1. Written /\ CountStays /\ BindingsAreWhole /\ SavesMeant /\ SavedIsWhole
  BY DEF Whole
<1>2. /\ Wholes' = Wholes /\ Meant(target)' = Meant(target) /\ Wholes \in Nat /\ step > Wholes + 3
      /\ step \in Nat
  BY Sizes, StepNumber DEF Wholes, Writes, Meant
<1>3. cfg' = cfg /\ link' = link /\ saved' = saved /\ command' = command
  BY DEF ReadLink, ReadWords, deviceVars
<1>4. Beyond(Wholes + 1) /\ Beyond(Wholes + 2) /\ \A r \in Register : Beyond(LastWrite(r))
  BY <1>2, LastWriteRange DEF Beyond
<1>5. Written'
  BY <1>1, <1>2, <1>3, <1>4 DEF Written
<1>6. ~(step < Wholes) /\ step # Wholes
  BY <1>2
<1>7. CountStays'
  BY <1>2, <1>6 DEF CountStays
<1>8. BindingsAreWhole' /\ SavedIsWhole' /\ SavesMeant'
  BY <1>1, <1>2, <1>3 DEF BindingsAreWhole, SavedIsWhole, SavesMeant
<1> QED BY <1>5, <1>7, <1>8 DEF Whole

LEMMA StepWhole == Typed /\ Typed' /\ Whole /\ [Next]_vars => Whole'
<1> SUFFICES ASSUME Typed, Typed', Whole, [Next]_vars, faults'["power"] = 0
             PROVE  Whole'
  BY DEF Whole
<1>1. target' = target /\ before' = before /\ step \in Nat
  BY StepNumber DEF Next, Device, Tool, Send, Answer, Refused, NoAnswer, Again, LoseRequest, LoseAnswer,
     LosePower, LoseSave, Fault, toolVars, Idle, vars
<1>2. faults["power"] = 0 /\ ~LosePower
  <2> DEFINE F == faults["power"]
  <2>1. F \in Nat /\ faults \in [FaultKind -> 0 .. MaxFaults] /\ "power" \in FaultKind
    BY ToolAssumption DEF ToolAssumption, Typed, TypeOK, FaultKind
  <2>2. ASSUME NEW kind, Fault(kind) PROVE kind # "power" /\ F = 0
    <3>1. faults' = [faults EXCEPT ![kind] = @ + 1]
      BY <2>2 DEF Fault
    <3>2. kind = "power" => faults'["power"] = F + 1
      BY <2>1, <3>1
    <3>3. kind # "power" => faults'["power"] = F
      BY <2>1, <3>1
    <3> QED BY <2>1, <3>2, <3>3
  <2>3. ~LosePower
    BY <2>2 DEF LosePower
  <2>4. faults' = faults \/ \E kind : Fault(kind)
    BY DEF Next, Device, Tool, Send, Answer, Refused, NoAnswer, Again, LoseRequest,
           LoseAnswer, LosePower, LoseSave, Idle, vars
  <2> QED BY <2>2, <2>3, <2>4
<1>3. CASE Device
  <2>1. UNCHANGED <<step, target, before, faults>>
    BY <1>3 DEF Device, toolVars
  <2>2. CASE Save
    BY <1>2, <2>1, <2>2, SaveKeepsWhole
  <2>3. CASE Handle
    <3>1. DeviceTypeOK'
      BY DEF Typed, TypeOK
    <3> QED BY <1>2, <2>1, <2>3, <3>1, RequestKind, WordsKeepWhole, LinkKeepsWhole, CommandKeepsWhole,
               ReadKeepsWhole
  <2> QED BY <1>3, <2>2, <2>3 DEF Device
<1>4. CASE LoseSave
  BY <1>1, <1>2, <1>4, SaveKeepsWhole DEF LoseSave, Fault, toolVars
<1>5. CASE Send
  <2>1. step' = step /\ tx'.kind # "ok" /\ UNCHANGED deviceVars
    BY <1>5 DEF Send, Quiet
  <2> QED BY <1>1, <1>2, <2>1, ToolKeepsWhole
<1>6. CASE Answer
  <2>1. Running
    <3>1. tx # Quiet
      BY <1>6 DEF Answer, Quiet
    <3> QED BY <3>1 DEF Typed, OneRequest
  <2>2. step' \in {0, step + 1} /\ tx'.kind # "ok" /\ tx.kind = "ok" /\ UNCHANGED deviceVars
    BY <1>6 DEF Answer, Quiet
  <2> QED BY <1>1, <1>2, <2>1, <2>2, ToolKeepsWhole
<1>7. CASE Refused \/ NoAnswer
  <2>1. step' \in {0, step} /\ tx'.kind # "ok" /\ UNCHANGED deviceVars
    BY <1>7 DEF Refused, NoAnswer, Quiet
  <2> QED BY <1>1, <1>2, <2>1, ToolKeepsWhole
<1>8. CASE Again
  <2>1. tx = Quiet
    <3>1. ~Running
      BY <1>8 DEF Again, Failed, Running
    <3> QED BY <3>1 DEF Typed, OneRequest
  <2>2. step' = 1 /\ tx'.kind # "ok" /\ UNCHANGED deviceVars
    BY <1>8, <2>1 DEF Again, Quiet
  <2> QED BY <1>1, <1>2, <2>2, ToolKeepsWhole
<1>9. CASE LoseRequest \/ LoseAnswer
  <2>1. step' = step /\ (tx'.kind = "ok" => tx.kind = "ok") /\ UNCHANGED deviceVars
    BY <1>9 DEF LoseRequest, LoseAnswer, Fault, toolVars, Quiet, Exception
  <2> QED BY <1>1, <1>2, <2>1, ToolKeepsWhole
<1>10. CASE UNCHANGED vars
  <2>1. step' = step /\ tx' = tx /\ UNCHANGED deviceVars
    BY <1>10 DEF vars, toolVars
  <2> QED BY <1>1, <1>2, <2>1, ToolKeepsWhole
<1> QED BY <1>2, <1>3, <1>4, <1>5, <1>6, <1>7, <1>8, <1>9, <1>10 DEF Next, Tool, Idle

LEMMA WholeHolds == Spec => [](Typed /\ Whole)
<1>1. Init => Typed /\ Whole
  BY InitTyped, InitWhole
<1>2. Typed /\ Whole /\ [Next]_vars => (Typed /\ Whole)'
  BY StepTyped, StepWhole
<1> QED BY <1>1, <1>2, PTL DEF Spec

(* While the bindings are rewritten word by word, with retries and attempts   *)
(* that stop anywhere, the buttons obey the old ones, none or the new ones.   *)
THEOREM BindingsWhole == Spec => []BindingsAreWhole
<1>1. Whole => BindingsAreWhole
  BY DEF Whole, BindingsAreWhole
<1> QED BY <1>1, WholeHolds, PTL

(* Nothing half-written is ever saved: what the next start loads is what the  *)
(* device had or the whole file.                                              *)
THEOREM SavedWhole == Spec => []SavedIsWhole
<1>1. Whole => SavedIsWhole
  BY DEF Whole, SavedIsWhole
<1> QED BY <1>1, WholeHolds, PTL
===============================================================================
