------------------------------ MODULE OutputProofs ------------------------------
(* Curves, ranges and pulses for any number of levels, any profiles and any   *)
(* order of the stores of a profile and the interrupts between them.          *)
EXTENDS Output, TLAPS, WellFoundedInduction

(* Induction over the natural numbers, for a set of them. *)
LEMMA NatSet ==
  ASSUME NEW S, 0 \in S, \A n \in Nat : n \in S => n + 1 \in S
  PROVE  Nat \subseteq S
<1> DEFINE T == Nat \ S
<1> SUFFICES ASSUME T # {} PROVE FALSE
  OBVIOUS
<1>1. IsWellFoundedOn(OpToRel(<, Nat), Nat)
  BY NatLessThanWellFounded
<1>2. T \subseteq Nat
  OBVIOUS
<1> HIDE DEF T
<1>3. \E x \in T : \A y \in T : ~ (<<y, x>> \in OpToRel(<, Nat))
  BY <1>1, <1>2, WFMin
<1> USE DEF T
<1>4. PICK x \in T : \A y \in T : ~ (<<y, x>> \in OpToRel(<, Nat))
  BY <1>3
<1>5. \A y \in T : ~(y < x)
  BY <1>4 DEF OpToRel
<1>6. x # 0 /\ x - 1 \in Nat /\ x - 1 < x
  OBVIOUS
<1> QED BY <1>5, <1>6

LEMMA Scale == MaxLevel \in Nat /\ MaxLevel >= 1 /\ Wrap \in Nat /\ Wrap > MaxLevel * (MaxLevel + 1)
BY OutputAssumption DEF OutputAssumption

-------------------------------------------------------------------------------
(* Products and quotients grow with their operands. *)
LEMMA ProductGrows ==
  ASSUME NEW a \in Nat, NEW b \in Nat, NEW c \in Nat, NEW d \in Nat, a <= b, c <= d
  PROVE  a * c \in Nat /\ b * d \in Nat /\ a * c <= b * d
<1>1. (b - a) * c >= 0 /\ b * (d - c) >= 0
  <2>1. b - a \in Nat /\ d - c \in Nat
    OBVIOUS
  <2>2. \A m, n \in Nat : m * n >= 0
    OBVIOUS
  <2> QED BY <2>1, <2>2
<1>2. (b - a) * c = b * c - a * c /\ b * (d - c) = b * d - b * c
  OBVIOUS
<1>3. a * c \in Nat /\ b * d \in Nat /\ b * c \in Nat
  OBVIOUS
<1> QED BY <1>1, <1>2, <1>3

LEMMA Quotient ==
  ASSUME NEW d \in Nat \ {0}, NEW a \in Nat
  PROVE  /\ a \div d \in Nat /\ d * (a \div d) \in Nat
         /\ d * (a \div d) <= a /\ a < d * (a \div d) + d
OBVIOUS

(* A quotient is at most q if the dividend stays below the next multiple.     *)
LEMMA QuotientAtMost ==
  ASSUME NEW d \in Nat \ {0}, NEW a \in Nat, NEW q \in Nat, a < d * q + d
  PROVE  a \div d <= q
<1> DEFINE p == a \div d
<1>1. p \in Nat /\ d * p \in Nat /\ d * p <= a
  BY Quotient
<1> HIDE DEF p
<1>2. ASSUME p > q PROVE FALSE
  <2>1. q + 1 <= p
    BY <1>1, <1>2
  <2>2. d * (q + 1) <= d * p
    BY <1>1, <2>1, ProductGrows
  <2>3. d * (q + 1) = d * q + d /\ d * q \in Nat
    OBVIOUS
  <2> QED BY <1>1, <2>2, <2>3
<1>3. p <= q
  BY <1>1, <1>2
<1> QED BY <1>3 DEF p

LEMMA QuotientGrows ==
  ASSUME NEW d \in Nat \ {0}, NEW a \in Nat, NEW b \in Nat, a <= b
  PROVE  a \div d <= b \div d
<1> DEFINE q == b \div d
<1>1. q \in Nat /\ d * q \in Nat /\ b < d * q + d
  BY Quotient
<1> HIDE DEF q
<1>2. a \div d <= q
  BY <1>1, QuotientAtMost
<1> QED BY <1>2 DEF q

-------------------------------------------------------------------------------
(* Rounding to the scale. *)
LEMMA RoundedGrows ==
  ASSUME NEW a \in Nat, NEW b \in Nat, a <= b
  PROVE  Rounded(a) \in Nat /\ Rounded(a) <= Rounded(b)
<1> DEFINE h == MaxLevel \div 2
<1>1. h \in Nat /\ MaxLevel \in Nat \ {0}
  BY Scale
<1> HIDE DEF h
<1>2. a + h \in Nat /\ b + h \in Nat /\ a + h <= b + h
  BY <1>1
<1>3. (a + h) \div MaxLevel \in Nat /\ (a + h) \div MaxLevel <= (b + h) \div MaxLevel
  BY <1>1, <1>2, Quotient, QuotientGrows
<1> QED BY <1>3 DEF Rounded, h

LEMMA RoundedAtMost ==
  ASSUME NEW a \in Nat, NEW q \in Nat, a <= MaxLevel * q
  PROVE  Rounded(a) <= q
<1> DEFINE h == MaxLevel \div 2
<1>1. h \in Nat /\ h < MaxLevel /\ MaxLevel \in Nat \ {0} /\ MaxLevel * q \in Nat
  BY Scale
<1> HIDE DEF h
<1>2. a + h \in Nat /\ a + h < MaxLevel * q + MaxLevel
  BY <1>1
<1>3. (a + h) \div MaxLevel <= q
  BY <1>1, <1>2, QuotientAtMost
<1> QED BY <1>3 DEF Rounded, h

(* A level times something on a scale, rounded, is at most that something.    *)
LEMMA ShareOf ==
  ASSUME NEW a \in Nat, NEW x \in Level
  PROVE  a * x \in Nat /\ Rounded(a * x) \in Nat /\ Rounded(a * x) <= a
<1>1. MaxLevel \in Nat /\ x \in Nat /\ x <= MaxLevel
  BY Scale DEF Level
<1>2. a * x \in Nat /\ a * x <= a * MaxLevel
  BY <1>1, ProductGrows
<1>3. a * MaxLevel = MaxLevel * a
  BY <1>1
<1> HIDE DEF Level
<1>4. Rounded(a * x) <= a
  BY <1>2, <1>3, RoundedAtMost
<1>5. Rounded(a * x) \in Nat
  BY <1>2, RoundedGrows
<1> QED BY <1>2, <1>4, <1>5

LEMMA SquareIsLevel == ASSUME NEW x \in Level PROVE Square(x) \in Nat /\ Square(x) <= x /\ Square(x) \in Level
<1>1. x \in Nat /\ x <= MaxLevel /\ MaxLevel \in Nat
  BY Scale DEF Level
<1>2. Square(x) \in Nat /\ Square(x) <= x
  BY <1>1, ShareOf DEF Square
<1> QED BY <1>1, <1>2 DEF Level

LEMMA SquareGrows ==
  ASSUME NEW x \in Nat, NEW y \in Nat, x <= y
  PROVE  Square(x) \in Nat /\ Square(x) <= Square(y)
<1>1. x * x \in Nat /\ y * y \in Nat /\ x * x <= y * y
  BY ProductGrows
<1> QED BY <1>1, RoundedGrows DEF Square

LEMMA CubeIsLevel == ASSUME NEW x \in Level PROVE Cube(x) \in Nat /\ Cube(x) <= MaxLevel
<1>1. Square(x) \in Nat /\ Square(x) <= x /\ x <= MaxLevel /\ MaxLevel \in Nat /\ x \in Nat
  BY SquareIsLevel, Scale DEF Level
<1> DEFINE s == Square(x)
<1> HIDE DEF s
<1>2. s \in Nat /\ s <= MaxLevel
  BY <1>1 DEF s
<1>3. Rounded(s * x) \in Nat /\ Rounded(s * x) <= s
  BY <1>2, ShareOf
<1>4. Rounded(s * x) <= MaxLevel
  BY <1>1, <1>2, <1>3
<1> QED BY <1>3, <1>4 DEF Cube, s

LEMMA CubeGrows ==
  ASSUME NEW x \in Nat, NEW y \in Nat, x <= y
  PROVE  Cube(x) \in Nat /\ Cube(x) <= Cube(y)
<1> DEFINE s == Square(x)
           t == Square(y)
<1>1. s \in Nat /\ t \in Nat /\ s <= t
  BY SquareGrows
<1> HIDE DEF s, t
<1>2. s * x \in Nat /\ t * y \in Nat /\ s * x <= t * y
  BY <1>1, ProductGrows
<1>3. Rounded(s * x) \in Nat /\ Rounded(s * x) <= Rounded(t * y)
  BY <1>2, RoundedGrows
<1> QED BY <1>3 DEF Cube, s, t

-------------------------------------------------------------------------------
(* The largest level whose square is not above x. *)
IsRoot(r, x) == Square(r) <= x /\ \A m \in Level : Square(m) <= x => m <= r

LEMMA RootExists == ASSUME NEW x \in Nat PROVE \E r \in Level : IsRoot(r, x)
<1> DEFINE Small(m) == Square(m) <= x
           S == {n \in Nat : \E r \in Nat : r <= n /\ Small(r) /\ \A m \in Nat : m <= n /\ Small(m) => m <= r}
<1>1. Small(0)
  <2>1. 0 \in Level
    BY Scale DEF Level
  <2>2. Square(0) \in Nat /\ Square(0) <= 0
    BY <2>1, SquareIsLevel
  <2> QED BY <2>2
<1> HIDE DEF Small
<1>2. 0 \in S
  BY <1>1
<1>3. ASSUME NEW n \in Nat, n \in S PROVE n + 1 \in S
  <2>1. PICK r \in Nat : r <= n /\ Small(r) /\ \A m \in Nat : m <= n /\ Small(m) => m <= r
    BY <1>3
  <2>2. CASE Small(n + 1)
    BY <2>2
  <2>3. CASE ~Small(n + 1)
    <3>1. \A m \in Nat : m <= n + 1 /\ Small(m) => m <= r
      <4> SUFFICES ASSUME NEW m \in Nat, m <= n + 1, Small(m) PROVE m <= r
        OBVIOUS
      <4>1. m # n + 1
        BY <2>3
      <4> QED BY <2>1, <4>1
    <3> QED BY <2>1, <3>1
  <2> QED BY <2>2, <2>3
<1>4. MaxLevel \in S
  <2> HIDE DEF S
  <2>1. Nat \subseteq S
    BY <1>2, <1>3, NatSet
  <2> QED BY <2>1, Scale
<1>5. PICK r \in Nat : r <= MaxLevel /\ Small(r) /\ \A m \in Nat : m <= MaxLevel /\ Small(m) => m <= r
  BY <1>4
<1>6. r \in Level /\ \A m \in Level : m \in Nat /\ m <= MaxLevel
  BY <1>5, Scale DEF Level
<1>7. IsRoot(r, x)
  BY <1>5, <1>6 DEF IsRoot, Small
<1> QED BY <1>6, <1>7

(* The binary search ends, below no level and above none, at the root.        *)
LEMMA RootFound == ASSUME NEW x \in Nat PROVE SquareRoot(x) \in Level /\ IsRoot(SquareRoot(x), x)
<1>1. PICK r \in Level : IsRoot(r, x)
  BY RootExists
<1>2. MaxLevel \in Nat /\ r \in Nat /\ r <= MaxLevel
  BY Scale DEF Level
<1>3. \A m \in Level : Square(m) <= x <=> m <= r
  <2> SUFFICES ASSUME NEW m \in Level, m <= r PROVE Square(m) <= x
    BY <1>1 DEF IsRoot
  <2>1. m \in Nat
    BY DEF Level
  <2>2. Square(m) \in Nat /\ Square(m) <= Square(r) /\ Square(r) \in Nat
    BY <1>2, <2>1, SquareGrows
  <2> QED BY <1>1, <2>2 DEF IsRoot
<1> DEFINE Mid(s) == (s.lo + s.hi) \div 2
           Up(s) == [s EXCEPT !.lo = Mid(s) + 1, !.best = Mid(s)]
           Down(s) == [s EXCEPT !.hi = Mid(s) - 1]
           Rec(f) == f = [s \in Search |->
             IF s.lo > s.hi THEN s.best
             ELSE IF Square(Mid(s)) <= x THEN f[Up(s)] ELSE f[Down(s)]]
           Found(s) == IF s.lo > s.hi \/ s.lo > r THEN s.best ELSE IF s.hi <= r THEN s.hi ELSE r
           g == [s \in Search |-> Found(s)]
           search == CHOOSE f : Rec(f)
<1>4. \A s \in Search : s.lo \in Nat /\ s.hi \in Nat /\ s.best \in Nat /\ s.hi <= MaxLevel
  BY <1>2 DEF Search, Level
<1>5. ASSUME NEW s \in Search, s.lo <= s.hi
      PROVE  /\ Mid(s) \in Level /\ s.lo <= Mid(s) /\ Mid(s) <= s.hi
             /\ Square(Mid(s)) <= x <=> Mid(s) <= r
             /\ Mid(s) <= r => Up(s) \in Search
             /\ ~(Mid(s) <= r) => Down(s) \in Search
  <2> DEFINE mid == Mid(s)
  <2>1. mid \in Nat /\ s.lo <= mid /\ mid <= s.hi
    BY <1>4, <1>5
  <2> HIDE DEF mid
  <2>2. mid \in Level /\ mid + 1 \in 0 .. MaxLevel + 1
    BY <1>2, <1>4, <2>1 DEF Level
  <2>3. Square(mid) <= x <=> mid <= r
    BY <1>3, <2>2
  <2>4. Up(s) \in Search
    BY <2>2 DEF Search, mid
  <2>5. ~(mid <= r) => mid - 1 \in Level
    BY <1>2, <1>4, <2>1 DEF Level
  <2>6. ~(mid <= r) => Down(s) \in Search
    BY <2>5 DEF Search, mid
  <2> QED BY <2>1, <2>2, <2>3, <2>4, <2>6 DEF mid
<1>6. ASSUME NEW s \in Search
      PROVE  Up(s).lo = Mid(s) + 1 /\ Up(s).hi = s.hi /\ Up(s).best = Mid(s)
             /\ Down(s).lo = s.lo /\ Down(s).hi = Mid(s) - 1 /\ Down(s).best = s.best
  BY DEF Search
<1>7. \A s \in Search : s.lo > s.hi \/ s.lo <= s.hi
  BY <1>4
<1> HIDE DEF Mid, Up, Down
<1> DEFINE Step(f, s) == IF s.lo > s.hi THEN s.best
                         ELSE IF Mid(s) <= r THEN f[Up(s)] ELSE f[Down(s)]
<1>8. ASSUME NEW s \in Search PROVE Found(s) = Step(g, s)
  <2>1. CASE s.lo > s.hi
    BY <2>1
  <2>2. CASE s.lo <= s.hi
    <3> DEFINE mid == Mid(s)
               u == Up(s)
               d == Down(s)
    <3>1. /\ mid \in Nat /\ s.lo <= mid /\ mid <= s.hi
          /\ mid <= r => u \in Search
          /\ ~(mid <= r) => d \in Search
          /\ u.lo = mid + 1 /\ u.hi = s.hi /\ u.best = mid
          /\ d.lo = s.lo /\ d.hi = mid - 1 /\ d.best = s.best
          /\ s.lo \in Nat /\ s.hi \in Nat /\ ~(s.lo > s.hi)
      BY <1>4, <1>5, <1>6, <2>2 DEF Level
    <3> HIDE DEF mid, u, d
    <3>2. CASE mid <= r
      <4>1. Step(g, s) = Found(u)
        BY <3>1, <3>2 DEF mid, u
      <4>2. Found(u) = Found(s)
        BY <1>2, <3>1, <3>2
      <4> QED BY <4>1, <4>2
    <3>3. CASE ~(mid <= r)
      <4>1. Step(g, s) = Found(d)
        BY <3>1, <3>3 DEF mid, d
      <4>2. Found(d) = Found(s)
        BY <1>2, <3>1, <3>3
      <4> QED BY <4>1, <4>2
    <3> QED BY <3>2, <3>3
  <2> QED BY <1>7, <2>1, <2>2
<1>9. ASSUME NEW f, NEW s \in Search
      PROVE  Step(f, s) = IF s.lo > s.hi THEN s.best
                          ELSE IF Square(Mid(s)) <= x THEN f[Up(s)] ELSE f[Down(s)]
  <2>1. CASE s.lo > s.hi
    BY <2>1
  <2>2. CASE s.lo <= s.hi
    <3>1. Square(Mid(s)) <= x <=> Mid(s) <= r
      BY <1>5, <2>2
    <3> QED BY <3>1, Zenon
  <2> QED BY <1>7, <2>1, <2>2
<1> HIDE DEF Found, Step
<1>10. \A f : Rec(f) <=> f = [s \in Search |-> Step(f, s)]
  <2> SUFFICES ASSUME NEW f PROVE Rec(f) <=> f = [s \in Search |-> Step(f, s)]
    OBVIOUS
  <2>1. [s \in Search |-> Step(f, s)]
          = [s \in Search |-> IF s.lo > s.hi THEN s.best
                              ELSE IF Square(Mid(s)) <= x THEN f[Up(s)] ELSE f[Down(s)]]
    BY <1>9, Zenon
  <2> QED BY <2>1, Zenon
<1>11. Rec(g)
  <2>1. g = [s \in Search |-> Step(g, s)]
    BY <1>8, Zenon
  <2> QED BY <1>10, <2>1, Zenon
<1>12. \A s \in Search : g[s] = Found(s)
  OBVIOUS
<1> HIDE DEF g
<1>13. Rec(search)
  <2>1. \E f : Rec(f)
    BY <1>11
  <2> HIDE DEF Rec
  <2> QED BY <2>1, Zenon
<1>14. SquareRoot(x) = search[Whole]
  BY DEF SquareRoot, Mid, Up, Down
<1> HIDE DEF search, Rec
<1>15. \A s \in Search : search[s] = Step(search, s)
  BY <1>10, <1>13
<1> DEFINE S == {n \in Nat : \A s \in Search : s.hi + 1 - s.lo <= n => search[s] = Found(s)}
<1>16. 0 \in S
  <2> SUFFICES ASSUME NEW s \in Search, s.hi + 1 - s.lo <= 0 PROVE search[s] = Found(s)
    OBVIOUS
  <2>1. s.lo > s.hi
    BY <1>4
  <2> QED BY <1>15, <2>1 DEF Step, Found
<1>17. ASSUME NEW n \in Nat, n \in S PROVE n + 1 \in S
  <2> SUFFICES ASSUME NEW s \in Search, s.hi + 1 - s.lo <= n + 1 PROVE search[s] = Found(s)
    OBVIOUS
  <2>1. search[s] = Step(search, s) /\ Found(s) = Step(g, s)
    BY <1>8, <1>15
  <2>2. CASE s.lo > s.hi
    BY <2>1, <2>2 DEF Step
  <2>3. CASE s.lo <= s.hi
    <3> DEFINE mid == Mid(s)
               u == Up(s)
               d == Down(s)
    <3>1. /\ mid \in Nat /\ s.lo <= mid /\ mid <= s.hi
          /\ mid <= r => u \in Search
          /\ ~(mid <= r) => d \in Search
          /\ u.lo = mid + 1 /\ u.hi = s.hi
          /\ d.lo = s.lo /\ d.hi = mid - 1
          /\ s.lo \in Nat /\ s.hi \in Nat /\ ~(s.lo > s.hi)
      BY <1>4, <1>5, <1>6, <2>3 DEF Level
    <3> HIDE DEF mid, u, d
    <3>2. \A t \in Search : t.hi + 1 - t.lo <= n => search[t] = g[t]
      BY <1>12, <1>17
    <3>3. CASE mid <= r
      <4>1. u.hi + 1 - u.lo <= n
        BY <3>1
      <4>2. search[u] = g[u]
        BY <3>1, <3>2, <3>3, <4>1
      <4> QED BY <2>1, <3>1, <3>3, <4>2 DEF Step, mid, u
    <3>4. CASE ~(mid <= r)
      <4>1. d.hi + 1 - d.lo <= n
        BY <3>1
      <4>2. search[d] = g[d]
        BY <3>1, <3>2, <3>4, <4>1
      <4> QED BY <2>1, <3>1, <3>4, <4>2 DEF Step, mid, d
    <3> QED BY <3>3, <3>4
  <2> QED BY <1>7, <2>2, <2>3
<1>18. search[Whole] = Found(Whole)
  <2> HIDE DEF S
  <2>1. MaxLevel + 1 \in S
    <3>1. Nat \subseteq S
      BY <1>16, <1>17, NatSet
    <3> QED BY <1>2, <3>1
  <2>2. Whole \in Search /\ Whole.hi + 1 - Whole.lo <= MaxLevel + 1
    BY <1>2 DEF Whole, Search, Level
  <2> QED BY <2>1, <2>2 DEF S
<1>19. Found(Whole) = r
  BY <1>2 DEF Found, Whole
<1> QED BY <1>1, <1>14, <1>18, <1>19

-------------------------------------------------------------------------------
(* A curve keeps to the scale and never falls. *)
LEMMA RootGrows ==
  ASSUME NEW x \in Nat, NEW y \in Nat, x <= y
  PROVE  SquareRoot(x) <= SquareRoot(y)
<1> DEFINE a == SquareRoot(x)
           b == SquareRoot(y)
<1>1. a \in Level /\ Square(a) <= x /\ \A m \in Level : Square(m) <= y => m <= b
  BY RootFound DEF IsRoot
<1> HIDE DEF a, b
<1>2. Square(a) \in Nat
  BY <1>1, SquareIsLevel
<1>3. Square(a) <= y
  BY <1>1, <1>2
<1>4. a <= b
  BY <1>1, <1>3
<1> QED BY <1>4 DEF a, b

LEMMA CurveIsLevel ==
  ASSUME NEW x \in Level, NEW c \in Curve
  PROVE  curve_level(x, c) \in Nat /\ curve_level(x, c) <= MaxLevel
<1> DEFINE q == SquareRoot(x)
           s == Square(x)
           t == Cube(x)
<1>1. x \in Nat /\ x <= MaxLevel /\ MaxLevel \in Nat
  BY Scale DEF Level
<1>2. q \in Nat /\ q <= MaxLevel
  <2>1. q \in Level
    BY <1>1, RootFound
  <2> HIDE DEF q
  <2> QED BY <1>1, <2>1 DEF Level
<1>3. s \in Nat /\ s <= MaxLevel
  <2>1. s \in Level
    BY SquareIsLevel
  <2> HIDE DEF s
  <2> QED BY <1>1, <2>1 DEF Level
<1>4. t \in Nat /\ t <= MaxLevel
  BY CubeIsLevel
<1> HIDE DEF q, s, t
<1>5. curve_level(x, c) \in {q, (q + x + 1) \div 2, (x + s + 1) \div 2, s, (s + t + 1) \div 2, t, x}
  BY DEF curve_level, Curve, q, s, t
<1>6. \A m, n \in Nat : m <= MaxLevel /\ n <= MaxLevel =>
        (m + n + 1) \div 2 \in Nat /\ (m + n + 1) \div 2 <= MaxLevel
  BY <1>1
<1> QED BY <1>1, <1>2, <1>3, <1>4, <1>5, <1>6

LEMMA CurveGrows ==
  ASSUME NEW x \in Level, NEW y \in Level, x <= y, NEW c \in Curve
  PROVE  curve_level(x, c) <= curve_level(y, c)
<1> DEFINE q == SquareRoot(x)
           s == Square(x)
           t == Cube(x)
           q1 == SquareRoot(y)
           s1 == Square(y)
           t1 == Cube(y)
<1>1. x \in Nat /\ y \in Nat
  BY Scale DEF Level
<1>2. q \in Nat /\ q1 \in Nat /\ q <= q1
  <2>1. q \in Level /\ q1 \in Level /\ q <= q1
    BY <1>1, RootFound, RootGrows
  <2> HIDE DEF q, q1
  <2> QED BY <2>1, Scale DEF Level
<1>3. s \in Nat /\ s1 \in Nat /\ s <= s1
  BY <1>1, SquareGrows
<1>4. t \in Nat /\ t1 \in Nat /\ t <= t1
  BY <1>1, CubeGrows
<1> HIDE DEF q, s, t, q1, s1, t1
<1>5. \/ curve_level(x, c) = q /\ curve_level(y, c) = q1
      \/ curve_level(x, c) = (q + x + 1) \div 2 /\ curve_level(y, c) = (q1 + y + 1) \div 2
      \/ curve_level(x, c) = (x + s + 1) \div 2 /\ curve_level(y, c) = (y + s1 + 1) \div 2
      \/ curve_level(x, c) = s /\ curve_level(y, c) = s1
      \/ curve_level(x, c) = (s + t + 1) \div 2 /\ curve_level(y, c) = (s1 + t1 + 1) \div 2
      \/ curve_level(x, c) = t /\ curve_level(y, c) = t1
      \/ curve_level(x, c) = x /\ curve_level(y, c) = y
  BY DEF curve_level, Curve, q, s, t, q1, s1, t1
<1>6. \A m, n, m1, n1 \in Nat : m <= m1 /\ n <= n1 =>
        (m + n + 1) \div 2 <= (m1 + n1 + 1) \div 2
  OBVIOUS
<1> QED BY <1>1, <1>2, <1>3, <1>4, <1>5, <1>6

-------------------------------------------------------------------------------
(* The range: the product fits into a word, and what comes out lies between   *)
(* the ends, which may be those of two profiles.                              *)
Lower(z) == IF z.max <= z.min THEN z.max ELSE z.min

LEMMA ScaledInRange ==
  ASSUME NEW z \in Profile, NEW l \in Level
  PROVE  /\ Scaled(z, l) \in Nat /\ Scaled(z, l) <= MaxLevel
         /\ Lower(z) <= Scaled(z, l) /\ Scaled(z, l) <= z.max
         /\ ~(z.max <= z.min) =>
              Scaled(z, l) = z.min + Rounded((z.max - z.min) * curve_level(l, z.curve))
<1> DEFINE c == curve_level(l, z.curve)
           w == z.max - z.min
<1>1. /\ z.min \in Nat /\ z.max \in Nat /\ z.max <= MaxLevel /\ z.min <= MaxLevel
      /\ z.curve \in Curve /\ MaxLevel \in Nat
  BY Scale DEF Profile, Level
<1>2. c \in Nat /\ c <= MaxLevel
  BY <1>1, CurveIsLevel
<1> HIDE DEF c
<1>3. CASE z.max <= z.min
  BY <1>1, <1>3 DEF Scaled, Lower
<1>4. CASE ~(z.max <= z.min)
  <2>1. w \in Nat /\ w <= MaxLevel /\ c \in Level
    BY <1>1, <1>2, <1>4 DEF Level
  <2> HIDE DEF w
  <2>2. w * c \in Nat /\ w * c <= MaxLevel * (MaxLevel + 1)
    BY <1>1, <1>2, <2>1, ProductGrows
  <2>3. MaxLevel * (MaxLevel + 1) \in Nat
    BY <1>1
  <2>4. w * c < Wrap /\ Wrap \in Nat
    BY <2>2, <2>3, Scale
  <2>5. (w * c) % Wrap = w * c
    BY <2>2, <2>4
  <2>6. Rounded(w * c) \in Nat /\ Rounded(w * c) <= w
    BY <2>1, ShareOf
  <2>7. Scaled(z, l) = z.min + Rounded(w * c)
    BY <1>4, <2>5 DEF Scaled, w, c
  <2> DEFINE k == Rounded(w * c)
  <2> HIDE DEF k
  <2>8. k \in Nat /\ k <= z.max - z.min /\ Scaled(z, l) = z.min + k
    BY <2>6, <2>7 DEF k, w
  <2>9. /\ Scaled(z, l) \in Nat /\ Scaled(z, l) <= MaxLevel
        /\ Lower(z) <= Scaled(z, l) /\ Scaled(z, l) <= z.max
    BY <1>1, <1>4, <2>8 DEF Lower
  <2> QED BY <2>7, <2>9 DEF w, c
<1> QED BY <1>3, <1>4

LEMMA ScaledGrows ==
  ASSUME NEW z \in Profile, NEW l \in Level, NEW m \in Level, l <= m
  PROVE  Scaled(z, l) <= Scaled(z, m)
<1> DEFINE c == curve_level(l, z.curve)
           d == curve_level(m, z.curve)
           w == z.max - z.min
<1>1. z.min \in Nat /\ z.max \in Nat /\ z.curve \in Curve
  BY Scale DEF Profile, Level
<1>2. c \in Nat /\ d \in Nat /\ c <= d
  BY <1>1, CurveIsLevel, CurveGrows
<1>3. CASE z.max <= z.min
  BY <1>1, <1>3 DEF Scaled
<1>4. CASE ~(z.max <= z.min)
  <2>1. Scaled(z, l) = z.min + Rounded(w * c) /\ Scaled(z, m) = z.min + Rounded(w * d)
    BY <1>4, ScaledInRange
  <2> HIDE DEF c, d
  <2>2. w \in Nat
    BY <1>1, <1>4
  <2> HIDE DEF w
  <2>3. w * c \in Nat /\ w * d \in Nat /\ w * c <= w * d
    BY <1>2, <2>2, ProductGrows
  <2>4. Rounded(w * c) \in Nat /\ Rounded(w * d) \in Nat /\ Rounded(w * c) <= Rounded(w * d)
    BY <2>3, RoundedGrows
  <2> QED BY <1>1, <2>1, <2>4
<1> QED BY <1>3, <1>4

-------------------------------------------------------------------------------
(* What the timer makes of a level: the counts for which the output is driven. *)
LEMMA KindCases == ASSUME kind \in Kinds PROVE kind = "triac" \/ kind = "leading" \/ kind = "trailing"
BY OutputAssumption DEF OutputAssumption

LEMMA OutputLevel ==
  ASSUME NEW z \in Profile, NEW l \in Level
  PROVE  /\ level_to_output_level(z, l) \in Nat /\ level_to_output_level(z, l) <= MaxLevel
         /\ level_to_output_level(z, l) = IF l = 0 THEN 0 ELSE Scaled(z, l)
<1>1. Scaled(z, l) \in Nat /\ Scaled(z, l) <= MaxLevel /\ Scaled(z, l) <= z.max
  BY ScaledInRange
<1>2. z.max = 0 => Scaled(z, l) = 0
  BY <1>1
<1> QED BY <1>1, <1>2, Scale DEF level_to_output_level

LEMMA Light ==
  ASSUME kind \in Kinds, NEW z \in Profile, NEW l \in Level
  PROVE  /\ Compare(z, l) \in Nat /\ Compare(z, l) <= MaxLevel + 1
         /\ Driven(Compare(z, l)) = IF l = 0 THEN 0
                                    ELSE Scaled(z, l) + (IF kind = "triac" THEN 1 ELSE 0)
<1> DEFINE s == Scaled(z, l)
           o == level_to_output_level(z, l)
<1>1. s \in Nat /\ s <= MaxLevel /\ MaxLevel \in Nat /\ MaxLevel >= 1
  BY ScaledInRange, Scale
<1>2. o \in Nat /\ o <= MaxLevel /\ o = IF l = 0 THEN 0 ELSE s
  BY OutputLevel
<1> HIDE DEF s, o
<1>3. CASE kind = "triac"
  <2>1. Compare(z, l) = IF l = 0 THEN MaxLevel + 1 ELSE MaxLevel - s
    BY <1>3 DEF Compare, level_to_compare, s
  <2>2. Steps = MaxLevel
    BY <1>3 DEF Steps
  <2> QED BY <1>1, <1>3, <2>1, <2>2 DEF Driven, Below, s
<1>4. CASE kind = "leading"
  <2>1. Compare(z, l) = IF o >= MaxLevel THEN MaxLevel ELSE o
    BY <1>4 DEF Compare, leading_level_to_compare, o
  <2>2. Compare(z, l) = o /\ Steps = MaxLevel - 1
    BY <1>1, <1>2, <1>4, <2>1 DEF Steps
  <2>3. Driven(o) = o
    BY <1>1, <1>2, <1>4, <2>2 DEF Driven, Below
  <2> QED BY <1>1, <1>2, <1>4, <2>2, <2>3 DEF s
<1>5. CASE kind = "trailing"
  <2>1. Compare(z, l) = IF o >= MaxLevel THEN 0 ELSE MaxLevel - o
    BY <1>5 DEF Compare, trailing_level_to_compare, o
  <2>2. Compare(z, l) = MaxLevel - o /\ Steps = MaxLevel - 1
    BY <1>1, <1>2, <1>5, <2>1 DEF Steps
  <2>3. Driven(MaxLevel - o) = o
    BY <1>1, <1>2, <1>5, <2>2 DEF Driven, Below
  <2> QED BY <1>1, <1>2, <1>5, <2>2, <2>3 DEF s
<1> QED BY <1>3, <1>4, <1>5, KindCases

-------------------------------------------------------------------------------
(* The inductive invariant: types, and where the zone comes from while the    *)
(* stores of a profile are under way.                                         *)
Mixed ==
  /\ before.min <= before.max /\ profile.min <= profile.max
  /\ \A f \in {"min", "max", "curve"} : zone[f] = IF f \in pending THEN before[f] ELSE profile[f]

Inv == TypeOK /\ Mixed

LEMMA ProfileFields ==
  ASSUME NEW p \in Profile
  PROVE  p.min \in Level /\ p.max \in Level /\ p.curve \in Curve
BY DEF Profile

LEMMA Valid ==
  ASSUME NEW p \in Profiles \cup Writes
  PROVE  p \in Profile /\ p.min <= p.max
BY OutputAssumption DEF OutputAssumption

LEMMA CompareIsTyped ==
  ASSUME kind \in Kinds, NEW z \in Profile, NEW l \in Level
  PROVE  Compare(z, l) \in 0 .. MaxLevel + 1
<1> DEFINE c == Compare(z, l)
<1>1. c \in Nat /\ c <= MaxLevel + 1
  BY Light
<1> HIDE DEF c
<1>2. c \in 0 .. MaxLevel + 1
  BY <1>1, Scale
<1> QED BY <1>2 DEF c

LEMMA InitInv == Init => Inv
<1> SUFFICES ASSUME Init PROVE Inv
  OBVIOUS
<1>1. kind \in Kinds /\ zone \in Profiles /\ before = zone /\ profile = zone /\ pending = {} /\ level \in Level
  BY DEF Init
<1>2. zone \in Profile /\ zone.min <= zone.max
  BY <1>1, Valid
<1>3. compare \in 0 .. MaxLevel + 1
  BY <1>1, <1>2, CompareIsTyped DEF Init
<1>4. TypeOK
  BY <1>1, <1>2, <1>3 DEF TypeOK
<1>5. Mixed
  BY <1>1, <1>2 DEF Mixed
<1> QED BY <1>4, <1>5 DEF Inv

LEMMA NextInv == Inv /\ [Next]_vars => Inv'
<1> SUFFICES ASSUME Inv, [Next]_vars PROVE Inv'
  OBVIOUS
<1> USE DEF Inv
<1>1. ASSUME NEW p \in Writes, SetProfile(p) PROVE Inv'
  <2>1. p \in Profile /\ p.min <= p.max
    BY Valid
  <2>2. TypeOK'
    BY <1>1, <2>1 DEF TypeOK, SetProfile
  <2>3. \A f \in {"min", "max", "curve"} : zone[f] = profile[f]
    BY <1>1 DEF Mixed, SetProfile
  <2>4. zone.min <= zone.max
    BY <2>3 DEF Mixed
  <2>5. Mixed'
    BY <1>1, <2>1, <2>4 DEF Mixed, SetProfile
  <2> QED BY <2>2, <2>5
<1>2. ASSUME NEW f \in {"min", "max", "curve"}, Store(f) PROVE Inv'
  <2>1. f \in pending /\ zone' = [zone EXCEPT ![f] = profile[f]] /\ pending' = pending \ {f}
        /\ UNCHANGED <<kind, before, profile, level, compare>>
    BY <1>2 DEF Store
  <2>2. zone' \in Profile
    <3>1. zone \in Profile /\ profile \in Profile
      BY DEF TypeOK
    <3> QED BY <2>1, <3>1 DEF Profile
  <2>3. TypeOK'
    BY <2>1, <2>2 DEF TypeOK
  <2>4. ASSUME NEW g \in {"min", "max", "curve"}
        PROVE  zone'[g] = IF g \in pending' THEN before[g] ELSE profile[g]
    <3>1. zone[g] = IF g \in pending THEN before[g] ELSE profile[g]
      BY DEF Mixed
    <3>2. zone'[g] = IF g = f THEN profile[g] ELSE zone[g]
      BY <2>1 DEF TypeOK, Profile
    <3> QED BY <2>1, <3>1, <3>2
  <2>5. Mixed'
    BY <2>1, <2>4 DEF Mixed
  <2> QED BY <2>3, <2>5
<1>3. ASSUME NEW l \in Moving, Apply(l) PROVE Inv'
  <2>1. l \in Level
    BY OutputAssumption DEF OutputAssumption
  <2>2. Compare(zone, l) \in 0 .. MaxLevel + 1
    BY <2>1, CompareIsTyped DEF TypeOK
  <2>3. TypeOK'
    BY <1>3, <2>1, <2>2 DEF TypeOK, Apply
  <2>4. Mixed'
    BY <1>3 DEF Mixed, Apply
  <2> QED BY <2>3, <2>4
<1>4. CASE ZeroCross
  <2>1. Compare(zone, level) \in 0 .. MaxLevel + 1
    BY CompareIsTyped DEF TypeOK
  <2>2. TypeOK'
    BY <1>4, <2>1 DEF TypeOK, ZeroCross
  <2>3. Mixed'
    BY <1>4 DEF Mixed, ZeroCross
  <2> QED BY <2>2, <2>3
<1>5. CASE UNCHANGED vars
  BY <1>5 DEF vars, TypeOK, Mixed
<1> QED BY <1>1, <1>2, <1>3, <1>4, <1>5 DEF Next

(* The state keeps to its types, and the compare register to its period.      *)
THEOREM OutputTypes == Spec => []TypeOK
<1>1. Inv => TypeOK
  BY DEF Inv
<1> QED BY <1>1, InitInv, NextInv, PTL DEF Spec

LEMMA Always == Spec => []Inv
BY InitInv, NextInv, PTL DEF Spec

(* The binary search of the curves finds the root, for any scale.             *)
THEOREM RootIsFound == Spec => []RootIsExact
<1>1. ASSUME TypeOK PROVE RootIsExact
  <2>1. level \in Nat
    BY Scale, <1>1 DEF TypeOK, Level
  <2>2. IsRoot(SquareRoot(level), level)
    BY <2>1, RootFound
  <2> QED BY <2>2 DEF IsRoot, RootIsExact
<1> QED BY <1>1, OutputTypes, PTL

(* A brighter level never gives less light, whatever curve and range are in   *)
(* force or half stored.                                                      *)
THEOREM NeverTurnsBack == Spec => []BrighterIsBrighter
<1>1. ASSUME TypeOK PROVE BrighterIsBrighter
  <2> SUFFICES ASSUME level < MaxLevel
               PROVE  Driven(Compare(zone, level)) <= Driven(Compare(zone, level + 1))
    BY DEF BrighterIsBrighter
  <2> DEFINE s == Scaled(zone, level)
             t == Scaled(zone, level + 1)
             x == IF kind = "triac" THEN 1 ELSE 0
  <2>1. kind \in Kinds /\ zone \in Profile /\ level \in Level /\ level + 1 \in Level
        /\ level \in Nat /\ level <= level + 1
    BY <1>1, Scale DEF TypeOK, Level
  <2>2. s \in Nat /\ t \in Nat /\ s <= t
    BY <2>1, ScaledInRange, ScaledGrows
  <2>3. /\ Driven(Compare(zone, level)) = IF level = 0 THEN 0 ELSE s + x
        /\ Driven(Compare(zone, level + 1)) = IF level + 1 = 0 THEN 0 ELSE t + x
    BY <2>1, Light
  <2> HIDE DEF s, t
  <2> QED BY <2>1, <2>2, <2>3
<1> QED BY <1>1, OutputTypes, PTL

(* A leading and a trailing pulse of one level last equally long.             *)
THEOREM SameDuty == Spec => []EqualDuty
<1>1. ASSUME TypeOK PROVE EqualDuty
  <2> SUFFICES ASSUME kind # "triac"
               PROVE  LET o == level_to_output_level(zone, level)
                      IN  Below(leading_level_to_compare(o))
                            = Steps + 1 - Below(trailing_level_to_compare(o))
    BY DEF EqualDuty
  <2> DEFINE o == level_to_output_level(zone, level)
  <2>1. o \in Nat /\ o <= MaxLevel
    BY <1>1, OutputLevel DEF TypeOK
  <2> HIDE DEF o
  <2>2. MaxLevel \in Nat /\ Steps = MaxLevel - 1
    BY Scale DEF Steps
  <2>3. leading_level_to_compare(o) = o /\ trailing_level_to_compare(o) = MaxLevel - o
    BY <2>1, <2>2 DEF leading_level_to_compare, trailing_level_to_compare
  <2>4. Below(o) = o /\ Below(MaxLevel - o) = MaxLevel - o
    BY <2>1, <2>2 DEF Below
  <2>5. Below(leading_level_to_compare(o)) = Steps + 1 - Below(trailing_level_to_compare(o))
    BY <2>1, <2>2, <2>3, <2>4
  <2> QED BY <2>5 DEF o
<1> QED BY <1>1, OutputTypes, PTL

(* What is driven anew lies in the range of the last profile, or, between the
   stores of a profile, in the range made of the fields the interrupt finds.   *)
THEOREM RangeIsKept == Spec => StaysInRange
<1> DEFINE z == IF pending = {} THEN profile ELSE zone
           Kept ==
      compare' # compare =>
        IF level' = 0 THEN Driven(compare') = 0
        ELSE /\ Shown(compare') >= (IF z.min < z.max THEN z.min ELSE z.max)
             /\ Shown(compare') <= z.max
<1>1. ASSUME Inv, [Next]_vars PROVE [Kept]_vars
  <2>1. CASE compare' = compare
    BY <2>1
  <2>2. CASE compare' # compare
    <3>1. PICK l \in Level : level' = l /\ compare' = Compare(zone, l)
      <4>1. Moving \subseteq Level /\ level \in Level
        BY <1>1, OutputAssumption DEF OutputAssumption, Inv, TypeOK
      <4>2. ASSUME NEW l \in Moving, Apply(l) PROVE l \in Level /\ level' = l /\ compare' = Compare(zone, l)
        BY <4>1, <4>2, <2>2 DEF Apply
      <4>3. ASSUME ZeroCross PROVE level' = level /\ compare' = Compare(zone, level)
        BY <4>3 DEF ZeroCross
      <4>4. (\E l \in Moving : Apply(l)) \/ ZeroCross
        BY <1>1, <2>2 DEF Next, SetProfile, Store, vars
      <4> QED BY <4>1, <4>2, <4>3, <4>4
    <3> DEFINE s == Scaled(zone, l)
               x == IF kind = "triac" THEN 1 ELSE 0
    <3>2. kind \in Kinds /\ zone \in Profile /\ zone.min \in Nat /\ zone.max \in Nat
      BY <1>1, Scale DEF Inv, TypeOK, Profile, Level
    <3>3. Driven(compare') = IF l = 0 THEN 0 ELSE s + x
      BY <3>1, <3>2, Light
    <3>4. s \in Nat /\ Lower(zone) <= s /\ s <= zone.max
      BY <3>2, ScaledInRange
    <3> HIDE DEF s
    <3>5. z.min = zone.min /\ z.max = zone.max
      BY <1>1 DEF Inv, Mixed
    <3>6. Lower(zone) >= (IF zone.min < zone.max THEN zone.min ELSE zone.max)
      BY <3>2 DEF Lower
    <3>7. l # 0 => Shown(compare') = s
      BY <3>3, <3>4 DEF Shown
    <3> HIDE DEF z
    <3>8. /\ l = 0 => Driven(compare') = 0
          /\ l # 0 => /\ Shown(compare') >= (IF z.min < z.max THEN z.min ELSE z.max)
                      /\ Shown(compare') <= z.max
      <4>1. Lower(zone) \in Nat /\ (IF z.min < z.max THEN z.min ELSE z.max) \in Nat
        BY <3>2, <3>5 DEF Lower
      <4> QED BY <3>2, <3>3, <3>4, <3>5, <3>6, <3>7, <4>1
    <3> QED BY <3>1, <3>8 DEF z
  <2> QED BY <2>1, <2>2
<1> QED BY <1>1, Always, PTL DEF Spec, StaysInRange
===============================================================================
