----------------------------- MODULE InputsProofs -----------------------------
(* What the buttons know of the inputs, for any number of inputs, any ring    *)
(* and any debounce times, with the events a full ring overwrites.            *)
EXTENDS Inputs, TLAPS

(* An index of the ring moves on by one or wraps to zero. *)
LEMMA AfterWraps ==
  ASSUME NEW s \in Slot
  PROVE  After(s) \in Slot /\ After(s) = IF s = QLen - 1 THEN 0 ELSE s + 1
BY InputsAssumption, SMT DEF After, Slot

(* The slots from t up to h in ring order, and their number. *)
Between(t, h, s) == IF t <= h THEN t <= s /\ s < h ELSE t <= s \/ s < h
Count(t, h) == IF h >= t THEN h - t ELSE h + QLen - t

LEMMA HeadMoves ==
  ASSUME NEW t \in Slot, NEW h \in Slot, NEW t1, t1 = IF After(h) = t THEN After(t) ELSE t
  PROVE  /\ \A s \in Slot : Between(t1, After(h), s)
                            <=> s = h \/ (Between(t, h, s) /\ ~(After(h) = t /\ s = t))
         /\ ~Between(t, h, h)
         /\ Count(t, h) < QLen - 1 => After(h) # t /\ Count(t1, After(h)) = Count(t, h) + 1
<1>1. \A s \in Slot : Between(t1, After(h), s)
                       <=> s = h \/ (Between(t, h, s) /\ ~(After(h) = t /\ s = t))
  BY AfterWraps, InputsAssumption, SMT DEF Between, Slot
<1>2. ~Between(t, h, h)
  BY SMT DEF Between, Slot
<1>3. Count(t, h) < QLen - 1 => After(h) # t
  BY AfterWraps, InputsAssumption, SMT DEF Count, Slot
<1>4. Count(t, h) < QLen - 1 => Count(t1, After(h)) = Count(t, h) + 1
  BY <1>3, AfterWraps, InputsAssumption, SMT DEF Count, Slot
<1> QED BY <1>1, <1>2, <1>3, <1>4

LEMMA TailMoves ==
  ASSUME NEW t \in Slot, NEW h \in Slot, t # h
  PROVE  /\ \A s \in Slot : Between(After(t), h, s) <=> Between(t, h, s) /\ s # t
         /\ Between(t, h, t)
         /\ Count(t, h) \in Nat /\ Count(t, h) # 0 /\ Count(After(t), h) = Count(t, h) - 1
<1>1. \A s \in Slot : Between(After(t), h, s) <=> Between(t, h, s) /\ s # t
  BY AfterWraps, InputsAssumption, SMT DEF Between, Slot
<1>2. Between(t, h, t)
  BY SMT DEF Between, Slot
<1>3. Count(t, h) \in Nat /\ Count(t, h) # 0 /\ Count(After(t), h) = Count(t, h) - 1
  BY AfterWraps, InputsAssumption, SMT DEF Count, Slot
<1> QED BY <1>1, <1>2, <1>3

(* A ring, the slots in use, and their number. *)
RingType == [events : [Slot -> Event], head : Slot, tail : Slot, lost : SUBSET Input]
InRing(r, s) == Between(r.tail, r.head, s)
Waiting(r) == Count(r.tail, r.head)
Full(r) == After(r.head) = r.tail

(* Pushing adds the slot at head; of a full ring the oldest entry goes. *)
LEMMA PushAddsOne ==
  ASSUME NEW r \in RingType, NEW e \in Event
  PROVE  /\ push_event(r, e) \in RingType
         /\ push_event(r, e).events[r.head] = e
         /\ \A s \in Slot : s # r.head => push_event(r, e).events[s] = r.events[s]
         /\ push_event(r, e).lost
              = IF Full(r) THEN r.lost \cup Tells(r.events[r.tail]) ELSE r.lost
         /\ ~InRing(r, r.head)
         /\ \A s \in Slot : InRing(push_event(r, e), s)
                              <=> s = r.head \/ (InRing(r, s) /\ ~(Full(r) /\ s = r.tail))
         /\ Waiting(r) < QLen - 1 => ~Full(r) /\ Waiting(push_event(r, e)) = Waiting(r) + 1
<1> DEFINE q == push_event(r, e)
<1>1. r.head \in Slot /\ r.tail \in Slot /\ r.events \in [Slot -> Event] /\ r.lost \in SUBSET Input
  BY DEF RingType
<1>2. /\ q.events = [r.events EXCEPT ![r.head] = e]
      /\ q.head = After(r.head)
      /\ q.tail = IF Full(r) THEN After(r.tail) ELSE r.tail
      /\ q.lost = IF Full(r) THEN r.lost \cup Tells(r.events[r.tail]) ELSE r.lost
  BY DEF push_event, Full
<1>3. After(r.head) \in Slot /\ After(r.tail) \in Slot
  BY <1>1, AfterWraps
<1>4. q \in RingType
  <2>1. Tells(r.events[r.tail]) \subseteq Input
    BY <1>1 DEF Tells, Event
  <2>2. q.events \in [Slot -> Event] /\ q.head \in Slot /\ q.tail \in Slot /\ q.lost \in SUBSET Input
    BY <1>1, <1>2, <1>3, <2>1
  <2>3. q = [events |-> q.events, head |-> q.head, tail |-> q.tail, lost |-> q.lost]
    BY DEF push_event
  <2> HIDE DEF q
  <2> QED BY <2>2, <2>3 DEF RingType
<1> HIDE DEF q
<1>5. /\ ~InRing(r, r.head)
      /\ \A s \in Slot : InRing(q, s) <=> s = r.head \/ (InRing(r, s) /\ ~(Full(r) /\ s = r.tail))
      /\ Waiting(r) < QLen - 1 => ~Full(r) /\ Waiting(q) = Waiting(r) + 1
  BY <1>1, <1>2, HeadMoves DEF InRing, Waiting, Full
<1> QED BY <1>1, <1>2, <1>4, <1>5 DEF q

(* The ring of a state. *)
LEMMA RingIs ==
  /\ Ring.events = events /\ Ring.head = head /\ Ring.tail = tail /\ Ring.lost = lost
  /\ TypeOK => Ring \in RingType
BY DEF Ring, RingType, TypeOK

(* Popping removes the slot at tail. *)
LEMMA PopRemovesOne ==
  ASSUME TypeOK, tail # head, tail' = After(tail), head' = head
  PROVE  /\ tail' \in Slot /\ InRing(Ring, tail)
         /\ Waiting(Ring) \in Nat /\ Waiting(Ring') = Waiting(Ring) - 1 /\ Waiting(Ring) # 0
         /\ \A s \in Slot : InRing(Ring', s) <=> InRing(Ring, s) /\ s # tail
<1>1. head \in Slot /\ tail \in Slot
  BY DEF TypeOK
<1>2. /\ Ring.head = head /\ Ring.tail = tail /\ (Ring').head = head' /\ (Ring').tail = tail'
  BY DEF Ring
<1> QED BY <1>1, <1>2, TailMoves, AfterWraps DEF InRing, Waiting

(* An empty ring has no slot. *)
LEMMA EmptyRing ==
  ASSUME TypeOK, head = tail
  PROVE  Waiting(Ring) = 0 /\ \A s \in Slot : ~InRing(Ring, s)
<1>1. Ring.head = head /\ Ring.tail = tail
  BY DEF Ring
<1> QED BY <1>1, InputsAssumption, SMT DEF TypeOK, Waiting, InRing, Count, Between, Slot

-------------------------------------------------------------------------------
(* A press or release of input d that waits in ring r. *)
Pending(r, s, d) == InRing(r, s) /\ r.events[s].type # "raw" /\ r.events[s].di = d

(* What waits in the ring says what inputs.c believes (p) and the buttons (h) *)
(* do not yet; while the scan runs there is none of the inputs from n on.     *)
News(r, p, h, n) ==
  \A s \in Slot, d \in Input : Pending(r, s, d) =>
     /\ r.events[s].type = "press" <=> p[d]
     /\ d \notin r.lost => h[d] # p[d]
     /\ n < DI => d < n

(* Of one input there is at most one. *)
Unique(r) ==
  \A s, t \in Slot, d \in Input : Pending(r, s, d) /\ Pending(r, t, d) => s = t

(* Where inputs.c and the buttons differ, the news waits or was overwritten.  *)
Known(r, p, h) ==
  \A d \in Input : h[d] # p[d] => d \in r.lost \/ \E s \in Slot : Pending(r, s, d)

(* A press that waits was seen in this loop; a release says how long the      *)
(* input was held, from the time g of its press.                              *)
Dated(r, g) ==
  \A s \in Slot, d \in Input : Pending(r, s, d) =>
     /\ r.events[s].type = "press" => g[d] = now
     /\ r.events[s].type = "release" => r.events[s].duration = now - g[d]

Accounts(r, p, h, g, n) == News(r, p, h, n) /\ Unique(r) /\ Known(r, p, h) /\ Dated(r, g)

(* A raw change, with what it may overwrite, leaves the accounts as they are. *)
LEMMA RawKeeps ==
  ASSUME NEW r \in RingType, NEW e \in Event, e.type = "raw",
         NEW p, NEW h, NEW g, NEW n, Accounts(r, p, h, g, n)
  PROVE  Accounts(push_event(r, e), p, h, g, n)
<1> DEFINE q == push_event(r, e)
<1>1. /\ q.events[r.head] = e
      /\ \A s \in Slot : s # r.head => q.events[s] = r.events[s]
      /\ q.lost = IF Full(r) THEN r.lost \cup Tells(r.events[r.tail]) ELSE r.lost
      /\ ~InRing(r, r.head)
      /\ \A s \in Slot : InRing(q, s) <=> s = r.head \/ (InRing(r, s) /\ ~(Full(r) /\ s = r.tail))
      /\ r.head \in Slot
  BY PushAddsOne DEF RingType
<1> HIDE DEF q
<1>2. \A s \in Slot, d \in Input : Pending(q, s, d) <=> Pending(r, s, d) /\ ~(Full(r) /\ s = r.tail)
  BY <1>1 DEF Pending
<1>3. \A s \in Slot : InRing(r, s) => q.events[s] = r.events[s]
  BY <1>1
<1>4. \A d \in Input : d \notin q.lost => d \notin r.lost
  BY <1>1
<1>5. News(q, p, h, n)
  BY <1>2, <1>3, <1>4 DEF Accounts, News, Pending
<1>6. Unique(q)
  BY <1>2 DEF Accounts, Unique
<1>7. Known(q, p, h)
  <2> SUFFICES ASSUME NEW d \in Input, h[d] # p[d], d \notin q.lost
               PROVE  \E s \in Slot : Pending(q, s, d)
    BY DEF Known
  <2>1. PICK s \in Slot : Pending(r, s, d)
    BY <1>4 DEF Accounts, Known
  <2>2. ~(Full(r) /\ s = r.tail)
    BY <1>1, <2>1 DEF Pending, Tells
  <2> QED BY <1>2, <2>1, <2>2
<1>8. Dated(q, g)
  BY <1>2, <1>3 DEF Accounts, Dated, Pending
<1> QED BY <1>5, <1>6, <1>7, <1>8 DEF Accounts, q

(* The turn of the input that is looked at is the news of it. *)
LEMMA TurnKeeps ==
  ASSUME NEW r \in RingType, NEW e \in Event, NEW p \in [Input -> BOOLEAN],
         NEW h \in [Input -> BOOLEAN], NEW g \in [Input -> Nat], NEW n \in Input, NEW a \in BOOLEAN,
         Accounts(r, p, h, g, n), p[n] # a, now \in Nat,
         e.type = IF a THEN "press" ELSE "release", e.di = n,
         e.duration = IF a THEN 0 ELSE now - g[n]
  PROVE  Accounts(push_event(r, e), [p EXCEPT ![n] = a], h,
                  IF a THEN [g EXCEPT ![n] = now] ELSE g, n + 1)
<1> DEFINE q == push_event(r, e)
           p1 == [p EXCEPT ![n] = a]
           g1 == IF a THEN [g EXCEPT ![n] = now] ELSE g
<1>1. /\ q.events[r.head] = e
      /\ \A s \in Slot : s # r.head => q.events[s] = r.events[s]
      /\ q.lost = IF Full(r) THEN r.lost \cup Tells(r.events[r.tail]) ELSE r.lost
      /\ ~InRing(r, r.head)
      /\ \A s \in Slot : InRing(q, s) <=> s = r.head \/ (InRing(r, s) /\ ~(Full(r) /\ s = r.tail))
      /\ r.head \in Slot
  BY PushAddsOne DEF RingType
<1>2. /\ p1[n] = a /\ \A d \in Input : d # n => p1[d] = p[d]
      /\ a => g1[n] = now
      /\ ~a => g1[n] = g[n]
      /\ \A d \in Input : d # n => g1[d] = g[d]
  OBVIOUS
<1> HIDE DEF q, p1, g1
<1>3. \A s \in Slot : ~Pending(r, s, n)
  BY InputsAssumption DEF Accounts, News, Input
<1>4. \A s \in Slot, d \in Input :
        Pending(q, s, d) <=> \/ s = r.head /\ d = n
                             \/ Pending(r, s, d) /\ ~(Full(r) /\ s = r.tail) /\ s # r.head /\ d # n
  BY <1>1, <1>3 DEF Pending
<1>5. \A d \in Input : d \notin q.lost => d \notin r.lost
  BY <1>1
<1>6. n \notin r.lost => h[n] = p[n]
  BY <1>3 DEF Accounts, Known
<1>7. News(q, p1, h, n + 1)
  <2> SUFFICES ASSUME NEW s \in Slot, NEW d \in Input, Pending(q, s, d)
               PROVE  /\ q.events[s].type = "press" <=> p1[d]
                      /\ d \notin q.lost => h[d] # p1[d]
                      /\ n + 1 < DI => d < n + 1
    BY DEF News
  <2>1. CASE s = r.head /\ d = n
    <3>1. q.events[s].type = "press" <=> p1[d]
      BY <1>1, <1>2, <2>1
    <3>2. d \notin q.lost => h[d] # p1[d]
      BY <1>2, <1>5, <1>6, <2>1
    <3>3. d < n + 1
      BY <2>1 DEF Input
    <3> QED BY <3>1, <3>2, <3>3
  <2>2. CASE ~(s = r.head /\ d = n)
    <3>1. Pending(r, s, d) /\ s # r.head /\ d # n
      BY <1>4, <2>2
    <3>2. (r.events[s].type = "press" <=> p[d]) /\ (d \notin r.lost => h[d] # p[d]) /\ (n < DI => d < n)
      BY <3>1 DEF Accounts, News
    <3>3. (q.events[s].type = "press" <=> p1[d]) /\ (d \notin q.lost => h[d] # p1[d])
      BY <1>1, <1>2, <1>5, <3>1, <3>2
    <3>4. d < n + 1
      BY <3>2, InputsAssumption DEF Input
    <3> QED BY <3>3, <3>4
  <2> QED BY <2>1, <2>2
<1>8. Unique(q)
  BY <1>4 DEF Accounts, Unique
<1>9. Known(q, p1, h)
  <2> SUFFICES ASSUME NEW d \in Input, h[d] # p1[d], d \notin q.lost
               PROVE  \E s \in Slot : Pending(q, s, d)
    BY DEF Known
  <2>1. CASE d = n
    BY <1>1, <1>4, <2>1
  <2>2. CASE d # n
    <3>1. PICK s \in Slot : Pending(r, s, d)
      BY <1>2, <1>5, <2>2 DEF Accounts, Known
    <3>2. ~(Full(r) /\ s = r.tail)
      BY <1>1, <3>1 DEF Pending, Tells
    <3>3. s # r.head
      BY <1>1, <3>1 DEF Pending
    <3> QED BY <1>4, <2>2, <3>1, <3>2, <3>3
  <2> QED BY <2>1, <2>2
<1>10. Dated(q, g1)
  <2> SUFFICES ASSUME NEW s \in Slot, NEW d \in Input, Pending(q, s, d)
               PROVE  /\ q.events[s].type = "press" => g1[d] = now
                      /\ q.events[s].type = "release" => q.events[s].duration = now - g1[d]
    BY DEF Dated
  <2>1. CASE s = r.head /\ d = n
    BY <1>1, <1>2, <2>1
  <2>2. CASE ~(s = r.head /\ d = n)
    <3>1. Pending(r, s, d) /\ s # r.head /\ d # n
      BY <1>4, <2>2
    <3> QED BY <1>1, <1>2, <3>1 DEF Accounts, Dated
  <2> QED BY <2>1, <2>2
<1> QED BY <1>7, <1>8, <1>9, <1>10 DEF Accounts, q, p1, g1

-------------------------------------------------------------------------------
(* The buttons count a press from the instant inputs.c does. *)
SinceAgrees == \A d \in Input \ lost : held[d] => heldSince[d] = since[d]

IInv ==
  /\ TypeOK
  /\ \A d \in Input : since[d] <= now
  /\ Accounts(Ring, pressed, held, since, next)
  /\ SinceAgrees

(* The inductive invariant holds at start-up. *)
LEMMA InitIInv == Init => IInv
<1> SUFFICES ASSUME Init PROVE IInv
  OBVIOUS
<1>1. 0 \in Slot /\ 0 \in Input /\ 0 \in 0 .. DI /\ DI \in Nat
  BY InputsAssumption DEF Slot, Input
<1>2. events \in [Slot -> Event]
  BY <1>1 DEF Init, Event, Empty
<1>3. TypeOK
  BY <1>1, <1>2 DEF Init, TypeOK
<1>4. head = tail
  BY DEF Init
<1>5. \A s \in Slot : ~InRing(Ring, s)
  BY <1>3, <1>4, EmptyRing
<1>6. Accounts(Ring, pressed, held, since, next)
  BY <1>5 DEF Init, Accounts, News, Unique, Known, Dated, Pending
<1>7. SinceAgrees /\ \A d \in Input : since[d] <= now
  BY <1>1 DEF Init, SinceAgrees
<1> QED BY <1>3, <1>6, <1>7 DEF IInv

(* One input is scanned: it pushes nothing, a raw change, its turn, or both.  *)
LEMMA ScanKeeps ==
  ASSUME IInv, NEW active \in BOOLEAN, ScanInput(active)
  PROVE  IInv'
<1> DEFINE d == next
           flips == raw[d] # active
           at == IF flips THEN now ELSE changed[d]
           turns == Settled(d, active, at)
           change == [type |-> "raw", di |-> d, duration |-> 0]
           turn == [type |-> IF active THEN "press" ELSE "release", di |-> d,
                    duration |-> IF active THEN 0 ELSE now - since[d]]
           told == IF flips THEN push_event(Ring, change) ELSE Ring
           ring == IF turns THEN push_event(told, turn) ELSE told
<1>1. d \in Input /\ next' = next + 1 /\ next < DI /\ next' \in 0 .. DI
  BY InputsAssumption DEF ScanInput, IInv, TypeOK, Input
<1>2. /\ raw' = [raw EXCEPT ![d] = active] /\ changed' = [changed EXCEPT ![d] = at]
      /\ pressed' = IF turns THEN [pressed EXCEPT ![d] = active] ELSE pressed
      /\ since' = IF turns /\ active THEN [since EXCEPT ![d] = now] ELSE since
      /\ UNCHANGED <<debounce, now, held, heldSince>>
  BY DEF ScanInput
<1>3. events' = ring.events /\ head' = ring.head /\ tail' = ring.tail /\ lost' = ring.lost
  BY DEF ScanInput
<1>4. turns => pressed[d] # active
  BY DEF Settled
<1> HIDE DEF turns, flips
<1>5. change \in Event /\ turn \in Event
  <2>1. since[d] \in Nat /\ now \in Nat /\ since[d] <= now
    BY <1>1 DEF IInv, TypeOK
  <2> QED BY <1>1, <2>1 DEF Event
<1>6. change.type = "raw"
  OBVIOUS
<1>7. /\ turn.type = IF active THEN "press" ELSE "release"
      /\ turn.di = d
      /\ turn.duration = IF active THEN 0 ELSE now - since[d]
  OBVIOUS
<1>8. /\ raw' \in [Input -> BOOLEAN] /\ changed' \in [Input -> Nat]
      /\ pressed' \in [Input -> BOOLEAN] /\ since' \in [Input -> Nat]
      /\ \A i \in Input : since'[i] <= now'
  BY <1>1, <1>2 DEF IInv, TypeOK
<1> HIDE DEF change, turn, at
<1>9. /\ told \in RingType /\ Accounts(told, pressed, held, since, next)
      /\ Ring.lost \subseteq told.lost
  <2>1. Ring \in RingType /\ Accounts(Ring, pressed, held, since, next)
    BY RingIs DEF IInv
  <2>2. /\ push_event(Ring, change) \in RingType
        /\ Ring.lost \subseteq push_event(Ring, change).lost
    BY <1>5, <2>1, PushAddsOne
  <2>3. Accounts(push_event(Ring, change), pressed, held, since, next)
    BY <1>5, <1>6, <2>1, RawKeeps
  <2> QED BY <2>1, <2>2, <2>3
<1> HIDE DEF told
<1>10. /\ ring \in RingType /\ Accounts(ring, pressed', held, since', next + 1)
       /\ told.lost \subseteq ring.lost
  <2>1. CASE turns
    <3>1. /\ pressed \in [Input -> BOOLEAN] /\ held \in [Input -> BOOLEAN]
          /\ since \in [Input -> Nat] /\ now \in Nat /\ pressed[next] # active /\ next \in Input
      BY <1>1, <1>4, <2>1 DEF IInv, TypeOK
    <3>2. Accounts(push_event(told, turn), [pressed EXCEPT ![next] = active], held,
                   IF active THEN [since EXCEPT ![next] = now] ELSE since, next + 1)
      BY <1>5, <1>7, <1>9, <3>1, TurnKeeps
    <3>3. /\ pressed' = [pressed EXCEPT ![next] = active]
          /\ since' = IF active THEN [since EXCEPT ![next] = now] ELSE since
      BY <1>2, <2>1
    <3>4. /\ push_event(told, turn) \in RingType
          /\ told.lost \subseteq push_event(told, turn).lost
      <4>1. told \in RingType /\ turn \in Event
        BY <1>5, <1>9
      <4>2. /\ push_event(told, turn) \in RingType
            /\ push_event(told, turn).lost
                 = IF Full(told) THEN told.lost \cup Tells(told.events[told.tail]) ELSE told.lost
        BY <4>1, PushAddsOne
      <4> QED BY <4>2
    <3> QED BY <2>1, <3>2, <3>3, <3>4
  <2>2. CASE ~turns
    <3>1. ring = told /\ pressed' = pressed /\ since' = since
      BY <1>2, <2>2
    <3>2. \A i \in Input : next < DI /\ (next < DI => i < next) => i < next + 1
      BY <1>1, InputsAssumption DEF Input
    <3>3. News(told, pressed, held, next + 1)
      BY <1>1, <1>9, <3>2 DEF Accounts, News
    <3>4. Accounts(told, pressed, held, since, next + 1)
      BY <1>9, <3>3 DEF Accounts
    <3> QED BY <1>9, <3>1, <3>4
  <2> QED BY <2>1, <2>2
<1> HIDE DEF ring
<1>11. Ring' = ring
  <2>1. ring = [events |-> ring.events, head |-> ring.head, tail |-> ring.tail, lost |-> ring.lost]
    BY <1>10 DEF RingType
  <2> QED BY <1>3, <2>1 DEF Ring
<1>12. TypeOK'
  <2>1. events' \in [Slot -> Event] /\ head' \in Slot /\ tail' \in Slot /\ lost' \in SUBSET Input
    BY <1>3, <1>10 DEF RingType
  <2> QED BY <1>1, <1>2, <1>8, <2>1 DEF IInv, TypeOK
<1>13. Accounts(Ring, pressed, held, since, next)'
  <2>1. Accounts(ring, pressed', held, since', next + 1)
    BY <1>10
  <2>2. held' = held /\ now' = now /\ next' = next + 1
    BY <1>1, <1>2
  <2> QED BY <1>11, <2>1, <2>2 DEF Accounts, News, Unique, Known, Dated, Pending, InRing
<1>14. SinceAgrees'
  <2> SUFFICES ASSUME NEW i \in Input, i \notin lost', held[i]
               PROVE  heldSince[i] = since'[i]
    BY <1>2 DEF SinceAgrees
  <2>1. i \notin lost /\ heldSince[i] = since[i]
    BY <1>3, <1>9, <1>10, RingIs DEF IInv, SinceAgrees
  <2>2. CASE i = d /\ turns /\ active
    <3>1. \A s \in Slot : ~Pending(Ring, s, d)
      BY <1>1, InputsAssumption DEF IInv, Accounts, News, Input
    <3>2. held[d] = pressed[d]
      BY <1>1, <2>1, <2>2, <3>1, RingIs DEF IInv, Accounts, Known
    <3> QED BY <1>1, <1>4, <2>2, <3>2 DEF IInv, TypeOK
  <2>3. CASE ~(i = d /\ turns /\ active)
    BY <1>1, <1>2, <2>1, <2>3 DEF IInv, TypeOK
  <2> QED BY <2>2, <2>3
<1> QED BY <1>8, <1>12, <1>13, <1>14 DEF IInv

(* What is popped, if it tells anything, is the news of its input. *)
LEMMA PopTells ==
  ASSUME IInv, Pop, NEW e, e = events[tail]
  PROVE  /\ e \in Event /\ tail \in Slot /\ InRing(Ring, tail)
         /\ e.type # "raw" => /\ Pending(Ring, tail, e.di)
                              /\ e.type = "press" <=> pressed[e.di]
                              /\ e.di \notin lost => held[e.di] # pressed[e.di]
         /\ e.type = "press" => since[e.di] = now
         /\ e.type = "release" => e.duration = now - since[e.di]
<1>1. tail \in Slot /\ e \in Event /\ e.di \in Input
  BY DEF IInv, TypeOK, Event
<1>2. tail # head /\ tail' = After(tail) /\ head' = head
  BY DEF Pop
<1>3. InRing(Ring, tail)
  BY <1>2, PopRemovesOne DEF IInv
<1>4. Ring.events = events /\ Ring.lost = lost
  BY RingIs
<1>5. e.type # "raw" => Pending(Ring, tail, e.di)
  BY <1>3, <1>4 DEF Pending
<1> QED BY <1>1, <1>3, <1>4, <1>5 DEF IInv, Accounts, News, Dated

(* The event at tail is popped: its input is news no longer. *)
LEMMA PopKeeps ==
  ASSUME IInv, Pop
  PROVE  IInv'
<1> DEFINE e == events[tail]
<1>1. /\ next = DI /\ tail # head /\ tail' = After(tail) /\ head' = head
      /\ lost' = lost \ Tells(e)
      /\ heldSince' = IF e.type = "press" THEN [heldSince EXCEPT ![e.di] = now] ELSE heldSince
      /\ UNCHANGED <<raw, changed, pressed, since, events, debounce, next, now>>
  BY DEF Pop, inputVars
<1>2. /\ e.type = "press" => held' = [held EXCEPT ![e.di] = TRUE]
      /\ e.type = "release" => held' = [held EXCEPT ![e.di] = FALSE]
      /\ e.type = "raw" => held' = held
  BY DEF Pop
<1>3. /\ e \in Event /\ tail \in Slot /\ InRing(Ring, tail)
      /\ e.type # "raw" => /\ Pending(Ring, tail, e.di)
                           /\ e.type = "press" <=> pressed[e.di]
      /\ e.type = "press" => since[e.di] = now
  BY PopTells
<1>4. tail' \in Slot /\ \A s \in Slot : InRing(Ring', s) <=> InRing(Ring, s) /\ s # tail
  BY <1>1, PopRemovesOne DEF IInv
<1>5. Ring.events = events /\ (Ring').events = events /\ Ring.lost = lost /\ (Ring').lost = lost'
  BY <1>1 DEF Ring
<1>6. e.di \in Input /\ e.type \in {"raw", "press", "release"}
  BY <1>3 DEF Event
<1> HIDE DEF e
<1>7. /\ Tells(e) = IF e.type = "raw" THEN {} ELSE {e.di}
      /\ \A d \in Input : d \in lost' <=> d \in lost /\ (e.type = "raw" \/ d # e.di)
  BY <1>1 DEF Tells
<1>8. held' \in [Input -> BOOLEAN] /\ heldSince' \in [Input -> Nat]
  BY <1>1, <1>2, <1>6 DEF IInv, TypeOK
<1>9. TypeOK'
  BY <1>1, <1>4, <1>8 DEF IInv, TypeOK
<1>10. /\ e.type # "raw" => held'[e.di] = pressed[e.di]
       /\ \A d \in Input : d # e.di \/ e.type = "raw" => held'[d] = held[d] /\ heldSince'[d] = heldSince[d]
       /\ e.type = "press" => heldSince'[e.di] = now
       /\ e.type = "release" => ~held'[e.di]
  <2>1. held \in [Input -> BOOLEAN] /\ heldSince \in [Input -> Nat] /\ pressed[e.di] \in BOOLEAN
    BY <1>6 DEF IInv, TypeOK
  <2>2. CASE e.type = "press"
    BY <1>1, <1>2, <1>3, <1>6, <2>1, <2>2
  <2>3. CASE e.type = "release"
    BY <1>1, <1>2, <1>3, <1>6, <2>1, <2>3
  <2>4. CASE e.type = "raw"
    BY <1>1, <1>2, <2>4
  <2> QED BY <1>6, <2>2, <2>3, <2>4
<1>11. \A s \in Slot, d \in Input : Pending(Ring', s, d) <=> Pending(Ring, s, d) /\ s # tail
  BY <1>4, <1>5 DEF Pending
<1>12. \A s \in Slot, d \in Input : Pending(Ring', s, d) => d # e.di \/ e.type = "raw"
  BY <1>3, <1>6, <1>11 DEF IInv, Accounts, Unique
<1>13. News(Ring', pressed, held', DI)
  BY <1>5, <1>7, <1>10, <1>11, <1>12, InputsAssumption DEF IInv, Accounts, News
<1>14. Unique(Ring')
  BY <1>11 DEF IInv, Accounts, Unique
<1>15. Known(Ring', pressed, held')
  <2> SUFFICES ASSUME NEW d \in Input, held'[d] # pressed[d], d \notin lost'
               PROVE  \E s \in Slot : Pending(Ring', s, d)
    BY <1>5 DEF Known
  <2>1. d # e.di \/ e.type = "raw"
    BY <1>10
  <2>2. held[d] # pressed[d] /\ d \notin lost
    BY <1>7, <1>10, <2>1
  <2>3. PICK s \in Slot : Pending(Ring, s, d)
    BY <1>5, <2>2 DEF IInv, Accounts, Known
  <2>4. s # tail
    BY <1>5, <2>1, <2>3 DEF Pending, e
  <2> QED BY <1>11, <2>3, <2>4
<1>16. Dated(Ring', since)
  BY <1>5, <1>11 DEF IInv, Accounts, Dated
<1>17. Accounts(Ring, pressed, held, since, next)'
  <2>1. pressed' = pressed /\ since' = since /\ next' = DI /\ now' = now
    BY <1>1
  <2> QED BY <1>13, <1>14, <1>15, <1>16, <2>1 DEF Accounts, News, Unique, Known, Dated, Pending, InRing
<1>18. SinceAgrees'
  <2> SUFFICES ASSUME NEW d \in Input, d \notin lost', held'[d]
               PROVE  heldSince'[d] = since[d]
    BY <1>1 DEF SinceAgrees
  <2>1. CASE d # e.di \/ e.type = "raw"
    BY <1>7, <1>10, <2>1 DEF IInv, SinceAgrees
  <2>2. CASE d = e.di /\ e.type # "raw"
    BY <1>3, <1>6, <1>10, <2>2
  <2> QED BY <2>1, <2>2
<1>19. \A d \in Input : since'[d] <= now'
  BY <1>1 DEF IInv
<1> QED BY <1>9, <1>17, <1>18, <1>19 DEF IInv

(* The next loop starts with an empty ring and nothing pending. *)
LEMMA LoopKeeps ==
  ASSUME IInv, NextLoop
  PROVE  IInv'
<1>1. /\ next = DI /\ tail = head /\ next' = 0 /\ now' = now + 1 /\ debounce' \in Debounces
      /\ UNCHANGED <<raw, changed, pressed, since, events, head, tail, held, heldSince, lost>>
  BY DEF NextLoop, inputVars, ringVars
<1>2. TypeOK'
  BY <1>1, InputsAssumption DEF IInv, TypeOK
<1>3. Ring' = Ring
  BY <1>1 DEF Ring
<1>4. \A s \in Slot : ~InRing(Ring, s)
  BY <1>1, EmptyRing DEF IInv
<1>5. Known(Ring, pressed, held)
  BY DEF IInv, Accounts
<1>6. Accounts(Ring, pressed, held, since, next)'
  BY <1>1, <1>3, <1>4, <1>5 DEF Accounts, News, Unique, Known, Dated, Pending, InRing
<1>7. SinceAgrees' /\ \A d \in Input : since'[d] <= now'
  BY <1>1 DEF IInv, TypeOK, SinceAgrees
<1> QED BY <1>2, <1>6, <1>7 DEF IInv

(* Every step keeps the inductive invariant. *)
LEMMA NextIInv == IInv /\ [Next]_vars => IInv'
<1> SUFFICES ASSUME IInv, [Next]_vars PROVE IInv'
  OBVIOUS
<1>1. CASE UNCHANGED vars
  BY <1>1 DEF vars, inputVars, ringVars, IInv, TypeOK, Ring, Accounts, News, Unique, Known, Dated,
     Pending, InRing, SinceAgrees
<1> QED BY <1>1, ScanKeeps, PopKeeps, LoopKeeps DEF Next

(* The state of the scanner, the ring and the buttons stays well formed.      *)
THEOREM InputsTypes == Spec => []TypeOK
<1>1. IInv => TypeOK BY DEF IInv
<1> QED BY InitIInv, NextIInv, <1>1, PTL DEF Spec

(* After every loop inputs.c and buttons.c agree on which inputs are held,    *)
(* but for those whose last event has been overwritten: for every ring and    *)
(* every debounce time, 0 included.                                           *)
THEOREM ButtonsAgree == Spec => []HeldAgrees
<1>1. ASSUME IInv PROVE HeldAgrees
  <2> SUFFICES ASSUME tail = head, NEW d \in Input, d \notin lost PROVE held[d] = pressed[d]
    BY DEF HeldAgrees
  <2>1. \A s \in Slot : ~InRing(Ring, s)
    BY <1>1, EmptyRing DEF IInv
  <2> QED BY <1>1, <2>1, RingIs DEF IInv, Accounts, Known, Pending
<1> QED BY InitIInv, NextIInv, <1>1, PTL DEF Spec

(* Presses and releases reach the buttons in turn, with the right duration,   *)
(* but for the first one after an overwritten one.                            *)
THEOREM EventsAlternate == Spec => PressesAlternate
<1> DEFINE InTurn ==
      Pop => LET e == events[tail]
             IN  /\ e.type = "press" => e.di \in lost \/ ~held[e.di]
                 /\ e.type = "release" =>
                      e.di \in lost \/ (held[e.di] /\ e.duration = now - heldSince[e.di])
<1>1. ASSUME IInv, Pop PROVE InTurn
  <2> DEFINE e == events[tail]
  <2>1. /\ e \in Event
        /\ e.type # "raw" => /\ e.type = "press" <=> pressed[e.di]
                             /\ e.di \notin lost => held[e.di] # pressed[e.di]
        /\ e.type = "release" => e.duration = now - since[e.di]
    BY <1>1, PopTells
  <2>2. e.di \in Input
    BY <2>1 DEF Event
  <2> HIDE DEF e
  <2>3. held[e.di] \in BOOLEAN /\ pressed[e.di] \in BOOLEAN
    BY <1>1, <2>2 DEF IInv, TypeOK
  <2>4. e.di \notin lost /\ held[e.di] => heldSince[e.di] = since[e.di]
    BY <1>1, <2>2 DEF IInv, SinceAgrees
  <2>5. e.type = "press" => e.di \in lost \/ ~held[e.di]
    BY <2>1, <2>3
  <2>6. e.type = "release" => e.di \in lost \/ (held[e.di] /\ e.duration = now - heldSince[e.di])
    BY <2>1, <2>3, <2>4
  <2> QED BY <2>5, <2>6 DEF e
<1>2. IInv => [InTurn]_vars
  BY <1>1
<1> QED BY InitIInv, NextIInv, <1>2, PTL DEF Spec, PressesAlternate

-------------------------------------------------------------------------------
(* With a debounce time the ring holds at most one event of every input       *)
(* already looked at; that leaves room for the next one.                      *)
HasRoom == debounce # 0 => Waiting(Ring) \in 0 .. next

(* With a debounce time an input that has just changed is not settled. *)
LEMMA FlipIsNotSettled ==
  ASSUME TypeOK, debounce # 0, NEW d \in Input, NEW active \in BOOLEAN
  PROVE  ~Settled(d, active, now)
BY InputsAssumption, SMT DEF Settled, TypeOK

LEMMA ScanHasRoom ==
  ASSUME DI < QLen, IInv, HasRoom, NEW active \in BOOLEAN, ScanInput(active), debounce # 0
  PROVE  HasRoom' /\ lost' = lost
<1> DEFINE d == next
           flips == raw[d] # active
           at == IF flips THEN now ELSE changed[d]
           turns == Settled(d, active, at)
           change == [type |-> "raw", di |-> d, duration |-> 0]
           turn == [type |-> IF active THEN "press" ELSE "release", di |-> d,
                    duration |-> IF active THEN 0 ELSE now - since[d]]
           told == IF flips THEN push_event(Ring, change) ELSE Ring
           ring == IF turns THEN push_event(told, turn) ELSE told
<1>1. d \in Input /\ next' = next + 1 /\ next < DI /\ next \in Nat
  BY InputsAssumption DEF ScanInput, IInv, TypeOK, Input
<1>2. /\ events' = ring.events /\ head' = ring.head /\ tail' = ring.tail /\ lost' = ring.lost
      /\ debounce' = debounce
  BY DEF ScanInput
<1>3. flips => ~turns
  BY <1>1, FlipIsNotSettled DEF IInv
<1>4. change \in Event /\ turn \in Event
  <2>1. since[d] \in Nat /\ now \in Nat /\ since[d] <= now
    BY <1>1 DEF IInv, TypeOK
  <2> QED BY <1>1, <2>1 DEF Event
<1> HIDE DEF change, turn, flips, turns
<1>5. Ring \in RingType /\ Waiting(Ring) \in 0 .. next /\ Waiting(Ring) < QLen - 1
  <2>1. Waiting(Ring) \in 0 .. next
    BY DEF HasRoom
  <2> QED BY <1>1, <2>1, RingIs, InputsAssumption DEF IInv
<1>6. ASSUME NEW e \in Event
      PROVE  Waiting(push_event(Ring, e)) = Waiting(Ring) + 1 /\ push_event(Ring, e).lost = lost
  BY <1>5, PushAddsOne, RingIs
<1>7. ring = Ring \/ ring = push_event(Ring, change) \/ ring = push_event(Ring, turn)
  BY <1>3
<1> HIDE DEF ring
<1>8. (Waiting(ring) = Waiting(Ring) \/ Waiting(ring) = Waiting(Ring) + 1) /\ ring.lost = lost
  BY <1>4, <1>6, <1>7, RingIs
<1>9. Waiting(Ring') = Waiting(ring)
  BY <1>2 DEF Waiting, Ring
<1>10. Waiting(Ring') \in 0 .. next + 1
  BY <1>1, <1>5, <1>8, <1>9
<1> QED BY <1>1, <1>2, <1>8, <1>10 DEF HasRoom

LEMMA NextHasRoom ==
  ASSUME DI < QLen, IInv, HasRoom, [Next]_vars
  PROVE  HasRoom' /\ (debounce # 0 => lost' \subseteq lost)
<1>1. ASSUME NEW active \in BOOLEAN, ScanInput(active)
      PROVE  HasRoom' /\ (debounce # 0 => lost' \subseteq lost)
  <2>1. debounce' = debounce
    BY <1>1 DEF ScanInput
  <2> QED BY <1>1, <2>1, ScanHasRoom DEF HasRoom
<1>2. CASE Pop
  <2>1. /\ tail # head /\ tail' = After(tail) /\ head' = head /\ next' = next
        /\ debounce' = debounce /\ lost' \subseteq lost /\ next \in Nat
    BY <1>2, InputsAssumption DEF Pop, IInv, TypeOK
  <2>2. Waiting(Ring) \in Nat /\ Waiting(Ring') = Waiting(Ring) - 1 /\ Waiting(Ring) # 0
    BY <2>1, PopRemovesOne DEF IInv
  <2>3. debounce # 0 => Waiting(Ring') \in 0 .. next
    BY <2>1, <2>2 DEF HasRoom
  <2> QED BY <2>1, <2>3 DEF HasRoom
<1>3. CASE NextLoop
  <2>1. tail = head /\ head' = head /\ tail' = tail /\ lost' = lost /\ next' = 0
    BY <1>3 DEF NextLoop, ringVars
  <2>2. Waiting(Ring') = Waiting(Ring)
    BY <2>1 DEF Waiting, Ring
  <2>3. Waiting(Ring') = 0
    BY <2>1, <2>2, EmptyRing DEF IInv
  <2>4. Waiting(Ring') \in 0 .. next'
    BY <2>1, <2>3
  <2> QED BY <2>1, <2>4 DEF HasRoom
<1>4. CASE UNCHANGED vars
  BY <1>4 DEF vars, ringVars, HasRoom, Waiting, Ring
<1> QED BY <1>1, <1>2, <1>3, <1>4 DEF Next

(* With debouncing on no press or release is overwritten before the buttons   *)
(* have seen it, if the ring has more slots than there are inputs.            *)
THEOREM NoEventIsLost == DI < QLen => (Spec => NothingLost)
<1> SUFFICES ASSUME DI < QLen PROVE Spec => NothingLost
  OBVIOUS
<1>1. Init => HasRoom
  <2> SUFFICES ASSUME Init PROVE HasRoom
    OBVIOUS
  <2>1. TypeOK /\ head = tail /\ next = 0
    BY InitIInv DEF IInv, Init
  <2>2. Waiting(Ring) = 0
    BY <2>1, EmptyRing
  <2> QED BY <2>1, <2>2 DEF HasRoom
<1>2. IInv /\ HasRoom /\ [Next]_vars => HasRoom'
  BY NextHasRoom
<1>3. IInv /\ HasRoom /\ [Next]_vars => [debounce # 0 => lost' \subseteq lost]_vars
  BY NextHasRoom
<1> QED BY InitIInv, NextIInv, <1>1, <1>2, <1>3, PTL DEF Spec, NothingLost
===============================================================================
