---------------------------- MODULE EventsProofs ----------------------------
(***************************************************************************)
(* The theorems about Events.tla: the list of events stays in order and    *)
(* whole whatever a handler does to it, the clocks and the forced updates  *)
(* never go back, and every way out of the loop is taken in time.          *)
(***************************************************************************)
EXTENDS Events, SequenceTheorems, WellFoundedInduction, TLAPS

----------------------------------------------------------------------------
(* Time *)

LEMMA Times ==
  /\ LastTime \in Nat /\ LastTime > 0 /\ DISABLED \in Nat
  /\ DISABLED = 1000 * LastTime /\ LastTime + 1 < DISABLED
  /\ FrameTime \in Nat /\ FrameTime <= LastTime
  /\ \A t : t \in Time <=> t \in Nat /\ t <= DISABLED
  BY EventsAssumption, SMT DEF LastTime, DISABLED, Time

LEMMA Events5 ==
  /\ Event = {"SDMA", "SMPC", "VDP1", "VDP2", "MIDSYNC"}
  /\ Len(Enum) = 5 /\ Device \subseteq Event
  /\ "MIDSYNC" \notin Device /\ "SDMA" \notin Device
<1>1. DOMAIN Enum = 1 .. 5 /\ Len(Enum) = 5 BY DEF Enum
<1>2. \A e : e \in Event <=> \E i \in 1 .. 5 : e = Enum[i] BY <1>1 DEF Event, ToSet
<1>3. \A i \in 1 .. 5 : i = 1 \/ i = 2 \/ i = 3 \/ i = 4 \/ i = 5 BY SMT
<1>4. /\ Enum[1] = "SDMA" /\ Enum[2] = "SMPC" /\ Enum[3] = "VDP1"
      /\ Enum[4] = "VDP2" /\ Enum[5] = "MIDSYNC"
  BY DEF Enum
<1>5. 1 \in 1 .. 5 /\ 2 \in 1 .. 5 /\ 3 \in 1 .. 5 /\ 4 \in 1 .. 5 /\ 5 \in 1 .. 5 BY SMT
<1>6. \A e : e \in Event <=> e \in {"SDMA", "SMPC", "VDP1", "VDP2", "MIDSYNC"}
  BY <1>2, <1>3, <1>4, <1>5
<1> QED BY <1>1, <1>6 DEF Device

----------------------------------------------------------------------------
(* Bounds of sets of places in the list *)

LEMMA LeastIs ==
  ASSUME NEW B \in SUBSET Nat, B # {}
  PROVE  Min(B) \in B /\ \A y \in B : Min(B) <= y
<1>1. PICK x \in B : \A y \in B : ~(<<y, x>> \in OpToRel(<, Nat))
  BY WFMin, NatLessThanWellFounded
<1>2. ASSUME NEW y \in B PROVE x <= y
  <2>1. <<y, x>> \in Nat \X Nat /\ <<y, x>>[1] = y /\ <<y, x>>[2] = x OBVIOUS
  <2>2. y < x => <<y, x>> \in OpToRel(<, Nat) BY <2>1, Zenon DEF OpToRel
  <2>3. ~(y < x) BY <1>1, <2>2
  <2> QED BY <2>1, <2>3
<1> QED BY <1>2 DEF Min

LEMMA GreatestIs ==
  ASSUME NEW n \in Nat, NEW B \in SUBSET (0 .. n), B # {}
  PROVE  Max(B) \in B /\ \A y \in B : y <= Max(B)
<1> DEFINE C == {n - y : y \in B}
<1>0. \A y \in B : y \in Nat /\ n - y \in Nat OBVIOUS
<1>1. C \in SUBSET Nat /\ C # {} BY <1>0
<1>2. Min(C) \in C /\ \A y \in C : Min(C) <= y BY <1>1, LeastIs
<1>3. PICK x \in B : Min(C) = n - x BY <1>2
<1>4. ASSUME NEW y \in B PROVE x >= y
  <2>1. n - y \in C OBVIOUS
  <2>2. n - x <= n - y BY <1>2, <1>3, <2>1
  <2>3. x \in Nat /\ y \in Nat BY SMT
  <2> QED BY <2>2, <2>3, SMT
<1>5. Max(B) \in B /\ \A y \in B : Max(B) >= y BY <1>4, Zenon DEF Max
<1> QED BY <1>5, SMT

----------------------------------------------------------------------------
(* The list *)

\* r is q with e put in at i.
Inserted(r, q, i, e) ==
  /\ Len(r) = Len(q) + 1
  /\ \A j \in 1 .. i - 1 : r[j] = q[j]
  /\ r[i] = e
  /\ \A j \in i + 1 .. Len(q) + 1 : r[j] = q[j - 1]

LEMMA InsertAtIs ==
  ASSUME NEW T, NEW q \in Seq(T), NEW e \in T, NEW i \in 1 .. Len(q) + 1
  PROVE  /\ InsertAt(q, i, e) \in Seq(T)
         /\ Inserted(InsertAt(q, i, e), q, i, e)
<1> DEFINE a == SubSeq(q, 1, i - 1)
           c == SubSeq(q, i, Len(q))
           ab == a \o <<e>>
<1>0. Len(q) \in Nat /\ \A j \in 1 .. Len(q) : q[j] \in T BY LenProperties, ElementOfSeq
<1>1. /\ a \in Seq(T) /\ Len(a) = i - 1
      /\ \A j \in 1 .. i - 1 : a[j] = q[j]
  <2>1. \A j \in 1 .. i - 1 : q[j] \in T BY <1>0
  <2>2. /\ a \in Seq(T) /\ Len(a) = IF 1 <= i - 1 THEN (i - 1) - 1 + 1 ELSE 0
        /\ \A j \in 1 .. (i - 1) - 1 + 1 : a[j] = q[1 + j - 1]
    <3>1. 1 \in Int /\ i - 1 \in Int BY <1>0
    <3> QED BY <2>1, <3>1, SubSeqProperties
  <2> HIDE DEF a
  <2> QED BY <1>0, <2>2, SMT
<1>2. /\ c \in Seq(T) /\ Len(c) = Len(q) - i + 1
      /\ \A j \in 1 .. Len(q) - i + 1 : c[j] = q[i + j - 1]
  <2>1. \A j \in i .. Len(q) : q[j] \in T BY <1>0
  <2>2. /\ c \in Seq(T) /\ Len(c) = IF i <= Len(q) THEN Len(q) - i + 1 ELSE 0
        /\ \A j \in 1 .. Len(q) - i + 1 : c[j] = q[i + j - 1]
    <3>1. i \in Int /\ Len(q) \in Int BY <1>0
    <3> QED BY <2>1, <3>1, SubSeqProperties
  <2> HIDE DEF c
  <2> QED BY <1>0, <2>2, SMT
<1>3. <<e>> \in Seq(T) /\ Len(<<e>>) = 1 /\ <<e>>[1] = e OBVIOUS
<1> HIDE DEF a, c
<1>4. /\ ab \in Seq(T) /\ Len(ab) = i
      /\ \A j \in 1 .. i : ab[j] = IF j <= i - 1 THEN a[j] ELSE <<e>>[j - (i - 1)]
  <2>1. /\ ab \in Seq(T) /\ Len(ab) = Len(a) + Len(<<e>>)
        /\ \A j \in 1 .. Len(a) + Len(<<e>>) :
             ab[j] = IF j <= Len(a) THEN a[j] ELSE <<e>>[j - Len(a)]
    BY <1>1, <1>3, ConcatProperties, Zenon
  <2>2. Len(a) + Len(<<e>>) = i BY <1>0, <1>1, <1>3
  <2> QED BY <1>1, <2>1, <2>2
<1> HIDE DEF ab
<1>5. /\ ab \o c \in Seq(T) /\ Len(ab \o c) = Len(ab) + Len(c)
      /\ \A j \in 1 .. Len(ab) + Len(c) :
           (ab \o c)[j] = IF j <= Len(ab) THEN ab[j] ELSE c[j - Len(ab)]
  BY <1>2, <1>4, ConcatProperties, Zenon
<1>6. InsertAt(q, i, e) = ab \o c BY DEF InsertAt, ab, a, c
<1>7. Len(ab) + Len(c) = Len(q) + 1 BY <1>0, <1>2, <1>4
<1>8. ASSUME NEW j \in 1 .. Len(q) + 1
      PROVE  (ab \o c)[j] = IF j < i THEN q[j] ELSE IF j = i THEN e ELSE q[j - 1]
  <2>1. (ab \o c)[j] = IF j <= i THEN ab[j] ELSE c[j - i] BY <1>4, <1>5, <1>7
  <2>2. CASE j < i
    <3>1. j \in 1 .. i /\ j <= i - 1 /\ j \in 1 .. i - 1 BY <1>0, <2>2
    <3> QED BY <1>1, <1>4, <2>1, <2>2, <3>1
  <2>3. CASE j = i
    <3>1. j \in 1 .. i /\ ~(j <= i - 1) /\ j - (i - 1) = 1 BY <1>0, <2>3
    <3>2. ab[j] = e BY <1>3, <1>4, <3>1
    <3> QED BY <2>1, <2>3, <3>1, <3>2, <1>0, SMT
  <2>4. CASE j > i
    <3>1. j - i \in 1 .. Len(q) - i + 1 /\ i + (j - i) - 1 = j - 1 BY <1>0, <2>4
    <3>2. c[j - i] = q[j - 1] BY <1>2, <3>1
    <3> QED BY <1>0, <2>1, <2>4, <3>2, SMT
  <2>5. j < i \/ j = i \/ j > i BY <1>0
  <2> QED BY <2>2, <2>3, <2>4, <2>5, Zenon
<1>9. /\ \A j \in 1 .. i - 1 : (ab \o c)[j] = q[j]
      /\ (ab \o c)[i] = e
      /\ \A j \in i + 1 .. Len(q) + 1 : (ab \o c)[j] = q[j - 1]
  <2>1. \A j \in 1 .. i - 1 : j \in 1 .. Len(q) + 1 /\ j < i BY <1>0
  <2>2. \A j \in i + 1 .. Len(q) + 1 : j \in 1 .. Len(q) + 1 /\ ~(j < i) /\ ~(j = i) BY <1>0
  <2>3. i \in 1 .. Len(q) + 1 /\ ~(i < i) BY <1>0
  <2> QED BY <1>8, <2>1, <2>2, <2>3, Zenon
<1>10. Inserted(ab \o c, q, i, e) BY <1>5, <1>7, <1>9, Zenon DEF Inserted
<1> QED BY <1>5, <1>6, <1>10, Zenon

LEMMA RemoveAtIs ==
  ASSUME NEW T, NEW q \in Seq(T), NEW i \in 1 .. Len(q)
  PROVE  /\ RemoveAt(q, i) \in Seq(T)
         /\ Len(RemoveAt(q, i)) = Len(q) - 1
         /\ \A j \in 1 .. Len(q) - 1 :
              RemoveAt(q, i)[j] = IF j < i THEN q[j] ELSE q[j + 1]
<1> DEFINE a == SubSeq(q, 1, i - 1)
           c == SubSeq(q, i + 1, Len(q))
<1>0. Len(q) \in Nat /\ \A j \in 1 .. Len(q) : q[j] \in T BY LenProperties, ElementOfSeq
<1>1. /\ a \in Seq(T) /\ Len(a) = i - 1
      /\ \A j \in 1 .. i - 1 : a[j] = q[j]
  <2>1. \A j \in 1 .. i - 1 : q[j] \in T BY <1>0
  <2>2. /\ a \in Seq(T) /\ Len(a) = IF 1 <= i - 1 THEN (i - 1) - 1 + 1 ELSE 0
        /\ \A j \in 1 .. (i - 1) - 1 + 1 : a[j] = q[1 + j - 1]
    <3>1. 1 \in Int /\ i - 1 \in Int BY <1>0
    <3> QED BY <2>1, <3>1, SubSeqProperties
  <2> HIDE DEF a
  <2> QED BY <1>0, <2>2, SMT
<1>2. /\ c \in Seq(T) /\ Len(c) = Len(q) - i
      /\ \A j \in 1 .. Len(q) - i : c[j] = q[i + j]
  <2>1. \A j \in i + 1 .. Len(q) : q[j] \in T BY <1>0
  <2>2. /\ c \in Seq(T) /\ Len(c) = IF i + 1 <= Len(q) THEN Len(q) - (i + 1) + 1 ELSE 0
        /\ \A j \in 1 .. Len(q) - (i + 1) + 1 : c[j] = q[(i + 1) + j - 1]
    <3>1. i + 1 \in Int /\ Len(q) \in Int BY <1>0
    <3> QED BY <2>1, <3>1, SubSeqProperties
  <2> HIDE DEF c
  <2>3. \A j \in 1 .. Len(q) - i : j \in 1 .. Len(q) - (i + 1) + 1 /\ (i + 1) + j - 1 = i + j
    BY <1>0
  <2> QED BY <1>0, <2>2, <2>3, SMT
<1> HIDE DEF a, c
<1>3. /\ a \o c \in Seq(T) /\ Len(a \o c) = Len(a) + Len(c)
      /\ \A j \in 1 .. Len(a) + Len(c) :
           (a \o c)[j] = IF j <= Len(a) THEN a[j] ELSE c[j - Len(a)]
  BY <1>1, <1>2, ConcatProperties, Zenon
<1>4. RemoveAt(q, i) = a \o c BY DEF RemoveAt, a, c
<1>5. Len(a) + Len(c) = Len(q) - 1 BY <1>0, <1>1, <1>2
<1>6. ASSUME NEW j \in 1 .. Len(q) - 1
      PROVE  (a \o c)[j] = IF j < i THEN q[j] ELSE q[j + 1]
  <2>1. (a \o c)[j] = IF j <= i - 1 THEN a[j] ELSE c[j - (i - 1)] BY <1>1, <1>3, <1>5
  <2>2. CASE j < i
    <3>1. j <= i - 1 /\ j \in 1 .. i - 1 BY <1>0, <2>2
    <3> QED BY <1>1, <2>1, <2>2, <3>1
  <2>3. CASE ~(j < i)
    <3>1. ~(j <= i - 1) /\ j - (i - 1) \in 1 .. Len(q) - i /\ i + (j - (i - 1)) = j + 1
      BY <1>0, <2>3
    <3>2. c[j - (i - 1)] = q[j + 1] BY <1>2, <3>1
    <3> QED BY <2>1, <2>3, <3>1, <3>2
  <2> QED BY <2>2, <2>3
<1> QED BY <1>3, <1>4, <1>5, <1>6

\* The list holds every event once.
Whole(q) ==
  /\ q \in Seq(Event) /\ Len(q) = 5 /\ IsInjective(q)
  /\ \A e \in Event : \E i \in 1 .. 5 : q[i] = e

InOrderOf(q, time) == \A i, j \in 1 .. 5 : i < j => time[q[i]] <= time[q[j]]

LEMMA WholeIs ==
  ASSUME NEW q, Whole(q)
  PROVE  /\ DOMAIN q = 1 .. 5
         /\ \A i \in 1 .. 5 : q[i] \in Event
         /\ \A i, j \in 1 .. 5 : q[i] = q[j] => i = j
<1>1. q \in Seq(Event) /\ Len(q) = 5 BY DEF Whole
<1>2. DOMAIN q = 1 .. 5 BY <1>1, LenProperties
<1>3. \A i \in 1 .. 5 : q[i] \in Event BY <1>1, ElementOfSeq
<1> QED BY <1>2, <1>3 DEF Whole, IsInjective

\* r is q with the event at p moved to k.
MovedTo(r, q, p, k) ==
  /\ r[k] = q[p]
  /\ \A j \in 1 .. 5 : j < k /\ j < p => r[j] = q[j]
  /\ \A j \in 1 .. 5 : j < k /\ j >= p => r[j] = q[j + 1]
  /\ \A j \in 1 .. 5 : j > k /\ j <= p => r[j] = q[j - 1]
  /\ \A j \in 1 .. 5 : j > k /\ j > p => r[j] = q[j]

LEMMA Moved ==
  ASSUME NEW q, Whole(q), NEW p \in 1 .. 5, NEW k \in 1 .. 5,
         NEW e, e = q[p],
         NEW r, r = InsertAt(RemoveAt(q, p), k, e)
  PROVE  Whole(r) /\ MovedTo(r, q, p, k)
<1> DEFINE x == RemoveAt(q, p)
<1>1. q \in Seq(Event) /\ Len(q) = 5 BY DEF Whole
<1>2. e \in Event BY WholeIs
<1>3. x \in Seq(Event) /\ Len(x) = 4
      /\ \A j \in 1 .. 4 : x[j] = IF j < p THEN q[j] ELSE q[j + 1]
  <2>1. p \in 1 .. Len(q) /\ Len(q) - 1 = 4 BY <1>1
  <2> HIDE DEF x
  <2>2. /\ x \in Seq(Event) /\ Len(x) = Len(q) - 1
        /\ \A j \in 1 .. Len(q) - 1 : x[j] = IF j < p THEN q[j] ELSE q[j + 1]
    BY <1>1, <2>1, RemoveAtIs, Zenon DEF x
  <2> QED BY <2>1, <2>2
<1> HIDE DEF x
<1>4. /\ r \in Seq(Event) /\ Len(r) = 5
      /\ \A j \in 1 .. 5 : j < k => r[j] = x[j]
      /\ r[k] = e
      /\ \A j \in 1 .. 5 : j > k => r[j] = x[j - 1]
  <2>1. k \in 1 .. Len(x) + 1 /\ Len(x) + 1 = 5 BY <1>3
  <2>2. r = InsertAt(x, k, e) BY DEF x
  <2>3. r \in Seq(Event) /\ Inserted(r, x, k, e)
    BY <1>2, <1>3, <2>1, <2>2, InsertAtIs, Zenon
  <2> QED BY <2>1, <2>3 DEF Inserted
<1>5. r[k] = e BY <1>4
<1>6. /\ \A j \in 1 .. 5 : j < k /\ j < p => r[j] = q[j]
      /\ \A j \in 1 .. 5 : j < k /\ j >= p => r[j] = q[j + 1]
  <2>1. \A j \in 1 .. 5 : j < k => j \in 1 .. 4 OBVIOUS
  <2> QED BY <1>3, <1>4, <2>1
<1>7. /\ \A j \in 1 .. 5 : j > k /\ j <= p => r[j] = q[j - 1]
      /\ \A j \in 1 .. 5 : j > k /\ j > p => r[j] = q[j]
  <2>1. \A j \in 1 .. 5 : j > k =>
          j - 1 \in 1 .. 4 /\ (j - 1) + 1 = j /\ (j <= p <=> j - 1 < p)
    OBVIOUS
  <2> QED BY <1>3, <1>4, <2>1
<1>8. \A i, j \in 1 .. 5 : q[i] = q[j] => i = j BY WholeIs
<1>9. IsInjective(r)
  <2>1. DOMAIN r = 1 .. 5 BY <1>4, LenProperties
  <2> SUFFICES ASSUME NEW i \in 1 .. 5, NEW j \in 1 .. 5, r[i] = r[j] PROVE i = j
    BY <2>1 DEF IsInjective
  <2> QED BY <1>5, <1>6, <1>7, <1>8, SMT
<1>10. ASSUME NEW f \in Event PROVE \E i \in 1 .. 5 : r[i] = f
  <2>1. PICK i \in 1 .. 5 : q[i] = f BY DEF Whole
  <2>2. CASE i = p BY <1>5, <2>1, <2>2
  <2>3. CASE i < p /\ i < k BY <1>6, <2>1, <2>3
  <2>4. CASE i < p /\ i >= k
    <3>1. i + 1 \in 1 .. 5 /\ i + 1 > k /\ i + 1 <= p /\ (i + 1) - 1 = i BY <2>4
    <3>2. r[i + 1] = q[i] BY <1>7, <3>1
    <3> QED BY <2>1, <3>1, <3>2
  <2>5. CASE i > p /\ i <= k
    <3>1. i - 1 \in 1 .. 5 /\ i - 1 < k /\ (i - 1) + 1 = i /\ i - 1 >= p BY <2>5
    <3>2. r[i - 1] = q[i] BY <1>6, <3>1
    <3> QED BY <2>1, <3>1, <3>2
  <2>6. CASE i > p /\ i > k BY <1>7, <2>1, <2>6
  <2> QED BY <2>2, <2>3, <2>4, <2>5, <2>6
<1> QED BY <1>4, <1>5, <1>6, <1>7, <1>9, <1>10 DEF Whole, MovedTo

\* The walk back finds the place behind the last event that is not later.
LEMMA EarlierIs ==
  ASSUME NEW S, Whole(S.queue), NEW e \in Event, NEW nt \in Nat,
         S.time \in [Event -> Nat], InOrderOf(S.queue, S.time), nt < S.time[e]
  PROVE  /\ Whole(Earlier(S, e, nt))
         /\ InOrderOf(Earlier(S, e, nt), [S.time EXCEPT ![e] = nt])
<1> DEFINE q == S.queue
           p == CHOOSE i \in DOMAIN q : q[i] = e
           B == {0} \cup {i \in 1 .. p - 1 : S.time[q[i]] <= nt}
           b == Max(B)
           r == Earlier(S, e, nt)
<1>1. /\ DOMAIN q = 1 .. 5 /\ \A i \in 1 .. 5 : q[i] \in Event
      /\ \A i, j \in 1 .. 5 : q[i] = q[j] => i = j
  BY WholeIs
<1>2. p \in 1 .. 5 /\ q[p] = e
  <2>1. \E i \in DOMAIN q : q[i] = e BY <1>1 DEF Whole
  <2> QED BY <1>1, <2>1
<1>3. r = InsertAt(RemoveAt(q, p), b + 1, e) BY DEF Earlier
<1> HIDE DEF p, r
<1>4. b \in B /\ \A y \in B : y <= b
  <2>1. B \in SUBSET (0 .. 5) /\ B # {} BY <1>2, SMT
  <2> HIDE DEF B
  <2> QED BY <2>1, GreatestIs
<1>5. /\ b \in 0 .. p - 1
      /\ b > 0 => S.time[q[b]] <= nt
      /\ \A i \in 1 .. p - 1 : i > b => S.time[q[i]] > nt
  <2> HIDE DEF b
  <2>1. \A i \in 1 .. p - 1 : S.time[q[i]] \in Nat BY <1>1, <1>2
  <2> QED BY <1>2, <1>4, <2>1, SMT
<1> HIDE DEF b
<1>6. /\ Whole(r) /\ r[b + 1] = e
      /\ \A j \in 1 .. 5 : j < b + 1 /\ j < p => r[j] = q[j]
      /\ \A j \in 1 .. 5 : j > b + 1 /\ j <= p => r[j] = q[j - 1]
      /\ \A j \in 1 .. 5 : j > b + 1 /\ j > p => r[j] = q[j]
  <2>1. b + 1 \in 1 .. 5 BY <1>2, <1>5
  <2>2. Whole(q) OBVIOUS
  <2> HIDE DEF q
  <2>3. Whole(r) /\ MovedTo(r, q, p, b + 1)
    BY <1>2, <1>3, <2>1, <2>2, Moved, Zenon
  <2> QED BY <1>2, <2>3 DEF MovedTo
<1> DEFINE t2 == [S.time EXCEPT ![e] = nt]
<1>7. t2[e] = nt /\ \A i \in 1 .. 5 : i # p => t2[q[i]] = S.time[q[i]]
  BY <1>1, <1>2
<1>8. \A i \in 1 .. 5 : S.time[q[i]] \in Nat BY <1>1
<1>9. \A i, j \in 1 .. 5 : i < j => S.time[q[i]] <= S.time[q[j]] BY DEF InOrderOf
<1>10. \A i \in 1 .. b : S.time[q[i]] <= nt
  <2> TAKE i \in 1 .. b
  <2>1. i \in 1 .. 5 /\ b \in 1 .. 5 BY <1>2, <1>5
  <2>2. i = b \/ i < b BY <2>1
  <2>3. i < b => S.time[q[i]] <= S.time[q[b]] BY <1>9, <2>1
  <2> QED BY <1>5, <1>8, <2>1, <2>2, <2>3
<1> HIDE DEF t2, q
<1>11. ASSUME NEW i \in 1 .. 5, NEW j \in 1 .. 5, i < j
       PROVE  t2[r[i]] <= t2[r[j]]
  <2>1. \A k \in 1 .. 5 : k < b + 1 => r[k] = q[k] /\ k # p BY <1>2, <1>5, <1>6
  <2>2. \A k \in 1 .. 5 : k > b + 1 => r[k] = IF k - 1 < p THEN q[k - 1] ELSE q[k] BY <1>2, <1>6
  <2>3. CASE j < b + 1
    <3>1. i < b + 1 BY <1>2, <1>5, <1>11, <2>3
    <3>2. t2[r[i]] = S.time[q[i]] /\ t2[r[j]] = S.time[q[j]] BY <1>7, <2>1, <2>3, <3>1
    <3> QED BY <1>9, <1>11, <3>2
  <2>4. CASE j = b + 1
    <3>1. i < b + 1 /\ i \in 1 .. b BY <1>2, <1>5, <1>11, <2>4
    <3>2. t2[r[i]] = S.time[q[i]] BY <1>7, <2>1, <3>1
    <3> QED BY <1>6, <1>7, <1>10, <2>4, <3>1, <3>2
  <2>5. CASE j > b + 1 /\ i < b + 1
    <3>1. t2[r[i]] = S.time[q[i]] BY <1>7, <2>1, <2>5
    <3>2. CASE j - 1 < p
      <4>1. j - 1 \in 1 .. 5 /\ i < j - 1 /\ j - 1 # p BY <1>2, <1>5, <2>5, <3>2
      <4>2. t2[r[j]] = S.time[q[j - 1]] BY <1>7, <2>2, <2>5, <3>2, <4>1
      <4> QED BY <1>9, <3>1, <4>1, <4>2
    <3>3. CASE ~(j - 1 < p)
      <4>1. j # p BY <1>2, <3>3
      <4>2. t2[r[j]] = S.time[q[j]] BY <1>7, <2>2, <2>5, <3>3, <4>1
      <4> QED BY <1>9, <1>11, <3>1, <4>2
    <3> QED BY <3>2, <3>3
  <2>6. CASE j > b + 1 /\ i = b + 1
    <3>0. t2[r[i]] = nt BY <1>6, <1>7, <2>6
    <3>1. CASE j - 1 < p
      <4>1. j - 1 \in 1 .. p - 1 /\ j - 1 \in 1 .. 5 /\ j - 1 > b /\ j - 1 # p BY <1>2, <1>5, <2>6, <3>1
      <4>2. t2[r[j]] = S.time[q[j - 1]] BY <1>7, <2>2, <2>6, <3>1, <4>1
      <4>3. S.time[q[j - 1]] > nt BY <1>5, <4>1 DEF q
      <4> QED BY <1>8, <3>0, <4>1, <4>2, <4>3
    <3>2. CASE ~(j - 1 < p)
      <4>1. j # p /\ p < j BY <1>2, <3>2
      <4>2. t2[r[j]] = S.time[q[j]] BY <1>7, <2>2, <2>6, <3>2, <4>1
      <4>3. S.time[e] <= S.time[q[j]] BY <1>2, <1>9, <4>1
      <4> QED BY <1>8, <3>0, <4>2, <4>3
    <3> QED BY <3>1, <3>2
  <2>7. CASE j > b + 1 /\ i > b + 1
    <3> DEFINE ii == IF i - 1 < p THEN i - 1 ELSE i
               jj == IF j - 1 < p THEN j - 1 ELSE j
    <3>1. ii \in 1 .. 5 /\ jj \in 1 .. 5 /\ ii < jj /\ ii # p /\ jj # p
      BY <1>2, <1>5, <1>11, <2>7, SMT
    <3>2. r[i] = q[ii] /\ r[j] = q[jj] BY <2>2, <2>7
    <3> HIDE DEF ii, jj
    <3>3. t2[r[i]] = S.time[q[ii]] /\ t2[r[j]] = S.time[q[jj]] BY <1>7, <3>1, <3>2
    <3> QED BY <1>9, <3>1, <3>3
  <2> QED BY <1>2, <1>5, <2>3, <2>4, <2>5, <2>6, <2>7, SMT
<1> QED BY <1>6, <1>11 DEF InOrderOf, r, t2

\* The walk on finds the place before the first event that is not earlier.
LEMMA LaterIs ==
  ASSUME NEW S, Whole(S.queue), NEW e \in Event, NEW nt \in Nat,
         S.time \in [Event -> Nat], InOrderOf(S.queue, S.time), nt > S.time[e]
  PROVE  /\ Whole(Later(S, e, nt))
         /\ InOrderOf(Later(S, e, nt), [S.time EXCEPT ![e] = nt])
<1> DEFINE q == S.queue
           p == CHOOSE i \in DOMAIN q : q[i] = e
           B == {5 + 1} \cup {i \in p + 1 .. 5 : S.time[q[i]] >= nt}
           m == Min(B)
           r == Later(S, e, nt)
<1>1. /\ DOMAIN q = 1 .. 5 /\ \A i \in 1 .. 5 : q[i] \in Event
      /\ \A i, j \in 1 .. 5 : q[i] = q[j] => i = j
  BY WholeIs
<1>2. p \in 1 .. 5 /\ q[p] = e
  <2>1. \E i \in DOMAIN q : q[i] = e BY <1>1 DEF Whole
  <2> QED BY <1>1, <2>1
<1>3. r = InsertAt(RemoveAt(q, p), m - 1, e)
  <2>1. Len(S.queue) = 5 BY DEF Whole
  <2> QED BY <2>1 DEF Later
<1> HIDE DEF p, r
<1>4. m \in B /\ \A y \in B : m <= y
  <2>1. B \in SUBSET Nat /\ B # {} BY <1>2, SMT
  <2> HIDE DEF B
  <2> QED BY <2>1, LeastIs
<1>5. /\ m \in p + 1 .. 6
      /\ m <= 5 => S.time[q[m]] >= nt
      /\ \A i \in p + 1 .. 5 : i < m => S.time[q[i]] < nt
  <2> HIDE DEF m
  <2>1. \A i \in p + 1 .. 5 : S.time[q[i]] \in Nat BY <1>1, <1>2
  <2> QED BY <1>2, <1>4, <2>1, SMT
<1> HIDE DEF m
<1> DEFINE k == m - 1
<1>6. /\ Whole(r) /\ r[k] = e
      /\ \A j \in 1 .. 5 : j < k /\ j < p => r[j] = q[j]
      /\ \A j \in 1 .. 5 : j < k /\ j >= p => r[j] = q[j + 1]
      /\ \A j \in 1 .. 5 : j > k => r[j] = q[j]
  <2>1. k \in 1 .. 5 BY <1>2, <1>5
  <2>2. Whole(q) OBVIOUS
  <2> HIDE DEF q
  <2>3. Whole(r) /\ MovedTo(r, q, p, k)
    BY <1>2, <1>3, <2>1, <2>2, Moved, Zenon
  <2>4. \A j \in 1 .. 5 : j > k => j > p BY <1>2, <1>5
  <2> QED BY <1>2, <2>3, <2>4 DEF MovedTo
<1>7. k \in p .. 5 /\ k \in 1 .. 5 BY <1>2, <1>5
<1>8. /\ k < 5 => S.time[q[k + 1]] >= nt
      /\ \A i \in p .. 4 : i < k => S.time[q[i + 1]] < nt
  <2>1. k + 1 = m /\ m \in Nat BY <1>2, <1>5
  <2>2. \A i \in p .. 4 : i < k => i + 1 \in p + 1 .. 5 /\ i + 1 < m BY <1>2, <1>5
  <2> QED BY <1>5, <2>1, <2>2
<1> DEFINE t2 == [S.time EXCEPT ![e] = nt]
<1>9. t2[e] = nt /\ \A i \in 1 .. 5 : i # p => t2[q[i]] = S.time[q[i]]
  BY <1>1, <1>2
<1>10. \A i \in 1 .. 5 : S.time[q[i]] \in Nat BY <1>1
<1>11. \A i, j \in 1 .. 5 : i < j => S.time[q[i]] <= S.time[q[j]] BY DEF InOrderOf
<1>12. S.time[e] \in Nat OBVIOUS
<1>13. \A i \in 1 .. 5 : i > k => S.time[q[i]] >= nt
  <2> TAKE i \in 1 .. 5
  <2> HAVE i > k
  <2>1. k < 5 /\ k + 1 \in 1 .. 5 /\ (i = k + 1 \/ k + 1 < i) BY <1>7
  <2>2. k + 1 < i => S.time[q[k + 1]] <= S.time[q[i]] BY <1>11, <2>1
  <2> QED BY <1>8, <1>10, <2>1, <2>2
<1> HIDE DEF t2, q, k
<1>14. ASSUME NEW i \in 1 .. 5, NEW j \in 1 .. 5, i < j
       PROVE  t2[r[i]] <= t2[r[j]]
  <2>1. \A l \in 1 .. 5 : l < k => r[l] = IF l < p THEN q[l] ELSE q[l + 1]
    BY <1>2, <1>6, <1>7
  <2>2. \A l \in 1 .. 5 : l > k => r[l] = q[l] /\ l # p BY <1>2, <1>6, <1>7
  <2>3. CASE j < k
    <3> DEFINE ii == IF i < p THEN i ELSE i + 1
               jj == IF j < p THEN j ELSE j + 1
    <3>1. ii \in 1 .. 5 /\ jj \in 1 .. 5 /\ ii < jj /\ ii # p /\ jj # p
      BY <1>2, <1>7, <1>14, <2>3, SMT
    <3>2. r[i] = q[ii] /\ r[j] = q[jj] BY <1>7, <1>14, <2>1, <2>3
    <3> HIDE DEF ii, jj
    <3>3. t2[r[i]] = S.time[q[ii]] /\ t2[r[j]] = S.time[q[jj]] BY <1>9, <3>1, <3>2
    <3> QED BY <1>11, <3>1, <3>3
  <2>4. CASE j = k
    <3>0. t2[r[j]] = nt BY <1>6, <1>9, <2>4
    <3>1. CASE i < p
      <4>1. t2[r[i]] = S.time[q[i]] BY <1>2, <1>9, <1>14, <2>1, <2>4, <3>1
      <4>2. S.time[q[i]] <= S.time[e] BY <1>2, <1>11, <3>1
      <4> QED BY <1>10, <1>12, <3>0, <4>1, <4>2
    <3>2. CASE ~(i < p)
      <4>1. i \in p .. 4 /\ i + 1 \in 1 .. 5 /\ i + 1 # p BY <1>2, <1>14, <3>2
      <4>2. t2[r[i]] = S.time[q[i + 1]] BY <1>9, <1>14, <2>1, <2>4, <3>2, <4>1
      <4>3. S.time[q[i + 1]] < nt BY <1>8, <1>14, <2>4, <4>1
      <4> QED BY <1>10, <3>0, <4>1, <4>2, <4>3
    <3> QED BY <3>1, <3>2
  <2>5. CASE j > k /\ i < k
    <3>0. t2[r[j]] = S.time[q[j]] BY <1>9, <2>2, <2>5
    <3>1. CASE i < p
      <4>1. i # p BY <1>2, <3>1
      <4>2. t2[r[i]] = S.time[q[i]] BY <1>9, <2>1, <2>5, <3>1, <4>1
      <4> QED BY <1>11, <1>14, <3>0, <4>2
    <3>2. CASE ~(i < p)
      <4>1. i + 1 \in 1 .. 5 /\ i + 1 # p /\ i + 1 < j BY <1>2, <1>7, <2>5, <3>2
      <4>2. t2[r[i]] = S.time[q[i + 1]] BY <1>9, <2>1, <2>5, <3>2, <4>1
      <4> QED BY <1>11, <3>0, <4>1, <4>2
    <3> QED BY <3>1, <3>2
  <2>6. CASE j > k /\ i = k
    <3>1. t2[r[i]] = nt BY <1>6, <1>9, <2>6
    <3>2. t2[r[j]] = S.time[q[j]] BY <1>9, <2>2, <2>6
    <3> QED BY <1>10, <1>13, <2>6, <3>1, <3>2
  <2>7. CASE j > k /\ i > k BY <1>9, <1>11, <1>14, <2>2, <2>7
  <2> QED BY <1>7, <2>3, <2>4, <2>5, <2>6, <2>7, SMT
<1> QED BY <1>6, <1>14 DEF InOrderOf, r, t2

LEMMA RelinkedIs ==
  ASSUME NEW S, Whole(S.queue), NEW e \in Event, NEW nt \in Nat,
         S.time \in [Event -> Nat], InOrderOf(S.queue, S.time)
  PROVE  /\ Whole(Relinked(S, e, nt))
         /\ InOrderOf(Relinked(S, e, nt), [S.time EXCEPT ![e] = nt])
<1>1. CASE nt < S.time[e]
  <2>1. Relinked(S, e, nt) = Earlier(S, e, nt) BY <1>1 DEF Relinked
  <2> QED BY <1>1, <2>1, EarlierIs
<1>2. CASE nt > S.time[e]
  <2>1. Relinked(S, e, nt) = Later(S, e, nt)
    <3>1. ~(nt < S.time[e]) BY <1>2
    <3> QED BY <1>2, <3>1 DEF Relinked
  <2> QED BY <1>2, <2>1, LaterIs
<1>3. CASE nt = S.time[e]
  <2>1. Relinked(S, e, nt) = S.queue /\ [S.time EXCEPT ![e] = nt] = S.time
    BY <1>3 DEF Relinked
  <2> QED BY <2>1
<1>4. S.time[e] \in Nat OBVIOUS
<1> QED BY <1>1, <1>2, <1>3, <1>4

----------------------------------------------------------------------------
(* What a handler called at ts does to the state it is given *)

State == [queue : Seq(Event), time : [Event -> Time],
          Running : {-1, 0, 1}, next : Time,
          pending : {-1, 0, 1}, last : [Device -> Time],
          asked : {"no", "ehl", "ml"}, turns : 0 .. TurnsCap]

\* The list is whole and in order, and the devices are in it for good.
Good(S) ==
  /\ S \in State
  /\ Whole(S.queue) /\ InOrderOf(S.queue, S.time)
  /\ \A d \in Device : S.time[d] # DISABLED

\* Running says which exit was asked for.
Flags(S) ==
  /\ S.asked = "no" <=> S.Running = 1
  /\ S.asked = "ehl" => S.Running = -1
  /\ S.asked = "ml" => S.Running = 0

\* The loop does not go on while a switch of the slave is to be made.
Stopping(S) == S.pending # 0 => S.Running <= 0

Follows(S, X, ts) ==
  /\ Good(S) /\ Good(X)
  /\ \A e \in Event : X.time[e] = S.time[e] \/ X.time[e] > ts
  /\ \A e \in Event : e # "MIDSYNC" => (X.time[e] = DISABLED <=> S.time[e] = DISABLED)
  /\ \A d \in Device : X.last[d] = S.last[d] \/ X.last[d] = ts
  /\ X.turns = S.turns
  /\ S.next = NextTs(S) => X.next = NextTs(X)
  /\ Flags(S) => Flags(X)
  /\ X.asked = "no" => S.asked = "no"
  /\ Stopping(S) => Stopping(X)
  /\ S.Running = 0 => X.Running = 0

LEMMA HeadIs ==
  ASSUME NEW S, Good(S)
  PROVE  /\ First(S) \in Event /\ HeadTime(S) = S.time[First(S)] /\ HeadTime(S) \in Time
         /\ \A e \in Event : S.time[e] \in Time /\ HeadTime(S) <= S.time[e]
<1>1. S.time \in [Event -> Time] /\ Whole(S.queue) /\ InOrderOf(S.queue, S.time)
  BY DEF Good, State
<1>2. First(S) \in Event BY <1>1, WholeIs DEF First
<1>3. HeadTime(S) \in Time BY <1>1, <1>2 DEF HeadTime
<1>4. ASSUME NEW e \in Event PROVE S.time[e] \in Time /\ HeadTime(S) <= S.time[e]
  <2>1. PICK i \in 1 .. 5 : S.queue[i] = e BY <1>1 DEF Whole
  <2>2. i = 1 \/ 1 < i OBVIOUS
  <2>3. S.time[e] \in Time /\ S.time[e] \in Nat BY <1>1, Times
  <2>4. 1 < i => S.time[S.queue[1]] <= S.time[e] BY <1>1, <2>1 DEF InOrderOf
  <2> QED BY <2>1, <2>2, <2>3, <2>4 DEF HeadTime, First
<1> QED BY <1>2, <1>3, <1>4 DEF HeadTime

LEMMA FollowsSame ==
  ASSUME NEW S, Good(S), NEW ts
  PROVE  Follows(S, S, ts)
  BY DEF Follows

LEMMA FollowsOn ==
  ASSUME NEW S, NEW X, NEW Y, NEW ts, Follows(S, X, ts), Follows(X, Y, ts)
  PROVE  Follows(S, Y, ts)
  BY DEF Follows

\* X is S with the event e put at nt.
EventSet(S, X, e, nt) ==
  /\ Good(X) /\ X.time = [S.time EXCEPT ![e] = nt] /\ X.next = NextTs(X)
  /\ X.Running = S.Running /\ X.pending = S.pending /\ X.last = S.last
  /\ X.asked = S.asked /\ X.turns = S.turns

\* SS_SetEventNT keeps the list, and makes next_event_ts true to it.
LEMMA SetEventIs ==
  ASSUME NEW S, Good(S), NEW e \in Event, NEW nt \in Time,
         e \in Device => nt # DISABLED, NEW X, X = SetEventNT(S, e, nt)
  PROVE  EventSet(S, X, e, nt)
<1> DEFINE q == Relinked(S, e, nt)
           M == [S EXCEPT !.queue = q, !.time[e] = nt]
<1>1. S \in State /\ S.time \in [Event -> Time] /\ Whole(S.queue) /\ InOrderOf(S.queue, S.time)
  BY DEF Good, State
<1>2. nt \in Nat /\ S.time \in [Event -> Nat]
  <2>1. \A f \in Event : S.time[f] \in Nat BY <1>1, Times
  <2> QED BY <1>1, <2>1, Times
<1>3. Whole(q) /\ InOrderOf(q, [S.time EXCEPT ![e] = nt]) BY <1>1, <1>2, RelinkedIs
<1> HIDE DEF q
<1>4. /\ M.queue = q /\ M.time = [S.time EXCEPT ![e] = nt] /\ M \in State
      /\ M.Running = S.Running /\ M.pending = S.pending /\ M.last = S.last
      /\ M.asked = S.asked /\ M.turns = S.turns
  <2>1. q \in Seq(Event) BY <1>3 DEF Whole
  <2> QED BY <1>1, <2>1 DEF State
<1>5. X = [M EXCEPT !.next = NextTs(M)] BY DEF SetEventNT, q
<1> HIDE DEF M
<1>6. Good(M)
  <2>1. \A d \in Device : M.time[d] # DISABLED BY <1>1, <1>4, Events5 DEF Good
  <2> QED BY <1>3, <1>4, <2>1 DEF Good
<1>7. NextTs(M) \in Time
  <2>1. 0 \in Time BY Times
  <2> QED BY <1>6, <2>1, HeadIs DEF NextTs
<1>8. /\ X \in State /\ X.queue = M.queue /\ X.time = M.time /\ X.next = NextTs(M)
      /\ X.Running = M.Running /\ X.pending = M.pending /\ X.last = M.last
      /\ X.asked = M.asked /\ X.turns = M.turns
  BY <1>4, <1>5, <1>7 DEF State
<1>9. NextTs(X) = NextTs(M) BY <1>8 DEF NextTs, HeadTime, First
<1> QED BY <1>4, <1>6, <1>8, <1>9 DEF Good, EventSet

LEMMA FollowsSet ==
  ASSUME NEW S, Good(S), NEW e \in Event, NEW ts \in Nat, NEW nt \in Time, nt > ts,
         e # "MIDSYNC" => nt # DISABLED /\ S.time[e] # DISABLED,
         NEW X, X = SetEventNT(S, e, nt)
  PROVE  Follows(S, X, ts) /\ X.time[e] = nt /\ X.last = S.last
<1>1. S.time \in [Event -> Time] BY DEF Good, State
<1>2. e \in Device => nt # DISABLED BY Events5
<1>3. EventSet(S, X, e, nt) BY <1>2, SetEventIs, Zenon
<1>4. /\ X.time[e] = nt
      /\ \A f \in Event : f # e => X.time[f] = S.time[f]
  BY <1>1, <1>3 DEF EventSet
<1> QED BY <1>3, <1>4 DEF Follows, Flags, Stopping, EventSet

LEMMA FollowsUpdated ==
  ASSUME NEW S, Good(S), NEW d \in Device, NEW ts \in Time, NEW X, X = Updated(S, d, ts)
  PROVE  Follows(S, X, ts) /\ X.last[d] = ts /\ X.time = S.time
<1>1. S \in State /\ S.last \in [Device -> Time] BY DEF Good, State
<1>2. /\ X \in State /\ X.queue = S.queue /\ X.time = S.time /\ X.next = S.next
      /\ X.Running = S.Running /\ X.pending = S.pending
      /\ X.last = [S.last EXCEPT ![d] = ts]
      /\ X.asked = S.asked /\ X.turns = S.turns
  BY <1>1 DEF Updated, State
<1>3. X.last[d] = ts /\ \A f \in Device : f # d => X.last[f] = S.last[f] BY <1>1, <1>2
<1>4. Good(X) BY <1>2 DEF Good
<1>5. NextTs(X) = NextTs(S) BY <1>2 DEF NextTs, HeadTime, First
<1> QED BY <1>2, <1>3, <1>4, <1>5 DEF Follows, Flags, Stopping

\* Leaving the loop for good
LEMMA FollowsML ==
  ASSUME NEW S, Good(S), NEW ts, NEW X, X = RequestMLExit(S)
  PROVE  Follows(S, X, ts) /\ X.last = S.last
<1>1. S \in State /\ 0 \in Time BY Times DEF Good
<1>2. /\ X \in State /\ X.queue = S.queue /\ X.time = S.time /\ X.next = 0
      /\ X.Running = 0 /\ X.pending = S.pending /\ X.last = S.last
      /\ X.asked = "ml" /\ X.turns = S.turns
  BY <1>1 DEF RequestMLExit, State
<1>3. Good(X) BY <1>2 DEF Good
<1>4. NextTs(X) = 0 BY <1>2 DEF NextTs
<1> QED BY <1>2, <1>3, <1>4 DEF Follows, Flags, Stopping

\* A switch of the slave, made known with the request that leaves the loop for it
LEMMA FollowsEHL ==
  ASSUME NEW S, Good(S), NEW ts, NEW v \in {-1, 1},
         NEW X, X = RequestEHLExit([S EXCEPT !.pending = v])
  PROVE  Follows(S, X, ts) /\ X.last = S.last
<1>1. S \in State /\ 0 \in Time BY Times DEF Good
<1>2. CASE S.Running = 0
  <2>1. X = [S EXCEPT !.pending = v] BY <1>1, <1>2 DEF RequestEHLExit, State
  <2>2. /\ X \in State /\ X.queue = S.queue /\ X.time = S.time /\ X.next = S.next
        /\ X.Running = S.Running /\ X.pending = v /\ X.last = S.last
        /\ X.asked = S.asked /\ X.turns = S.turns
    BY <1>1, <2>1 DEF State
  <2>3. Good(X) BY <2>2 DEF Good
  <2>4. NextTs(X) = NextTs(S) BY <2>2 DEF NextTs, HeadTime, First
  <2> QED BY <1>2, <2>2, <2>3, <2>4 DEF Follows, Flags, Stopping
<1>3. CASE S.Running # 0
  <2> DEFINE P == [S EXCEPT !.pending = v]
  <2>1. P \in State /\ P.Running # 0 /\ P.asked = S.asked BY <1>1, <1>3 DEF State
  <2>2. X = [P EXCEPT !.Running = -1, !.next = 0,
                      !.asked = IF P.asked = "no" THEN "ehl" ELSE P.asked]
    BY <2>1 DEF RequestEHLExit
  <2>3. P.queue = S.queue /\ P.time = S.time /\ P.last = S.last /\ P.turns = S.turns
    BY <1>1 DEF State
  <2> HIDE DEF P
  <2>4. /\ X \in State /\ X.queue = S.queue /\ X.time = S.time /\ X.next = 0
        /\ X.Running = -1 /\ X.last = S.last /\ X.turns = S.turns
        /\ X.asked = IF S.asked = "no" THEN "ehl" ELSE S.asked
    BY <1>1, <2>1, <2>2, <2>3 DEF State
  <2>5. Good(X) BY <2>4 DEF Good
  <2>6. NextTs(X) = 0 BY <2>4 DEF NextTs
  <2>7. Flags(S) => Flags(X)
    <3>1. S.asked \in {"no", "ehl", "ml"} BY <1>1 DEF State
    <3> QED BY <1>3, <2>4, <3>1 DEF Flags
  <2> QED BY <1>3, <2>4, <2>5, <2>6, <2>7 DEF Follows, Stopping
<1> QED BY <1>2, <1>3

\* What stays true of the device that was brought up to date, whatever follows
LEMMA LastStays ==
  ASSUME NEW S, NEW X, NEW ts, Follows(S, X, ts), NEW d \in Device, S.last[d] = ts
  PROVE  X.last[d] = ts
  BY DEF Follows

----------------------------------------------------------------------------
(* The handlers *)

\* The device d was brought up to date at ts, its event is yet to come.
BroughtUp(S, X, d, ts) == Follows(S, X, ts) /\ X.last[d] = ts /\ X.time[d] > ts

LEMMA Ahead ==
  ASSUME NEW ts \in 0 .. LastTime
  PROVE  /\ ts \in Nat /\ ts \in Time /\ ts + 1 \in Time /\ ts + 1 # DISABLED
         /\ \A d \in Delays : d \in Nat /\ ts + d \in Time /\ ts + d > ts /\ ts + d # DISABLED
<1>1. ts \in Nat /\ ts <= LastTime BY Times
<1>2. ts \in Time /\ ts + 1 \in Time /\ ts + 1 # DISABLED BY <1>1, Times
<1>3. ASSUME NEW d \in Delays
      PROVE  d \in Nat /\ ts + d \in Time /\ ts + d > ts /\ ts + d # DISABLED
  <2>1. d \in Nat /\ d > 0 /\ LastTime + d < DISABLED BY EventsAssumption
  <2> QED BY <1>1, <2>1, Times
<1> QED BY <1>1, <1>2, <1>3

\* The event of a device, set some way ahead once the device was brought up to date
LEMMA SetAhead ==
  ASSUME NEW S, NEW X, NEW d \in Device, NEW ts \in 0 .. LastTime, NEW nt \in Time,
         nt > ts, nt # DISABLED, Follows(S, X, ts), X.last[d] = ts
  PROVE  BroughtUp(S, SetEventNT(X, d, nt), d, ts)
<1> DEFINE Y == SetEventNT(X, d, nt)
<1>1. Good(X) /\ ts \in Nat /\ d \in Event BY Ahead, Events5 DEF Follows
<1>2. X.time[d] # DISABLED BY <1>1 DEF Good
<1> HIDE DEF Y
<1>3. Follows(X, Y, ts) /\ Y.time[d] = nt /\ Y.last = X.last
  BY <1>1, <1>2, FollowsSet DEF Y
<1>4. Follows(S, Y, ts) BY <1>3, FollowsOn
<1>5. Y.last[d] = ts /\ Y.time[d] > ts BY <1>3
<1>6. BroughtUp(S, Y, d, ts) BY <1>4, <1>5 DEF BroughtUp
<1> QED BY <1>6 DEF Y

\* The events that one handler sets for another
LEMMA SetNext ==
  ASSUME NEW S, NEW X, NEW e \in {"SMPC", "MIDSYNC"}, NEW ts \in 0 .. LastTime, Follows(S, X, ts)
  PROVE  Follows(S, SetEventNT(X, e, ts + 1), ts)
<1> DEFINE Y == SetEventNT(X, e, ts + 1)
<1>1. Good(X) /\ ts \in Nat /\ ts + 1 \in Time /\ ts + 1 # DISABLED /\ ts + 1 > ts
  BY Ahead DEF Follows
<1>2. e \in Event BY Events5
<1>3. e # "MIDSYNC" => X.time[e] # DISABLED BY <1>1 DEF Good, Device
<1> HIDE DEF Y
<1>4. Follows(X, Y, ts) BY <1>1, <1>2, <1>3, FollowsSet DEF Y
<1>5. Follows(S, Y, ts) BY <1>4, FollowsOn
<1> QED BY <1>5 DEF Y

LEMMA Vdp1Is ==
  ASSUME NEW S, Good(S), NEW ts \in 0 .. LastTime, NEW X \in Vdp1Update(S, ts)
  PROVE  BroughtUp(S, X, "VDP1", ts)
<1> DEFINE U == Updated(S, "VDP1", ts)
<1>1. PICK d \in Delays : X = SetEventNT(U, "VDP1", ts + d) BY DEF Vdp1Update
<1>2. "VDP1" \in Device BY DEF Device
<1> HIDE DEF U
<1>3. Follows(S, U, ts) /\ U.last["VDP1"] = ts BY <1>2, Ahead, FollowsUpdated DEF U
<1>4. ts + d \in Time /\ ts + d > ts /\ ts + d # DISABLED BY Ahead
<1> QED BY <1>1, <1>2, <1>3, <1>4, SetAhead

LEMMA SmpcIs ==
  ASSUME NEW S, Good(S), NEW ts \in 0 .. LastTime, NEW X \in SmpcUpdate(S, ts)
  PROVE  BroughtUp(S, X, "SMPC", ts)
<1> DEFINE U == Updated(S, "SMPC", ts)
<1>1. PICK Y \in SmpcCommand(U, ts), d \in Delays : X = SetEventNT(Y, "SMPC", ts + d)
  BY DEF SmpcUpdate
<1>2. "SMPC" \in Device BY DEF Device
<1> HIDE DEF U
<1>3. Follows(S, U, ts) /\ U.last["SMPC"] = ts BY <1>2, Ahead, FollowsUpdated DEF U
<1>4. Good(U) BY <1>3 DEF Follows
<1>5. Follows(U, Y, ts)
  <2>1. CASE Y = U BY <1>4, <2>1, FollowsSame
  <2>2. CASE Y = SetEventNT(U, "MIDSYNC", ts + 1)
    <3>1. Follows(U, U, ts) BY <1>4, FollowsSame
    <3> QED BY <2>2, <3>1, SetNext
  <2>3. CASE \E Z \in SlaveSwitches(U) : Y = RequestEHLExit(Z)
    <3>1. PICK Z \in SlaveSwitches(U) : Y = RequestEHLExit(Z) BY <2>3
    <3>2. PICK v \in {-1, 1} : Z = [U EXCEPT !.pending = v] BY <3>1 DEF SlaveSwitches
    <3> QED BY <1>4, <3>1, <3>2, FollowsEHL
  <2> QED BY <1>1, <2>1, <2>2, <2>3 DEF SmpcCommand
<1>6. Follows(S, Y, ts) /\ Y.last["SMPC"] = ts BY <1>2, <1>3, <1>5, FollowsOn, LastStays
<1>7. ts + d \in Time /\ ts + d > ts /\ ts + d # DISABLED BY Ahead
<1> QED BY <1>1, <1>2, <1>6, <1>7, SetAhead

LEMMA SetVBVSIs ==
  ASSUME NEW S, NEW X, NEW ts \in 0 .. LastTime, Follows(S, X, ts)
  PROVE  Follows(S, SetVBVS(X, ts), ts)
<1> DEFINE Y == IF X.time["MIDSYNC"] = DISABLED THEN SetEventNT(X, "MIDSYNC", ts + 1) ELSE X
<1>1. Follows(S, SetEventNT(X, "MIDSYNC", ts + 1), ts) BY SetNext
<1>2. Follows(S, Y, ts) BY <1>1
<1>3. SetVBVS(X, ts) = SetEventNT(Y, "SMPC", ts + 1) BY DEF SetVBVS
<1> HIDE DEF Y
<1> QED BY <1>2, <1>3, SetNext

LEMMA LinesIs ==
  ASSUME NEW S, Good(S), NEW ts \in 0 .. LastTime, NEW X \in Lines(S, ts)
  PROVE  Follows(S, X, ts)
<1>1. Follows(S, S, ts) BY FollowsSame
<1>2. CASE X = RequestMLExit(S) BY <1>2, FollowsML
<1>3. CASE X = S BY <1>1, <1>3
<1>4. CASE X = SetEventNT(S, "SMPC", ts + 1) BY <1>1, <1>4, SetNext
<1>5. CASE X = SetVBVS(S, ts) BY <1>1, <1>5, SetVBVSIs
<1>6. CASE X = SetVBVS(SetEventNT(S, "MIDSYNC", ts + 1), ts)
  <2>1. Follows(S, SetEventNT(S, "MIDSYNC", ts + 1), ts) BY <1>1, SetNext
  <2> QED BY <1>6, <2>1, SetVBVSIs
<1> QED BY <1>2, <1>3, <1>4, <1>5, <1>6 DEF Lines

LEMMA Vdp2Is ==
  ASSUME NEW S, Good(S), NEW ts \in 0 .. LastTime, NEW X \in Vdp2Update(S, ts)
  PROVE  BroughtUp(S, X, "VDP2", ts)
<1> DEFINE U == Updated(S, "VDP2", ts)
           at(d) == IF ts < FrameTime /\ ts + d > FrameTime THEN FrameTime ELSE ts + d
<1>1. PICK Y \in UNION {{L} \cup Vdp1Update(L, ts) : L \in Lines(U, ts)}, d \in Delays :
        X = SetEventNT(Y, "VDP2", at(d))
  BY DEF Vdp2Update
<1>2. PICK L \in Lines(U, ts) : Y = L \/ Y \in Vdp1Update(L, ts) BY <1>1
<1>3. "VDP2" \in Device BY DEF Device
<1> HIDE DEF U
<1>4. Follows(S, U, ts) /\ U.last["VDP2"] = ts BY <1>3, Ahead, FollowsUpdated DEF U
<1>5. Good(U) BY <1>4 DEF Follows
<1>6. Follows(U, L, ts) BY <1>5, LinesIs
<1>7. Follows(L, Y, ts)
  <2>1. Good(L) BY <1>6 DEF Follows
  <2> QED BY <1>2, <2>1, FollowsSame, Vdp1Is DEF BroughtUp
<1>8. Follows(S, Y, ts) /\ Y.last["VDP2"] = ts
  BY <1>3, <1>4, <1>6, <1>7, FollowsOn, LastStays
<1>9. at(d) \in Time /\ at(d) > ts /\ at(d) # DISABLED
  <2>1. ts + d \in Time /\ ts + d > ts /\ ts + d # DISABLED BY Ahead
  <2>2. ts < FrameTime => FrameTime \in Time /\ FrameTime > ts /\ FrameTime # DISABLED
    BY Times, Ahead
  <2> QED BY <2>1, <2>2
<1> HIDE DEF at
<1> QED BY <1>1, <1>3, <1>8, <1>9, SetAhead

LEMMA DeviceAccessIs ==
  ASSUME NEW S, Good(S), NEW ts \in 0 .. LastTime, NEW X \in DeviceAccess(S, ts)
  PROVE  Follows(S, X, ts)
<1>1. CASE X \in Vdp2Update(S, ts) BY <1>1, Vdp2Is DEF BroughtUp
<1>2. CASE \E Y \in Vdp2Update(S, ts) : X \in Vdp1Update(Y, ts) \cup SmpcUpdate(Y, ts)
  <2>1. PICK Y \in Vdp2Update(S, ts) : X \in Vdp1Update(Y, ts) \cup SmpcUpdate(Y, ts) BY <1>2
  <2>2. Follows(S, Y, ts) BY Vdp2Is DEF BroughtUp
  <2>3. Good(Y) BY <2>2 DEF Follows
  <2>4. Follows(Y, X, ts) BY <2>1, <2>3, Vdp1Is, SmpcIs DEF BroughtUp
  <2> QED BY <2>2, <2>4, FollowsOn
<1> QED BY <1>1, <1>2 DEF DeviceAccess

\* The slave's DMA is called no later than the bus is.
LEMMA DmaIs ==
  ASSUME NEW S, Good(S), mem_ts \in 0 .. LastTime, NEW ts \in 0 .. LastTime, ts <= mem_ts,
         S.time["SDMA"] # DISABLED, NEW X \in DmaUpdate(S, ts)
  PROVE  Follows(S, X, ts) /\ X.time["SDMA"] > ts
<1>1. ts \in Nat /\ mem_ts \in Nat /\ "SDMA" \in Event BY Ahead, Events5
<1>2. ASSUME NEW Y, Follows(S, Y, ts), NEW nt \in Time, nt > ts, nt # DISABLED,
             X = SetEventNT(Y, "SDMA", nt)
      PROVE  Follows(S, X, ts) /\ X.time["SDMA"] > ts
  <2>1. Good(Y) /\ Y.time["SDMA"] # DISABLED BY <1>1, <1>2 DEF Follows
  <2>2. Follows(Y, X, ts) /\ X.time["SDMA"] = nt BY <1>1, <1>2, <2>1, FollowsSet
  <2> QED BY <1>2, <2>2, FollowsOn
<1>3. Follows(S, S, ts) BY FollowsSame
<1>4. CASE ts < mem_ts
  <2>1. X = SetEventNT(S, "SDMA", mem_ts) BY <1>4 DEF DmaUpdate
  <2>2. mem_ts \in Time /\ mem_ts # DISABLED BY Times
  <2> QED BY <1>2, <1>3, <1>4, <2>1, <2>2
<1>5. CASE ~(ts < mem_ts)
  <2>1. ts = mem_ts BY <1>1, <1>5
  <2>2. CASE X = SetEventNT(S, "SDMA", ts + 1)
    <3>1. ts + 1 \in Time /\ ts + 1 # DISABLED /\ ts + 1 > ts BY Ahead
    <3> QED BY <1>2, <1>3, <2>2, <3>1
  <2>3. CASE \E Y \in {S} \cup DeviceAccess(S, mem_ts), d \in Delays :
               X = SetEventNT(Y, "SDMA", ts + d)
    <3>1. PICK Y \in {S} \cup DeviceAccess(S, mem_ts), d \in Delays :
                 X = SetEventNT(Y, "SDMA", ts + d)
      BY <2>3
    <3>2. Follows(S, Y, ts) BY <1>3, <2>1, <3>1, DeviceAccessIs
    <3>3. ts + d \in Time /\ ts + d > ts /\ ts + d # DISABLED BY Ahead
    <3> QED BY <1>2, <3>1, <3>2, <3>3
  <2> QED BY <1>5, <2>2, <2>3 DEF DmaUpdate
<1> QED BY <1>4, <1>5

\* A handler called at ts for an event that is live
LEMMA HandledIs ==
  ASSUME NEW S, Good(S), mem_ts \in 0 .. LastTime, NEW ts \in 0 .. LastTime, ts <= mem_ts,
         NEW e \in Event, S.time[e] # DISABLED, NEW X \in Handled(S, e, ts)
  PROVE  /\ Follows(S, X, ts) /\ X.time[e] > ts
         /\ e \in Device => X.last[e] = ts
<1>1. CASE e = "SDMA"
  <2>1. X \in DmaUpdate(S, ts) BY <1>1 DEF Handled
  <2> QED BY <1>1, <2>1, DmaIs, Events5
<1>2. CASE e = "SMPC"
  <2>1. X \in SmpcUpdate(S, ts) BY <1>2 DEF Handled
  <2> QED BY <1>2, <2>1, SmpcIs DEF BroughtUp
<1>3. CASE e = "VDP1"
  <2>1. X \in Vdp1Update(S, ts) BY <1>3 DEF Handled
  <2> QED BY <1>3, <2>1, Vdp1Is DEF BroughtUp
<1>4. CASE e = "VDP2"
  <2>1. X \in Vdp2Update(S, ts) BY <1>4 DEF Handled
  <2> QED BY <1>4, <2>1, Vdp2Is DEF BroughtUp
<1>5. CASE e = "MIDSYNC"
  <2>1. X = SetEventNT(S, "MIDSYNC", DISABLED) BY <1>5 DEF Handled, MidSync
  <2>2. DISABLED \in Time /\ DISABLED > ts /\ ts \in Nat BY Times, Ahead
  <2>3. Follows(S, X, ts) /\ X.time["MIDSYNC"] = DISABLED
    BY <1>5, <2>1, <2>2, FollowsSet
  <2> QED BY <1>5, <2>2, <2>3, Events5
<1> QED BY <1>1, <1>2, <1>3, <1>4, <1>5, Events5

\* Where the head of the list and the devices are after it
LEMMA ClocksFollow ==
  ASSUME NEW S, NEW X, NEW ts \in Nat, Follows(S, X, ts), HeadTime(S) >= ts,
         \A d \in Device : S.last[d] <= ts
  PROVE  /\ HeadTime(X) \in Nat /\ HeadTime(X) >= ts
         /\ HeadTime(S) > ts => HeadTime(X) > ts
         /\ \A d \in Device : X.last[d] <= ts /\ S.last[d] <= X.last[d]
<1>1. Good(S) /\ Good(X) BY DEF Follows
<1>2. /\ First(X) \in Event /\ HeadTime(X) = X.time[First(X)] /\ HeadTime(X) \in Nat
      /\ HeadTime(S) \in Nat /\ S.time[First(X)] \in Nat /\ HeadTime(S) <= S.time[First(X)]
  BY <1>1, HeadIs, Times
<1>3. X.time[First(X)] = S.time[First(X)] \/ X.time[First(X)] > ts BY <1>2 DEF Follows
<1>4. ASSUME NEW d \in Device PROVE X.last[d] <= ts /\ S.last[d] <= X.last[d]
  <2>1. S.last[d] \in Nat
    <3>1. S.last \in [Device -> Time] BY <1>1 DEF Good, State
    <3> QED BY <3>1, Times
  <2> QED BY <2>1 DEF Follows
<1> QED BY <1>2, <1>3, <1>4

LEMMA NextOnly ==
  ASSUME NEW S, Good(S), NEW v \in Time, NEW X, X = [S EXCEPT !.next = v]
  PROVE  /\ Good(X) /\ X.time = S.time /\ X.last = S.last /\ X.next = v
         /\ X.Running = S.Running /\ X.asked = S.asked /\ X.turns = S.turns
         /\ X.pending = S.pending
         /\ HeadTime(X) = HeadTime(S) /\ NextTs(X) = NextTs(S)
<1>1. /\ X \in State /\ X.queue = S.queue /\ X.time = S.time /\ X.last = S.last /\ X.next = v
      /\ X.Running = S.Running /\ X.asked = S.asked /\ X.turns = S.turns
      /\ X.pending = S.pending
  BY DEF Good, State
<1> QED BY <1>1 DEF Good, HeadTime, First, NextTs

LEMMA NextTsType == ASSUME NEW S, Good(S) PROVE NextTs(S) \in Time
<1>1. 0 \in Time BY Times
<1> QED BY <1>1, HeadIs DEF NextTs

\* The slave is switched: its event goes live, or goes.
Switched(S, X, on) ==
  /\ Good(X) /\ X.pending = 0
  /\ X.Running = S.Running /\ X.last = S.last /\ X.asked = S.asked /\ X.turns = S.turns
  /\ HeadTime(X) >= HeadTime(S) \/ HeadTime(X) > mem_ts
  /\ X.time["SDMA"] # DISABLED <=> on

LEMMA SwitchIs ==
  ASSUME NEW S, Good(S), mem_ts \in 0 .. LastTime, NEW on \in BOOLEAN, SlaveSH2On \in BOOLEAN,
         S.time["SDMA"] # DISABLED <=> SlaveSH2On,
         NEW X, X = [SetActive(S, on) EXCEPT !.pending = 0]
  PROVE  Switched(S, X, on)
<1> DEFINE A == SetActive(S, on)
<1>1. mem_ts \in Nat /\ mem_ts + 1 \in Time /\ mem_ts + 1 # DISABLED /\ DISABLED \in Time /\ mem_ts < DISABLED
  <2>1. mem_ts \in Nat /\ mem_ts + 1 \in Time /\ mem_ts + 1 # DISABLED BY Ahead
  <2> QED BY <2>1, Times
<1>2. "SDMA" \in Event /\ "SDMA" \notin Device BY Events5
<1>3. S.time \in [Event -> Time] BY DEF Good, State
<1>4. /\ Good(A)
      /\ A.Running = S.Running /\ A.last = S.last /\ A.asked = S.asked /\ A.turns = S.turns
      /\ \A e \in Event : A.time[e] = S.time[e] \/ A.time[e] > mem_ts
      /\ A.time["SDMA"] # DISABLED <=> on
  <2>1. CASE on /\ ~SlaveSH2On
    <3>1. A = SetEventNT(S, "SDMA", mem_ts + 1) BY <2>1 DEF SetActive
    <3> HIDE DEF A
    <3>2. EventSet(S, A, "SDMA", mem_ts + 1) BY <1>1, <1>2, <3>1, SetEventIs, Zenon
    <3>3. A.time["SDMA"] = mem_ts + 1 /\ \A e \in Event : e # "SDMA" => A.time[e] = S.time[e]
      BY <1>2, <1>3, <3>2 DEF EventSet
    <3> QED BY <1>1, <2>1, <3>2, <3>3 DEF EventSet
  <2>2. CASE ~on /\ SlaveSH2On
    <3>1. A = SetEventNT(S, "SDMA", DISABLED) BY <2>2 DEF SetActive
    <3> HIDE DEF A
    <3>2. EventSet(S, A, "SDMA", DISABLED) BY <1>1, <1>2, <3>1, SetEventIs, Zenon
    <3>3. A.time["SDMA"] = DISABLED /\ \A e \in Event : e # "SDMA" => A.time[e] = S.time[e]
      BY <1>2, <1>3, <3>2 DEF EventSet
    <3> QED BY <1>1, <2>2, <3>2, <3>3 DEF EventSet
  <2>3. CASE on <=> SlaveSH2On
    <3>1. A = S BY <2>3 DEF SetActive
    <3> QED BY <2>3, <3>1
  <2> QED BY <2>1, <2>2, <2>3
<1> HIDE DEF A
<1>5. /\ X \in State /\ X.pending = 0 /\ X.queue = A.queue /\ X.time = A.time
      /\ X.Running = A.Running /\ X.last = A.last /\ X.asked = A.asked /\ X.turns = A.turns
  BY <1>4 DEF A, Good, State
<1>6. Good(X) BY <1>4, <1>5 DEF Good
<1>7. HeadTime(X) >= HeadTime(S) \/ HeadTime(X) > mem_ts
  <2>0. First(X) \in Event /\ HeadTime(X) = X.time[First(X)] /\ HeadTime(X) \in Time
    BY <1>6, HeadIs
  <2>1. First(X) \in Event /\ HeadTime(X) = X.time[First(X)] /\ HeadTime(X) \in Nat
    BY <2>0, Times
  <2>2. HeadTime(S) \in Nat /\ HeadTime(S) <= S.time[First(X)] BY <2>1, HeadIs, Times
  <2> QED BY <1>4, <1>5, <2>1, <2>2
<1> QED BY <1>4, <1>5, <1>6, <1>7 DEF Switched

----------------------------------------------------------------------------
(* The inductive invariant *)

\* The types, with a list that is whole and in order
Base ==
  /\ Good(s)
  /\ SlaveSH2On \in BOOLEAN
  /\ mem_ts \in 0 .. LastTime /\ eff_ts \in 0 .. LastTime
  /\ pc \in PC /\ evnum \in 1 .. 6

\* The bus is ahead of the loop only within a turn; no device is ahead of the
\* bus, nor of the first event.
Clocks ==
  /\ eff_ts <= mem_ts
  /\ pc \notin {"step", "nested", "access"} => mem_ts = eff_ts
  /\ \A d \in Device : s.last[d] <= HeadTime(s) /\ s.last[d] <= mem_ts
  /\ pc # "events" => HeadTime(s) >= eff_ts

\* Within a turn next_event_ts is true to the list; the events up to the
\* loop's time are handled.
Heads ==
  /\ pc \in {"step", "nested", "access", "events"} => s.next = NextTs(s)
  /\ pc \in {"step", "nested", "access", "forceEnd", "rebase", "between"} => HeadTime(s) > eff_ts
  /\ pc = "access" => HeadTime(s) > mem_ts

\* How far a round of forced updates has come
Forced ==
  /\ pc \notin {"force", "forceEnd"} => evnum = 1
  /\ pc = "force" => \A i \in 1 .. 5 : i < evnum => s.time[Enum[i]] > eff_ts
  /\ pc = "forceEnd" =>
       \A i \in 1 .. 5 : i < evnum /\ Enum[i] \in Device => s.last[Enum[i]] = eff_ts
  /\ pc = "rebase" => \A d \in Device : s.last[d] = eff_ts

\* What Running and the exit asked for are where
Exits ==
  /\ pc \notin {"start", "between"} => Flags(s)
  /\ pc = "start" => s.Running <= 0 /\ s.asked \in {"no", "ehl"} /\ (s.asked = "no" => s.turns = 0)
  /\ pc = "between" => s.Running = 0 /\ s.asked = "no"
  /\ pc \in {"forceEnd", "rebase"} => s.Running = 0
  /\ pc \in {"force", "step", "nested", "access", "between"} => s.turns = 0
  /\ pc = "events" => (s.asked = "no" => s.turns = 0)
  /\ s.turns <= 1
  /\ Stopping(s)

IInv == Base /\ Clocks /\ Heads /\ Forced /\ Exits /\ DmaWithSlave

LEMMA BaseTypes == Base => TypeOK
<1> SUFFICES ASSUME Base PROVE TypeOK OBVIOUS
<1>1. Len(s.queue) = Len(Enum) /\ IsInjective(s.queue) BY Events5 DEF Base, Good, Whole
<1>2. evnum \in 1 .. Len(Enum) + 1 BY Events5 DEF Base
<1> QED BY <1>1, <1>2 DEF Base, Good, State, TypeOK

LEMMA InitIInv == Init => IInv
<1> SUFFICES ASSUME Init PROVE IInv OBVIOUS
<1> DEFINE q == <<"SMPC", "VDP1", "VDP2", "SDMA", "MIDSYNC">>
           t == [e \in Event |-> IF e \in Device THEN 0 ELSE DISABLED]
<1>1. /\ s.queue = q /\ s.time = t /\ s.Running = 0 /\ s.next = 0 /\ s.pending = 0
      /\ s.last = [d \in Device |-> 0] /\ s.asked = "no" /\ s.turns = 0
  BY DEF Init
<1>2. /\ t["SMPC"] = 0 /\ t["VDP1"] = 0 /\ t["VDP2"] = 0
      /\ t["SDMA"] = DISABLED /\ t["MIDSYNC"] = DISABLED
  BY Events5 DEF Device
<1>3. 0 \in Time /\ DISABLED \in Time /\ DISABLED # 0 /\ 0 <= DISABLED /\ 0 \in 0 .. LastTime
  BY Times
<1>4. /\ q \in Seq(Event) /\ Len(q) = 5
      /\ q[1] = "SMPC" /\ q[2] = "VDP1" /\ q[3] = "VDP2" /\ q[4] = "SDMA" /\ q[5] = "MIDSYNC"
  BY Events5
<1>5. \A i \in 1 .. 5 : i = 1 \/ i = 2 \/ i = 3 \/ i = 4 \/ i = 5 BY SMT
<1>6. DOMAIN q = 1 .. 5 BY <1>4, LenProperties
<1> HIDE DEF q
<1>7. IsInjective(q)
  <2> SUFFICES ASSUME NEW i \in 1 .. 5, NEW j \in 1 .. 5, q[i] = q[j] PROVE i = j
    BY <1>6 DEF IsInjective
  <2> QED BY <1>4, <1>5
<1>8. \A e \in Event : \E i \in 1 .. 5 : q[i] = e
  <2>1. 1 \in 1 .. 5 /\ 2 \in 1 .. 5 /\ 3 \in 1 .. 5 /\ 4 \in 1 .. 5 /\ 5 \in 1 .. 5 BY SMT
  <2> QED BY <1>4, <2>1, Events5, Zenon
<1>9. InOrderOf(q, t)
  <2> HIDE DEF t
  <2> SUFFICES ASSUME NEW i \in 1 .. 5, NEW j \in 1 .. 5, i < j PROVE t[q[i]] <= t[q[j]]
    BY DEF InOrderOf
  <2>1. DISABLED \in Nat BY Times
  <2> QED BY <1>2, <1>3, <1>4, <1>5, <2>1
<1>10. s \in State /\ Whole(s.queue) /\ InOrderOf(s.queue, s.time)
  <2>1. s = [queue |-> q, time |-> t, Running |-> 0, next |-> 0, pending |-> 0,
             last |-> [d \in Device |-> 0], asked |-> "no", turns |-> 0]
    BY DEF Init, q
  <2>2. t \in [Event -> Time] BY <1>3
  <2>3. 0 \in 0 .. TurnsCap BY DEF TurnsCap
  <2> HIDE DEF t
  <2>4. s \in State BY <1>3, <1>4, <2>1, <2>2, <2>3 DEF State
  <2> QED BY <1>1, <1>4, <1>7, <1>8, <1>9, <2>4 DEF Whole
<1>11. Good(s) BY <1>1, <1>2, <1>3, <1>10 DEF Good, Device
<1>12. HeadTime(s) = 0 BY <1>1, <1>2, <1>4 DEF HeadTime, First
<1>13. Base
  <2>1. /\ SlaveSH2On = FALSE /\ mem_ts = 0 /\ eff_ts = 0 /\ pc = "start" /\ evnum = 1
    BY DEF Init
  <2>2. SlaveSH2On \in BOOLEAN BY <2>1, Zenon
  <2>3. mem_ts \in 0 .. LastTime /\ eff_ts \in 0 .. LastTime BY <1>3, <2>1
  <2>4. pc \in PC /\ evnum \in 1 .. 6 BY <2>1 DEF PC
  <2> QED BY <1>11, <2>2, <2>3, <2>4 DEF Base
<1>14. Clocks BY <1>1, <1>12 DEF Clocks, Init
<1>15. Heads /\ Forced /\ Exits BY <1>1 DEF Heads, Forced, Exits, Init, Stopping
<1>16. DmaWithSlave BY <1>1, <1>2 DEF DmaWithSlave, Init
<1> QED BY <1>13, <1>14, <1>15, <1>16 DEF IInv

----------------------------------------------------------------------------
(* Every action keeps it *)

LEMMA BaseNumbers ==
  ASSUME Base
  PROVE  /\ Good(s) /\ mem_ts \in Nat /\ eff_ts \in Nat /\ HeadTime(s) \in Nat
         /\ s.Running \in {-1, 0, 1} /\ s.asked \in {"no", "ehl", "ml"}
         /\ s.turns \in 0 .. 3 /\ s.next \in Nat
         /\ \A d \in Device : s.last[d] \in Nat
         /\ \A e \in Event : s.time[e] \in Nat /\ HeadTime(s) <= s.time[e]
<1>1. Good(s) /\ s \in State BY DEF Base, Good
<1>2. /\ HeadTime(s) \in Time
      /\ \A e \in Event : s.time[e] \in Time /\ HeadTime(s) <= s.time[e]
  BY <1>1, HeadIs
<1>3. /\ s.next \in Time /\ s.last \in [Device -> Time] /\ s.Running \in {-1, 0, 1}
      /\ s.asked \in {"no", "ehl", "ml"} /\ s.turns \in 0 .. 3
  BY <1>1 DEF State, TurnsCap
<1>4. mem_ts \in Nat /\ eff_ts \in Nat BY DEF Base
<1> QED BY <1>1, <1>2, <1>3, <1>4, Times

LEMMA StartLoopKeeps ==
  ASSUME IInv, StartLoop
  PROVE  IInv'
<1> USE DEF IInv
<1> DEFINE on == s.pending > 0
           A == [SetActive(s, on) EXCEPT !.pending = 0]
           W == SwitchSlave(s)
<1>1. /\ pc = "start" /\ pc' = "force" /\ evnum' = 1 /\ mem_ts' = mem_ts /\ eff_ts' = eff_ts
      /\ SlaveSH2On' = IF s.pending = 0 THEN SlaveSH2On ELSE s.pending > 0
      /\ s' = [W EXCEPT !.Running = 1,
                        !.asked = IF s.asked = "ehl" THEN "no" ELSE @,
                        !.turns = IF s.asked = "ehl" THEN 0 ELSE @]
  BY DEF StartLoop
<1>2. /\ Good(s) /\ mem_ts \in Nat /\ eff_ts \in Nat /\ HeadTime(s) \in Nat
      /\ s.pending \in {-1, 0, 1}
  BY BaseNumbers DEF Good, State
<1>3. /\ Good(W) /\ W.pending = 0 /\ W.last = s.last /\ W.asked = s.asked /\ W.turns = s.turns
      /\ HeadTime(W) >= HeadTime(s) \/ HeadTime(W) > mem_ts
      /\ W.time["SDMA"] # DISABLED <=> SlaveSH2On'
  <2>1. CASE s.pending = 0
    <3>1. W = s BY <2>1 DEF SwitchSlave
    <3>2. SlaveSH2On' = SlaveSH2On BY <1>1, <2>1
    <3> HIDE DEF W
    <3> QED BY <1>2, <2>1, <3>1, <3>2 DEF DmaWithSlave
  <2>2. CASE s.pending # 0
    <3>1. W = A BY <2>2 DEF SwitchSlave
    <3>2. SlaveSH2On' = on BY <1>1, <2>2
    <3>3. on \in BOOLEAN BY <1>2
    <3>4. Switched(s, A, on)
      <4>1. SlaveSH2On \in BOOLEAN /\ mem_ts \in 0 .. LastTime BY DEF Base
      <4>2. s.time["SDMA"] # DISABLED <=> SlaveSH2On BY DEF DmaWithSlave
      <4> HIDE DEF on
      <4> QED BY <1>2, <3>3, <4>1, <4>2, SwitchIs
    <3> HIDE DEF W, A, on
    <3> QED BY <3>1, <3>2, <3>4 DEF Switched
  <2> QED BY <2>1, <2>2
<1> HIDE DEF W
<1>4. /\ s' \in State /\ s'.queue = W.queue /\ s'.time = W.time /\ s'.last = s.last
      /\ s'.Running = 1 /\ s'.pending = 0
      /\ s'.asked = (IF s.asked = "ehl" THEN "no" ELSE s.asked)
      /\ s'.turns = (IF s.asked = "ehl" THEN 0 ELSE s.turns)
  <2>1. W \in State /\ 0 \in 0 .. TurnsCap BY <1>3 DEF Good, TurnsCap
  <2> QED BY <1>1, <1>3, <2>1 DEF State
<1>5. Good(s') BY <1>3, <1>4 DEF Good
<1>6. HeadTime(s') = HeadTime(W) /\ HeadTime(s') \in Nat
  <2>1. HeadTime(s') = HeadTime(W) BY <1>4 DEF HeadTime, First
  <2>2. HeadTime(s') \in Time BY <1>5, HeadIs
  <2> QED BY <2>1, <2>2, Times
<1>7. SlaveSH2On' \in BOOLEAN
  <2>1. SlaveSH2On \in BOOLEAN BY DEF Base
  <2>2. SlaveSH2On' = SlaveSH2On \/ SlaveSH2On' = (s.pending > 0) BY <1>1, Zenon
  <2>3. (s.pending > 0) \in BOOLEAN BY <1>2
  <2> QED BY <2>1, <2>2, <2>3, Zenon
<1>8. Base' BY <1>1, <1>5, <1>7 DEF Base, PC
<1>9. Clocks'
  <2>1. \A d \in Device : s.last[d] \in Nat BY BaseNumbers
  <2>2. /\ mem_ts = eff_ts /\ HeadTime(s) >= eff_ts
        /\ \A d \in Device : s.last[d] <= HeadTime(s) /\ s.last[d] <= mem_ts
    BY <1>1 DEF Clocks
  <2>3. HeadTime(s') >= eff_ts /\ \A d \in Device : s.last[d] <= HeadTime(s')
    BY <1>2, <1>3, <1>6, <2>1, <2>2
  <2> QED BY <1>1, <1>2, <1>4, <2>2, <2>3 DEF Clocks
<1>10. Heads' BY <1>1 DEF Heads
<1>11. Forced'
  <2>1. \A i \in 1 .. 5 : ~(i < 1) OBVIOUS
  <2> QED BY <1>1, <2>1 DEF Forced
<1>12. Exits' BY <1>1, <1>4 DEF Exits, Flags, Stopping
<1>13. DmaWithSlave' BY <1>3, <1>4 DEF DmaWithSlave
<1> QED BY <1>8, <1>9, <1>10, <1>11, <1>12, <1>13

\* One of the forced updates, at the start of the loop or at the end of a frame
LEMMA ForcedIs ==
  ASSUME IInv, NEW end, ForceEventUpdates(end), pc \in {"force", "forceEnd"}, evnum <= 5
  PROVE  /\ pc' = pc /\ evnum' = evnum + 1 /\ Enum[evnum] \in Event
         /\ Follows(s, s', eff_ts) /\ s'.time[Enum[evnum]] > eff_ts
         /\ Enum[evnum] \in Device => s'.last[Enum[evnum]] = eff_ts
<1> DEFINE e == Enum[evnum]
<1>0. Base /\ Clocks BY DEF IInv
<1>1. evnum \in 1 .. 5 BY <1>0 DEF Base
<1>2. e \in Event BY <1>1 DEF Event, ToSet, Enum
<1>3. /\ IF s.time[e] = DISABLED THEN UNCHANGED s ELSE s' \in Handled(s, e, eff_ts)
      /\ evnum' = evnum + 1 /\ pc' = pc
  BY <1>1, Events5 DEF ForceEventUpdates
<1> HIDE DEF e
<1>4. Good(s) /\ eff_ts \in 0 .. LastTime /\ mem_ts \in 0 .. LastTime /\ mem_ts = eff_ts
  BY <1>0 DEF Base, Clocks
<1>5. Follows(s, s', eff_ts) /\ s'.time[e] > eff_ts /\ (e \in Device => s'.last[e] = eff_ts)
  <2>1. CASE s.time[e] = DISABLED
    <3>1. e \notin Device BY <1>4, <2>1 DEF Good
    <3>2. s' = s BY <1>3, <2>1
    <3>3. s'.time[e] > eff_ts BY <1>4, <2>1, <3>2, Times
    <3> QED BY <1>4, <3>1, <3>2, <3>3, FollowsSame
  <2>2. CASE s.time[e] # DISABLED
    <3>1. s' \in Handled(s, e, eff_ts) /\ eff_ts <= mem_ts BY <1>3, <1>4, <2>2, Times
    <3> QED BY <1>2, <1>4, <2>2, <3>1, HandledIs
  <2> QED BY <2>1, <2>2
<1> QED BY <1>2, <1>3, <1>5 DEF e

\* What any handler keeps, called no later than the bus is
LEMMA BaseFollows ==
  ASSUME Base, DmaWithSlave, NEW ts, Follows(s, s', ts), UNCHANGED <<SlaveSH2On, mem_ts, eff_ts>>,
         pc' \in PC, evnum' \in 1 .. 6
  PROVE  Base' /\ DmaWithSlave'
<1>1. Good(s') BY DEF Follows
<1>2. Base' BY <1>1 DEF Base
<1>3. s'.time["SDMA"] = DISABLED <=> s.time["SDMA"] = DISABLED BY Events5 DEF Follows
<1>4. DmaWithSlave' BY <1>3 DEF DmaWithSlave
<1> QED BY <1>2, <1>4

LEMMA ForceFirstKeeps ==
  ASSUME IInv, ForceFirst
  PROVE  IInv'
<1>0. /\ Base /\ Clocks /\ Heads /\ Forced /\ Exits /\ DmaWithSlave
      /\ pc = "force" /\ ForceEventUpdates("step") /\ UNCHANGED <<SlaveSH2On, mem_ts, eff_ts>>
  BY DEF IInv, ForceFirst
<1>1. /\ Good(s) /\ mem_ts \in Nat /\ eff_ts \in Nat /\ HeadTime(s) \in Nat
      /\ mem_ts = eff_ts /\ evnum \in 1 .. 6
      /\ HeadTime(s) >= eff_ts /\ \A d \in Device : s.last[d] <= eff_ts
  BY <1>0, BaseNumbers DEF Clocks, Base
<1>2. CASE evnum <= 5
  <2> DEFINE e == Enum[evnum]
  <2>1. /\ pc' = "force" /\ evnum' = evnum + 1 /\ e \in Event
        /\ Follows(s, s', eff_ts) /\ s'.time[e] > eff_ts
    BY <1>0, <1>2, ForcedIs
  <2>2. /\ HeadTime(s') \in Nat /\ HeadTime(s') >= eff_ts
        /\ \A d \in Device : s'.last[d] <= eff_ts
    BY <1>1, <2>1, ClocksFollow
  <2>3. Base' /\ DmaWithSlave'
    <3>1. pc' \in PC /\ evnum' \in 1 .. 6 BY <1>1, <1>2, <2>1 DEF PC
    <3> QED BY <1>0, <2>1, <3>1, BaseFollows
  <2>4. Clocks'
    <3>1. \A d \in Device : s'.last[d] <= HeadTime(s')
      <4>1. \A d \in Device : s'.last[d] \in Nat BY <2>3, BaseNumbers, Times DEF Base, Good, State
      <4> QED BY <1>1, <2>2, <4>1
    <3> QED BY <1>0, <1>1, <2>1, <2>2, <3>1 DEF Clocks
  <2>5. Heads' BY <2>1 DEF Heads
  <2>6. Forced'
    <3>1. \A i \in 1 .. 5 : i < evnum => s.time[Enum[i]] > eff_ts BY <1>0 DEF Forced
    <3>2. \A i \in 1 .. 5 : Enum[i] \in Event BY Events5 DEF Event, ToSet, Enum
    <3>3. \A i \in 1 .. 5 : i < evnum + 1 => s'.time[Enum[i]] > eff_ts
      <4> TAKE i \in 1 .. 5
      <4> HAVE i < evnum + 1
      <4>1. i = evnum \/ i < evnum BY <1>1
      <4>2. s'.time[Enum[i]] = s.time[Enum[i]] \/ s'.time[Enum[i]] > eff_ts
        BY <2>1, <3>2 DEF Follows
      <4> QED BY <2>1, <3>1, <4>1, <4>2
    <3> QED BY <1>0, <2>1, <3>3 DEF Forced
  <2>7. Exits' BY <1>0, <2>1 DEF Exits, Follows
  <2> QED BY <2>3, <2>4, <2>5, <2>6, <2>7 DEF IInv
<1>3. CASE evnum = 6
  <2>1. s' = [s EXCEPT !.next = NextTs(s)] /\ pc' = "step" /\ evnum' = 1
    BY <1>0, <1>3, Events5 DEF ForceEventUpdates
  <2>2. NextTs(s) \in Time BY <1>1, NextTsType
  <2>3. /\ Good(s') /\ s'.time = s.time /\ s'.last = s.last /\ s'.next = NextTs(s)
        /\ s'.Running = s.Running /\ s'.asked = s.asked /\ s'.turns = s.turns
        /\ s'.pending = s.pending
        /\ HeadTime(s') = HeadTime(s) /\ NextTs(s') = NextTs(s)
    BY <1>1, <2>1, <2>2, NextOnly
  <2>4. Base' BY <1>0, <2>1, <2>3 DEF Base, PC
  <2>5. HeadTime(s) > eff_ts
    <3>1. First(s) \in Event /\ HeadTime(s) = s.time[First(s)] BY <1>1, HeadIs
    <3>2. PICK i \in 1 .. 5 : Enum[i] = First(s) BY <3>1, Events5 DEF Event, ToSet, Enum
    <3>3. i < evnum BY <1>3
    <3> QED BY <1>0, <3>1, <3>2, <3>3 DEF Forced
  <2>6. Clocks' BY <1>0, <1>1, <2>3 DEF Clocks
  <2>7. Heads' BY <1>0, <2>1, <2>3, <2>5 DEF Heads
  <2>8. Forced' BY <2>1 DEF Forced
  <2>9. Exits' BY <1>0, <2>1, <2>3 DEF Exits, Flags, Stopping
  <2>10. DmaWithSlave' BY <1>0, <2>3 DEF DmaWithSlave
  <2> QED BY <2>4, <2>6, <2>7, <2>8, <2>9, <2>10 DEF IInv
<1>4. evnum <= 5 \/ evnum = 6 BY <1>1
<1> QED BY <1>2, <1>3, <1>4

LEMMA ForceLastKeeps ==
  ASSUME IInv, ForceLast
  PROVE  IInv'
<1>0. /\ Base /\ Clocks /\ Heads /\ Forced /\ Exits /\ DmaWithSlave
      /\ pc = "forceEnd" /\ ForceEventUpdates("rebase") /\ UNCHANGED <<SlaveSH2On, mem_ts, eff_ts>>
  BY DEF IInv, ForceLast
<1>1. /\ Good(s) /\ mem_ts \in Nat /\ eff_ts \in Nat /\ HeadTime(s) \in Nat
      /\ mem_ts = eff_ts /\ evnum \in 1 .. 6
      /\ HeadTime(s) > eff_ts /\ \A d \in Device : s.last[d] <= eff_ts
  BY <1>0, BaseNumbers DEF Clocks, Base, Heads
<1>2. CASE evnum <= 5
  <2> DEFINE e == Enum[evnum]
  <2>1. /\ pc' = "forceEnd" /\ evnum' = evnum + 1 /\ e \in Event
        /\ Follows(s, s', eff_ts) /\ (e \in Device => s'.last[e] = eff_ts)
    BY <1>0, <1>2, ForcedIs
  <2>2. /\ HeadTime(s') \in Nat /\ HeadTime(s') > eff_ts
        /\ \A d \in Device : s'.last[d] <= eff_ts
    BY <1>1, <2>1, ClocksFollow
  <2>3. Base' /\ DmaWithSlave'
    <3>1. pc' \in PC /\ evnum' \in 1 .. 6 BY <1>1, <1>2, <2>1 DEF PC
    <3> QED BY <1>0, <2>1, <3>1, BaseFollows
  <2>4. Clocks'
    <3>1. \A d \in Device : s'.last[d] <= HeadTime(s')
      <4>1. \A d \in Device : s'.last[d] \in Nat BY <2>3, BaseNumbers, Times DEF Base, Good, State
      <4> QED BY <1>1, <2>2, <4>1
    <3> QED BY <1>0, <1>1, <2>1, <2>2, <3>1 DEF Clocks
  <2>5. Heads' BY <1>0, <2>1, <2>2 DEF Heads
  <2>6. Forced'
    <3>1. \A i \in 1 .. 5 : i < evnum /\ Enum[i] \in Device => s.last[Enum[i]] = eff_ts
      BY <1>0 DEF Forced
    <3>2. \A i \in 1 .. 5 : i < evnum + 1 /\ Enum[i] \in Device => s'.last[Enum[i]] = eff_ts
      <4> TAKE i \in 1 .. 5
      <4> HAVE i < evnum + 1 /\ Enum[i] \in Device
      <4>1. i = evnum \/ i < evnum BY <1>1
      <4> QED BY <2>1, <3>1, <4>1, LastStays
    <3> QED BY <1>0, <2>1, <3>2 DEF Forced
  <2>7. Exits' BY <1>0, <2>1 DEF Exits, Follows
  <2> QED BY <2>3, <2>4, <2>5, <2>6, <2>7 DEF IInv
<1>3. CASE evnum = 6
  <2>1. s' = [s EXCEPT !.next = NextTs(s)] /\ pc' = "rebase" /\ evnum' = 1
    BY <1>0, <1>3, Events5 DEF ForceEventUpdates
  <2>2. NextTs(s) \in Time BY <1>1, NextTsType
  <2>3. /\ Good(s') /\ s'.time = s.time /\ s'.last = s.last /\ s'.next = NextTs(s)
        /\ s'.Running = s.Running /\ s'.asked = s.asked /\ s'.turns = s.turns
        /\ s'.pending = s.pending
        /\ HeadTime(s') = HeadTime(s) /\ NextTs(s') = NextTs(s)
    BY <1>1, <2>1, <2>2, NextOnly
  <2>4. Base' BY <1>0, <2>1, <2>3 DEF Base, PC
  <2>5. \A d \in Device : s.last[d] = eff_ts
    <3> TAKE d \in Device
    <3>1. PICK i \in 1 .. 5 : Enum[i] = d BY Events5 DEF Event, ToSet, Enum
    <3>2. i < evnum BY <1>3
    <3> QED BY <1>0, <3>1, <3>2 DEF Forced
  <2>6. Clocks' BY <1>0, <1>1, <2>3 DEF Clocks
  <2>7. Heads' BY <1>0, <1>1, <2>1, <2>3 DEF Heads
  <2>8. Forced' BY <1>0, <2>1, <2>3, <2>5 DEF Forced
  <2>9. Exits' BY <1>0, <2>1, <2>3 DEF Exits, Flags, Stopping
  <2>10. DmaWithSlave' BY <1>0, <2>3 DEF DmaWithSlave
  <2> QED BY <2>4, <2>6, <2>7, <2>8, <2>9, <2>10 DEF IInv
<1>4. evnum <= 5 \/ evnum = 6 BY <1>1
<1> QED BY <1>2, <1>3, <1>4

LEMMA TurnKeeps ==
  ASSUME IInv, Turn
  PROVE  IInv'
<1>0. Base /\ Clocks /\ Heads /\ Forced /\ Exits /\ DmaWithSlave BY DEF IInv
<1>1. PICK t \in eff_ts .. eff_ts + MaxStep :
        /\ t <= LastTime
        /\ eff_ts' = IF mem_ts > t THEN mem_ts ELSE t
        /\ mem_ts' = eff_ts'
        /\ pc' = IF eff_ts' < s.next THEN "step" ELSE "events"
  BY DEF Turn
<1>2. /\ pc = "step" /\ UNCHANGED <<SlaveSH2On, evnum>>
      /\ s' = [s EXCEPT !.turns = IF s.asked = "no" THEN 0 ELSE Min({@ + 1, TurnsCap})]
  BY DEF Turn
<1>3. /\ Good(s) /\ mem_ts \in Nat /\ eff_ts \in Nat /\ HeadTime(s) \in Nat
      /\ s.Running \in {-1, 0, 1} /\ s.asked \in {"no", "ehl", "ml"}
      /\ \A d \in Device : s.last[d] \in Nat
  BY <1>0, BaseNumbers
<1>4. /\ s.turns = 0 /\ s.next = NextTs(s) /\ Flags(s) /\ Stopping(s)
      /\ \A d \in Device : s.last[d] <= HeadTime(s) /\ s.last[d] <= mem_ts
  BY <1>0, <1>2 DEF Exits, Heads, Clocks
<1>5. Min({0 + 1, TurnsCap}) = 1
  <2>1. {0 + 1, TurnsCap} \in SUBSET Nat /\ {0 + 1, TurnsCap} # {} BY DEF TurnsCap
  <2>2. /\ Min({0 + 1, TurnsCap}) \in {0 + 1, TurnsCap}
        /\ \A y \in {0 + 1, TurnsCap} : Min({0 + 1, TurnsCap}) <= y
    BY <2>1, LeastIs
  <2> QED BY <2>2 DEF TurnsCap
<1>6. /\ s' \in State /\ s'.queue = s.queue /\ s'.time = s.time /\ s'.last = s.last
      /\ s'.next = s.next /\ s'.Running = s.Running /\ s'.pending = s.pending
      /\ s'.asked = s.asked /\ s'.turns = IF s.asked = "no" THEN 0 ELSE 1
  <2>1. s \in State /\ 0 \in 0 .. TurnsCap /\ 1 \in 0 .. TurnsCap BY <1>3 DEF Good, TurnsCap
  <2> QED BY <1>2, <1>4, <1>5, <2>1 DEF State
<1>7. Good(s') /\ HeadTime(s') = HeadTime(s) /\ NextTs(s') = NextTs(s)
  BY <1>3, <1>6 DEF Good, HeadTime, NextTs, First
<1>8. eff_ts' \in 0 .. LastTime /\ mem_ts' = eff_ts' /\ mem_ts <= mem_ts' /\ pc' \in {"step", "events"}
  BY <1>0, <1>1, <1>3, Times DEF Base
<1>9. pc' = "step" => s.Running = 1 /\ s.asked = "no" /\ HeadTime(s) > eff_ts'
  <2>1. pc' = "step" => eff_ts' < NextTs(s) BY <1>1, <1>4
  <2> QED BY <1>3, <1>4, <1>8, <2>1, Times DEF NextTs, Flags
<1>10. Base' BY <1>0, <1>2, <1>7, <1>8 DEF Base, PC
<1>11. Clocks'
  <2>1. eff_ts' \in Nat /\ mem_ts' \in Nat BY <1>8, Times
  <2> QED BY <1>3, <1>4, <1>6, <1>7, <1>8, <1>9, <2>1 DEF Clocks
<1>12. Heads' BY <1>4, <1>6, <1>7, <1>8, <1>9 DEF Heads
<1>13. Forced' BY <1>0, <1>2, <1>8 DEF Forced
<1>14. Exits' BY <1>4, <1>6, <1>8, <1>9 DEF Exits, Flags, Stopping
<1>15. DmaWithSlave' BY <1>0, <1>2, <1>6 DEF DmaWithSlave
<1> QED BY <1>10, <1>11, <1>12, <1>13, <1>14, <1>15 DEF IInv

LEMMA BusAccessKeeps ==
  ASSUME IInv, BusAccess
  PROVE  IInv'
<1>0. Base /\ Clocks /\ Heads /\ Forced /\ Exits /\ DmaWithSlave BY DEF IInv
<1>1. PICK t \in mem_ts .. mem_ts + MaxStep :
        t <= LastTime /\ mem_ts' = t /\ pc' = IF t >= s.next THEN "nested" ELSE "access"
  BY DEF BusAccess
<1>2. pc = "step" /\ UNCHANGED <<s, SlaveSH2On, eff_ts, evnum>> BY DEF BusAccess
<1>3. /\ Good(s) /\ mem_ts \in Nat /\ eff_ts \in Nat /\ HeadTime(s) \in Nat /\ s.next \in Nat
      /\ \A d \in Device : s.last[d] \in Nat
  BY <1>0, BaseNumbers
<1>4. mem_ts' \in 0 .. LastTime /\ mem_ts <= mem_ts' /\ pc' \in {"nested", "access"}
  BY <1>0, <1>1, <1>3, Times DEF Base
<1>5. pc' = "access" => HeadTime(s) > mem_ts'
  <2>1. pc' = "access" => mem_ts' < NextTs(s) BY <1>0, <1>1, <1>2, <1>3, <1>4, Times DEF Heads
  <2> QED BY <1>3, <1>4, <2>1, Times DEF NextTs
<1>6. Base' BY <1>0, <1>2, <1>4 DEF Base, PC
<1>7. Clocks'
  <2>1. mem_ts' \in Nat BY <1>4, Times
  <2> QED BY <1>0, <1>2, <1>3, <1>4, <2>1 DEF Clocks
<1>8. Heads' BY <1>0, <1>2, <1>4, <1>5 DEF Heads, NextTs, HeadTime, First
<1>9. Forced' BY <1>0, <1>2, <1>4 DEF Forced
<1>10. Exits' BY <1>0, <1>2, <1>4 DEF Exits, Flags, Stopping
<1>11. DmaWithSlave' BY <1>0, <1>2 DEF DmaWithSlave
<1> QED BY <1>6, <1>7, <1>8, <1>9, <1>10, <1>11 DEF IInv

LEMMA AccessKeeps ==
  ASSUME IInv, Access
  PROVE  IInv'
<1>0. /\ Base /\ Clocks /\ Heads /\ Forced /\ Exits /\ DmaWithSlave
      /\ pc = "access" /\ s' \in DeviceAccess(s, mem_ts) /\ pc' = "step"
      /\ UNCHANGED <<SlaveSH2On, mem_ts, eff_ts, evnum>>
  BY DEF IInv, Access
<1>1. /\ Good(s) /\ mem_ts \in Nat /\ eff_ts \in Nat /\ HeadTime(s) \in Nat
      /\ mem_ts \in 0 .. LastTime /\ eff_ts <= mem_ts /\ HeadTime(s) > mem_ts
      /\ \A d \in Device : s.last[d] <= mem_ts
  BY <1>0, BaseNumbers DEF Clocks, Base, Heads
<1>2. Follows(s, s', mem_ts) BY <1>0, <1>1, DeviceAccessIs
<1>3. /\ HeadTime(s') \in Nat /\ HeadTime(s') > mem_ts
      /\ \A d \in Device : s'.last[d] <= mem_ts
  BY <1>1, <1>2, ClocksFollow
<1>4. Base' /\ DmaWithSlave'
  <2>1. pc' \in PC /\ evnum' \in 1 .. 6 BY <1>0 DEF PC, Base
  <2> QED BY <1>0, <1>2, <2>1, BaseFollows
<1>5. Clocks'
  <2>1. \A d \in Device : s'.last[d] \in Nat BY <1>4, BaseNumbers, Times DEF Base, Good, State
  <2> QED BY <1>0, <1>1, <1>3, <2>1 DEF Clocks
<1>6. Heads' BY <1>0, <1>1, <1>2, <1>3 DEF Heads, Follows
<1>7. Forced' BY <1>0 DEF Forced
<1>8. Exits' BY <1>0, <1>2 DEF Exits, Follows
<1> QED BY <1>4, <1>5, <1>6, <1>7, <1>8 DEF IInv

LEMMA EventHandlerKeeps ==
  ASSUME IInv, EventHandler
  PROVE  /\ IInv'
         /\ Follows(s, s', HeadTime(s)) /\ HeadTime(s) \in Nat
         /\ \A d \in Device : s.last[d] <= HeadTime(s)
<1>0. /\ Base /\ Clocks /\ Heads /\ Forced /\ Exits /\ DmaWithSlave
      /\ pc \in {"nested", "events"} /\ Due /\ s' \in Handled(s, First(s), HeadTime(s))
      /\ UNCHANGED <<SlaveSH2On, mem_ts, eff_ts, pc, evnum>>
  BY DEF IInv, EventHandler
<1> DEFINE ts == HeadTime(s)
<1>1. /\ Good(s) /\ mem_ts \in Nat /\ eff_ts \in Nat /\ ts \in Nat
      /\ mem_ts \in 0 .. LastTime
      /\ \A d \in Device : s.last[d] <= ts
  BY <1>0, BaseNumbers DEF Clocks, Base
<1>2. ts <= mem_ts
  <2>1. pc = "events" => mem_ts = eff_ts BY <1>0 DEF Clocks
  <2> QED BY <1>0, <2>1 DEF Due
<1>3. ts \in 0 .. LastTime /\ ts # DISABLED BY <1>1, <1>2, Times
<1>4. First(s) \in Event /\ s.time[First(s)] = ts BY <1>1, HeadIs
<1> HIDE DEF ts
<1>5. Follows(s, s', ts)
  <2>1. s' \in Handled(s, First(s), ts) BY <1>0 DEF ts
  <2>2. s.time[First(s)] # DISABLED BY <1>3, <1>4
  <2> QED BY <1>1, <1>2, <1>3, <1>4, <2>1, <2>2, HandledIs
<1>6. /\ HeadTime(s') \in Nat /\ HeadTime(s') >= ts
      /\ \A d \in Device : s'.last[d] <= ts
  <2>1. HeadTime(s) >= ts BY <1>1 DEF ts
  <2> QED BY <1>1, <1>5, <2>1, ClocksFollow
<1>7. Base' /\ DmaWithSlave'
  <2>1. pc' \in PC /\ evnum' \in 1 .. 6 BY <1>0 DEF Base
  <2> QED BY <1>0, <1>5, <2>1, BaseFollows
<1>8. Clocks'
  <2>1. \A d \in Device : s'.last[d] \in Nat BY <1>7, BaseNumbers, Times DEF Base, Good, State
  <2>2. pc # "events" => ts >= eff_ts BY <1>0 DEF Clocks, ts
  <2> QED BY <1>0, <1>1, <1>2, <1>6, <2>1, <2>2 DEF Clocks
<1>9. Heads'
  <2>1. pc = "nested" => ts > eff_ts BY <1>0 DEF Heads, ts
  <2> QED BY <1>0, <1>1, <1>5, <1>6, <2>1 DEF Heads, Follows
<1>10. Forced' BY <1>0 DEF Forced
<1>11. Exits' BY <1>0, <1>5 DEF Exits, Follows
<1> QED BY <1>1, <1>5, <1>7, <1>8, <1>9, <1>10, <1>11 DEF IInv, ts

LEMMA EventHandlerDoneKeeps ==
  ASSUME IInv, EventHandlerDone
  PROVE  IInv'
<1>0. /\ Base /\ Clocks /\ Heads /\ Forced /\ Exits /\ DmaWithSlave
      /\ pc \in {"nested", "events"} /\ ~Due
      /\ pc' = CASE pc = "nested" -> "access"
                 [] pc = "events" /\ s.Running > 0 -> "step"
                 [] pc = "events" /\ s.Running < 0 -> "start"
                 [] OTHER -> "forceEnd"
      /\ UNCHANGED <<s, SlaveSH2On, mem_ts, eff_ts, evnum>>
  BY DEF IInv, EventHandlerDone
<1>1. /\ mem_ts \in Nat /\ eff_ts \in Nat /\ HeadTime(s) \in Nat
      /\ s.Running \in {-1, 0, 1} /\ s.asked \in {"no", "ehl", "ml"}
  BY <1>0, BaseNumbers
<1>2. /\ pc = "nested" => pc' = "access" /\ HeadTime(s) > mem_ts
      /\ pc = "events" => HeadTime(s) > eff_ts
  BY <1>0, <1>1 DEF Due
<1>3. pc = "events" => \/ pc' = "step" /\ s.Running = 1
                       \/ pc' = "start" /\ s.Running = -1
                       \/ pc' = "forceEnd" /\ s.Running = 0
  BY <1>0, <1>1
<1>4. Base' BY <1>0, <1>2, <1>3 DEF Base, PC
<1>5. Clocks' BY <1>0, <1>1, <1>2, <1>3 DEF Clocks, HeadTime, First
<1>6. Heads' BY <1>0, <1>2, <1>3 DEF Heads, NextTs, HeadTime, First
<1>7. Forced'
  <2>1. evnum = 1 /\ evnum' = 1 BY <1>0 DEF Forced
  <2>2. \A i \in 1 .. 5 : ~(i < 1) OBVIOUS
  <2> QED BY <1>0, <1>2, <1>3, <2>1, <2>2 DEF Forced
<1>8. Exits' BY <1>0, <1>1, <1>2, <1>3 DEF Exits, Flags, Stopping
<1>9. DmaWithSlave' BY <1>0 DEF DmaWithSlave
<1> QED BY <1>4, <1>5, <1>6, <1>7, <1>8, <1>9 DEF IInv

LEMMA RebaseTSKeeps ==
  ASSUME IInv, RebaseTS
  PROVE  IInv'
<1>0. /\ Base /\ Clocks /\ Heads /\ Forced /\ Exits /\ DmaWithSlave
      /\ pc = "rebase" /\ pc' = "between" /\ UNCHANGED <<SlaveSH2On, evnum>>
      /\ mem_ts' = mem_ts - eff_ts /\ eff_ts' = 0
  BY DEF IInv, RebaseTS
<1> DEFINE t == [e \in Event |-> IF s.time[e] = DISABLED THEN DISABLED ELSE s.time[e] - eff_ts]
           l == [d \in Device |-> s.last[d] - eff_ts]
           R == [s EXCEPT !.time = t, !.last = l, !.asked = "no", !.turns = 0]
<1>1. s' = [R EXCEPT !.next = HeadTime(R)] BY DEF RebaseTS
<1>2. /\ Good(s) /\ mem_ts = eff_ts /\ eff_ts \in Nat /\ HeadTime(s) > eff_ts /\ HeadTime(s) \in Nat
      /\ s.Running = 0 /\ \A d \in Device : s.last[d] = eff_ts
      /\ \A e \in Event : s.time[e] \in Nat /\ s.time[e] <= DISABLED /\ HeadTime(s) <= s.time[e]
  <2>1. s.time \in [Event -> Time] BY <1>0 DEF Base, Good, State
  <2>2. \A e \in Event : s.time[e] <= DISABLED BY <2>1, Times
  <2> QED BY <1>0, <2>2, BaseNumbers DEF Clocks, Heads, Exits, Forced
<1>3. \A e \in Event :
        /\ t[e] = (IF s.time[e] = DISABLED THEN DISABLED ELSE s.time[e] - eff_ts)
        /\ t[e] \in Nat /\ t[e] > 0 /\ t[e] <= DISABLED
        /\ t[e] = DISABLED <=> s.time[e] = DISABLED
  <2> TAKE e \in Event
  <2>1. t[e] = IF s.time[e] = DISABLED THEN DISABLED ELSE s.time[e] - eff_ts OBVIOUS
  <2> HIDE DEF t
  <2>2. s.time[e] \in Nat /\ s.time[e] <= DISABLED /\ s.time[e] > eff_ts BY <1>2
  <2>3. eff_ts = 0 \/ eff_ts > 0 BY <1>2
  <2>4. s.time[e] # DISABLED => s.time[e] - eff_ts < DISABLED /\ s.time[e] - eff_ts > 0
                               /\ s.time[e] - eff_ts \in Nat
    BY <1>2, <2>2, <2>3, Times
  <2> QED BY <2>1, <2>2, <2>4, Times
<1>4. t \in [Event -> Time]
  <2>1. t \in [Event -> Nat] /\ \A e \in Event : t[e] \in Time
    <3> HIDE DEF t
    <3>1. \A e \in Event : t[e] \in Time BY <1>3, Times
    <3>2. \A e \in Event : t[e] \in Nat BY <1>3
    <3>3. DOMAIN t = Event /\ t = [e \in Event |-> t[e]] BY DEF t
    <3> QED BY <3>1, <3>2, <3>3
  <2> HIDE DEF t
  <2> QED BY <2>1
<1>5. l \in [Device -> Time] /\ \A d \in Device : l[d] = 0
  <2>1. 0 \in Time BY Times
  <2>2. \A d \in Device : s.last[d] - eff_ts = 0 BY <1>2
  <2> QED BY <2>1, <2>2
<1> HIDE DEF t, l
<1>6. /\ R \in State /\ R.queue = s.queue /\ R.time = t /\ R.last = l /\ R.asked = "no"
      /\ R.turns = 0 /\ R.Running = 0 /\ R.pending = s.pending
  <2>1. s \in State /\ 0 \in 0 .. TurnsCap BY <1>2 DEF Good, TurnsCap
  <2> QED BY <1>2, <1>4, <1>5, <2>1 DEF State
<1> HIDE DEF R
<1>7. Whole(s.queue) /\ InOrderOf(s.queue, t)
  <2>1. Whole(s.queue) /\ InOrderOf(s.queue, s.time) BY <1>2 DEF Good
  <2>2. \A i \in 1 .. 5 : s.queue[i] \in Event BY <2>1, WholeIs
  <2> SUFFICES ASSUME NEW i \in 1 .. 5, NEW j \in 1 .. 5, i < j
               PROVE  t[s.queue[i]] <= t[s.queue[j]]
    BY <2>1 DEF InOrderOf
  <2> DEFINE a == s.queue[i]
             b == s.queue[j]
  <2>3. a \in Event /\ b \in Event /\ s.time[a] <= s.time[b] BY <2>1, <2>2 DEF InOrderOf
  <2> HIDE DEF a, b
  <2>4. t[a] <= t[b]
    <3>1. CASE s.time[b] = DISABLED
      <4>1. t[b] = DISABLED /\ t[a] <= DISABLED BY <1>3, <2>3, <3>1
      <4> QED BY <4>1
    <3>2. CASE s.time[b] # DISABLED
      <4>1. s.time[a] # DISABLED /\ s.time[a] \in Nat /\ s.time[b] \in Nat BY <1>2, <2>3, <3>2, Times
      <4>2. t[a] = s.time[a] - eff_ts /\ t[b] = s.time[b] - eff_ts BY <1>3, <2>3, <3>2, <4>1
      <4> QED BY <1>2, <2>3, <4>1, <4>2
    <3> QED BY <3>1, <3>2
  <2> QED BY <2>4 DEF a, b
<1>8. Good(R)
  <2>1. \A d \in Device : R.time[d] # DISABLED BY <1>2, <1>3, <1>6, Events5 DEF Good
  <2> QED BY <1>6, <1>7, <2>1 DEF Good
<1>9. HeadTime(R) \in Time /\ HeadTime(R) \in Nat /\ HeadTime(R) > 0
  <2>1. First(R) \in Event /\ HeadTime(R) = R.time[First(R)] /\ HeadTime(R) \in Time BY <1>8, HeadIs
  <2> QED BY <1>3, <1>6, <2>1
<1>10. /\ Good(s') /\ s'.time = t /\ s'.last = l /\ s'.asked = "no" /\ s'.turns = 0
       /\ s'.Running = 0 /\ HeadTime(s') = HeadTime(R)
  BY <1>1, <1>6, <1>8, <1>9, NextOnly
<1>11. mem_ts' = 0 /\ eff_ts' = 0 /\ 0 \in 0 .. LastTime BY <1>0, <1>2, Times
<1>12. Base' BY <1>0, <1>10, <1>11 DEF Base, PC
<1>13. Clocks' BY <1>0, <1>5, <1>9, <1>10, <1>11 DEF Clocks
<1>14. Heads' BY <1>0, <1>9, <1>10, <1>11 DEF Heads
<1>15. Forced' BY <1>0 DEF Forced
<1>16. Exits' BY <1>0, <1>10 DEF Exits, Stopping
<1>17. DmaWithSlave'
  <2>1. "SDMA" \in Event BY Events5
  <2>2. s'.time["SDMA"] = DISABLED <=> s.time["SDMA"] = DISABLED BY <1>3, <1>10, <2>1
  <2> QED BY <1>0, <2>2 DEF DmaWithSlave
<1> QED BY <1>12, <1>13, <1>14, <1>15, <1>16, <1>17 DEF IInv

LEMMA NextFrameKeeps ==
  ASSUME IInv, NextFrame
  PROVE  IInv'
<1>0. /\ Base /\ Clocks /\ Heads /\ Forced /\ Exits /\ DmaWithSlave
      /\ pc = "between" /\ pc' = "start" /\ UNCHANGED <<s, SlaveSH2On, mem_ts, eff_ts, evnum>>
  BY DEF IInv, NextFrame
<1>1. Base' BY <1>0 DEF Base, PC
<1>2. Clocks' BY <1>0 DEF Clocks, HeadTime, First
<1>3. Heads' /\ Forced' BY <1>0 DEF Heads, Forced
<1>4. Exits' BY <1>0 DEF Exits, Stopping
<1>5. DmaWithSlave' BY <1>0 DEF DmaWithSlave
<1> QED BY <1>1, <1>2, <1>3, <1>4, <1>5 DEF IInv

LEMMA ResetKeeps ==
  ASSUME IInv, Reset
  PROVE  IInv'
<1>0. /\ Base /\ Clocks /\ Heads /\ Forced /\ Exits /\ DmaWithSlave
      /\ pc = "between" /\ SlaveSH2On' = FALSE /\ UNCHANGED <<mem_ts, eff_ts, pc, evnum>>
      /\ s' = [SetActive(s, FALSE) EXCEPT !.pending = 0]
  BY DEF IInv, Reset
<1>1. /\ Good(s) /\ mem_ts \in Nat /\ eff_ts \in Nat /\ HeadTime(s) \in Nat /\ mem_ts = eff_ts
      /\ \A d \in Device : s.last[d] \in Nat
  BY <1>0, BaseNumbers DEF Clocks
<1>2. Switched(s, s', FALSE)
  <2>1. SlaveSH2On \in BOOLEAN /\ mem_ts \in 0 .. LastTime BY <1>0 DEF Base
  <2>2. s.time["SDMA"] # DISABLED <=> SlaveSH2On BY <1>0 DEF DmaWithSlave
  <2>3. FALSE \in BOOLEAN OBVIOUS
  <2> QED BY <1>0, <1>1, <2>1, <2>2, <2>3, SwitchIs, Zenon
<1>3. HeadTime(s') \in Nat
  <2>1. HeadTime(s') \in Time BY <1>2, HeadIs DEF Switched
  <2> QED BY <2>1, Times
<1>4. Base'
  <2>1. SlaveSH2On' \in BOOLEAN BY <1>0, Zenon
  <2> QED BY <1>0, <1>2, <2>1 DEF Base, Switched
<1>5. Clocks'
  <2>1. HeadTime(s) >= eff_ts /\ \A d \in Device : s.last[d] <= HeadTime(s) /\ s.last[d] <= mem_ts
    BY <1>0 DEF Clocks
  <2>2. s'.last = s.last /\ (HeadTime(s') >= HeadTime(s) \/ HeadTime(s') > mem_ts)
    BY <1>2 DEF Switched
  <2>3. HeadTime(s') >= eff_ts /\ \A d \in Device : s'.last[d] <= HeadTime(s')
    BY <1>1, <1>3, <2>1, <2>2
  <2> QED BY <1>0, <1>1, <2>1, <2>2, <2>3 DEF Clocks
<1>6. Heads' BY <1>0, <1>1, <1>2, <1>3 DEF Heads, Switched
<1>7. Forced' BY <1>0 DEF Forced
<1>8. Exits' BY <1>0, <1>2 DEF Exits, Switched, Stopping
<1>9. DmaWithSlave' BY <1>0, <1>2 DEF DmaWithSlave, Switched
<1> QED BY <1>4, <1>5, <1>6, <1>7, <1>8, <1>9 DEF IInv

LEMMA StepKeeps == IInv /\ [Next]_vars => IInv'
<1> SUFFICES ASSUME IInv, [Next]_vars PROVE IInv' OBVIOUS
<1>1. CASE StartLoop BY <1>1, StartLoopKeeps
<1>2. CASE ForceFirst BY <1>2, ForceFirstKeeps
<1>3. CASE Turn BY <1>3, TurnKeeps
<1>4. CASE BusAccess BY <1>4, BusAccessKeeps
<1>5. CASE Access BY <1>5, AccessKeeps
<1>6. CASE EventHandler BY <1>6, EventHandlerKeeps
<1>7. CASE EventHandlerDone BY <1>7, EventHandlerDoneKeeps
<1>8. CASE ForceLast BY <1>8, ForceLastKeeps
<1>9. CASE RebaseTS BY <1>9, RebaseTSKeeps
<1>10. CASE NextFrame BY <1>10, NextFrameKeeps
<1>11. CASE Reset BY <1>11, ResetKeeps
<1>12. CASE UNCHANGED vars
  <2>1. UNCHANGED <<s, SlaveSH2On, mem_ts, eff_ts, pc, evnum>> BY <1>12 DEF vars
  <2> QED BY <2>1 DEF IInv, Base, Clocks, Heads, Forced, Exits, DmaWithSlave, HeadTime, First,
                      NextTs, Flags, Stopping
<1> QED BY <1>1, <1>2, <1>3, <1>4, <1>5, <1>6, <1>7, <1>8, <1>9, <1>10, <1>11, <1>12 DEF Next

LEMMA Invariant == Spec => []IInv
<1>1. Init => IInv BY InitIInv
<1>2. IInv /\ [Next]_vars => IInv' BY StepKeeps
<1> QED BY <1>1, <1>2, PTL DEF Spec

----------------------------------------------------------------------------
(* The theorems *)

\* Every variable keeps its type, and the list holds every event exactly once,
\* whatever handlers nested in handlers do to it.
THEOREM TypesCorrect == Spec => []TypeOK
<1>1. IInv => TypeOK BY BaseTypes DEF IInv
<1> QED BY <1>1, Invariant, PTL

Sorted == InOrderOf(s.queue, s.time)

\* The list is in the order of time: EventHandler and the inner loop look at
\* its head only.
THEOREM ListStaysSorted == Spec => []Sorted
<1>1. IInv => Sorted BY DEF IInv, Base, Good, Sorted
<1> QED BY <1>1, Invariant, PTL

\* No event is overdue while the CPUs run or a device is reached, and
\* next_event_ts never hides one from the inner loop.
THEOREM NoEventOverdue == Spec => []NothingOverdue
<1>1. IInv => NothingOverdue BY DEF IInv, Heads, NothingOverdue
<1> QED BY <1>1, Invariant, PTL

\* A loop that was told to stop, by a handler at any depth, executes at most
\* one more turn.
THEOREM ExitIsPrompt == Spec => []PromptExit
<1>1. IInv => PromptExit BY DEF IInv, Exits, PromptExit
<1> QED BY <1>1, Invariant, PTL

\* The loop does not go on with a switch of the slave to be made.
THEOREM SwitchesAreMade == Spec => []SwitchStops
<1>1. IInv => SwitchStops BY DEF IInv, Exits, Stopping, SwitchStops
<1> QED BY <1>1, Invariant, PTL

\* RebaseTS finds no event at or before the end of the frame.
THEOREM RebaseIsSafe == Spec => []RebaseHolds
<1>1. IInv => RebaseHolds BY DEF IInv, Heads, RebaseHolds
<1> QED BY <1>1, Invariant, PTL

\* The slave's DMA event is live exactly while the slave is on.
THEOREM DmaFollowsSlave == Spec => []DmaWithSlave
<1>1. IInv => DmaWithSlave BY DEF IInv
<1> QED BY <1>1, Invariant, PTL

\* No step but the rebase brings a device back to an earlier time.
LEMMA StepInOrder ==
  IInv /\ [Next]_vars => [pc # "rebase" => \A d \in Device : s'.last[d] >= s.last[d]]_vars
<1> SUFFICES ASSUME IInv, Next, pc # "rebase", NEW d \in Device PROVE s'.last[d] >= s.last[d]
  OBVIOUS
<1>0. Base /\ Clocks /\ Heads /\ Forced BY DEF IInv
<1>1. Good(s) /\ mem_ts \in Nat /\ eff_ts \in Nat /\ HeadTime(s) \in Nat /\ s.last[d] \in Nat
  BY <1>0, BaseNumbers
<1>2. CASE s'.last = s.last BY <1>1, <1>2
<1>3. CASE StartLoop
  <2>1. s'.last = SwitchSlave(s).last
    <3>1. s' = [SwitchSlave(s) EXCEPT !.Running = 1,
                                      !.asked = IF s.asked = "ehl" THEN "no" ELSE @,
                                      !.turns = IF s.asked = "ehl" THEN 0 ELSE @]
      BY <1>3 DEF StartLoop
    <3> QED BY <3>1
  <2>2. SwitchSlave(s).last = s.last
    <3>1. CASE s.pending = 0 BY <3>1 DEF SwitchSlave
    <3>2. CASE s.pending # 0
      <4>1. SwitchSlave(s) = [SetActive(s, s.pending > 0) EXCEPT !.pending = 0]
        BY <3>2 DEF SwitchSlave
      <4>2. SlaveSH2On \in BOOLEAN /\ mem_ts \in 0 .. LastTime /\ (s.pending > 0) \in BOOLEAN
        BY <1>0, <1>1 DEF Base, Good, State
      <4>3. s.time["SDMA"] # DISABLED <=> SlaveSH2On BY DEF IInv, DmaWithSlave
      <4>4. Switched(s, SwitchSlave(s), s.pending > 0)
        BY <1>1, <4>1, <4>2, <4>3, SwitchIs, Zenon
      <4> QED BY <4>4 DEF Switched
    <3> QED BY <3>1, <3>2
  <2> QED BY <1>1, <2>1, <2>2
<1>4. CASE (ForceFirst \/ ForceLast) /\ evnum <= 5
  <2>1. PICK end \in {"step", "rebase"} : ForceEventUpdates(end)
    BY <1>4 DEF ForceFirst, ForceLast
  <2>2. pc \in {"force", "forceEnd"} BY <1>4 DEF ForceFirst, ForceLast
  <2>3. Follows(s, s', eff_ts) BY <1>4, <2>1, <2>2, ForcedIs
  <2>4. HeadTime(s) >= eff_ts /\ \A f \in Device : s.last[f] <= eff_ts BY <1>0, <2>2 DEF Clocks
  <2>5. s.last[d] <= s'.last[d] BY <1>1, <2>3, <2>4, ClocksFollow
  <2> QED BY <2>5
<1>5. CASE (ForceFirst \/ ForceLast) /\ evnum > 5
  <2>1. s' = [s EXCEPT !.next = NextTs(s)]
    <3>1. ~(evnum <= Len(Enum)) BY <1>0, <1>5, Events5 DEF Base
    <3>2. PICK end \in {"step", "rebase"} : ForceEventUpdates(end)
      BY <1>5 DEF ForceFirst, ForceLast
    <3> QED BY <3>1, <3>2 DEF ForceEventUpdates
  <2> QED BY <1>1, <2>1
<1>6. CASE Access
  <2>1. s' \in DeviceAccess(s, mem_ts) /\ pc = "access" /\ mem_ts \in 0 .. LastTime
    BY <1>0, <1>6 DEF Access, Base
  <2>2. Follows(s, s', mem_ts) BY <1>1, <2>1, DeviceAccessIs
  <2>3. HeadTime(s) > mem_ts /\ \A f \in Device : s.last[f] <= mem_ts
    BY <1>0, <2>1 DEF Clocks, Heads
  <2>4. HeadTime(s) >= mem_ts BY <1>1, <2>3
  <2>5. s.last[d] <= s'.last[d] BY <1>1, <2>2, <2>3, <2>4, ClocksFollow
  <2> QED BY <2>5
<1>7. CASE EventHandler
  <2>1. /\ Follows(s, s', HeadTime(s)) /\ HeadTime(s) \in Nat
        /\ \A f \in Device : s.last[f] <= HeadTime(s)
    BY <1>7, EventHandlerKeeps
  <2>2. HeadTime(s) >= HeadTime(s) BY <2>1
  <2>3. s.last[d] <= s'.last[d] BY <2>1, <2>2, ClocksFollow
  <2> QED BY <2>3
<1>8. CASE Turn
  <2>1. s' = [s EXCEPT !.turns = IF s.asked = "no" THEN 0 ELSE Min({@ + 1, TurnsCap})]
    BY <1>8 DEF Turn
  <2> QED BY <1>1, <2>1
<1>9. CASE BusAccess \/ EventHandlerDone \/ NextFrame
  BY <1>1, <1>9 DEF BusAccess, EventHandlerDone, NextFrame
<1>10. CASE RebaseTS BY <1>10 DEF RebaseTS
<1>11. CASE Reset
  <2>1. s' = [SetActive(s, FALSE) EXCEPT !.pending = 0] BY <1>11 DEF Reset
  <2>2. SlaveSH2On \in BOOLEAN /\ mem_ts \in 0 .. LastTime /\ FALSE \in BOOLEAN BY <1>0 DEF Base
  <2>3. s.time["SDMA"] # DISABLED <=> SlaveSH2On BY DEF IInv, DmaWithSlave
  <2>4. Switched(s, s', FALSE) BY <1>1, <2>1, <2>2, <2>3, SwitchIs, Zenon
  <2> QED BY <1>1, <2>4 DEF Switched
<1>12. evnum <= 5 \/ evnum > 5 BY <1>0 DEF Base
<1> QED BY <1>3, <1>4, <1>5, <1>6, <1>7, <1>8, <1>9, <1>10, <1>11, <1>12 DEF Next

\* Devices are brought up to date in the order of time.
THEOREM DevicesInTemporalOrder == Spec => InTemporalOrder
<1>1. IInv /\ [Next]_vars => [pc # "rebase" => \A d \in Device : s'.last[d] >= s.last[d]]_vars
  BY StepInOrder
<1> QED BY <1>1, Invariant, PTL DEF Spec, InTemporalOrder
=============================================================================
