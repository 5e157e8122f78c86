------------------------ MODULE TradingSession_proofs ------------------------
(***************************************************************************)
(* What TLAPS proves of the trading hours, for a week of any length, any   *)
(* calendar of windows and any closure: that evaluate says what the        *)
(* calendar means, that a prompt engine is flat across every close, and    *)
(* that a round that is frozen all the same is reported.                   *)
(***************************************************************************)
EXTENDS TradingSession, WellFoundedInduction, TLAPS

-----------------------------------------------------------------------------
(***************************************************************************)
(* Arithmetic modulo the week.                                             *)
(***************************************************************************)
\* A multiple that is not zero is no nearer to zero than the factor.
LEMMA ProductAbove ==
    ASSUME NEW w \in Nat \ {0}, NEW q \in Int
    PROVE  /\ w * q \in Int
           /\ q >= 1 => w * q >= w
           /\ q <= -1 => w * q <= -w
           /\ q = 0 => w * q = 0
<1>1. w * q \in Int
  BY SMT
<1>2. q >= 1 => w * q >= w
  <2>1. q >= 1 => w * (q - 1) >= 0
    BY SMT
  <2>2. w * (q - 1) = w * q - w
    BY SMT
  <2> QED
    BY <1>1, <2>1, <2>2, SMT
<1>3. q <= -1 => w * q <= -w
  <2>1. q <= -1 => w * (-1 - q) >= 0
    BY SMT
  <2>2. w * (-1 - q) = -w - w * q
    BY SMT
  <2> QED
    BY <1>1, <2>1, <2>2, SMT
<1> QED
  BY <1>1, <1>2, <1>3, SMT

LEMMA ModSplit ==
    ASSUME NEW w \in Nat \ {0}, NEW x \in Int
    PROVE  \E q \in Int : x = w * q + (x % w) /\ x % w \in 0 .. w - 1
<1>1. x % w \in 0 .. w - 1
  BY SMT
<1>2. x = w * (x \div w) + (x % w)
  BY SMT
<1>3. x \div w \in Int
  BY SMT
<1> QED
  BY <1>1, <1>2, <1>3, Zenon

\* The remainder is the only one.
LEMMA ModUnique ==
    ASSUME NEW w \in Nat \ {0}, NEW q \in Int, NEW r \in 0 .. w - 1
    PROVE  (w * q + r) % w = r
<1>1. w * q + r \in Int /\ w * q \in Int
  BY SMT
<1>2. PICK p \in Int : /\ w * q + r = w * p + ((w * q + r) % w)
                      /\ (w * q + r) % w \in 0 .. w - 1
  BY <1>1, ModSplit
<1>3. PICK s \in 0 .. w - 1 : s = (w * q + r) % w
  BY <1>2
<1>4. w * (q - p) = s - r
  <2>1. w * (q - p) = w * q - w * p /\ w * p \in Int
    BY SMT
  <2> QED
    BY <1>1, <1>2, <1>3, <2>1, SMT
<1>5. q - p \in Int
  BY SMT
<1>6. s - r < w /\ s - r > -w
  BY SMT
<1>7. q - p = 0
  BY <1>4, <1>5, <1>6, ProductAbove, SMT
<1>8. s = r
  BY <1>4, <1>7, ProductAbove, SMT
<1> QED
  BY <1>3, <1>8

\* What the remainder is within a week of the first one, on either side.
LEMMA ModNear ==
    ASSUME NEW w \in Nat \ {0}, NEW x \in Int
    PROVE  /\ x \in 0 .. w - 1 => x % w = x
           /\ x \in w .. 2 * w - 1 => x % w = x - w
           /\ x \in -w .. -1 => x % w = x + w
<1>1. ASSUME x \in 0 .. w - 1 PROVE x % w = x
  <2>1. w * 0 + x = x
    BY SMT
  <2> QED
    BY <1>1, <2>1, ModUnique, SMT
<1>2. ASSUME x \in w .. 2 * w - 1 PROVE x % w = x - w
  <2>1. w * 1 + (x - w) = x /\ x - w \in 0 .. w - 1
    BY <1>2, SMT
  <2> QED
    BY <2>1, ModUnique, SMT
<1>3. ASSUME x \in -w .. -1 PROVE x % w = x + w
  <2>1. w * (-1) + (x + w) = x /\ x + w \in 0 .. w - 1
    BY <1>3, SMT
  <2> QED
    BY <2>1, ModUnique, SMT
<1> QED
  BY <1>1, <1>2, <1>3

\* The remainder may be taken before a shift or after it.
LEMMA ModShift ==
    ASSUME NEW w \in Nat \ {0}, NEW x \in Int, NEW y \in Int
    PROVE  ((x % w) + y) % w = (x + y) % w
<1>1. PICK q \in Int : x = w * q + (x % w) /\ x % w \in 0 .. w - 1
  BY ModSplit
<1>2. PICK r \in 0 .. w - 1 : r = x % w
  BY <1>1
<1>3. r + y \in Int
  BY SMT
<1>4. PICK p \in Int : r + y = w * p + ((r + y) % w) /\ (r + y) % w \in 0 .. w - 1
  BY <1>3, ModSplit
<1>5. PICK s \in 0 .. w - 1 : s = (r + y) % w
  BY <1>4
<1>6. x + y = w * (q + p) + s /\ q + p \in Int
  <2>1. w * (q + p) = w * q + w * p /\ w * q \in Int /\ w * p \in Int
    BY SMT
  <2> QED
    BY <1>1, <1>2, <1>4, <1>5, <2>1, SMT
<1>7. (x + y) % w = s
  BY <1>6, ModUnique
<1> QED
  BY <1>2, <1>5, <1>7

-----------------------------------------------------------------------------
(***************************************************************************)
(* The calendar.                                                           *)
(***************************************************************************)
\* Min of natural numbers is the least of them.
LEMMA LeastOf ==
    ASSUME NEW S \in SUBSET Nat, S # {}
    PROVE  Min(S) \in S /\ \A n \in S : Min(S) <= n
<1> DEFINE R == OpToRel(<, Nat)
<1>1. PICK m \in S : \A n \in S : <<n, m>> \notin R
  <2>1. IsWellFoundedOn(R, Nat)
    BY NatLessThanWellFounded
  <2> HIDE DEF R
  <2> QED
    BY <2>1, WFMin, Zenon
<1>2. ASSUME NEW n \in S PROVE m <= n
  <2>1. n < m => <<n, m>> \in R
    BY SMT DEF OpToRel
  <2> HIDE DEF R
  <2> QED
    BY <1>1, <2>1, SMT
<1> HIDE DEF R
<1> QED
  BY <1>2, Zenon DEF Min

\* The way ahead, and the moment it leads to, without the remainder.
LEMMA AheadIs ==
    ASSUME NEW a \in Moment, NEW b \in Moment
    PROVE  Ahead(a, b) \in Moment /\ Ahead(a, b) = IF a <= b THEN b - a ELSE b - a + Week
<1>1. b - a \in Int /\ (a <= b => b - a \in 0 .. Week - 1) /\ (~(a <= b) => b - a \in -Week .. -1)
  BY WeekAssumption, SMT DEF Moment
<1>2. (a <= b => (b - a) % Week = b - a) /\ (~(a <= b) => (b - a) % Week = b - a + Week)
  BY <1>1, WeekAssumption, ModNear, Zenon
<1>3. Ahead(a, b) = IF a <= b THEN b - a ELSE b - a + Week
  BY <1>2, Zenon DEF Ahead
<1> QED
  BY <1>3, WeekAssumption, SMT DEF Moment

LEMMA LaterIs ==
    ASSUME NEW t \in Moment, NEW d \in 0 .. Week
    PROVE  Later(t, d) \in Moment /\ Later(t, d) = IF t + d < Week THEN t + d ELSE t + d - Week
<1>1. PICK x \in Int : x = t + d
  BY WeekAssumption, SMT DEF Moment
<1>2. x < Week => x % Week = x
  <2>1. x < Week => x \in 0 .. Week - 1
    BY <1>1, WeekAssumption, SMT DEF Moment
  <2> QED
    BY <2>1, WeekAssumption, ModNear, Zenon
<1>3. ~(x < Week) => x % Week = x - Week
  <2>1. ~(x < Week) => x \in Week .. 2 * Week - 1
    BY <1>1, WeekAssumption, SMT DEF Moment
  <2> QED
    BY <2>1, WeekAssumption, ModNear, Zenon
<1>4. Later(t, d) = IF t + d < Week THEN t + d ELSE t + d - Week
  <2>1. Later(t, d) = x % Week
    BY <1>1, Zenon DEF Later
  <2>2. Later(t, d) = IF x < Week THEN x ELSE x - Week
    BY <1>2, <1>3, <2>1, Zenon
  <2> QED
    BY <1>1, <2>2, WeekAssumption, SMT DEF Moment
<1> QED
  BY <1>4, WeekAssumption, SMT DEF Moment

LEMMA LaterMoment ==
    ASSUME NEW t \in Int, NEW d \in Int
    PROVE  Later(t, d) \in Moment
BY WeekAssumption, SMT DEF Later, Moment

\* They undo each other.
LEMMA LaterAhead ==
    ASSUME NEW a \in Moment, NEW b \in Moment
    PROVE  Later(a, Ahead(a, b)) = b
<1>1. PICK d \in Moment : d = Ahead(a, b) /\ d = IF a <= b THEN b - a ELSE b - a + Week
  BY AheadIs, Zenon
<1>2. d \in 0 .. Week
  BY WeekAssumption, SMT DEF Moment
<1>3. Later(a, d) = IF a + d < Week THEN a + d ELSE a + d - Week
  BY <1>2, LaterIs, Zenon
<1>4. Later(a, d) = b
  BY <1>1, <1>3, WeekAssumption, SMT DEF Moment
<1> QED
  BY <1>1, <1>4, Zenon

LEMMA AheadLater ==
    ASSUME NEW a \in Moment, NEW k \in Moment
    PROVE  Ahead(a, Later(a, k)) = k
<1>1. k \in 0 .. Week
  BY WeekAssumption, SMT DEF Moment
<1>2. PICK b \in Moment : b = Later(a, k) /\ b = IF a + k < Week THEN a + k ELSE a + k - Week
  BY <1>1, LaterIs, Zenon
<1>3. Ahead(a, b) = IF a <= b THEN b - a ELSE b - a + Week
  BY AheadIs, Zenon
<1>4. Ahead(a, b) = k
  BY <1>2, <1>3, WeekAssumption, SMT DEF Moment
<1> QED
  BY <1>2, <1>4, Zenon

\* A window as the code tests it is the window as the calendar means it.
LEMMA ContainsMeans ==
    ASSUME NEW w \in Window, NEW t \in Moment
    PROVE  Contains(w, t) <=>
             \E k \in Moment : /\ Later(w.open, k) = t
                               /\ \A j \in 0 .. k : Later(w.open, j) # w.close
<1> DEFINE a == w.open
           c == w.close
<1>1. a \in Moment /\ c \in Moment
  BY Zenon DEF Window
<1> HIDE DEF a, c
<1>2. Ahead(a, c) \in Moment /\ Later(a, Ahead(a, c)) = c
  BY <1>1, AheadIs, LaterAhead, Zenon
<1>3. ASSUME Ahead(a, t) < Ahead(a, c)
      PROVE  \E k \in Moment : Later(a, k) = t /\ \A j \in 0 .. k : Later(a, j) # c
  <2>1. Ahead(a, t) \in Moment /\ Later(a, Ahead(a, t)) = t
    BY <1>1, AheadIs, LaterAhead, Zenon
  <2>2. ASSUME NEW j \in 0 .. Ahead(a, t), Later(a, j) = c PROVE FALSE
    <3>1. j \in Moment /\ j < Ahead(a, c)
      <4>1. PICK x \in Moment, y \in Moment : x = Ahead(a, t) /\ y = Ahead(a, c)
        BY <1>2, <2>1, Zenon
      <4>2. j \in 0 .. x /\ x < y
        BY <1>3, <2>2, <4>1, Zenon
      <4>3. j \in Moment /\ j < y
        BY <4>2, WeekAssumption, SMT DEF Moment
      <4> QED
        BY <4>1, <4>3, Zenon
    <3>2. Ahead(a, c) = j
      BY <1>1, <2>2, <3>1, AheadLater, Zenon
    <3>3. ~(j < j)
      BY <3>1, SMT DEF Moment
    <3> QED
      BY <3>1, <3>2, <3>3, Zenon
  <2> QED
    BY <2>1, <2>2, Zenon
<1>4. ASSUME NEW k \in Moment, Later(a, k) = t, \A j \in 0 .. k : Later(a, j) # c
      PROVE  Ahead(a, t) < Ahead(a, c)
  <2>1. Ahead(a, t) = k
    BY <1>1, <1>4, AheadLater, Zenon
  <2>2. Ahead(a, c) \notin 0 .. k
    BY <1>2, <1>4, Zenon
  <2>3. PICK y \in Moment : y = Ahead(a, c)
    BY <1>2, Zenon
  <2>4. y \notin 0 .. k
    BY <2>2, <2>3, Zenon
  <2>5. k < y
    BY <2>4, WeekAssumption, SMT DEF Moment
  <2> QED
    BY <2>1, <2>3, <2>5, Zenon
<1> QED
  BY <1>3, <1>4, Zenon DEF Contains, a, c

LEMMA OpenAtMeans ==
    ASSUME hours \in Schedules, NEW t \in Moment
    PROVE  /\ Windows \subseteq Window
           /\ OpenAt(t) <=> \E w \in Windows : Contains(w, t)
<1>1. Windows \subseteq Window
  BY ConfigAssumption, SMT DEF Windows
<1> QED
  BY <1>1, ContainsMeans, Zenon DEF OpenAt

\* What evaluate returns.
LEMMA EvaluateSays ==
    ASSUME hours \in Schedules, NEW t \in Moment
    PROVE  LET s == Evaluate(t)
               inside == {w \in Windows : Contains(w, t)}
           IN  /\ hours.enabled \in BOOLEAN /\ s.enabled = hours.enabled /\ s.open \in BOOLEAN
               /\ s.open <=> (hours.enabled => inside # {})
               /\ ~hours.enabled => s.toClose = None
               /\ hours.enabled /\ inside = {} => s.toClose = 0
               /\ hours.enabled /\ inside # {} =>
                     /\ \E w \in inside : s.toClose = Ahead(t, w.close)
                     /\ \A w \in inside : s.toClose <= Ahead(t, w.close)
               /\ ~hours.enabled \/ inside # {} \/ Windows = {} => s.toOpen = None
               /\ hours.enabled /\ inside = {} /\ Windows # {} =>
                     /\ \E w \in Windows : s.toOpen = Ahead(t, w.open)
                     /\ \A w \in Windows : s.toOpen <= Ahead(t, w.open)
<1> DEFINE s == Evaluate(t)
           inside == {w \in Windows : Contains(w, t)}
           closes == {Ahead(t, w.close) : w \in inside}
           opens == {Ahead(t, w.open) : w \in Windows}
<1>1. hours.enabled \in BOOLEAN
  BY ConfigAssumption, SMT
<1>2. /\ s.enabled = hours.enabled
      /\ s.open = (hours.enabled => inside # {})
      /\ s.toClose = IF ~hours.enabled THEN None ELSE IF inside = {} THEN 0 ELSE Min(closes)
      /\ s.toOpen = IF ~hours.enabled \/ inside # {} \/ Windows = {} THEN None ELSE Min(opens)
  BY Zenon DEF Evaluate
<1>3. closes \in SUBSET Nat /\ opens \in SUBSET Nat
  <2>1. \A w \in Windows : w.open \in Moment /\ w.close \in Moment
    BY OpenAtMeans, Zenon DEF Window
  <2>2. Moment \subseteq Nat
    BY WeekAssumption, SMT DEF Moment
  <2>3. \A w \in Windows : Ahead(t, w.close) \in Nat /\ Ahead(t, w.open) \in Nat
    BY <2>1, <2>2, AheadIs, Zenon
  <2> QED
    BY <2>3, Zenon
<1>4. inside # {} => Min(closes) \in closes /\ \A w \in inside : Min(closes) <= Ahead(t, w.close)
  <2>1. inside # {} => closes # {}
    BY Zenon
  <2> HIDE DEF closes
  <2>2. inside # {} => Min(closes) \in closes /\ \A n \in closes : Min(closes) <= n
    BY <1>3, <2>1, LeastOf, Zenon
  <2> QED
    BY <2>2, Zenon DEF closes
<1>5. Windows # {} => Min(opens) \in opens /\ \A w \in Windows : Min(opens) <= Ahead(t, w.open)
  <2>1. Windows # {} => opens # {}
    BY Zenon
  <2> HIDE DEF opens
  <2>2. Windows # {} => Min(opens) \in opens /\ \A n \in opens : Min(opens) <= n
    BY <1>3, <2>1, LeastOf, Zenon
  <2> QED
    BY <2>2, Zenon DEF opens
<1>6. s.open \in BOOLEAN /\ (s.open <=> (hours.enabled => inside # {}))
  BY <1>2, Zenon
<1> HIDE DEF s
<1> QED
  BY <1>1, <1>2, <1>4, <1>5, <1>6, Zenon DEF s

\* A moment in a window stays in it until the window's close ...
LEMMA InsideUntilClose ==
    ASSUME NEW a \in Moment, NEW c \in Moment, NEW t \in Moment, NEW d \in Nat,
           Ahead(a, t) < Ahead(a, c), d < Ahead(t, c)
    PROVE  Later(t, d) \in Moment /\ Ahead(a, Later(t, d)) < Ahead(a, c)
<1>1. PICK x \in Moment, y \in Moment, z \in Moment :
        /\ x = Ahead(a, t) /\ x = IF a <= t THEN t - a ELSE t - a + Week
        /\ y = Ahead(a, c) /\ y = IF a <= c THEN c - a ELSE c - a + Week
        /\ z = Ahead(t, c) /\ z = IF t <= c THEN c - t ELSE c - t + Week
  BY AheadIs, Zenon
<1>2. x < y /\ d < z
  BY <1>1, Zenon
<1>3. d \in 0 .. Week
  BY <1>2, WeekAssumption, SMT DEF Moment
<1>4. PICK u \in Moment : u = Later(t, d) /\ u = IF t + d < Week THEN t + d ELSE t + d - Week
  BY <1>3, LaterIs, Zenon
<1>5. PICK v \in Moment : v = Ahead(a, u) /\ v = IF a <= u THEN u - a ELSE u - a + Week
  BY AheadIs, Zenon
<1>6. v < y
  BY <1>1, <1>2, <1>4, <1>5, WeekAssumption, SMT DEF Moment
<1> QED
  BY <1>1, <1>4, <1>5, <1>6, Zenon

\* ... and one before the window's open that is in it has been in it before.
LEMMA NotBeforeOpen ==
    ASSUME NEW a \in Moment, NEW c \in Moment, NEW t \in Moment, NEW d \in Nat,
           d < Ahead(t, a), Ahead(a, Later(t, d)) < Ahead(a, c)
    PROVE  Later(t, d) \in Moment /\ Ahead(a, t) < Ahead(a, c)
<1>1. PICK x \in Moment, y \in Moment, z \in Moment :
        /\ x = Ahead(a, t) /\ x = IF a <= t THEN t - a ELSE t - a + Week
        /\ y = Ahead(a, c) /\ y = IF a <= c THEN c - a ELSE c - a + Week
        /\ z = Ahead(t, a) /\ z = IF t <= a THEN a - t ELSE a - t + Week
  BY AheadIs, Zenon
<1>2. d < z
  BY <1>1, Zenon
<1>3. d \in 0 .. Week
  BY <1>2, WeekAssumption, SMT DEF Moment
<1>4. PICK u \in Moment : u = Later(t, d) /\ u = IF t + d < Week THEN t + d ELSE t + d - Week
  BY <1>3, LaterIs, Zenon
<1>5. PICK v \in Moment : v = Ahead(a, u) /\ v = IF a <= u THEN u - a ELSE u - a + Week
  BY AheadIs, Zenon
<1>6. v < y
  BY <1>1, <1>4, <1>5, Zenon
<1>7. x < y
  BY <1>1, <1>2, <1>4, <1>5, <1>6, WeekAssumption, SMT DEF Moment
<1> QED
  BY <1>1, <1>4, <1>7, Zenon

\* Whatever the calendar, evaluate announces the close that comes.
LEMMA ClosesAreSaid ==
    ASSUME hours \in Schedules, now \in Moment
    PROVE  ClosesWhenSaid
<1> DEFINE s == Evaluate(now)
           inside == {w \in Windows : Contains(w, now)}
<1> SUFFICES ASSUME hours.enabled
             PROVE  /\ s.open <=> OpenAt(now)
                    /\ s.open => \A d \in 1 .. s.toClose - 1 : OpenAt(Later(now, d))
                    /\ (s.open /\ \A v, w \in Windows : ~Contains(v, w.close))
                           => ~OpenAt(Later(now, s.toClose))
  BY Zenon DEF ClosesWhenSaid
<1>1. s.open <=> inside # {}
  BY EvaluateSays, Zenon
<1>2. s.open <=> OpenAt(now)
  BY <1>1, OpenAtMeans, Zenon
<1> SUFFICES ASSUME s.open
             PROVE  /\ \A d \in 1 .. s.toClose - 1 : OpenAt(Later(now, d))
                    /\ (\A v, w \in Windows : ~Contains(v, w.close))
                           => ~OpenAt(Later(now, s.toClose))
  BY <1>2, Zenon
<1>3. PICK w \in inside : s.toClose = Ahead(now, w.close)
  BY <1>1, EvaluateSays, Zenon
<1>4. w \in Windows /\ w.open \in Moment /\ w.close \in Moment /\ Contains(w, now)
  BY <1>3, OpenAtMeans, Zenon DEF Window
<1> HIDE DEF s, inside
<1>5. ASSUME NEW d \in 1 .. s.toClose - 1 PROVE OpenAt(Later(now, d))
  <2>1. PICK n \in Moment : n = Ahead(now, w.close)
    BY <1>4, AheadIs, Zenon
  <2>2. d \in 1 .. n - 1
    BY <1>3, <1>5, <2>1, Zenon
  <2>3. d \in Nat /\ d < n
    BY <2>2, WeekAssumption, SMT DEF Moment
  <2>4. Later(now, d) \in Moment /\ Contains(w, Later(now, d))
    BY <1>4, <2>1, <2>3, InsideUntilClose, Zenon DEF Contains
  <2> QED
    BY <1>4, <2>4, OpenAtMeans, Zenon
<1>6. (\A v, x \in Windows : ~Contains(v, x.close)) => ~OpenAt(Later(now, s.toClose))
  <2>1. Later(now, s.toClose) = w.close
    BY <1>3, <1>4, LaterAhead, Zenon
  <2> QED
    BY <1>4, <2>1, OpenAtMeans, Zenon
<1> QED
  BY <1>5, <1>6, Zenon

\* Whatever the calendar, evaluate announces the open that comes.
LEMMA OpensAreSaid ==
    ASSUME hours \in Schedules, now \in Moment
    PROVE  ReopensWhenSaid
<1> DEFINE s == Evaluate(now)
           inside == {w \in Windows : Contains(w, now)}
<1> SUFFICES ASSUME s.toOpen # None, \A w \in Windows : w.open # w.close
             PROVE  /\ OpenAt(Later(now, s.toOpen))
                    /\ \A d \in 0 .. s.toOpen - 1 : ~OpenAt(Later(now, d))
  BY Zenon DEF ReopensWhenSaid
<1>1. inside = {} /\ Windows # {} /\ hours.enabled
  BY EvaluateSays, Zenon
<1>2. PICK w \in Windows : s.toOpen = Ahead(now, w.open)
  BY <1>1, EvaluateSays, Zenon
<1>3. \A v \in Windows : s.toOpen <= Ahead(now, v.open)
  BY <1>1, EvaluateSays, Zenon
<1>4. \A v \in Windows : v.open \in Moment /\ v.close \in Moment /\ v.open # v.close
  BY OpenAtMeans, Zenon DEF Window
<1>5. \A v \in Windows : ~(Ahead(v.open, now) < Ahead(v.open, v.close))
  BY <1>1, Zenon DEF Contains
<1> HIDE DEF s, inside
<1>6. OpenAt(Later(now, s.toOpen))
  <2>1. Later(now, s.toOpen) = w.open
    BY <1>2, <1>4, LaterAhead, Zenon
  <2>2. PICK y \in Moment : y = Ahead(w.open, w.close)
             /\ y = IF w.open <= w.close THEN w.close - w.open ELSE w.close - w.open + Week
    BY <1>4, AheadIs, Zenon
  <2>3. PICK z \in Moment : z = Ahead(w.open, w.open)
             /\ z = IF w.open <= w.open THEN w.open - w.open ELSE w.open - w.open + Week
    BY <1>4, AheadIs, Zenon
  <2>4. z < y
    BY <1>4, <2>2, <2>3, WeekAssumption, SMT DEF Moment
  <2>5. Contains(w, w.open)
    BY <2>2, <2>3, <2>4, Zenon DEF Contains
  <2> QED
    BY <1>4, <2>1, <2>5, OpenAtMeans, Zenon
<1>7. ASSUME NEW d \in 0 .. s.toOpen - 1, OpenAt(Later(now, d)) PROVE FALSE
  <2>1. PICK n \in Moment : n = Ahead(now, w.open)
    BY <1>2, <1>4, AheadIs, Zenon
  <2>2. d \in 0 .. n - 1
    BY <1>2, <1>7, <2>1, Zenon
  <2>3. d \in Nat /\ d \in Int /\ now \in Int /\ d < n
    BY <2>2, WeekAssumption, SMT DEF Moment
  <2>4. Later(now, d) \in Moment
    BY <2>3, LaterMoment, Zenon
  <2>5. PICK v \in Windows : Contains(v, Later(now, d))
    BY <1>7, <2>4, OpenAtMeans, Zenon
  <2>6. PICK m \in Moment : m = Ahead(now, v.open)
    BY <1>4, AheadIs, Zenon
  <2>7. n <= m
    BY <1>2, <1>3, <2>1, <2>6, Zenon
  <2>8. d < m
    BY <2>3, <2>7, WeekAssumption, SMT DEF Moment
  <2>9. Ahead(v.open, now) < Ahead(v.open, v.close)
    BY <1>4, <2>3, <2>5, <2>6, <2>8, NotBeforeOpen, Zenon DEF Contains
  <2> QED
    BY <1>5, <2>9, Zenon
<1> QED
  BY <1>6, <1>7, Zenon

-----------------------------------------------------------------------------
(***************************************************************************)
(* The state of a session.                                                 *)
(***************************************************************************)
\* What a run keeps, and the clock.
Scene ==
    /\ hours \in Schedules /\ closure \in Closures
    /\ published \in BOOLEAN /\ gap \in Gaps /\ now \in Moment

\* The calls and the modes they are made in, and the reversals counted.
Shape ==
    /\ pc = "opening" <=> mode = "ENTERING"
    /\ pc = "closing" => mode = "EXITING"
    /\ halt => mode = "EXITING" /\ pc = "sleep"
    /\ mode \in {"ENTERING", "HOLDING"} /\ Config.exitOnReversal => streak < Config.confirm

SessionInv == Scene /\ TypeOK /\ Shape

\* Only the clock moves the clock.
LEMMA OnlyMinutesPass ==
    ASSUME [Next]_vars
    PROVE  /\ UNCHANGED <<hours, closure, published, gap>>
           /\ ~Minute => now' = now
<1>1. CASE Minute
  BY <1>1, Zenon DEF Minute
<1>2. CASE Tick
  BY <1>2, Zenon DEF Tick, MissedTick, HaltedTick, IdleTick, WatchdogTick, FrozenTick, HoldTick,
                     ResumeTick, TickBegins, World
<1>3. CASE CallEnds
  BY <1>3, Zenon DEF CallEnds, Opened, NotOpened, ClosedOut, NotClosed, Call, World
<1>4. CASE UNCHANGED vars
  BY <1>4, Zenon DEF vars
<1> QED
  BY <1>1, <1>2, <1>3, <1>4, Zenon DEF Next

LEMMA SceneHolds == Spec => []Scene
<1>1. Init => Scene
  <2>1. 0 \in Moment
    BY WeekAssumption, SMT DEF Moment
  <2> QED
    BY <2>1, Zenon DEF Init, Scene
<1>2. Scene /\ [Next]_vars => Scene'
  <2> SUFFICES ASSUME Scene, [Next]_vars PROVE Scene'
    BY Zenon
  <2>1. now' \in Moment
    <3>1. CASE Minute
      <4>1. now \in Int /\ 1 \in Int
        BY WeekAssumption, SMT DEF Scene, Moment
      <4> QED
        BY <3>1, <4>1, LaterMoment, Zenon DEF Minute
    <3>2. CASE ~Minute
      BY <3>2, OnlyMinutesPass, Zenon DEF Scene
    <3> QED
      BY <3>1, <3>2, Zenon
  <2> QED
    BY <2>1, OnlyMinutesPass, Zenon DEF Scene
<1> QED
  BY <1>1, <1>2, PTL DEF Spec

\* The close that the entry lead and the pre-close exit wait for is the
\* calendar's, for every calendar.
THEOREM ClosesSaid == Spec => []ClosesWhenSaid
<1>1. Scene => ClosesWhenSaid
  BY ClosesAreSaid, Zenon DEF Scene
<1> QED
  BY <1>1, SceneHolds, PTL

\* And so is the next open.
THEOREM OpensSaid == Spec => []ReopensWhenSaid
<1>1. Scene => ReopensWhenSaid
  BY OpensAreSaid, Zenon DEF Scene
<1> QED
  BY <1>1, SceneHolds, PTL

LEMMA EvaluateTyped ==
    ASSUME hours \in Schedules, NEW t \in Moment
    PROVE  Evaluate(t) \in Session
<1> DEFINE s == Evaluate(t)
           inside == {w \in Windows : Contains(w, t)}
<1>1. \A w \in Windows : w.open \in Moment /\ w.close \in Moment
  BY OpenAtMeans, Zenon DEF Window
<1>2. Moment \subseteq 0 .. Week /\ 0 \in 0 .. Week
  BY WeekAssumption, SMT DEF Moment
<1>3. \A w \in Windows : Ahead(t, w.close) \in 0 .. Week /\ Ahead(t, w.open) \in 0 .. Week
  BY <1>1, <1>2, AheadIs, Zenon
<1>4. s.toClose \in 0 .. Week \cup {None}
  BY <1>2, <1>3, EvaluateSays, Zenon
<1>5. s.toOpen \in 0 .. Week \cup {None}
  BY <1>2, <1>3, EvaluateSays, Zenon
<1>6. s.enabled \in BOOLEAN /\ s.open \in BOOLEAN
  BY EvaluateSays, Zenon
<1>7. s = [enabled |-> s.enabled, open |-> s.open, toClose |-> s.toClose, toOpen |-> s.toOpen]
  BY Zenon DEF Evaluate
<1> HIDE DEF s
<1> QED
  BY <1>4, <1>5, <1>6, <1>7, Zenon DEF Session, s

\* The reason of an exit is one of those it may have.
LEMMA FirstFiredIsReason ==
    ASSUME NEW m, Fired(m) # {}
    PROVE  FirstFired(m) \in Reason
<1>1. Fired(m) \in SUBSET Nat /\ Fired(m) \subseteq 1 .. 5
  BY SMT DEF Fired
<1>2. Min(Fired(m)) \in 1 .. 5
  BY <1>1, LeastOf, Zenon
<1>3. \A i \in 1 .. 5 : Exits[i] \in Reason
  BY SMT DEF Exits, Reason
<1> QED
  BY <1>2, <1>3, Zenon DEF FirstFired

\* What the proofs need to know of the configuration.
LEMMA ConfigFacts ==
    /\ Config.closeBuffer \in Nat /\ Config.entryLead \in Nat /\ Config.maxHold \in Nat
    /\ Config.confirm \in Nat \ {0} /\ Config.heartbeat \in Nat \ {0}
    /\ Config.exitOnReversal \in BOOLEAN /\ Config.sides \subseteq Side
    /\ MaxMiss \in Nat /\ \A g \in Gaps : g \in Nat \ {0}
BY ConfigAssumption, SMT

LEMMA UpToTyped ==
    ASSUME NEW limit \in Nat, NEW n \in 0 .. limit
    PROVE  UpTo(n, limit) \in 0 .. limit
BY SMT DEF UpTo

LEMMA SidesTyped == \A spread : ChooseDirection(spread) \in Config.sides => ChooseDirection(spread) \in Side
BY ConfigFacts, Zenon

\* A count of the reversals seen stays below the confirmations asked for as
\* long as none is confirmed, and comes up to them when one is.
LEMMA StreakStep ==
    ASSUME SessionInv, mode = "HOLDING", NEW spread
    PROVE  /\ BumpReversal(spread) \in Nat
           /\ Config.exitOnReversal =>
                 /\ BumpReversal(spread) <= Config.confirm
                 /\ ~ReversalConfirmed(spread) => BumpReversal(spread) < Config.confirm
<1>1. streak \in Nat /\ (Config.exitOnReversal => streak < Config.confirm)
  BY Zenon DEF SessionInv, TypeOK, Shape
<1>2. CASE IsSpreadReversed(spread)
  <2>1. BumpReversal(spread) = streak + 1
    BY <1>2, Zenon DEF BumpReversal
  <2>2. /\ streak + 1 \in Nat
        /\ Config.exitOnReversal => streak + 1 <= Config.confirm
        /\ ~(streak + 1 >= Config.confirm) => streak + 1 < Config.confirm
    BY <1>1, ConfigFacts, SMT
  <2> QED
    BY <1>2, <2>1, <2>2, Zenon DEF ReversalConfirmed
<1>3. CASE ~IsSpreadReversed(spread)
  <2>1. BumpReversal(spread) = 0
    BY <1>3, Zenon DEF BumpReversal
  <2>2. 0 \in Nat /\ 0 <= Config.confirm /\ 0 < Config.confirm
    BY ConfigFacts, SMT
  <2> QED
    BY <2>1, <2>2, Zenon
<1> QED
  BY <1>2, <1>3, Zenon

LEMMA NothingFired ==
    ASSUME NEW m, Fired(m) = {}
    PROVE  ~ReversalConfirmed(m.spread)
BY SMT DEF Fired

LEMMA EvaluateStaysTyped == Scene' => (Evaluate(now) \in Session)'
<1>1. Scene => Evaluate(now) \in Session
  BY EvaluateTyped, Zenon DEF Scene
<1> QED
  BY <1>1, PTL

\* Whatever a tick or a minute does to the counts.
LEMMA CountsTyped ==
    ASSUME SessionInv, gap' = gap,
           \/ since < gap /\ since' = since + 1 /\ misses' = misses
           \/ since' = 0 /\ (misses' = misses \/ \E priced \in BOOLEAN : Data(priced))
           \/ since' = since /\ misses' = misses
    PROVE  since' \in 0 .. gap' /\ misses' \in 0 .. MaxMiss
BY ConfigFacts, SMT DEF SessionInv, Scene, TypeOK, Data

LEMMA SessionStep == SessionInv /\ Scene' /\ [Next]_vars => SessionInv'
<1> DEFINE
      Counts == since' \in 0 .. gap' /\ misses' \in 0 .. MaxMiss
      Files == /\ mode' \in {"IDLE", "ENTERING", "HOLDING", "EXITING", "COOLDOWN"}
               /\ pc' \in {"sleep", "opening", "closing"} /\ halt' \in BOOLEAN
               /\ side' \in Side \cup {None} /\ reason' \in Reason \cup {None}
               /\ streak' \in Nat /\ (Config.exitOnReversal => streak' <= Config.confirm)
               /\ age' \in 0 .. Config.maxHold
               /\ alerted' \in 0 .. Config.heartbeat \cup {None}
<1> SUFFICES ASSUME SessionInv, Scene', [Next]_vars PROVE SessionInv'
  BY Zenon
<1>1. gap' = gap
  BY OnlyMinutesPass, Zenon
<1> SUFFICES Counts /\ Files /\ Shape'
  BY EvaluateStaysTyped, Zenon DEF SessionInv, TypeOK, Scene
<1>2. /\ mode \in {"IDLE", "ENTERING", "HOLDING", "EXITING", "COOLDOWN"}
      /\ pc \in {"sleep", "opening", "closing"} /\ halt \in BOOLEAN
      /\ side \in Side \cup {None} /\ reason \in Reason \cup {None}
      /\ streak \in Nat /\ (Config.exitOnReversal => streak <= Config.confirm)
      /\ age \in 0 .. Config.maxHold
      /\ alerted \in 0 .. Config.heartbeat \cup {None}
  BY Zenon DEF SessionInv, TypeOK
<1>3. /\ pc = "opening" <=> mode = "ENTERING"
      /\ pc = "closing" => mode = "EXITING"
      /\ halt => mode = "EXITING" /\ pc = "sleep"
      /\ mode \in {"ENTERING", "HOLDING"} /\ Config.exitOnReversal => streak < Config.confirm
  BY Zenon DEF SessionInv, Shape
<1>4. 0 \in Nat /\ 0 \in 0 .. Config.maxHold /\ 0 \in 0 .. Config.heartbeat
      /\ 0 < Config.confirm /\ 0 <= Config.confirm
  BY ConfigFacts, SMT
<1>5. CASE Minute
  <2>1. Counts
    BY <1>1, <1>5, CountsTyped, Zenon DEF Minute
  <2>2. age' \in 0 .. Config.maxHold /\ alerted' \in 0 .. Config.heartbeat \cup {None}
    BY <1>2, <1>4, <1>5, ConfigFacts, UpToTyped, Zenon DEF Minute
  <2> QED
    BY <1>2, <1>3, <1>5, <2>1, <2>2, Zenon DEF Minute, Shape
<1>6. CASE MissedTick
  <2>1. Counts
    BY <1>1, <1>6, CountsTyped, Zenon DEF MissedTick, TickBegins
  <2> QED
    BY <1>2, <1>3, <1>6, <2>1, Zenon DEF MissedTick, fileVars, Shape
<1>7. CASE HaltedTick
  <2>1. Counts
    BY <1>1, <1>7, CountsTyped, Zenon DEF HaltedTick, TickBegins
  <2> QED
    BY <1>2, <1>3, <1>7, <2>1, Zenon DEF HaltedTick, fileVars, Shape
<1>8. CASE IdleTick
  <2>1. Counts
    <3>1. misses' = misses \/ \E priced \in BOOLEAN : Data(priced)
      BY <1>8, Zenon DEF IdleTick
    <3> QED
      BY <1>1, <1>8, <3>1, CountsTyped, Zenon DEF IdleTick, TickBegins
  <2>2. pc = "sleep" /\ ~halt /\ UNCHANGED <<halt, age, alerted>>
    BY <1>3, <1>8, Zenon DEF IdleTick, TickBegins
  <2>3. \/ /\ mode' = "ENTERING" /\ pc' = "opening" /\ reason' = None
           /\ streak' = 0 /\ side' \in Side
        \/ mode' = "IDLE" /\ reason' = None /\ UNCHANGED <<pc, side, streak>>
        \/ mode = "COOLDOWN" /\ UNCHANGED <<pc, mode, side, streak, reason>>
    BY <1>8, SidesTyped, Zenon DEF IdleTick, EntrySignal
  <2> QED
    BY <1>2, <1>3, <1>4, <2>1, <2>2, <2>3, Zenon DEF Shape
<1>9. CASE WatchdogTick
  <2>1. Counts
    BY <1>1, <1>9, CountsTyped, Zenon DEF WatchdogTick, TickBegins
  <2>2. mode' = "EXITING" /\ reason' \in Reason /\ pc' \in {"closing", "sleep"}
        /\ ~halt /\ UNCHANGED <<halt, side, age, streak, alerted>>
    BY <1>3, <1>9, Zenon DEF WatchdogTick, DoExit, Reason
  <2> QED
    BY <1>2, <1>3, <2>1, <2>2, Zenon DEF Shape
<1>10. CASE FrozenTick
  <2>1. Counts
    <3>1. \E priced \in BOOLEAN : Data(priced)
      BY <1>10, Zenon DEF FrozenTick
    <3> QED
      BY <1>1, <1>10, <3>1, CountsTyped, Zenon DEF FrozenTick, TickBegins
  <2>2. alerted' \in 0 .. Config.heartbeat \cup {None}
    BY <1>2, <1>4, <1>10, Zenon DEF FrozenTick, AlertMarketFrozen
  <2> QED
    BY <1>2, <1>3, <1>10, <2>1, <2>2, Zenon DEF FrozenTick, Shape
<1>11. CASE HoldTick
  <2>1. PICK priced, s, m : priced \in BOOLEAN /\ Data(priced) /\ Decision(m, s)
    BY <1>11, Zenon DEF HoldTick
  <2>2. Counts
    BY <1>1, <1>11, <2>1, CountsTyped, Zenon DEF HoldTick, TickBegins
  <2>3. mode = "HOLDING" /\ pc = "sleep" /\ ~halt
    BY <1>3, <1>11, Zenon DEF HoldTick, TickBegins
  <2>4. alerted' \in 0 .. Config.heartbeat \cup {None}
    BY <1>2, <1>11, Zenon DEF HoldTick
  <2>5. \/ /\ mode' = "EXITING" /\ reason' \in Reason /\ pc' \in {"closing", "sleep"}
           /\ UNCHANGED <<halt, side, age>>
           /\ streak' = streak \/ streak' = BumpReversal(m.spread)
        \/ /\ UNCHANGED <<pc, mode, halt, side, reason, age>>
           /\ streak' = BumpReversal(m.spread) /\ Fired(m) = {}
    <3>1. "market_closing" \in Reason
      BY Zenon DEF Reason
    <3> QED
      BY <2>1, <3>1, FirstFiredIsReason, Zenon DEF Decision, DoExit
  <2>6. /\ BumpReversal(m.spread) \in Nat
        /\ Config.exitOnReversal => BumpReversal(m.spread) <= Config.confirm
        /\ Config.exitOnReversal /\ Fired(m) = {} => BumpReversal(m.spread) < Config.confirm
    BY <2>3, StreakStep, NothingFired, Zenon
  <2>7. streak' \in Nat /\ (Config.exitOnReversal => streak' <= Config.confirm)
    BY <1>2, <2>5, <2>6, Zenon
  <2>8. CASE mode' = "EXITING" /\ reason' \in Reason /\ pc' \in {"closing", "sleep"}
    <3>1. UNCHANGED <<halt, side, age>>
      BY <2>5, Zenon
    <3>2. Files
      BY <1>2, <2>4, <2>7, <2>8, <3>1, Zenon
    <3>3. Shape'
      BY <2>3, <2>8, <3>1, Zenon DEF Shape
    <3> QED
      BY <2>2, <3>2, <3>3, Zenon
  <2>9. CASE UNCHANGED <<pc, mode, halt, side, reason, age>> /\ Fired(m) = {}
    <3>1. Files
      BY <1>2, <2>4, <2>7, <2>9, Zenon
    <3>2. streak' = BumpReversal(m.spread)
      BY <2>3, <2>5, <2>9, Zenon
    <3>3. Shape'
      BY <2>3, <2>6, <2>9, <3>2, Zenon DEF Shape
    <3> QED
      BY <2>2, <3>1, <3>3, Zenon
  <2> QED
    BY <2>5, <2>8, <2>9, Zenon
<1>12. CASE ResumeTick
  <2>1. Counts
    BY <1>1, <1>12, CountsTyped, Zenon DEF ResumeTick, TickBegins
  <2>2. mode' = "EXITING" /\ reason' \in Reason /\ pc' \in {"closing", "sleep"}
        /\ ~halt /\ UNCHANGED <<halt, side, age, streak, alerted>>
    BY <1>3, <1>12, Zenon DEF ResumeTick, DoExit, Reason
  <2> QED
    BY <1>2, <1>3, <2>1, <2>2, Zenon DEF Shape
<1>13. CASE CallEnds
  <2>1. Counts
    BY <1>1, <1>13, CountsTyped, Zenon DEF CallEnds, Opened, NotOpened, ClosedOut, NotClosed, Call
  <2>2. CASE Opened
    BY <1>2, <1>3, <1>4, <2>1, <2>2, Zenon DEF Opened, Shape
  <2>3. CASE NotOpened
    BY <1>2, <1>3, <1>4, <2>1, <2>3, Zenon DEF NotOpened, Shape
  <2>4. CASE ClosedOut
    BY <1>2, <1>3, <1>4, <2>1, <2>4, Zenon DEF ClosedOut, Shape
  <2>5. CASE NotClosed
    BY <1>2, <1>3, <1>4, <2>1, <2>5, Zenon DEF NotClosed, Shape
  <2> QED
    BY <1>13, <2>2, <2>3, <2>4, <2>5, Zenon DEF CallEnds
<1>14. CASE UNCHANGED vars
  <2>1. Counts
    BY <1>14, CountsTyped, Zenon DEF vars
  <2> QED
    BY <1>2, <1>3, <1>14, <2>1, Zenon DEF vars, fileVars, Shape
<1> QED
  BY <1>5, <1>6, <1>7, <1>8, <1>9, <1>10, <1>11, <1>12, <1>13, <1>14, Zenon DEF Next, Tick

LEMMA SessionHolds == Spec => []SessionInv
<1>1. Init /\ Scene => SessionInv
  <2> SUFFICES ASSUME Init, Scene PROVE SessionInv
    BY Zenon
  <2>1. gap \in Nat \ {0} /\ Config.maxHold \in Nat /\ Config.confirm \in Nat \ {0} /\ MaxMiss \in Nat
    BY ConfigFacts, Zenon DEF Scene
  <2>2. /\ 0 \in 0 .. gap /\ 0 \in 0 .. MaxMiss /\ 0 \in Nat /\ 0 \in 0 .. Config.maxHold
        /\ 0 <= Config.confirm
    BY <2>1, SMT
  <2>3. Evaluate(now) \in Session
    BY EvaluateTyped, Zenon DEF Scene
  <2>4. TypeOK
    BY <2>2, <2>3, Zenon DEF Init, TypeOK, Scene
  <2> QED
    BY <2>4, Zenon DEF SessionInv, Shape, Init
<1> QED
  BY <1>1, SceneHolds, SessionStep, PTL DEF Spec

\* A session's state is always of its type: no exit has a reason of its own
\* making, the reversals never run past the confirmations asked for, and
\* evaluate always answers with a session.
THEOREM SessionTyped == Spec => []TypeOK
<1>1. SessionInv => TypeOK
  BY Zenon DEF SessionInv
<1> QED
  BY <1>1, SessionHolds, PTL

-----------------------------------------------------------------------------
(***************************************************************************)
(* Flat across every close.                                                *)
(***************************************************************************)
\* No minute from t on, up to the n-th, shuts an open market.
NoShut(t, n) == \A d \in 1 .. n : ~Closed(Later(t, d - 1)) => ~Closed(Later(t, d))

LEMMA ClosedStays ==
    ASSUME hours' = hours, closure' = closure
    PROVE  \A t : Closed(t)' <=> Closed(t)
BY Zenon DEF Closed, OpenAt, Windows

LEMMA NoShutShrinks ==
    ASSUME NEW t, NEW n \in Int, NEW m \in Int, m <= n, NoShut(t, n)
    PROVE  NoShut(t, m)
<1>1. 1 .. m \subseteq 1 .. n
  BY SMT
<1> QED
  BY <1>1, Zenon DEF NoShut

\* A minute later there is one minute less of it, and the market is still open.
LEMMA NoShutAfterMinute ==
    ASSUME NEW t \in Moment, NEW n \in Nat \ {0}, NoShut(t, n)
    PROVE  /\ NoShut(Later(t, 1), n - 1)
           /\ ~Closed(t) => ~Closed(Later(t, 1))
<1>1. \A d \in Int : Later(Later(t, 1), d) = Later(t, d + 1)
  <2> SUFFICES ASSUME NEW d \in Int PROVE Later(Later(t, 1), d) = Later(t, d + 1)
    BY Zenon
  <2>1. t \in Int /\ t + 1 \in Int /\ t + 1 + d = t + (d + 1)
    BY WeekAssumption, SMT DEF Moment
  <2>2. (((t + 1) % Week) + d) % Week = (t + 1 + d) % Week
    BY <2>1, WeekAssumption, ModShift, Zenon
  <2> QED
    BY <2>1, <2>2, Zenon DEF Later
<1>2. Later(t, 0) = t
  <2>1. 0 \in 0 .. Week /\ t + 0 = t /\ t + 0 < Week
    BY WeekAssumption, SMT DEF Moment
  <2> QED
    BY <2>1, LaterIs, Zenon
<1>3. ASSUME NEW d \in 1 .. n - 1, ~Closed(Later(Later(t, 1), d - 1))
      PROVE  ~Closed(Later(Later(t, 1), d))
  <2>1. PICK e \in 1 .. n : e = d + 1
    <3>1. d + 1 \in 1 .. n
      BY SMT
    <3> QED
      BY <3>1, Zenon
  <2> PICK f \in Int : f = d - 1
    BY SMT
  <2>2. d \in Int
    BY SMT
  <2>3. ~Closed(Later(t, d)) => ~Closed(Later(t, e))
    <3>1. ~Closed(Later(t, e - 1)) => ~Closed(Later(t, e))
      BY Zenon DEF NoShut
    <3>2. e - 1 = d
      BY <2>1, SMT
    <3> QED
      BY <3>1, <3>2, SMT
  <2>4. Later(Later(t, 1), d) = Later(t, e) /\ Later(Later(t, 1), f) = Later(t, d)
    <3>1. Later(Later(t, 1), d) = Later(t, d + 1) /\ Later(Later(t, 1), f) = Later(t, f + 1)
      BY <1>1, <2>2, Zenon
    <3>2. f + 1 = d
      BY SMT
    <3> QED
      BY <2>1, <3>1, <3>2, SMT
  <2>5. ~Closed(Later(Later(t, 1), f))
    BY <1>3, SMT
  <2> QED
    BY <2>3, <2>4, <2>5, Zenon
<1>4. ~Closed(t) => ~Closed(Later(t, 1))
  <2>1. 1 \in 1 .. n /\ Later(t, 1 - 1) = Later(t, 0)
    BY SMT
  <2> QED
    BY <1>2, <2>1, Zenon DEF NoShut
<1> QED
  BY <1>3, <1>4, Zenon DEF NoShut

\* The next close of the metadata row is the first one.
LEMMA NextShutIsFirst ==
    /\ NextShut # None => NextShut \in 1 .. Week /\ NoShut(now, NextShut - 1)
    /\ NextShut = None => NoShut(now, Week)
<1> DEFINE shuts == {d \in 1 .. Week : ~Closed(Later(now, d - 1)) /\ Closed(Later(now, d))}
<1>1. NextShut = IF shuts = {} THEN None ELSE Min(shuts)
  BY Zenon DEF NextShut
<1>2. shuts \in SUBSET Nat
  <2>1. 1 .. Week \subseteq Nat
    BY SMT
  <2> QED
    BY <2>1, Zenon
<1>3. CASE shuts = {}
  <2>1. NextShut = None
    BY <1>1, <1>3, Zenon
  <2>2. NoShut(now, Week)
    BY <1>3, Zenon DEF NoShut
  <2> QED
    BY <2>1, <2>2, Zenon
<1>4. CASE shuts # {}
  <2> HIDE DEF shuts
  <2>1. PICK m \in shuts : m = NextShut /\ \A d \in shuts : m <= d
    BY <1>1, <1>2, <1>4, LeastOf, Zenon
  <2>2. m \in 1 .. Week
    BY <2>1, Zenon DEF shuts
  <2>3. m # None
    BY <2>2, WeekAssumption, SMT
  <2>4. ASSUME NEW d \in 1 .. m - 1, ~Closed(Later(now, d - 1)), Closed(Later(now, d)) PROVE FALSE
    <3>1. d \in 1 .. Week /\ ~(m <= d)
      BY <2>2, WeekAssumption, SMT
    <3> QED
      BY <2>1, <2>4, <3>1, Zenon DEF shuts
  <2>5. NoShut(now, m - 1)
    BY <2>4, Zenon DEF NoShut
  <2> QED
    BY <2>1, <2>2, <2>3, <2>5, Zenon
<1> QED
  BY <1>3, <1>4, Zenon

\* What _var_session makes of the two closes.
LEMMA VarSessionIs ==
    ASSUME Scene, NEW close
    PROVE  LET cal == Evaluate(now)
               s == VarSession(close)
               earlier == hours.enabled /\ cal.open /\ close # None /\ close < cal.toClose
           IN  /\ cal.enabled = hours.enabled /\ hours.enabled \in BOOLEAN
               /\ s.enabled = hours.enabled
               /\ s.toClose = IF earlier THEN close ELSE cal.toClose
               /\ s.open = IF earlier THEN close > 0 ELSE cal.open
<1> DEFINE cal == Evaluate(now)
           s == VarSession(close)
<1>1. cal \in Session /\ cal.enabled = hours.enabled /\ hours.enabled \in BOOLEAN
  BY EvaluateTyped, EvaluateSays, Zenon DEF Scene
<1>2. s = IF cal.enabled /\ cal.open /\ close # None /\ close < cal.toClose
          THEN [cal EXCEPT !.toClose = close, !.open = close > 0] ELSE cal
  BY Zenon DEF VarSession
<1> HIDE DEF cal, s
<1>3. /\ [cal EXCEPT !.toClose = close, !.open = close > 0].enabled = cal.enabled
      /\ [cal EXCEPT !.toClose = close, !.open = close > 0].toClose = close
      /\ [cal EXCEPT !.toClose = close, !.open = close > 0].open = (close > 0)
  BY <1>1, SMT DEF Session
<1>4. /\ s.enabled = hours.enabled
      /\ s.toClose = IF hours.enabled /\ cal.open /\ close # None /\ close < cal.toClose
                     THEN close ELSE cal.toClose
      /\ s.open = IF hours.enabled /\ cal.open /\ close # None /\ close < cal.toClose
                  THEN close > 0 ELSE cal.open
  BY <1>1, <1>2, <1>3, Zenon
<1> QED
  BY <1>1, <1>4, Zenon DEF cal, s

\* Under a prompt engine the session a tick reads is safe to act on: nothing
\* shuts before the close it counts down to, and it is over only when the
\* market is shut.
LEMMA SessionIsSafe ==
    ASSUME Scene, Prompt, NEW close \in NextCloses
    PROVE  LET s == VarSession(close)
           IN  /\ s.enabled = hours.enabled
               /\ ~hours.enabled => \A t : ~Closed(t)
               /\ hours.enabled => s.toClose \in 0 .. Week /\ NoShut(now, s.toClose - 1)
               /\ ~Closed(now) => s.open
<1> DEFINE cal == Evaluate(now)
           s == VarSession(close)
           earlier == hours.enabled /\ cal.open /\ close # None /\ close < cal.toClose
<1>1. /\ hours.enabled \in BOOLEAN /\ s.enabled = hours.enabled
      /\ s.toClose = IF earlier THEN close ELSE cal.toClose
      /\ s.open = IF earlier THEN close > 0 ELSE cal.open
  BY VarSessionIs, Zenon
<1>2. ~hours.enabled => cal.open /\ \A t : ~Closed(t)
  BY EvaluateSays, Zenon DEF Scene, Prompt, Closed
<1>3. hours.enabled => cal.toClose \in 0 .. Week /\ (~cal.open => cal.toClose = 0)
  <2>1. cal.toClose \in 0 .. Week \cup {None}
    BY EvaluateTyped, Zenon DEF Session, Scene
  <2>2. hours.enabled => cal.toClose # None
    <3>1. 0 # None /\ Moment \subseteq Int
      BY WeekAssumption, SMT DEF Moment
    <3>2. \A w \in Windows : Ahead(now, w.close) # None
      <4>1. \A w \in Windows : w.close \in Moment
        BY OpenAtMeans, Zenon DEF Window, Scene
      <4> QED
        BY <3>1, <4>1, AheadIs, WeekAssumption, Zenon DEF Scene
    <3> QED
      BY <3>1, <3>2, EvaluateSays, Zenon DEF Scene
  <2>3. hours.enabled /\ ~cal.open => cal.toClose = 0
    BY EvaluateSays, Zenon DEF Scene
  <2> QED
    BY <2>1, <2>2, <2>3, Zenon
<1>4. /\ hours.enabled => (cal.open <=> OpenAt(now))
      /\ hours.enabled /\ cal.open => \A d \in 1 .. cal.toClose - 1 : OpenAt(Later(now, d))
  BY ClosesAreSaid, Zenon DEF Scene, ClosesWhenSaid
<1>5. hours.enabled /\ cal.open /\ closure = None => NoShut(now, cal.toClose - 1)
  BY <1>4, Zenon DEF NoShut, Closed
<1>6. \/ close = None /\ closure = None
      \/ published /\ close = NextShut
      \/ published /\ close = 0 /\ Closed(now)
  BY Zenon DEF NextCloses, Prompt, Scene
<1> HIDE DEF cal, s
<1>7. hours.enabled => s.toClose \in 0 .. Week
  <2>1. earlier => close \in 0 .. Week
    <3>1. close # None => close \in 0 .. Week
      <4>1. 0 \in 0 .. Week /\ 1 .. Week \subseteq 0 .. Week
        BY WeekAssumption, SMT
      <4> QED
        BY <1>6, <4>1, NextShutIsFirst, Zenon
    <3> QED
      BY <3>1, Zenon
  <2> QED
    BY <1>1, <1>3, <2>1, Zenon
<1>8. ASSUME hours.enabled PROVE NoShut(now, s.toClose - 1)
  <2>1. PICK n \in 0 .. Week : n = s.toClose
    BY <1>7, <1>8, Zenon
  <2>2. PICK c \in 0 .. Week : c = cal.toClose
    BY <1>3, <1>8, Zenon
  <2>3. n = 0 => NoShut(now, n - 1)
    <3>1. 1 .. (0 - 1) = {}
      BY SMT
    <3> QED
      BY <3>1, Zenon DEF NoShut
  <2>4. CASE ~cal.open
    BY <1>1, <1>3, <1>8, <2>1, <2>3, <2>4, Zenon
  <2>5. CASE cal.open /\ closure = None /\ close = None
    BY <1>1, <1>5, <1>8, <2>5, Zenon
  <2>6. CASE cal.open /\ close = NextShut
    <3>1. CASE NextShut = None
      <4>1. n - 1 \in Int /\ Week \in Int /\ n - 1 <= Week
        BY WeekAssumption, SMT
      <4> QED
        BY <2>1, <3>1, <4>1, NextShutIsFirst, NoShutShrinks, Zenon
    <3>2. CASE NextShut # None
      <4>1. PICK m \in 1 .. Week : m = NextShut /\ NoShut(now, m - 1)
        BY <3>2, NextShutIsFirst, Zenon
      <4>2. n = IF m < c THEN m ELSE c
        BY <1>1, <1>8, <2>1, <2>2, <2>6, <3>2, <4>1, Zenon
      <4>3. n - 1 \in Int /\ m - 1 \in Int /\ n - 1 <= m - 1
        BY <4>2, SMT
      <4> QED
        BY <2>1, <4>1, <4>3, NoShutShrinks, Zenon
    <3> QED
      BY <3>1, <3>2, Zenon
  <2>7. CASE cal.open /\ close = 0
    <3>1. n = IF 0 < c THEN 0 ELSE c
      <4>1. 0 # None
        BY WeekAssumption, SMT
      <4> QED
        BY <1>1, <1>8, <2>1, <2>2, <2>7, <4>1, Zenon
    <3>2. n = 0
      BY <3>1, SMT
    <3> QED
      BY <2>1, <2>3, <3>2, Zenon
  <2> QED
    BY <1>6, <2>4, <2>5, <2>6, <2>7, Zenon
<1>9. ASSUME ~Closed(now) PROVE s.open
  <2>1. cal.open
    BY <1>1, <1>2, <1>4, <1>9, Zenon DEF Closed
  <2>2. earlier => close > 0
    <3>1. close # None => close \in 1 .. Week
      BY <1>6, <1>9, NextShutIsFirst, Zenon
    <3>2. \A c \in 1 .. Week : c > 0
      BY SMT
    <3> QED
      BY <3>1, <3>2, Zenon
  <2> QED
    BY <1>1, <2>1, <2>2, Zenon
<1> QED
  BY <1>1, <1>2, <1>7, <1>8, <1>9, Zenon DEF s

Buffer == Min({Config.closeBuffer, Config.entryLead})

\* The minutes that are surely left: of the buffer the last tick that had
\* data has seen, less m ticks without and s minutes since.
Slack(m, s) == Buffer - 1 - gap * m - s

\* The inductive invariant.  A round that may be on is never nearer to a
\* close than that, and while its close is under way the market stays open
\* for as long as the call may last.
FlatInv ==
    Prompt /\ ~halt =>
        /\ mode \in {"HOLDING", "EXITING"} => ~Closed(now)
        /\ mode \in {"ENTERING", "HOLDING", "EXITING"} /\ pc # "closing" =>
               NoShut(now, Slack(misses, since))
        /\ pc = "closing" => NoShut(now, Slack(MaxMiss + 1, since))

LEMMA SlackFacts ==
    ASSUME SessionInv, Prompt, NEW m \in 0 .. MaxMiss, NEW s \in 0 .. gap
    PROVE  /\ Slack(m, s) \in Nat \ {0} /\ Slack(m, s + 1) = Slack(m, s) - 1
           /\ Slack(m, s) <= Config.closeBuffer - 1 /\ Slack(m, s) <= Config.entryLead - 1
           /\ Slack(m + 1, 0) \in Int /\ Slack(m + 1, 0) <= Slack(m, s)
           /\ Slack(MaxMiss + 1, 0) <= Slack(m, s)
           /\ Slack(MaxMiss + 1, s) \in Int
           /\ Slack(MaxMiss + 1, s + 1) = Slack(MaxMiss + 1, s) - 1
           /\ s < gap => Slack(MaxMiss + 1, s) \in Nat \ {0}
<1>1. gap \in Nat \ {0} /\ MaxMiss \in Nat /\ Config.closeBuffer \in Nat /\ Config.entryLead \in Nat
  BY ConfigFacts, Zenon DEF SessionInv, Scene
<1>2. PICK B \in Nat : B = Buffer /\ B <= Config.closeBuffer /\ B <= Config.entryLead
  <2> DEFINE ends == {Config.closeBuffer, Config.entryLead}
  <2>1. ends \in SUBSET Nat /\ ends # {}
    BY <1>1, Zenon
  <2>2. Config.closeBuffer \in ends /\ Config.entryLead \in ends
    BY Zenon
  <2>3. Buffer = Min(ends)
    BY Zenon DEF Buffer
  <2> HIDE DEF ends
  <2> QED
    BY <2>1, <2>2, <2>3, LeastOf, Zenon
<1>3. gap * (MaxMiss + 2) < B
  BY <1>2, Zenon DEF Prompt, Buffer
<1>4. PICK g \in Nat \ {0} : g = gap
  BY <1>1, Zenon
<1>5. PICK x \in Int, y \in Int : x = g * m /\ y = g * MaxMiss
  BY <1>1, SMT
<1>6. 0 <= x /\ x <= y
  <2>1. g * m >= 0
    BY <1>1, SMT
  <2>2. g * (MaxMiss - m) >= 0
    BY <1>1, SMT
  <2>3. g * (MaxMiss - m) = g * MaxMiss - g * m
    BY <1>1, SMT
  <2> QED
    BY <1>5, <2>1, <2>2, <2>3, SMT
<1>7. g * (m + 1) = x + g /\ g * (MaxMiss + 1) = y + g /\ g * (MaxMiss + 2) = y + g + g
  BY <1>1, <1>5, SMT
<1>8. y + g + g < B
  BY <1>3, <1>4, <1>7, Zenon
<1>9. /\ Slack(m, s) = B - 1 - x - s /\ Slack(m, s + 1) = B - 1 - x - (s + 1)
      /\ Slack(m + 1, 0) = B - 1 - (x + g) - 0
      /\ Slack(MaxMiss + 1, 0) = B - 1 - (y + g) - 0
      /\ Slack(MaxMiss + 1, s) = B - 1 - (y + g) - s
      /\ Slack(MaxMiss + 1, s + 1) = B - 1 - (y + g) - (s + 1)
  BY <1>2, <1>4, <1>5, <1>7, Zenon DEF Slack
<1>10. s \in 0 .. g
  BY <1>4, Zenon
<1> QED
  BY <1>1, <1>2, <1>4, <1>5, <1>6, <1>8, <1>9, <1>10, SMT

\* What a step leaves alone means after it what it meant before.
LEMMA MeansTheSame ==
    ASSUME hours' = hours, closure' = closure, gap' = gap, published' = published
    PROVE  /\ \A t : Closed(t)' <=> Closed(t)
           /\ \A t, n : NoShut(t, n)' <=> NoShut(t, n)
           /\ \A m, s : Slack(m, s)' = Slack(m, s)
           /\ Prompt' <=> Prompt
<1>1. \A t : Closed(t)' <=> Closed(t)
  BY ClosedStays, Zenon
<1>2. \A t, n : NoShut(t, n)' <=> NoShut(t, n)
  BY <1>1, Zenon DEF NoShut
<1>3. \A m, s : Slack(m, s)' = Slack(m, s)
  BY Zenon DEF Slack, Buffer
<1>4. Prompt' <=> Prompt
  BY Zenon DEF Prompt
<1> QED
  BY <1>1, <1>2, <1>3, <1>4, Zenon

LEMMA HaltStays == [Next]_vars /\ halt /\ SessionInv => halt'
BY Zenon DEF SessionInv, TypeOK, Shape, Next, vars, fileVars, Minute, Tick, MissedTick, HaltedTick, IdleTick, WatchdogTick,
             FrozenTick, HoldTick, ResumeTick, DoExit, Decision, CallEnds, Opened, NotOpened,
             ClosedOut, NotClosed

\* An open market is never read as shut, row or no row.
LEMMA OpenReadsOpen ==
    ASSUME Scene, Prompt, NEW close \in NextCloses \cup {None}, ~Closed(now)
    PROVE  VarSession(close).open
<1>1. CASE close \in NextCloses
  BY <1>1, SessionIsSafe, Zenon
<1>2. CASE close = None
  <2>1. VarSession(close).open = Evaluate(now).open
    BY <1>2, VarSessionIs, Zenon
  <2>2. CASE ~hours.enabled
    BY <2>1, <2>2, EvaluateSays, Zenon DEF Scene
  <2>3. CASE hours.enabled
    <3>1. OpenAt(now)
      BY <2>3, Zenon DEF Closed
    <3> QED
      BY <2>1, <2>3, <3>1, ClosesAreSaid, Zenon DEF Scene, ClosesWhenSaid
  <2> QED
    BY <2>2, <2>3
<1> QED
  BY <1>1, <1>2

\* A tick that looks at an open market: whatever is promised up to the close
\* it counts down to covers the ticks without data that may follow.
LEMMA LookedAt ==
    ASSUME SessionInv, Prompt, NEW close \in NextCloses, NEW m \in 0 .. MaxMiss,
           VarSession(close).enabled =>
               \/ VarSession(close).toClose >= Config.closeBuffer
               \/ VarSession(close).toClose >= Config.entryLead
    PROVE  NoShut(now, Slack(m, 0))
<1> DEFINE s == VarSession(close)
<1>1. /\ s.enabled = hours.enabled /\ hours.enabled \in BOOLEAN
      /\ ~hours.enabled => \A t : ~Closed(t)
      /\ hours.enabled => s.toClose \in 0 .. Week /\ NoShut(now, s.toClose - 1)
  BY SessionIsSafe, VarSessionIs, Zenon DEF SessionInv
<1>2. PICK k \in Nat \ {0} : /\ k = Slack(m, 0)
                            /\ k <= Config.closeBuffer - 1 /\ k <= Config.entryLead - 1
  <2>1. 0 \in 0 .. gap
    BY ConfigFacts, SMT DEF SessionInv, Scene
  <2> QED
    BY <2>1, SlackFacts, Zenon
<1>3. CASE ~hours.enabled
  BY <1>1, <1>3, Zenon DEF NoShut
<1>4. CASE hours.enabled
  <2>1. PICK n \in 0 .. Week : n = s.toClose /\ NoShut(now, n - 1)
    BY <1>1, <1>4, Zenon
  <2>2. n >= Config.closeBuffer \/ n >= Config.entryLead
    BY <1>1, <1>4, <2>1, Zenon
  <2>3. n - 1 \in Int /\ k \in Int /\ k <= n - 1
    BY <1>2, <2>2, ConfigFacts, SMT
  <2> QED
    BY <1>2, <2>1, <2>3, NoShutShrinks, Zenon
<1> QED
  BY <1>1, <1>3, <1>4, Zenon

\* An exit that begins in time ends in time.
LEMMA ExitInTime ==
    ASSUME SessionInv, FlatInv, Prompt, ~halt, TickBegins, mode \in {"HOLDING", "EXITING"},
           NEW why, NEW priced \in BOOLEAN, Data(priced), DoExit(why, priced)
    PROVE  FlatInv'
<1>1. /\ now' = now /\ hours' = hours /\ closure' = closure /\ gap' = gap /\ published' = published
      /\ since' = 0 /\ pc = "sleep" /\ mode' = "EXITING" /\ halt' = halt
      /\ pc' = IF priced THEN "closing" ELSE "sleep"
  BY Zenon DEF TickBegins, World, DoExit
<1>2. ~Closed(now) /\ NoShut(now, Slack(misses, since))
  BY <1>1, Zenon DEF FlatInv
<1>3. PICK m \in 0 .. MaxMiss, s \in 0 .. gap : m = misses /\ s = since
  BY Zenon DEF SessionInv, TypeOK
<1>4. /\ Slack(m, s) \in Int /\ Slack(m + 1, 0) \in Int /\ Slack(m + 1, 0) <= Slack(m, s)
      /\ Slack(MaxMiss + 1, 0) \in Int /\ Slack(MaxMiss + 1, 0) <= Slack(m, s)
  <2>1. 0 \in 0 .. gap /\ Nat \subseteq Int
    BY ConfigFacts, SMT DEF SessionInv, Scene
  <2> QED
    BY <2>1, SlackFacts, Zenon
<1>5. NoShut(now, Slack(m + 1, 0)) /\ NoShut(now, Slack(MaxMiss + 1, 0))
  BY <1>2, <1>3, <1>4, NoShutShrinks, Zenon
<1>6. ~priced => misses' = m + 1
  BY <1>3, Zenon DEF Data
<1>7. (~Closed(now))'
  BY <1>1, <1>2, MeansTheSame, Zenon
<1>8. ~priced => NoShut(now, Slack(misses, since))'
  BY <1>1, <1>5, <1>6, MeansTheSame, Zenon
<1>9. NoShut(now, Slack(MaxMiss + 1, since))'
  BY <1>1, <1>5, MeansTheSame, Zenon
<1> QED
  BY <1>1, <1>7, <1>8, <1>9, Zenon DEF FlatInv

LEMMA FlatStep == SessionInv /\ FlatInv /\ SessionInv' /\ [Next]_vars => FlatInv'
<1> SUFFICES ASSUME SessionInv, FlatInv, SessionInv', [Next]_vars PROVE FlatInv'
  BY Zenon
<1>1. hours' = hours /\ closure' = closure /\ gap' = gap /\ published' = published
  BY OnlyMinutesPass, Zenon
<1> SUFFICES ASSUME Prompt, ~halt, ~halt' PROVE FlatInv'
  BY <1>1, HaltStays, MeansTheSame, Zenon DEF FlatInv
<1>2. /\ mode \in {"HOLDING", "EXITING"} => ~Closed(now)
      /\ mode \in {"ENTERING", "HOLDING", "EXITING"} /\ pc # "closing" =>
             NoShut(now, Slack(misses, since))
      /\ pc = "closing" => NoShut(now, Slack(MaxMiss + 1, since))
  BY Zenon DEF FlatInv
<1>3. PICK m \in 0 .. MaxMiss, s \in 0 .. gap : m = misses /\ s = since
  BY Zenon DEF SessionInv, TypeOK
<1>4. /\ Slack(m, s) \in Nat \ {0} /\ Slack(m, s + 1) = Slack(m, s) - 1
      /\ Slack(m + 1, 0) \in Int /\ Slack(m + 1, 0) <= Slack(m, s)
      /\ Slack(MaxMiss + 1, s + 1) = Slack(MaxMiss + 1, s) - 1
      /\ s < gap => Slack(MaxMiss + 1, s) \in Nat \ {0}
  BY SlackFacts, Zenon
<1>5. misses' \in 0 .. MaxMiss
  BY Zenon DEF SessionInv, TypeOK
<1>6. CASE Minute
  <2>1. now \in Moment /\ now' = Later(now, 1) /\ since' = s + 1 /\ s < gap
        /\ UNCHANGED <<misses, pc, mode>>
    BY <1>3, <1>6, Zenon DEF Minute, SessionInv, Scene
  <2>2. CASE pc # "closing" /\ mode \in {"ENTERING", "HOLDING", "EXITING"}
    <3>1. PICK k \in Nat \ {0} : k = Slack(m, s) /\ Slack(m, s + 1) = k - 1
      BY <1>4, Zenon
    <3>2. NoShut(now, k)
      BY <1>2, <1>3, <2>2, <3>1, Zenon
    <3>3. NoShut(Later(now, 1), k - 1) /\ (~Closed(now) => ~Closed(Later(now, 1)))
      BY <2>1, <3>2, NoShutAfterMinute, Zenon
    <3>4. NoShut(now, Slack(misses, since))'
      BY <1>1, <1>3, <2>1, <3>1, <3>3, MeansTheSame, Zenon
    <3>5. mode' \in {"HOLDING", "EXITING"} => (~Closed(now))'
      BY <1>1, <1>2, <2>1, <3>3, MeansTheSame, Zenon
    <3> QED
      BY <2>1, <2>2, <3>4, <3>5, Zenon DEF FlatInv
  <2>3. CASE pc = "closing"
    <3>1. PICK k \in Nat \ {0} : k = Slack(MaxMiss + 1, s) /\ Slack(MaxMiss + 1, s + 1) = k - 1
      BY <1>4, <2>1, Zenon
    <3>2. NoShut(now, k)
      BY <1>2, <1>3, <2>3, <3>1, Zenon
    <3>3. NoShut(Later(now, 1), k - 1) /\ (~Closed(now) => ~Closed(Later(now, 1)))
      BY <2>1, <3>2, NoShutAfterMinute, Zenon
    <3>4. NoShut(now, Slack(MaxMiss + 1, since))'
      BY <1>1, <2>1, <3>1, <3>3, MeansTheSame, Zenon
    <3>5. mode' \in {"HOLDING", "EXITING"} => (~Closed(now))'
      BY <1>1, <1>2, <2>1, <3>3, MeansTheSame, Zenon
    <3> QED
      BY <2>1, <2>3, <3>4, <3>5, Zenon DEF FlatInv
  <2>4. CASE pc # "closing" /\ mode \notin {"ENTERING", "HOLDING", "EXITING"}
    BY <2>1, <2>4, Zenon DEF FlatInv
  <2> QED
    BY <2>2, <2>3, <2>4, Zenon
<1>7. ASSUME now' = now, since' = 0, misses' = m + 1, UNCHANGED <<pc, mode>>, pc = "sleep"
      PROVE  FlatInv'
  <2>1. mode \in {"ENTERING", "HOLDING", "EXITING"} => NoShut(now, Slack(m + 1, 0))
    <3>1. PICK k \in Int, n \in Int : k = Slack(m, s) /\ n = Slack(m + 1, 0) /\ n <= k
      <4>1. Nat \ {0} \subseteq Int
        BY SMT
      <4> QED
        BY <1>4, <4>1, Zenon
    <3> QED
      BY <1>2, <1>3, <1>7, <3>1, NoShutShrinks, Zenon
  <2>2. mode' \in {"ENTERING", "HOLDING", "EXITING"} => NoShut(now, Slack(misses, since))'
    BY <1>1, <1>7, <2>1, MeansTheSame, Zenon
  <2>3. mode' \in {"HOLDING", "EXITING"} => (~Closed(now))'
    BY <1>1, <1>2, <1>7, MeansTheSame, Zenon
  <2> QED
    BY <1>7, <2>2, <2>3, Zenon DEF FlatInv
<1>8. CASE MissedTick \/ HaltedTick
  <2>1. CASE MissedTick
    <3>1. now' = now /\ since' = 0 /\ misses' = m + 1 /\ UNCHANGED <<pc, mode>> /\ pc = "sleep"
      BY <1>3, <2>1, Zenon DEF MissedTick, TickBegins, World, Data, fileVars
    <3> QED
      BY <1>7, <3>1, Zenon
  <2> QED
    BY <1>8, <2>1, Zenon DEF HaltedTick
<1>9. CASE IdleTick
  <2>1. now' = now /\ since' = 0 /\ pc = "sleep"
    BY <1>9, Zenon DEF IdleTick, TickBegins, World
  <2>2. CASE mode' = "ENTERING"
    <3>1. pc' = "opening"
      BY <2>2, Zenon DEF SessionInv, Shape
    <3>2. PICK priced, q, o : /\ q \in Sessions(priced) /\ o \in Offer(priced)
                              /\ EntrySignal(o, q)
      BY <1>9, <2>2, Zenon DEF IdleTick
    <3>3. priced
      BY <3>2, Zenon DEF EntrySignal, Offer
    <3>4. PICK close \in NextCloses : q = VarSession(close)
      BY <3>2, <3>3, Zenon DEF Sessions
    <3>5. \A k \in 0 .. MaxMiss : NoShut(now, Slack(k, 0))
      BY <3>2, <3>4, LookedAt, Zenon DEF EntrySignal
    <3>6. NoShut(now, Slack(misses, since))'
      BY <1>1, <1>5, <2>1, <3>5, MeansTheSame, Zenon
    <3> QED
      BY <2>2, <3>1, <3>6, Zenon DEF FlatInv
  <2>3. CASE mode' # "ENTERING"
    <3>1. mode' \in {"IDLE", "COOLDOWN"} /\ pc' = "sleep"
      BY <1>9, <2>1, <2>3, Zenon DEF IdleTick
    <3> QED
      BY <3>1, Zenon DEF FlatInv
  <2> QED
    BY <2>2, <2>3, Zenon
<1>10. CASE WatchdogTick
  BY <1>10, ExitInTime, Zenon DEF WatchdogTick
<1>11. CASE FrozenTick
  <2>1. mode = "HOLDING" /\ \E close \in NextCloses \cup {None} : ~VarSession(close).open
    BY <1>11, Zenon DEF FrozenTick, Sessions
  <2> QED
    BY <1>2, <2>1, OpenReadsOpen, Zenon DEF SessionInv
<1>12. CASE HoldTick
  <2>1. mode = "HOLDING" /\ TickBegins
    BY <1>12, Zenon DEF HoldTick
  <2>2. PICK priced, s0, q : /\ priced \in BOOLEAN /\ s0 \in Sessions(priced) /\ q \in Mark(priced)
                             /\ Data(priced) /\ Decision(q, s0)
    BY <1>12, Zenon DEF HoldTick
  <2>3. q.priced = priced
    BY <2>2, Zenon DEF Mark
  <2>4. CASE \E why : DoExit(why, priced)
    BY <2>1, <2>2, <2>4, ExitInTime, Zenon
  <2>5. CASE ~\E why : DoExit(why, priced)
    <3>1. UNCHANGED <<pc, mode>> /\ ~(s0.enabled /\ s0.toClose < Config.closeBuffer)
      BY <2>2, <2>3, <2>5, Zenon DEF Decision
    <3>2. now' = now /\ since' = 0 /\ pc = "sleep"
      BY <2>1, Zenon DEF TickBegins, World
    <3>3. CASE ~priced
      <4>1. misses' = m + 1
        BY <1>3, <2>2, <3>3, Zenon DEF Data
      <4> QED
        BY <1>7, <3>1, <3>2, <4>1, Zenon
    <3>4. CASE priced
      <4>1. PICK close \in NextCloses : s0 = VarSession(close)
        BY <2>2, <3>4, Zenon DEF Sessions
      <4>2. s0.enabled => s0.toClose >= Config.closeBuffer
        <5>1. hours.enabled => s0.toClose \in 0 .. Week
          BY <4>1, SessionIsSafe, Zenon DEF SessionInv
        <5>2. \A c \in 0 .. Week : c < Config.closeBuffer \/ c >= Config.closeBuffer
          BY ConfigFacts, SMT
        <5>3. s0.enabled = hours.enabled
          BY <4>1, SessionIsSafe, Zenon DEF SessionInv
        <5> QED
          BY <3>1, <5>1, <5>2, <5>3, Zenon
      <4>3. \A k \in 0 .. MaxMiss : NoShut(now, Slack(k, 0))
        BY <4>1, <4>2, LookedAt, Zenon
      <4>4. NoShut(now, Slack(misses, since))' /\ (~Closed(now))'
        BY <1>1, <1>2, <1>5, <2>1, <3>2, <4>3, MeansTheSame, Zenon
      <4> QED
        BY <2>1, <3>1, <3>2, <4>4, Zenon DEF FlatInv
    <3> QED
      BY <2>2, <3>3, <3>4, Zenon
  <2> QED
    BY <2>4, <2>5, Zenon
<1>13. CASE ResumeTick
  BY <1>13, ExitInTime, Zenon DEF ResumeTick
<1>14. CASE Opened
  <2>1. now' = now /\ UNCHANGED <<since, misses>> /\ mode' = "HOLDING" /\ pc' = "sleep"
        /\ pc = "opening" /\ mode = "ENTERING" /\ ~Closed(now)
    BY <1>14, Zenon DEF Opened, Call, World, SessionInv, Shape
  <2>2. NoShut(now, Slack(misses, since))' /\ (~Closed(now))'
    BY <1>1, <1>2, <2>1, MeansTheSame, Zenon
  <2> QED
    BY <2>1, <2>2, Zenon DEF FlatInv
<1>15. CASE NotOpened
  BY <1>15, Zenon DEF NotOpened, FlatInv
<1>16. CASE ClosedOut
  BY <1>16, Zenon DEF ClosedOut, FlatInv
<1>17. CASE NotClosed
  BY <1>17, Zenon DEF NotClosed
<1>18. CASE UNCHANGED vars
  <2>1. now' = now /\ UNCHANGED <<since, misses, pc, mode>>
    BY <1>18, Zenon DEF vars, fileVars
  <2>2. /\ NoShut(now, Slack(misses, since))' <=> NoShut(now, Slack(misses, since))
        /\ NoShut(now, Slack(MaxMiss + 1, since))' <=> NoShut(now, Slack(MaxMiss + 1, since))
        /\ Closed(now)' <=> Closed(now)
    BY <1>1, <2>1, MeansTheSame, Zenon
  <2> QED
    BY <1>2, <2>1, <2>2, Zenon DEF FlatInv
<1> QED
  BY <1>6, <1>7, <1>8, <1>9, <1>10, <1>11, <1>12, <1>13, <1>14, <1>15, <1>16, <1>17, <1>18, Zenon
     DEF Next, Tick, CallEnds

\* "The only safe policy is to be FLAT across any close": with a prompt
\* engine no round is on or being closed while the market is closed, for
\* every calendar and every closure, unless a close failed and latched HALT.
THEOREM FlatAcross == Spec => []FlatAcrossClose
<1>1. Init => FlatInv
  BY Zenon DEF Init, FlatInv
<1>2. FlatInv => FlatAcrossClose
  BY Zenon DEF FlatInv, FlatAcrossClose
<1> QED
  BY <1>1, <1>2, SessionHolds, FlatStep, PTL DEF Spec

-----------------------------------------------------------------------------
(***************************************************************************)
(* A frozen round is reported.                                             *)
(***************************************************************************)
\* The minutes since the last tick that had data began.
Unseen == gap * misses + since

\* The inductive invariant.  While no alert is out the calendar was open
\* at most that long ago; a tick that sees it closed leaves a fresh one.
FrozenInv ==
    mode = "HOLDING" /\ hours.enabled =>
        /\ alerted # None \/ \E e \in 0 .. Unseen : OpenAt(Later(now, Week - e))
        /\ (since = 0 /\ misses = 0) => OpenAt(now) \/ (alerted # None /\ alerted < Config.heartbeat)

LEMMA OpenStays ==
    ASSUME hours' = hours
    PROVE  \A t : OpenAt(t)' <=> OpenAt(t)
BY Zenon DEF OpenAt, Windows

\* Looking back e minutes, and a minute later one more.
LEMMA LookBack ==
    ASSUME NEW t \in Moment, NEW e \in Int
    PROVE  /\ Later(Later(t, 1), Week - (e + 1)) = Later(t, Week - e)
           /\ Later(t, Week - 0) = t
<1>1. t \in Int /\ t + 1 \in Int /\ Week - (e + 1) \in Int /\ t + 1 + (Week - (e + 1)) = t + (Week - e)
  BY WeekAssumption, SMT DEF Moment
<1>2. (((t + 1) % Week) + (Week - (e + 1))) % Week = (t + 1 + (Week - (e + 1))) % Week
  BY <1>1, WeekAssumption, ModShift, Zenon
<1>3. Later(Later(t, 1), Week - (e + 1)) = Later(t, Week - e)
  BY <1>1, <1>2, SMT DEF Later
<1>4. Later(t, Week) = t
  <2>1. Week \in 0 .. Week /\ ~(t + Week < Week) /\ t + Week - Week = t
    BY WeekAssumption, SMT DEF Moment
  <2> QED
    BY <2>1, LaterIs, Zenon
<1>5. Week - 0 = Week
  BY WeekAssumption, SMT
<1> QED
  BY <1>3, <1>4, <1>5, Zenon

LEMMA UnseenFacts ==
    ASSUME SessionInv
    PROVE  /\ Unseen \in Nat /\ Unseen <= Blind /\ Blind \in Nat
           /\ \A g, m \in Nat : g * m + 0 \in Nat
           /\ gap * (misses + 1) + 0 >= Unseen
           /\ gap * misses + (since + 1) = Unseen + 1
<1>1. PICK g \in Nat \ {0}, m \in Nat, s \in Nat, n \in Nat :
        g = gap /\ m = misses /\ s = since /\ n = MaxMiss /\ m <= n /\ s <= g
  <2>1. gap \in Nat \ {0} /\ MaxMiss \in Nat /\ misses \in 0 .. MaxMiss /\ since \in 0 .. gap
    BY ConfigFacts, Zenon DEF SessionInv, Scene, TypeOK
  <2>2. misses \in Nat /\ since \in Nat /\ misses <= MaxMiss /\ since <= gap
    BY <2>1, SMT
  <2> QED
    BY <2>1, <2>2, Zenon
<1>2. PICK x \in Nat, y \in Nat : x = g * m /\ y = g * n
  BY SMT
<1>3. x <= y
  <2>1. g * (n - m) >= 0 /\ g * (n - m) = g * n - g * m
    BY <1>1, SMT
  <2> QED
    BY <1>2, <2>1, SMT
<1>4. g * (m + 1) = x + g /\ g * (n + 1) = y + g
  BY <1>2, SMT
<1>5. Unseen = x + s /\ Blind = y + g
  BY <1>1, <1>2, <1>4, Zenon DEF Unseen, Blind
<1>6. gap * (misses + 1) + 0 = x + g + 0 /\ gap * misses + (since + 1) = x + (s + 1)
  BY <1>1, <1>2, <1>4, Zenon
<1>7. \A h, k \in Nat : h * k + 0 \in Nat
  BY SMT
<1> QED
  BY <1>1, <1>3, <1>5, <1>6, <1>7, SMT

\* A market that _var_session calls open is open on the calendar.
LEMMA OpenIsOpen ==
    ASSUME Scene, NEW close, VarSession(close).open, hours.enabled
    PROVE  OpenAt(now)
<1>1. Evaluate(now).open
  BY VarSessionIs, Zenon
<1> QED
  BY <1>1, ClosesAreSaid, Zenon DEF Scene, ClosesWhenSaid

LEMMA FrozenStep == SessionInv /\ FrozenInv /\ SessionInv' /\ [Next]_vars => FrozenInv'
<1> SUFFICES ASSUME SessionInv, FrozenInv, SessionInv', [Next]_vars, mode' = "HOLDING", hours'.enabled
             PROVE  FrozenInv'
  BY Zenon DEF FrozenInv
<1>1. /\ hours' = hours /\ gap' = gap /\ now \in Moment /\ now' \in Moment
      /\ hours.enabled /\ (~Minute => now' = now)
  BY OnlyMinutesPass, Zenon DEF SessionInv, Scene
<1>2. mode = "HOLDING" =>
        /\ alerted # None \/ \E e \in 0 .. Unseen : OpenAt(Later(now, Week - e))
        /\ (since = 0 /\ misses = 0) => OpenAt(now) \/ (alerted # None /\ alerted < Config.heartbeat)
  BY <1>1, Zenon DEF FrozenInv
<1>3. OpenAt(now') => FrozenInv'
  <2>1. gap' * misses' + since' \in Nat
    <3>1. gap' \in Nat /\ misses' \in Nat /\ since' \in Nat
      <4>1. gap' \in Nat \ {0} /\ misses' \in 0 .. MaxMiss /\ since' \in 0 .. gap'
        BY ConfigFacts, Zenon DEF SessionInv, Scene, TypeOK
      <4> QED
        BY <4>1, SMT
    <3>2. \A g, m, n \in Nat : g * m + n \in Nat
      BY SMT
    <3> QED
      BY <3>1, <3>2, Zenon
  <2>2. 0 \in 0 .. Unseen'
    <3>1. PICK n \in Nat : n = Unseen'
      BY <2>1, Zenon DEF Unseen
    <3>2. 0 \in 0 .. n
      BY SMT
    <3> QED
      BY <3>1, <3>2, Zenon
  <2>3. Later(now', Week - 0) = now'
    <3>1. 0 \in Int
      BY SMT
    <3> QED
      BY <1>1, <3>1, LookBack, Zenon
  <2> QED
    BY <1>1, <2>2, <2>3, OpenStays, Zenon DEF FrozenInv
<1>4. CASE Minute
  <2>1. /\ mode = "HOLDING" /\ now' = Later(now, 1) /\ since' = since + 1 /\ misses' = misses
        /\ alerted' = IF alerted = None THEN None ELSE UpTo(alerted, Config.heartbeat)
    BY <1>4, Zenon DEF Minute
  <2>2. ~(since' = 0)
    <3>1. since \in 0 .. gap /\ gap \in Nat
      BY ConfigFacts, Zenon DEF SessionInv, Scene, TypeOK
    <3> QED
      BY <2>1, <3>1, SMT
  <2>3. alerted # None => alerted' # None
    <3>1. alerted # None => UpTo(alerted, Config.heartbeat) \in 0 .. Config.heartbeat
      BY ConfigFacts, UpToTyped, Zenon DEF SessionInv, TypeOK
    <3>2. None \notin 0 .. Config.heartbeat
      BY WeekAssumption, SMT
    <3> QED
      BY <2>1, <3>1, <3>2, Zenon
  <2>4. ASSUME NEW e \in 0 .. Unseen, OpenAt(Later(now, Week - e))
        PROVE  \E f \in 0 .. Unseen' : OpenAt(Later(now', Week - f))
    <3>1. PICK n \in Nat : n = Unseen /\ Unseen' = n + 1
      BY <1>1, <2>1, UnseenFacts, Zenon DEF Unseen
    <3>2. PICK f \in 0 .. n + 1 : f = e + 1
      <4>1. e \in 0 .. n
        BY <3>1, Zenon
      <4> QED
        BY <4>1, SMT
    <3>3. e \in Int
      BY SMT
    <3>4. Later(now', Week - f) = Later(now, Week - e)
      BY <1>1, <2>1, <3>2, <3>3, LookBack, Zenon
    <3> QED
      BY <2>4, <3>1, <3>4, Zenon
  <2>5. alerted' # None \/ \E f \in 0 .. Unseen' : OpenAt(Later(now', Week - f))
    BY <1>2, <2>1, <2>3, <2>4, Zenon
  <2> QED
    BY <1>1, <2>2, <2>5, OpenStays, Zenon DEF FrozenInv
<1>5. CASE MissedTick
  <2>1. mode = "HOLDING" /\ now' = now /\ since' = 0 /\ misses' = misses + 1 /\ alerted' = alerted
    BY <1>5, Zenon DEF MissedTick, TickBegins, World, Data, fileVars
  <2>2. ~(misses' = 0)
    <3>1. misses \in 0 .. MaxMiss
      BY Zenon DEF SessionInv, TypeOK
    <3> QED
      BY <2>1, <3>1, ConfigFacts, SMT
  <2>3. 0 .. Unseen \subseteq 0 .. Unseen'
    <3>1. PICK n \in Nat : n = Unseen
      BY UnseenFacts, Zenon
    <3>2. PICK k \in Int : k = gap * (misses + 1) + 0
      <4>1. misses + 1 \in Int /\ gap \in Int
        BY ConfigFacts, SMT DEF SessionInv, Scene, TypeOK
      <4> QED
        BY <4>1, SMT
    <3>3. Unseen' = k /\ k >= n
      BY <1>1, <2>1, <3>1, <3>2, UnseenFacts, Zenon DEF Unseen
    <3>4. 0 .. n \subseteq 0 .. k
      BY <3>3, SMT
    <3> QED
      BY <3>1, <3>3, <3>4, Zenon
  <2>4. alerted' # None \/ \E e \in 0 .. Unseen' : OpenAt(Later(now', Week - e))
    BY <1>2, <2>1, <2>3, Zenon
  <2> QED
    BY <1>1, <2>2, <2>4, OpenStays, Zenon DEF FrozenInv
<1>6. CASE HaltedTick
  BY <1>6, Zenon DEF HaltedTick, fileVars, SessionInv, Shape
<1>7. CASE IdleTick
  BY <1>7, Zenon DEF IdleTick
<1>8. CASE WatchdogTick \/ ResumeTick
  BY <1>8, Zenon DEF WatchdogTick, ResumeTick, DoExit
<1>9. CASE FrozenTick
  <2>1. alerted' # None /\ alerted' < Config.heartbeat
    <3>1. alerted' = IF alerted = None \/ alerted >= Config.heartbeat THEN 0 ELSE alerted
      BY <1>9, Zenon DEF FrozenTick, AlertMarketFrozen
    <3>2. 0 # None /\ 0 < Config.heartbeat
      BY ConfigFacts, WeekAssumption, SMT
    <3>3. alerted = None \/ alerted >= Config.heartbeat \/ alerted < Config.heartbeat
      <4>1. \A a \in 0 .. Config.heartbeat : a >= Config.heartbeat \/ a < Config.heartbeat
        BY ConfigFacts, SMT
      <4> QED
        BY <4>1, Zenon DEF SessionInv, TypeOK
    <3> QED
      BY <3>1, <3>2, <3>3, Zenon
  <2> QED
    BY <2>1, Zenon DEF FrozenInv
<1>10. CASE HoldTick
  <2>1. PICK close : VarSession(close).open
    BY <1>10, Zenon DEF HoldTick, Sessions
  <2>2. OpenAt(now) /\ now' = now
    BY <1>1, <1>10, <2>1, OpenIsOpen, Zenon DEF SessionInv, HoldTick, TickBegins, World
  <2> QED
    BY <1>3, <2>2, Zenon
<1>11. CASE Opened
  <2>1. OpenAt(now) /\ now' = now
    BY <1>1, <1>11, Zenon DEF Opened, Call, World, Closed
  <2> QED
    BY <1>3, <2>1, Zenon
<1>12. CASE NotOpened \/ ClosedOut
  BY <1>12, Zenon DEF NotOpened, ClosedOut
<1>13. CASE NotClosed
  BY <1>13, Zenon DEF NotClosed, SessionInv, Shape
<1>14. CASE UNCHANGED vars
  BY <1>1, <1>2, <1>14, OpenStays, Zenon DEF vars, fileVars, FrozenInv, Unseen
<1> QED
  BY <1>4, <1>5, <1>6, <1>7, <1>8, <1>9, <1>10, <1>11, <1>12, <1>13, <1>14, Zenon
     DEF Next, Tick, CallEnds

\* A frozen round is never silent: once the calendar has been closed for as
\* long as the engine may take to see it an alert is out, and the tick that
\* finds it as old as the heartbeat has repeated it.
THEOREM FrozenReported == Spec => []FrozenIsReported
<1>1. Init => FrozenInv
  BY Zenon DEF Init, FrozenInv
<1>2. SessionInv /\ FrozenInv => FrozenIsReported
  <2> SUFFICES ASSUME SessionInv, FrozenInv, mode = "HOLDING", hours.enabled,
                      \A d \in 0 .. Blind : ~OpenAt(Later(now, Week - d))
               PROVE  alerted # None /\ (alerted < Config.heartbeat \/ since > 0 \/ misses > 0)
    BY Zenon DEF FrozenIsReported
  <2>1. 0 .. Unseen \subseteq 0 .. Blind /\ 0 \in 0 .. Blind
    <3>1. PICK n \in Nat, k \in Nat : n = Unseen /\ k = Blind /\ n <= k
      BY UnseenFacts, Zenon
    <3>2. 0 .. n \subseteq 0 .. k /\ 0 \in 0 .. k
      BY <3>1, SMT
    <3> QED
      BY <3>1, <3>2, Zenon
  <2>2. alerted # None
    BY <2>1, Zenon DEF FrozenInv
  <2>3. ~OpenAt(now)
    <3>1. 0 \in Int
      BY SMT
    <3> QED
      BY <2>1, <3>1, LookBack, Zenon DEF SessionInv, Scene
  <2>4. since = 0 /\ misses = 0 => alerted < Config.heartbeat
    BY <2>3, Zenon DEF FrozenInv
  <2>5. (since = 0 \/ since > 0) /\ (misses = 0 \/ misses > 0)
    <3>1. since \in 0 .. gap /\ misses \in 0 .. MaxMiss /\ gap \in Nat
      BY ConfigFacts, Zenon DEF SessionInv, Scene, TypeOK
    <3> QED
      BY <3>1, SMT
  <2> QED
    BY <2>2, <2>4, <2>5, Zenon
<1> QED
  BY <1>1, <1>2, SessionHolds, FrozenStep, PTL DEF Spec

-----------------------------------------------------------------------------
(***************************************************************************)
(* The last minutes.                                                       *)
(***************************************************************************)
\* The metadata can only bring the close nearer.
LEMMA NeverLater ==
    ASSUME SessionInv, NEW close \in NextCloses \cup {None}, hours.enabled,
           Evaluate(now).toClose < Config.closeBuffer
    PROVE  VarSession(close).enabled /\ VarSession(close).toClose < Config.closeBuffer
<1> DEFINE cal == Evaluate(now)
           earlier == hours.enabled /\ cal.open /\ close # None /\ close < cal.toClose
<1>1. /\ VarSession(close).enabled
      /\ VarSession(close).toClose = IF earlier THEN close ELSE cal.toClose
  BY VarSessionIs, Zenon DEF SessionInv
<1>2. cal.toClose \in 0 .. Week
  <2>1. cal.toClose \in 0 .. Week \cup {None}
    BY EvaluateTyped, Zenon DEF Session, SessionInv, Scene
  <2>2. PICK c \in 0 .. Week \cup {None} : c = cal.toClose
    BY <2>1, Zenon
  <2>3. Windows \subseteq Window
    BY OpenAtMeans, Zenon DEF SessionInv, Scene
  <2>4. 0 # None /\ \A x \in Moment : x # None
    BY WeekAssumption, SMT DEF Moment
  <2>5. \A w \in Windows : Ahead(now, w.close) # None
    BY <2>3, <2>4, AheadIs, Zenon DEF Window, SessionInv, Scene
  <2>6. cal.toClose # None
    BY <2>4, <2>5, EvaluateSays, Zenon DEF SessionInv, Scene
  <2> QED
    BY <2>1, <2>6, Zenon
<1>3. close # None => close \in 0 .. Week
  <2>1. 0 \in 0 .. Week /\ 1 .. Week \subseteq 0 .. Week
    BY WeekAssumption, SMT
  <2> QED
    BY <2>1, NextShutIsFirst, Zenon DEF NextCloses
<1> HIDE DEF cal
<1>4. PICK c \in 0 .. Week : c = cal.toClose
  BY <1>2, Zenon
<1>5. c < Config.closeBuffer
  BY <1>4, Zenon DEF cal
<1>6. \A x \in 0 .. Week : x < c => x < Config.closeBuffer
  BY <1>5, ConfigFacts, SMT
<1> QED
  BY <1>1, <1>3, <1>4, <1>5, <1>6, Zenon

\* An exit begun inside the pre-close buffer is urgent: whichever trigger
\* fires with it, its reason is never one that works the Lighter leg passively.
THEOREM LastMinutes == Spec => LastMinutesAreUrgent
<1>1. SessionInv /\ [Next]_vars =>
        [(pc = "sleep" /\ pc' = "closing" /\ hours.enabled
          /\ Evaluate(now).toClose < Config.closeBuffer) => reason' \notin Calm]_vars
  <2> SUFFICES ASSUME SessionInv, [Next]_vars, pc = "sleep", pc' = "closing", hours.enabled,
                      Evaluate(now).toClose < Config.closeBuffer
               PROVE  reason' \notin Calm
    BY Zenon
  <2>1. \/ reason' = "watchdog" \/ reason' = "recovered_exit" \/ reason' = "market_closing"
    <3>1. CASE WatchdogTick \/ ResumeTick
      BY <3>1, Zenon DEF WatchdogTick, ResumeTick, DoExit
    <3>2. CASE HoldTick
      <4>1. PICK close, m : close \in NextCloses \cup {None} /\ Decision(m, VarSession(close))
        BY <3>2, Zenon DEF HoldTick, Sessions
      <4> QED
        BY <4>1, NeverLater, Zenon DEF Decision, DoExit
    <3>3. CASE ~(WatchdogTick \/ ResumeTick \/ HoldTick)
      BY <3>3, Zenon DEF Next, Minute, Tick, MissedTick, HaltedTick, IdleTick, FrozenTick, CallEnds,
                         Opened, NotOpened, ClosedOut, NotClosed, vars, fileVars
    <3> QED
      BY <3>1, <3>2, <3>3, Zenon
  <2> QED
    BY <2>1, Zenon DEF Calm
<1> QED
  BY <1>1, SessionHolds, PTL DEF Spec, LastMinutesAreUrgent
=============================================================================
