--------------------------- MODULE TimeUtilProofs ---------------------------
(***************************************************************************)
(* Proofs about TimeUtil, for all resolutions that divide each other and   *)
(* for clocks without a bound: ToTicks rounds to the nearest tick, whole   *)
(* milliseconds survive the conversions, deadlines are off by half a       *)
(* millisecond at most, and measured time never goes back.                 *)
(***************************************************************************)
EXTENDS TimeUtil, TLAPS

-----------------------------------------------------------------------------
(* Division.                                                               *)

\* What div and mod are, for a positive divisor ...
LEMMA Division ==
  ASSUME NEW n \in Int, n > 0, NEW a \in Int
  PROVE  /\ a = n * (a \div n) + (a % n)
         /\ a \div n \in Int /\ a % n \in 0..n-1
  BY SMTT(30)

\* ... and that they are the only such numbers.
LEMMA DivisionUnique ==
  ASSUME NEW n \in Int, n > 0, NEW q \in Int, NEW r \in 0..n-1,
         NEW a \in Int, a = n * q + r
  PROVE  a \div n = q /\ a % n = r
  BY SMTT(30)

\* The order of products and quotients.
LEMMA ProductOrder ==
  ASSUME NEW n \in Int, n > 0, NEW x \in Int, NEW y \in Int
  PROVE  x <= y <=> n * x <= n * y
  BY SMTT(30)

\* A larger number has a larger quotient, or the same one and a larger remainder.
LEMMA QuotientOrder ==
  ASSUME NEW n \in Int, n > 0, NEW a \in Int, NEW b \in Int, a <= b
  PROVE  /\ a \div n <= b \div n
         /\ a \div n = b \div n => a % n <= b % n
<1>. DEFINE q == a \div n
            s == b \div n
            r == a % n
            t == b % n
<1>1. /\ a = n * q + r /\ q \in Int /\ r \in 0..n-1
      /\ b = n * s + t /\ s \in Int /\ t \in 0..n-1
  BY Division
<1>. HIDE DEF q, s, r, t
<1>2. CASE s < q
  <2>1. n * (s + 1) <= n * q
    BY <1>1, <1>2, ProductOrder
  <2>2. n * (s + 1) = n * s + n
    BY <1>1
  <2>3. n * q \in Int /\ n * s \in Int
    BY <1>1
  <2>. QED
    BY <1>1, <2>1, <2>2, <2>3
<1>3. q = s => r <= t
  <2>1. n * q \in Int
    BY <1>1
  <2>. QED
    BY <1>1, <2>1
<1>. QED
  BY <1>1, <1>2, <1>3 DEF q, s, r, t

-----------------------------------------------------------------------------
(* ToTicks.                                                                *)

\* c rounded to multiples of k, halves up.
Round(c, k) == IF c % k >= k \div 2 THEN (c \div k) + 1 ELSE c \div k

\* With new ticks of k old ones, ToTicks of a split time is the rounded whole time:
\* converting the fraction of the second apart loses nothing, and its carry goes into
\* the seconds.
LEMMA ToTicksRounds ==
  ASSUME NEW R \in Nat \ {0}, NEW k \in Nat \ {0}, NEW O \in Nat, O = R * k,
         NEW s \in Nat, NEW ns \in 0..O-1, NEW c \in Nat, c = s * O + ns
  PROVE  ToTicks(s, ns, O, R) = Round(c, k)
<1>. DEFINE q == ns \div k
            r == ns % k
<1>1. ns = k * q + r /\ q \in Int /\ r \in 0..k-1
  BY Division
<1>. HIDE DEF q, r
<1>2. O > 0
  OBVIOUS
<1>3. O \div R = k
  <2>1. O = R * k + 0 /\ 0 \in 0..R-1
    OBVIOUS
  <2>. QED
    BY <2>1, DivisionUnique
<1>4. (ns * R) \div O = q
  <2>1. ns * R = O * q + r * R /\ ns * R \in Int
    BY <1>1
  <2>2. r * R \in 0..O-1
    <3>1. r * R \in Int /\ 0 <= r * R
      BY <1>1
    <3>2. R * r <= R * (k - 1)
      BY <1>1, ProductOrder
    <3>3. R * (k - 1) = O - R /\ R * r = r * R
      BY <1>1
    <3>. QED
      BY <3>1, <3>2, <3>3
  <2>. QED
    BY <1>1, <1>2, <2>1, <2>2, DivisionUnique
<1>5. c \div k = s * R + q /\ c % k = r
  <2>1. c = k * (s * R + q) + r
    BY <1>1
  <2>2. s * R + q \in Int
    BY <1>1
  <2>. QED
    BY <1>1, <2>1, <2>2, DivisionUnique
<1>. QED
  BY <1>3, <1>4, <1>5 DEF ToTicks, Round, r

\* Rounding keeps the order.
LEMMA RoundMonotone ==
  ASSUME NEW k \in Nat \ {0}, NEW c \in Nat, NEW d \in Nat, c <= d
  PROVE  Round(c, k) <= Round(d, k)
<1>1. /\ c \div k \in Int /\ c % k \in Int /\ d \div k \in Int /\ d % k \in Int
      /\ k \div 2 \in Int
  BY Division
<1>2. /\ c \div k <= d \div k
      /\ c \div k = d \div k => c % k <= d % k
  BY QuotientOrder
<1>. QED
  BY <1>1, <1>2 DEF Round

\* For an even k the rounded value is less than half of k too low, or at most half of
\* k too high; a multiple of k stays what it is.
LEMMA RoundNearest ==
  ASSUME NEW k \in Nat \ {0}, k % 2 = 0, NEW c \in Nat
  PROVE  /\ Round(c, k) \in Nat
         /\ 2 * (Round(c, k) * k - c) <= k
         /\ 2 * (c - Round(c, k) * k) < k
<1>. DEFINE q == c \div k
            r == c % k
<1>1. c = k * q + r /\ q \in Int /\ r \in 0..k-1
  BY Division
<1>2. k = 2 * (k \div 2) /\ k \div 2 \in Int
  OBVIOUS
<1>. HIDE DEF q, r
<1>3. q \in Nat
  <2>1. CASE q < 0
    <3>1. k * q <= k * (-1)
      BY <1>1, <2>1, ProductOrder
    <3>. QED
      BY <1>1, <3>1
  <2>. QED
    BY <1>1, <2>1
<1>4. CASE r >= k \div 2
  <2>1. Round(c, k) = q + 1
    BY <1>4 DEF Round, q, r
  <2>2. (q + 1) * k = k * q + k /\ k * q \in Int
    BY <1>1
  <2>. QED
    BY <1>1, <1>2, <1>3, <1>4, <2>1, <2>2
<1>5. CASE ~(r >= k \div 2)
  <2>1. Round(c, k) = q
    BY <1>5 DEF Round, q, r
  <2>2. q * k = k * q /\ k * q \in Int
    BY <1>1
  <2>. QED
    BY <1>1, <1>2, <1>3, <1>5, <2>1, <2>2
<1>. QED
  BY <1>4, <1>5

\* A whole number of ticks is not rounded.
LEMMA RoundMultiple ==
  ASSUME NEW k \in Nat, k > 1, NEW v \in Nat
  PROVE  Round(v * k, k) = v
<1>1. v * k = k * v + 0 /\ v * k \in Int
  OBVIOUS
<1>2. (v * k) \div k = v /\ (v * k) % k = 0
  <2>. DEFINE a == v * k
  <2>1. a \in Int /\ a = k * v + 0 /\ 0 \in 0..k-1
    BY <1>1
  <2>. HIDE DEF a
  <2>2. a \div k = v /\ a % k = 0
    BY <2>1, SMTT(30)
  <2>. QED
    BY <2>2 DEF a
<1>3. k \div 2 \in Int /\ k \div 2 >= 1
  OBVIOUS
<1>. QED
  BY <1>2, <1>3 DEF Round

-----------------------------------------------------------------------------
(* The conversions of the clock and of whole milliseconds.                 *)

\* How the resolutions fit into each other.
LEMMA Resolutions ==
  /\ MS_PER_S \in Nat \ {0} /\ US_PER_S \in Nat \ {0} /\ NS_PER_S \in Nat \ {0}
  /\ NS_PER_MS \in Nat \ {0} /\ NS_PER_MS > 1 /\ NS_PER_MS % 2 = 0
  /\ US_PER_MS \in Nat \ {0} /\ US_PER_MS > 1
  /\ NS_PER_S = MS_PER_S * NS_PER_MS /\ US_PER_S = MS_PER_S * US_PER_MS
  /\ NS_PER_S \div US_PER_S \in Nat \ {0}
  /\ NS_PER_S = US_PER_S * (NS_PER_S \div US_PER_S)
<1>. USE ResolutionsAssumption
<1>1. /\ NS_PER_S = MS_PER_S * NS_PER_MS /\ NS_PER_MS \in Int
      /\ US_PER_S = MS_PER_S * US_PER_MS /\ US_PER_MS \in Int
  <2>1. /\ NS_PER_S = MS_PER_S * (NS_PER_S \div MS_PER_S) + (NS_PER_S % MS_PER_S)
        /\ US_PER_S = MS_PER_S * (US_PER_S \div MS_PER_S) + (US_PER_S % MS_PER_S)
        /\ NS_PER_S \div MS_PER_S \in Int /\ US_PER_S \div MS_PER_S \in Int
    BY Division
  <2>2. /\ MS_PER_S * (NS_PER_S \div MS_PER_S) \in Int
        /\ MS_PER_S * (US_PER_S \div MS_PER_S) \in Int
    BY <2>1
  <2>. QED
    BY <2>1, <2>2 DEF NS_PER_MS, US_PER_MS
<1>2. NS_PER_MS > 1 /\ US_PER_MS > 1
  BY <1>1
<1>3. NS_PER_S > 0 /\ US_PER_S > 0
  BY <1>1, <1>2
<1>4. /\ NS_PER_S = US_PER_S * (NS_PER_S \div US_PER_S)
      /\ NS_PER_S \div US_PER_S \in Int
  <2>1. /\ NS_PER_S = US_PER_S * (NS_PER_S \div US_PER_S) + (NS_PER_S % US_PER_S)
        /\ NS_PER_S \div US_PER_S \in Int
    BY <1>3, Division
  <2>2. US_PER_S * (NS_PER_S \div US_PER_S) \in Int
    BY <2>1
  <2>. QED
    BY <2>1, <2>2
<1>5. NS_PER_S \div US_PER_S > 0
  <2>1. CASE NS_PER_S \div US_PER_S <= 0
    <3>1. US_PER_S * (NS_PER_S \div US_PER_S) <= US_PER_S * 0
      BY <1>3, <1>4, <2>1, ProductOrder
    <3>. QED
      BY <1>3, <1>4, <3>1
  <2>. QED
    BY <1>4, <2>1
<1>. QED
  BY <1>1, <1>2, <1>3, <1>4, <1>5

\* clock_gettime splits the clock; CurrentTime and CurrentTimeUsec round it.
LEMMA ClockRounds ==
  ASSUME NEW c \in Nat
  PROVE  LET now == [tv_sec |-> c \div NS_PER_S, tv_nsec |-> c % NS_PER_S]
         IN /\ TimespecToMilliseconds(now) = Round(c, NS_PER_MS)
            /\ TimespecToUsec(now) = Round(c, NS_PER_S \div US_PER_S)
<1>. DEFINE s == c \div NS_PER_S
            ns == c % NS_PER_S
            k == NS_PER_S \div US_PER_S
<1>0. NS_PER_S \in Nat /\ NS_PER_S > 0
  BY Resolutions
<1>1. c = NS_PER_S * s + ns /\ s \in Int /\ ns \in 0..NS_PER_S-1
  BY <1>0, Division
<1>2. s \in Nat
  BY <1>0
<1>. HIDE DEF s, ns, k
<1>3. c = s * NS_PER_S + ns
  <2>1. NS_PER_S * s = s * NS_PER_S
    BY <1>0, <1>1
  <2>. QED
    BY <1>1, <2>1
<1>4. ToTicks(s, ns, NS_PER_S, MS_PER_S) = Round(c, NS_PER_MS)
  <2>1. NS_PER_MS \in Nat \ {0} /\ NS_PER_S = MS_PER_S * NS_PER_MS /\ MS_PER_S \in Nat \ {0}
    BY Resolutions
  <2>. QED
    BY <1>0, <1>1, <1>2, <1>3, <2>1, ToTicksRounds
<1>5. ToTicks(s, ns, NS_PER_S, US_PER_S) = Round(c, k)
  <2>1. k \in Nat \ {0} /\ NS_PER_S = US_PER_S * k /\ US_PER_S \in Nat \ {0}
    BY Resolutions DEF k
  <2>. QED
    BY <1>0, <1>1, <1>2, <1>3, <2>1, ToTicksRounds
<1>. QED
  BY <1>4, <1>5 DEF TimespecToMilliseconds, TimespecToUsec, s, ns, k

\* CurrentTime and CurrentTimeUsec are the clock, rounded to their ticks.
LEMMA CurrentTimeRounds ==
  /\ clock \in Nat => /\ CurrentTime = Round(clock, NS_PER_MS)
                      /\ CurrentTimeUsec = Round(clock, NS_PER_S \div US_PER_S)
  /\ clock' \in Nat => /\ CurrentTime' = Round(clock', NS_PER_MS)
                       /\ CurrentTimeUsec' = Round(clock', NS_PER_S \div US_PER_S)
  BY ClockRounds DEF CurrentTime, CurrentTimeUsec, Now

\* A number of milliseconds as seconds and the rest, in ticks of which k make one.
LEMMA SplitMilliseconds ==
  ASSUME NEW v \in Nat, NEW k \in Nat \ {0}
  PROVE  /\ v \div MS_PER_S \in Nat
         /\ (v % MS_PER_S) * k \in 0..(MS_PER_S * k) - 1
         /\ (v \div MS_PER_S) * (MS_PER_S * k) + (v % MS_PER_S) * k = v * k
<1>. USE Resolutions
<1>. DEFINE q == v \div MS_PER_S
            r == v % MS_PER_S
<1>1. v = MS_PER_S * q + r /\ q \in Int /\ r \in 0..MS_PER_S-1
  BY Division
<1>2. q \in Nat
  OBVIOUS
<1>. HIDE DEF q, r
<1>3. r * k \in 0..(MS_PER_S * k) - 1
  <2>1. k * r <= k * (MS_PER_S - 1)
    BY <1>1, ProductOrder
  <2>2. k * r = r * k /\ k * (MS_PER_S - 1) = MS_PER_S * k - k
    BY <1>1
  <2>3. r * k \in Int /\ MS_PER_S * k \in Int /\ 0 <= r * k
    BY <1>1
  <2>. QED
    BY <2>1, <2>2, <2>3
<1>4. q * (MS_PER_S * k) + r * k = v * k
  BY <1>1
<1>. QED
  BY <1>2, <1>3, <1>4 DEF q, r

\* ToTimespec and ToTimeval keep whole milliseconds, and ToMilliseconds gives them back.
LEMMA Conversions ==
  ASSUME NEW v \in Nat
  PROVE  /\ Nanoseconds(ToTimespec(v)) = v * NS_PER_MS
         /\ ToTimespec(v).tv_nsec \in 0..NS_PER_S - 1
         /\ TimespecToMilliseconds(ToTimespec(v)) = v
         /\ TimevalToMilliseconds(ToTimeval(v)) = v
<1>0. /\ MS_PER_S \in Nat \ {0} /\ NS_PER_S \in Nat /\ US_PER_S \in Nat
      /\ NS_PER_MS \in Nat \ {0} /\ NS_PER_S = MS_PER_S * NS_PER_MS
      /\ US_PER_MS \in Nat \ {0} /\ US_PER_S = MS_PER_S * US_PER_MS
      /\ NS_PER_MS > 1 /\ US_PER_MS > 1
  BY Resolutions
<1>. DEFINE q == v \div MS_PER_S
            r == v % MS_PER_S
<1>1. /\ q \in Nat /\ r * NS_PER_MS \in 0..NS_PER_S - 1
      /\ q * NS_PER_S + r * NS_PER_MS = v * NS_PER_MS
  BY <1>0, SplitMilliseconds
<1>2. /\ r * US_PER_MS \in 0..US_PER_S - 1
      /\ q * US_PER_S + r * US_PER_MS = v * US_PER_MS
  BY <1>0, SplitMilliseconds
<1>3. /\ ToTimespec(v) = [tv_sec |-> q, tv_nsec |-> r * NS_PER_MS]
      /\ ToTimeval(v) = [tv_sec |-> q, tv_usec |-> r * US_PER_MS]
  BY DEF ToTimespec, ToTimeval
<1>. HIDE DEF q, r
<1>4. ToTicks(q, r * NS_PER_MS, NS_PER_S, MS_PER_S) = v
  <2>1. ToTicks(q, r * NS_PER_MS, NS_PER_S, MS_PER_S) = Round(v * NS_PER_MS, NS_PER_MS)
    <3>. DEFINE ns == r * NS_PER_MS
                c == v * NS_PER_MS
    <3>1. c \in Nat /\ ns \in 0..NS_PER_S-1 /\ c = q * NS_PER_S + ns
      BY <1>0, <1>1
    <3>. HIDE DEF ns, c
    <3>2. ToTicks(q, ns, NS_PER_S, MS_PER_S) = Round(c, NS_PER_MS)
      BY <1>0, <1>1, <3>1, ToTicksRounds
    <3>. QED
      BY <3>2 DEF ns, c
  <2>. QED
    BY <1>0, <2>1, RoundMultiple
<1>5. ToTicks(q, r * US_PER_MS, US_PER_S, MS_PER_S) = v
  <2>1. ToTicks(q, r * US_PER_MS, US_PER_S, MS_PER_S) = Round(v * US_PER_MS, US_PER_MS)
    <3>. DEFINE ns == r * US_PER_MS
                c == v * US_PER_MS
    <3>1. c \in Nat /\ ns \in 0..US_PER_S-1 /\ c = q * US_PER_S + ns
      BY <1>0, <1>1, <1>2
    <3>. HIDE DEF ns, c
    <3>2. ToTicks(q, ns, US_PER_S, MS_PER_S) = Round(c, US_PER_MS)
      BY <1>0, <1>1, <3>1, ToTicksRounds
    <3>. QED
      BY <3>2 DEF ns, c
  <2>. QED
    BY <1>0, <2>1, RoundMultiple
<1>. QED
  BY <1>1, <1>3, <1>4, <1>5 DEF Nanoseconds, TimespecToMilliseconds, TimevalToMilliseconds

\* The int that Mutex::TimedLock makes of its argument is never longer, and only
\* differs when the argument is no int.
LEMMA ToIntShorter ==
  ASSUME NEW ms \in Nat
  PROVE  /\ ToInt(ms) \in -(IntMax + 1)..IntMax /\ ToInt(ms) <= ms
         /\ ms <= IntMax => ToInt(ms) = ms
<1>. DEFINE n == IntMax + 1
            a == ms + n
<1>1. n \in Nat \ {0} /\ a \in Nat /\ 2 * n > 0
  BY ResolutionsAssumption
<1>2. ToInt(ms) = (a % (2 * n)) - n
  BY <1>1, ResolutionsAssumption DEF ToInt
<1>3. IntMax = n - 1
  BY ResolutionsAssumption
<1>4. a % (2 * n) \in 0..(2 * n) - 1
  BY <1>1, Division
<1>5. ms <= IntMax => a % (2 * n) = a
  <2>1. ASSUME ms <= IntMax PROVE a = (2 * n) * 0 + a /\ a \in 0..(2 * n) - 1
    BY <2>1, <1>1, <1>3
  <2>2. ASSUME a \in 0..(2 * n) - 1 PROVE a % (2 * n) = a
    BY <2>2, <1>1, SMTT(30)
  <2>. QED
    BY <2>1, <2>2
<1>6. a = ms + n
  OBVIOUS
<1>. HIDE DEF n, a
<1>7. ms > IntMax \/ ms <= IntMax
  BY <1>1, <1>3
<1>. QED
  BY <1>1, <1>2, <1>3, <1>4, <1>5, <1>6, <1>7

-----------------------------------------------------------------------------
(* The timed waits.                                                        *)

\* The deadline is a whole number of milliseconds, and that of a Wait is as far ahead
\* of all that has been waited for as the timeout says.
DeadlineInv ==
  \E v \in Nat :
    /\ abstime = ToTimespec(v)
    /\ call = "Wait" => v >= (IntMax + 1) + waited + timeout

TimeInv ==
  /\ clock \in Nat /\ clock >= Epoch
  /\ call \in {"none", "Wait", "TimedLock"}
  /\ since \in Nat /\ timeout \in Nat /\ waited \in Nat
  /\ DeadlineInv /\ DeadlineNearest /\ WaitsMeasured

\* The clock starts at a whole millisecond beyond the largest int.
LEMMA EpochRounds ==
  Epoch \in Nat /\ Round(Epoch, NS_PER_MS) = IntMax + 1
<1>1. NS_PER_MS \in Nat /\ NS_PER_MS > 1 /\ IntMax + 1 \in Nat
  BY Resolutions, ResolutionsAssumption
<1>2. (IntMax + 1) * NS_PER_MS \in Nat
  BY <1>1
<1>. QED
  BY <1>1, <1>2, RoundMultiple DEF Epoch

\* The invariant holds when nobody waits.
LEMMA TimeInit == Init => TimeInv
<1>. SUFFICES ASSUME Init PROVE TimeInv
  OBVIOUS
<1>1. clock \in Nat /\ CurrentTime = IntMax + 1
  BY EpochRounds, CurrentTimeRounds DEF Init
<1>2. DeadlineInv
  BY DEF Init, DeadlineInv
<1>3. WaitsMeasured
  BY <1>1, ResolutionsAssumption DEF Init, WaitsMeasured
<1>. QED
  BY <1>1, <1>2, <1>3, EpochRounds DEF Init, TimeInv, DeadlineNearest

\* No step sets the clock back.
LEMMA ClockForward == TimeInv /\ [Next]_vars => clock' \in Nat /\ clock' >= clock
<1>1. NS_PER_MS \in Nat
  BY Resolutions
<1>. QED
  BY <1>1 DEF TimeInv, Next, Tick, WaitForTimeRelative, TimedLock, CallWith, TimedOut, Locked,
              vars

\* A later clock is not shown as an earlier time.
LEMMA TimeForward ==
  TimeInv /\ [Next]_vars => /\ CurrentTime \in Int /\ CurrentTime' \in Int
                           /\ CurrentTime' >= CurrentTime
                           /\ CurrentTimeUsec' >= CurrentTimeUsec
<1>. SUFFICES ASSUME TimeInv, [Next]_vars
              PROVE  /\ CurrentTime \in Int /\ CurrentTime' \in Int
                     /\ CurrentTime' >= CurrentTime
                     /\ CurrentTimeUsec' >= CurrentTimeUsec
  OBVIOUS
<1>1. clock \in Nat /\ clock' \in Nat /\ clock' >= clock
  BY ClockForward DEF TimeInv
<1>2. NS_PER_MS \in Nat \ {0} /\ NS_PER_S \div US_PER_S \in Nat \ {0} /\ NS_PER_MS % 2 = 0
  BY Resolutions
<1>3. /\ Round(clock, NS_PER_MS) <= Round(clock', NS_PER_MS)
      /\ Round(clock, NS_PER_S \div US_PER_S) <= Round(clock', NS_PER_S \div US_PER_S)
  BY <1>1, <1>2, RoundMonotone
<1>4. Round(clock, NS_PER_MS) \in Nat /\ Round(clock', NS_PER_MS) \in Nat
  BY <1>1, <1>2, RoundNearest
<1>5. \A k \in Nat \ {0}, c \in Nat : Round(c, k) \in Int
  BY Division DEF Round
<1>. QED
  BY <1>1, <1>2, <1>3, <1>4, <1>5, CurrentTimeRounds

\* A call reads the clock and makes its deadline.
LEMMA CallStep ==
  ASSUME TimeInv,
         NEW what \in {"Wait", "TimedLock"}, NEW value \in Nat, NEW ms \in Int,
         ms >= -(IntMax + 1), ms <= value,
         ms = value \/ (what = "TimedLock" /\ value > IntMax),
         CallWith(what, value, ms)
  PROVE  TimeInv'
<1>. DEFINE p == NS_PER_MS
            now == Round(clock, p)
            v == now + ms
<1>1. /\ p \in Nat \ {0} /\ p % 2 = 0 /\ IntMax \in Nat
      /\ clock \in Nat /\ waited \in Nat
  BY Resolutions, ResolutionsAssumption DEF TimeInv
<1>2. /\ now \in Nat /\ 2 * (now * p - clock) <= p /\ 2 * (clock - now * p) < p
  BY <1>1, RoundNearest
<1>3. CurrentTime = now
  BY <1>1, CurrentTimeRounds
<1>4. now >= (IntMax + 1) + waited
  BY <1>3 DEF TimeInv, WaitsMeasured
<1>. HIDE DEF now
<1>5. v \in Nat
  BY <1>1, <1>2, <1>4
<1>6. /\ call = "none" /\ call' = what /\ since' = clock /\ timeout' = value
      /\ abstime' = ToTimespec(v) /\ UNCHANGED <<clock, waited>>
  BY <1>3 DEF CallWith
<1>7. DeadlineInv'
  <2>1. what = "Wait" => v >= (IntMax + 1) + waited + value
    BY <1>1, <1>2, <1>4
  <2>. QED
    BY <1>5, <1>6, <2>1 DEF DeadlineInv
<1>8. DeadlineNearest'
  <2>. DEFINE n == now * p
              m == ms * p
              e == value * p
  <2>1. Nanoseconds(abstime') = v * p
    BY <1>5, <1>6, Conversions
  <2>2. v * p = n + m /\ n \in Int /\ m \in Int /\ e \in Int
    BY <1>1, <1>2
  <2>3. m <= e
    <3>1. p * ms <= p * value
      BY <1>1, ProductOrder
    <3>. QED
      BY <1>1, <3>1
  <2>4. ms = value => m = e
    OBVIOUS
  <2>5. 2 * (n - clock) <= p /\ 2 * (clock - n) < p
    BY <1>2
  <2>6. Nanoseconds(abstime') = n + m
    BY <2>1, <2>2
  <2>. HIDE DEF n, m, v
  <2>7. since' + timeout' * NS_PER_MS = clock + e
    BY <1>6
  <2>8. 2 * ((n + m) - (clock + e)) <= p
    BY <1>1, <2>2, <2>3, <2>5
  <2>9. ms = value => 2 * ((clock + e) - (n + m)) < p
    BY <1>1, <2>2, <2>4, <2>5
  <2>. HIDE DEF e, p
  <2>. QED
    BY <1>6, <2>6, <2>7, <2>8, <2>9 DEF DeadlineNearest, p
<1>9. WaitsMeasured'
  BY <1>6 DEF TimeInv, WaitsMeasured, CurrentTime, Now
<1>. QED
  BY <1>1, <1>6, <1>7, <1>8, <1>9 DEF TimeInv

\* The deadline has come: CurrentTime has passed all that has been waited for.
LEMMA TimedOutStep ==
  ASSUME TimeInv, TimedOut
  PROVE  TimeInv'
<1>1. PICK v \in Nat :
        /\ abstime = ToTimespec(v)
        /\ call = "Wait" => v >= (IntMax + 1) + waited + timeout
  BY DEF TimeInv, DeadlineInv
<1>2. /\ clock \in Nat /\ waited \in Nat /\ timeout \in Nat /\ IntMax \in Nat
      /\ NS_PER_MS \in Nat \ {0} /\ NS_PER_MS > 1
  BY Resolutions, ResolutionsAssumption DEF TimeInv
<1>3. CurrentTime >= v
  <2>. DEFINE c == v * NS_PER_MS
  <2>1. c \in Nat /\ clock >= c
    BY <1>1, <1>2, Conversions DEF TimedOut
  <2>2. Round(c, NS_PER_MS) = v
    BY <1>2, RoundMultiple
  <2>. HIDE DEF c
  <2>3. Round(c, NS_PER_MS) <= Round(clock, NS_PER_MS)
    BY <1>2, <2>1, RoundMonotone
  <2>. QED
    BY <1>2, <2>2, <2>3, CurrentTimeRounds
<1>4. CurrentTime \in Int /\ CurrentTime' = CurrentTime
  <2>1. Round(clock, NS_PER_MS) \in Nat
    BY <1>2, Resolutions, RoundNearest
  <2>. QED
    BY <1>2, <2>1, CurrentTimeRounds DEF TimedOut, CurrentTime, Now
<1>5. WaitsMeasured'
  BY <1>1, <1>2, <1>3, <1>4 DEF TimeInv, WaitsMeasured, TimedOut
<1>6. DeadlineInv' /\ DeadlineNearest'
  BY <1>1 DEF TimedOut, DeadlineInv, DeadlineNearest
<1>. QED
  BY <1>2, <1>5, <1>6 DEF TimeInv, TimedOut

\* Every step keeps the deadline near and the waits measured.
LEMMA TimeStep == TimeInv /\ [Next]_vars => TimeInv'
<1>. SUFFICES ASSUME TimeInv, [Next]_vars PROVE TimeInv'
  OBVIOUS
<1>s. CASE UNCHANGED vars
  BY <1>s DEF vars, TimeInv, DeadlineInv, DeadlineNearest, WaitsMeasured, CurrentTime, Now
<1>1. ASSUME NEW n \in {1, NS_PER_MS}, Tick(n) PROVE TimeInv'
  <2>1. clock' \in Nat /\ clock' >= clock
    BY ClockForward
  <2>2. CurrentTime \in Int /\ CurrentTime' \in Int /\ CurrentTime' >= CurrentTime
    BY TimeForward
  <2>3. WaitsMeasured'
    BY <1>1, <2>2, ResolutionsAssumption DEF Tick, TimeInv, WaitsMeasured
  <2>4. DeadlineInv' /\ DeadlineNearest'
    BY <1>1 DEF Tick, TimeInv, DeadlineInv, DeadlineNearest
  <2>. QED
    BY <1>1, <2>1, <2>3, <2>4, EpochRounds DEF Tick, TimeInv
<1>2. ASSUME NEW t \in Timeouts, WaitForTimeRelative(t) PROVE TimeInv'
  BY <1>2, CallStep, ResolutionsAssumption DEF WaitForTimeRelative
<1>3. ASSUME NEW t \in Timeouts, TimedLock(t) PROVE TimeInv'
  <2>1. t \in Nat /\ IntMax \in Nat
    BY ResolutionsAssumption
  <2>2. /\ ToInt(t) \in Int /\ ToInt(t) >= -(IntMax + 1) /\ ToInt(t) <= t
        /\ ToInt(t) = t \/ t > IntMax
    BY <2>1, ToIntShorter
  <2>. QED
    BY <1>3, <2>1, <2>2, CallStep DEF TimedLock
<1>4. CASE TimedOut
  BY <1>4, TimedOutStep
<1>5. CASE Locked
  <2>1. DeadlineInv' /\ DeadlineNearest'
    BY <1>5 DEF Locked, TimeInv, DeadlineInv, DeadlineNearest
  <2>2. WaitsMeasured'
    BY <1>5 DEF Locked, TimeInv, WaitsMeasured, CurrentTime, Now
  <2>. QED
    BY <1>5, <2>1, <2>2 DEF Locked, TimeInv
<1>. QED
  BY <1>s, <1>1, <1>2, <1>3, <1>4, <1>5 DEF Next

-----------------------------------------------------------------------------
(* The theorems.                                                           *)

\* A Monitor::Wait or Mutex::TimedLock is given a deadline less than half a
\* millisecond early and at most half a millisecond late, wherever in a second it is
\* called; only a TimedLock whose argument is no int gets an earlier one.
THEOREM NearestDeadline == Spec => []DeadlineNearest
<1>1. TimeInv => DeadlineNearest
  BY DEF TimeInv
<1>. QED
  BY <1>1, TimeInit, TimeStep, PTL DEF Spec

\* The timeouts of Waits that timed out never add up to more than CurrentTime shows.
THEOREM MeasuredWaits == Spec => []WaitsMeasured
<1>1. TimeInv => WaitsMeasured
  BY DEF TimeInv
<1>. QED
  BY <1>1, TimeInit, TimeStep, PTL DEF Spec

\* Deadlines are valid timespecs of whole milliseconds, which ToMilliseconds,
\* ToTimespec and ToTimeval keep.
THEOREM ConversionsRoundTrip == Spec => []RoundTrip
<1>1. ASSUME TimeInv PROVE RoundTrip
  <2>1. PICK v \in Nat : abstime = ToTimespec(v)
    BY <1>1 DEF TimeInv, DeadlineInv
  <2>. QED
    BY <2>1, Conversions DEF RoundTrip
<1>. QED
  BY <1>1, TimeInit, TimeStep, PTL DEF Spec

\* CurrentTime and CurrentTimeUsec never go back: rounding and the carry into the next
\* second keep the order of the clock.
THEOREM MonotoneTime == Spec => TimeMonotone
<1>1. TimeInv /\ [Next]_vars =>
        [CurrentTime' >= CurrentTime /\ CurrentTimeUsec' >= CurrentTimeUsec]_vars
  BY TimeForward
<1>. QED
  BY <1>1, TimeInit, TimeStep, PTL DEF Spec, TimeMonotone
=============================================================================
