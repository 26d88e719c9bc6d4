-------------------------- MODULE TimerHostProofs --------------------------
(***************************************************************************)
(* Proofs about the two parts beneath the Time Manager: host times         *)
(* (HostTime), for any units and any clock, and the control of the timer   *)
(* thread (ThreadSuspend), for any number of its steps.                    *)
(*                                                                         *)
(* Host times: seconds and nanoseconds order, add and subtract like the    *)
(* times they stand for, and the conversions from and to Mac times are     *)
(* exact or round down.  HostInv carries these facts through the life of a *)
(* task: its deadline is the clock it was primed at plus its delay.        *)
(* -2^31 microseconds is the one Mac time left out (it has no negation).   *)
(*                                                                         *)
(* The thread: the invariant Handshake describes the signals by where the  *)
(* emulator thread is.                                                     *)
(***************************************************************************)
EXTENDS HostTime, ThreadSuspend, TLAPS

-----------------------------------------------------------------------------
(* Arithmetic *)

\* Division with remainder, as the definitions of \div and % give it
LEMMA Remainder ==
  ASSUME NEW a \in Int, NEW n \in Nat \ {0}
  PROVE  /\ a % n \in 0..(n - 1)
         /\ a \div n \in Int
         /\ a = n * (a \div n) + (a % n)
BY Z3

\* Quotient and remainder are the only ones of their range.
LEMMA DivisionIs ==
  ASSUME NEW a \in Int, NEW n \in Nat \ {0}, NEW q \in Int, NEW r \in 0..(n - 1), a = n * q + r
  PROVE  a \div n = q /\ a % n = r
<1> DEFINE d == a \div n
           m == a % n
<1>1. d \in Int /\ m \in 0..(n - 1) /\ a = n * d + m
  BY Remainder
<1> HIDE DEF d, m
<1>2. n * (d - q) = r - m
  <2>1. n * (d - q) = n * d - n * q
    BY <1>1
  <2> QED BY <1>1, <2>1
<1>3. CASE d - q >= 1
  <2>1. n * (d - q) >= n
    BY <1>1, <1>3
  <2> QED BY <1>1, <1>2, <2>1
<1>4. CASE d - q <= -1
  <2>1. n * (d - q) <= -n
    BY <1>1, <1>4
  <2> QED BY <1>1, <1>2, <2>1
<1>5. CASE d = q
  <2>1. n * d = n * q
    BY <1>5
  <2>2. m = r
    <3>1. n * d \in Int
      BY <1>1
    <3> QED BY <1>1, <2>1, <3>1
  <2> QED BY <1>5, <2>2 DEF d, m
<1> QED
  BY <1>1, <1>3, <1>4, <1>5

\* Products of positive numbers, and of numbers in order
LEMMA Product ==
  ASSUME NEW a \in Nat \ {0}, NEW b \in Nat \ {0}
  PROVE  a * b \in Nat \ {0} /\ a <= a * b /\ b <= a * b
<1>1. a * (b - 1) >= 0 /\ (a - 1) * b >= 0 /\ a * b \in Int
  BY Z3
<1>2. a * (b - 1) = a * b - a /\ (a - 1) * b = a * b - b
  BY Z3
<1> QED
  BY <1>1, <1>2

LEMMA ProductOrder ==
  ASSUME NEW a \in Int, NEW b \in Int, NEW n \in Nat, a <= b
  PROVE  a * n \in Int /\ b * n \in Int /\ a * n <= b * n
<1>1. (b - a) * n >= 0 /\ a * n \in Int /\ b * n \in Int
  BY Z3
<1>2. (b - a) * n = b * n - a * n
  BY Z3
<1> QED
  BY <1>1, <1>2

\* A millisecond, and a second, have at least one nanosecond.
LEMMA Units ==
  /\ UsPerSec \in Nat \ {0}
  /\ NsPerSec \in Nat \ {0}
  /\ NsPerSec = UsPerSec * NsPerUs
  /\ UsPerMs * NsPerUs \in Nat \ {0}
  /\ NsPerSec = MsPerSec * (UsPerMs * NsPerUs)
  /\ UsPerMs * NsPerUs <= NsPerSec
  /\ NsPerUs <= UsPerMs * NsPerUs
<1>1. UsPerSec \in Nat \ {0}
  BY UnitAssumption, Product DEF UsPerSec
<1>2. NsPerSec \in Nat \ {0} /\ NsPerSec = UsPerSec * NsPerUs
  BY <1>1, UnitAssumption, Product DEF NsPerSec
<1>3. UsPerMs * NsPerUs \in Nat \ {0} /\ NsPerUs <= UsPerMs * NsPerUs
  BY UnitAssumption, Product
<1>4. NsPerSec = MsPerSec * (UsPerMs * NsPerUs)
  BY UnitAssumption, Z3 DEF NsPerSec, UsPerSec
<1>5. UsPerMs * NsPerUs <= NsPerSec
  <2>1. UsPerMs * NsPerUs <= MsPerSec * (UsPerMs * NsPerUs)
    BY <1>3, UnitAssumption, Product
  <2> QED BY <2>1, <1>4
<1> QED
  BY <1>1, <1>2, <1>3, <1>4, <1>5

\* An int holds the numbers of its range unchanged.
LEMMA Int32Identity ==
  ASSUME NEW x \in MinInt..MaxInt
  PROVE  Int32(x) = x
<1> DEFINE w == 2 * (MaxInt + 1)
<1>1. w \in Nat \ {0} /\ x - MinInt \in 0..(w - 1) /\ x - MinInt = w * 0 + (x - MinInt)
  BY UnitAssumption DEF MinInt
<1>2. x - MinInt \in Int
  BY <1>1
<1> HIDE DEF w
<1>3. (x - MinInt) % w = x - MinInt
  BY <1>1, <1>2, DivisionIs
<1> QED
  BY <1>3, UnitAssumption DEF Int32, MinInt, w

-----------------------------------------------------------------------------
(* Host times *)

\* Seconds first, then nanoseconds: the order of the times they stand for
LEMMA NsOrder ==
  ASSUME NEW a \in Timespec, NEW b \in Timespec
  PROVE  /\ Ns(a) \in Int /\ Ns(b) \in Int
         /\ Ns(a) <= Ns(b) <=>
              a.tv_sec < b.tv_sec \/ (a.tv_sec = b.tv_sec /\ a.tv_nsec <= b.tv_nsec)
<1> DEFINE s == a.tv_sec
           t == b.tv_sec
           n == NsPerSec
<1>1. s \in Int /\ t \in Int /\ a.tv_nsec \in 0..(n - 1) /\ b.tv_nsec \in 0..(n - 1)
  BY DEF Timespec
<1>2. n \in Nat \ {0}
  BY Units
<1>3. Ns(a) = s * n + a.tv_nsec /\ Ns(b) = t * n + b.tv_nsec
  BY DEF Ns
<1> HIDE DEF s, t, n
<1>4. s * n \in Int /\ t * n \in Int
  BY <1>1, <1>2
<1>5. CASE s < t
  <2>1. (s + 1) * n <= t * n
    BY <1>1, <1>2, <1>5, ProductOrder
  <2>2. (s + 1) * n = s * n + n
    BY <1>1, <1>2
  <2> QED BY <1>1, <1>2, <1>3, <1>4, <1>5, <2>1, <2>2 DEF s, t
<1>6. CASE s > t
  <2>1. (t + 1) * n <= s * n
    BY <1>1, <1>2, <1>6, ProductOrder
  <2>2. (t + 1) * n = t * n + n
    BY <1>1, <1>2
  <2> QED BY <1>1, <1>2, <1>3, <1>4, <1>6, <2>1, <2>2 DEF s, t
<1>7. CASE s = t
  <2>1. s * n = t * n
    BY <1>7
  <2> QED BY <1>1, <1>2, <1>3, <1>4, <1>7, <2>1 DEF s, t
<1> QED
  BY <1>1, <1>5, <1>6, <1>7

\* timer_add_time adds, and carries at most one second.
LEMMA AddTime ==
  ASSUME NEW a \in Timespec, NEW b \in Timespec
  PROVE  /\ timer_add_time(a, b) \in Timespec
         /\ Ns(timer_add_time(a, b)) = Ns(a) + Ns(b)
         /\ timer_add_time(a, b).tv_sec \in {a.tv_sec + b.tv_sec, a.tv_sec + b.tv_sec + 1}
<1> DEFINE s == a.tv_sec
           t == b.tv_sec
           n == NsPerSec
<1>1. s \in Int /\ t \in Int /\ a.tv_nsec \in 0..(n - 1) /\ b.tv_nsec \in 0..(n - 1)
  BY DEF Timespec
<1>2. n \in Nat \ {0}
  BY Units
<1>3. s * n \in Int /\ t * n \in Int /\ (s + t) * n = s * n + t * n
      /\ (s + t + 1) * n = s * n + t * n + n
  BY <1>1, <1>2, Z3
<1>4. CASE a.tv_nsec + b.tv_nsec >= n
  <2>1. timer_add_time(a, b) = [tv_sec |-> s + t + 1, tv_nsec |-> a.tv_nsec + b.tv_nsec - n]
    BY <1>1, <1>2, <1>4 DEF timer_add_time, Carry
  <2> QED BY <1>1, <1>2, <1>3, <1>4, <2>1 DEF Ns, Timespec
<1>5. CASE a.tv_nsec + b.tv_nsec < n
  <2>1. timer_add_time(a, b) = [tv_sec |-> s + t, tv_nsec |-> a.tv_nsec + b.tv_nsec]
    BY <1>1, <1>2, <1>5 DEF timer_add_time, Carry
  <2> QED BY <1>1, <1>2, <1>3, <1>5, <2>1 DEF Ns, Timespec
<1> QED
  BY <1>1, <1>2, <1>4, <1>5

\* timer_sub_time subtracts.
LEMMA SubTime ==
  ASSUME NEW a \in Timespec, NEW b \in Timespec
  PROVE  /\ timer_sub_time(a, b) \in Timespec
         /\ Ns(timer_sub_time(a, b)) = Ns(a) - Ns(b)
<1> DEFINE s == a.tv_sec
           t == b.tv_sec
           n == NsPerSec
<1>1. s \in Int /\ t \in Int /\ a.tv_nsec \in 0..(n - 1) /\ b.tv_nsec \in 0..(n - 1)
  BY DEF Timespec
<1>2. n \in Nat \ {0}
  BY Units
<1>3. s * n \in Int /\ t * n \in Int /\ (s - t) * n = s * n - t * n
      /\ (s - t - 1) * n = s * n - t * n - n
  BY <1>1, <1>2, Z3
<1>4. CASE a.tv_nsec - b.tv_nsec < 0
  <2>1. timer_sub_time(a, b) = [tv_sec |-> s - t - 1, tv_nsec |-> a.tv_nsec - b.tv_nsec + n]
    BY <1>4 DEF timer_sub_time, Borrow
  <2> QED BY <1>1, <1>2, <1>3, <1>4, <2>1 DEF Ns, Timespec
<1>5. CASE a.tv_nsec - b.tv_nsec >= 0
  <2>1. timer_sub_time(a, b) = [tv_sec |-> s - t, tv_nsec |-> a.tv_nsec - b.tv_nsec]
    BY <1>1, <1>2, <1>5 DEF timer_sub_time, Borrow
  <2> QED BY <1>1, <1>2, <1>3, <1>5, <2>1 DEF Ns, Timespec
<1> QED
  BY <1>1, <1>2, <1>4, <1>5

\* timer_cmp_time orders two times whose seconds are less than 2^31 apart.
LEMMA CompareTime ==
  ASSUME NEW a \in Timespec, NEW b \in Timespec, a.tv_sec - b.tv_sec \in MinInt..MaxInt
  PROVE  timer_cmp_time(a, b) <= 0 <=> Ns(a) <= Ns(b)
<1>1. /\ a.tv_sec \in Int /\ b.tv_sec \in Int
      /\ a.tv_nsec \in 0..(NsPerSec - 1) /\ b.tv_nsec \in 0..(NsPerSec - 1)
  BY DEF Timespec
<1>2. a.tv_nsec - b.tv_nsec \in MinInt..MaxInt
  BY <1>1, Units, UnitAssumption DEF MinInt
<1>3. CASE a.tv_sec = b.tv_sec
  <2>1. timer_cmp_time(a, b) = a.tv_nsec - b.tv_nsec
    BY <1>2, <1>3, Int32Identity DEF timer_cmp_time
  <2> QED BY <1>1, <1>3, <2>1, Units, NsOrder
<1>4. CASE a.tv_sec # b.tv_sec
  <2>1. timer_cmp_time(a, b) = a.tv_sec - b.tv_sec
    BY <1>4, Int32Identity DEF timer_cmp_time
  <2> QED BY <1>1, <1>4, <2>1, NsOrder
<1> QED
  BY <1>3, <1>4

\* timer_mac2host_time is exact, except for the one int that has no negation.
LEMMA MacToHost ==
  ASSUME NEW m \in (MinInt + 1)..MaxInt
  PROVE  /\ timer_mac2host_time(m) \in Timespec
         /\ Ns(timer_mac2host_time(m)) = MacNs(m)
         /\ MacNs(m) \in 0..(MaxInt * (UsPerMs * NsPerUs))
<1> DEFINE k == NsPerUs
           u == UsPerMs * NsPerUs
<1>1. m \in Int /\ m <= MaxInt /\ -m <= MaxInt /\ MaxInt \in Nat
  BY UnitAssumption DEF MinInt
<1>2. k \in Nat \ {0} /\ u \in Nat \ {0} /\ k <= u /\ NsPerSec = MsPerSec * u
      /\ NsPerSec = UsPerSec * k /\ u <= NsPerSec
  BY Units, UnitAssumption
<1>3. MsPerSec \in Nat \ {0} /\ UsPerMs \in Nat \ {0} /\ UsPerSec \in Nat \ {0}
      /\ NsPerSec \in Nat \ {0}
  BY Units, UnitAssumption
<1>4. CASE m > 0
  <2> DEFINE q == m \div MsPerSec
             r == m % MsPerSec
  <2>1. q \in Int /\ r \in 0..(MsPerSec - 1) /\ m = MsPerSec * q + r
    BY <1>1, <1>3, Remainder
  <2>2. timer_mac2host_time(m) = [tv_sec |-> q, tv_nsec |-> r * UsPerMs * NsPerUs]
    BY <1>4 DEF timer_mac2host_time
  <2> HIDE DEF q, r
  <2>3. r * UsPerMs * NsPerUs = r * u
    BY <2>1, UnitAssumption, Z3
  <2>4. r * u \in 0..(NsPerSec - 1)
    <3>1. 0 * u <= r * u /\ r * u <= (MsPerSec - 1) * u /\ r * u \in Int
      <4>1. 0 <= r /\ r <= MsPerSec - 1 /\ r \in Int /\ MsPerSec - 1 \in Int /\ u \in Nat
        BY <1>2, <1>3, <2>1
      <4> HIDE DEF u
      <4> QED BY <4>1, ProductOrder
    <3>2. (MsPerSec - 1) * u = NsPerSec - u
      <4> HIDE DEF u
      <4>1. (MsPerSec - 1) * u = MsPerSec * u - u
        BY <1>2, <1>3, Z3
      <4> QED BY <1>2, <4>1
    <3> HIDE DEF u
    <3> QED BY <1>2, <1>3, <3>1, <3>2
  <2>5. MacNs(m) = m * u
    BY <1>1, <1>4, UnitAssumption, Z3 DEF MacNs
  <2>6. m * u = q * NsPerSec + r * u
    <3> HIDE DEF u
    <3>1. (MsPerSec * q + r) * u = q * (MsPerSec * u) + r * u
      BY <1>2, <1>3, <2>1, Z3
    <3> QED BY <1>2, <2>1, <3>1
  <2>7. m * u \in 0..(MaxInt * u)
    <3> HIDE DEF u
    <3>1. 0 * u <= m * u /\ m * u <= MaxInt * u /\ m * u \in Int /\ MaxInt * u \in Int
      BY <1>1, <1>2, <1>4, ProductOrder
    <3> QED BY <1>2, <3>1
  <2> HIDE DEF u
  <2> QED
    BY <2>1, <2>2, <2>3, <2>4, <2>5, <2>6, <2>7 DEF Timespec, Ns, u
<1>5. CASE m <= 0
  <2> DEFINE us == -m
             q == us \div UsPerSec
             r == us % UsPerSec
  <2>1. us \in 0..MaxInt
    BY <1>1, <1>5
  <2>2. q \in Int /\ r \in 0..(UsPerSec - 1) /\ us = UsPerSec * q + r
    <3>1. us \in Int
      BY <2>1
    <3> HIDE DEF us
    <3> QED BY <1>3, <3>1, Remainder
  <2>3. Int32(-m) = us
    <3>1. us \in MinInt..MaxInt
      BY <1>1, <2>1 DEF MinInt
    <3> QED BY <3>1, Int32Identity
  <2>4. Quot(us, UsPerSec) = q /\ Rem(us, UsPerSec) = r
    <3>1. Quot(us, UsPerSec) = q
      BY <2>1 DEF Quot
    <3> HIDE DEF us, q, r
    <3> QED BY <1>3, <2>1, <2>2, <3>1 DEF Rem
  <2>5. timer_mac2host_time(m) = [tv_sec |-> q, tv_nsec |-> r * k]
    <3> HIDE DEF q, r
    <3> QED BY <1>1, <1>5, <2>3, <2>4 DEF timer_mac2host_time
  <2> HIDE DEF q, r
  <2>6. r * k \in 0..(NsPerSec - 1)
    <3> HIDE DEF k
    <3>1. 0 * k <= r * k /\ r * k <= (UsPerSec - 1) * k /\ r * k \in Int
      <4>1. 0 <= r /\ r <= UsPerSec - 1 /\ r \in Int /\ UsPerSec - 1 \in Int
        BY <1>3, <2>2
      <4> QED BY <4>1, <1>2, ProductOrder
    <3>2. (UsPerSec - 1) * k = UsPerSec * k - k
      BY <1>2, <1>3, Z3
    <3> QED BY <1>2, <1>3, <3>1, <3>2
  <2>7. MacNs(m) = us * k
    <3>1. -(m * k) = (-m) * k
      BY <1>1, <1>2, Z3
    <3> QED BY <1>1, <1>5, <3>1 DEF MacNs
  <2>8. us * k = q * NsPerSec + r * k
    <3> HIDE DEF k, us
    <3>1. (UsPerSec * q + r) * k = q * (UsPerSec * k) + r * k
      BY <1>2, <1>3, <2>2, Z3
    <3> QED BY <1>2, <2>2, <3>1
  <2>9. us * k \in 0..(MaxInt * u)
    <3> HIDE DEF k, us, u
    <3>1. 0 * k <= us * k /\ us * k <= MaxInt * k /\ us * k \in Int
      BY <1>1, <1>2, <2>1, ProductOrder
    <3>2. k * MaxInt <= u * MaxInt
      BY <1>1, <1>2, ProductOrder
    <3>3. k * MaxInt = MaxInt * k /\ u * MaxInt = MaxInt * u /\ MaxInt * u \in Int
          /\ MaxInt * k \in Int
      BY <1>1, <1>2, Z3
    <3> QED BY <1>2, <3>1, <3>2, <3>3
  <2> HIDE DEF us
  <2> QED
    BY <2>2, <2>5, <2>6, <2>7, <2>8, <2>9 DEF Timespec, Ns
<1> QED
  BY <1>1, <1>4, <1>5

\* timer_host2mac_time rounds down to microseconds or, where these do not fit,
\* to milliseconds; a time that is not positive becomes 0.
LEMMA HostToMac ==
  ASSUME NEW t \in Timespec, Ns(t) <= MaxInt * (UsPerMs * NsPerUs)
  PROVE  LET rest == Ns(t)
             unit == IF rest \div NsPerUs > MaxInt THEN UsPerMs * NsPerUs ELSE NsPerUs
             c == timer_host2mac_time(t)
         IN  /\ c \in MinInt..MaxInt
             /\ rest <= 0 => c = 0
             /\ rest > 0 => MacNs(c) <= rest /\ rest < MacNs(c) + unit
<1> DEFINE s == t.tv_sec
           n == t.tv_nsec
           k == NsPerUs
           u == UsPerMs * NsPerUs
           rest == Ns(t)
           c == timer_host2mac_time(t)
           us == s * UsPerSec + (n \div k)
<1>1. s \in Int /\ n \in 0..(NsPerSec - 1) /\ MaxInt \in Nat /\ 0 \in MinInt..MaxInt
  BY UnitAssumption DEF Timespec, MinInt
<1>2. k \in Nat \ {0} /\ u \in Nat \ {0} /\ NsPerSec = UsPerSec * k /\ u = UsPerMs * k
      /\ NsPerSec \in Nat \ {0} /\ UsPerSec \in Nat \ {0} /\ UsPerMs \in Nat \ {0}
  BY Units, UnitAssumption
<1>3. rest = s * NsPerSec + n /\ rest \in Int
  BY NsOrder DEF Ns
<1>4. CASE s < 0
  <2>1. c = 0
    BY <1>4 DEF timer_host2mac_time
  <2>2. rest < 0
    <3>1. s * NsPerSec <= (-1) * NsPerSec
      BY <1>1, <1>2, <1>4, ProductOrder
    <3>2. s * NsPerSec \in Int /\ (-1) * NsPerSec = -NsPerSec
      BY <1>1, <1>2
    <3> HIDE DEF s, n, rest
    <3> QED BY <1>1, <1>2, <1>3, <3>1, <3>2
  <2> HIDE DEF rest, c
  <2>3. c \in MinInt..MaxInt /\ ~(rest > 0)
    BY <1>1, <1>3, <2>1, <2>2
  <2> QED BY <2>1, <2>3 DEF rest, c
<1>5. CASE s >= 0
  <2> DEFINE q == n \div k
             r == n % k
  <2>1. q \in Nat /\ r \in 0..(k - 1) /\ n = k * q + r
    <3>1. n \in Int /\ n >= 0
      BY <1>1, <1>2
    <3>2. q \in Int /\ r \in 0..(k - 1) /\ n = k * q + r
      <4> HIDE DEF n, k
      <4> QED BY <1>2, <3>1, Remainder
    <3> HIDE DEF n, k, q, r
    <3>3. q >= 0
      <4>1. CASE q <= -1
        <5>1. q * k <= (-1) * k
          BY <1>2, <3>2, <4>1, ProductOrder
        <5>2. q * k = k * q /\ k * q \in Int
          BY <1>2, <3>2
        <5> QED BY <1>2, <3>1, <3>2, <5>1, <5>2
      <4> QED BY <3>2, <4>1
    <3> QED BY <3>2, <3>3
  <2> HIDE DEF q, r
  <2>2. us = s * UsPerSec + q
    BY DEF q
  <2>3. us \in Nat
    <3>1. 0 * UsPerSec <= s * UsPerSec /\ s * UsPerSec \in Int
      BY <1>1, <1>2, <1>5, ProductOrder
    <3> HIDE DEF us, s
    <3> QED BY <1>2, <2>1, <2>2, <3>1
  <2> HIDE DEF us
  <2>4. rest = k * us + r
    <3>1. k * (s * UsPerSec + q) = s * (UsPerSec * k) + k * q
      <4> HIDE DEF k, s
      <4> QED BY <1>1, <1>2, <2>1, Z3
    <3>2. s * NsPerSec \in Int
      BY <1>1, <1>2
    <3>3. k * q \in Int
      BY <1>2, <2>1
    <3> HIDE DEF k, s, n, rest
    <3> QED BY <1>1, <1>2, <1>3, <2>1, <2>2, <3>1, <3>2, <3>3
  <2> HIDE DEF rest
  <2>5. rest \div k = us
    <3>1. rest \in Int
      <4>1. k * us \in Int
        BY <1>2, <2>3
      <4> HIDE DEF k
      <4> QED BY <1>2, <2>1, <2>4, <4>1
    <3> HIDE DEF k
    <3> QED BY <1>2, <2>1, <2>3, <2>4, <3>1, DivisionIs
  <2>6. c = Int32(IF us > MaxInt THEN us \div UsPerMs ELSE -us)
    BY <1>1, <1>5 DEF timer_host2mac_time, us
  <2> HIDE DEF c
  <2>7. k * us \in Nat
    <3> HIDE DEF k
    <3> QED BY <1>2, <2>3
  <2>8. CASE us <= MaxInt
    <3>1. c = -us
      <4>1. -us \in MinInt..MaxInt
        BY <1>1, <2>3, <2>8 DEF MinInt
      <4>2. c = Int32(-us)
        BY <1>1, <2>3, <2>6, <2>8
      <4> QED BY <4>1, <4>2, Int32Identity
    <3>2. c \in MinInt..MaxInt
      BY <1>1, <2>3, <2>8, <3>1 DEF MinInt
    <3>3. MacNs(c) = k * us
      <4>1. MacNs(c) = -(c * k)
        BY <2>3, <3>1 DEF MacNs
      <4> HIDE DEF k
      <4>2. -((-us) * k) = k * us
        BY <1>2, <2>3, Z3
      <4> QED BY <3>1, <4>1, <4>2
    <3>4. rest <= 0 => us = 0
      <4>1. CASE us >= 1
        <5>1. 1 * k <= us * k
          BY <1>2, <2>3, <4>1, ProductOrder
        <5>2. us * k = k * us
          BY <1>2, <2>3
        <5> HIDE DEF k
        <5> QED BY <1>2, <2>1, <2>4, <2>7, <5>1, <5>2
      <4> QED BY <2>3, <4>1
    <3> HIDE DEF k
    <3> QED BY <1>1, <1>2, <2>1, <2>3, <2>4, <2>5, <2>7, <2>8, <3>1, <3>2, <3>3, <3>4 DEF rest, c, k
  <2>9. CASE us > MaxInt
    <3> DEFINE d == us \div UsPerMs
               e == us % UsPerMs
    <3>1. d \in Int /\ e \in 0..(UsPerMs - 1) /\ us = UsPerMs * d + e
      BY <1>2, <2>3, Remainder
    <3>2. us <= UsPerMs * MaxInt
      <4> HIDE DEF k
      <4>1. CASE us >= UsPerMs * MaxInt + 1
        <5>1. (UsPerMs * MaxInt + 1) * k <= us * k
          BY <1>1, <1>2, <2>3, <4>1, ProductOrder
        <5>2. (UsPerMs * MaxInt + 1) * k = MaxInt * (UsPerMs * k) + k /\ us * k = k * us
          BY <1>1, <1>2, <2>3, Z3
        <5>3. MaxInt * (UsPerMs * k) \in Int
          BY <1>1, <1>2
        <5>4. rest <= MaxInt * (UsPerMs * k)
          BY <1>2 DEF rest, k
        <5> QED BY <1>2, <2>1, <2>4, <2>7, <5>1, <5>2, <5>3, <5>4
      <4>2. UsPerMs * MaxInt \in Int
        BY <1>1, <1>2
      <4> QED BY <2>3, <4>1, <4>2
    <3> HIDE DEF d, e
    <3>3. d \in 0..MaxInt
      <4>1. CASE d <= -1
        <5>1. d * UsPerMs <= (-1) * UsPerMs
          BY <1>2, <3>1, <4>1, ProductOrder
        <5>2. d * UsPerMs = UsPerMs * d /\ UsPerMs * d \in Int
          BY <1>2, <3>1
        <5> QED BY <1>1, <1>2, <2>3, <2>9, <3>1, <5>1, <5>2
      <4>2. CASE d >= MaxInt + 1
        <5>1. (MaxInt + 1) * UsPerMs <= d * UsPerMs
          BY <1>1, <1>2, <3>1, <4>2, ProductOrder
        <5>2. d * UsPerMs = UsPerMs * d /\ UsPerMs * d \in Int
          BY <1>2, <3>1
        <5>3. (MaxInt + 1) * UsPerMs = UsPerMs * MaxInt + UsPerMs /\ UsPerMs * MaxInt \in Int
          BY <1>1, <1>2
        <5> QED BY <1>1, <1>2, <2>3, <3>1, <3>2, <5>1, <5>2, <5>3
      <4> QED BY <1>1, <3>1, <4>1, <4>2
    <3>4. c = d
      <4>1. d \in MinInt..MaxInt
        BY <1>1, <3>3 DEF MinInt
      <4>2. c = Int32(d)
        BY <2>6, <2>9 DEF d
      <4> QED BY <4>1, <4>2, Int32Identity
    <3>5. c \in MinInt..MaxInt
      BY <1>1, <3>3, <3>4 DEF MinInt
    <3> HIDE DEF k, u
    <3>6. MacNs(c) = d * u
      <4>1. CASE d = 0
        <5>1. MacNs(c) = -(0 * k)
          BY <3>4, <4>1 DEF MacNs, k
        <5> QED BY <1>2, <4>1, <5>1
      <4>2. CASE d > 0
        <5>1. MacNs(c) = d * UsPerMs * k
          BY <3>4, <4>2 DEF MacNs, k
        <5> QED BY <1>2, <3>3, <5>1, Z3
      <4> QED BY <3>3, <4>1, <4>2
    <3>7. k * us = d * u + k * e
      <4>1. k * (UsPerMs * d + e) = d * (UsPerMs * k) + k * e
        BY <1>2, <3>1, <3>3, Z3
      <4> QED BY <1>2, <3>1, <4>1
    <3>8. 0 <= k * e /\ k * e <= u - k /\ k * e \in Int
      <4>1. 0 * k <= e * k /\ e * k <= (UsPerMs - 1) * k /\ e * k \in Int
        <5>1. 0 <= e /\ e <= UsPerMs - 1 /\ e \in Int /\ UsPerMs - 1 \in Int
          BY <1>2, <3>1
        <5> QED BY <1>2, <5>1, ProductOrder
      <4>2. (UsPerMs - 1) * k = UsPerMs * k - k /\ e * k = k * e
        BY <1>2, <3>1, Z3
      <4> QED BY <1>2, <4>1, <4>2
    <3>9. d * u \in Int
      BY <1>2, <3>3
    <3>10. rest > 0
      <4>1. us >= 1
        BY <1>1, <2>3, <2>9
      <4>2. 1 * k <= us * k /\ us * k = k * us
        BY <1>2, <2>3, <4>1, ProductOrder
      <4> QED BY <1>2, <2>1, <2>4, <2>7, <4>2
    <3>11. MacNs(c) <= rest /\ rest < MacNs(c) + u
      <4> DEFINE x == d * u
                 y == k * e
                 z == k * us
      <4>1. x \in Int /\ y \in Int /\ 0 <= y /\ y <= u - k /\ z = x + y /\ rest = z + r
            /\ MacNs(c) = x
        BY <2>4, <3>6, <3>7, <3>8, <3>9
      <4> HIDE DEF x, y, z
      <4> QED BY <1>2, <2>1, <4>1
    <3>12. ~(rest <= 0)
      BY <1>3, <3>10 DEF rest
    <3>13. rest \div k > MaxInt
      BY <2>5, <2>9
    <3> QED BY <3>5, <3>11, <3>12, <3>13 DEF rest, c, k, u
  <2> QED
    BY <1>1, <2>3, <2>8, <2>9
<1> QED
  BY <1>1, <1>4, <1>5

-----------------------------------------------------------------------------
(* The invariant *)

\* The clock has not been set, or it has advanced by one of Elapses
Later == now = start \/ \E t \in Elapses : now = timer_add_time(start, t)

\* The deadline is exact, and what has been saved is the time up to it.
Deadline ==
  phase # "idle" => mactime \in MacTimes /\ Ns(wakeup) = Ns(start) + MacNs(mactime)

Saved == phase = "removed" => tmCount = timer_host2mac_time(timer_sub_time(wakeup, now))

HostInv ==
  HostTypeOK /\ Later /\ Deadline /\ Saved /\ (phase = "idle" => now = start)

\* The Mac times that can be negated
LEMMA Negatable ==
  ASSUME MinInt \notin MacTimes, NEW m \in MacTimes
  PROVE  m \in (MinInt + 1)..MaxInt /\ m \in MinInt..MaxInt
BY InputAssumption, UnitAssumption DEF MinInt

\* The clock does not run backwards.
LEMMA ClockAdvances ==
  ASSUME start \in Timespec, Later
  PROVE  now \in Timespec /\ Ns(start) <= Ns(now)
<1>1. CASE now = start
  BY <1>1, NsOrder
<1>2. ASSUME NEW t \in Elapses, now = timer_add_time(start, t)
      PROVE  now \in Timespec /\ Ns(start) <= Ns(now)
  <2>1. t \in Timespec /\ t.tv_sec >= 0 /\ t.tv_nsec >= 0
    BY InputAssumption DEF Timespec
  <2>2. now \in Timespec /\ Ns(now) = Ns(start) + Ns(t)
    BY <1>2, <2>1, AddTime
  <2>3. Zero \in Timespec /\ Ns(Zero) = 0
    BY Units DEF Zero, Timespec, Ns
  <2>4. Ns(Zero) <= Ns(t)
    BY <2>1, <2>3, NsOrder DEF Zero, Timespec
  <2> QED BY <2>1, <2>2, <2>3, <2>4, NsOrder
<1> QED
  BY <1>1, <1>2 DEF Later

\* What RmvTime saves, of a task that is primed or has been removed
LEMMA RestAsMacTime ==
  ASSUME MinInt \notin MacTimes, HostTypeOK, Later, Deadline, phase # "idle"
  PROVE  LET rest == MacNs(mactime) - (Ns(now) - Ns(start))
             unit == IF rest \div NsPerUs > MaxInt THEN UsPerMs * NsPerUs ELSE NsPerUs
             c == timer_host2mac_time(timer_sub_time(wakeup, now))
         IN  /\ c \in MinInt..MaxInt
             /\ rest <= 0 => c = 0
             /\ ~(rest <= 0) => MacNs(c) <= rest /\ rest < MacNs(c) + unit
<1> DEFINE t == timer_sub_time(wakeup, now)
           limit == MaxInt * (UsPerMs * NsPerUs)
<1>1. wakeup \in Timespec /\ now \in Timespec /\ start \in Timespec
  BY DEF HostTypeOK
<1>2. mactime \in (MinInt + 1)..MaxInt
  BY Negatable DEF Deadline
<1>3. MacNs(mactime) \in 0..limit
  BY <1>2, MacToHost
<1>4. t \in Timespec /\ Ns(t) = Ns(wakeup) - Ns(now)
  BY <1>1, SubTime
<1>5. Ns(wakeup) \in Int /\ Ns(now) \in Int /\ Ns(start) \in Int /\ Ns(t) \in Int
  BY <1>1, <1>4, NsOrder
<1>6. Ns(start) <= Ns(now)
  BY <1>1, ClockAdvances
<1> DEFINE x == MacNs(mactime)
           rest == x - (Ns(now) - Ns(start))
<1>7. Ns(wakeup) = Ns(start) + x
  BY DEF Deadline
<1>8. limit \in Int
  BY UnitAssumption, Units
<1> HIDE DEF t, limit, x
<1>9. Ns(t) = rest /\ Ns(t) <= limit
  BY <1>3, <1>4, <1>5, <1>6, <1>7, <1>8 DEF x
<1> HIDE DEF rest
<1>10. Ns(t) <= 0 \/ Ns(t) > 0
  BY <1>5
<1>11. ~(Ns(t) <= 0) => Ns(t) > 0
  BY <1>5
<1> QED
  BY <1>4, <1>9, <1>11, HostToMac DEF rest, x, t, limit

\* The seconds that timer_cmp_time subtracts are less than 2^31 apart.
LEMMA SecondsFit ==
  ASSUME MinInt \notin MacTimes, \A t \in Elapses : t.tv_sec <= MaxInt,
         HostTypeOK, Later, Deadline, phase # "idle"
  PROVE  wakeup.tv_sec - now.tv_sec \in MinInt..MaxInt
<1>1. wakeup \in Timespec /\ now \in Timespec /\ start \in Timespec
  BY DEF HostTypeOK
<1>2. wakeup.tv_sec \in Int /\ now.tv_sec \in Int /\ start.tv_sec \in Int
  BY <1>1 DEF Timespec
<1>3. start.tv_sec <= now.tv_sec /\ now.tv_sec <= start.tv_sec + MaxInt + 1
  <2>1. CASE now = start
    BY <1>2, <2>1, UnitAssumption
  <2>2. ASSUME NEW t \in Elapses, now = timer_add_time(start, t)
        PROVE  start.tv_sec <= now.tv_sec /\ now.tv_sec <= start.tv_sec + MaxInt + 1
    <3>1. t \in Timespec /\ t.tv_sec \in 0..MaxInt
      BY InputAssumption, UnitAssumption DEF Timespec
    <3>2. now.tv_sec \in {start.tv_sec + t.tv_sec, start.tv_sec + t.tv_sec + 1}
      BY <1>1, <2>2, <3>1, AddTime
    <3> QED BY <1>2, <3>1, <3>2, UnitAssumption
  <2> QED BY <2>1, <2>2 DEF Later
<1>4. mactime \in (MinInt + 1)..MaxInt /\ Ns(wakeup) = Ns(start) + MacNs(mactime)
  BY Negatable DEF Deadline
<1>5. start.tv_sec <= wakeup.tv_sec
  <2>1. Ns(start) <= Ns(wakeup)
    BY <1>1, <1>4, MacToHost, NsOrder
  <2> QED BY <1>1, <1>2, <2>1, NsOrder
<1>6. wakeup.tv_sec <= start.tv_sec + MaxInt
  <2> DEFINE n == NsPerSec
             u == UsPerMs * NsPerUs
             s == start.tv_sec
             w == wakeup.tv_sec
  <2>1. n \in Nat \ {0} /\ u \in Nat \ {0} /\ u <= n /\ MaxInt \in Nat
    BY Units, UnitAssumption
  <2>2. MacNs(mactime) \in 0..(MaxInt * u)
    BY <1>4, MacToHost
  <2>3. Ns(start) = s * n + start.tv_nsec /\ Ns(wakeup) = w * n + wakeup.tv_nsec
    BY DEF Ns
  <2>4. start.tv_nsec \in 0..(n - 1) /\ wakeup.tv_nsec \in 0..(n - 1)
    BY <1>1 DEF Timespec
  <2>5. s \in Int /\ w \in Int
    BY <1>2
  <2> HIDE DEF n, u, s, w
  <2>6. MaxInt * u <= MaxInt * n /\ MaxInt * u \in Int /\ MaxInt * n \in Int
    <3>1. u * MaxInt <= n * MaxInt
      BY <2>1, ProductOrder
    <3>2. u * MaxInt = MaxInt * u /\ n * MaxInt = MaxInt * n
      BY <2>1, Z3
    <3> QED BY <2>1, <3>1, <3>2
  <2>7. CASE w >= s + MaxInt + 1
    <3>1. (s + MaxInt + 1) * n <= w * n
      BY <2>1, <2>5, <2>7, ProductOrder
    <3>2. (s + MaxInt + 1) * n = s * n + MaxInt * n + n /\ s * n \in Int /\ w * n \in Int
      BY <2>1, <2>5, Z3
    <3> DEFINE a == s * n
               b == w * n
               x == MaxInt * u
               y == MaxInt * n
               m == MacNs(mactime)
    <3>3. /\ a \in Int /\ b \in Int /\ x \in Int /\ y \in Int /\ x <= y
          /\ a + y + n <= b /\ m \in 0..x
          /\ b + wakeup.tv_nsec = a + start.tv_nsec + m
      BY <1>4, <2>2, <2>3, <2>6, <3>1, <3>2
    <3> HIDE DEF a, b, x, y, m
    <3> QED BY <2>1, <2>4, <3>3
  <2> QED BY <2>1, <2>5, <2>7 DEF s, w
<1> QED
  BY <1>2, <1>3, <1>5, <1>6, UnitAssumption DEF MinInt

\* Every step keeps it.  The hypothesis is about the negation of -2^31, which
\* does not fit.
LEMMA HostInvariant ==
  ASSUME MinInt \notin MacTimes
  PROVE  HostSpec => []HostInv
<1> USE InputAssumption, UnitAssumption
<1>1. Clocks \subseteq Timespec /\ Elapses \subseteq Timespec
  BY DEF Timespec
<1>2. Zero \in Timespec /\ 0 \in MinInt..MaxInt
  BY Units DEF Zero, Timespec, MinInt
<1>3. ASSUME NEW m \in MacTimes
      PROVE  m \in (MinInt + 1)..MaxInt /\ m \in MinInt..MaxInt
  BY Negatable
<1>4. ASSUME HostInit
      PROVE  HostInv
  BY <1>1, <1>2, <1>4 DEF HostInit, HostInv, HostTypeOK, Later, Deadline, Saved
<1>5. ASSUME HostInv, [HostNext]_hostVars
      PROVE  HostInv'
  <2> USE <1>5 DEF HostInv
  <2>1. ASSUME NEW m \in MacTimes, Prime(m)
        PROVE  HostInv'
    <3>1. timer_mac2host_time(m) \in Timespec /\ Ns(timer_mac2host_time(m)) = MacNs(m)
      BY <1>3, MacToHost
    <3>2. now \in Timespec /\ now = start
      BY <2>1 DEF Prime, HostTypeOK
    <3>3. wakeup' \in Timespec /\ Ns(wakeup') = Ns(start) + MacNs(m)
      BY <2>1, <3>1, <3>2, AddTime DEF Prime
    <3>4. HostTypeOK'
      BY <1>3, <2>1, <3>3 DEF Prime, HostTypeOK
    <3>5. Deadline'
      BY <2>1, <3>3 DEF Prime, Deadline
    <3> QED BY <2>1, <3>4, <3>5 DEF Prime, Later, Saved
  <2>2. ASSUME NEW t \in Elapses, Elapse(t)
        PROVE  HostInv'
    <3>1. now' \in Timespec
      BY <1>1, <2>2, AddTime DEF Elapse, HostTypeOK
    <3> QED BY <2>2, <3>1 DEF Elapse, HostTypeOK, Later, Deadline, Saved
  <2>3. CASE Remove
    <3>1. tmCount' \in MinInt..MaxInt
      BY <2>3, RestAsMacTime DEF Remove, HostTypeOK
    <3> QED BY <2>3, <3>1 DEF Remove, HostTypeOK, Later, Deadline, Saved
  <2>4. CASE Restart
    BY <1>2, <2>4 DEF Restart, HostTypeOK, Later, Deadline, Saved
  <2>5. CASE UNCHANGED hostVars
    BY <2>5 DEF hostVars, HostTypeOK, Later, Deadline, Saved
  <2> QED
    BY <1>5, <2>1, <2>2, <2>3, <2>4, <2>5 DEF HostNext
<1> QED
  BY <1>4, <1>5, PTL DEF HostSpec

\* Every variable keeps its type: the ints never need more than 32 bits.
THEOREM HostTypeCorrect ==
  ASSUME MinInt \notin MacTimes
  PROVE  HostSpec => []HostTypeOK
<1>1. HostInv => HostTypeOK
  BY DEF HostInv
<1> QED
  BY <1>1, HostInvariant, PTL

\* TimerInterrupt finds a task due exactly when its delay has passed, if the
\* clock has not moved by more than 2^31 seconds.
THEOREM DueExactly ==
  ASSUME MinInt \notin MacTimes,
         \A t \in Elapses : t.tv_sec <= MaxInt
  PROVE  HostSpec => []DueWhenElapsed
<1>1. HostInv => DueWhenElapsed
  <2> SUFFICES ASSUME HostInv, phase = "primed"
               PROVE  timer_cmp_time(wakeup, now) <= 0
                        <=> Ns(now) - Ns(start) >= MacNs(mactime)
    BY DEF DueWhenElapsed
  <2>1. Ns(wakeup) = Ns(start) + MacNs(mactime) /\ mactime \in (MinInt + 1)..MaxInt
    BY Negatable DEF HostInv, Deadline
  <2>2. wakeup \in Timespec /\ now \in Timespec /\ start \in Timespec
    BY DEF HostInv, HostTypeOK
  <2>3. wakeup.tv_sec - now.tv_sec \in MinInt..MaxInt
    BY <2>1, <2>2, SecondsFit DEF HostInv
  <2> QED
    BY <2>1, <2>2, <2>3, CompareTime, NsOrder, MacToHost
<1> QED
  BY <1>1, HostInvariant, PTL

\* What RmvTime saves is the rest of the delay, rounded down by less than a
\* unit of the form that holds it.
THEOREM RestSaved ==
  ASSUME MinInt \notin MacTimes
  PROVE  HostSpec => []RestIsSaved
<1>1. HostInv => RestIsSaved
  BY RestAsMacTime DEF HostInv, Saved, RestIsSaved
<1> QED
  BY <1>1, HostInvariant, PTL

-----------------------------------------------------------------------------
(* The timer thread *)

\* The thread runs, or it is on its way out of the handler
Resuming ==
  \/ handler \in {"none", "return"} /\ sigresume = 0
  \/ handler \in {"sigsuspend", "waiting"} /\ sigresume = 1

Running ==
  epc = "run" => suspend_count = 0 /\ sigsuspend = 0 /\ suspend_ack_sem = 0 /\ Resuming

Waiting ==
  epc = "wait_ack" =>
    /\ suspend_count = 1
    /\ \/ sigsuspend = 1 /\ suspend_ack_sem = 0 /\ Resuming
       \/ sigsuspend = 0 /\ suspend_ack_sem = 0 /\ sigresume = 0 /\ handler = "post"
       \/ /\ sigsuspend = 0 /\ suspend_ack_sem = 1 /\ sigresume = 0
          /\ handler \in {"sigsuspend", "waiting"}

InHandler ==
  epc = "stopped" =>
    /\ suspend_count = 1 /\ sigsuspend = 0 /\ suspend_ack_sem = 0 /\ sigresume = 0
    /\ handler \in {"sigsuspend", "waiting"}

Handshake == TypeOK /\ Running /\ Waiting /\ InHandler

\* The handshake is an invariant: every step of either thread keeps it.
LEMMA HandshakeInvariant == Spec => []Handshake
<1> USE DEF Handshake, TypeOK, Running, Waiting, InHandler, Resuming
<1>1. ASSUME Init
      PROVE  Handshake
  <2>1. epc = "run" /\ handler = "none"
    BY <1>1 DEF Init
  <2>2. asleep \in BOOLEAN
    BY <1>1 DEF Init
  <2> QED
    BY <1>1, <2>1, <2>2 DEF Init
<1>2. ASSUME Handshake, [Next]_vars
      PROVE  Handshake'
  <2> USE <1>2 DEF emulVars, threadVars
  <2>1. CASE KillSuspend
    BY <2>1 DEF KillSuspend
  <2>2. CASE WaitAck
    BY <2>2 DEF WaitAck
  <2>3. CASE KillResume
    BY <2>3 DEF KillResume
  <2>4. CASE DeliverSuspend
    BY <2>4 DEF DeliverSuspend, SuspendBlocked
  <2>5. CASE PostAck
    BY <2>5 DEF PostAck
  <2>6. CASE Sigsuspend
    BY <2>6 DEF Sigsuspend
  <2>7. CASE DeliverResume
    BY <2>7 DEF DeliverResume, ResumeBlocked
  <2>8. CASE HandlerReturns
    BY <2>8 DEF HandlerReturns
  <2>9. CASE Step
    BY <2>9 DEF Step
  <2>10. CASE UNCHANGED vars
    BY <2>10 DEF vars
  <2> QED
    BY <1>2, <2>1, <2>2, <2>3, <2>4, <2>5, <2>6, <2>7, <2>8, <2>9, <2>10
       DEF Next, Emulator, Signals
<1> QED
  BY <1>1, <1>2, PTL DEF Spec

\* When timer_thread_suspend has returned, the timer thread is inside its
\* signal handler and no SIGRESUME is pending that would release it.
THEOREM SuspendStops == Spec => []StoppedInHandler
<1>1. Handshake => StoppedInHandler
  BY DEF Handshake, InHandler, StoppedInHandler
<1> QED
  BY <1>1, HandshakeInvariant, PTL

\* Suspend and resume signals pair up: no old SIGRESUME releases a later
\* suspension.
THEOREM SignalsMatch == Spec => []ResumeMatches
<1>1. Handshake => ResumeMatches
  BY DEF Handshake, TypeOK, Running, Waiting, InHandler, Resuming, ResumeMatches
<1> QED
  BY <1>1, HandshakeInvariant, PTL

\* Types, and with them that of the queued signals and the counting semaphore
\* none is ever ahead by more than one: each signal is pending, and
\* suspend_ack_sem posted, at most once.
THEOREM ThreadTypeCorrect == Spec => []TypeOK
<1>1. Handshake => TypeOK
  BY DEF Handshake
<1> QED
  BY <1>1, HandshakeInvariant, PTL

\* The signals implement a thread that can be stopped.
THEOREM Stops == Spec => StoppableSpec
<1> USE DEF Stopped, Asleep
<1>1. Init => Stoppable!Init
  BY DEF Init, Stoppable!Init
<1>2. ASSUME Handshake, Handshake', [Next]_vars
      PROVE  [Stoppable!Next]_(Stoppable!threadVars)
  <2> USE <1>2 DEF Handshake, TypeOK, Running, Waiting, InHandler, Resuming,
                   emulVars, threadVars,
                   Stoppable!Next, Stoppable!threadVars
  <2>1. CASE KillSuspend
    BY <2>1 DEF KillSuspend
  <2>2. CASE WaitAck
    BY <2>2 DEF WaitAck
  <2>3. CASE KillResume
    BY <2>3 DEF KillResume, Stoppable!Continue
  <2>4. CASE DeliverSuspend
    BY <2>4 DEF DeliverSuspend, SuspendBlocked
  <2>5. CASE PostAck
    BY <2>5 DEF PostAck, Stoppable!Stop
  <2>6. CASE Sigsuspend
    BY <2>6 DEF Sigsuspend
  <2>7. CASE DeliverResume
    BY <2>7 DEF DeliverResume, ResumeBlocked
  <2>8. CASE HandlerReturns
    BY <2>8 DEF HandlerReturns
  <2>9. CASE Step
    BY <2>9 DEF Step, Stoppable!Step
  <2>10. CASE UNCHANGED vars
    BY <2>10 DEF vars
  <2> QED
    BY <1>2, <2>1, <2>2, <2>3, <2>4, <2>5, <2>6, <2>7, <2>8, <2>9, <2>10
       DEF Next, Emulator, Signals
<1> QED
  BY <1>1, <1>2, HandshakeInvariant, PTL
  DEF Spec, StoppableSpec, Stoppable!Spec
=============================================================================
