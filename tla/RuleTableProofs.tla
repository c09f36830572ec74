-------------------------- MODULE RuleTableProofs ---------------------------
(***************************************************************************)
(* Proofs about module RuleTable, for every list of rules of up to 299     *)
(* names and every number of hashes: while the table is made and grows in  *)
(* place nothing is lost, a bucket is always free, and the context is the  *)
(* map from names to rules that module RuleMap says it is.  That a key in  *)
(* the table is found rests on arithmetic: the number of buckets is prime, *)
(* so the probes of a key come to every bucket.                            *)
(***************************************************************************)
EXTENDS RuleTable, FiniteSetTheorems, TLAPS
-----------------------------------------------------------------------------
(* The inductive invariant.                                                *)

TableFields == {"n", "size", "flags", "keys", "vals"}

\* The buckets of the new table that are taken, and those of either.
NewLive == {b \in DOMAIN growth.flags : growth.flags[b] = "live"}
Occupied == Live(h) \cup NewLive

\* A look-up of the key comes to the bucket: no probe before it is empty.
Reached(flags, n, key, b) ==
    \E turn \in 0..(n - 1) : /\ Probe(key, n, turn) = b
                             /\ \A t \in 0..(turn - 1) : flags[Probe(key, n, t)] # "empty"

\* Every rule that was put is in one bucket or in hand, under its key, and no
\* other has that key.
Holding ==
    /\ \A b \in Occupied : h.vals[b] \in 1..(i - 1) /\ h.keys[b] = Key(h.vals[b])
    /\ \A b, c \in Occupied : h.vals[b] = h.vals[c] => b = c
    /\ \A r \in 1..(i - 1) :
          (\E b \in Occupied : h.vals[b] = r) \/ (growth.hand # NoHand /\ growth.hand.val = r)
    /\ growth.hand # NoHand =>
          /\ growth.hand.val \in 1..(i - 1) /\ growth.hand.key = Key(growth.hand.val)
          /\ \A b \in Occupied : h.vals[b] # growth.hand.val
    /\ \A r, q \in 1..(i - 1) : Key(r) = Key(q) => r = q

\* Between growths a look-up reaches every key.
Resting ==
    /\ status # "growing" /\ growth = NoGrowth
    /\ DOMAIN h.flags = 0..(h.n - 1) /\ DOMAIN h.keys = 0..(h.n - 1) /\ DOMAIN h.vals = 0..(h.n - 1)
    /\ \A b \in 0..(h.n - 1) : h.flags[b] \in {"empty", "live"}
    /\ \A b \in Live(h) : Reached(h.flags, h.n, h.keys[b], b)

\* In a growth, the keys in the new table alone; no bucket is taken in both.
Growing ==
    /\ status = "growing" /\ i <= Len(rules)
    /\ DOMAIN growth = {"n", "flags", "hand"}
    /\ growth.n \in Primes /\ growth.n <= 389 /\ h.n < growth.n
    /\ DOMAIN h.flags = 0..(h.n - 1) /\ DOMAIN growth.flags = 0..(growth.n - 1)
    /\ DOMAIN h.keys = 0..(growth.n - 1) /\ DOMAIN h.vals = 0..(growth.n - 1)
    /\ \A b \in 0..(h.n - 1) : h.flags[b] \in {"empty", "live", "moved"}
    /\ \A b \in 0..(growth.n - 1) : growth.flags[b] \in {"empty", "live"}
    /\ \A b \in NewLive : b \notin Live(h) /\ Reached(growth.flags, growth.n, h.keys[b], b)

\* A table has a bucket more than keys.
Table ==
    /\ i >= 1
    /\ DOMAIN h = TableFields
    /\ h.n \in Primes /\ h.n <= 389
    /\ h.size = i - 1 /\ i - 1 <= UpperBound(h.n)
    /\ Resting \/ Growing
    /\ Holding

\* Not made yet, or destroyed.
Tableless == h = NoTable /\ growth = NoGrowth /\ (status = "failed" \/ (status = "making" /\ i = 0))

IInv ==
    /\ rules \in RuleLists
    /\ i \in 0..(Len(rules) + 1) /\ answer \in 0..Len(rules)
    /\ status \in {"making", "growing", "ready", "failed"}
    /\ status = "ready" => i = Len(rules) + 1
    /\ Table \/ Tableless
-----------------------------------------------------------------------------
(* The least element of a set of numbers, and induction.                   *)

\* A set of natural numbers has a least one.
LEMMA Least ==
    ASSUME NEW T, T \subseteq Nat, T # {}
    PROVE  \E m \in T : \A n \in T : m <= n
<1> DEFINE Below == {0..t : t \in T}
           R == StrictSubsetOrdering(Nat)
<1>1. Below \subseteq FiniteSubsetsOf(Nat)
  <2>1. \A t \in T : 0..t \subseteq Nat /\ IsFiniteSet(0..t)
    BY FS_Interval
  <2>2. QED
    BY <2>1 DEF FiniteSubsetsOf
<1>2. Below # {}
  OBVIOUS
<1>3. IsWellFoundedOn(R, FiniteSubsetsOf(Nat))
  BY FS_StrictSubsetOrderingWellFounded
<1>4. \E b \in Below : \A a \in Below : <<a, b>> \notin R
  <2> HIDE DEF Below, R
  <2>1. QED
    BY <1>1, <1>2, <1>3, WFMin, Zenon
<1>5. PICK m \in T : \A n \in T : <<0..n, 0..m>> \notin R
  BY <1>4
<1>6. ASSUME NEW n \in T, n < m PROVE FALSE
  <2>1. 0..n \subseteq 0..m /\ 0..n # 0..m /\ 0..n \subseteq Nat /\ 0..m \subseteq Nat
    BY <1>6
  <2>2. <<0..n, 0..m>> \in R
    BY <2>1 DEF StrictSubsetOrdering
  <2>3. QED
    BY <1>5, <2>2
<1>7. QED
  BY <1>6

\* FiniteSetsExt's Min is it.
LEMMA MinIs ==
    ASSUME NEW T, T \subseteq Nat, T # {}
    PROVE  Min(T) \in T /\ \A n \in T : Min(T) <= n
<1>1. \E m \in T : \A n \in T : m <= n
  BY Least
<1>2. QED
  BY <1>1 DEF Min

\* Induction, over a set.
LEMMA FromZero ==
    ASSUME NEW S, 0 \in S, \A n \in Nat : n \in S => n + 1 \in S
    PROVE  Nat \subseteq S
<1>1. SUFFICES ASSUME Nat \ S # {} PROVE FALSE
  OBVIOUS
<1>2. PICK m \in Nat \ S : \A n \in Nat \ S : m <= n
  BY <1>1, Least
<1>3. m # 0 /\ m - 1 \in Nat /\ m - 1 \in S
  BY <1>2
<1>4. QED
  BY <1>2, <1>3
-----------------------------------------------------------------------------
(* Arithmetic modulo a prime.                                              *)

\* A sum of a multiple and a remainder has it.
LEMMA Remainder ==
    ASSUME NEW n \in Nat \ {0}, NEW q \in Int, NEW r \in 0..(n - 1)
    PROVE  (n * q + r) % n = r
  OBVIOUS

\* A number is a multiple and a remainder.
LEMMA Divided ==
    ASSUME NEW n \in Nat \ {0}, NEW a \in Int
    PROVE  /\ a = n * (a \div n) + (a % n)
           /\ a \div n \in Int /\ a % n \in 0..(n - 1)
  OBVIOUS

\* A remainder is less than what is divided by.
LEMMA RemainderRange == \A n \in Nat \ {0} : \A a \in Int : a % n \in 0..(n - 1)
  OBVIOUS

\* The numbers in the list of khash.h are prime.
LEMMA ArePrime ==
    ASSUME NEW n \in Primes, NEW m \in 1..(n - 1), n % m = 0
    PROVE  m = 1
<1> DEFINE q == n \div m
<1>1. n = m * q /\ q \in Nat
  BY Divided DEF Primes
<1> HIDE DEF q
<1>2. \A k \in 2..27 : k < n => n % k # 0
  BY DEF Primes
<1>3. m >= 28 => q <= 27
  <2>1. SUFFICES ASSUME m >= 28, q >= 28 PROVE FALSE
    BY <1>1
  <2>2. \A u, v \in Nat : (28 + u) * (28 + v) = 784 + 28 * u + 28 * v + u * v /\ u * v >= 0
    OBVIOUS
  <2>3. m - 28 \in Nat /\ q - 28 \in Nat
    BY <1>1, <2>1 DEF Primes
  <2>4. m * q >= 784
    BY <1>1, <2>2, <2>3 DEF Primes
  <2>5. QED
    BY <1>1, <2>4 DEF Primes
<1>4. q # 0 /\ (q = 1 => m = n) /\ q <= n /\ (q = n => m = 1)
  BY <1>1 DEF Primes
<1>5. n % q = 0
  BY <1>1, <1>4, Remainder
<1>6. QED
  BY <1>2, <1>3, <1>4, <1>5 DEF Primes

\* Every number below a prime has an inverse: the least positive sum of
\* multiples of the two divides both.
LEMMA HasInverse ==
    ASSUME NEW n \in Primes, NEW s \in 1..(n - 1)
    PROVE  \E t \in Nat : \E k \in Int : s * t = n * k + 1
<1> DEFINE Sums == {d \in Nat \ {0} : \E a, b \in Int : d = a * s + b * n}
<1>1. n \in Nat /\ n >= 3
  BY DEF Primes
<1>2. s \in Sums
  <2>1. s = 1 * s + 0 * n
    BY <1>1
  <2>2. QED
    BY <2>1, <1>1
<1>3. PICK m \in Sums : \A d \in Sums : m <= d
  <2>1. Sums \subseteq Nat
    OBVIOUS
  <2>2. QED
    BY <1>2, <2>1, Least
<1>4. PICK a \in Int, b \in Int : m = a * s + b * n
  OBVIOUS
<1>5. ASSUME NEW x \in Nat, NEW c \in Int, NEW d \in Int, x = c * s + d * n
      PROVE  x % m = 0
  <2> DEFINE q == x \div m
             r == x % m
  <2> m \in Nat \ {0}
    OBVIOUS
  <2>1. x = m * q + r /\ q \in Int /\ r \in 0..(m - 1)
    <3> HIDE DEF Sums
    <3>1. QED
      BY Divided
  <2> HIDE DEF q, r
  <2>2. r = (c - q * a) * s + (d - q * b) * n
    BY <1>1, <1>4, <1>5, <2>1
  <2>3. \E u, v \in Int : r = u * s + v * n
    <3>1. c - q * a \in Int /\ d - q * b \in Int
      BY <2>1
    <3>2. QED
      BY <2>2, <3>1
  <2>4. r # 0 => r \in Sums
    BY <2>1, <2>3
  <2> HIDE DEF Sums
  <2>5. r = 0
    BY <1>3, <2>1, <2>4
  <2>6. QED
    BY <2>5 DEF r
<1>6. n % m = 0
  <2>1. n = 0 * s + 1 * n
    BY <1>1
  <2>2. QED
    BY <1>1, <1>5, <2>1
<1>7. m <= s
  BY <1>2, <1>3
<1>8. a * s + b * n = 1
  <2>1. m \in 1..(n - 1)
    BY <1>1, <1>7
  <2>2. QED
    BY <1>4, <1>6, <2>1, ArePrime
<1>9. a = n * (a \div n) + (a % n) /\ a \div n \in Int /\ a % n \in 0..(n - 1)
  BY <1>1, Divided
<1>10. s * (a % n) = n * (-b - s * (a \div n)) + 1
  <2> DEFINE q == a \div n
             t == a % n
  <2>1. a = n * q + t /\ q \in Int /\ t \in 0..(n - 1)
    BY <1>9
  <2> HIDE DEF q, t
  <2>2. s * t = n * (-b - s * q) + 1
    BY <1>1, <1>8, <2>1
  <2>3. QED
    BY <2>2 DEF q, t
<1>11. a % n \in Nat /\ -b - s * (a \div n) \in Int
  BY <1>1, <1>9
<1>12. QED
  BY <1>10, <1>11
-----------------------------------------------------------------------------
(* Probing: the step is no multiple of the number of buckets, which is     *)
(* prime, so that a key's probes meet every bucket.                        *)

\* Probes are buckets.
LEMMA ProbeRange ==
    ASSUME NEW n \in Primes, NEW key \in Nat, NEW turn \in Nat
    PROVE  Probe(key, n, turn) \in 0..(n - 1)
<1> DEFINE s == 1 + (key % (n - 1))
           p == (key % n) + turn * s
<1>1. n \in Nat \ {0} /\ n - 1 \in Nat \ {0}
  BY DEF Primes
<1>2. key % n \in Nat /\ s \in Nat
  <2>1. key % n \in 0..(n - 1) /\ key % (n - 1) \in 0..(n - 1 - 1)
    BY <1>1, key \in Int, RemainderRange, Zenon
  <2>2. QED
    BY <2>1
<1> HIDE DEF s
<1>3. p \in Int
  BY <1>2
<1> HIDE DEF p
<1>4. p % n \in 0..(n - 1)
  BY <1>1, <1>3, Divided
<1>5. QED
  BY <1>4 DEF Probe, p, s

\* The probes of a key are all the buckets: its step is prime to their number.
LEMMA ProbesMeetAll ==
    ASSUME NEW n \in Primes, NEW key \in Nat, NEW b \in 0..(n - 1)
    PROVE  \E turn \in 0..(n - 1) : Probe(key, n, turn) = b
<1> DEFINE s == 1 + (key % (n - 1))
           first == key % n
<1>1. n \in Nat \ {0} /\ n - 1 \in Nat \ {0}
  BY DEF Primes
<1>2. first \in 0..(n - 1) /\ s \in 1..(n - 1)
  <2>1. key % n \in 0..(n - 1) /\ key % (n - 1) \in 0..(n - 1 - 1)
    BY <1>1, key \in Int, RemainderRange, Zenon
  <2>2. QED
    BY <1>1, <2>1
<1>3. \A turn : Probe(key, n, turn) = (first + turn * s) % n
  BY DEF Probe
<1> HIDE DEF s, first
<1>4. PICK t \in Nat : \E k \in Int : s * t = n * k + 1
  BY <1>2, HasInverse
<1>5. PICK k \in Int : s * t = n * k + 1
  BY <1>4
<1> DEFINE far == (b - first + n) * t
           turn == far % n
           q == far \div n
<1>6. far \in Int
  BY <1>1, <1>2
<1>7. far = (b - first + n) * t
  OBVIOUS
<1> HIDE DEF far
<1>8. far = n * q + turn /\ q \in Int /\ turn \in 0..(n - 1)
  BY <1>1, <1>6, Divided
<1> HIDE DEF turn, q
<1>9. turn * s = far * s - n * q * s
  BY <1>1, <1>2, <1>6, <1>8
<1>10. far * s = (b - first + n) * (n * k + 1)
  BY <1>1, <1>2, <1>5, <1>7
<1>11. first + turn * s = n * (1 + (b - first + n) * k - q * s) + b
  BY <1>1, <1>2, <1>8, <1>9, <1>10
<1>12. 1 + (b - first + n) * k - q * s \in Int
  BY <1>1, <1>2, <1>8
<1>13. (first + turn * s) % n = b
  BY <1>1, <1>11, <1>12, Remainder
<1>14. QED
  BY <1>3, <1>8, <1>13

\* The first of a key's probes among those to stop at, if there is one.
StopsAt(key, n, stops, turn) ==
    Probe(key, n, turn) \in stops /\ \A t \in 0..(turn - 1) : Probe(key, n, t) \notin stops

\* With the buckets to stop at in mind, that is where FirstProbe comes to.
LEMMA FirstProbeThere ==
    ASSUME NEW n \in Primes, NEW key \in Nat, NEW stops, NEW b \in stops, b \in 0..(n - 1)
    PROVE  \E turn \in 0..(n - 1) :
              StopsAt(key, n, stops, turn) /\ FirstProbe(key, n, stops) = Probe(key, n, turn)
<1> DEFINE turns == {turn \in 0..(n - 1) : Probe(key, n, turn) \in stops}
<1>1. n \in Nat
  BY DEF Primes
<1>2. turns \subseteq Nat /\ turns # {}
  <2>1. PICK turn \in 0..(n - 1) : Probe(key, n, turn) = b
    BY ProbesMeetAll
  <2>2. turn \in turns
    BY <2>1
  <2>3. QED
    BY <1>1, <2>2
<1>3. Min(turns) \in turns /\ \A t \in turns : Min(turns) <= t
  <2> HIDE DEF turns
  <2>1. QED
    BY <1>2, MinIs
<1>4. FirstProbe(key, n, stops) = Probe(key, n, Min(turns))
  BY <1>2 DEF FirstProbe
<1>5. StopsAt(key, n, stops, Min(turns))
  BY <1>1, <1>3 DEF StopsAt
<1>6. QED
  BY <1>3, <1>4, <1>5
-----------------------------------------------------------------------------
(* Hashes are numbers: the recursion has a solution, whose values are.     *)

\* What is known of a name.
LEMMA NamesAre ==
    ASSUME NEW name \in Seq(1..255)
    PROVE  Len(name) \in Nat /\ \A k \in 1..Len(name) : name[k] \in Nat
<1> DEFINE Octets == 1..255
<1>1. Octets \subseteq Nat
  OBVIOUS
<1>2. name \in Seq(Octets)
  OBVIOUS
<1> HIDE DEF Octets
<1>3. Len(name) \in Nat /\ \A k \in 1..Len(name) : name[k] \in Octets
  BY <1>2
<1>4. QED
  BY <1>1, <1>3

\* So a hash is a number.
LEMMA HashIsNumber ==
    ASSUME RuleTableAssumption, NEW name \in Seq(1..255)
    PROVE  Hash(name) \in Nat
<1> DEFINE after(g, k) == IF k = 0 THEN 0 ELSE (31 * g[k - 1] + name[k]) % HashSize
           hash == CHOOSE g : g = [k \in 0..Len(name) |-> after(g, k)]
<1>1. Hash(name) = hash[Len(name)]
  BY DEF Hash
<1>2. Len(name) \in Nat /\ \A k \in 1..Len(name) : name[k] \in Nat
  BY NamesAre
<1>3. \E g : g = [k \in 0..Len(name) |-> after(g, k)]
  <2> DEFINE Good == {m \in Nat : \E g : g = [k \in 0..m |-> after(g, k)]}
  <2>1. 0 \in Good
    <3> DEFINE g == [k \in 0..0 |-> 0]
    <3>1. g = [k \in 0..0 |-> after(g, k)]
      OBVIOUS
    <3>2. QED
      BY <3>1, Zenon
  <2>2. ASSUME NEW m \in Nat, m \in Good PROVE m + 1 \in Good
    <3>1. PICK g : g = [k \in 0..m |-> after(g, k)]
      BY <2>2, Zenon
    <3> DEFINE e == [k \in 0..(m + 1) |-> IF k <= m THEN g[k] ELSE after(g, m + 1)]
    <3>2. ASSUME NEW k \in 0..(m + 1) PROVE e[k] = after(e, k)
      <4>1. CASE k = 0
        BY <3>1, <4>1
      <4>2. CASE k # 0
        <5>1. e[k - 1] = g[k - 1] /\ k - 1 \in 0..m
          BY <4>2
        <5>2. k <= m => e[k] = after(g, k)
          <6>1. k \in 0..m => g[k] = after(g, k)
            BY <3>1
          <6>2. QED
            BY <6>1
        <5>3. k = m + 1 => e[k] = after(g, k)
          OBVIOUS
        <5>4. after(e, k) = after(g, k)
          BY <4>2, <5>1
        <5>5. QED
          BY <5>2, <5>3, <5>4
      <4>3. QED
        BY <4>1, <4>2
    <3>3. e = [k \in 0..(m + 1) |-> after(e, k)]
      <4>1. e = [k \in 0..(m + 1) |-> e[k]]
        OBVIOUS
      <4> HIDE DEF e
      <4>2. QED
        BY <3>2, <4>1
    <3> HIDE DEF e, after
    <3>4. QED
      BY <3>3
  <2>3. Nat \subseteq Good
    <3> HIDE DEF Good
    <3>1. QED
      BY <2>1, <2>2, FromZero
  <2>4. QED
    BY <1>2, <2>3
<1>4. hash = [k \in 0..Len(name) |-> after(hash, k)]
  BY <1>3, Zenon
<1> HIDE DEF hash
<1>5. hash[Len(name)] \in Nat
  <2> DEFINE Good == {m \in Nat : m <= Len(name) => hash[m] \in Nat}
  <2>1. 0 \in Good
    BY <1>2, <1>4
  <2>2. ASSUME NEW m \in Nat, m \in Good PROVE m + 1 \in Good
    <3>1. SUFFICES ASSUME m + 1 <= Len(name) PROVE hash[m + 1] \in Nat
      OBVIOUS
    <3>2. hash[m] \in Nat /\ name[m + 1] \in Nat
      BY <1>2, <2>2, <3>1
    <3>3. hash[m + 1] = (31 * hash[m] + name[m + 1]) % HashSize
      BY <1>2, <1>4, <3>1
    <3>4. 31 * hash[m] + name[m + 1] \in Int /\ HashSize \in Nat \ {0}
      BY <3>2 DEF RuleTableAssumption
    <3>5. hash[m + 1] \in 0..(HashSize - 1)
      BY <3>3, <3>4, RemainderRange, Zenon
    <3>6. QED
      BY <3>4, <3>5
  <2>3. Nat \subseteq Good
    <3> HIDE DEF Good
    <3>1. QED
      BY <2>1, <2>2, FromZero
  <2>4. QED
    BY <1>2, <2>3
<1>6. QED
  BY <1>1, <1>5
-----------------------------------------------------------------------------
(* Sizes.                                                                  *)

\* A growing table has more buckets than were asked for.
LEMMA BucketsAre ==
    ASSUME NEW least \in Nat, least < 389
    PROVE  BucketsFor(least) \in Primes /\ BucketsFor(least) > least /\ BucketsFor(least) <= 389
<1> DEFINE above == {p \in Primes : p > least}
<1>1. above \subseteq Nat /\ 389 \in above
  BY DEF Primes
<1>2. BucketsFor(least) = Min(above)
  BY DEF BucketsFor
<1>3. Min(above) \in above /\ Min(above) <= 389
  <2> HIDE DEF above
  <2>1. QED
    BY <1>1, MinIs
<1>4. QED
  BY <1>2, <1>3

\* A table is never full, and the bound grows with it.
LEMMA BoundsAre ==
    /\ \A n \in Primes : n \in Nat \ {0} /\ n >= 3 /\ UpperBound(n) \in Nat /\ UpperBound(n) < n
    /\ \A n, m \in Primes : n < m => UpperBound(n) <= UpperBound(m)
  BY DEF UpperBound, Primes

\* What is known of a list of rules.
LEMMA ListsAre ==
    ASSUME RuleTableAssumption, rules \in RuleLists
    PROVE  /\ Len(rules) \in Nat /\ Len(rules) < 300
           /\ \A r \in 1..Len(rules) : Key(r) \in Nat
<1>1. rules \in Seq(Seq(1..255)) /\ UpperBound(389) = 300 /\ UpperBound(389) > Len(rules)
  BY DEF RuleTableAssumption, UpperBound
<1>2. \A r \in 1..Len(rules) : rules[r] \in Seq(1..255)
  BY <1>1
<1>3. QED
  BY <1>1, <1>2, HashIsNumber DEF Key

\* The pigeonhole principle: with fewer rules than buckets one is free.
LEMMA SomeFree ==
    ASSUME NEW n \in Nat, NEW m \in Nat, m < n, NEW taken, NEW vals,
           \A b \in taken : vals[b] \in 1..m,
           \A b, c \in taken : vals[b] = vals[c] => b = c
    PROVE  \E b \in 0..(n - 1) : b \notin taken
<1>1. SUFFICES ASSUME \A b \in 0..(n - 1) : b \in taken PROVE FALSE
  OBVIOUS
<1> DEFINE val == [b \in 0..(n - 1) |-> vals[b]]
<1>2. val \in [0..(n - 1) -> 1..m]
  BY <1>1
<1>3. /\ IsFiniteSet(0..(n - 1)) /\ Cardinality(0..(n - 1)) = n
      /\ IsFiniteSet(1..m) /\ Cardinality(1..m) = m
  BY FS_Interval
<1>4. \E b, c \in 0..(n - 1) : b # c /\ val[b] = val[c]
  <2> DEFINE S == 0..(n - 1)
             T == 1..m
  <2>1. IsFiniteSet(S) /\ IsFiniteSet(T) /\ Cardinality(T) < Cardinality(S) /\ val \in [S -> T]
    BY <1>2, <1>3
  <2> HIDE DEF val, S, T
  <2>2. \E b, c \in S : b # c /\ val[b] = val[c]
    BY <2>1, FS_PigeonHole
  <2>3. QED
    BY <2>2 DEF S
<1>5. QED
  BY <1>1, <1>4
-----------------------------------------------------------------------------
(* Where look-ups come to.                                                 *)

\* A search that stops at every empty bucket passes none before it stops.
LEMMA SiteReached ==
    ASSUME NEW n \in Primes, NEW key \in Nat, NEW flags, DOMAIN flags = 0..(n - 1), NEW stops,
           \A b \in 0..(n - 1) : flags[b] = "empty" => b \in stops,
           NEW free \in 0..(n - 1), flags[free] = "empty"
    PROVE  LET site == FirstProbe(key, n, stops)
           IN  site \in 0..(n - 1) /\ site \in stops /\ Reached(flags, n, key, site)
<1>1. PICK turn \in 0..(n - 1) :
        StopsAt(key, n, stops, turn) /\ FirstProbe(key, n, stops) = Probe(key, n, turn)
  BY FirstProbeThere
<1>2. n \in Nat /\ \A t \in 0..turn : t \in Nat
  BY DEF Primes
<1>3. \A t \in 0..turn : Probe(key, n, t) \in 0..(n - 1)
  BY <1>2, ProbeRange
<1>4. \A t \in 0..(turn - 1) : flags[Probe(key, n, t)] # "empty"
  BY <1>1, <1>2, <1>3 DEF StopsAt
<1>5. Probe(key, n, turn) \in 0..(n - 1)
  BY <1>2, <1>3
<1>6. QED
  BY <1>1, <1>4, <1>5 DEF StopsAt, Reached

\* A key is looked up where it is, if that can be reached and no other bucket
\* has it.
LEMMA SiteFound ==
    ASSUME NEW n \in Primes, NEW key \in Nat, NEW flags, DOMAIN flags = 0..(n - 1), NEW keys,
           NEW b \in 0..(n - 1), Reached(flags, n, key, b), keys[b] = key,
           \A c \in 0..(n - 1) : flags[c] # "empty" /\ keys[c] = key => c = b,
           NEW stops, stops = {c \in DOMAIN flags : flags[c] = "empty" \/ keys[c] = key}
    PROVE  FirstProbe(key, n, stops) = b
<1>1. PICK last \in 0..(n - 1) : /\ Probe(key, n, last) = b
                                 /\ \A t \in 0..(last - 1) : flags[Probe(key, n, t)] # "empty"
  BY DEF Reached
<1>2. b \in stops
  OBVIOUS
<1>3. PICK turn \in 0..(n - 1) :
        StopsAt(key, n, stops, turn) /\ FirstProbe(key, n, stops) = Probe(key, n, turn)
  BY <1>2, FirstProbeThere
<1>4. n \in Nat /\ turn <= last
  BY <1>1, <1>2, <1>3 DEF StopsAt, Primes
<1>5. Probe(key, n, turn) \in stops
  BY <1>3 DEF StopsAt
<1>6. turn # last => Probe(key, n, turn) = b
  BY <1>1, <1>4, <1>5
<1>7. QED
  BY <1>1, <1>3, <1>6

\* What can be reached stays so as buckets are taken.
LEMMA ReachedStays ==
    ASSUME NEW n \in Primes, NEW key \in Nat, NEW b, NEW flags, NEW new, Reached(flags, n, key, b),
           \A c \in 0..(n - 1) : flags[c] # "empty" => new[c] # "empty"
    PROVE  Reached(new, n, key, b)
<1>1. PICK turn \in 0..(n - 1) : /\ Probe(key, n, turn) = b
                                 /\ \A t \in 0..(turn - 1) : flags[Probe(key, n, t)] # "empty"
  BY DEF Reached
<1>2. \A t \in 0..(turn - 1) : t \in Nat
  OBVIOUS
<1>3. \A t \in 0..(turn - 1) : Probe(key, n, t) \in 0..(n - 1)
  BY <1>2, ProbeRange
<1>4. QED
  BY <1>1, <1>3 DEF Reached
-----------------------------------------------------------------------------
(* A table at rest.                                                        *)

\* What is known of it.
LEMMA AtRest ==
    ASSUME RuleTableAssumption, IInv, Table, status # "growing"
    PROVE  /\ Resting /\ NewLive = {} /\ Occupied = Live(h) /\ growth.hand = NoHand
           /\ h.n \in Nat /\ i \in Nat /\ i - 1 < h.n
           /\ \A r \in 1..(i - 1) : Key(r) \in Nat
           /\ \E b \in 0..(h.n - 1) : h.flags[b] = "empty"
<1>1. Resting
  BY DEF Table, Growing
<1>2. NewLive = {} /\ growth.hand = NoHand
  BY <1>1 DEF Resting, NoGrowth, NewLive
<1>3. Occupied = Live(h)
  BY <1>2 DEF Occupied
<1>4. h.n \in Nat /\ UpperBound(h.n) \in Nat /\ UpperBound(h.n) < h.n
  BY BoundsAre DEF Table
<1>5. i \in Nat /\ i - 1 < h.n /\ i - 1 \in Nat
  BY <1>4, ListsAre DEF Table, IInv
<1>6. \A r \in 1..(i - 1) : Key(r) \in Nat
  BY ListsAre, <1>5 DEF IInv
<1>7. PICK b \in 0..(h.n - 1) : b \notin Live(h)
  <2>1. /\ \A b \in Live(h) : h.vals[b] \in 1..(i - 1)
        /\ \A b, c \in Live(h) : h.vals[b] = h.vals[c] => b = c
    BY <1>3 DEF Table, Holding
  <2>2. QED
    BY <1>4, <1>5, <2>1, SomeFree
<1>8. h.flags[b] = "empty"
  BY <1>1, <1>7 DEF Resting, Live
<1>9. QED
  BY <1>1, <1>2, <1>3, <1>4, <1>5, <1>6, <1>8

\* The bucket of a rule is where its key is looked up.
LEMMA RuleFound ==
    ASSUME RuleTableAssumption, IInv, Table, status # "growing", NEW r \in 1..(i - 1)
    PROVE  SiteOf(h, Key(r)) \in Live(h) /\ h.vals[SiteOf(h, Key(r))] = r
<1>1. /\ Resting /\ Occupied = Live(h) /\ growth.hand = NoHand /\ Key(r) \in Nat
      /\ h.n \in Nat
  BY AtRest
<1>2. PICK b \in Live(h) : h.vals[b] = r
  BY <1>1 DEF Table, Holding
<1>3. h.keys[b] = Key(r) /\ b \in 0..(h.n - 1)
  BY <1>1, <1>2 DEF Table, Holding, Live
<1>4. \A c \in 0..(h.n - 1) : h.flags[c] # "empty" /\ h.keys[c] = Key(r) => c = b
  <2>1. SUFFICES ASSUME NEW c \in 0..(h.n - 1), h.flags[c] # "empty", h.keys[c] = Key(r) PROVE c = b
    OBVIOUS
  <2>2. c \in Live(h)
    BY <1>1, <2>1 DEF Resting, Live
  <2>3. h.vals[c] \in 1..(i - 1) /\ Key(h.vals[c]) = Key(r)
    BY <1>1, <2>1, <2>2 DEF Table, Holding
  <2>4. h.vals[c] = r
    BY <2>3 DEF Table, Holding
  <2>5. QED
    BY <1>1, <1>2, <2>2, <2>4 DEF Table, Holding
<1>5. Reached(h.flags, h.n, Key(r), b)
  BY <1>1, <1>2, <1>3 DEF Resting
<1>6. SiteOf(h, Key(r)) = b
  <2>1. h.n \in Primes /\ DOMAIN h.flags = 0..(h.n - 1)
    BY <1>1 DEF Resting, Table
  <2> DEFINE key == Key(r)
             flags == h.flags
             keys == h.keys
             n == h.n
  <2>2. /\ n \in Primes /\ key \in Nat /\ DOMAIN flags = 0..(n - 1)
        /\ b \in 0..(n - 1) /\ Reached(flags, n, key, b) /\ keys[b] = key
        /\ \A c \in 0..(n - 1) : flags[c] # "empty" /\ keys[c] = key => c = b
    BY <1>1, <1>3, <1>4, <1>5, <2>1
  <2> DEFINE stops == {c \in DOMAIN flags : flags[c] = "empty" \/ keys[c] = key}
  <2>3. SiteOf(h, key) = FirstProbe(key, n, stops)
    BY DEF SiteOf
  <2>4. stops = {c \in DOMAIN flags : flags[c] = "empty" \/ keys[c] = key}
    OBVIOUS
  <2> HIDE DEF key, flags, keys, n, stops
  <2>5. SiteOf(h, key) = b
    BY <2>2, <2>3, <2>4, SiteFound
  <2>6. QED
    BY <2>5 DEF key
<1>7. QED
  BY <1>2, <1>6

\* A key that is not found has a free bucket to go to.
LEMMA FreeSite ==
    ASSUME RuleTableAssumption, IInv, Table, status # "growing", NEW key \in Nat
    PROVE  /\ SiteOf(h, key) \in 0..(h.n - 1)
           /\ Reached(h.flags, h.n, key, SiteOf(h, key))
           /\ Has(h, key) <=> SiteOf(h, key) \in Live(h)
           /\ Has(h, key) => h.keys[SiteOf(h, key)] = key
           /\ ~Has(h, key) => h.flags[SiteOf(h, key)] = "empty"
<1> DEFINE stops == {b \in DOMAIN h.flags : h.flags[b] = "empty" \/ h.keys[b] = key}
           site == SiteOf(h, key)
<1>1. Resting /\ h.n \in Nat /\ h.n \in Primes
  BY AtRest DEF Table
<1>2. PICK free \in 0..(h.n - 1) : h.flags[free] = "empty"
  BY AtRest
<1>3. site = FirstProbe(key, h.n, stops)
  BY DEF SiteOf
<1>4. \A b \in 0..(h.n - 1) : h.flags[b] = "empty" => b \in stops
  BY <1>1 DEF Resting
<1>5. site \in 0..(h.n - 1) /\ site \in stops /\ Reached(h.flags, h.n, key, site)
  <2> HIDE DEF site, stops
  <2>1. DOMAIN h.flags = 0..(h.n - 1)
    BY <1>1 DEF Resting
  <2>2. QED
    BY <1>1, <1>2, <1>3, <1>4, <2>1, SiteReached
<1>6. site # h.n /\ (h.flags[site] = "empty" \/ h.keys[site] = key) /\ h.flags[site] \in {"empty", "live"}
  BY <1>1, <1>5 DEF Resting
<1>7. QED
  BY <1>5, <1>6 DEF Has, Live
-----------------------------------------------------------------------------
(* The steps.                                                              *)

\* Nothing has been put yet.
LEMMA InitIInv ==
    ASSUME RuleTableAssumption, Init
    PROVE  IInv
<1>1. rules \in RuleLists /\ Len(rules) \in Nat
  BY ListsAre DEF Init
<1>2. Tableless
  BY DEF Init, Tableless
<1>3. QED
  BY <1>1, <1>2 DEF Init, IInv

\* A table without a rule.
LEMMA CreateIInv ==
    ASSUME RuleTableAssumption, IInv, Create
    PROVE  IInv'
<1> DEFINE n == BucketsFor(Len(rules))
<1>1. /\ Len(rules) \in Nat /\ i' = 1 /\ status' = status /\ status = "making" /\ growth' = growth
      /\ rules' = rules /\ answer' = answer
  BY ListsAre DEF IInv, Create
<1>2. n \in Primes /\ n <= 389
  BY <1>1, ListsAre, BucketsAre DEF IInv
<1>3. n \in Nat /\ UpperBound(n) \in Nat
  BY <1>2, BoundsAre
<1>4. growth = NoGrowth
  BY DEF IInv, Create, Table, Tableless
<1>5. /\ DOMAIN h' = TableFields /\ h'.n = n /\ h'.size = 0
      /\ h'.flags = [b \in 0..(n - 1) |-> "empty"]
      /\ h'.keys = [b \in 0..(n - 1) |-> 0] /\ h'.vals = [b \in 0..(n - 1) |-> 0]
  BY DEF Create, EmptyTable, TableFields
<1> HIDE DEF n
<1>6. Live(h') = {} /\ Live(h)' = {}
  BY <1>5 DEF Live
<1>7. NewLive' = {}
  BY <1>1, <1>4 DEF NewLive, NoGrowth
<1>8. Resting'
  BY <1>1, <1>4, <1>5, <1>6 DEF Resting
<1>9. Holding'
  BY <1>1, <1>4, <1>6, <1>7 DEF Holding, Occupied, NoGrowth
<1>10. Table'
  BY <1>1, <1>2, <1>3, <1>5, <1>8, <1>9 DEF Table
<1>11. QED
  BY <1>1, <1>10 DEF IInv

\* A rule whose key is there destroys the table ...
LEMMA RefusedIInv ==
    ASSUME RuleTableAssumption, IInv, Put, Has(h, Key(i))
    PROVE  IInv'
<1>1. h' = NoTable /\ status' = "failed" /\ i' = i /\ UNCHANGED <<rules, growth, answer>>
  BY DEF Put
<1>2. growth = NoGrowth
  BY DEF IInv, Put, Table, Tableless, Growing, Resting
<1>3. Tableless'
  BY <1>1, <1>2 DEF Tableless
<1>4. QED
  BY <1>1, <1>3 DEF IInv

\* What kh_put makes of a table, with the bucket given.
WithSite(t, key, val, site) ==
    [t EXCEPT !.flags[site] = "live", !.keys[site] = key, !.vals[site] = val, !.size = @ + 1]

\* ... any other is put in a free bucket.
LEMMA PutIInv ==
    ASSUME RuleTableAssumption, IInv, Put, ~Has(h, Key(i))
    PROVE  IInv'
<1> DEFINE site == SiteOf(h, Key(i))
<1>1. /\ status = "making" /\ i \in 1..Len(rules) /\ h.size < UpperBound(h.n)
      /\ h' = WithSite(h, Key(i), i, site) /\ i' = i + 1 /\ status' = status
      /\ UNCHANGED <<rules, growth, answer>>
  BY DEF Put, With, WithSite
<1>2. Len(rules) \in Nat /\ Key(i) \in Nat /\ i \in Nat
  BY <1>1, ListsAre DEF IInv
<1>3. Table /\ status # "growing"
  BY <1>1 DEF IInv, Tableless
<1>4. /\ Resting /\ NewLive = {} /\ Occupied = Live(h) /\ growth.hand = NoHand /\ h.n \in Nat /\ i - 1 < h.n
      /\ \A r \in 1..(i - 1) : Key(r) \in Nat
  BY <1>3, AtRest
<1>5. /\ site \in 0..(h.n - 1) /\ h.flags[site] = "empty"
      /\ Reached(h.flags, h.n, Key(i), site)
      /\ site \notin Live(h)
  BY <1>2, <1>3, FreeSite DEF Live
<1> HIDE DEF site
<1>6. /\ DOMAIN h' = TableFields /\ h'.n = h.n /\ h'.size = h.size + 1
      /\ h'.flags = [h.flags EXCEPT ![site] = "live"]
      /\ h'.keys = [h.keys EXCEPT ![site] = Key(i)] /\ h'.vals = [h.vals EXCEPT ![site] = i]
  <2>1. DOMAIN h = TableFields
    BY <1>3 DEF Table
  <2> DEFINE new == WithSite(h, Key(i), i, site)
  <2>2. /\ DOMAIN new = TableFields /\ new.n = h.n /\ new.size = h.size + 1
        /\ new.flags = [h.flags EXCEPT ![site] = "live"]
        /\ new.keys = [h.keys EXCEPT ![site] = Key(i)] /\ new.vals = [h.vals EXCEPT ![site] = i]
    BY <2>1 DEF WithSite, TableFields
  <2>3. h' = new
    BY <1>1
  <2> HIDE DEF new
  <2>4. QED
    BY <2>2, <2>3
<1>7. /\ DOMAIN h'.flags = 0..(h.n - 1) /\ DOMAIN h'.keys = 0..(h.n - 1) /\ DOMAIN h'.vals = 0..(h.n - 1)
      /\ \A b \in 0..(h.n - 1) : /\ h'.flags[b] = IF b = site THEN "live" ELSE h.flags[b]
                                 /\ h'.keys[b] = IF b = site THEN Key(i) ELSE h.keys[b]
                                 /\ h'.vals[b] = IF b = site THEN i ELSE h.vals[b]
  BY <1>4, <1>6 DEF Resting
<1>8. Live(h)' = Live(h) \cup {site}
  BY <1>5, <1>6, <1>7 DEF Live
<1>9. NewLive' = {} /\ Occupied' = Live(h) \cup {site} /\ growth' = NoGrowth /\ growth'.hand = NoHand
  BY <1>1, <1>4, <1>8 DEF NewLive, Occupied, Resting
<1>10. \A r \in 1..i : Key(r)' = Key(r)
  BY <1>1 DEF Key
<1>11. \A b \in Live(h) : b \in 0..(h.n - 1) /\ b # site
  BY <1>5 DEF Live
<1>12. \A b \in Live(h) : h'.vals[b] = h.vals[b] /\ h'.keys[b] = h.keys[b]
  BY <1>7, <1>11
<1>13. \A r \in 1..(i - 1) : Key(r) # Key(i)
  <2>1. ASSUME NEW r \in 1..(i - 1), Key(r) = Key(i) PROVE FALSE
    <3>1. SiteOf(h, Key(r)) \in Live(h)
      BY <1>3, RuleFound
    <3>2. QED
      BY <1>5, <2>1, <3>1 DEF site
  <2>2. QED
    BY <2>1
<1>14. Holding'
  <2>1. \A b \in Live(h) : h.vals[b] \in 1..(i - 1) /\ h.keys[b] = Key(h.vals[b])
    BY <1>3, <1>4 DEF Table, Holding
  <2>2. ASSUME NEW b \in Occupied' PROVE h'.vals[b] \in 1..i /\ h'.keys[b] = Key(h'.vals[b])
    <3>1. CASE b = site
      BY <1>1, <1>2, <1>5, <1>7, <3>1
    <3>2. CASE b # site
      <4>1. b \in Live(h) /\ h'.vals[b] = h.vals[b] /\ h'.keys[b] = h.keys[b]
        BY <1>9, <1>12, <3>2
      <4>2. h.vals[b] \in 1..(i - 1) /\ h.keys[b] = Key(h.vals[b])
        BY <2>1, <4>1
      <4>3. QED
        BY <1>2, <4>1, <4>2
    <3>3. QED
      BY <3>1, <3>2
  <2>3. ASSUME NEW b \in Occupied', NEW c \in Occupied', h'.vals[b] = h'.vals[c] PROVE b = c
    <3>1. \A d \in Live(h) : h'.vals[d] # i
      BY <1>2, <1>12, <2>1
    <3>2. h'.vals[site] = i
      BY <1>5, <1>7
    <3>3. b \in Live(h) /\ c \in Live(h) => b = c
      BY <1>3, <1>4, <1>12, <2>3 DEF Table, Holding
    <3>4. QED
      BY <1>9, <2>3, <3>1, <3>2, <3>3
  <2>4. ASSUME NEW r \in 1..i PROVE \E b \in Occupied' : h'.vals[b] = r
    <3>1. CASE r = i
      BY <1>5, <1>7, <1>9, <3>1
    <3>2. CASE r # i
      <4>1. r \in 1..(i - 1)
        BY <1>2, <3>2
      <4>2. PICK b \in Live(h) : h.vals[b] = r
        BY <1>3, <1>4, <4>1 DEF Table, Holding
      <4>3. QED
        BY <1>9, <1>12, <4>2
    <3>3. QED
      BY <3>1, <3>2
  <2>5. ASSUME NEW r \in 1..i, NEW q \in 1..i, Key(r) = Key(q) PROVE r = q
    <3>1. r # i => r \in 1..(i - 1)
      BY <1>2
    <3>2. q # i => q \in 1..(i - 1)
      BY <1>2
    <3>3. QED
      BY <1>3, <1>13, <2>5, <3>1, <3>2 DEF Table, Holding
  <2>6. i' - 1 = i
    BY <1>1, <1>2
  <2>7. QED
    BY <1>9, <1>10, <2>2, <2>3, <2>4, <2>5, <2>6 DEF Holding
<1>15. Resting'
  <2>1. \A c \in 0..(h.n - 1) : h.flags[c] # "empty" => h'.flags[c] # "empty"
    BY <1>7
  <2>2. ASSUME NEW b \in Live(h) PROVE Reached(h'.flags, h.n, h'.keys[b], b)
    <3>1. Reached(h.flags, h.n, h.keys[b], b) /\ h'.keys[b] = h.keys[b] /\ h.n \in Primes
      BY <1>3, <1>4, <1>12 DEF Resting, Table
    <3>2. h.keys[b] \in Nat
      BY <1>3, <1>4 DEF Table, Holding
    <3>3. QED
      BY <2>1, <3>1, <3>2, ReachedStays, SMTT(30)
  <2>3. Reached(h'.flags, h.n, h'.keys[site], site)
    <3>1. h'.keys[site] = Key(i) /\ h.n \in Primes
      BY <1>3, <1>5, <1>7 DEF Table
    <3>2. QED
      BY <1>2, <1>5, <2>1, <3>1, ReachedStays
  <2>4. \A b \in 0..(h.n - 1) : h'.flags[b] \in {"empty", "live"}
    BY <1>4, <1>7 DEF Resting
  <2>5. QED
    BY <1>1, <1>3, <1>6, <1>7, <1>8, <1>9, <2>2, <2>3, <2>4, ZenonT(30) DEF Resting
<1>16. Table'
  <2>1. h.size = i - 1 /\ h.n \in Primes /\ h.n <= 389
    BY <1>3 DEF Table
  <2>2. UpperBound(h.n) \in Nat
    BY <2>1, BoundsAre
  <2>3. i' >= 1 /\ h'.size = i' - 1 /\ i' - 1 <= UpperBound(h'.n)
    BY <1>1, <1>2, <1>6, <2>1, <2>2
  <2>4. QED
    BY <1>6, <1>14, <1>15, <2>1, <2>3 DEF Table
<1>17. QED
  BY <1>1, <1>2, <1>16 DEF IInv

\* The arrays of keys and values are extended for the new table, which is empty.
LEMMA GrowIInv ==
    ASSUME RuleTableAssumption, IInv, Grow
    PROVE  IInv'
<1> DEFINE n == BucketsFor(h.n + 1)
<1>1. /\ status = "making" /\ i \in 1..Len(rules) /\ h.size >= UpperBound(h.n)
      /\ h' = Extended(h, n) /\ growth' = Growth(n) /\ status' = "growing" /\ i' = i
      /\ UNCHANGED <<rules, answer>>
  BY DEF Grow
<1>2. Table /\ status # "growing"
  BY <1>1 DEF IInv, Tableless
<1>3. /\ Resting /\ NewLive = {} /\ Occupied = Live(h) /\ growth.hand = NoHand /\ h.n \in Nat
  BY <1>2, AtRest
<1>4. h.n + 1 < 389 /\ h.n + 1 \in Nat
  <2>1. Len(rules) \in Nat /\ Len(rules) < 300 /\ h.size = i - 1 /\ h.n \in Primes /\ h.n <= 389
    BY <1>2, ListsAre DEF IInv, Table
  <2>2. UpperBound(h.n) < 300
    <3>1. UpperBound(h.n) \in Nat
      BY <2>1, BoundsAre
    <3>2. QED
      BY <1>1, <2>1, <3>1
  <2>3. h.n # 389
    BY <2>2 DEF UpperBound
  <2>4. QED
    BY <2>1, <2>3 DEF Primes
<1>5. n \in Primes /\ n > h.n + 1 /\ n <= 389 /\ n \in Nat
  <2>1. n \in Primes /\ n > h.n + 1 /\ n <= 389
    BY <1>4, BucketsAre
  <2>2. QED
    BY <2>1 DEF Primes
<1> HIDE DEF n
<1>6. /\ DOMAIN h' = TableFields /\ h'.n = h.n /\ h'.size = h.size /\ h'.flags = h.flags
      /\ DOMAIN h'.keys = 0..(n - 1) /\ DOMAIN h'.vals = 0..(n - 1)
      /\ \A b \in 0..(h.n - 1) : h'.keys[b] = h.keys[b] /\ h'.vals[b] = h.vals[b]
  <2>1. DOMAIN h = TableFields
    BY <1>2 DEF Table
  <2>2. /\ DOMAIN h' = TableFields /\ h'.n = h.n /\ h'.size = h.size /\ h'.flags = h.flags
        /\ h'.keys = [b \in 0..(n - 1) |-> IF b < h.n THEN h.keys[b] ELSE 0]
        /\ h'.vals = [b \in 0..(n - 1) |-> IF b < h.n THEN h.vals[b] ELSE 0]
    BY <1>1, <2>1 DEF Extended, TableFields
  <2>3. \A b \in 0..(h.n - 1) : b \in 0..(n - 1) /\ b < h.n
    BY <1>3, <1>5
  <2>4. QED
    BY <2>2, <2>3
<1>7. /\ DOMAIN growth' = {"n", "flags", "hand"} /\ growth'.n = n /\ growth'.hand = NoHand
      /\ growth'.flags = [b \in 0..(n - 1) |-> "empty"]
  BY <1>1 DEF Growth
<1>8. Live(h)' = Live(h) /\ NewLive' = {} /\ Occupied' = Live(h)
  BY <1>6, <1>7 DEF Live, NewLive, Occupied
<1>9. \A r : Key(r)' = Key(r)
  BY <1>1 DEF Key
<1>10. \A b \in Live(h) : h'.keys[b] = h.keys[b] /\ h'.vals[b] = h.vals[b]
  BY <1>6 DEF Live
<1>11. Holding'
  <2>1. /\ \A b \in Live(h) : h'.vals[b] \in 1..(i - 1) /\ h'.keys[b] = Key(h'.vals[b])
        /\ \A b, c \in Live(h) : h'.vals[b] = h'.vals[c] => b = c
        /\ \A r \in 1..(i - 1) : \E b \in Live(h) : h'.vals[b] = r
    <3>1. /\ \A b \in Live(h) : h.vals[b] \in 1..(i - 1) /\ h.keys[b] = Key(h.vals[b])
          /\ \A b, c \in Live(h) : h.vals[b] = h.vals[c] => b = c
          /\ \A r \in 1..(i - 1) : \E b \in Live(h) : h.vals[b] = r
      BY <1>2, <1>3 DEF Holding, Table
    <3>2. QED
      BY <1>10, <3>1
  <2>2. \A r, q \in 1..(i - 1) : Key(r) = Key(q) => r = q
    BY <1>2 DEF Holding, Table
  <2>3. QED
    BY <1>1, <1>7, <1>8, <1>9, <2>1, <2>2 DEF Holding
<1>12. Growing'
  BY <1>1, <1>3, <1>5, <1>6, <1>7, <1>8 DEF Growing, Resting
<1>13. Table'
  BY <1>1, <1>2, <1>6, <1>11, <1>12 DEF Table
<1>14. QED
  BY <1>1, <1>13 DEF IInv

\* What is known while the table grows.
LEMMA AtGrowth ==
    ASSUME RuleTableAssumption, IInv, status = "growing"
    PROVE  /\ Table /\ Growing /\ h.n \in Nat /\ growth.n \in Nat /\ i \in Nat
           /\ \A b \in Live(h) : b \in 0..(h.n - 1) /\ b \in 0..(growth.n - 1)
           /\ \A b \in NewLive : b \in 0..(growth.n - 1) /\ b \notin Live(h)
           /\ \A r \in 1..(i - 1) : Key(r) \in Nat
           /\ \E b \in 0..(growth.n - 1) : growth.flags[b] = "empty"
<1>1. Table /\ Growing
  BY DEF IInv, Tableless, Table, Resting
<1>2. h.n \in Nat /\ growth.n \in Nat /\ i \in Nat /\ i - 1 \in Nat /\ i - 1 < growth.n
  <2>1. UpperBound(h.n) \in Nat /\ UpperBound(h.n) < h.n /\ h.n \in Nat /\ growth.n \in Nat
    BY <1>1, BoundsAre DEF Table, Growing
  <2>2. QED
    BY <1>1, <2>1, ListsAre DEF Table, Growing, IInv
<1>3. \A b \in Live(h) : b \in 0..(h.n - 1) /\ b \in 0..(growth.n - 1)
  BY <1>1, <1>2 DEF Live, Growing
<1>4. \A b \in NewLive : b \in 0..(growth.n - 1) /\ b \notin Live(h)
  BY <1>1 DEF Growing, NewLive
<1>5. \A r \in 1..(i - 1) : Key(r) \in Nat
  BY ListsAre, <1>2 DEF IInv
<1>6. PICK b \in 0..(growth.n - 1) : b \notin NewLive
  <2>1. /\ \A b \in NewLive : h.vals[b] \in 1..(i - 1)
        /\ \A b, c \in NewLive : h.vals[b] = h.vals[c] => b = c
    BY <1>1 DEF Table, Holding, Occupied
  <2>2. QED
    BY <1>2, <2>1, SomeFree
<1>7. growth.flags[b] = "empty"
  BY <1>1, <1>6 DEF Growing, NewLive
<1>8. QED
  BY <1>1, <1>2, <1>3, <1>4, <1>5, <1>7

\* A live bucket of the old table is emptied into the hand.
LEMMA PickUpIInv ==
    ASSUME RuleTableAssumption, IInv, PickUp
    PROVE  IInv'
<1> DEFINE b == Min(Live(h))
<1>1. /\ status = "growing" /\ growth.hand = NoHand /\ Live(h) # {}
      /\ h' = Moved(h, b)
      /\ growth' = [growth EXCEPT !.hand = [key |-> h.keys[b], val |-> h.vals[b]]]
      /\ UNCHANGED <<rules, i, status, answer>>
  BY DEF PickUp
<1>2. /\ Table /\ Growing /\ h.n \in Nat /\ growth.n \in Nat /\ i \in Nat
      /\ \A c \in Live(h) : c \in 0..(h.n - 1) /\ c \in 0..(growth.n - 1)
      /\ \A c \in NewLive : c \in 0..(growth.n - 1) /\ c \notin Live(h)
  BY <1>1, AtGrowth
<1>3. b \in Live(h)
  <2>1. Live(h) \subseteq Nat
    BY <1>2
  <2>2. QED
    BY <1>1, <2>1, MinIs
<1> HIDE DEF b
<1>4. /\ DOMAIN h' = TableFields /\ h'.n = h.n /\ h'.size = h.size /\ h'.keys = h.keys /\ h'.vals = h.vals
      /\ h'.flags = [h.flags EXCEPT ![b] = "moved"]
  <2>1. DOMAIN h = TableFields
    BY <1>2 DEF Table
  <2>2. QED
    BY <1>1, <2>1 DEF Moved, TableFields
<1>5. /\ DOMAIN growth' = {"n", "flags", "hand"} /\ growth'.n = growth.n /\ growth'.flags = growth.flags
      /\ growth'.hand.key = h.keys[b] /\ growth'.hand.val = h.vals[b]
  BY <1>1, <1>2 DEF Growing
<1>6. /\ DOMAIN h'.flags = 0..(h.n - 1)
      /\ \A c \in 0..(h.n - 1) : h'.flags[c] = IF c = b THEN "moved" ELSE h.flags[c]
  BY <1>2, <1>4 DEF Growing
<1>7. Live(h)' = Live(h) \ {b} /\ NewLive' = NewLive /\ Occupied' = Occupied \ {b} /\ b \in Occupied
  <2>1. Live(h)' = Live(h) \ {b}
    BY <1>3, <1>4, <1>6 DEF Live
  <2>2. NewLive' = NewLive
    BY <1>5 DEF NewLive
  <2>3. QED
    BY <1>2, <1>3, <2>1, <2>2 DEF Occupied
<1>8. \A r : Key(r)' = Key(r)
  BY <1>1 DEF Key
<1>9. h.vals[b] \in 1..(i - 1) /\ h.keys[b] = Key(h.vals[b])
  BY <1>2, <1>7 DEF Table, Holding
<1>10. growth'.hand # NoHand
  BY <1>2, <1>5, <1>9 DEF NoHand
<1>11. Holding'
  <2>1. \A c \in Occupied' : h.vals[c] \in 1..(i - 1) /\ h.keys[c] = Key(h.vals[c])
    BY <1>2, <1>7 DEF Table, Holding
  <2>2. \A c, d \in Occupied' : h.vals[c] = h.vals[d] => c = d
    BY <1>2, <1>7 DEF Table, Holding
  <2>3. \A c \in Occupied' : h.vals[c] # h.vals[b]
    BY <1>2, <1>7 DEF Table, Holding
  <2>4. \A r \in 1..(i - 1) : (\E c \in Occupied' : h.vals[c] = r) \/ h.vals[b] = r
    BY <1>1, <1>2, <1>7 DEF Table, Holding
  <2>5. \A r, q \in 1..(i - 1) : Key(r) = Key(q) => r = q
    BY <1>2 DEF Table, Holding
  <2>6. QED
    BY <1>1, <1>4, <1>5, <1>8, <1>9, <1>10, <2>1, <2>2, <2>3, <2>4, <2>5 DEF Holding
<1>12. Growing'
  BY <1>1, <1>2, <1>4, <1>5, <1>6, <1>7 DEF Growing
<1>13. Table'
  BY <1>1, <1>2, <1>4, <1>11, <1>12 DEF Table
<1>14. QED
  BY <1>1, <1>13 DEF IInv

\* The key in hand goes to a free bucket of the new table; a key of the old
\* table that is in its place is in hand then.
LEMMA PutDownIInv ==
    ASSUME RuleTableAssumption, IInv, PutDown
    PROVE  IInv'
<1> DEFINE b == Place(growth)
           hand == growth.hand
           kicked == [key |-> h.keys[b], val |-> h.vals[b]]
           next == IF b \in Live(h) THEN kicked ELSE NoHand
<1>1. /\ status = "growing" /\ hand # NoHand
      /\ h' = IF b \in Live(h) THEN Moved(Stored(h, b, hand), b) ELSE Stored(h, b, hand)
      /\ growth' = Placed(growth, next)
      /\ UNCHANGED <<rules, i, status, answer>>
  BY DEF PutDown
<1>2. /\ Table /\ Growing /\ h.n \in Nat /\ growth.n \in Nat /\ i \in Nat
      /\ \A c \in Live(h) : c \in 0..(h.n - 1) /\ c \in 0..(growth.n - 1)
      /\ \A c \in NewLive : c \in 0..(growth.n - 1) /\ c \notin Live(h)
      /\ \A r \in 1..(i - 1) : Key(r) \in Nat
  BY <1>1, AtGrowth
<1>3. /\ hand.val \in 1..(i - 1) /\ hand.key = Key(hand.val) /\ hand.key \in Nat
      /\ \A c \in Occupied : h.vals[c] # hand.val
  BY <1>1, <1>2 DEF Table, Holding
<1>4. /\ b \in 0..(growth.n - 1) /\ growth.flags[b] = "empty"
      /\ Reached(growth.flags, growth.n, hand.key, b)
  <2> DEFINE stops == {c \in DOMAIN growth.flags : growth.flags[c] = "empty"}
  <2>1. PICK free \in 0..(growth.n - 1) : growth.flags[free] = "empty"
    BY <1>1, AtGrowth
  <2>2. b = FirstProbe(hand.key, growth.n, stops)
    BY DEF Place
  <2>3. growth.n \in Primes /\ DOMAIN growth.flags = 0..(growth.n - 1)
    BY <1>2 DEF Growing
  <2>4. \A c \in 0..(growth.n - 1) : growth.flags[c] = "empty" => c \in stops
    BY <2>3
  <2>5. b \in 0..(growth.n - 1) /\ b \in stops /\ Reached(growth.flags, growth.n, hand.key, b)
    <3> HIDE DEF b, stops, hand
    <3>1. QED
      BY <1>3, <2>1, <2>2, <2>3, <2>4, SiteReached
  <2>6. QED
    BY <2>5
<1>5. b \notin NewLive
  BY <1>4 DEF NewLive
<1> HIDE DEF b, next
<1>6. /\ DOMAIN h' = TableFields /\ h'.n = h.n /\ h'.size = h.size
      /\ h'.keys = [h.keys EXCEPT ![b] = hand.key] /\ h'.vals = [h.vals EXCEPT ![b] = hand.val]
      /\ h'.flags = IF b \in Live(h) THEN [h.flags EXCEPT ![b] = "moved"] ELSE h.flags
  <2>1. DOMAIN h = TableFields
    BY <1>2 DEF Table
  <2>2. CASE b \in Live(h)
    BY <1>1, <2>1, <2>2 DEF Moved, Stored, TableFields
  <2>3. CASE b \notin Live(h)
    BY <1>1, <2>1, <2>3 DEF Stored, TableFields
  <2>4. QED
    BY <2>2, <2>3
<1>7. /\ DOMAIN growth' = {"n", "flags", "hand"} /\ growth'.n = growth.n /\ growth'.hand = next
      /\ growth'.flags = [growth.flags EXCEPT ![b] = "live"]
  BY <1>1, <1>2 DEF Placed, Growing, b
<1>8. /\ DOMAIN h'.flags = 0..(h.n - 1) /\ DOMAIN growth'.flags = 0..(growth.n - 1)
      /\ DOMAIN h'.keys = 0..(growth.n - 1) /\ DOMAIN h'.vals = 0..(growth.n - 1)
      /\ \A c \in 0..(h.n - 1) : h'.flags[c] = IF c = b /\ b \in Live(h) THEN "moved" ELSE h.flags[c]
      /\ \A c \in 0..(growth.n - 1) : /\ growth'.flags[c] = IF c = b THEN "live" ELSE growth.flags[c]
                                      /\ h'.keys[c] = IF c = b THEN hand.key ELSE h.keys[c]
                                      /\ h'.vals[c] = IF c = b THEN hand.val ELSE h.vals[c]
  BY <1>2, <1>6, <1>7 DEF Growing
<1>9. Live(h)' = Live(h) \ {b}
  BY <1>6, <1>8 DEF Live
<1>10. NewLive' = NewLive \cup {b}
  BY <1>2, <1>4, <1>8 DEF NewLive, Growing
<1>11. Occupied' = Occupied \cup {b} /\ (b \in Occupied <=> b \in Live(h))
  BY <1>5, <1>9, <1>10 DEF Occupied
<1>12. \A r : Key(r)' = Key(r)
  BY <1>1 DEF Key
<1>13. /\ \A c \in Occupied \ {b} : h'.vals[c] = h.vals[c] /\ h'.keys[c] = h.keys[c]
       /\ h'.vals[b] = hand.val /\ h'.keys[b] = hand.key
  BY <1>2, <1>4, <1>8 DEF Occupied
<1>14. /\ \A c \in Occupied : h.vals[c] \in 1..(i - 1) /\ h.keys[c] = Key(h.vals[c])
       /\ \A c, d \in Occupied : h.vals[c] = h.vals[d] => c = d
       /\ \A r \in 1..(i - 1) : (\E c \in Occupied : h.vals[c] = r) \/ hand.val = r
       /\ \A r, q \in 1..(i - 1) : Key(r) = Key(q) => r = q
  BY <1>2 DEF Table, Holding
<1>15. b \in Live(h) => /\ next # NoHand /\ next.val = h.vals[b] /\ next.key = h.keys[b]
  BY <1>11, <1>14 DEF NoHand, next
<1>16. b \notin Live(h) => next = NoHand
  BY DEF next
<1>17. Holding'
  <2>1. ASSUME NEW c \in Occupied' PROVE h'.vals[c] \in 1..(i - 1) /\ h'.keys[c] = Key(h'.vals[c])
    <3>1. CASE c = b
      BY <1>3, <1>13, <3>1
    <3>2. CASE c # b
      BY <1>11, <1>13, <1>14, <3>2
    <3>3. QED
      BY <3>1, <3>2
  <2>2. ASSUME NEW c \in Occupied', NEW d \in Occupied', h'.vals[c] = h'.vals[d] PROVE c = d
    BY <1>3, <1>11, <1>13, <1>14, <2>2
  <2>3. ASSUME NEW r \in 1..(i - 1)
        PROVE  (\E c \in Occupied' : h'.vals[c] = r) \/ (next # NoHand /\ next.val = r)
    <3>1. CASE hand.val = r
      BY <1>11, <1>13, <3>1
    <3>2. CASE hand.val # r
      <4>1. PICK c \in Occupied : h.vals[c] = r
        BY <1>14, <3>2
      <4>2. CASE c = b
        BY <1>11, <1>15, <4>1, <4>2
      <4>3. CASE c # b
        BY <1>11, <1>13, <4>1, <4>3
      <4>4. QED
        BY <4>2, <4>3
    <3>3. QED
      BY <3>1, <3>2
  <2>4. ASSUME next # NoHand
        PROVE  /\ next.val \in 1..(i - 1) /\ next.key = Key(next.val)
               /\ \A c \in Occupied' : h'.vals[c] # next.val
    <3>1. b \in Live(h) /\ next.val = h.vals[b] /\ next.key = h.keys[b] /\ b \in Occupied
      BY <1>11, <1>15, <1>16, <2>4
    <3>2. QED
      BY <1>3, <1>11, <1>13, <1>14, <3>1
  <2>5. QED
    BY <1>1, <1>7, <1>12, <1>14, <2>1, <2>2, <2>3, <2>4 DEF Holding
<1>18. Growing'
  <2>1. \A c \in 0..(growth.n - 1) : growth.flags[c] # "empty" => growth'.flags[c] # "empty"
    BY <1>8
  <2>2. ASSUME NEW c \in NewLive' PROVE Reached(growth'.flags, growth.n, h'.keys[c], c)
    <3>1. growth.n \in Primes
      BY <1>2 DEF Growing
    <3>2. CASE c = b
      BY <1>3, <1>4, <1>13, <2>1, <3>1, <3>2, ReachedStays
    <3>3. CASE c # b
      <4>1. c \in NewLive /\ c \in Occupied \ {b}
        BY <1>10, <3>3 DEF Occupied
      <4>2. Reached(growth.flags, growth.n, h.keys[c], c) /\ h'.keys[c] = h.keys[c] /\ h.keys[c] \in Nat
        BY <1>2, <1>13, <1>14, <4>1 DEF Growing
      <4>3. QED
        BY <2>1, <3>1, <4>2, ReachedStays
    <3>4. QED
      BY <3>2, <3>3
  <2>3. \A c \in NewLive' : c \notin Live(h)'
    BY <1>2, <1>9, <1>10
  <2>4. /\ \A c \in 0..(h.n - 1) : h'.flags[c] \in {"empty", "live", "moved"}
        /\ \A c \in 0..(growth.n - 1) : growth'.flags[c] \in {"empty", "live"}
    BY <1>2, <1>8 DEF Growing
  <2>5. /\ status' = "growing" /\ i' <= Len(rules') /\ DOMAIN growth' = {"n", "flags", "hand"}
        /\ growth'.n \in Primes /\ growth'.n <= 389 /\ h'.n < growth'.n
    BY <1>1, <1>2, <1>6, <1>7 DEF Growing
  <2>6. QED
    BY <1>6, <1>7, <1>8, <2>2, <2>3, <2>4, <2>5 DEF Growing
<1>19. Table'
  BY <1>1, <1>2, <1>6, <1>17, <1>18 DEF Table
<1>20. QED
  BY <1>1, <1>19 DEF IInv

\* The new table is the only one.
LEMMA FinishGrowthIInv ==
    ASSUME RuleTableAssumption, IInv, FinishGrowth
    PROVE  IInv'
<1>1. /\ status = "growing" /\ growth.hand = NoHand /\ Live(h) = {}
      /\ h' = Grown(h, growth) /\ growth' = NoGrowth /\ status' = "making"
      /\ UNCHANGED <<rules, i, answer>>
  BY DEF FinishGrowth
<1>2. /\ Table /\ Growing /\ h.n \in Nat /\ growth.n \in Nat /\ i \in Nat
      /\ \A c \in NewLive : c \in 0..(growth.n - 1)
  BY <1>1, AtGrowth
<1>3. /\ DOMAIN h' = TableFields /\ h'.n = growth.n /\ h'.size = h.size /\ h'.flags = growth.flags
      /\ h'.keys = h.keys /\ h'.vals = h.vals
  <2>1. DOMAIN h = TableFields
    BY <1>2 DEF Table
  <2>2. QED
    BY <1>1, <2>1 DEF Grown, TableFields
<1>4. NewLive' = {} /\ growth'.hand = NoHand
  BY <1>1 DEF NewLive, NoGrowth
<1>5. Live(h)' = NewLive
  BY <1>2, <1>3 DEF Live, NewLive, Growing
<1>6. Occupied' = NewLive /\ Occupied = NewLive
  BY <1>1, <1>4, <1>5 DEF Occupied
<1>7. \A r : Key(r)' = Key(r)
  BY <1>1 DEF Key
<1>8. Holding'
  <2>1. /\ \A c \in NewLive : h.vals[c] \in 1..(i - 1) /\ h.keys[c] = Key(h.vals[c])
        /\ \A c, d \in NewLive : h.vals[c] = h.vals[d] => c = d
        /\ \A r \in 1..(i - 1) : \E c \in NewLive : h.vals[c] = r
        /\ \A r, q \in 1..(i - 1) : Key(r) = Key(q) => r = q
    BY <1>1, <1>2, <1>6 DEF Table, Holding
  <2>2. QED
    BY <1>1, <1>3, <1>4, <1>6, <1>7, <2>1 DEF Holding
<1>9. Resting'
  BY <1>1, <1>2, <1>3, <1>5 DEF Resting, Growing
<1>10. i - 1 <= UpperBound(growth.n)
  <2>1. /\ h.n \in Primes /\ growth.n \in Primes /\ h.n < growth.n /\ i - 1 <= UpperBound(h.n)
    BY <1>2 DEF Table, Growing
  <2>2. UpperBound(h.n) <= UpperBound(growth.n) /\ UpperBound(h.n) \in Nat /\ UpperBound(growth.n) \in Nat
    BY <2>1, BoundsAre
  <2>3. QED
    BY <1>2, <2>1, <2>2
<1>11. Table'
  BY <1>1, <1>2, <1>3, <1>8, <1>9, <1>10 DEF Table, Growing
<1>12. QED
  BY <1>1, <1>11 DEF IInv

\* A table at rest stays one as long as nothing is done to it.
LEMMA TableStays ==
    ASSUME Table, status # "growing", status' # "growing", UNCHANGED <<rules, h, growth, i>>
    PROVE  Table'
<1>1. Resting'
  BY DEF Table, Growing, Resting, Live
<1>2. Holding'
  <2>1. Occupied' = Occupied /\ \A r : Key(r)' = Key(r)
    BY DEF Occupied, Live, NewLive, Key
  <2>2. QED
    BY <2>1 DEF Table, Holding
<1>3. QED
  BY <1>1, <1>2 DEF Table

\* All rules were put.
LEMMA MadeIInv ==
    ASSUME RuleTableAssumption, IInv, Made
    PROVE  IInv'
<1>1. /\ status = "making" /\ i = Len(rules) + 1 /\ status' \in {"ready", "failed"}
      /\ UNCHANGED <<rules, h, growth, i, answer>>
  BY DEF Made
<1>2. Table
  BY <1>1, ListsAre DEF IInv, Tableless
<1>3. Table'
  BY <1>1, <1>2, TableStays
<1>4. QED
  BY <1>1, <1>3 DEF IInv

\* The answer is a rule of the list, or none.
LEMMA FindIInv ==
    ASSUME RuleTableAssumption, IInv, NEW name \in Names, Find(name)
    PROVE  IInv'
<1> DEFINE key == Hash(name)
           site == SiteOf(h, key)
<1>1. /\ status = "ready" /\ answer' = (IF Has(h, key) THEN h.vals[site] ELSE 0)
      /\ UNCHANGED <<rules, h, growth, i, status>>
  BY DEF Find
<1>2. Table
  BY <1>1, ListsAre DEF IInv, Tableless
<1>3. Table'
  BY <1>1, <1>2, TableStays
<1>4. key \in Nat
  BY HashIsNumber DEF RuleTableAssumption
<1>5. Len(rules) \in Nat /\ i = Len(rules) + 1
  BY <1>1, ListsAre DEF IInv
<1>6. Has(h, key) => site \in Live(h)
  <2> HIDE DEF key
  <2>1. QED
    BY <1>1, <1>2, <1>4, FreeSite
<1>7. \A b \in Live(h) : h.vals[b] \in 1..(i - 1)
  BY <1>2 DEF Table, Holding, Occupied
<1>8. answer' \in 0..Len(rules)
  <2> HIDE DEF key, site
  <2>1. QED
    BY <1>1, <1>5, <1>6, <1>7
<1>9. QED
  BY <1>1, <1>3, <1>8 DEF IInv

\* Every step keeps the inductive invariant.
LEMMA StepIInv ==
    ASSUME RuleTableAssumption, IInv, [Next]_vars
    PROVE  IInv'
<1>1. CASE Create
  BY <1>1, CreateIInv
<1>2. CASE Put
  BY <1>2, RefusedIInv, PutIInv
<1>3. CASE Grow
  BY <1>3, GrowIInv
<1>4. CASE PickUp
  BY <1>4, PickUpIInv
<1>5. CASE PutDown
  BY <1>5, PutDownIInv
<1>6. CASE FinishGrowth
  BY <1>6, FinishGrowthIInv
<1>7. CASE Made
  BY <1>7, MadeIInv
<1>8. ASSUME NEW name \in Names, Find(name) PROVE IInv'
  BY <1>8, FindIInv
<1>9. CASE UNCHANGED vars
  <2>1. Occupied' = Occupied /\ NewLive' = NewLive /\ Live(h)' = Live(h) /\ \A r : Key(r)' = Key(r)
    BY <1>9 DEF vars, Occupied, Live, NewLive, Key
  <2>2. Holding' = Holding /\ Resting' = Resting /\ Growing' = Growing /\ Tableless' = Tableless
    BY <1>9, <2>1 DEF vars, Holding, Resting, Growing, Tableless
  <2>3. QED
    BY <1>9, <2>2 DEF vars, IInv, Table
<1>10. QED
  BY <1>1, <1>2, <1>3, <1>4, <1>5, <1>6, <1>7, <1>8, <1>9 DEF Next, Making

\* In every state each rule that was put is in one bucket or in hand, a look-up
\* in a table at rest reaches the bucket of every key, and one bucket is free.
THEOREM Invariance == Spec => []IInv
  BY InitIInv, StepIInv, RuleTableAssumption, PTL DEF Spec
-----------------------------------------------------------------------------
(* What the run checks, for every list of rules and every hash.            *)

\* As many elements as there are values, if each is that of one element.
LEMMA Counted ==
    ASSUME NEW S, NEW m \in Nat, NEW val \in [S -> 1..m],
           \A x, y \in S : val[x] = val[y] => x = y,
           \A r \in 1..m : \E x \in S : val[x] = r
    PROVE  Cardinality(S) = m
<1> DEFINE of == [r \in 1..m |-> CHOOSE x \in S : val[x] = r]
<1>1. \A r \in 1..m : of[r] \in S /\ val[of[r]] = r
  OBVIOUS
<1>2. of \in [1..m -> S]
  BY <1>1
<1>3. \A r, q \in 1..m : of[r] = of[q] => r = q
  BY <1>1
<1>4. \A x \in S : \E r \in 1..m : of[r] = x
  <2>1. ASSUME NEW x \in S PROVE val[x] \in 1..m /\ of[val[x]] = x
    BY <1>1
  <2>2. QED
    BY <2>1
<1> HIDE DEF of
<1>5. ExistsBijection(1..m, S)
  BY <1>2, <1>3, <1>4, SMTT(30) DEF ExistsBijection, Bijection, Injection, Surjection, IsInjective
<1>6. QED
  BY <1>5, FS_CountingElements

\* All that the type invariant says follows.
LEMMA TypeFollows ==
    ASSUME RuleTableAssumption, IInv
    PROVE  TypeOK
<1>1. CASE Table /\ status # "growing"
  <2>1. /\ Resting /\ Occupied = Live(h) /\ growth.hand = NoHand /\ h.n \in Nat /\ i \in Nat /\ i >= 1
        /\ i - 1 < h.n /\ h.size = i - 1 /\ h.n \in Primes
    BY <1>1, AtRest DEF Table
  <2>2. Cardinality(Live(h)) = i - 1
    <3> DEFINE val == [b \in Live(h) |-> h.vals[b]]
    <3>1. /\ val \in [Live(h) -> 1..(i - 1)]
          /\ \A b, c \in Live(h) : val[b] = val[c] => b = c
          /\ \A r \in 1..(i - 1) : \E b \in Live(h) : val[b] = r
      BY <1>1, <2>1 DEF Table, Holding
    <3> HIDE DEF val
    <3>2. i - 1 \in Nat
      BY <2>1
    <3> DEFINE S == Live(h)
               m == i - 1
    <3>3. /\ val \in [S -> 1..m] /\ m \in Nat
          /\ \A b, c \in S : val[b] = val[c] => b = c
          /\ \A r \in 1..m : \E b \in S : val[b] = r
      BY <3>1, <3>2
    <3> HIDE DEF S, m
    <3>4. Cardinality(S) = m
      BY <3>3, Counted
    <3>5. QED
      BY <3>4 DEF S, m
  <2>3. QED
    BY <1>1, <2>1, <2>2 DEF TypeOK, Resting, IInv
<1>2. CASE status = "growing"
  <2>1. /\ Table /\ Growing /\ h.n \in Nat
    BY <1>2, AtGrowth
  <2>2. h.size < h.n /\ h.n \in Primes
    BY <2>1, BoundsAre DEF Table, IInv, Growing
  <2>3. QED
    BY <1>2, <2>1, <2>2 DEF TypeOK, Growing, IInv
<1>3. CASE Tableless
  <2>1. Live(h) = {} /\ DOMAIN h.flags = {} /\ h.n = 0 /\ h.size = 0
    BY <1>3 DEF Tableless, NoTable, Live
  <2>2. Cardinality(Live(h)) = 0
    BY <2>1, FS_EmptySet
  <2>3. QED
    BY <1>3, <2>1, <2>2 DEF TypeOK, Tableless, IInv
<1>4. QED
  BY <1>1, <1>2, <1>3 DEF IInv

\* The counter of keys counts the live buckets, and one bucket is empty, so that
\* the loop that places a key in a growing table ends.
THEOREM TypeCorrect == Spec => []TypeOK
  BY TypeFollows, RuleTableAssumption, Invariance, PTL

\* So does that nothing is lost.
LEMMA NothingIsLost ==
    ASSUME RuleTableAssumption, IInv
    PROVE  NothingLost
<1> SUFFICES ASSUME status # "failed" PROVE NothingLost
  BY DEF NothingLost
<1> DEFINE held == OldHeld \cup NewHeld \cup InHand
           bucket(b) == [key |-> h.keys[b], val |-> h.vals[b], at |-> b]
           inHand == [key |-> growth.hand.key, val |-> growth.hand.val, at |-> -1]
<1>1. CASE Table
  <2> DEFINE m == i - 1
  <2>1. i \in Nat /\ i # 0 /\ m \in Nat
    BY <1>1, ListsAre DEF Table, IInv
  <2>2. held = {bucket(b) : b \in Occupied} \cup (IF growth.hand = NoHand THEN {} ELSE {inHand})
    BY DEF OldHeld, NewHeld, InHand, Occupied, NewLive
  <2>3. /\ \A b \in Occupied : h.vals[b] \in 1..m /\ h.keys[b] = Key(h.vals[b])
        /\ \A b, c \in Occupied : h.vals[b] = h.vals[c] => b = c
        /\ \A r \in 1..m : (\E b \in Occupied : h.vals[b] = r) \/ (growth.hand # NoHand /\ growth.hand.val = r)
        /\ growth.hand # NoHand =>
              /\ growth.hand.val \in 1..m /\ growth.hand.key = Key(growth.hand.val)
              /\ \A b \in Occupied : h.vals[b] # growth.hand.val
    BY <1>1 DEF Table, Holding
  <2> DEFINE val == [x \in held |-> x.val]
  <2> HIDE DEF held, m
  <2>4. val \in [held -> 1..m]
    BY <2>2, <2>3
  <2>5. \A x, y \in held : x.val = y.val => x = y
    BY <2>2, <2>3
  <2>6. \A r \in 1..m : \E x \in held : x.val = r /\ x.key = Key(r)
    <3>1. ASSUME NEW r \in 1..m, NEW b \in Occupied, h.vals[b] = r
          PROVE  \E x \in held : x.val = r /\ x.key = Key(r)
      <4>1. bucket(b) \in held /\ bucket(b).val = r /\ bucket(b).key = Key(r)
        BY <2>2, <2>3, <3>1
      <4>2. QED
        BY <4>1
    <3>2. ASSUME NEW r \in 1..m, growth.hand # NoHand, growth.hand.val = r
          PROVE  \E x \in held : x.val = r /\ x.key = Key(r)
      <4>1. inHand \in held /\ inHand.val = r /\ inHand.key = Key(r)
        BY <2>2, <2>3, <3>2
      <4>2. QED
        BY <4>1
    <3>3. QED
      BY <2>3, <3>1, <3>2
  <2>7. Cardinality(held) = m
    <3>1. /\ \A x, y \in held : val[x] = val[y] => x = y
          /\ \A r \in 1..m : \E x \in held : val[x] = r
      BY <2>5, <2>6
    <3> HIDE DEF val
    <3>2. QED
      BY <2>1, <2>4, <3>1, Counted
  <2>8. QED
    BY <2>1, <2>6, <2>7 DEF NothingLost, held, m
<1>2. CASE Tableless
  <2>1. i = 0 /\ h = NoTable /\ growth = NoGrowth
    BY <1>2 DEF Tableless
  <2>2. held = {}
    BY <2>1 DEF NoTable, NoGrowth, OldHeld, NewHeld, InHand, Live
  <2>3. Cardinality(held) = 0
    BY <2>2, FS_EmptySet
  <2>4. QED
    BY <2>1, <2>3 DEF NothingLost
<1>3. QED
  BY <1>1, <1>2 DEF IInv

\* In every state, also while the table grows, the rules that were put are those
\* in its live buckets, in the taken ones of the new table and in hand, each
\* once and under its own key.
THEOREM NothingLostTheorem == Spec => []NothingLost
  BY NothingIsLost, RuleTableAssumption, Invariance, PTL
-----------------------------------------------------------------------------
(* The context as a map from names.                                        *)

\* Two rules of one key have one name.
LEMMA KeysOfNames ==
    ASSUME NoCollisions, rules \in RuleLists, NEW r \in 1..Len(rules), NEW q \in 1..Len(rules)
    PROVE  Key(r) = Key(q) <=> rules[r] = rules[q]
  BY DEF NoCollisions, Key

\* A list that is refused has two rules of one name.
LEMMA RefusedIsMake ==
    ASSUME RuleTableAssumption, NoCollisions, IInv, Put, Has(h, Key(i))
    PROVE  Map!Make
<1>1. /\ status = "making" /\ i \in 1..Len(rules) /\ status' = "failed" /\ UNCHANGED <<rules, asked, answer>>
  BY DEF Put
<1>2. Table /\ i \in Nat /\ Len(rules) \in Nat /\ rules \in RuleLists /\ Key(i) \in Nat
  BY <1>1, ListsAre DEF IInv, Tableless
<1> DEFINE site == SiteOf(h, Key(i))
<1>3. site \in Live(h) /\ h.keys[site] = Key(i)
  BY <1>1, <1>2, FreeSite
<1> DEFINE r == h.vals[site]
<1>4. r \in 1..(i - 1) /\ Key(r) = Key(i)
  BY <1>2, <1>3 DEF Table, Holding, Occupied
<1>5. r \in 1..Len(rules) /\ r # i /\ rules[r] = rules[i]
  <2> HIDE DEF r
  <2>1. r \in 1..Len(rules) /\ r # i
    BY <1>1, <1>2, <1>4
  <2>2. QED
    BY <1>1, <1>2, <1>4, <2>1, KeysOfNames
<1>6. DOMAIN rules = 1..Len(rules) /\ rules # <<>>
  BY <1>1, <1>2 DEF RuleTableAssumption
<1>7. ~IsInjective(rules)
  BY <1>1, <1>5, <1>6 DEF IsInjective
<1>8. QED
  BY <1>1, <1>6, <1>7 DEF Map!Make, IsInjective, Map!IsInjective

\* A table that is made has no two rules of one name.
LEMMA MadeIsMake ==
    ASSUME RuleTableAssumption, NoCollisions, IInv, Made
    PROVE  Map!Make
<1>1. /\ status = "making" /\ i = Len(rules) + 1 /\ UNCHANGED <<rules, asked, answer>>
      /\ status' \in IF rules = <<>> THEN {"ready", "failed"} ELSE {"ready"}
  BY DEF Made
<1>2. Table /\ Len(rules) \in Nat /\ rules \in RuleLists /\ i - 1 = Len(rules)
  BY <1>1, ListsAre DEF IInv, Tableless
<1>3. DOMAIN rules = 1..Len(rules)
  BY <1>2 DEF RuleTableAssumption
<1>4. \A r, q \in 1..Len(rules) : Key(r) = Key(q) => r = q
  BY <1>2 DEF Table, Holding
<1>5. IsInjective(rules)
  BY <1>2, <1>3, <1>4, KeysOfNames DEF IsInjective
<1>6. QED
  BY <1>1, <1>5 DEF Map!Make, IsInjective, Map!IsInjective

\* What is answered is the rule of the name, if there is one.
LEMMA FindIsAsk ==
    ASSUME RuleTableAssumption, NoCollisions, IInv, NEW name \in Names, Find(name)
    PROVE  Map!Ask(name)
<1> DEFINE key == Hash(name)
           site == SiteOf(h, key)
           rulesOf == {r \in 1..Len(rules) : rules[r] = name}
<1>1. /\ status = "ready" /\ answer' = (IF Has(h, key) THEN h.vals[site] ELSE 0)
      /\ asked' = name /\ UNCHANGED <<rules, status>>
  BY DEF Find
<1>2. Table /\ Len(rules) \in Nat /\ i = Len(rules) + 1 /\ i - 1 = Len(rules) /\ rules \in RuleLists
  BY <1>1, ListsAre DEF IInv, Tableless
<1>3. key \in Nat
  BY HashIsNumber DEF RuleTableAssumption
<1>4. \A r \in 1..Len(rules) : Key(r) = key <=> rules[r] = name
  BY <1>2 DEF NoCollisions, Key
<1>5. Has(h, key) <=> site \in Live(h)
  <2> HIDE DEF key
  <2>1. QED
    BY <1>1, <1>2, <1>3, FreeSite
<1>6. CASE Has(h, key)
  <2> DEFINE r == h.vals[site]
  <2>1. h.keys[site] = key
    <3> HIDE DEF key
    <3>1. QED
      BY <1>1, <1>2, <1>3, <1>6, FreeSite
  <2>2. r \in 1..Len(rules) /\ Key(r) = key
    BY <1>2, <1>5, <1>6, <2>1 DEF Table, Holding, Occupied
  <2>3. \A q \in 1..Len(rules) : Key(q) = key => q = r
    BY <1>2, <2>2 DEF Table, Holding
  <2>4. rulesOf = {r}
    BY <1>4, <2>2, <2>3
  <2>5. Min(rulesOf) = r
    <3>1. rulesOf \subseteq Nat /\ rulesOf # {}
      BY <2>2, <2>4
    <3> HIDE DEF rulesOf
    <3>2. QED
      BY <2>4, <3>1, MinIs, ZenonT(30)
  <2>6. answer' = Min(rulesOf) /\ rulesOf # {}
    BY <1>1, <1>6, <2>4, <2>5
  <2>7. QED
    BY <1>1, <2>6 DEF Map!Ask, Map!SelectInSeq, Min, Map!Min
<1>7. CASE ~Has(h, key)
  <2>1. rulesOf = {}
    <3>1. ASSUME NEW r \in 1..Len(rules), rules[r] = name PROVE FALSE
      <4>1. Key(r) = key
        BY <1>4, <3>1
      <4>2. SiteOf(h, Key(r)) \in Live(h)
        BY <1>1, <1>2, RuleFound
      <4>3. QED
        BY <1>5, <1>7, <4>1, <4>2
    <3>2. QED
      BY <3>1
  <2>2. QED
    BY <1>1, <1>7, <2>1 DEF Map!Ask, Map!SelectInSeq
<1>8. QED
  BY <1>6, <1>7

\* The steps of module RuleTable are steps of module RuleMap: what is answered
\* is the rule of that name or none, and a context is refused just for two rules
\* of one name.  Both for names without a collision; that the context is made in
\* the end is the run's to show.
THEOREM Refinement == NoCollisions => (Spec => Map!Init /\ [][Map!Next]_(Map!vars))
<1> SUFFICES ASSUME NoCollisions PROVE Spec => Map!Init /\ [][Map!Next]_(Map!vars)
  OBVIOUS
<1>1. Init => Map!Init
  BY DEF Init, Map!Init, NoName, Map!NoName
<1>2. ASSUME RuleTableAssumption, IInv, [Next]_vars
      PROVE  [Map!Next]_(Map!vars)
  <2>1. CASE Create \/ Grow \/ PickUp \/ PutDown \/ FinishGrowth \/ UNCHANGED vars
    BY <2>1 DEF Create, Grow, PickUp, PutDown, FinishGrowth, vars, Map!vars
  <2>2. CASE Put /\ ~Has(h, Key(i))
    BY <2>2 DEF Put, Map!vars
  <2>3. CASE Put /\ Has(h, Key(i))
    BY <1>2, <2>3, RefusedIsMake DEF Map!Next
  <2>4. CASE Made
    BY <1>2, <2>4, MadeIsMake DEF Map!Next
  <2>5. ASSUME NEW name \in Names, Find(name) PROVE Map!Next
    BY <1>2, <2>5, FindIsAsk DEF Map!Next
  <2>6. QED
    BY <1>2, <2>1, <2>2, <2>3, <2>4, <2>5 DEF Next, Making
<1>3. QED
  BY <1>1, <1>2, RuleTableAssumption, Invariance, PTL DEF Spec
=============================================================================
