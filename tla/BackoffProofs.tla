---------------------------- MODULE BackoffProofs ----------------------------
(***************************************************************************)
(* The delays of Backoff, for every valid backoff configuration and every  *)
(* number of attempts: the doubling loop computes the documented formula.  *)
(*                                                                         *)
(* The induction theorems of the library quantify over operators, which no *)
(* installed prover instantiates.  Induction over a set needs none of them: *)
(* it follows from the well-foundedness of Nat, which is about a relation. *)
(***************************************************************************)
EXTENDS Backoff, PowersOfTwo, WellFoundedInduction, TLAPS

LEMMA SetInduction ==
    ASSUME NEW S, 0 \in S, \A n \in Nat : n \in S => n + 1 \in S
    PROVE  Nat \subseteq S
  <1> DEFINE T == Nat \ S
  <1> SUFFICES ASSUME T # {} PROVE FALSE
    OBVIOUS
  <1>1. PICK x \in T : \A y \in T : <<y, x>> \notin OpToRel(<, Nat)
    BY WFMin, NatLessThanWellFounded
  <1>2. \A y \in T : ~(y < x)
    BY <1>1 DEF OpToRel
  <1>3. x # 0 /\ x - 1 \in Nat
    OBVIOUS
  <1>4. x - 1 \in S
    BY <1>2, <1>3
  <1> QED
    BY <1>3, <1>4
-----------------------------------------------------------------------------
(* PowerOfTwo is what its definition says: there is such a function, since *)
(* its beginnings exist and agree.                                         *)
Begins(f, m) == /\ f \in [0..m -> Nat]
                /\ f[0] = 1
                /\ \A i \in 1..m : f[i] = 2 * f[i - 1]

LEMMA BeginningsExist == \A m \in Nat : \E f : Begins(f, m)
  <1> DEFINE S == {m \in Nat : \E f : Begins(f, m)}
  <1>1. 0 \in S
    <2>1. Begins([i \in 0..0 |-> 1], 0)
      BY DEF Begins
    <2> QED
      BY <2>1
  <1>2. ASSUME NEW n \in Nat, n \in S PROVE n + 1 \in S
    <2>1. PICK f : Begins(f, n)
      BY <1>2
    <2> DEFINE g == [i \in 0..(n + 1) |-> IF i = n + 1 THEN 2 * f[n] ELSE f[i]]
    <2>2. /\ f \in [0..n -> Nat] /\ f[0] = 1
          /\ \A i \in 1..n : f[i] = 2 * f[i - 1]
      BY <2>1 DEF Begins
    <2>3. /\ g \in [0..(n + 1) -> Nat]
          /\ g[n + 1] = 2 * f[n]
          /\ \A i \in 0..n : g[i] = f[i]
      BY <2>2
    <2> HIDE DEF g
    <2>4. ASSUME NEW i \in 1..(n + 1) PROVE g[i] = 2 * g[i - 1]
      <3>1. CASE i = n + 1
        BY <2>3, <3>1
      <3>2. CASE i \in 1..n
        <4>1. i - 1 \in 0..n /\ i \in 0..n
          BY <3>2
        <4> QED
          BY <2>2, <2>3, <3>2, <4>1
      <3> QED
        BY <3>1, <3>2
    <2>5. Begins(g, n + 1)
      BY <2>2, <2>3, <2>4 DEF Begins
    <2> QED
      BY <2>5
  <1> HIDE DEF S
  <1>3. Nat \subseteq S
    BY <1>1, <1>2, SetInduction
  <1> QED
    BY <1>3 DEF S

LEMMA BeginningsAgree ==
    ASSUME NEW n \in Nat, NEW f, NEW g, Begins(f, n), Begins(g, n + 1)
    PROVE  f[n] = g[n]
  <1> DEFINE S == {k \in Nat : k <= n => f[k] = g[k]}
  <1>1. 0 \in S
    BY DEF Begins
  <1>2. ASSUME NEW k \in Nat, k \in S PROVE k + 1 \in S
    BY <1>2 DEF Begins
  <1> HIDE DEF S
  <1>3. Nat \subseteq S
    BY <1>1, <1>2, SetInduction
  <1> QED
    BY <1>3 DEF S

LEMMA PowerOfTwoDef ==
    PowerOfTwo = [n \in Nat |-> IF n = 0 THEN 1 ELSE 2 * PowerOfTwo[n - 1]]
  <1> DEFINE beginning(n) == CHOOSE f : Begins(f, n)
             p == [n \in Nat |-> beginning(n)[n]]
  <1>1. \A n \in Nat : Begins(beginning(n), n)
    BY BeginningsExist
  <1>2. p[0] = 1
    BY <1>1 DEF Begins
  <1>3. ASSUME NEW n \in Nat PROVE p[n + 1] = 2 * p[n]
    <2>1. Begins(beginning(n), n) /\ Begins(beginning(n + 1), n + 1)
      BY <1>1
    <2>2. beginning(n)[n] = beginning(n + 1)[n]
      BY <2>1, BeginningsAgree
    <2>3. \A f : Begins(f, n + 1) => f[n + 1] = 2 * f[n]
      BY DEF Begins
    <2> QED
      BY <2>1, <2>2, <2>3
  <1>4. p = [n \in Nat |-> p[n]]
    OBVIOUS
  <1> HIDE DEF p
  <1>5. p = [n \in Nat |-> IF n = 0 THEN 1 ELSE 2 * p[n - 1]]
    <2> SUFFICES ASSUME NEW n \in Nat
                 PROVE  p[n] = IF n = 0 THEN 1 ELSE 2 * p[n - 1]
      BY <1>4, Zenon
    <2>1. CASE n = 0
      BY <1>2, <2>1
    <2>2. CASE n # 0
      <3>1. n - 1 \in Nat /\ n = (n - 1) + 1
        BY <2>2
      <3>2. p[n] = 2 * p[n - 1]
        BY <1>3, <3>1
      <3> QED
        BY <2>2, <3>2
    <2> QED
      BY <2>1, <2>2
  <1>6. \E q : q = [n \in Nat |-> IF n = 0 THEN 1 ELSE 2 * q[n - 1]]
    BY <1>5
  <1> QED
    BY <1>6 DEF PowerOfTwo

LEMMA PowersArePositive == \A n \in Nat : PowerOfTwo[n] \in Nat \ {0}
  <1> DEFINE S == {n \in Nat : PowerOfTwo[n] \in Nat \ {0}}
  <1>1. 0 \in S
    BY PowerOfTwoDef
  <1>2. ASSUME NEW n \in Nat, n \in S PROVE n + 1 \in S
    <2>1. PowerOfTwo[n + 1] = 2 * PowerOfTwo[n]
      BY PowerOfTwoDef
    <2> QED
      BY <1>2, <2>1
  <1> HIDE DEF S
  <1>3. Nat \subseteq S
    BY <1>1, <1>2, SetInduction
  <1> QED
    BY <1>3 DEF S
-----------------------------------------------------------------------------
(* A duration that fits its 64 bits is not changed by wrapping.            *)
LEMMA NoOverflow ==
    ASSUME NEW d \in 0..MaxDuration PROVE Wrapped(d) = d
  <1> DEFINE span == 2 * (MaxDuration + 1)
             x == d + MaxDuration + 1
  <1>1. span \in Nat \ {0} /\ x \in 0..(span - 1)
    BY MaxDurationAssumption
  <1>2. x % span = x
    BY <1>1
  <1> QED
    BY <1>2, MaxDurationAssumption DEF Wrapped

AtMost(d, maxDelay) == IF d < maxDelay THEN d ELSE maxDelay

(* One turn of the loop: what was within maxDelay is doubled within it, and *)
(* the halving test keeps the product from overflowing.                    *)
LEMMA DoubledWithinMax ==
    ASSUME NEW d \in Nat \ {0}, NEW maxDelay \in 1..MaxDuration
    PROVE  Doubled(AtMost(d, maxDelay), maxDelay) = AtMost(2 * d, maxDelay)
  <1>1. CASE d >= maxDelay
    BY <1>1, MaxDurationAssumption DEF Doubled, AtMost
  <1>2. CASE d < maxDelay /\ d > maxDelay \div 2
    BY <1>2, MaxDurationAssumption DEF Doubled, AtMost
  <1>3. CASE d < maxDelay /\ ~(d > maxDelay \div 2)
    <2>1. 2 * d <= maxDelay /\ d * 2 = 2 * d /\ d * 2 \in 0..MaxDuration
      BY <1>3, MaxDurationAssumption
    <2>2. Wrapped(d * 2) = d * 2
      BY <2>1, NoOverflow
    <2> QED
      BY <1>3, <2>1, <2>2, MaxDurationAssumption DEF Doubled, AtMost
  <1> QED
    BY <1>1, <1>2, <1>3, MaxDurationAssumption
-----------------------------------------------------------------------------
(* The delay the README documents for attempt n.                           *)
DocumentedDelay(base, maxDelay, n) == AtMost(base * PowerOfTwo[n - 1], maxDelay)

LEMMA Doubling ==
    ASSUME NEW base \in Nat \ {0}, NEW k \in Nat
    PROVE  /\ base * PowerOfTwo[k] \in Nat \ {0}
           /\ base * PowerOfTwo[k + 1] = 2 * (base * PowerOfTwo[k])
  <1>1. PowerOfTwo[k + 1] = 2 * PowerOfTwo[k]
    BY PowerOfTwoDef
  <1>2. PowerOfTwo[k] \in Nat \ {0}
    BY PowersArePositive
  <1>3. \A p \in Nat \ {0} : /\ base * p \in Nat \ {0}
                             /\ base * (2 * p) = 2 * (base * p)
    OBVIOUS
  <1> QED
    BY <1>1, <1>2, <1>3

LEMMA FirstDelay ==
    ASSUME NEW base \in Nat \ {0}, NEW maxDelay \in Nat, base <= maxDelay
    PROVE  DocumentedDelay(base, maxDelay, 1) = base
  <1>1. PowerOfTwo[0] = 1
    BY PowerOfTwoDef
  <1> QED
    BY <1>1 DEF DocumentedDelay, AtMost

(* A function that obeys the equation of the loop has the documented       *)
(* delays as its values.                                                   *)
LEMMA LoopValues ==
    ASSUME NEW base \in Nat \ {0}, NEW maxDelay \in 1..MaxDuration,
           base <= maxDelay, NEW delayAt,
           \A n \in 0..AttemptCap :
             delayAt[n] = IF n <= 1 THEN base ELSE Doubled(delayAt[n - 1], maxDelay)
    PROVE  \A n \in 1..AttemptCap :
              delayAt[n] = DocumentedDelay(base, maxDelay, n)
  <1> DEFINE S == {k \in Nat : k + 1 <= AttemptCap =>
                     delayAt[k + 1] = DocumentedDelay(base, maxDelay, k + 1)}
  <1>1. 0 \in S
    <2>1. 1 <= AttemptCap => delayAt[1] = base
      BY CapAssumption
    <2>2. DocumentedDelay(base, maxDelay, 1) = base
      BY FirstDelay, MaxDurationAssumption
    <2> QED
      BY <2>1, <2>2
  <1>2. ASSUME NEW k \in Nat, k \in S PROVE k + 1 \in S
    <2> SUFFICES ASSUME (k + 1) + 1 <= AttemptCap
                 PROVE  delayAt[(k + 1) + 1] = DocumentedDelay(base, maxDelay, (k + 1) + 1)
      OBVIOUS
    <2> DEFINE d == base * PowerOfTwo[k]
    <2>1. /\ k + 1 \in Nat \ {0} /\ (k + 1) - 1 = k
          /\ ((k + 1) + 1) - 1 = k + 1 /\ k + 1 <= AttemptCap
          /\ (k + 1) + 1 \in 0..AttemptCap /\ ~((k + 1) + 1 <= 1)
      BY CapAssumption
    <2>2. d \in Nat \ {0} /\ base * PowerOfTwo[k + 1] = 2 * d
      BY Doubling
    <2>3. delayAt[k + 1] = AtMost(d, maxDelay)
      BY <1>2, <2>1 DEF DocumentedDelay
    <2>4. delayAt[(k + 1) + 1] = Doubled(delayAt[k + 1], maxDelay)
      BY <2>1
    <2> HIDE DEF d
    <2>5. delayAt[(k + 1) + 1] = AtMost(2 * d, maxDelay)
      BY <2>2, <2>3, <2>4, DoubledWithinMax
    <2> QED
      BY <2>1, <2>2, <2>5 DEF DocumentedDelay
  <1> HIDE DEF S
  <1>3. Nat \subseteq S
    BY <1>1, <1>2, SetInduction
  <1>4. ASSUME NEW n \in 1..AttemptCap
        PROVE  delayAt[n] = DocumentedDelay(base, maxDelay, n)
    <2>1. n - 1 \in Nat /\ (n - 1) + 1 = n /\ n <= AttemptCap
      BY CapAssumption
    <2>2. n - 1 \in S
      BY <1>3, <2>1
    <2> QED
      BY <2>1, <2>2 DEF S
  <1> QED
    BY <1>4

(* There is one: the documented delays obey the equation.                  *)
LEMMA LoopExists ==
    ASSUME NEW base \in Nat \ {0}, NEW maxDelay \in 1..MaxDuration, base <= maxDelay
    PROVE  \E delayAt :
             delayAt = [n \in 0..AttemptCap |->
                          IF n <= 1 THEN base ELSE Doubled(delayAt[n - 1], maxDelay)]
  <1> DEFINE f == [n \in 0..AttemptCap |->
                     IF n <= 1 THEN base ELSE DocumentedDelay(base, maxDelay, n)]
  <1>1. ASSUME NEW n \in 0..AttemptCap, ~(n <= 1)
        PROVE  f[n] = Doubled(f[n - 1], maxDelay)
    <2> DEFINE d == base * PowerOfTwo[n - 2]
    <2>1. /\ n - 1 \in Nat \ {0} /\ (n - 1) - 1 = n - 2
          /\ n - 1 \in 0..AttemptCap
      BY <1>1, CapAssumption
    <2>2. d \in Nat \ {0} /\ base * PowerOfTwo[n - 1] = 2 * d
      <3>1. n - 2 \in Nat /\ (n - 2) + 1 = n - 1
        BY <2>1
      <3> QED
        BY <3>1, Doubling
    <2>3. f[n - 1] = AtMost(d, maxDelay)
      <3>1. CASE n - 1 = 1
        <4>1. DocumentedDelay(base, maxDelay, 1) = base
          BY FirstDelay, MaxDurationAssumption
        <4> QED
          BY <2>1, <3>1, <4>1 DEF DocumentedDelay
      <3>2. CASE ~(n - 1 <= 1)
        BY <2>1, <3>2 DEF DocumentedDelay
      <3> QED
        BY <2>1, <3>1, <3>2
    <2>4. f[n] = AtMost(2 * d, maxDelay)
      BY <1>1, <2>2 DEF DocumentedDelay
    <2> HIDE DEF d, f
    <2> QED
      BY <2>2, <2>3, <2>4, DoubledWithinMax
  <1>2. f = [n \in 0..AttemptCap |->
               IF n <= 1 THEN base ELSE Doubled(f[n - 1], maxDelay)]
    <2>1. \A n \in 0..AttemptCap :
            f[n] = IF n <= 1 THEN base ELSE Doubled(f[n - 1], maxDelay)
      BY <1>1
    <2>2. f = [n \in 0..AttemptCap |-> f[n]]
      OBVIOUS
    <2> HIDE DEF f
    <2> QED
      BY <2>1, <2>2, Zenon
  <1> HIDE DEF f
  <1> QED
    BY <1>2

(* README.md:236: the loop of determineNextActionTime computes the formula *)
(* of the README for every valid configuration and every attempt.          *)
LEMMA DelayIsDocumented ==
    ASSUME NEW settings, NEW n \in 1..AttemptCap,
           settings.baseDelay \in Nat, settings.maxDelay \in Nat,
           ValidBackoff(settings)
    PROVE  determineNextActionTime(settings, n) =
             IF settings.exponential
             THEN AtMost(settings.baseDelay * PowerOfTwo[n - 1], settings.maxDelay)
             ELSE settings.baseDelay
  <1> DEFINE base == IF settings.maxDelay > 0 /\ settings.baseDelay > settings.maxDelay
                     THEN settings.maxDelay ELSE settings.baseDelay
             loop == CHOOSE delayAt :
                       delayAt = [i \in 0..AttemptCap |->
                                    IF i <= 1 THEN base
                                    ELSE Doubled(delayAt[i - 1], settings.maxDelay)]
  <1>1. /\ base = settings.baseDelay /\ base \in Nat \ {0}
        /\ settings.maxDelay \in 1..MaxDuration /\ base <= settings.maxDelay
    BY MaxDurationAssumption DEF ValidBackoff
  <1>2. determineNextActionTime(settings, n) =
          IF settings.exponential THEN loop[n] ELSE base
    BY DEF determineNextActionTime
  <1> HIDE DEF base
  <1>3. loop = [i \in 0..AttemptCap |->
                  IF i <= 1 THEN base ELSE Doubled(loop[i - 1], settings.maxDelay)]
    BY <1>1, LoopExists
  <1> HIDE DEF loop
  <1>4. \A i \in 0..AttemptCap :
          loop[i] = IF i <= 1 THEN base ELSE Doubled(loop[i - 1], settings.maxDelay)
    BY <1>3, Zenon
  <1>5. loop[n] = DocumentedDelay(base, settings.maxDelay, n)
    BY <1>1, <1>4, LoopValues
  <1> QED
    BY <1>1, <1>2, <1>5 DEF DocumentedDelay
=============================================================================
