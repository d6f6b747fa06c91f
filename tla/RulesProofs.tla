------------------------------ MODULE RulesProofs ------------------------------
(***************************************************************************)
(* The correlation keys of an event, for every catalogue, window and       *)
(* resolution of time: which rules they come from, in which order, and     *)
(* which events share a window.                                            *)
(***************************************************************************)
EXTENDS Rules, FiniteSetTheorems, TLAPS

-----------------------------------------------------------------------------
(* Counting through the rules                                              *)

LEMMA RulePositions ==
    /\ DOMAIN RuleIds = {1, 2} /\ RuleIds[1] # RuleIds[2] /\ ActiveRules \subseteq {1, 2}
<1>1. DOMAIN RuleIds = 1 .. 2
  BY DEF RuleIds
<1>2. RuleIds[1] # RuleIds[2]
  BY DEF RuleIds
<1> QED
  BY <1>1, <1>2 DEF ActiveRules

LEMMA SmallSets ==
    ASSUME NEW S, S \subseteq {1, 2}
    PROVE  \/ S = {} /\ Cardinality(S) = 0
           \/ /\ S = {1} /\ Cardinality(S) = 1 /\ Nth(S, 1) = 1
           \/ /\ S = {2} /\ Cardinality(S) = 1 /\ Nth(S, 1) = 2
           \/ /\ S = {1, 2} /\ Cardinality(S) = 2 /\ Nth(S, 1) = 1 /\ Nth(S, 2) = 2
<1> DEFINE Below(m) == {k \in S : k <= m}
<1>1. S = {} \/ S = {1} \/ S = {2} \/ S = {1, 2}
  OBVIOUS
<1>2. CASE S = {}
  BY <1>2, FS_EmptySet
<1>3. ASSUME NEW x \in {1, 2}, S = {x} PROVE Cardinality(S) = 1 /\ Nth(S, 1) = x
  <2>1. Cardinality({x}) = 1
    BY FS_Singleton
  <2>2. \A m \in S : {k \in S : k <= m} = {x}
    BY <1>3
  <2> QED
    BY <1>3, <2>1, <2>2 DEF Nth
<1>4. CASE S = {1, 2}
  <2>1. IsFiniteSet({1}) /\ Cardinality({1}) = 1
    BY FS_Singleton
  <2>2. Cardinality({1} \cup {2}) = 2
    BY <2>1, FS_AddElement
  <2>3. {1} \cup {2} = S
    BY <1>4
  <2>4. {k \in S : k <= 1} = {1} /\ {k \in S : k <= 2} = S
    BY <1>4
  <2>5. Nth(S, 1) = 1
    BY <1>4, <2>1, <2>2, <2>3, <2>4 DEF Nth
  <2>6. Nth(S, 2) = 2
    BY <1>4, <2>1, <2>2, <2>3, <2>4 DEF Nth
  <2> QED
    BY <1>4, <2>2, <2>3, <2>5, <2>6
<1> QED
  BY <1>1, <1>2, <1>3, <1>4

\* The active rules an event is eligible for.
RulesFor(e) == {n \in ActiveRules : Eligible(RuleIds[n], e)}

LEMMA KeysOfEligible ==
    ASSUME NEW e
    PROVE  /\ RulesFor(e) \subseteq {1, 2} /\ Cardinality(RulesFor(e)) \in Nat
           /\ DOMAIN KeysFor(e) = 1 .. Cardinality(RulesFor(e))
           /\ \A n \in 1 .. Cardinality(RulesFor(e)) :
                 KeysFor(e)[n] = KeyFor(RuleIds[Nth(RulesFor(e), n)], e)
<1>1. RulesFor(e) \subseteq {1, 2}
  BY RulePositions DEF RulesFor
<1>2. Cardinality(RulesFor(e)) \in Nat
  BY <1>1, SmallSets
<1>3. KeysFor(e) = [n \in 1 .. Cardinality(RulesFor(e)) |-> KeyFor(RuleIds[Nth(RulesFor(e), n)], e)]
  BY DEF KeysFor, RulesFor
<1> QED
  BY <1>1, <1>2, <1>3

\* The rule loop of the handler builds a key for an active rule exactly when the
\* event is eligible for it.
THEOREM KeysAreOfRules ==
    ASSUME NEW e
    PROVE  /\ \A n \in DOMAIN KeysFor(e) : \E a \in RulesFor(e) :
                 KeysFor(e)[n] = KeyFor(RuleIds[a], e)
           /\ \A a \in RulesFor(e) : \E n \in DOMAIN KeysFor(e) :
                 KeysFor(e)[n] = KeyFor(RuleIds[a], e)
<1>1. \/ RulesFor(e) = {} /\ Cardinality(RulesFor(e)) = 0
      \/ /\ RulesFor(e) = {1} /\ Cardinality(RulesFor(e)) = 1 /\ Nth(RulesFor(e), 1) = 1
      \/ /\ RulesFor(e) = {2} /\ Cardinality(RulesFor(e)) = 1 /\ Nth(RulesFor(e), 1) = 2
      \/ /\ RulesFor(e) = {1, 2} /\ Cardinality(RulesFor(e)) = 2
         /\ Nth(RulesFor(e), 1) = 1 /\ Nth(RulesFor(e), 2) = 2
  BY KeysOfEligible, SmallSets
<1>2. \A n \in 1 .. Cardinality(RulesFor(e)) : Nth(RulesFor(e), n) \in RulesFor(e)
  BY <1>1
<1>3. \A a \in RulesFor(e) : \E n \in 1 .. Cardinality(RulesFor(e)) : Nth(RulesFor(e), n) = a
  BY <1>1
<1> QED
  BY <1>2, <1>3, KeysOfEligible

\* The keys of an event are those of different rules, in the order of
\* AVAILABLE_RULES: what Incidents assumes of KeysOf and RuleOf.
THEOREM KeysInRuleOrder ==
    ASSUME NEW e, NEW m \in DOMAIN KeysFor(e), NEW n \in DOMAIN KeysFor(e), m < n
    PROVE  \E a, b \in DOMAIN RuleIds :
              /\ a < b /\ RuleIds[a] # RuleIds[b]
              /\ KeysFor(e)[m].rule = RuleIds[a] /\ KeysFor(e)[n].rule = RuleIds[b]
<1>1. \/ RulesFor(e) = {} /\ Cardinality(RulesFor(e)) = 0
      \/ /\ RulesFor(e) = {1} /\ Cardinality(RulesFor(e)) = 1 /\ Nth(RulesFor(e), 1) = 1
      \/ /\ RulesFor(e) = {2} /\ Cardinality(RulesFor(e)) = 1 /\ Nth(RulesFor(e), 1) = 2
      \/ /\ RulesFor(e) = {1, 2} /\ Cardinality(RulesFor(e)) = 2
         /\ Nth(RulesFor(e), 1) = 1 /\ Nth(RulesFor(e), 2) = 2
  BY KeysOfEligible, SmallSets
<1>2. m \in 1 .. Cardinality(RulesFor(e)) /\ n \in 1 .. Cardinality(RulesFor(e))
  BY KeysOfEligible
<1>3. m = 1 /\ n = 2 /\ Nth(RulesFor(e), m) = 1 /\ Nth(RulesFor(e), n) = 2
  BY <1>1, <1>2
<1>4. KeysFor(e)[m] = KeyFor(RuleIds[1], e) /\ KeysFor(e)[n] = KeyFor(RuleIds[2], e)
  BY <1>2, <1>3, KeysOfEligible
<1>5. KeysFor(e)[m].rule = RuleIds[1] /\ KeysFor(e)[n].rule = RuleIds[2]
  BY <1>4 DEF KeyFor
<1> QED
  BY <1>5, RulePositions

-----------------------------------------------------------------------------
(* Windows                                                                 *)

LEMMA Quotient ==
    ASSUME NEW a \in Int, NEW b \in Nat \ {0}
    PROVE  /\ a \div b \in Int
           /\ (a \div b) * b <= a /\ a < (a \div b) * b + b
           /\ a >= 0 => a \div b >= 0
OBVIOUS

LEMMA Scale ==
    ASSUME NEW a \in Int, NEW b \in Int, NEW c \in Nat, a <= b
    PROVE  a * c <= b * c
OBVIOUS

\* int(timestamp()) is less than a second away, on the side of the epoch.
LEMMA SecondsOf ==
    ASSUME NEW at \in Int
    PROVE  /\ Seconds(at) \in Int
           /\ at >= 0 => /\ Seconds(at) >= 0 /\ Seconds(at) * TicksPerSecond <= at
                         /\ at < Seconds(at) * TicksPerSecond + TicksPerSecond
           /\ at < 0 => /\ at <= Seconds(at) * TicksPerSecond
                        /\ Seconds(at) * TicksPerSecond - TicksPerSecond < at
<1>1. TicksPerSecond \in Nat \ {0}
  BY RulesAssumptions DEF RulesAssumptions
<1>2. CASE at >= 0
  <2>1. Seconds(at) = at \div TicksPerSecond
    BY <1>2 DEF Seconds
  <2> QED
    BY <1>1, <1>2, <2>1, Quotient
<1>3. CASE at < 0
  <2> DEFINE s == (-at) \div TicksPerSecond
  <2>1. Seconds(at) = -s
    BY <1>3 DEF Seconds
  <2>2. -at \in Int
    OBVIOUS
  <2>3. s \in Int /\ s * TicksPerSecond <= -at /\ -at < s * TicksPerSecond + TicksPerSecond
    BY <1>1, <2>2, Quotient
  <2> HIDE DEF s
  <2>4. (-s) * TicksPerSecond = -(s * TicksPerSecond)
    BY <1>1, <2>3
  <2>5. s * TicksPerSecond \in Int
    BY <1>1, <2>3
  <2> QED
    BY <1>1, <1>3, <2>1, <2>3, <2>4, <2>5
<1> QED
  BY <1>2, <1>3

LEMMA BucketOf ==
    ASSUME NEW at \in Int
    PROVE  \E w \in Int :
              /\ Bucket(at) = w * Window /\ (at >= 0 => w >= 0)
              /\ w * Window <= Seconds(at) /\ Seconds(at) + 1 <= (w + 1) * Window
<1>1. Window \in Nat \ {0}
  BY RulesAssumptions DEF RulesAssumptions
<1>2. Seconds(at) \in Int /\ (at >= 0 => Seconds(at) >= 0)
  BY SecondsOf
<1> DEFINE w == Seconds(at) \div Window
<1>3. /\ w \in Int /\ w * Window <= Seconds(at) /\ Seconds(at) < w * Window + Window
      /\ Seconds(at) >= 0 => w >= 0
  BY <1>1, <1>2, Quotient
<1>4. Bucket(at) = w * Window
  BY DEF Bucket
<1> HIDE DEF w
<1>5. (w + 1) * Window = w * Window + Window /\ w * Window \in Int
  BY <1>1, <1>3
<1> QED
  BY <1>1, <1>2, <1>3, <1>4, <1>5

\* Two events have one bucket only if they lie in one window of Window seconds
\* from the epoch on.  Before it, where seconds are rounded up, they are less than
\* a second further apart.
THEOREM BucketsAreWindows ==
    ASSUME NEW x \in Int, NEW y \in Int, Bucket(x) = Bucket(y)
    PROVE  /\ x >= 0 /\ y >= 0 => \E w \in 0 .. x :
                 /\ w * Window * TicksPerSecond <= x /\ x < (w + 1) * Window * TicksPerSecond
                 /\ w * Window * TicksPerSecond <= y /\ y < (w + 1) * Window * TicksPerSecond
           /\ x - y < (Window + 1) * TicksPerSecond
<1>1. Window \in Nat \ {0} /\ TicksPerSecond \in Nat \ {0}
  BY RulesAssumptions DEF RulesAssumptions
<1>2. PICK w \in Int :
         /\ Bucket(x) = w * Window /\ (x >= 0 => w >= 0)
         /\ w * Window <= Seconds(x) /\ Seconds(x) + 1 <= (w + 1) * Window
  BY BucketOf
<1>3. PICK v \in Int :
         /\ Bucket(y) = v * Window
         /\ v * Window <= Seconds(y) /\ Seconds(y) + 1 <= (v + 1) * Window
  BY BucketOf
<1>4. v = w
  <2>1. v * Window = w * Window
    BY <1>2, <1>3
  <2> QED
    BY <1>1, <2>1
<1>5. Seconds(x) \in Int /\ Seconds(y) \in Int
  BY SecondsOf
<1> DEFINE low == w * Window
           high == (w + 1) * Window
<1>6. low \in Int /\ high \in Int /\ high = low + Window
  BY <1>1
<1>7. /\ low <= Seconds(x) /\ Seconds(x) + 1 <= high
      /\ low <= Seconds(y) /\ Seconds(y) + 1 <= high
  BY <1>2, <1>3, <1>4
<1> HIDE DEF low, high
<1>8. ASSUME NEW at \in Int, at >= 0, low <= Seconds(at), Seconds(at) + 1 <= high
      PROVE  low * TicksPerSecond <= at /\ at < high * TicksPerSecond
  <2>1. Seconds(at) \in Int /\ Seconds(at) + 1 \in Int
    BY SecondsOf
  <2>2. low * TicksPerSecond <= Seconds(at) * TicksPerSecond
    BY <1>1, <1>6, <1>8, <2>1, Scale
  <2>3. (Seconds(at) + 1) * TicksPerSecond <= high * TicksPerSecond
    BY <1>1, <1>6, <1>8, <2>1, Scale
  <2>4. (Seconds(at) + 1) * TicksPerSecond = Seconds(at) * TicksPerSecond + TicksPerSecond
    BY <1>1, <2>1
  <2>5. /\ Seconds(at) * TicksPerSecond <= at
        /\ at < Seconds(at) * TicksPerSecond + TicksPerSecond
    BY <1>8, SecondsOf
  <2>6. /\ low * TicksPerSecond \in Int /\ high * TicksPerSecond \in Int
        /\ Seconds(at) * TicksPerSecond \in Int
    BY <1>1, <1>6, <2>1
  <2> QED
    BY <1>1, <2>2, <2>3, <2>4, <2>5, <2>6
<1>9. ASSUME x >= 0, y >= 0
      PROVE  \E u \in 0 .. x :
                /\ u * Window * TicksPerSecond <= x /\ x < (u + 1) * Window * TicksPerSecond
                /\ u * Window * TicksPerSecond <= y /\ y < (u + 1) * Window * TicksPerSecond
  <2>1. /\ low * TicksPerSecond <= x /\ x < high * TicksPerSecond
        /\ low * TicksPerSecond <= y /\ y < high * TicksPerSecond
    BY <1>7, <1>8, <1>9
  <2>2. w >= 0 /\ w \in Nat
    BY <1>2, <1>9
  <2>3. w <= low
    BY <1>1, <2>2 DEF low
  <2>4. low <= low * TicksPerSecond
    <3>1. low \in Nat
      BY <1>6, <2>2, <2>3
    <3> QED
      BY <1>1, <3>1
  <2>5. w \in 0 .. x
    <3>1. low * TicksPerSecond \in Int
      BY <1>1, <1>6
    <3> QED
      BY <1>6, <2>1, <2>2, <2>3, <2>4, <3>1
  <2> QED
    BY <2>1, <2>5 DEF low, high
<1>10. x - y < (Window + 1) * TicksPerSecond
  <2> DEFINE sx == Seconds(x) * TicksPerSecond
             sy == Seconds(y) * TicksPerSecond
  <2>1. sx \in Int /\ sy \in Int
    BY <1>1, <1>5
  <2>2. x < sx + TicksPerSecond /\ sy - TicksPerSecond < y
    <3>1. x < sx + TicksPerSecond
      <4>1. x >= 0 => x < sx + TicksPerSecond
        BY SecondsOf
      <4>2. x < 0 => x <= sx
        BY SecondsOf
      <4> HIDE DEF sx
      <4> QED
        BY <1>1, <2>1, <4>1, <4>2
    <3>2. sy - TicksPerSecond < y
      <4>1. y >= 0 => sy <= y
        BY SecondsOf
      <4>2. y < 0 => sy - TicksPerSecond < y
        BY SecondsOf
      <4> HIDE DEF sy
      <4> QED
        BY <1>1, <2>1, <4>1, <4>2
    <3> QED
      BY <3>1, <3>2
  <2>3. Seconds(x) + 2 <= Seconds(y) + Window + 1
    BY <1>1, <1>5, <1>6, <1>7
  <2>4. (Seconds(x) + 2) * TicksPerSecond <= (Seconds(y) + Window + 1) * TicksPerSecond
    BY <1>1, <1>5, <2>3, Scale
  <2>5. (Seconds(x) + 2) * TicksPerSecond = sx + 2 * TicksPerSecond
    BY <1>1, <1>5
  <2>6. (Seconds(y) + Window + 1) * TicksPerSecond = sy + (Window + 1) * TicksPerSecond
    BY <1>1, <1>5
  <2>7. (Window + 1) * TicksPerSecond \in Int
    BY <1>1
  <2> HIDE DEF sx, sy
  <2> QED
    BY <1>1, <2>1, <2>2, <2>4, <2>5, <2>6, <2>7
<1> QED
  BY <1>9, <1>10
==============================================================================
