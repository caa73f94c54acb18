--------------------------- MODULE AlertMonitor_proofs ---------------------------
(***************************************************************************)
(* Proofs about AlertMonitor, for any number of runs at once, any gauges   *)
(* and levels, every valid configuration of thresholds and spikes, and any *)
(* number of checks, failures and instants.                                *)
(***************************************************************************)
EXTENDS AlertMonitor, FiniteSetTheorems, SequenceTheorems, TLAPS

-----------------------------------------------------------------------------
(* Samples.                                                                  *)

Samples == [Gauges -> Levels \cup {None}]
Kept == BaselineSamples + ConsecutiveSamples + ExtraSamples

\* The configuration in numbers.
LEMMA Numbers ==
    /\ BaselineSamples \in Nat /\ BaselineSamples >= 1
    /\ ConsecutiveSamples \in Nat /\ ConsecutiveSamples >= 1
    /\ Cooldown \in Nat /\ Cooldown >= 1
    /\ Kept \in Nat /\ Kept >= 2
    /\ \A g \in Gauges : Minimum[g] \in Nat /\ Increase[g] \in Nat
    /\ Levels \subseteq Nat /\ None \notin Levels /\ MaxTime \in Nat
<1>1. /\ BaselineSamples \in Nat /\ BaselineSamples >= 1
      /\ ConsecutiveSamples \in Nat /\ ConsecutiveSamples >= 1
      /\ Cooldown \in Nat /\ Cooldown >= 1 /\ ExtraSamples \in Nat
  BY ConfigAssumption, HostAssumption DEF ValidSpikes
<1>2. \A g \in Gauges : Minimum[g] \in Nat /\ Increase[g] \in Nat
  BY ConfigAssumption DEF ValidSpikes
<1>3. Levels \subseteq Nat /\ None \notin Levels /\ MaxTime \in Nat
  BY HostAssumption
<1>4. Kept \in Nat /\ Kept >= 2
  BY <1>1 DEF Kept
<1> QED BY <1>1, <1>2, <1>3, <1>4

\* The last n elements of a sequence.
LEMMA RecentFacts ==
    ASSUME NEW S, NEW s \in Seq(S), NEW n \in Nat
    PROVE  /\ Recent(s, n) \in Seq(S)
           /\ Len(Recent(s, n)) = IF Len(s) > n THEN n ELSE Len(s)
           /\ \A i \in 1..Len(Recent(s, n)) :
                 Recent(s, n)[i] = s[i + (Len(s) - Len(Recent(s, n)))]
<1> DEFINE m == IF Len(s) > n THEN Len(s) - n + 1 ELSE 1
<1>1. Len(s) \in Nat /\ s \in [1..Len(s) -> S]
  BY LenProperties
<1>2. m \in Int /\ m >= 1 /\ \A i \in m..Len(s) : s[i] \in S
  BY <1>1
<1>3. /\ SubSeq(s, m, Len(s)) \in Seq(S)
      /\ Len(SubSeq(s, m, Len(s))) = IF m <= Len(s) THEN Len(s) - m + 1 ELSE 0
      /\ \A i \in 1..(Len(s) - m + 1) : SubSeq(s, m, Len(s))[i] = s[m + i - 1]
  <2> HIDE DEF m
  <2> QED BY <1>1, <1>2, SubSeqProperties
<1>4. Recent(s, n) = SubSeq(s, m, Len(s))
  BY DEF Recent
<1>5. Len(Recent(s, n)) = Len(s) - m + 1
  <2>1. m <= Len(s) + 1
    BY <1>1
  <2> HIDE DEF m
  <2> QED BY <1>1, <1>2, <1>3, <1>4, <2>1
<1>6. Len(Recent(s, n)) = IF Len(s) > n THEN n ELSE Len(s)
  BY <1>1, <1>5
<1>7. ASSUME NEW i \in 1..Len(Recent(s, n))
      PROVE  Recent(s, n)[i] = s[i + (Len(s) - Len(Recent(s, n)))]
  <2>1. Recent(s, n)[i] = s[m + i - 1]
    BY <1>3, <1>4, <1>5
  <2>2. m + i - 1 = i + (Len(s) - Len(Recent(s, n)))
    BY <1>1, <1>2, <1>5
  <2> QED BY <2>1, <2>2
<1> QED BY <1>3, <1>4, <1>6, <1>7

\* In t, x is the last, and the samples before have moved by k.
Slides(s, x, t, k) ==
    /\ Len(t) + k = Len(s) + 1
    /\ \A i \in 1..Len(t) : t[i] = IF i < Len(t) THEN s[i + k] ELSE x

\* The samples with one more.
LEMMA WindowSlides ==
    ASSUME NEW S, NEW s \in Seq(S), NEW x \in S, NEW n \in Nat, n >= 1,
           NEW t, t = Recent(Append(s, x), n)
    PROVE  /\ t \in Seq(S) /\ Len(t) <= n /\ Len(t) \in Nat /\ Len(t) >= 1
           /\ \E k \in Nat : Slides(s, x, t, k)
<1> DEFINE a == Append(s, x)
<1>1. /\ a \in Seq(S) /\ Len(a) = Len(s) + 1 /\ a[Len(s) + 1] = x
      /\ \A i \in 1..Len(s) : a[i] = s[i]
  BY AppendProperties
<1>2. Len(s) \in Nat
  BY LenProperties
<1>3. /\ t \in Seq(S) /\ Len(t) = (IF Len(a) > n THEN n ELSE Len(a))
      /\ \A i \in 1..Len(t) : t[i] = a[i + (Len(a) - Len(t))]
  <2>1. t = Recent(a, n)
    OBVIOUS
  <2> HIDE DEF a
  <2>2. a \in Seq(S)
    BY <1>1
  <2>3. /\ Recent(a, n) \in Seq(S)
        /\ Len(Recent(a, n)) = IF Len(a) > n THEN n ELSE Len(a)
        /\ \A i \in 1..Len(Recent(a, n)) :
              Recent(a, n)[i] = a[i + (Len(a) - Len(Recent(a, n)))]
    BY <2>2, RecentFacts
  <2> QED BY <2>1, <2>3
<1> HIDE DEF a
<1> DEFINE k == Len(s) + 1 - Len(t)
<1>4. k \in Nat /\ Len(t) + k = Len(s) + 1 /\ Len(t) \in Nat /\ Len(t) >= 1 /\ Len(t) <= n
  BY <1>1, <1>2, <1>3
<1>5. ASSUME NEW i \in 1..Len(t) PROVE t[i] = IF i < Len(t) THEN s[i + k] ELSE x
  <2>1. t[i] = a[i + k]
    <3>1. i + k = i + (Len(a) - Len(t))
      BY <1>1, <1>2, <1>4
    <3>2. t[i] = a[i + (Len(a) - Len(t))]
      BY <1>3
    <3> QED BY <3>1, <3>2
  <2>2. CASE i < Len(t)
    <3>1. i + k \in 1..Len(s)
      BY <1>2, <1>4, <2>2
    <3> QED BY <1>1, <2>1, <2>2, <3>1
  <2>3. CASE ~(i < Len(t))
    <3>1. i + k = Len(s) + 1
      BY <1>2, <1>4, <2>3
    <3> QED BY <1>1, <2>1, <2>3, <3>1
  <2> QED BY <2>2, <2>3
<1> QED BY <1>3, <1>4, <1>5 DEF Slides

\* The samples of a metric are finitely many.
LEMMA SinceFinite ==
    ASSUME NEW s \in Seq(Samples), NEW g, NEW i
    PROVE  /\ With(s, g) \subseteq 1..Len(s) /\ Len(s) \in Nat
           /\ IsFiniteSet(Since(s, g, i)) /\ Cardinality(Since(s, g, i)) \in Nat
<1>1. With(s, g) \subseteq 1..Len(s) /\ Len(s) \in Nat
  BY LenProperties DEF With
<1>2. IsFiniteSet(1..Len(s)) /\ Since(s, g, i) \subseteq 1..Len(s)
  BY <1>1, FS_Interval DEF Since
<1> QED BY <1>1, <1>2, FS_Subset, FS_CardinalityType

\* A sample that is still there has as many after it as it had, and one more if
\* the new one has the metric.
LEMMA SinceSlides ==
    ASSUME NEW s \in Seq(Samples), NEW x \in Samples, NEW g \in Gauges,
           NEW t, t = Recent(Append(s, x), Kept), NEW i \in With(t, g)
    PROVE  LET c == Cardinality(Since(t, g, i)) IN
           /\ c \in Nat /\ c >= 1
           /\ \/ x[g] # None /\ t[i] = x
              \/ \E j \in With(s, g) :
                    /\ t[i] = s[j] /\ Cardinality(Since(s, g, j)) \in Nat
                    /\ IF x[g] = None THEN Cardinality(Since(s, g, j)) <= c
                       ELSE Cardinality(Since(s, g, j)) + 1 <= c
<1>1. /\ t \in Seq(Samples) /\ Len(t) \in Nat /\ Len(t) >= 1 /\ Len(s) \in Nat
      /\ DOMAIN t = 1..Len(t) /\ DOMAIN s = 1..Len(s)
  <2>0. Kept \in Nat /\ Kept >= 1
    BY Numbers
  <2>1. t \in Seq(Samples) /\ Len(t) \in Nat /\ Len(t) >= 1
    BY <2>0, WindowSlides
  <2> QED BY <2>1, LenProperties
<1>2. PICK k \in Nat : /\ Len(t) + k = Len(s) + 1
                       /\ \A m \in 1..Len(t) : t[m] = IF m < Len(t) THEN s[m + k] ELSE x
  <2>1. Kept \in Nat /\ Kept >= 1
    BY Numbers
  <2>2. \E k \in Nat : Slides(s, x, t, k)
    BY <2>1, WindowSlides
  <2> QED BY <2>2 DEF Slides
<1> DEFINE T == Since(t, g, i)
           c == Cardinality(T)
<1>3. i \in 1..Len(t) /\ t[i][g] # None /\ i \in T
  BY <1>1 DEF With, Since
<1>4. IsFiniteSet(T) /\ c \in Nat /\ c >= 1
  <2>1. IsFiniteSet(T) /\ c \in Nat
    BY <1>1, SinceFinite
  <2>2. c # 0
    BY <1>3, <2>1, FS_EmptySet
  <2> HIDE DEF c
  <2> QED BY <2>1, <2>2
<1>5. CASE i = Len(t)
  <2>1. t[i] = x
    BY <1>2, <1>3, <1>5
  <2> QED BY <1>3, <1>4, <2>1
<1>6. CASE i # Len(t)
  <2> DEFINE j == i + k
             U == Since(s, g, j)
             f == [m \in U |-> m - k]
  <2>1. i < Len(t) /\ j \in 1..Len(s) /\ t[i] = s[j]
    BY <1>1, <1>2, <1>3, <1>6
  <2>2. j \in With(s, g)
    BY <1>1, <1>3, <2>1 DEF With
  <2>3. ASSUME NEW m \in U
        PROVE  /\ m \in Int /\ m - k \in T /\ m - k # Len(t)
    <3>1. m \in 1..Len(s) /\ s[m][g] # None /\ j <= m
      BY <1>1 DEF Since, With
    <3>2. m - k \in 1..Len(t) /\ m - k < Len(t) /\ i <= m - k /\ (m - k) + k = m
      BY <1>1, <1>2, <1>3, <3>1
    <3>3. t[m - k] = s[m]
      BY <1>2, <3>2
    <3> QED BY <1>1, <3>1, <3>2, <3>3 DEF Since, With
  <2>4. f \in Injection(U, T) /\ f \in Injection(U, T \ {Len(t)})
    <3>1. f \in [U -> T] /\ f \in [U -> T \ {Len(t)}]
      BY <2>3
    <3>2. \A m, n \in U : f[m] = f[n] => m = n
      BY <1>2, <2>3
    <3> HIDE DEF f, U, T
    <3> QED BY <3>1, <3>2 DEF Injection, IsInjective
  <2>5. Cardinality(U) \in Nat
    BY SinceFinite
  <2>6. Cardinality(U) <= c
    <3> HIDE DEF f, U, T
    <3> QED BY <1>4, <2>4, FS_Injection
  <2>7. ASSUME x[g] # None PROVE Cardinality(U) + 1 <= c
    <3>1. Len(t) \in T
      BY <1>1, <1>2, <1>3, <2>7 DEF Since, With
    <3>2. IsFiniteSet(T \ {Len(t)}) /\ Cardinality(T \ {Len(t)}) = c - 1
      <4> HIDE DEF T
      <4> QED BY <1>4, <3>1, FS_RemoveElement
    <3>3. Cardinality(U) <= Cardinality(T \ {Len(t)})
      <4> HIDE DEF f, U, T
      <4> QED BY <2>4, <3>2, FS_Injection
    <3> HIDE DEF U, T
    <3> QED BY <1>4, <2>5, <3>2, <3>3
  <2> HIDE DEF U, T
  <2>8. IF x[g] = None THEN Cardinality(U) <= c ELSE Cardinality(U) + 1 <= c
    BY <2>6, <2>7
  <2>9. U = Since(s, g, j)
    BY DEF U
  <2> QED BY <1>4, <2>1, <2>2, <2>5, <2>8, <2>9 DEF T
<1> QED BY <1>5, <1>6

-----------------------------------------------------------------------------
(* What a check makes of the state file.                                     *)

\* The types of a state.
Shape(s) ==
    /\ s.samples \in Seq(Samples) /\ Len(s.samples) <= Kept
    /\ \A n \in Names : s.issues[n] \in Prints(n) \cup {None}
    /\ \A g \in Gauges :
          /\ s.baselines[g] \in Seq(Levels) /\ Len(s.baselines[g]) <= BaselineSamples
          /\ s.breaches[g] \in Nat /\ s.active[g] \in 0..MaxTime \cup {None}

\* A metric that was ever there has a baseline, and only a full one is breached.
Learned(s) == \A g \in Gauges :
    /\ s.baselines[g] = <<>> => With(s.samples, g) = {}
    /\ s.breaches[g] > 0 => Len(s.baselines[g]) = BaselineSamples

Good(s) == Shape(s) /\ Learned(s) /\ Sustained(s)

\* The state of the first run.
LEMMA EmptyGood ==
    /\ Good(EmptyState)
    /\ \A g \in Gauges : EmptyState.breaches[g] = 0 /\ EmptyState.active[g] = None
    /\ \A n \in Names : EmptyState.issues[n] = None
<1>1. /\ EmptyState.samples = <<>>
      /\ \A g \in Gauges : /\ EmptyState.breaches[g] = 0 /\ EmptyState.active[g] = None
                           /\ EmptyState.baselines[g] = <<>>
      /\ \A n \in Names : EmptyState.issues[n] = None
  BY DEF EmptyState
<1>2. <<>> \in Seq(Samples) /\ <<>> \in Seq(Levels) /\ Len(<<>>) = 0 /\ DOMAIN <<>> = {}
  OBVIOUS
<1>3. \A g \in Gauges : With(EmptyState.samples, g) = {}
  BY <1>1, <1>2 DEF With
<1>4. Shape(EmptyState)
  <2>1. Kept \in Nat /\ BaselineSamples \in Nat
    BY Numbers
  <2>2. EmptyState.samples \in Seq(Samples) /\ Len(EmptyState.samples) <= Kept
    BY <1>1, <1>2, <2>1
  <2>3. \A n \in Names : EmptyState.issues[n] \in Prints(n) \cup {None}
    BY <1>1
  <2>4. ASSUME NEW g \in Gauges
        PROVE  /\ EmptyState.baselines[g] \in Seq(Levels)
               /\ Len(EmptyState.baselines[g]) <= BaselineSamples
               /\ EmptyState.breaches[g] \in Nat /\ EmptyState.active[g] \in 0..MaxTime \cup {None}
    <3>1. EmptyState.baselines[g] = <<>> /\ EmptyState.breaches[g] = 0 /\ EmptyState.active[g] = None
      BY <1>1
    <3> QED BY <1>2, <2>1, <3>1
  <2> QED BY <2>2, <2>3, <2>4 DEF Shape
<1>5. Learned(EmptyState) /\ Sustained(EmptyState)
  BY <1>1, <1>3 DEF Learned, Sustained
<1> QED BY <1>1, <1>4, <1>5 DEF Good

\* A baseline takes another level, and forgets the oldest when it is full.
LEMMA BaselineGrows ==
    ASSUME NEW b \in Seq(Levels), Len(b) <= BaselineSamples, NEW l \in Levels
    PROVE  LET a == appendBaseline(b, l) IN
           /\ a \in Seq(Levels) /\ a # <<>> /\ Len(a) <= BaselineSamples
           /\ Len(b) = BaselineSamples => Len(a) = BaselineSamples
<1>1. /\ Append(b, l) \in Seq(Levels) /\ Len(Append(b, l)) = Len(b) + 1
      /\ Len(b) \in Nat
  BY AppendProperties, LenProperties
<1>2. BaselineSamples \in Nat /\ BaselineSamples >= 1
  BY Numbers
<1> DEFINE a == Recent(Append(b, l), BaselineSamples)
<1>3. a \in Seq(Levels) /\ Len(a) = IF Len(Append(b, l)) > BaselineSamples THEN BaselineSamples
                                    ELSE Len(Append(b, l))
  BY <1>1, <1>2, RecentFacts
<1> HIDE DEF a
<1>4. Len(a) >= 1 /\ Len(a) <= BaselineSamples /\ (Len(b) = BaselineSamples => Len(a) = BaselineSamples)
  BY <1>1, <1>2, <1>3
<1>5. a # <<>>
  BY <1>4
<1>6. appendBaseline(b, l) = a
  BY DEF appendBaseline, a
<1> QED BY <1>3, <1>4, <1>5, <1>6

\* The baseline a level is measured against.
Base(s, g) ==
    IF s.baselines[g] = <<>> THEN resourceHistoryValues(s.samples, g) ELSE s.baselines[g]

\* It is the one of the file: a metric without a baseline was never there.
LEMMA BaseIsKnown ==
    ASSUME NEW s, Good(s), NEW g \in Gauges
    PROVE  Base(s, g) = s.baselines[g]
<1>1. CASE s.baselines[g] # <<>>
  BY <1>1 DEF Base
<1>2. CASE s.baselines[g] = <<>>
  <2>1. With(s.samples, g) = {}
    BY <1>2 DEF Good, Learned
  <2>2. Cardinality(With(s.samples, g)) = 0
    BY <2>1, FS_EmptySet
  <2>3. Present(s.samples, g) = <<>>
    <3>1. 1..0 = {}
      OBVIOUS
    <3> QED BY <2>2, <3>1 DEF Present
  <2>4. Recent(<<>>, BaselineSamples) = <<>>
    <3>1. <<>> \in Seq(Levels) /\ BaselineSamples \in Nat
      BY Numbers
    <3>2. /\ Recent(<<>>, BaselineSamples) \in Seq(Levels)
          /\ Len(Recent(<<>>, BaselineSamples)) =
                IF Len(<<>>) > BaselineSamples THEN BaselineSamples ELSE Len(<<>>)
      BY <3>1, RecentFacts
    <3>3. Len(Recent(<<>>, BaselineSamples)) = 0
      BY <3>1, <3>2
    <3> QED BY <3>2, <3>3, EmptySeq
  <2> QED BY <1>2, <2>3, <2>4 DEF Base, resourceHistoryValues
<1> QED BY <1>1, <1>2

\* What there is to say of one metric: nothing, ...
Silent(k, s, g) == k = NoSpike(s, g)
\* ... a level to learn from, ...
Learning(k, s, g, l) ==
    /\ Len(Base(s, g)) < BaselineSamples
    /\ k.baseline = appendBaseline(Base(s, g), l)
    /\ k.breaches = s.breaches[g] /\ k.active = s.active[g]
    /\ k.announce = {} /\ k.resolve = {}
\* ... a breach that is not announced, ...
Breaching(k, s, g, l) ==
    /\ ~(Len(Base(s, g)) < BaselineSamples) /\ l >= Minimum[g]
    /\ k.baseline = s.baselines[g] /\ k.breaches = s.breaches[g] + 1
    /\ k.active = s.active[g] /\ k.announce = {} /\ k.resolve = {}
\* ... one that is, ...
Telling(k, s, g, l, t) ==
    /\ ~(Len(Base(s, g)) < BaselineSamples) /\ l >= Minimum[g]
    /\ k.baseline = s.baselines[g] /\ k.breaches = s.breaches[g] + 1
    /\ Due(s.active[g], s.breaches[g] + 1, t)
    /\ k.active = t /\ k.announce = {<<<<"spike", g>>, l>>} /\ k.resolve = {}
\* ... or the end of one.
Calming(k, s, g, l) ==
    /\ ~(Len(Base(s, g)) < BaselineSamples)
    /\ k.baseline = appendBaseline(Base(s, g), l) /\ k.breaches = 0
    /\ k.active = None /\ k.announce = {}
    /\ k.resolve = IF s.active[g] # None THEN {<<"spike", g>>} ELSE {}

\* EvaluateResourceSpikes case by case.
LEMMA SpikeCases ==
    ASSUME NEW s, NEW g, NEW l, NEW t
    PROVE  LET k == Spike(s, g, l, t) IN
           \/ l = None /\ Silent(k, s, g)
           \/ l # None /\ (\/ Learning(k, s, g, l) \/ Breaching(k, s, g, l)
                           \/ Telling(k, s, g, l, t) \/ Calming(k, s, g, l))
<1> DEFINE k == Spike(s, g, l, t)
           known == s.baselines[g]
           b == Base(s, g)
           over == Breached(g, b, l)
           breaches == NextBreaches(s.breaches[g], over)
           due == over /\ Due(s.active[g], breaches, t)
           end == ~over /\ s.active[g] # None
<1>1. k = IF l = None THEN NoSpike(s, g)
          ELSE IF Len(b) < BaselineSamples
          THEN [NoSpike(s, g) EXCEPT !.baseline = appendBaseline(b, l)]
          ELSE [baseline |-> NextBaseline(known, b, l, over), breaches |-> breaches,
                active |-> IF due THEN t ELSE IF end THEN None ELSE s.active[g],
                announce |-> IF due THEN {<<<<"spike", g>>, l>>} ELSE {},
                resolve |-> IF end THEN {<<"spike", g>>} ELSE {}]
  BY DEF Spike, Base
<1>2. over => l >= Minimum[g]
  BY DEF Breached, getResourceSpikeRule
<1> HIDE DEF k, b, over
<1>3. CASE l = None
  BY <1>1, <1>3 DEF Silent, k
<1>4. CASE l # None /\ Len(b) < BaselineSamples
  BY <1>1, <1>4 DEF Learning, NoSpike, k, b
<1>5. CASE l # None /\ ~(Len(b) < BaselineSamples) /\ over /\ due
  BY <1>1, <1>2, <1>5 DEF Telling, NextBaseline, NextBreaches, k, b
<1>6. CASE l # None /\ ~(Len(b) < BaselineSamples) /\ over /\ ~due
  BY <1>1, <1>2, <1>6 DEF Breaching, NextBaseline, NextBreaches, k, b
<1>7. CASE l # None /\ ~(Len(b) < BaselineSamples) /\ ~over
  BY <1>1, <1>7 DEF Calming, NextBaseline, NextBreaches, k, b
<1> QED BY <1>3, <1>4, <1>5, <1>6, <1>7 DEF k

\* What the next state says of one metric.
Follows(k, s, g, l) ==
    /\ k.baseline \in Seq(Levels) /\ Len(k.baseline) <= BaselineSamples
    /\ k.breaches \in Nat /\ k.breaches <= s.breaches[g] + 1
    /\ k.active \in 0..MaxTime \cup {None}
    /\ k.active # None => k.breaches >= ConsecutiveSamples
    /\ k.breaches > 0 => Len(k.baseline) = BaselineSamples
    /\ l = None => k.baseline = s.baselines[g] /\ k.breaches = s.breaches[g]
    /\ l # None => /\ k.baseline # <<>>
                   /\ k.breaches = 0 \/ (k.breaches = s.breaches[g] + 1 /\ l >= Minimum[g])
    /\ k.breaches > s.breaches[g] => k.baseline = s.baselines[g]

\* It keeps types, and what a count of breaches stands for.
LEMMA SpikeFollows ==
    ASSUME NEW s, Good(s), NEW g \in Gauges, NEW l \in Levels \cup {None}, NEW t \in 0..MaxTime
    PROVE  Follows(Spike(s, g, l, t), s, g, l)
<1>1. PICK k : k = Spike(s, g, l, t)
  OBVIOUS
<1>0. SUFFICES Follows(k, s, g, l)
  BY <1>1
<1>2. /\ s.baselines[g] \in Seq(Levels) /\ Len(s.baselines[g]) <= BaselineSamples
      /\ s.breaches[g] \in Nat /\ s.active[g] \in 0..MaxTime \cup {None}
      /\ s.active[g] # None => s.breaches[g] >= ConsecutiveSamples
      /\ s.breaches[g] > 0 => Len(s.baselines[g]) = BaselineSamples
  BY DEF Good, Shape, Learned, Sustained
<1>3. Base(s, g) = s.baselines[g] /\ Len(s.baselines[g]) \in Nat
  BY <1>2, BaseIsKnown, LenProperties
<1>4. BaselineSamples \in Nat /\ BaselineSamples >= 1 /\ None \notin Levels /\ Levels \subseteq Nat
      /\ ConsecutiveSamples \in Nat /\ ConsecutiveSamples >= 1 /\ Minimum[g] \in Nat
  BY Numbers
<1>5. l # None => LET a == appendBaseline(s.baselines[g], l) IN
           /\ a \in Seq(Levels) /\ a # <<>> /\ Len(a) <= BaselineSamples
           /\ Len(s.baselines[g]) = BaselineSamples => Len(a) = BaselineSamples
  BY <1>2, BaselineGrows
<1>6. \/ l = None /\ Silent(k, s, g)
      \/ l # None /\ (\/ Learning(k, s, g, l) \/ Breaching(k, s, g, l)
                      \/ Telling(k, s, g, l, t) \/ Calming(k, s, g, l))
  BY <1>1, SpikeCases
<1>7. CASE l = None /\ Silent(k, s, g)
  <2>1. /\ k.baseline = s.baselines[g] /\ k.breaches = s.breaches[g] /\ k.active = s.active[g]
    BY <1>7 DEF Silent, NoSpike
  <2> QED BY <1>2, <1>7, <2>1 DEF Follows
<1>8. CASE l # None /\ Learning(k, s, g, l)
  <2>1. s.breaches[g] = 0
    BY <1>2, <1>3, <1>8 DEF Learning
  <2>2. /\ k.baseline = appendBaseline(s.baselines[g], l)
        /\ k.breaches = 0 /\ k.active = s.active[g]
    BY <1>3, <1>8, <2>1 DEF Learning
  <2>3. s.active[g] = None
    BY <1>2, <1>4, <2>1
  <2> QED BY <1>2, <1>5, <1>8, <2>1, <2>2, <2>3 DEF Follows
<1>9. CASE l # None /\ (Breaching(k, s, g, l) \/ Telling(k, s, g, l, t))
  <2>1. Len(s.baselines[g]) = BaselineSamples /\ s.baselines[g] # <<>>
    BY <1>2, <1>3, <1>4, <1>9 DEF Breaching, Telling
  <2>2. k.baseline = s.baselines[g] /\ k.breaches = s.breaches[g] + 1 /\ l >= Minimum[g]
    BY <1>9 DEF Breaching, Telling
  <2>3. k.active \in 0..MaxTime \cup {None} /\ (k.active # None => k.breaches >= ConsecutiveSamples)
    BY <1>2, <1>4, <1>9, <2>2 DEF Breaching, Telling, Due
  <2> QED BY <1>2, <1>9, <2>1, <2>2, <2>3 DEF Follows
<1>10. CASE l # None /\ Calming(k, s, g, l)
  <2>1. /\ k.baseline = appendBaseline(s.baselines[g], l)
        /\ k.breaches = 0 /\ k.active = None
    BY <1>3, <1>10 DEF Calming
  <2> QED BY <1>2, <1>5, <1>10, <2>1 DEF Follows
<1> QED BY <1>6, <1>7, <1>8, <1>9, <1>10

\* The samples of a metric that go with its count of breaches stay above the minimum.
LEMMA StaysSustained ==
    ASSUME NEW s, Good(s), NEW x \in Samples, NEW g \in Gauges, NEW b \in Nat,
           x[g] = None => b = s.breaches[g],
           x[g] # None => b = 0 \/ (b = s.breaches[g] + 1 /\ x[g] >= Minimum[g]),
           NEW t, t = Recent(Append(s.samples, x), Kept)
    PROVE  /\ \A i \in With(t, g) : Cardinality(Since(t, g, i)) <= b => t[i][g] >= Minimum[g]
           /\ With(s.samples, g) = {} /\ x[g] = None => With(t, g) = {}
<1>1. s.samples \in Seq(Samples) /\ s.breaches[g] \in Nat
      /\ \A j \in With(s.samples, g) :
            Cardinality(Since(s.samples, g, j)) <= s.breaches[g] => s.samples[j][g] >= Minimum[g]
  BY DEF Good, Shape, Sustained
<1>2. ASSUME NEW i \in With(t, g)
      PROVE  /\ Cardinality(Since(t, g, i)) <= b => t[i][g] >= Minimum[g]
             /\ x[g] = None => With(s.samples, g) # {}
  <2>1. PICK c : c = Cardinality(Since(t, g, i))
    OBVIOUS
  <2>2. /\ c \in Nat /\ c >= 1
        /\ \/ x[g] # None /\ t[i] = x
           \/ \E j \in With(s.samples, g) :
                 /\ t[i] = s.samples[j] /\ Cardinality(Since(s.samples, g, j)) \in Nat
                 /\ IF x[g] = None THEN Cardinality(Since(s.samples, g, j)) <= c
                    ELSE Cardinality(Since(s.samples, g, j)) + 1 <= c
    BY <1>1, <2>1, SinceSlides
  <2>3. CASE x[g] # None /\ t[i] = x
    BY <2>1, <2>2, <2>3
  <2>4. ASSUME NEW j \in With(s.samples, g), t[i] = s.samples[j],
               Cardinality(Since(s.samples, g, j)) \in Nat,
               IF x[g] = None THEN Cardinality(Since(s.samples, g, j)) <= c
               ELSE Cardinality(Since(s.samples, g, j)) + 1 <= c
        PROVE  c <= b => t[i][g] >= Minimum[g]
    <3>1. c <= b => Cardinality(Since(s.samples, g, j)) <= s.breaches[g]
      BY <1>1, <2>2, <2>4
    <3> QED BY <1>1, <2>4, <3>1
  <2> QED BY <2>1, <2>2, <2>3, <2>4
<1> QED BY <1>2

\* The spike of a metric, when spikes are looked for.
SpikeOf(s, r, g, t) == IF SpikesEnabled THEN Spike(s, g, r.gauge[g], t) ELSE NoSpike(s, g)

\* What a check computes, part by part.
Parts(d, s, r, t) ==
    /\ d.next.issues = Issues(r)
    /\ d.next.samples = IF SpikesEnabled THEN Recent(Append(s.samples, r.gauge), Kept)
                        ELSE s.samples
    /\ \A g \in Gauges : LET k == SpikeOf(s, r, g, t) IN
          /\ d.next.baselines[g] = k.baseline /\ d.next.breaches[g] = k.breaches
          /\ d.next.active[g] = k.active
    /\ d.announce = {<<<<"check", n>>, Issues(r)[n]>> : n \in New(s, Issues(r))}
                       \cup UNION {SpikeOf(s, r, g, t).announce : g \in Gauges}
    /\ d.resolve = {<<"check", n>> : n \in Gone(s, Issues(r))}
                       \cup UNION {SpikeOf(s, r, g, t).resolve : g \in Gauges}

\* Delta in these terms.
LEMMA DeltaParts ==
    ASSUME NEW s, NEW r \in Readings, NEW t
    PROVE  Parts(Delta(s, r, t), s, r, t)
<1> DEFINE k == [g \in Gauges |-> SpikeOf(s, r, g, t)]
<1>1. \A g \in Gauges : k[g] = SpikeOf(s, r, g, t)
  OBVIOUS
<1>2. k = [g \in Gauges |-> IF SpikesEnabled THEN Spike(s, g, r.gauge[g], t) ELSE NoSpike(s, g)]
  BY DEF SpikeOf
<1> HIDE DEF k
<1>3. Delta(s, r, t) =
        [announce |-> {<<<<"check", n>>, Issues(r)[n]>> : n \in New(s, Issues(r))}
                         \cup UNION {k[g].announce : g \in Gauges},
         resolve |-> {<<"check", n>> : n \in Gone(s, Issues(r))}
                         \cup UNION {k[g].resolve : g \in Gauges},
         next |-> [issues |-> Issues(r),
                   samples |-> IF SpikesEnabled THEN Recent(Append(s.samples, r.gauge), Kept)
                               ELSE s.samples,
                   baselines |-> [g \in Gauges |-> k[g].baseline],
                   breaches |-> [g \in Gauges |-> k[g].breaches],
                   active |-> [g \in Gauges |-> k[g].active]]]
  BY <1>2, Zenon DEF Delta, Kept
<1>4. UNION {k[g].announce : g \in Gauges} = UNION {SpikeOf(s, r, g, t).announce : g \in Gauges}
  BY <1>1
<1>5. UNION {k[g].resolve : g \in Gauges} = UNION {SpikeOf(s, r, g, t).resolve : g \in Gauges}
  BY <1>1
<1> QED BY <1>1, <1>3, <1>4, <1>5 DEF Parts

\* The fingerprints of issues.
LEMMA IssuesPrint ==
    ASSUME NEW r \in Readings, NEW n \in Names
    PROVE  Issues(r)[n] \in Prints(n) \cup {None}
<1>1. "services" \notin Gauges /\ "certificates" \notin Gauges
  BY HostAssumption
<1>2. CASE n = "services"
  <2>1. Issues(r)[n] = ServicesCheck(r.failed) /\ r.failed \in ServiceSets
    BY <1>2 DEF Issues, Readings
  <2>2. Prints(n) = {"critical"} \X ServiceSets
    BY <1>1, <1>2 DEF Prints
  <2> QED BY <2>1, <2>2 DEF ServicesCheck
<1>3. CASE n = "certificates"
  <2>1. Issues(r)[n] = CertificatesCheck(r.certs)
    BY <1>3 DEF Issues
  <2>2. Prints(n) = {"warning", "critical"} \X CertStates
    BY <1>1, <1>3 DEF Prints
  <2> QED BY <2>1, <2>2 DEF CertificatesCheck, CertStates
<1>4. CASE n \in Gauges
  <2>1. Issues(r)[n] = GaugeCheck(r.gauge[n]) /\ r.gauge[n] \in Levels \cup {None}
    BY <1>1, <1>4 DEF Issues, Readings
  <2>2. Prints(n) = {<<"warning", None>>} \cup ({"warning", "critical"} \X Levels)
    BY <1>4 DEF Prints
  <2> QED BY <2>1, <2>2 DEF GaugeCheck
<1> QED BY <1>2, <1>3, <1>4 DEF Names

\* A check keeps the state file good, and adds at most one to a count of breaches.
LEMMA DeltaGood ==
    ASSUME NEW s, Good(s), NEW r \in Readings, NEW t \in 0..MaxTime
    PROVE  /\ Good(Delta(s, r, t).next)
           /\ \A g \in Gauges :
                 /\ Delta(s, r, t).next.breaches[g] <= s.breaches[g] + 1
                 /\ Delta(s, r, t).next.breaches[g] > s.breaches[g] =>
                       Delta(s, r, t).next.baselines[g] = s.baselines[g]
<1>0. Parts(Delta(s, r, t), s, r, t)
  BY DeltaParts
<1>1. PICK d : d = Delta(s, r, t).next
  OBVIOUS
<1>2. /\ d.issues = Issues(r)
      /\ d.samples = IF SpikesEnabled THEN Recent(Append(s.samples, r.gauge), Kept)
                     ELSE s.samples
      /\ \A g \in Gauges : LET k == SpikeOf(s, r, g, t) IN
            d.baselines[g] = k.baseline /\ d.breaches[g] = k.breaches /\ d.active[g] = k.active
  BY <1>0, <1>1 DEF Parts
<1>3. \A n \in Names : d.issues[n] \in Prints(n) \cup {None}
  BY <1>2, IssuesPrint
<1>4. r.gauge \in Samples /\ SpikesEnabled \in BOOLEAN
  BY HostAssumption DEF Readings, Samples
<1>5. CASE SpikesEnabled
  <2>1. d.samples = Recent(Append(s.samples, r.gauge), Kept)
    BY <1>2, <1>5
  <2>2. s.samples \in Seq(Samples) /\ Kept \in Nat /\ Kept >= 1
    BY Numbers DEF Good, Shape
  <2>3. d.samples \in Seq(Samples) /\ Len(d.samples) <= Kept
    BY <1>4, <2>1, <2>2, WindowSlides
  <2>4. ASSUME NEW g \in Gauges
        PROVE  /\ d.baselines[g] \in Seq(Levels) /\ Len(d.baselines[g]) <= BaselineSamples
               /\ d.breaches[g] \in Nat /\ d.breaches[g] <= s.breaches[g] + 1
               /\ d.active[g] \in 0..MaxTime \cup {None}
               /\ d.active[g] # None => d.breaches[g] >= ConsecutiveSamples
               /\ d.breaches[g] > 0 => Len(d.baselines[g]) = BaselineSamples
               /\ r.gauge[g] = None =>
                     d.baselines[g] = s.baselines[g] /\ d.breaches[g] = s.breaches[g]
               /\ r.gauge[g] # None =>
                     /\ d.baselines[g] # <<>>
                     /\ \/ d.breaches[g] = 0
                        \/ d.breaches[g] = s.breaches[g] + 1 /\ r.gauge[g] >= Minimum[g]
               /\ d.breaches[g] > s.breaches[g] => d.baselines[g] = s.baselines[g]
    <3>1. PICK k : k = SpikeOf(s, r, g, t)
      OBVIOUS
    <3>2. d.baselines[g] = k.baseline /\ d.breaches[g] = k.breaches /\ d.active[g] = k.active
      BY <1>2, <3>1
    <3>3. k = Spike(s, g, r.gauge[g], t) /\ r.gauge[g] \in Levels \cup {None}
      BY <1>4, <1>5, <3>1 DEF SpikeOf, Samples
    <3>4. Follows(k, s, g, r.gauge[g])
      BY <3>3, SpikeFollows
    <3> QED BY <3>2, <3>4 DEF Follows
  <2>5. ASSUME NEW g \in Gauges
        PROVE  /\ \A i \in With(d.samples, g) :
                     Cardinality(Since(d.samples, g, i)) <= d.breaches[g] =>
                         d.samples[i][g] >= Minimum[g]
               /\ With(s.samples, g) = {} /\ r.gauge[g] = None => With(d.samples, g) = {}
    <3>1. PICK b, x : b = d.breaches[g] /\ x = r.gauge
      OBVIOUS
    <3>2. /\ x \in Samples /\ b \in Nat /\ (x[g] = None => b = s.breaches[g])
          /\ x[g] # None => b = 0 \/ (b = s.breaches[g] + 1 /\ x[g] >= Minimum[g])
          /\ d.samples = Recent(Append(s.samples, x), Kept)
      BY <1>4, <2>1, <2>4, <3>1
    <3>3. /\ \A i \in With(d.samples, g) :
                 Cardinality(Since(d.samples, g, i)) <= b => d.samples[i][g] >= Minimum[g]
          /\ With(s.samples, g) = {} /\ x[g] = None => With(d.samples, g) = {}
      BY <3>2, StaysSustained
    <3> QED BY <3>1, <3>3
  <2>6. ASSUME NEW g \in Gauges, d.baselines[g] = <<>> PROVE With(d.samples, g) = {}
    <3>1. r.gauge[g] = None /\ s.baselines[g] = <<>>
      BY <2>4, <2>6
    <3>2. With(s.samples, g) = {}
      BY <3>1 DEF Good, Learned
    <3> QED BY <2>5, <3>1, <3>2
  <2>7. Shape(d)
    BY <1>3, <2>3, <2>4 DEF Shape
  <2>8. Learned(d)
    BY <2>4, <2>6 DEF Learned
  <2>9. Sustained(d)
    BY <2>4, <2>5 DEF Sustained
  <2> QED BY <1>1, <2>4, <2>7, <2>8, <2>9 DEF Good
<1>6. CASE ~SpikesEnabled
  <2>1. d.samples = s.samples
    BY <1>2, <1>6
  <2>2. \A g \in Gauges : /\ d.baselines[g] = s.baselines[g] /\ d.breaches[g] = s.breaches[g]
                          /\ d.active[g] = s.active[g]
    BY <1>2, <1>6 DEF SpikeOf, NoSpike
  <2>3. Shape(d)
    BY <1>3, <2>1, <2>2 DEF Good, Shape
  <2>4. Learned(d)
    BY <2>1, <2>2 DEF Good, Learned
  <2>5. Sustained(d)
    BY <2>1, <2>2 DEF Good, Sustained
  <2>6. \A g \in Gauges : s.breaches[g] \in Nat
    BY DEF Good, Shape
  <2> QED BY <1>1, <2>2, <2>3, <2>4, <2>5, <2>6 DEF Good
<1> QED BY <1>4, <1>5, <1>6

Subject(announce) == {a[1] : a \in announce}

\* What a run says of a spike goes with what it records of it: the spike is announced
\* and active from now, it is over, or nothing is said and nothing changes.
SaysWhatItRecords(d, s, g, t) ==
    \/ /\ <<"spike", g>> \in Subject(d.announce) /\ <<"spike", g>> \notin d.resolve
       /\ \E l \in Levels : <<<<"spike", g>>, l>> \in d.announce
       /\ d.next.active[g] = t
       /\ s.active[g] = None \/ t - s.active[g] >= Cooldown
    \/ /\ <<"spike", g>> \notin Subject(d.announce) /\ <<"spike", g>> \in d.resolve
       /\ d.next.active[g] = None
    \/ /\ <<"spike", g>> \notin Subject(d.announce) /\ <<"spike", g>> \notin d.resolve
       /\ d.next.active[g] = s.active[g]

\* What there is to say of a spike.
Says(k, s, g, t) ==
    \/ /\ \E l \in Levels : k.announce = {<<<<"spike", g>>, l>>}
       /\ k.resolve = {} /\ k.active = t
       /\ s.active[g] = None \/ t - s.active[g] >= Cooldown
    \/ k.announce = {} /\ k.resolve = {<<"spike", g>>} /\ k.active = None
    \/ k.announce = {} /\ k.resolve = {} /\ k.active = s.active[g]

\* EvaluateResourceSpikes says no more.
LEMMA SpikeSays ==
    ASSUME NEW s, NEW r \in Readings, NEW g \in Gauges, NEW t
    PROVE  Says(SpikeOf(s, r, g, t), s, g, t)
<1>1. PICK k : k = SpikeOf(s, r, g, t)
  OBVIOUS
<1>2. PICK l : l = r.gauge[g]
  OBVIOUS
<1>3. l \in Levels \cup {None}
  BY <1>2 DEF Readings
<1>4. CASE k = NoSpike(s, g)
  BY <1>1, <1>4 DEF NoSpike, Says
<1>5. CASE k = Spike(s, g, l, t)
  <2>1. \/ Silent(k, s, g) 
        \/ l # None /\ (\/ Learning(k, s, g, l) \/ Breaching(k, s, g, l)
                        \/ Telling(k, s, g, l, t) \/ Calming(k, s, g, l))
    BY <1>5, SpikeCases
  <2>2. CASE Silent(k, s, g)
    BY <1>4, <2>2 DEF Silent
  <2>3. CASE Learning(k, s, g, l) \/ Breaching(k, s, g, l)
    BY <1>1, <2>3 DEF Learning, Breaching, Says
  <2>4. CASE l # None /\ Telling(k, s, g, l, t)
    BY <1>1, <1>3, <2>4 DEF Telling, Due, Says
  <2>5. CASE Calming(k, s, g, l)
    BY <1>1, <2>5 DEF Calming, Says
  <2> QED BY <2>1, <2>2, <2>3, <2>4, <2>5
<1> QED BY <1>1, <1>2, <1>4, <1>5 DEF SpikeOf

\* A run records what it says.
LEMMA DeltaSays ==
    ASSUME NEW s, NEW r \in Readings, NEW g \in Gauges, NEW t
    PROVE  SaysWhatItRecords(Delta(s, r, t), s, g, t)
<1>0. Parts(Delta(s, r, t), s, r, t)
  BY DeltaParts
<1>1. PICK d : d = Delta(s, r, t)
  OBVIOUS
<1> DEFINE K(h) == SpikeOf(s, r, h, t)
           checks == {<<<<"check", n>>, Issues(r)[n]>> : n \in New(s, Issues(r))}
           passed == {<<"check", n>> : n \in Gone(s, Issues(r))}
<1>2. /\ d.announce = checks \cup UNION {K(h).announce : h \in Gauges}
      /\ d.resolve = passed \cup UNION {K(h).resolve : h \in Gauges}
      /\ d.next.active[g] = K(g).active
  BY <1>0, <1>1 DEF Parts
<1>3. \A h \in Gauges : Says(K(h), s, h, t)
  BY SpikeSays
<1>4. ASSUME NEW a \in d.announce, a[1] = <<"spike", g>> PROVE a \in K(g).announce
  <2>1. a \notin checks
    BY <1>4
  <2>2. PICK h \in Gauges : a \in K(h).announce
    BY <1>2, <2>1
  <2>3. a[1] = <<"spike", h>>
    <3> HIDE DEF K
    <3> QED BY <1>3, <2>2 DEF Says
  <2>4. h = g
    BY <1>4, <2>3
  <2> QED BY <2>2, <2>4
<1>5. ASSUME <<"spike", g>> \in d.resolve PROVE <<"spike", g>> \in K(g).resolve
  <2>1. <<"spike", g>> \notin passed
    OBVIOUS
  <2>2. PICK h \in Gauges : <<"spike", g>> \in K(h).resolve
    BY <1>2, <1>5, <2>1
  <2>3. <<"spike", g>> = <<"spike", h>>
    <3> HIDE DEF K
    <3> QED BY <1>3, <2>2 DEF Says
  <2> QED BY <2>2, <2>3
<1>6. K(g).announce \subseteq d.announce /\ K(g).resolve \subseteq d.resolve
  BY <1>2
<1>7. <<"spike", g>> \in Subject(d.announce) <=> \E a \in d.announce : a[1] = <<"spike", g>>
  BY DEF Subject
<1> HIDE DEF K
<1>8. CASE \E l \in Levels : K(g).announce = {<<<<"spike", g>>, l>>}
  <2>1. PICK l \in Levels : K(g).announce = {<<<<"spike", g>>, l>>}
    BY <1>8
  <2>2. K(g).resolve = {} /\ K(g).active = t /\ (s.active[g] = None \/ t - s.active[g] >= Cooldown)
    BY <1>3, <2>1 DEF Says
  <2>3. <<<<"spike", g>>, l>> \in d.announce /\ <<"spike", g>> \notin d.resolve
    BY <1>5, <1>6, <2>1, <2>2
  <2>4. <<"spike", g>> \in Subject(d.announce)
    BY <1>7, <2>3
  <2> QED BY <1>1, <1>2, <2>2, <2>3, <2>4 DEF SaysWhatItRecords
<1>9. CASE K(g).announce = {}
  <2>1. <<"spike", g>> \notin Subject(d.announce)
    BY <1>4, <1>7, <1>9
  <2> QED BY <1>1, <1>2, <1>3, <1>5, <1>6, <1>9, <2>1 DEF SaysWhatItRecords, Says
<1> QED BY <1>3, <1>8, <1>9 DEF Says

\* An issue a run records was known, or is announced; what it speaks of are subjects.
LEMMA DeltaTells ==
    ASSUME NEW s, NEW r \in Readings, NEW t
    PROVE  /\ \A n \in Names :
                 \/ Delta(s, r, t).next.issues[n] \in {None, s.issues[n]}
                 \/ <<<<"check", n>>, Delta(s, r, t).next.issues[n]>> \in Delta(s, r, t).announce
           /\ Subject(Delta(s, r, t).announce) \subseteq Subjects
<1>0. Parts(Delta(s, r, t), s, r, t)
  BY DeltaParts
<1>1. PICK d : d = Delta(s, r, t)
  OBVIOUS
<1>2. /\ d.next.issues = Issues(r)
      /\ d.announce = {<<<<"check", n>>, Issues(r)[n]>> : n \in New(s, Issues(r))}
                         \cup UNION {SpikeOf(s, r, g, t).announce : g \in Gauges}
  BY <1>0, <1>1 DEF Parts
<1>3. ASSUME NEW n \in Names, d.next.issues[n] \notin {None, s.issues[n]}
      PROVE  <<<<"check", n>>, d.next.issues[n]>> \in d.announce
  <2>1. n \in New(s, Issues(r))
    BY <1>2, <1>3 DEF New
  <2> QED BY <1>2, <2>1
<1>4. ASSUME NEW a \in d.announce PROVE a[1] \in Subjects
  <2>1. CASE a \in {<<<<"check", n>>, Issues(r)[n]>> : n \in New(s, Issues(r))}
    BY <2>1 DEF New, Subjects
  <2>2. CASE \E g \in Gauges : a \in SpikeOf(s, r, g, t).announce
    <3>1. PICK g \in Gauges : a \in SpikeOf(s, r, g, t).announce
      BY <2>2
    <3>2. PICK k : k = SpikeOf(s, r, g, t)
      OBVIOUS
    <3>3. k.announce = {} \/ \E l \in Levels : k.announce = {<<<<"spike", g>>, l>>}
      BY <3>2, SpikeSays DEF Says
    <3>4. a[1] = <<"spike", g>>
      BY <3>1, <3>2, <3>3
    <3> QED BY <3>4 DEF Subjects
  <2> QED BY <1>2, <2>1, <2>2
<1> QED BY <1>1, <1>3, <1>4 DEF Subject

-----------------------------------------------------------------------------
(* The inductive invariant.                                                  *)

Active(p) == pc[p] # "idle"

\* The variables are functions, and a run a record, of the right fields.
RunFrames ==
    /\ pc \in [Runs -> {"idle", "send", "save"}]
    /\ run = [p \in Runs |-> run[p]]
    /\ \A p \in Runs : run[p] =
          [announce |-> run[p].announce, resolve |-> run[p].resolve, next |-> run[p].next,
           todo |-> run[p].todo, failed |-> run[p].failed, at |-> run[p].at]
ChannelFrames ==
    /\ heard = [c \in Channels |-> heard[c]]
    /\ open = [c \in Channels |-> open[c]]
    /\ alerted = [c \in Channels |-> alerted[c]]
    /\ \A c \in Channels : open[c] \subseteq Subjects

Numbered ==
    /\ now \in 0..MaxTime /\ runs \in 0..MaxRuns /\ faults \in 0..MaxFaults
    /\ overlap \in BOOLEAN /\ narrow \in BOOLEAN

\* A state the program can be in, with no more breaches in a row than n runs.
Sane(s, n) == Good(s) /\ \A g \in Gauges : s.breaches[g] <= n

\* A run sends to channels that are enabled, and saves when it has sent all.
RunOK(p) ==
    /\ run[p].todo \subseteq Enabled /\ run[p].failed \in BOOLEAN
    /\ pc[p] = "send" => run[p].todo # {}
    /\ pc[p] = "save" => run[p].todo = {} /\ ~run[p].failed
    /\ run[p].failed => faults > 0
    /\ Subject(run[p].announce) \subseteq Subjects
    /\ Sane(run[p].next, runs)

MonInv == /\ RunFrames /\ ChannelFrames /\ Numbered
          /\ Sane(file, runs) /\ \A p \in Runs : RunOK(p)

\* One of some facts was delivered on a channel, and on all if no run left one out.
Told(some) == /\ \E c \in Enabled : some \cap heard[c] # {}
              /\ narrow \/ \A c \in Enabled : some \cap heard[c] # {}

Issue(n, what) == {<<<<"check", n>>, what>>}
Alarms(g) == {<<<<"spike", g>>, l>> : l \in Levels}

\* All a run has to announce is delivered, or will be unless it fails: on a channel,
\* and on all if no run left one out.
Covers(p, c) == run[p].announce \subseteq heard[c] \/ c \in run[p].todo
Delivers(p) == /\ \E c \in Enabled : Covers(p, c)
               /\ narrow \/ \A c \in Enabled : Covers(p, c)

\* What a run would record was told or is announced, whichever state it started from.
RunTells(p) ==
    /\ \A n \in Names : run[p].next.issues[n] # None =>
          \/ Told(Issue(n, run[p].next.issues[n]))
          \/ Issue(n, run[p].next.issues[n]) \cap run[p].announce # {}
    /\ \A g \in Gauges : run[p].next.active[g] # None =>
          Told(Alarms(g)) \/ Alarms(g) \cap run[p].announce # {}
    /\ ~run[p].failed /\ run[p].announce # {} => Delivers(p)

FileTold ==
    /\ \A n \in Names : file.issues[n] # None => Told(Issue(n, file.issues[n]))
    /\ \A g \in Gauges : file.active[g] # None => Told(Alarms(g))

TellInv == FileTold /\ \A p \in Runs : Active(p) => RunTells(p)

\* As long as runs do not overlap there is one at most, and it started from the file.
FromFile(p) == \E r \in Readings :
    /\ run[p].announce = Delta(file, r, run[p].at).announce
    /\ run[p].resolve = Delta(file, r, run[p].at).resolve
    /\ run[p].next = Delta(file, r, run[p].at).next
Alone(p) == /\ \A q \in Runs : Active(q) => q = p
            /\ run[p].at \in 0..MaxTime /\ FromFile(p)
OneRun == ~overlap => \A p \in Runs : Active(p) => Alone(p)

\* The channel shows a spike as open when it is active since a, and was told then.
InStep(c, g, a) == /\ <<"spike", g>> \in open[c] <=> a # None
                   /\ a # None => alerted[c][g] = a

\* A channel is in step with the file, or with what the run will save once it was told.
Calm == ~overlap /\ faults = 0 /\ ~narrow
Ahead(c, p) == Active(p) /\ c \notin run[p].todo
Sync == Calm => \A c \in Enabled, g \in Gauges :
    /\ \A p \in Runs : Ahead(c, p) => InStep(c, g, run[p].next.active[g])
    /\ (\A p \in Runs : ~Ahead(c, p)) => InStep(c, g, file.active[g])

AlertInv == MonInv /\ TellInv /\ OneRun /\ Sync

-----------------------------------------------------------------------------
(* What a step does to the runs.                                             *)

Others(p) == \A q \in Runs : q # p => pc'[q] = pc[q] /\ run'[q] = run[q]

Ended(p) == pc'[p] = "idle" /\ run'[p] = NoRun

\* A run that is over holds nothing.
LEMMA NoRunFacts ==
    /\ NoRun.todo = {} /\ NoRun.announce = {} /\ NoRun.failed = FALSE
    /\ \A n \in Nat : Sane(NoRun.next, n)
    /\ NoRun = [announce |-> NoRun.announce, resolve |-> NoRun.resolve, next |-> NoRun.next,
                todo |-> NoRun.todo, failed |-> NoRun.failed, at |-> NoRun.at]
<1>1. NoRun.next = EmptyState
  BY DEF NoRun
<1>2. \A n \in Nat : Sane(EmptyState, n)
  BY EmptyGood DEF Sane
<1> QED BY <1>1, <1>2 DEF NoRun

\* End forgets the run and touches no other.
LEMMA EndStep ==
    ASSUME RunFrames, NEW p \in Runs, End(p)
    PROVE  RunFrames' /\ Others(p) /\ Ended(p)
<1>1. pc' = [pc EXCEPT ![p] = "idle"] /\ run' = [run EXCEPT ![p] = NoRun]
  BY DEF End
<1>2. run = [q \in Runs |-> run[q]] /\ pc \in [Runs -> {"idle", "send", "save"}]
  BY DEF RunFrames
<1>3. run' = [q \in Runs |-> IF q = p THEN NoRun ELSE run[q]]
  BY <1>1, <1>2
<1>4. pc' \in [Runs -> {"idle", "send", "save"}]
  BY <1>1, <1>2
<1>5. Others(p) /\ Ended(p)
  BY <1>1, <1>2, <1>3 DEF Others, Ended
<1>6. run' = [q \in Runs |-> run'[q]]
  BY <1>3
<1>7. ASSUME NEW q \in Runs
      PROVE  run'[q] = [announce |-> run'[q].announce, resolve |-> run'[q].resolve,
                        next |-> run'[q].next, todo |-> run'[q].todo,
                        failed |-> run'[q].failed, at |-> run'[q].at]
  <2>1. CASE q = p
    BY <1>5, <2>1, NoRunFacts DEF Ended
  <2>2. CASE q # p
    BY <1>5, <2>2, Zenon DEF Others, RunFrames
  <2> QED BY <2>1, <2>2
<1> QED BY <1>4, <1>5, <1>6, <1>7 DEF RunFrames

\* The run goes on to the channels that are left, saves, or is over when one failed.
GoesOn(p, rest) ==
    /\ pc'[p] \in {"send", "save"}
    /\ pc'[p] = "send" => rest # {}
    /\ pc'[p] = "save" => rest = {} /\ ~run'[p].failed
    /\ run'[p].todo = rest
    /\ run'[p].announce = run[p].announce /\ run'[p].resolve = run[p].resolve
    /\ run'[p].next = run[p].next /\ run'[p].at = run[p].at

\* Sent moves on one run.
LEMMA SentStep ==
    ASSUME RunFrames, NEW p \in Runs, NEW failed \in BOOLEAN, Sent(p, failed)
    PROVE  /\ RunFrames' /\ Others(p)
           /\ \/ Ended(p) /\ failed
              \/ /\ GoesOn(p, run[p].todo \ {FirstOf(run[p].todo)})
                 /\ run'[p].failed = failed
<1>1. PICK rest : rest = run[p].todo \ {FirstOf(run[p].todo)}
  OBVIOUS
<1>2. PICK next : next = IF rest # {} THEN "send" ELSE AfterSend(failed)
  OBVIOUS
<1>3. PICK new : new = IF next = "idle" THEN NoRun
                       ELSE [run[p] EXCEPT !.todo = rest, !.failed = failed]
  OBVIOUS
<1>4. run = [q \in Runs |-> run[q]] /\ pc \in [Runs -> {"idle", "send", "save"}]
  BY DEF RunFrames
<1>5. pc' = [pc EXCEPT ![p] = next] /\ run' = [run EXCEPT ![p] = new]
  BY <1>1, <1>2, <1>3 DEF Sent
<1>6. /\ next \in {"idle", "send", "save"}
      /\ next = "idle" => failed
      /\ next = "send" => rest # {}
      /\ next = "save" => rest = {} /\ ~failed
  BY <1>2 DEF AfterSend
<1>7. run' = [q \in Runs |-> IF q = p THEN new ELSE run[q]]
  BY <1>4, <1>5
<1>8. Others(p) /\ pc'[p] = next /\ run'[p] = new
  BY <1>4, <1>5, <1>7 DEF Others
<1>9. run[p] = [announce |-> run[p].announce, resolve |-> run[p].resolve, next |-> run[p].next,
                todo |-> run[p].todo, failed |-> run[p].failed, at |-> run[p].at]
  BY DEF RunFrames
<1>10. next # "idle" =>
          new = [announce |-> run[p].announce, resolve |-> run[p].resolve, next |-> run[p].next,
                 todo |-> rest, failed |-> failed, at |-> run[p].at]
  BY <1>3, <1>9
<1>11. ASSUME NEW q \in Runs
      PROVE  run'[q] = [announce |-> run'[q].announce, resolve |-> run'[q].resolve,
                        next |-> run'[q].next, todo |-> run'[q].todo,
                        failed |-> run'[q].failed, at |-> run'[q].at]
  <2>1. CASE q = p /\ next = "idle"
    BY <1>3, <1>8, <2>1, NoRunFacts
  <2>2. CASE q = p /\ next # "idle"
    BY <1>8, <1>10, <2>2
  <2>3. CASE q # p
    BY <1>8, <2>3, Zenon DEF Others, RunFrames
  <2> QED BY <2>1, <2>2, <2>3
<1>12. RunFrames'
  <2>1. pc' \in [Runs -> {"idle", "send", "save"}]
    BY <1>4, <1>5, <1>6
  <2>2. run' = [q \in Runs |-> run'[q]]
    BY <1>7
  <2> QED BY <1>11, <2>1, <2>2 DEF RunFrames
<1>13. CASE next = "idle"
  BY <1>3, <1>6, <1>8, <1>12, <1>13 DEF Ended
<1>14. CASE next # "idle"
  <2>1. GoesOn(p, rest) /\ run'[p].failed = failed
    BY <1>6, <1>8, <1>10, <1>14 DEF GoesOn
  <2> QED BY <1>1, <1>8, <1>12, <2>1
<1> QED BY <1>13, <1>14

\* A check has computed d from the file; it has nothing to say, or says it.
Begins(p, channel, d) ==
    /\ pc'[p] \in {"send", "save"}
    /\ run'[p] = [announce |-> d.announce, resolve |-> d.resolve, next |-> d.next,
                  todo |-> run'[p].todo, failed |-> FALSE, at |-> now]
    /\ \/ /\ d.announce = {} /\ d.resolve = {} /\ run'[p].todo = {} /\ pc'[p] = "save"
          /\ narrow' = narrow
       \/ /\ run'[p].todo = Requested(channel) /\ Requested(channel) # {} /\ pc'[p] = "send"
          /\ narrow' = (narrow \/ channel # "all")

\* Check starts one run, or none.
LEMMA CheckStep ==
    ASSUME RunFrames, Numbered, NEW p \in Runs, Check(p)
    PROVE  /\ RunFrames' /\ Others(p) /\ pc[p] = "idle"
           /\ runs < MaxRuns /\ runs' = runs + 1 /\ narrow' \in BOOLEAN
           /\ overlap' = (overlap \/ \E q \in Runs : pc[q] # "idle")
           /\ UNCHANGED <<now, file, heard, open, alerted, faults>>
           /\ narrow => narrow'
           /\ \/ Ended(p)
              \/ \E r \in Readings, channel \in ChannelFlags :
                    Begins(p, channel, Delta(file, r, now))
<1>1. PICK r \in Readings, channel \in ChannelFlags :
        LET delta == Delta(file, r, now)
            quiet == delta.announce = {} /\ delta.resolve = {}
            todo == IF quiet THEN {} ELSE Requested(channel)
            step == IF quiet THEN "save" ELSE IF todo = {} THEN "idle" ELSE "send"
        IN  /\ pc[p] = "idle" /\ runs < MaxRuns
            /\ runs' = runs + 1
            /\ overlap' = (overlap \/ \E q \in Runs : pc[q] # "idle")
            /\ narrow' = (narrow \/ (channel # "all" /\ ~quiet))
            /\ pc' = [pc EXCEPT ![p] = step]
            /\ run' = [run EXCEPT ![p] = IF step = "idle" THEN NoRun ELSE
                  [announce |-> delta.announce, resolve |-> delta.resolve,
                   next |-> delta.next, todo |-> todo, failed |-> FALSE, at |-> now]]
            /\ UNCHANGED <<now, file, heard, open, alerted, faults>>
  BY Zenon DEF Check
<1>2. PICK d : d = Delta(file, r, now)
  OBVIOUS
<1>3. PICK quiet \in BOOLEAN : quiet <=> d.announce = {} /\ d.resolve = {}
  <2>1. (d.announce = {} /\ d.resolve = {}) \in BOOLEAN
    OBVIOUS
  <2> QED BY <2>1
<1>4. PICK todo : todo = IF quiet THEN {} ELSE Requested(channel)
  OBVIOUS
<1>5. PICK step : step = IF quiet THEN "save" ELSE IF todo = {} THEN "idle" ELSE "send"
  OBVIOUS
<1>6. PICK new : new = IF step = "idle" THEN NoRun ELSE
                  [announce |-> d.announce, resolve |-> d.resolve,
                   next |-> d.next, todo |-> todo, failed |-> FALSE, at |-> now]
  OBVIOUS
<1>7. /\ pc[p] = "idle" /\ runs < MaxRuns /\ runs' = runs + 1
      /\ overlap' = (overlap \/ \E q \in Runs : pc[q] # "idle")
      /\ UNCHANGED <<now, file, heard, open, alerted, faults>>
  BY <1>1
<1>8. narrow' = (narrow \/ (channel # "all" /\ ~quiet))
  BY <1>1, <1>2, <1>3
<1>9. pc' = [pc EXCEPT ![p] = step]
  BY <1>1, <1>2, <1>3, <1>4, <1>5
<1>10. run' = [run EXCEPT ![p] = new]
  BY <1>1, <1>2, <1>3, <1>4, <1>5, <1>6
<1>11. run = [q \in Runs |-> run[q]] /\ pc \in [Runs -> {"idle", "send", "save"}]
  BY DEF RunFrames
<1>12. run' = [q \in Runs |-> IF q = p THEN new ELSE run[q]]
  BY <1>10, <1>11
<1>13. Others(p) /\ pc'[p] = step /\ run'[p] = new
  BY <1>9, <1>11, <1>12 DEF Others
<1>14. step \in {"idle", "send", "save"}
  BY <1>5
<1>15. RunFrames'
  <2>1. pc' \in [Runs -> {"idle", "send", "save"}]
    BY <1>9, <1>11, <1>14
  <2>2. run' = [q \in Runs |-> run'[q]]
    BY <1>12
  <2>3. ASSUME NEW q \in Runs
        PROVE  run'[q] = [announce |-> run'[q].announce, resolve |-> run'[q].resolve,
                          next |-> run'[q].next, todo |-> run'[q].todo,
                          failed |-> run'[q].failed, at |-> run'[q].at]
    <3>1. CASE q = p /\ step = "idle"
      BY <1>6, <1>13, <3>1, NoRunFacts
    <3>2. CASE q = p /\ step # "idle"
      BY <1>6, <1>13, <3>2
    <3>3. CASE q # p
      BY <1>13, <3>3, Zenon DEF Others, RunFrames
    <3> QED BY <3>1, <3>2, <3>3
  <2> QED BY <2>1, <2>2, <2>3 DEF RunFrames
<1>16. narrow' \in BOOLEAN /\ (narrow => narrow')
  BY <1>8 DEF Numbered
<1>17. CASE step = "idle"
  <2>1. Ended(p)
    BY <1>6, <1>13, <1>17 DEF Ended
  <2> QED BY <1>7, <1>13, <1>15, <1>16, <2>1
<1>18. CASE step # "idle"
  <2>1. new = [announce |-> d.announce, resolve |-> d.resolve,
               next |-> d.next, todo |-> todo, failed |-> FALSE, at |-> now]
    BY <1>6, <1>18
  <2>2. \/ quiet /\ step = "save" /\ todo = {}
        \/ ~quiet /\ step = "send" /\ todo = Requested(channel) /\ todo # {}
    BY <1>3, <1>4, <1>5, <1>18
  <2>3. ASSUME quiet PROVE Begins(p, channel, d)
    <3>1. narrow' = narrow
      BY <1>8, <2>3 DEF Numbered
    <3>2. run'[p].todo = {} /\ pc'[p] = "save" /\ d.announce = {} /\ d.resolve = {}
      BY <1>3, <1>13, <2>1, <2>2, <2>3
    <3> QED BY <1>13, <2>1, <3>1, <3>2 DEF Begins
  <2>4. ASSUME ~quiet PROVE Begins(p, channel, d)
    <3>1. narrow' = (narrow \/ channel # "all")
      BY <1>8, <2>4
    <3>2. /\ run'[p].todo = Requested(channel) /\ Requested(channel) # {} /\ pc'[p] = "send"
      BY <1>13, <2>1, <2>2, <2>4
    <3> QED BY <1>13, <2>1, <3>1, <3>2 DEF Begins
  <2>5. Begins(p, channel, d)
    BY <2>3, <2>4
  <2> QED BY <1>2, <1>7, <1>13, <1>15, <1>16, <2>5
<1> QED BY <1>17, <1>18

\* Telegram comes first where it is one of the channels.
LEMMA FirstIsThere ==
    ASSUME NEW todo, todo \subseteq Enabled, todo # {}
    PROVE  FirstOf(todo) \in todo /\ FirstOf(todo) \in Enabled /\ FirstOf(todo) \in Channels
BY HostAssumption DEF FirstOf, Channels

\* A delivery is heard on one channel.
Hears(p, c) ==
    /\ heard'[c] = heard[c] \cup run[p].announce
    /\ open'[c] = (open[c] \cup Subject(run[p].announce)) \ run[p].resolve
    /\ \A g \in Gauges : alerted'[c][g] =
          IF <<"spike", g>> \in Subject(run[p].announce) THEN run[p].at ELSE alerted[c][g]
    /\ \A o \in Channels : o # c =>
          heard'[o] = heard[o] /\ open'[o] = open[o] /\ alerted'[o] = alerted[o]

\* Deliver reaches the first channel that is left.
LEMMA DeliverStep ==
    ASSUME MonInv, NEW p \in Runs, Deliver(p)
    PROVE  /\ pc[p] = "send" /\ RunFrames' /\ Others(p) /\ ChannelFrames'
           /\ \E c \in run[p].todo :
                 /\ c \in Enabled /\ c \in Channels /\ Hears(p, c)
                 /\ \/ Ended(p) /\ run[p].failed
                    \/ GoesOn(p, run[p].todo \ {c}) /\ run'[p].failed = run[p].failed
           /\ UNCHANGED <<now, file, overlap, narrow, runs, faults>>
<1>1. PICK c : c = FirstOf(run[p].todo)
  OBVIOUS
<1>2. /\ pc[p] = "send" /\ Sent(p, run[p].failed)
      /\ UNCHANGED <<now, file, overlap, narrow, runs, faults>>
  BY DEF Deliver
<1>3. /\ heard' = [heard EXCEPT ![c] = @ \cup run[p].announce]
      /\ open' = [open EXCEPT ![c] = (@ \cup Subject(run[p].announce)) \ run[p].resolve]
      /\ alerted' = [alerted EXCEPT ![c] = [g \in Gauges |->
            IF <<"spike", g>> \in Subject(run[p].announce) THEN run[p].at ELSE @[g]]]
  BY <1>1, Zenon DEF Deliver, Subject
<1>4. RunOK(p) /\ RunFrames /\ ChannelFrames
  BY DEF MonInv
<1>5. c \in run[p].todo /\ c \in Enabled /\ c \in Channels
  BY <1>1, <1>2, <1>4, FirstIsThere DEF RunOK
<1>6. /\ heard = [o \in Channels |-> heard[o]] /\ open = [o \in Channels |-> open[o]]
      /\ alerted = [o \in Channels |-> alerted[o]]
      /\ \A o \in Channels : open[o] \subseteq Subjects
  BY <1>4 DEF ChannelFrames
<1>7. heard' = [o \in Channels |-> IF o = c THEN heard[c] \cup run[p].announce ELSE heard[o]]
  BY <1>3, <1>5, <1>6
<1>8. open' = [o \in Channels |-> IF o = c
                 THEN (open[c] \cup Subject(run[p].announce)) \ run[p].resolve ELSE open[o]]
  BY <1>3, <1>5, <1>6
<1>9. PICK when : when = [g \in Gauges |->
         IF <<"spike", g>> \in Subject(run[p].announce) THEN run[p].at ELSE alerted[c][g]]
  OBVIOUS
<1>10. alerted' = [o \in Channels |-> IF o = c THEN when ELSE alerted[o]]
  <2>1. alerted' = [alerted EXCEPT ![c] = when]
    BY <1>3, <1>5, <1>6, <1>9
  <2> QED BY <1>5, <1>6, <2>1
<1>11. Hears(p, c)
  <2>1. alerted'[c] = when /\ \A o \in Channels : o # c => alerted'[o] = alerted[o]
    BY <1>5, <1>10
  <2>2. \A g \in Gauges : alerted'[c][g] =
           IF <<"spike", g>> \in Subject(run[p].announce) THEN run[p].at ELSE alerted[c][g]
    BY <1>9, <2>1
  <2> QED BY <1>5, <1>7, <1>8, <2>1, <2>2 DEF Hears
<1>12. ChannelFrames'
  <2>1. /\ heard' = [o \in Channels |-> heard'[o]] /\ open' = [o \in Channels |-> open'[o]]
    BY <1>7, <1>8
  <2>2. alerted' = [o \in Channels |-> alerted'[o]]
    BY <1>10
  <2>3. \A o \in Channels : open'[o] \subseteq Subjects
    BY <1>4, <1>6, <1>8 DEF RunOK
  <2> QED BY <2>1, <2>2, <2>3 DEF ChannelFrames
<1>13. /\ RunFrames' /\ Others(p)
       /\ \/ Ended(p) /\ run[p].failed
          \/ GoesOn(p, run[p].todo \ {c}) /\ run'[p].failed = run[p].failed
  BY <1>1, <1>2, <1>4, SentStep DEF RunOK
<1> QED BY <1>2, <1>5, <1>11, <1>12, <1>13

\* An attempt that fails is heard by nobody.
LEMMA UndeliveredStep ==
    ASSUME MonInv, NEW p \in Runs, Undelivered(p)
    PROVE  /\ pc[p] = "send" /\ RunFrames' /\ Others(p)
           /\ \/ Ended(p)
              \/ \E c \in run[p].todo :
                    GoesOn(p, run[p].todo \ {c}) /\ run'[p].failed = TRUE
           /\ faults < MaxFaults /\ faults' = faults + 1
           /\ UNCHANGED <<now, file, heard, open, alerted, overlap, narrow, runs>>
<1>1. PICK c : c = FirstOf(run[p].todo)
  OBVIOUS
<1>2. /\ pc[p] = "send" /\ Sent(p, TRUE) /\ faults < MaxFaults /\ faults' = faults + 1
      /\ UNCHANGED <<now, file, heard, open, alerted, overlap, narrow, runs>>
  BY DEF Undelivered
<1>3. RunOK(p) /\ RunFrames
  BY DEF MonInv
<1>4. c \in run[p].todo
  BY <1>1, <1>2, <1>3, FirstIsThere DEF RunOK
<1>5. /\ RunFrames' /\ Others(p)
      /\ Ended(p) \/ (GoesOn(p, run[p].todo \ {c}) /\ run'[p].failed = TRUE)
  BY <1>1, <1>2, <1>3, SentStep
<1> QED BY <1>2, <1>4, <1>5

\* What a run holds stays sound while it is not the one that moves.
LEMMA OthersOK ==
    ASSUME MonInv, NEW p \in Runs, Others(p), RunOK(p)',
           runs' \in Nat, runs' >= runs, faults' \in Nat, faults' >= faults
    PROVE  \A q \in Runs : RunOK(q)'
<1>1. SUFFICES ASSUME NEW q \in Runs, q # p PROVE RunOK(q)'
  OBVIOUS
<1>2. RunOK(q) /\ pc'[q] = pc[q] /\ run'[q] = run[q] /\ runs \in Nat /\ faults \in Nat
  BY <1>1 DEF MonInv, Numbered, Others
<1>3. Sane(run'[q].next, runs')
  <2>1. \A g \in Gauges : run[q].next.breaches[g] \in Nat
    BY <1>2 DEF RunOK, Sane, Good, Shape
  <2> QED BY <1>2, <2>1 DEF RunOK, Sane
<1> QED BY <1>2, <1>3 DEF RunOK

\* A run that is over holds nothing, ...
LEMMA EndedOK ==
    ASSUME MonInv, NEW p \in Runs, Ended(p), runs' \in Nat
    PROVE  RunOK(p)'
<1>1. /\ run'[p].todo = {} /\ run'[p].announce = {} /\ run'[p].failed = FALSE
      /\ Sane(run'[p].next, runs')
  BY NoRunFacts DEF Ended
<1>2. Subject({}) = {}
  BY DEF Subject
<1> QED BY <1>1, <1>2 DEF RunOK, Ended

\* ... and one that goes on what it held.
LEMMA WentOnOK ==
    ASSUME MonInv, NEW p \in Runs, NEW c, GoesOn(p, run[p].todo \ {c}),
           runs' \in Nat, runs' >= runs, run'[p].failed \in BOOLEAN,
           run'[p].failed => faults' > 0
    PROVE  RunOK(p)'
<1>1. RunOK(p) /\ runs \in Nat
  BY DEF MonInv, Numbered
<1>2. Sane(run'[p].next, runs')
  <2>1. \A g \in Gauges : run[p].next.breaches[g] \in Nat
    BY <1>1 DEF RunOK, Sane, Good, Shape
  <2> QED BY <1>1, <2>1 DEF RunOK, Sane, GoesOn
<1> QED BY <1>1, <1>2 DEF RunOK, GoesOn

\* A run that begins holds what a good file makes of a reading.
LEMMA BegunOK ==
    ASSUME MonInv, NEW p \in Runs, NEW r \in Readings, NEW channel \in ChannelFlags,
           Begins(p, channel, Delta(file, r, now)), runs' = runs + 1
    PROVE  RunOK(p)'
<1>1. Sane(file, runs) /\ runs \in Nat /\ now \in 0..MaxTime
  BY DEF MonInv, Numbered
<1>2. PICK d : d = Delta(file, r, now)
  OBVIOUS
<1>3. Begins(p, channel, d)
  BY <1>2
<1>4. Sane(d.next, runs')
  <2>1. Good(file) /\ \A g \in Gauges : file.breaches[g] <= runs
    BY <1>1 DEF Sane
  <2>2. Good(d.next) /\ \A g \in Gauges : d.next.breaches[g] <= file.breaches[g] + 1
    BY <1>1, <1>2, <2>1, DeltaGood
  <2>3. \A g \in Gauges : file.breaches[g] \in Nat /\ d.next.breaches[g] \in Nat
    BY <2>1, <2>2 DEF Good, Shape
  <2> QED BY <1>1, <2>1, <2>2, <2>3 DEF Sane
<1>5. Subject(d.announce) \subseteq Subjects
  BY <1>2, DeltaTells
<1>6. run'[p].announce = d.announce /\ run'[p].next = d.next /\ run'[p].failed = FALSE
  BY <1>3 DEF Begins
<1>7. /\ run'[p].todo \subseteq Enabled
      /\ pc'[p] = "send" => run'[p].todo # {}
      /\ pc'[p] = "save" => run'[p].todo = {}
  BY <1>3 DEF Begins, Requested
<1> QED BY <1>4, <1>5, <1>6, <1>7 DEF RunOK

\* A state stays sane as runs are counted.
LEMMA FileStays ==
    ASSUME MonInv, file' = file, runs' \in Nat, runs' >= runs
    PROVE  Sane(file, runs)'
<1>1. Sane(file, runs) /\ runs \in Nat
  BY DEF MonInv, Numbered
<1>2. \A g \in Gauges : file.breaches[g] \in Nat
  BY <1>1 DEF Sane, Good, Shape
<1> QED BY <1>1, <1>2 DEF Sane

\* MonInv holds at first, ...
LEMMA MonInit == Init => MonInv
<1> SUFFICES ASSUME Init PROVE MonInv
  OBVIOUS
<1>1. RunFrames
  BY NoRunFacts DEF Init, RunFrames
<1>2. ChannelFrames
  BY DEF Init, ChannelFrames
<1>3. Numbered
  <2>1. MaxTime \in Nat /\ MaxRuns \in Nat /\ MaxFaults \in Nat
    BY HostAssumption
  <2>2. overlap \in BOOLEAN /\ narrow \in BOOLEAN
    BY DEF Init
  <2>3. now = 0 /\ runs = 0 /\ faults = 0
    BY DEF Init
  <2>4. now \in 0..MaxTime /\ runs \in 0..MaxRuns /\ faults \in 0..MaxFaults
    BY <2>1, <2>3
  <2> QED BY <2>2, <2>4 DEF Numbered
<1>4. Sane(file, runs)
  BY NoRunFacts DEF Init, NoRun
<1>5. ASSUME NEW p \in Runs PROVE RunOK(p)
  <2>1. pc[p] = "idle" /\ run[p] = NoRun /\ runs = 0
    BY DEF Init
  <2>2. Subject({}) = {}
    BY DEF Subject
  <2> QED BY <2>1, <2>2, NoRunFacts DEF RunOK
<1> QED BY <1>1, <1>2, <1>3, <1>4, <1>5 DEF MonInv

\* ... and every step keeps it.
LEMMA MonStep == MonInv /\ [Next]_vars => MonInv'
<1> SUFFICES ASSUME MonInv, [Next]_vars PROVE MonInv'
  OBVIOUS
<1>0. /\ RunFrames /\ ChannelFrames /\ Numbered /\ Sane(file, runs)
      /\ runs \in Nat /\ faults \in Nat /\ MaxRuns \in Nat /\ MaxFaults \in Nat /\ MaxTime \in Nat
  BY HostAssumption DEF MonInv, Numbered
<1>1. ASSUME NEW p \in Runs, Check(p) PROVE MonInv'
  <2>1. /\ RunFrames' /\ Others(p) /\ runs < MaxRuns /\ runs' = runs + 1 /\ narrow' \in BOOLEAN
        /\ overlap' = (overlap \/ \E q \in Runs : pc[q] # "idle")
        /\ UNCHANGED <<now, file, heard, open, alerted, faults>>
        /\ \/ Ended(p)
           \/ \E r \in Readings, channel \in ChannelFlags :
                 Begins(p, channel, Delta(file, r, now))
    BY <1>0, <1>1, CheckStep
  <2>2. Numbered'
    BY <1>0, <2>1 DEF Numbered
  <2>3. ChannelFrames'
    BY <1>0, <2>1 DEF ChannelFrames
  <2>4. Sane(file, runs)'
    BY <1>0, <2>1, FileStays
  <2>5. RunOK(p)'
    <3>1. CASE Ended(p)
      BY <1>0, <2>1, <3>1, EndedOK
    <3>2. CASE \E r \in Readings, channel \in ChannelFlags :
                 Begins(p, channel, Delta(file, r, now))
      BY <2>1, <3>2, BegunOK
    <3> QED BY <2>1, <3>1, <3>2
  <2>6. \A q \in Runs : RunOK(q)'
    BY <1>0, <2>1, <2>5, OthersOK
  <2> QED BY <2>1, <2>2, <2>3, <2>4, <2>6 DEF MonInv
<1>2. ASSUME NEW p \in Runs, Deliver(p) PROVE MonInv'
  <2>1. /\ RunFrames' /\ Others(p) /\ ChannelFrames'
        /\ UNCHANGED <<now, file, overlap, narrow, runs, faults>>
        /\ \E c \in run[p].todo :
              \/ Ended(p) /\ run[p].failed
              \/ GoesOn(p, run[p].todo \ {c}) /\ run'[p].failed = run[p].failed
    BY <1>2, DeliverStep
  <2>2. RunOK(p)'
    <3>1. PICK c \in run[p].todo :
            \/ Ended(p)
            \/ GoesOn(p, run[p].todo \ {c}) /\ run'[p].failed = run[p].failed
      BY <2>1
    <3>2. run[p].failed \in BOOLEAN /\ (run[p].failed => faults' > 0)
      BY <2>1 DEF MonInv, RunOK
    <3>3. CASE Ended(p)
      BY <1>0, <2>1, <3>3, EndedOK
    <3>4. CASE GoesOn(p, run[p].todo \ {c}) /\ run'[p].failed = run[p].failed
      <4>1. run'[p].failed \in BOOLEAN /\ (run'[p].failed => faults' > 0)
        BY <3>2, <3>4
      <4>2. runs' \in Nat /\ runs' >= runs
        BY <1>0, <2>1
      <4> QED BY <3>4, <4>1, <4>2, WentOnOK
    <3> QED BY <3>1, <3>3, <3>4
  <2>3. \A q \in Runs : RunOK(q)'
    BY <1>0, <2>1, <2>2, OthersOK
  <2> QED BY <1>0, <2>1, <2>3 DEF MonInv, Numbered
<1>3. ASSUME NEW p \in Runs, Undelivered(p) PROVE MonInv'
  <2>1. /\ RunFrames' /\ Others(p)
        /\ \/ Ended(p)
           \/ \E c \in run[p].todo :
                 GoesOn(p, run[p].todo \ {c}) /\ run'[p].failed = TRUE
        /\ faults < MaxFaults /\ faults' = faults + 1
        /\ UNCHANGED <<now, file, heard, open, alerted, overlap, narrow, runs>>
    BY <1>3, UndeliveredStep
  <2>2. RunOK(p)'
    <3>1. CASE Ended(p)
      BY <1>0, <2>1, <3>1, EndedOK
    <3>2. CASE \E c \in run[p].todo :
                  GoesOn(p, run[p].todo \ {c}) /\ run'[p].failed = TRUE
      <4>1. PICK c \in run[p].todo : GoesOn(p, run[p].todo \ {c}) /\ run'[p].failed = TRUE
        BY <3>2
      <4>2. run'[p].failed \in BOOLEAN
        BY <4>1
      <4>3. faults' > 0
        BY <1>0, <2>1
      <4>4. runs' \in Nat /\ runs' >= runs
        BY <1>0, <2>1
      <4> QED BY <4>1, <4>2, <4>3, <4>4, WentOnOK
    <3> QED BY <2>1, <3>1, <3>2
  <2>3. \A q \in Runs : RunOK(q)'
    BY <1>0, <2>1, <2>2, OthersOK
  <2>4. ChannelFrames'
    BY <1>0, <2>1 DEF ChannelFrames
  <2>5. Numbered'
    BY <1>0, <2>1 DEF Numbered
  <2> QED BY <1>0, <2>1, <2>3, <2>4, <2>5 DEF MonInv
<1>4. ASSUME NEW p \in Runs, Save(p) PROVE MonInv'
  <2>1. /\ file' = run[p].next /\ End(p)
        /\ UNCHANGED <<now, heard, open, alerted, overlap, narrow, runs, faults>>
    BY <1>4 DEF Save
  <2>2. RunFrames' /\ Others(p) /\ Ended(p)
    BY <1>0, <2>1, EndStep
  <2>3. RunOK(p)'
    BY <1>0, <2>1, <2>2, EndedOK
  <2>4. \A q \in Runs : RunOK(q)'
    BY <1>0, <2>1, <2>2, <2>3, OthersOK
  <2>5. Sane(file, runs)'
    BY <2>1 DEF MonInv, RunOK
  <2>6. ChannelFrames'
    BY <1>0, <2>1 DEF ChannelFrames
  <2> QED BY <1>0, <2>1, <2>2, <2>4, <2>5, <2>6 DEF MonInv, Numbered
<1>5. ASSUME NEW p \in Runs, Abort(p) PROVE MonInv'
  <2>1. /\ faults < MaxFaults /\ faults' = faults + 1 /\ End(p)
        /\ UNCHANGED <<now, file, heard, open, alerted, overlap, narrow, runs>>
    BY <1>5 DEF Abort
  <2>2. RunFrames' /\ Others(p) /\ Ended(p)
    BY <1>0, <2>1, EndStep
  <2>3. RunOK(p)'
    BY <1>0, <2>1, <2>2, EndedOK
  <2>4. \A q \in Runs : RunOK(q)'
    BY <1>0, <2>1, <2>2, <2>3, OthersOK
  <2>5. ChannelFrames'
    BY <1>0, <2>1 DEF ChannelFrames
  <2>6. Numbered'
    BY <1>0, <2>1 DEF Numbered
  <2> QED BY <1>0, <2>1, <2>2, <2>4, <2>5, <2>6 DEF MonInv
<1>6. ASSUME Tick PROVE MonInv'
  <2>1. now' \in 0..MaxTime /\ UNCHANGED <<monitor, faults>>
    BY <1>0, <1>6 DEF Tick, Numbered
  <2> QED BY <2>1 DEF MonInv, monitor, RunFrames, ChannelFrames, Numbered, RunOK, Sane
<1>7. ASSUME UNCHANGED vars PROVE MonInv'
  BY <1>7 DEF MonInv, vars, monitor, RunFrames, ChannelFrames, Numbered, RunOK, Sane
<1> QED BY <1>1, <1>2, <1>3, <1>4, <1>5, <1>6, <1>7 DEF Next

-----------------------------------------------------------------------------
(* What is recorded was told.                                                *)

Louder == /\ \A c \in Channels : heard[c] \subseteq heard'[c]
          /\ narrow => narrow'

\* What was told stays told.
LEMMA ToldStays ==
    ASSUME Louder, NEW some, Told(some)
    PROVE  Told(some)'
<1>1. Enabled \subseteq Channels
  BY HostAssumption
<1> QED BY <1>1 DEF Louder, Told

\* A run that does not move still tells what it would record.
LEMMA TellsStays ==
    ASSUME Louder, NEW q \in Runs, run'[q] = run[q], RunTells(q)
    PROVE  RunTells(q)'
<1>1. PICK R : R = run[q]
  OBVIOUS
<1>2. run'[q] = R
  BY <1>1
<1>3. ASSUME NEW n \in Names, R.next.issues[n] # None
      PROVE  \/ Told(Issue(n, R.next.issues[n]))'
             \/ Issue(n, R.next.issues[n]) \cap R.announce # {}
  <2>1. \/ Told(Issue(n, R.next.issues[n]))
        \/ Issue(n, R.next.issues[n]) \cap R.announce # {}
    BY <1>1, <1>3 DEF RunTells
  <2> QED BY <2>1, ToldStays
<1>4. ASSUME NEW g \in Gauges, R.next.active[g] # None
      PROVE  Told(Alarms(g))' \/ Alarms(g) \cap R.announce # {}
  <2>1. Told(Alarms(g)) \/ Alarms(g) \cap R.announce # {}
    BY <1>1, <1>4 DEF RunTells
  <2> QED BY <2>1, ToldStays
<1>5. ~R.failed /\ R.announce # {} => Delivers(q)'
  <2>1. Enabled \subseteq Channels
    BY HostAssumption
  <2> QED BY <1>1, <1>2, <2>1 DEF RunTells, Delivers, Covers, Louder
<1> QED BY <1>2, <1>3, <1>4, <1>5 DEF RunTells

\* The file stays told.
LEMMA FileStaysTold ==
    ASSUME Louder, file' = file, FileTold
    PROVE  FileTold'
<1>1. PICK F : F = file
  OBVIOUS
<1>2. file' = F
  BY <1>1
<1>3. ASSUME NEW n \in Names, F.issues[n] # None PROVE Told(Issue(n, F.issues[n]))'
  <2>1. Told(Issue(n, F.issues[n]))
    BY <1>1, <1>3 DEF FileTold
  <2> QED BY <2>1, ToldStays
<1>4. ASSUME NEW g \in Gauges, F.active[g] # None PROVE Told(Alarms(g))'
  <2>1. Told(Alarms(g))
    BY <1>1, <1>4 DEF FileTold
  <2> QED BY <2>1, ToldStays
<1> QED BY <1>2, <1>3, <1>4 DEF FileTold

\* A step of one run, which saves nothing.
LEMMA TellMoves ==
    ASSUME TellInv, Louder, file' = file, NEW p \in Runs, Others(p),
           Active(p)' => RunTells(p)'
    PROVE  TellInv'
<1>1. FileTold'
  BY FileStaysTold DEF TellInv
<1>2. ASSUME NEW q \in Runs, q # p, Active(q)' PROVE RunTells(q)'
  <2>1. Active(q) /\ run'[q] = run[q]
    BY <1>2 DEF Active, Others
  <2> QED BY <2>1, TellsStays DEF TellInv
<1> QED BY <1>1, <1>2 DEF TellInv

\* A run tells what is new to the file it loaded.
LEMMA BegunTells ==
    ASSUME TellInv, Louder, NEW p \in Runs, NEW r \in Readings, NEW channel \in ChannelFlags,
           Begins(p, channel, Delta(file, r, now))
    PROVE  RunTells(p)'
<1>1. PICK d : d = Delta(file, r, now)
  OBVIOUS
<1>2. PICK F : F = file
  OBVIOUS
<1>3. Begins(p, channel, d)
  BY <1>1
<1>4. run'[p].announce = d.announce /\ run'[p].next = d.next
  BY <1>3 DEF Begins
<1>5. ASSUME NEW n \in Names, d.next.issues[n] # None
      PROVE  \/ Told(Issue(n, d.next.issues[n]))'
             \/ Issue(n, d.next.issues[n]) \cap d.announce # {}
  <2>1. \/ d.next.issues[n] = F.issues[n]
        \/ <<<<"check", n>>, d.next.issues[n]>> \in d.announce
    BY <1>1, <1>2, <1>5, DeltaTells
  <2>2. CASE d.next.issues[n] = F.issues[n]
    <3>1. Told(Issue(n, F.issues[n]))
      BY <1>2, <1>5, <2>2 DEF TellInv, FileTold
    <3>2. Told(Issue(n, F.issues[n]))'
      BY <3>1, ToldStays
    <3> QED BY <2>2, <3>2
  <2>3. CASE <<<<"check", n>>, d.next.issues[n]>> \in d.announce
    BY <2>3 DEF Issue
  <2> QED BY <2>1, <2>2, <2>3
<1>6. ASSUME NEW g \in Gauges, d.next.active[g] # None
      PROVE  Told(Alarms(g))' \/ Alarms(g) \cap d.announce # {}
  <2>1. SaysWhatItRecords(d, F, g, now)
    BY <1>1, <1>2, DeltaSays
  <2>2. \/ \E l \in Levels : <<<<"spike", g>>, l>> \in d.announce
        \/ d.next.active[g] = F.active[g]
    BY <1>6, <2>1 DEF SaysWhatItRecords
  <2>3. CASE \E l \in Levels : <<<<"spike", g>>, l>> \in d.announce
    BY <2>3 DEF Alarms
  <2>4. CASE d.next.active[g] = F.active[g]
    <3>1. Told(Alarms(g))
      BY <1>2, <1>6, <2>4 DEF TellInv, FileTold
    <3> QED BY <3>1, ToldStays
  <2> QED BY <2>2, <2>3, <2>4
<1>7. ASSUME d.announce # {} PROVE Delivers(p)'
  <2>1. /\ run'[p].todo = Requested(channel) /\ Requested(channel) # {}
        /\ narrow' = (narrow \/ channel # "all")
    BY <1>3, <1>7 DEF Begins
  <2>2. \E c \in Enabled : c \in run'[p].todo
    BY <2>1 DEF Requested
  <2>3. narrow' \/ \A c \in Enabled : c \in run'[p].todo
    BY <2>1 DEF Requested
  <2> QED BY <2>2, <2>3 DEF Delivers, Covers
<1> QED BY <1>4, <1>5, <1>6, <1>7 DEF RunTells

\* A run that goes on tells the same; what a channel has heard it need not send again.
LEMMA WentOnTells ==
    ASSUME Louder, NEW p \in Runs, NEW c, GoesOn(p, run[p].todo \ {c}), RunTells(p),
           run'[p].failed \/ (~run[p].failed /\ run[p].announce \subseteq heard'[c])
    PROVE  RunTells(p)'
<1>1. PICK R : R = run[p]
  OBVIOUS
<1>2. /\ run'[p].announce = R.announce /\ run'[p].next = R.next
      /\ run'[p].todo = R.todo \ {c}
  BY <1>1 DEF GoesOn
<1>3. ASSUME NEW n \in Names, R.next.issues[n] # None
      PROVE  \/ Told(Issue(n, R.next.issues[n]))'
             \/ Issue(n, R.next.issues[n]) \cap R.announce # {}
  <2>1. \/ Told(Issue(n, R.next.issues[n]))
        \/ Issue(n, R.next.issues[n]) \cap R.announce # {}
    BY <1>1, <1>3 DEF RunTells
  <2> QED BY <2>1, ToldStays
<1>4. ASSUME NEW g \in Gauges, R.next.active[g] # None
      PROVE  Told(Alarms(g))' \/ Alarms(g) \cap R.announce # {}
  <2>1. Told(Alarms(g)) \/ Alarms(g) \cap R.announce # {}
    BY <1>1, <1>4 DEF RunTells
  <2> QED BY <2>1, ToldStays
<1>5. ASSUME ~run'[p].failed, R.announce # {} PROVE Delivers(p)'
  <2>1. ~R.failed /\ R.announce \subseteq heard'[c] /\ Delivers(p)
    BY <1>1, <1>5 DEF RunTells
  <2>2. Enabled \subseteq Channels
    BY HostAssumption
  <2>3. ASSUME NEW o \in Enabled, Covers(p, o) PROVE Covers(p, o)'
    <3>1. R.announce \subseteq heard[o] \/ o \in R.todo
      BY <1>1, <2>3 DEF Covers
    <3>2. heard[o] \subseteq heard'[o]
      BY <2>2 DEF Louder
    <3> QED BY <1>2, <2>1, <3>1, <3>2 DEF Covers
  <2> QED BY <2>1, <2>3 DEF Delivers, Louder
<1> QED BY <1>2, <1>3, <1>4, <1>5 DEF RunTells

\* What a run saves was told: it sent all it announced, and nothing failed.
LEMMA SavedIsTold ==
    ASSUME MonInv, TellInv, NEW p \in Runs, pc[p] = "save", file' = run[p].next,
           UNCHANGED <<heard, narrow>>
    PROVE  FileTold'
<1>1. PICK R : R = run[p]
  OBVIOUS
<1>2. R.todo = {} /\ ~R.failed /\ RunTells(p) /\ file' = R.next
  BY <1>1 DEF MonInv, RunOK, TellInv, Active
<1>3. Louder
  BY DEF Louder
<1>4. ASSUME NEW some, some \cap R.announce # {} PROVE Told(some)
  <2>1. Delivers(p)
    BY <1>1, <1>2, <1>4 DEF RunTells
  <2>2. \A c \in Enabled : Covers(p, c) => some \cap heard[c] # {}
    BY <1>1, <1>2, <1>4 DEF Covers
  <2> QED BY <2>1, <2>2 DEF Delivers, Told
<1>5. ASSUME NEW n \in Names, R.next.issues[n] # None
      PROVE  Told(Issue(n, R.next.issues[n]))'
  <2>1. Told(Issue(n, R.next.issues[n]))
    BY <1>1, <1>2, <1>4, <1>5 DEF RunTells
  <2> QED BY <1>3, <2>1, ToldStays
<1>6. ASSUME NEW g \in Gauges, R.next.active[g] # None PROVE Told(Alarms(g))'
  <2>1. Told(Alarms(g))
    BY <1>1, <1>2, <1>4, <1>6 DEF RunTells
  <2> QED BY <1>3, <2>1, ToldStays
<1> QED BY <1>2, <1>5, <1>6 DEF FileTold

\* TellInv holds at first, ...
LEMMA TellInit == Init => TellInv
<1> SUFFICES ASSUME Init PROVE TellInv
  OBVIOUS
<1>1. FileTold
  BY EmptyGood DEF Init, FileTold
<1>2. \A p \in Runs : ~Active(p)
  BY DEF Init, Active
<1> QED BY <1>1, <1>2 DEF TellInv

\* ... and every step keeps it.
LEMMA TellStep == MonInv /\ TellInv /\ [Next]_vars => TellInv'
<1> SUFFICES ASSUME MonInv, TellInv, [Next]_vars PROVE TellInv'
  OBVIOUS
<1>0. RunFrames /\ Numbered
  BY DEF MonInv
<1>1. ASSUME NEW p \in Runs, Check(p) PROVE TellInv'
  <2>1. /\ Others(p) /\ (narrow => narrow') /\ UNCHANGED <<file, heard>>
        /\ \/ Ended(p)
           \/ \E r \in Readings, channel \in ChannelFlags :
                 Begins(p, channel, Delta(file, r, now))
    BY <1>0, <1>1, CheckStep
  <2>2. Louder
    BY <2>1 DEF Louder
  <2>3. Active(p)' => RunTells(p)'
    <3>1. CASE Ended(p)
      BY <3>1 DEF Ended, Active
    <3>2. CASE \E r \in Readings, channel \in ChannelFlags :
                  Begins(p, channel, Delta(file, r, now))
      BY <2>2, <3>2, BegunTells
    <3> QED BY <2>1, <3>1, <3>2
  <2> QED BY <2>1, <2>2, <2>3, TellMoves
<1>2. ASSUME NEW p \in Runs, Deliver(p) PROVE TellInv'
  <2>1. pc[p] = "send" /\ Others(p) /\ UNCHANGED <<file, narrow>>
    BY <1>2, DeliverStep
  <2>2. PICK c \in run[p].todo :
           /\ c \in Enabled /\ c \in Channels /\ Hears(p, c)
           /\ \/ Ended(p) /\ run[p].failed
              \/ GoesOn(p, run[p].todo \ {c}) /\ run'[p].failed = run[p].failed
    BY <1>2, DeliverStep
  <2>3. Louder /\ run[p].announce \subseteq heard'[c]
    BY <2>1, <2>2 DEF Louder, Hears
  <2>4. Active(p)' => RunTells(p)'
    <3>1. CASE Ended(p)
      BY <3>1 DEF Ended, Active
    <3>2. CASE GoesOn(p, run[p].todo \ {c}) /\ run'[p].failed = run[p].failed
      <4>1. RunTells(p)
        BY <2>1 DEF TellInv, Active
      <4>2. run'[p].failed \/ ~run[p].failed
        BY <3>2
      <4> QED BY <2>3, <3>2, <4>1, <4>2, WentOnTells
    <3> QED BY <2>2, <3>1, <3>2
  <2> QED BY <2>1, <2>3, <2>4, TellMoves
<1>3. ASSUME NEW p \in Runs, Undelivered(p) PROVE TellInv'
  <2>1. /\ pc[p] = "send" /\ Others(p) /\ UNCHANGED <<file, heard, narrow>>
        /\ \/ Ended(p)
           \/ \E c \in run[p].todo :
                 GoesOn(p, run[p].todo \ {c}) /\ run'[p].failed = TRUE
    BY <1>3, UndeliveredStep
  <2>2. Louder
    BY <2>1 DEF Louder
  <2>3. Active(p)' => RunTells(p)'
    <3>1. CASE Ended(p)
      BY <3>1 DEF Ended, Active
    <3>2. CASE \E c \in run[p].todo :
                  GoesOn(p, run[p].todo \ {c}) /\ run'[p].failed = TRUE
      <4>1. RunTells(p)
        BY <2>1 DEF TellInv, Active
      <4>2. PICK c \in run[p].todo : GoesOn(p, run[p].todo \ {c}) /\ run'[p].failed
        BY <3>2
      <4> QED BY <2>2, <4>1, <4>2, WentOnTells
    <3> QED BY <2>1, <3>1, <3>2
  <2> QED BY <2>1, <2>2, <2>3, TellMoves
<1>4. ASSUME NEW p \in Runs, Save(p) PROVE TellInv'
  <2>1. pc[p] = "save" /\ file' = run[p].next /\ End(p) /\ UNCHANGED <<heard, narrow>>
    BY <1>4 DEF Save
  <2>2. Others(p) /\ Ended(p)
    BY <1>0, <2>1, EndStep
  <2>3. FileTold' /\ Louder
    BY <2>1, SavedIsTold DEF Louder
  <2>4. ASSUME NEW q \in Runs, Active(q)' PROVE RunTells(q)'
    <3>1. q # p
      BY <2>2, <2>4 DEF Ended, Active
    <3>2. Active(q) /\ run'[q] = run[q]
      BY <2>2, <2>4, <3>1 DEF Active, Others
    <3> QED BY <2>3, <3>2, TellsStays DEF TellInv
  <2> QED BY <2>3, <2>4 DEF TellInv
<1>5. ASSUME NEW p \in Runs, Abort(p) PROVE TellInv'
  <2>1. End(p) /\ UNCHANGED <<file, heard, narrow>>
    BY <1>5 DEF Abort
  <2>2. Others(p) /\ Ended(p)
    BY <1>0, <2>1, EndStep
  <2>3. Louder /\ ~Active(p)'
    BY <2>1, <2>2 DEF Louder, Ended, Active
  <2> QED BY <2>1, <2>2, <2>3, TellMoves
<1>6. ASSUME UNCHANGED <<file, pc, run, heard, narrow>> PROVE TellInv'
  BY <1>6 DEF TellInv, FileTold, RunTells, Active, Told, Delivers, Covers
<1>7. ASSUME Tick PROVE TellInv'
  BY <1>6, <1>7 DEF Tick, monitor
<1>8. ASSUME UNCHANGED vars PROVE TellInv'
  BY <1>6, <1>8 DEF vars, monitor
<1> QED BY <1>1, <1>2, <1>3, <1>4, <1>5, <1>7, <1>8 DEF Next

-----------------------------------------------------------------------------
(* One run at a time.                                                        *)

\* A run that moves and saves nothing is still alone, and started from the file.
LEMMA AloneMoves ==
    ASSUME NEW p \in Runs, NEW rest, OneRun, Active(p), Others(p), GoesOn(p, rest),
           file' = file, overlap' = overlap
    PROVE  OneRun'
<1>1. SUFFICES ASSUME ~overlap, NEW q \in Runs, Active(q)' PROVE Alone(q)'
  BY DEF OneRun
<1>2. Alone(p)
  BY <1>1 DEF OneRun
<1>3. \A o \in Runs : Active(o)' => o = p
  BY <1>2 DEF Alone, Active, Others
<1>4. PICK r \in Readings :
         /\ run[p].announce = Delta(file, r, run[p].at).announce
         /\ run[p].resolve = Delta(file, r, run[p].at).resolve
         /\ run[p].next = Delta(file, r, run[p].at).next
  BY <1>2 DEF Alone, FromFile
<1>5. /\ run'[p].announce = run[p].announce /\ run'[p].resolve = run[p].resolve
      /\ run'[p].next = run[p].next /\ run'[p].at = run[p].at
  BY DEF GoesOn
<1>6. FromFile(p)'
  BY <1>4, <1>5 DEF FromFile
<1>7. run'[p].at \in 0..MaxTime
  BY <1>2, <1>5 DEF Alone
<1> QED BY <1>1, <1>3, <1>6, <1>7 DEF Alone

\* A run that ends leaves nobody under way.
LEMMA AloneEnds ==
    ASSUME NEW p \in Runs, OneRun, Active(p), Others(p), Ended(p), overlap' = overlap
    PROVE  OneRun' /\ (~overlap => \A q \in Runs : ~Active(q)')
<1>1. ASSUME ~overlap, NEW q \in Runs PROVE ~Active(q)'
  <2>1. CASE q = p
    BY <2>1 DEF Ended, Active
  <2>2. CASE q # p
    BY <1>1, <2>2 DEF OneRun, Alone, Active, Others
  <2> QED BY <2>1, <2>2
<1> QED BY <1>1 DEF OneRun

\* Every step keeps OneRun.
LEMMA OneStep == MonInv /\ OneRun /\ [Next]_vars => OneRun'
<1> SUFFICES ASSUME MonInv, OneRun, [Next]_vars PROVE OneRun'
  OBVIOUS
<1>0. RunFrames /\ Numbered
  BY DEF MonInv
<1>1. ASSUME NEW p \in Runs, Check(p) PROVE OneRun'
  <2>1. /\ Others(p) /\ UNCHANGED <<now, file>>
        /\ overlap' = (overlap \/ \E q \in Runs : pc[q] # "idle")
        /\ \/ Ended(p)
           \/ \E r \in Readings, channel \in ChannelFlags :
                 Begins(p, channel, Delta(file, r, now))
    BY <1>0, <1>1, CheckStep
  <2>2. SUFFICES ASSUME ~overlap', NEW q \in Runs, Active(q)' PROVE Alone(q)'
    BY DEF OneRun
  <2>3. \A o \in Runs : pc[o] = "idle"
    BY <2>1, <2>2
  <2>4. \A o \in Runs : Active(o)' => o = p
    BY <2>1, <2>3 DEF Others, Active
  <2>5. PICK r \in Readings, channel \in ChannelFlags : Begins(p, channel, Delta(file, r, now))
    BY <2>1, <2>2, <2>4 DEF Ended, Active
  <2>6. /\ run'[p].at = now
        /\ run'[p].announce = Delta(file, r, now).announce
        /\ run'[p].resolve = Delta(file, r, now).resolve
        /\ run'[p].next = Delta(file, r, now).next
    BY <2>5 DEF Begins
  <2>7. FromFile(p)'
    BY <2>1, <2>6 DEF FromFile
  <2>8. run'[p].at \in 0..MaxTime
    BY <1>0, <2>6 DEF Numbered
  <2> QED BY <2>2, <2>4, <2>7, <2>8 DEF Alone
<1>2. ASSUME NEW p \in Runs, Deliver(p) PROVE OneRun'
  <2>1. pc[p] = "send" /\ Others(p) /\ UNCHANGED <<file, overlap>>
    BY <1>2, DeliverStep
  <2>2. PICK c : Ended(p) \/ GoesOn(p, run[p].todo \ {c})
    BY <1>2, DeliverStep
  <2> QED BY <2>1, <2>2, AloneMoves, AloneEnds DEF Active
<1>3. ASSUME NEW p \in Runs, Undelivered(p) PROVE OneRun'
  <2>1. pc[p] = "send" /\ Others(p) /\ UNCHANGED <<file, overlap>>
    BY <1>3, UndeliveredStep
  <2>2. PICK c : Ended(p) \/ GoesOn(p, run[p].todo \ {c})
    BY <1>3, UndeliveredStep
  <2> QED BY <2>1, <2>2, AloneMoves, AloneEnds DEF Active
<1>4. ASSUME NEW p \in Runs, Save(p) \/ Abort(p) PROVE OneRun'
  <2>1. pc[p] \in {"send", "save"} /\ End(p) /\ overlap' = overlap
    BY <1>4 DEF Save, Abort
  <2>2. Others(p) /\ Ended(p) /\ Active(p)
    BY <1>0, <2>1, EndStep DEF Active
  <2> QED BY <2>1, <2>2, AloneEnds
<1>5. ASSUME UNCHANGED <<file, pc, run, overlap>> PROVE OneRun'
  BY <1>5 DEF OneRun, Alone, Active, FromFile
<1>6. ASSUME Tick \/ UNCHANGED vars PROVE OneRun'
  BY <1>5, <1>6 DEF Tick, monitor, vars
<1> QED BY <1>1, <1>2, <1>3, <1>4, <1>6 DEF Next

-----------------------------------------------------------------------------
(* What channels show as open.                                               *)

\* A delivery brings the channel in step with what the run will save.
LEMMA InStepMoves ==
    ASSUME NEW p \in Runs, NEW c \in Channels, NEW g \in Gauges, Hears(p, c), FromFile(p),
           run[p].at # None, InStep(c, g, file.active[g])
    PROVE  LET a == run[p].next.active[g] IN
           /\ <<"spike", g>> \in open'[c] <=> a # None
           /\ a # None => alerted'[c][g] = a
<1>1. PICK r \in Readings :
         /\ run[p].announce = Delta(file, r, run[p].at).announce
         /\ run[p].resolve = Delta(file, r, run[p].at).resolve
         /\ run[p].next = Delta(file, r, run[p].at).next
  BY DEF FromFile
<1>2. SaysWhatItRecords(Delta(file, r, run[p].at), file, g, run[p].at)
  BY DeltaSays
<1>3. /\ open'[c] = (open[c] \cup Subject(run[p].announce)) \ run[p].resolve
      /\ alerted'[c][g] =
            IF <<"spike", g>> \in Subject(run[p].announce) THEN run[p].at ELSE alerted[c][g]
  BY DEF Hears
<1> QED BY <1>1, <1>2, <1>3 DEF SaysWhatItRecords, InStep

\* Every step keeps Sync.
LEMMA SyncStep == MonInv /\ OneRun /\ Sync /\ [Next]_vars => Sync'
<1> SUFFICES ASSUME MonInv, OneRun, Sync, [Next]_vars, Calm',
                    NEW c \in Enabled, NEW g \in Gauges
             PROVE  /\ \A p \in Runs : Ahead(c, p)' => InStep(c, g, run[p].next.active[g])'
                    /\ (\A p \in Runs : ~Ahead(c, p)') => InStep(c, g, file.active[g])'
  BY DEF Sync
<1>0. /\ RunFrames /\ Numbered /\ c \in Channels /\ None \notin Nat
      /\ faults \in Nat
  BY HostAssumption DEF MonInv, Numbered
<1>1. ASSUME Calm
      PROVE  /\ \A p \in Runs : Ahead(c, p) => InStep(c, g, run[p].next.active[g])
             /\ (\A p \in Runs : ~Ahead(c, p)) => InStep(c, g, file.active[g])
  BY <1>1 DEF Sync
<1>2. CASE \E p \in Runs : Check(p)
  <2>1. PICK p \in Runs : Check(p)
    BY <1>2
  <2>2. /\ Others(p) /\ (narrow => narrow')
        /\ overlap' = (overlap \/ \E q \in Runs : pc[q] # "idle")
        /\ UNCHANGED <<now, file, heard, open, alerted, faults>>
        /\ \/ Ended(p)
           \/ \E r \in Readings, channel \in ChannelFlags :
                 Begins(p, channel, Delta(file, r, now))
    BY <1>0, <2>1, CheckStep
  <2>3. Calm /\ \A q \in Runs : ~Active(q)
    BY <2>2 DEF Calm, Active
  <2>4. InStep(c, g, file.active[g])
    BY <1>1, <2>3 DEF Ahead
  <2>5. InStep(c, g, file.active[g])'
    BY <2>2, <2>4 DEF InStep
  <2>6. ASSUME NEW q \in Runs, Ahead(c, q)' PROVE InStep(c, g, run[q].next.active[g])'
    <3>1. q = p
      BY <2>2, <2>3, <2>6 DEF Ahead, Active, Others
    <3>2. PICK r \in Readings, channel \in ChannelFlags :
             Begins(p, channel, Delta(file, r, now))
      BY <2>2, <2>6, <3>1 DEF Ended, Ahead, Active
    <3>3. PICK d : d = Delta(file, r, now)
      OBVIOUS
    <3>4. Begins(p, channel, d)
      BY <3>2, <3>3
    <3>5. d.announce = {} /\ d.resolve = {}
      <4>1. CASE run'[p].todo = Requested(channel) /\ narrow' = (narrow \/ channel # "all")
        <5>1. channel = "all"
          BY <4>1 DEF Calm
        <5>2. c \in run'[p].todo
          BY <4>1, <5>1 DEF Requested
        <5> QED BY <2>6, <3>1, <5>2 DEF Ahead
      <4> QED BY <3>4, <4>1 DEF Begins
    <3>6. d.next.active[g] = file.active[g]
      <4>1. SaysWhatItRecords(d, file, g, now)
        BY <3>3, DeltaSays
      <4> QED BY <3>5, <4>1 DEF SaysWhatItRecords
    <3>7. run'[p].next = d.next
      BY <3>4 DEF Begins
    <3> QED BY <2>2, <2>5, <3>1, <3>6, <3>7 DEF InStep
  <2> QED BY <2>5, <2>6
<1>3. CASE \E p \in Runs : Deliver(p)
  <2>1. PICK p \in Runs : Deliver(p)
    BY <1>3
  <2>2. /\ pc[p] = "send" /\ Others(p) /\ UNCHANGED <<file, overlap, narrow, faults>>
    BY <2>1, DeliverStep
  <2>3. PICK o \in run[p].todo :
           /\ o \in Enabled /\ o \in Channels /\ Hears(p, o)
           /\ \/ Ended(p) /\ run[p].failed
              \/ GoesOn(p, run[p].todo \ {o}) /\ run'[p].failed = run[p].failed
    BY <2>1, DeliverStep
  <2>4. Calm /\ ~overlap
    BY <2>2 DEF Calm
  <2>5. Alone(p)
    BY <2>2, <2>4 DEF OneRun, Active
  <2>6. GoesOn(p, run[p].todo \ {o})
    BY <2>3, <2>4 DEF Calm, MonInv, RunOK
  <2>7. /\ run'[p].todo = run[p].todo \ {o} /\ run'[p].next = run[p].next
        /\ Active(p) /\ Active(p)'
    BY <2>2, <2>6 DEF GoesOn, Active
  <2>8. \A q \in Runs : (Active(q) => q = p) /\ (Active(q)' => q = p)
    BY <2>2, <2>5 DEF Alone, Active, Others
  <2>9. CASE c = o
    <3>1. InStep(c, g, file.active[g])
      BY <1>1, <2>3, <2>4, <2>8, <2>9 DEF Ahead
    <3>2. run[p].at # None
      BY <1>0, <2>5 DEF Alone
    <3>3. InStep(c, g, run[p].next.active[g])'
      BY <2>3, <2>5, <2>7, <2>9, <3>1, <3>2, InStepMoves DEF Alone, InStep
    <3>4. Ahead(c, p)'
      BY <2>7, <2>9 DEF Ahead
    <3> QED BY <2>8, <3>3, <3>4 DEF Ahead
  <2>10. CASE c # o
    <3>1. open'[c] = open[c] /\ alerted'[c] = alerted[c]
      BY <1>0, <2>3, <2>10 DEF Hears
    <3>2. Ahead(c, p)' <=> Ahead(c, p)
      BY <2>7, <2>10 DEF Ahead
    <3>3. CASE Ahead(c, p)
      <4>1. InStep(c, g, run[p].next.active[g])
        BY <1>1, <2>4, <3>3
      <4>2. InStep(c, g, run[p].next.active[g])'
        BY <2>7, <3>1, <4>1 DEF InStep
      <4> QED BY <2>8, <3>2, <3>3, <4>2 DEF Ahead
    <3>4. CASE ~Ahead(c, p)
      <4>1. InStep(c, g, file.active[g])
        BY <1>1, <2>4, <2>8, <3>4 DEF Ahead
      <4>2. InStep(c, g, file.active[g])'
        BY <2>2, <3>1, <4>1 DEF InStep
      <4> QED BY <2>8, <3>2, <3>4, <4>2 DEF Ahead
    <3> QED BY <3>3, <3>4
  <2> QED BY <2>9, <2>10
<1>4. CASE \E p \in Runs : Undelivered(p) \/ Abort(p)
  <2>1. faults' = faults + 1
    BY <1>4 DEF Undelivered, Abort
  <2> QED BY <1>0, <2>1 DEF Calm
<1>5. CASE \E p \in Runs : Save(p)
  <2>1. PICK p \in Runs : Save(p)
    BY <1>5
  <2>2. /\ pc[p] = "save" /\ file' = run[p].next /\ End(p)
        /\ UNCHANGED <<open, alerted, overlap, narrow, faults>>
    BY <2>1 DEF Save
  <2>3. Others(p) /\ Ended(p) /\ Active(p) /\ Calm
    BY <1>0, <2>2, EndStep DEF Active, Calm
  <2>4. \A q \in Runs : ~Active(q)'
    BY <2>2, <2>3, AloneEnds DEF Calm
  <2>5. Ahead(c, p)
    BY <2>2, <2>3 DEF Ahead, MonInv, RunOK
  <2>6. InStep(c, g, run[p].next.active[g])
    BY <1>1, <2>3, <2>5
  <2>7. InStep(c, g, file.active[g])'
    BY <2>2, <2>6 DEF InStep
  <2> QED BY <2>4, <2>7 DEF Ahead
<1>6. CASE UNCHANGED <<file, pc, run, open, alerted, overlap, narrow, faults>>
  <2>1. Calm
    BY <1>6 DEF Calm
  <2> QED BY <1>1, <1>6, <2>1 DEF Ahead, Active, InStep
<1>7. CASE Tick \/ UNCHANGED vars
  BY <1>6, <1>7 DEF Tick, monitor, vars
<1> QED BY <1>2, <1>3, <1>4, <1>5, <1>7 DEF Next

-----------------------------------------------------------------------------
(* The theorems.                                                             *)

\* The invariant holds in every state.
THEOREM AlertInvariant == Spec => []AlertInv
<1>1. Init => AlertInv
  <2> SUFFICES ASSUME Init PROVE AlertInv
    OBVIOUS
  <2>1. \A p \in Runs : ~Active(p)
    BY DEF Init, Active
  <2>2. ASSUME NEW c \in Enabled, NEW g \in Gauges PROVE InStep(c, g, file.active[g])
    <3>1. c \in Channels /\ file = EmptyState
      BY HostAssumption DEF Init
    <3>2. open[c] = {}
      BY <3>1 DEF Init
    <3> QED BY <3>1, <3>2, EmptyGood DEF InStep
  <2>3. OneRun /\ Sync
    BY <2>1, <2>2 DEF OneRun, Sync, Ahead
  <2> QED BY <2>3, MonInit, TellInit DEF AlertInv
<1>2. AlertInv /\ [Next]_vars => AlertInv'
  BY MonStep, TellStep, OneStep, SyncStep DEF AlertInv
<1> QED BY <1>1, <1>2, PTL DEF Spec

\* Types, and a state file that stays bounded however many checks are run
\* (SaveMonitorState, EvaluateResourceSpikes).
THEOREM TypeCorrect == Spec => []TypeOK
<1>1. AlertInv => TypeOK
  <2> SUFFICES ASSUME AlertInv PROVE TypeOK
    OBVIOUS
  <2>1. MonInv /\ Numbered /\ runs \in 0..MaxRuns /\ MaxRuns \in Nat
    BY HostAssumption DEF AlertInv, MonInv, Numbered
  <2>2. ASSUME NEW s, Sane(s, runs) PROVE States(s)
    BY <2>1, <2>2 DEF Sane, Good, Shape, States, Kept
  <2>3. Sane(file, runs) /\ \A p \in Runs : Sane(run[p].next, runs)
    BY <2>1 DEF MonInv, RunOK
  <2>4. States(file) /\ \A p \in Runs : States(run[p].next)
    BY <2>2, <2>3
  <2>5. pc \in [Runs -> {"idle", "send", "save"}] /\ \A c \in Channels : open[c] \subseteq Subjects
    BY <2>1 DEF MonInv, RunFrames, ChannelFrames
  <2> QED BY <2>1, <2>4, <2>5 DEF TypeOK, Numbered
<1> QED BY <1>1, AlertInvariant, PTL

\* Nothing is recorded as known that nobody was told of, whatever fails, dies or
\* overlaps (`alert check`: the state is saved after Send returned no error).
THEOREM TellsBeforeItRecords == Spec => []RecordedIsTold
<1>1. AlertInv => RecordedIsTold
  <2> SUFFICES ASSUME AlertInv PROVE RecordedIsTold
    OBVIOUS
  <2>1. FileTold
    BY DEF AlertInv, TellInv
  <2> QED BY <2>1 DEF FileTold, Told, Issue, Alarms, RecordedIsTold
<1> QED BY <1>1, AlertInvariant, PTL

\* A recorded spike has lasted, and a channel is not told of it again before it is
\* over or the cooldown has passed (EvaluateResourceSpikes).
THEOREM SpikesAreWarranted == Spec => SpikeIsWarranted
<1>1. AlertInv /\ AlertInv' /\ [Next]_vars =>
         [ /\ Sustained(file')
           /\ faults' = 0 /\ ~overlap' /\ ~narrow' => \A c \in Channels, g \in Gauges :
                <<"spike", g>> \in open[c] /\ alerted'[c][g] # alerted[c][g] =>
                    alerted'[c][g] - alerted[c][g] >= Cooldown ]_vars
  <2> SUFFICES ASSUME AlertInv, AlertInv', [Next]_vars
               PROVE  /\ Sustained(file')
                      /\ faults' = 0 /\ ~overlap' /\ ~narrow' =>
                            \A c \in Channels, g \in Gauges :
                               <<"spike", g>> \in open[c] /\ alerted'[c][g] # alerted[c][g] =>
                                   alerted'[c][g] - alerted[c][g] >= Cooldown
    OBVIOUS
  <2>1. Sustained(file')
    BY DEF AlertInv, MonInv, Sane, Good
  <2>2. ASSUME faults' = 0, ~overlap', ~narrow', NEW c \in Channels, NEW g \in Gauges,
               <<"spike", g>> \in open[c], alerted'[c][g] # alerted[c][g]
        PROVE  alerted'[c][g] - alerted[c][g] >= Cooldown
    <3>1. PICK p \in Runs : Deliver(p)
      BY <2>2 DEF Next, Check, Undelivered, Save, Abort, Tick, monitor, vars
    <3>2. MonInv /\ OneRun /\ Sync
      BY DEF AlertInv
    <3>3. PICK o \in run[p].todo : o \in Enabled /\ o \in Channels /\ Hears(p, o)
      BY <3>1, <3>2, DeliverStep
    <3>4. pc[p] = "send" /\ UNCHANGED <<overlap, narrow, faults>>
      BY <3>1, <3>2, DeliverStep
    <3>5. c = o
      BY <2>2, <3>3 DEF Hears
    <3>6. Calm /\ Alone(p)
      BY <2>2, <3>2, <3>4 DEF Calm, OneRun, Active
    <3>7. InStep(c, g, file.active[g])
      BY <3>2, <3>3, <3>5, <3>6 DEF Sync, Ahead, Alone
    <3>8. file.active[g] # None /\ alerted[c][g] = file.active[g]
      BY <2>2, <3>7 DEF InStep
    <3>9. PICK r \in Readings : run[p].announce = Delta(file, r, run[p].at).announce
      BY <3>6 DEF Alone, FromFile
    <3>10. alerted'[c][g] =
              IF <<"spike", g>> \in Subject(run[p].announce) THEN run[p].at ELSE alerted[c][g]
      BY <3>3, <3>5 DEF Hears
    <3>11. <<"spike", g>> \in Subject(run[p].announce) /\ alerted'[c][g] = run[p].at
      BY <2>2, <3>10
    <3>12. SaysWhatItRecords(Delta(file, r, run[p].at), file, g, run[p].at)
      BY DeltaSays
    <3>13. run[p].at - file.active[g] >= Cooldown
      BY <3>8, <3>9, <3>11, <3>12 DEF SaysWhatItRecords
    <3> QED BY <3>8, <3>11, <3>13
  <2> QED BY <2>1, <2>2
<1> QED BY <1>1, AlertInvariant, PTL DEF Spec, SpikeIsWarranted

\* A run of breaches leaves the baseline it is measured against as it is, as long as
\* no two runs write the file over each other (EvaluateResourceSpikes).
THEOREM BaselineIsKept == Spec => SpikesStayOutOfBaseline
<1>1. AlertInv /\ [Next]_vars =>
         [ ~overlap' => \A g \in Gauges :
              file'.breaches[g] > file.breaches[g] =>
                  file'.baselines[g] = file.baselines[g] ]_vars
  <2> SUFFICES ASSUME AlertInv, [Next]_vars, ~overlap', NEW g \in Gauges,
                      file'.breaches[g] > file.breaches[g]
               PROVE  file'.baselines[g] = file.baselines[g]
    OBVIOUS
  <2>1. CASE file' = file
    BY <2>1
  <2>2. CASE file' # file
    <3>1. PICK p \in Runs : Save(p)
      BY <2>2 DEF Next, Check, Deliver, Undelivered, Abort, Tick, monitor, vars
    <3>2. pc[p] = "save" /\ file' = run[p].next /\ overlap' = overlap
      BY <3>1 DEF Save
    <3>3. Alone(p)
      BY <3>2 DEF AlertInv, OneRun, Active
    <3>4. PICK r \in Readings : run[p].next = Delta(file, r, run[p].at).next
      BY <3>3 DEF Alone, FromFile
    <3>5. Good(file) /\ run[p].at \in 0..MaxTime
      BY <3>3 DEF AlertInv, MonInv, Sane, Alone
    <3> QED BY <3>2, <3>4, <3>5, DeltaGood
  <2> QED BY <2>1, <2>2
<1> QED BY <1>1, AlertInvariant, PTL DEF Spec, SpikesStayOutOfBaseline

=============================================================================
