--------------------------- MODULE Collector_proofs ---------------------------
(* Theorems about the collector: its gate (IngestGate) and its correlation      *)
(* buffers (ToolCorrelation). They share the lemmas on buffers from which        *)
(* entries are taken out (Buffers).                                             *)
EXTENDS IngestGate, ToolCorrelation, FiniteSetTheorems, SequenceTheorems, TLAPS

(* ---- what is left of a buffer ------------------------------------------------ *)

\* The entries that are kept are counted from 1 on, each under one number.
LEMMA NthKept ==
  ASSUME NEW len \in Nat, NEW places \in SUBSET (1 .. len)
  PROVE  /\ Cardinality(places) \in Nat
         /\ \A n \in 1 .. Cardinality(places) : Nth(places, n) \in places
         /\ \A i \in places : \E n \in 1 .. Cardinality(places) : Nth(places, n) = i
         /\ \A n, m \in 1 .. Cardinality(places) : Nth(places, n) = Nth(places, m) => n = m
<1> DEFINE size == Cardinality(places)
           upTo(i) == {j \in places : j <= i}
           rank == [i \in places |-> Cardinality(upTo(i))]
<1>1. IsFiniteSet(places) /\ size \in Nat
  <2>1. IsFiniteSet(1 .. len)
    BY FS_Interval
  <2> QED
    BY <2>1, FS_Subset, FS_CardinalityType
<1>2. \A i \in places : /\ IsFiniteSet(upTo(i)) /\ upTo(i) \subseteq places /\ i \in upTo(i)
                        /\ Cardinality(upTo(i)) \in 1 .. size
  <2> SUFFICES ASSUME NEW i \in places
               PROVE  /\ IsFiniteSet(upTo(i)) /\ upTo(i) \subseteq places /\ i \in upTo(i)
                      /\ Cardinality(upTo(i)) \in 1 .. size
    OBVIOUS
  <2>1. upTo(i) \subseteq places /\ i \in upTo(i)
    OBVIOUS
  <2>2. IsFiniteSet(upTo(i)) /\ Cardinality(upTo(i)) <= size
    BY <1>1, <2>1, FS_Subset
  <2>3. Cardinality(upTo(i)) \in Nat /\ Cardinality(upTo(i)) # 0
    BY <2>1, <2>2, FS_CardinalityType, FS_EmptySet
  <2> QED
    BY <1>1, <2>1, <2>2, <2>3
<1>3. \A i, j \in places : i < j => Cardinality(upTo(i)) < Cardinality(upTo(j))
  <2> SUFFICES ASSUME NEW i \in places, NEW j \in places, i < j
               PROVE  Cardinality(upTo(i)) < Cardinality(upTo(j))
    OBVIOUS
  <2>1. /\ \A x \in upTo(i) : x \in upTo(j)
        /\ j \in upTo(j) /\ j \notin upTo(i)
    <3>1. \A x \in places : x \in Nat
      OBVIOUS
    <3> QED
      BY <3>1
  <2>2. upTo(i) # upTo(j)
    BY <2>1
  <2>3. /\ Cardinality(upTo(i)) <= Cardinality(upTo(j))
        /\ Cardinality(upTo(i)) # Cardinality(upTo(j))
    BY <1>2, <2>1, <2>2, FS_Subset
  <2> QED
    BY <1>2, <2>3
<1>4. \A i, j \in places : rank[i] = rank[j] => i = j
  BY <1>2, <1>3
<1>5. rank \in Injection(places, 1 .. size)
  BY <1>2, <1>4 DEF Injection, IsInjective
<1>6. rank \in Surjection(places, 1 .. size)
  <2>1. IsFiniteSet(1 .. size) /\ Cardinality(1 .. size) = size
    BY <1>1, FS_Interval
  <2> QED
    BY <1>5, <2>1, FS_Injection
<1>7. \A n \in 1 .. size : Nth(places, n) \in places /\ rank[Nth(places, n)] = n
  BY <1>6 DEF Surjection, Nth
<1> QED
  BY <1>1, <1>2, <1>4, <1>7

\* What is kept was there, at a place that was to be kept, and everything at such a
\* place is kept once.
LEMMA KeptEntries ==
  ASSUME NEW S, NEW buffer \in Seq(S), NEW places \in SUBSET DOMAIN buffer
  PROVE  /\ Kept(buffer, places) \in Seq(S)
         /\ \A n \in DOMAIN Kept(buffer, places) :
              \E i \in places : Kept(buffer, places)[n] = buffer[i]
         /\ \A i \in places :
              \E n \in DOMAIN Kept(buffer, places) : Kept(buffer, places)[n] = buffer[i]
         /\ \A n, m \in DOMAIN Kept(buffer, places) : n # m =>
              \E i, j \in places : /\ i # j /\ Kept(buffer, places)[n] = buffer[i]
                                   /\ Kept(buffer, places)[m] = buffer[j]
<1> DEFINE left == Kept(buffer, places)
           size == Cardinality(places)
<1>1. Len(buffer) \in Nat /\ places \in SUBSET (1 .. Len(buffer))
  OBVIOUS
<1>2. /\ size \in Nat
      /\ \A n \in 1 .. size : Nth(places, n) \in places
      /\ \A i \in places : \E n \in 1 .. size : Nth(places, n) = i
      /\ \A n, m \in 1 .. size : Nth(places, n) = Nth(places, m) => n = m
  BY <1>1, NthKept
<1>3. \A i \in places : buffer[i] \in S
  BY <1>1
<1>4. DOMAIN left = 1 .. size /\ \A n \in 1 .. size : left[n] = buffer[Nth(places, n)]
  BY DEF Kept
<1>5. left \in [1 .. size -> S]
  BY <1>2, <1>3 DEF Kept
<1>6. left \in Seq(S)
  BY <1>2, <1>5, IsASeq DEF Kept
<1> QED
  BY <1>2, <1>4, <1>6
(* ---- the rate window --------------------------------------------------------- *)

\* A set of natural numbers that is not empty has a least element.
LEMMA LeastElement ==
  ASSUME NEW T \in SUBSET Nat, T # {}
  PROVE  \E x \in T : \A y \in T : x <= y
<1> DEFINE R == OpToRel(<, Nat)
<1>1. IsWellFoundedOn(R, Nat)
  BY NatLessThanWellFounded
<1>2. PICK x \in T : \A y \in T : ~(<<y, x>> \in R)
  BY <1>1, WFMin, Zenon
<1>3. \A y \in T : ~(y < x)
  BY <1>2 DEF OpToRel
<1> QED
  BY <1>3

\* Popping drops times out of the window only, from the oldest end.
LEMMA PoppedTimes ==
  ASSUME NEW times \in Seq(Nat), gateClock \in Nat, GateAssumption
  PROVE  /\ Popped(times) \in Seq(Nat)
         /\ \A j \in Nat :
              j < Len(times) /\ InWindow(times[Len(times) - j]) =>
                /\ j < Len(Popped(times))
                /\ Popped(times)[Len(Popped(times)) - j] = times[Len(times) - j]
<1> DEFINE Prefix(n) == /\ \A i \in 1 .. n : ~InWindow(times[i])
                        /\ n < Len(times) => InWindow(times[n + 1])
           T == {i \in 1 .. Len(times) : InWindow(times[i])}
<1>1. \E n \in 0 .. Len(times) : Prefix(n)
  <2>1. CASE T = {}
    <3>1. Len(times) \in Nat /\ ~(Len(times) < Len(times))
      OBVIOUS
    <3>2. \A i \in 1 .. Len(times) : ~InWindow(times[i])
      BY <2>1
    <3>3. Len(times) \in 0 .. Len(times)
      BY <3>1
    <3> QED
      BY <3>1, <3>2, <3>3
  <2>2. CASE T # {}
    <3>1. PICK x \in T : \A y \in T : x <= y
      <4>1. T \in SUBSET Nat
        OBVIOUS
      <4> HIDE DEF T
      <4> QED
        BY <2>2, <4>1, LeastElement
    <3>2. x \in 1 .. Len(times) /\ InWindow(times[x])
      BY <3>1
    <3>3. \A i \in 1 .. x - 1 : i \in 1 .. Len(times) /\ i < x
      BY <3>2
    <3>4. \A i \in 1 .. x - 1 : ~InWindow(times[i])
      BY <3>1, <3>2, <3>3
    <3>5. x - 1 \in 0 .. Len(times) /\ x - 1 + 1 = x
      BY <3>2
    <3>6. Prefix(x - 1)
      BY <3>2, <3>4, <3>5
    <3> QED
      BY <3>5, <3>6
  <2> QED
    BY <2>1, <2>2
<1>2. PICK n \in 0 .. Len(times) :
        Prefix(n) /\ Popped(times) = SubSeq(times, n + 1, Len(times))
  <2> DEFINE m == CHOOSE n \in 0 .. Len(times) : Prefix(n)
  <2>1. m \in 0 .. Len(times) /\ Prefix(m)
    BY <1>1
  <2>2. Popped(times) = SubSeq(times, m + 1, Len(times))
    BY DEF Popped
  <2> QED
    BY <2>1, <2>2
<1>3. Len(times) \in Nat /\ \A i \in 1 .. Len(times) : times[i] \in Nat
  OBVIOUS
<1>4. /\ Popped(times) \in Seq(Nat)
      /\ Len(Popped(times)) = Len(times) - n
      /\ \A i \in 1 .. Len(times) - n : Popped(times)[i] = times[n + i]
  <2>1. n + 1 \in 1 .. Len(times) + 1 /\ Len(times) \in n .. Len(times)
    BY <1>3
  <2> QED
    BY <1>2, <1>3, <2>1, SubSeqProperties
<1>5. ASSUME NEW j \in Nat, j < Len(times), InWindow(times[Len(times) - j])
      PROVE  /\ j < Len(Popped(times))
             /\ Popped(times)[Len(Popped(times)) - j] = times[Len(times) - j]
  <2>1. Len(times) - j \in 1 .. Len(times) /\ ~(Len(times) - j \in 1 .. n)
    BY <1>2, <1>3, <1>5
  <2>2. j < Len(times) - n /\ Len(times) - n - j \in 1 .. Len(times) - n
    BY <1>3, <2>1
  <2>3. n + (Len(times) - n - j) = Len(times) - j
    BY <1>3
  <2> QED
    BY <1>4, <2>2, <2>3
<1> QED
  BY <1>4, <1>5

\* Entries of the cache, and what the table holds of a key.
CacheEntries == [token : Tokens, until : Nat]
Times(key) == IF key \in DOMAIN rateState THEN rateState[key] ELSE <<>>

\* Of the last passes of a key, those within the window are the last times of the
\* table, and passes are in the order of the clock.
StillThere(passes, times) ==
  \A j \in Nat : j < Len(passes) /\ InWindow(passes[Len(passes) - j]) =>
    j < Len(times) /\ times[Len(times) - j] = passes[Len(passes) - j]
InOrder(passes) ==
  /\ Len(passes) <= MaxPerWindow + 1
  /\ \A i \in 1 .. Len(passes) : passes[i] <= gateClock
  /\ \A i, j \in 1 .. Len(passes) : i <= j => passes[i] <= passes[j]
RateInv ==
  \A key \in RateKeys : InOrder(passed[key]) /\ StillThere(passed[key], Times(key))

\* A token was looked up because there was one.
FoundTokens ==
  \A c \in Calls : calls[c] # Idle /\ calls[c].phase = "found" => calls[c].token # NoToken

GateInv == GateTypeOK /\ FoundTokens /\ RateInv /\ RateLimitHolds /\ NoStuckRefusal

\* A key that a clean-up removed had no pass within the window.
LEMMA CleanUpKeeps ==
  ASSUME GateAssumption, GateTypeOK, RateInv, NEW key \in RateKeys
  PROVE  /\ StillThere(passed[key], IF key \in KeptKeys THEN rateState[key] ELSE <<>>)
         /\ KeptKeys \subseteq RateKeys
         /\ \A k \in KeptKeys : rateState[k] \in Seq(Nat)
<1>1. KeptKeys \subseteq DOMAIN rateState
  BY DEF KeptKeys
<1>2. KeptKeys \subseteq RateKeys /\ \A k \in KeptKeys : rateState[k] \in Seq(Nat)
  BY <1>1 DEF GateTypeOK
<1>3. CASE key \in KeptKeys \/ key \notin DOMAIN rateState
  <2>1. Times(key) = IF key \in KeptKeys THEN rateState[key] ELSE <<>>
    BY <1>1, <1>3 DEF Times
  <2> QED
    BY <1>2, <2>1 DEF RateInv
<1>4. CASE key \notin KeptKeys /\ key \in DOMAIN rateState
  <2> DEFINE p == passed[key]
  <2>1. StillThere(p, rateState[key]) /\ InOrder(p)
    BY <1>4 DEF RateInv, Times
  <2>2. p \in Seq(Nat) /\ rateState[key] \in Seq(Nat) /\ gateClock \in Nat
    BY <1>4, <1>2 DEF GateTypeOK
  <2>3. rateState[key] = <<>> \/ ~InWindow(rateState[key][Len(rateState[key])])
    BY <1>4 DEF KeptKeys, Last
  <2> HIDE DEF p
  <2>4. ASSUME NEW j \in Nat, j < Len(p), InWindow(p[Len(p) - j])
        PROVE  FALSE
    <3>1. /\ Len(p) \in Nat /\ Len(p) - j \in 1 .. Len(p) /\ Len(p) \in 1 .. Len(p)
          /\ Len(p) - j <= Len(p) /\ 0 < Len(p) /\ Len(p) - 0 = Len(p)
      BY <2>2, <2>4
    <3>2. /\ p[Len(p) - j] <= p[Len(p)]
          /\ p[Len(p) - j] \in Nat /\ p[Len(p)] \in Nat
      <4>1. \A i, n \in 1 .. Len(p) : i <= n => p[i] <= p[n]
        BY <2>1 DEF InOrder
      <4>2. \A i \in 1 .. Len(p) : p[i] \in Nat
        BY <2>2
      <4> QED
        BY <3>1, <4>1, <4>2
    <3>3. InWindow(p[Len(p)])
      BY <2>2, <2>4, <3>2 DEF InWindow, GateAssumption
    <3>4. 0 < Len(rateState[key]) /\ rateState[key][Len(rateState[key]) - 0] = p[Len(p)]
      BY <2>1, <3>1, <3>3 DEF StillThere
    <3>5. /\ Len(rateState[key]) \in Nat /\ Len(rateState[key]) - 0 = Len(rateState[key])
          /\ rateState[key] # <<>>
      BY <2>2, <3>4
    <3> QED
      BY <2>3, <3>3, <3>4, <3>5
  <2>5. StillThere(p, <<>>)
    BY <2>4 DEF StillThere
  <2> QED
    BY <1>2, <1>4, <2>5 DEF p
<1> QED
  BY <1>2, <1>3, <1>4

\* A pass is remembered beside those before it, of which it counted all that are
\* within the window.
LEMMA PassKeeps ==
  ASSUME GateAssumption, gateClock \in Nat,
         NEW passes \in Seq(Nat), NEW times \in Seq(Nat), InOrder(passes),
         StillThere(passes, times), Len(times) < MaxPerWindow
  PROVE  LET p == Append(Latest(passes), gateClock)
         IN  /\ p \in Seq(Nat) /\ InOrder(p)
             /\ StillThere(p, Append(times, gateClock))
             /\ Len(p) > MaxPerWindow => p[Len(p)] > p[1] + Window
<1> DEFINE l == Latest(passes)
           p == Append(l, gateClock)
           r == Append(times, gateClock)
<1>1. /\ MaxPerWindow \in Nat \ {0} /\ Window \in Nat /\ Len(passes) \in Nat
      /\ Len(times) \in Nat /\ Len(passes) <= MaxPerWindow + 1
  BY DEF GateAssumption, InOrder
<1>2. \E d \in {0, 1} : /\ l \in Seq(Nat) /\ Len(l) = Len(passes) - d
                        /\ Len(passes) - d >= 0 /\ Len(passes) - d <= MaxPerWindow
                        /\ \A i \in 1 .. Len(l) : l[i] = passes[i + d]
  <2>1. CASE Len(passes) > MaxPerWindow
    <3>1. passes # <<>>
      BY <1>1, <2>1
    <3>2. /\ l = Tail(passes) /\ l \in Seq(Nat) /\ Len(l) = Len(passes) - 1
          /\ \A i \in 1 .. Len(l) : l[i] = passes[i + 1]
      BY <2>1, <3>1, HeadTailProperties DEF Latest
    <3>3. Len(passes) - 1 >= 0 /\ Len(passes) - 1 <= MaxPerWindow /\ 1 \in {0, 1}
      BY <1>1, <2>1
    <3> HIDE DEF l
    <3> QED
      BY <3>2, <3>3
  <2>2. CASE ~(Len(passes) > MaxPerWindow)
    <3>1. l = passes
      BY <2>2 DEF Latest
    <3>2. \A i \in 1 .. Len(passes) : i + 0 = i
      OBVIOUS
    <3>3. /\ Len(passes) - 0 = Len(passes) /\ Len(passes) >= 0
          /\ Len(passes) <= MaxPerWindow /\ 0 \in {0, 1}
      BY <1>1, <2>2
    <3> HIDE DEF l
    <3> QED
      BY <3>1, <3>2, <3>3
  <2> QED
    BY <2>1, <2>2
<1>3. PICK d \in {0, 1} : /\ l \in Seq(Nat) /\ Len(l) = Len(passes) - d
                          /\ Len(passes) - d >= 0 /\ Len(passes) - d <= MaxPerWindow
                          /\ \A i \in 1 .. Len(l) : l[i] = passes[i + d]
  BY <1>2
<1> HIDE DEF l
<1>4. /\ p \in Seq(Nat) /\ Len(p) = Len(l) + 1 /\ p[Len(l) + 1] = gateClock
      /\ \A i \in 1 .. Len(l) : p[i] = l[i]
      /\ r \in Seq(Nat) /\ Len(r) = Len(times) + 1 /\ r[Len(times) + 1] = gateClock
      /\ \A i \in 1 .. Len(times) : r[i] = times[i]
  BY <1>3, AppendProperties
<1> HIDE DEF p, r
<1>5. Len(l) \in Nat /\ d \in Nat /\ Len(l) + d = Len(passes)
  <2>1. Len(l) \in Nat /\ d \in Nat /\ Len(l) = Len(passes) - d
    BY <1>3
  <2> QED
    BY <1>1, <2>1
<1>6. \A i \in 1 .. Len(l) : p[i] = passes[i + d] /\ i + d \in 1 .. Len(passes)
  <2>1. \A i \in 1 .. Len(l) : i + d \in 1 .. Len(passes)
    BY <1>1, <1>5
  <2> QED
    BY <1>3, <1>4, <2>1
<1>7. InOrder(p)
  <2>1. Len(p) <= MaxPerWindow + 1
    BY <1>1, <1>3, <1>4
  <2>2. \A i \in 1 .. Len(p) : i = Len(l) + 1 \/ i \in 1 .. Len(l)
    BY <1>4, <1>5
  <2>3. \A i \in 1 .. Len(l) : p[i] <= gateClock
    BY <1>6 DEF InOrder
  <2>4. \A i \in 1 .. Len(p) : p[i] <= gateClock
    BY <1>4, <2>2, <2>3
  <2>5. ASSUME NEW i \in 1 .. Len(p), NEW j \in 1 .. Len(p), i <= j
        PROVE  p[i] <= p[j]
    <3>1. CASE j = Len(l) + 1
      BY <1>4, <2>4, <3>1
    <3>2. CASE j # Len(l) + 1
      <4>1. j \in 1 .. Len(l) /\ i \in 1 .. Len(l)
        BY <2>2, <2>5, <3>2, <1>4, <1>5
      <4>2. i + d <= j + d
        BY <2>5
      <4> QED
        BY <1>6, <4>1, <4>2 DEF InOrder
    <3> QED
      BY <3>1, <3>2
  <2> QED
    BY <2>1, <2>4, <2>5 DEF InOrder
<1>8. StillThere(p, r)
  <2> SUFFICES ASSUME NEW j \in Nat, j < Len(p), InWindow(p[Len(p) - j])
               PROVE  j < Len(r) /\ r[Len(r) - j] = p[Len(p) - j]
    BY DEF StillThere
  <2>1. CASE j = 0
    BY <1>1, <1>4, <1>5, <2>1
  <2>2. CASE j # 0
    <3> USE <1>1, <1>5, <2>2
    <3>0. Len(p) = Len(l) + 1
      BY <1>4
    <3>1. /\ j - 1 \in Nat /\ Len(p) - j \in 1 .. Len(l)
          /\ Len(p) - j + d = Len(passes) - (j - 1) /\ j - 1 < Len(passes)
      <4>1. j - 1 \in Nat /\ j - 1 < Len(l) /\ Len(p) - j \in 1 .. Len(l)
        <5>1. PICK n \in Nat : n = Len(l)
          BY <1>5
        <5>2. /\ j - 1 \in Nat /\ j - 1 < n /\ n + 1 - j \in 1 .. n
          <6>1. j \in Nat /\ j # 0 /\ j < n + 1
            BY <3>0, <5>1
          <6> QED
            BY ONLY <5>1, <6>1
        <5> QED
          BY <3>0, <5>1, <5>2
      <4>2. Len(p) - j + d = Len(passes) - (j - 1)
        <5>1. \A a, b \in Nat : b + 1 - j + a = b + a - (j - 1)
          OBVIOUS
        <5>2. Len(p) - j + d = Len(l) + 1 - j + d
          BY <3>0
        <5>3. Len(passes) - (j - 1) = Len(l) + d - (j - 1)
          OBVIOUS
        <5> QED
          BY <5>1, <5>2, <5>3
      <4>3. j - 1 < Len(passes)
        BY <4>1
      <4> QED
        BY <4>1, <4>2, <4>3
    <3>2. p[Len(p) - j] = passes[Len(passes) - (j - 1)]
      BY <1>6, <3>1
    <3>3. j - 1 < Len(times) /\ times[Len(times) - (j - 1)] = p[Len(p) - j]
      BY <3>1, <3>2 DEF StillThere
    <3>4. Len(times) - (j - 1) \in 1 .. Len(times) /\ Len(r) - j = Len(times) - (j - 1)
      BY <1>1, <1>4, <3>1, <3>3
    <3>5. r[Len(r) - j] = times[Len(times) - (j - 1)]
      BY <1>4, <3>4
    <3> QED
      BY <1>1, <1>4, <3>3, <3>5
  <2> QED
    BY <2>1, <2>2
<1>9. ASSUME Len(p) > MaxPerWindow
      PROVE  p[Len(p)] > p[1] + Window
  <2>1. Len(l) = MaxPerWindow /\ 1 \in 1 .. Len(l)
    <3>1. Len(l) <= MaxPerWindow /\ Len(p) = Len(l) + 1
      BY <1>3, <1>4
    <3> QED
      BY <1>1, <1>5, <1>9, <3>1
  <2>2. p[1] = passes[1 + d] /\ 1 + d \in 1 .. Len(passes) /\ passes[1 + d] \in Nat
    BY <1>6, <2>1
  <2>3. /\ MaxPerWindow - 1 \in Nat /\ MaxPerWindow - 1 < Len(passes)
        /\ Len(passes) - (MaxPerWindow - 1) = 1 + d
    BY <1>1, <1>3, <2>1
  <2>4. ~InWindow(passes[1 + d])
    <3>1. SUFFICES ASSUME InWindow(passes[1 + d]) PROVE FALSE
      OBVIOUS
    <3>2. MaxPerWindow - 1 < Len(times)
      BY <2>3, <3>1 DEF StillThere
    <3> QED
      BY <1>1, <3>2
  <2>5. p[Len(p)] = gateClock
    BY <1>4
  <2> QED
    BY <1>1, <2>2, <2>4, <2>5 DEF InWindow
<1> QED
  BY <1>4, <1>7, <1>8, <1>9 DEF p, r, l

\* Charging a key keeps the table and the passes of every key.
LEMMA ChargeKeeps ==
  ASSUME GateAssumption, GateInv, NEW key \in RateKeys, CheckRateLimit(key),
         gateClock' = gateClock
  PROVE  /\ DOMAIN rateState' \subseteq RateKeys
         /\ \A k \in DOMAIN rateState' : rateState'[k] \in Seq(Nat)
         /\ cleanedAt' \in 0 .. MaxTime
         /\ passed' \in [RateKeys -> Seq(Nat)]
         /\ RateInv' /\ RateLimitHolds'
<1> DEFINE times == Recorded(key)
           pass == Append(Latest(passed[key]), gateClock)
<1>1. /\ gateClock \in Nat /\ gateClock \in 0 .. MaxTime /\ cleanedAt \in 0 .. MaxTime
      /\ passed \in [RateKeys -> Seq(Nat)]
  BY DEF GateInv, GateTypeOK, GateAssumption
<1>2. /\ KeptKeys \subseteq RateKeys /\ \A k \in KeptKeys : rateState[k] \in Seq(Nat)
      /\ \A k \in RateKeys :
           StillThere(passed[k], IF k \in KeptKeys THEN rateState[k] ELSE <<>>)
  BY CleanUpKeeps DEF GateInv
<1>3. passed[key] \in Seq(Nat) /\ InOrder(passed[key])
  BY <1>1 DEF GateInv, RateInv
<1>4. times \in Seq(Nat) /\ StillThere(passed[key], times)
  <2>1. CASE key \in KeptKeys
    <3>1. times = Popped(rateState[key]) /\ rateState[key] \in Seq(Nat)
      BY <1>2, <2>1 DEF Recorded
    <3>2. StillThere(passed[key], rateState[key])
      BY <1>2, <2>1
    <3>3. /\ times \in Seq(Nat)
          /\ \A j \in Nat :
               j < Len(rateState[key]) /\ InWindow(rateState[key][Len(rateState[key]) - j]) =>
                 /\ j < Len(times)
                 /\ times[Len(times) - j] = rateState[key][Len(rateState[key]) - j]
      BY <1>1, <3>1, PoppedTimes
    <3> HIDE DEF times
    <3> QED
      BY <3>2, <3>3 DEF StillThere
  <2>2. CASE key \notin KeptKeys
    <3>1. times = <<>>
      BY <2>2 DEF Recorded
    <3> QED
      BY <1>2, <2>2, <3>1
  <2> QED
    BY <2>1, <2>2
<1> HIDE DEF times
<1>5. /\ cleanedAt' = IF gateClock - cleanedAt >= Window THEN gateClock ELSE cleanedAt
      /\ rateState' = [k \in KeptKeys \cup {key} |->
           IF k = key THEN IF Len(times) < MaxPerWindow THEN Append(times, gateClock) ELSE times
                      ELSE rateState[k]]
      /\ passed' = IF Len(times) < MaxPerWindow THEN [passed EXCEPT ![key] = pass]
                                                ELSE passed
  BY DEF CheckRateLimit, times
<1>6. cleanedAt' \in 0 .. MaxTime
  BY <1>1, <1>5
<1>7. DOMAIN rateState' \subseteq RateKeys
  BY <1>2, <1>5
<1>8. \A k \in RateKeys \ {key} :
        Times(k)' = IF k \in KeptKeys THEN rateState[k] ELSE <<>>
  BY <1>5 DEF Times
<1>9. \A passes, ts : /\ InOrder(passes)' <=> InOrder(passes)
                      /\ StillThere(passes, ts)' <=> StillThere(passes, ts)
  BY DEF InOrder, StillThere, InWindow
<1>10. CASE Len(times) < MaxPerWindow
  <2>1. /\ pass \in Seq(Nat) /\ InOrder(pass) /\ StillThere(pass, Append(times, gateClock))
        /\ Len(pass) > MaxPerWindow => pass[Len(pass)] > pass[1] + Window
    BY <1>1, <1>3, <1>4, <1>10, PassKeeps
  <2> HIDE DEF pass
  <2>2. /\ passed' = [passed EXCEPT ![key] = pass]
        /\ \A k \in RateKeys : passed'[k] = IF k = key THEN pass ELSE passed[k]
    BY <1>1, <1>5, <1>10
  <2>3. Times(key)' = Append(times, gateClock) /\ Append(times, gateClock) \in Seq(Nat)
    BY <1>1, <1>4, <1>5, <1>10 DEF Times
  <2>4. \A k \in DOMAIN rateState' : rateState'[k] \in Seq(Nat)
    BY <1>2, <1>5, <1>10, <2>3
  <2>5. passed' \in [RateKeys -> Seq(Nat)]
    BY <1>1, <2>1, <2>2
  <2>6. ASSUME NEW k \in RateKeys
        PROVE  InOrder(passed'[k]) /\ StillThere(passed'[k], Times(k)')
    <3>1. CASE k = key
      BY <2>1, <2>2, <2>3, <3>1
    <3>2. CASE k # key
      <4>1. passed'[k] = passed[k] /\ InOrder(passed[k])
        BY <2>2, <3>2 DEF GateInv, RateInv
      <4>2. StillThere(passed[k], Times(k)')
        BY <1>2, <1>8, <3>2
      <4> QED
        BY <4>1, <4>2
    <3> QED
      BY <3>1, <3>2
  <2>7. RateInv'
    BY <1>9, <2>6 DEF RateInv, RateKeys
  <2>8. RateLimitHolds'
    <3> SUFFICES ASSUME NEW k \in RateKeys, Len(passed'[k]) > MaxPerWindow
                 PROVE  Last(passed'[k]) > Head(passed'[k]) + Window
      BY DEF RateLimitHolds, RateKeys
    <3>1. CASE k = key
      <4>1. passed'[k] = pass /\ pass # <<>>
        BY <1>1, <2>2, <3>1, <2>1 DEF GateAssumption
      <4> QED
        BY <2>1, <4>1 DEF Last
    <3>2. CASE k # key
      BY <2>2, <3>2 DEF GateInv, RateLimitHolds
    <3> QED
      BY <3>1, <3>2
  <2> QED
    BY <1>6, <1>7, <2>4, <2>5, <2>7, <2>8
<1>11. CASE ~(Len(times) < MaxPerWindow)
  <2>1. passed' = passed /\ Times(key)' = times
    BY <1>5, <1>11 DEF Times
  <2>2. \A k \in DOMAIN rateState' : rateState'[k] \in Seq(Nat)
    BY <1>2, <1>4, <1>5, <1>11
  <2>3. ASSUME NEW k \in RateKeys
        PROVE  InOrder(passed'[k]) /\ StillThere(passed'[k], Times(k)')
    BY <1>2, <1>3, <1>4, <1>8, <2>1 DEF GateInv, RateInv
  <2>4. RateInv'
    BY <1>9, <2>3 DEF RateInv, RateKeys
  <2>5. RateLimitHolds'
    BY <2>1 DEF GateInv, RateLimitHolds, RateKeys
  <2> QED
    BY <1>1, <1>6, <1>7, <2>1, <2>2, <2>4, <2>5
<1> QED
  BY <1>10, <1>11

(* ---- the cache of invalid tokens ----------------------------------------------- *)

\* Entries that end CacheTTL after their lookup, or sooner.
Bounded(cache) ==
  /\ cache \in Seq(CacheEntries)
  /\ \A i \in DOMAIN cache : cache[i].until <= failedAt[cache[i].token] + CacheTTL

\* Taking entries out keeps the others as they are.
LEMMA KeptBounded ==
  ASSUME NEW cache, Bounded(cache), NEW places \in SUBSET DOMAIN cache
  PROVE  /\ Bounded(Kept(cache, places))
         /\ \A n \in DOMAIN Kept(cache, places) :
              \E i \in places : Kept(cache, places)[n] = cache[i]
<1>1. /\ Kept(cache, places) \in Seq(CacheEntries)
      /\ \A n \in DOMAIN Kept(cache, places) :
           \E i \in places : Kept(cache, places)[n] = cache[i]
  BY KeptEntries DEF Bounded
<1> QED
  BY <1>1 DEF Bounded

LEMMA LiveBounded ==
  ASSUME Bounded(invalidCache)
  PROVE  Bounded(Live)
<1>1. {i \in DOMAIN invalidCache : Unexpired(invalidCache[i])} \in SUBSET DOMAIN invalidCache
  OBVIOUS
<1> QED
  BY <1>1, KeptBounded DEF Live

\* A hit keeps every expiry.
LEMMA TouchedBounded ==
  ASSUME Bounded(invalidCache), NEW token
  PROVE  Bounded(Touched(token))
<1> DEFINE rest == Others(Live, token)
           hit == Kept(Live, {i \in DOMAIN Live : Live[i].token = token})
<1>1. Bounded(Live)
  BY LiveBounded
<1>2. Bounded(rest)
  <2>1. {i \in DOMAIN Live : Live[i].token # token} \in SUBSET DOMAIN Live
    OBVIOUS
  <2> QED
    BY <1>1, <2>1, KeptBounded DEF Others
<1>3. Bounded(hit)
  <2>1. {i \in DOMAIN Live : Live[i].token = token} \in SUBSET DOMAIN Live
    OBVIOUS
  <2> QED
    BY <1>1, <2>1, KeptBounded
<1>4. Touched(token) = rest \o hit
  BY DEF Touched
<1> HIDE DEF rest, hit
<1>5. /\ rest \o hit \in Seq(CacheEntries)
      /\ \A i \in DOMAIN (rest \o hit) :
           \/ i \in DOMAIN rest /\ (rest \o hit)[i] = rest[i]
           \/ i - Len(rest) \in DOMAIN hit /\ (rest \o hit)[i] = hit[i - Len(rest)]
  <2>1. rest \in Seq(CacheEntries) /\ hit \in Seq(CacheEntries)
    BY <1>2, <1>3 DEF Bounded
  <2>2. /\ rest \o hit \in Seq(CacheEntries) /\ Len(rest \o hit) = Len(rest) + Len(hit)
        /\ \A i \in 1 .. Len(rest) + Len(hit) :
             (rest \o hit)[i] = IF i <= Len(rest) THEN rest[i] ELSE hit[i - Len(rest)]
    BY <2>1, ConcatProperties
  <2>3. /\ DOMAIN rest = 1 .. Len(rest) /\ DOMAIN hit = 1 .. Len(hit)
        /\ DOMAIN (rest \o hit) = 1 .. Len(rest) + Len(hit)
        /\ Len(rest) \in Nat /\ Len(hit) \in Nat
    BY <2>1, <2>2, LenProperties
  <2> QED
    BY <2>2, <2>3
<1>6. Bounded(rest \o hit)
  BY <1>2, <1>3, <1>5 DEF Bounded
<1> QED
  BY <1>4, <1>6

\* A token that was found invalid is remembered from now on.
LEMMA RememberedBounded ==
  ASSUME GateAssumption, gateClock \in Nat, Bounded(invalidCache), NEW token \in Tokens,
         failedAt \in [Tokens -> Nat],
         failedAt' = [failedAt EXCEPT ![token] = gateClock],
         invalidCache' = Remembered(token)
  PROVE  Bounded(invalidCache)'
<1> DEFINE rest == Others(invalidCache, token)
           entry == [token |-> token, until |-> gateClock + CacheTTL]
           cache == Append(rest, entry)
<1>1. /\ rest \in Seq(CacheEntries)
      /\ \A n \in DOMAIN rest : \E i \in DOMAIN invalidCache :
           rest[n] = invalidCache[i] /\ invalidCache[i].token # token
  <2> DEFINE places == {i \in DOMAIN invalidCache : invalidCache[i].token # token}
  <2>1. places \in SUBSET DOMAIN invalidCache /\ rest = Kept(invalidCache, places)
    BY DEF Others
  <2>2. \A i \in places : i \in DOMAIN invalidCache /\ invalidCache[i].token # token
    OBVIOUS
  <2> HIDE DEF places, rest
  <2>3. /\ Bounded(rest)
        /\ \A n \in DOMAIN rest : \E i \in places : rest[n] = invalidCache[i]
    BY <2>1, KeptBounded
  <2> QED
    BY <2>2, <2>3 DEF Bounded
<1>2. invalidCache \in Seq(CacheEntries)
  BY DEF Bounded
<1>3. \A n \in DOMAIN rest : /\ rest[n] \in CacheEntries
                             /\ rest[n].until <= failedAt'[rest[n].token] + CacheTTL
  <2> SUFFICES ASSUME NEW n \in DOMAIN rest
               PROVE  /\ rest[n] \in CacheEntries
                      /\ rest[n].until <= failedAt'[rest[n].token] + CacheTTL
    OBVIOUS
  <2> HIDE DEF rest
  <2>1. PICK i \in DOMAIN invalidCache :
          rest[n] = invalidCache[i] /\ invalidCache[i].token # token
    BY <1>1
  <2>2. invalidCache[i] \in CacheEntries
    BY <1>2
  <2>3. failedAt'[invalidCache[i].token] = failedAt[invalidCache[i].token]
    BY <2>1, <2>2 DEF CacheEntries
  <2> QED
    BY <2>1, <2>2, <2>3 DEF Bounded
<1>4. /\ entry \in CacheEntries
      /\ entry.until <= failedAt'[entry.token] + CacheTTL
  BY DEF GateAssumption, CacheEntries
<1> HIDE DEF rest, entry
<1>5. /\ cache \in Seq(CacheEntries) /\ cache # <<>>
      /\ \A i \in DOMAIN cache : cache[i].until <= failedAt'[cache[i].token] + CacheTTL
  <2>1. /\ cache \in Seq(CacheEntries) /\ Len(cache) = Len(rest) + 1
        /\ \A i \in 1 .. Len(rest) : cache[i] = rest[i]
        /\ cache[Len(rest) + 1] = entry
    BY <1>1, <1>4, AppendProperties
  <2>2. /\ Len(rest) \in Nat /\ DOMAIN rest = 1 .. Len(rest)
        /\ DOMAIN cache = 1 .. Len(rest) + 1
    BY <1>1, <2>1, LenProperties
  <2> HIDE DEF cache
  <2>3. \A i \in DOMAIN cache : i \in DOMAIN rest \/ i = Len(rest) + 1
    BY <2>2
  <2>4. cache # <<>>
    BY <2>1, <2>2
  <2> QED
    BY <1>3, <1>4, <2>1, <2>2, <2>3, <2>4
<1>6. invalidCache' = IF Len(cache) > CacheSize THEN Tail(cache) ELSE cache
  BY DEF Remembered, rest, entry
<1> HIDE DEF cache
<1>7. CASE Len(cache) > CacheSize
  <2>1. /\ Tail(cache) \in Seq(CacheEntries) /\ Len(Tail(cache)) = Len(cache) - 1
        /\ \A i \in 1 .. Len(Tail(cache)) : Tail(cache)[i] = cache[i + 1]
    BY <1>5, HeadTailProperties
  <2>2. \A i \in DOMAIN Tail(cache) :
          /\ i + 1 \in DOMAIN cache /\ Tail(cache)[i] = cache[i + 1]
    <3>1. /\ DOMAIN Tail(cache) = 1 .. Len(Tail(cache)) /\ DOMAIN cache = 1 .. Len(cache)
          /\ Len(cache) \in Nat
      BY <1>5, <2>1, LenProperties
    <3> QED
      BY <2>1, <3>1
  <2> QED
    BY <1>5, <1>6, <1>7, <2>1, <2>2 DEF Bounded
<1>8. CASE ~(Len(cache) > CacheSize)
  BY <1>5, <1>6, <1>8 DEF Bounded
<1> QED
  BY <1>7, <1>8

(* ---- the calls ------------------------------------------------------------------- *)

LEMMA InitGate == GateAssumption /\ GateInit => GateInv
<1> SUFFICES ASSUME GateAssumption, GateInit
             PROVE  GateInv
  OBVIOUS
<1>1. \A key \in RateKeys : passed[key] = <<>>
  BY DEF GateInit
<1>2. GateTypeOK
  BY DEF GateInit, GateTypeOK, GateAssumption
<1>3. FoundTokens /\ RateInv /\ RateLimitHolds
  BY <1>1 DEF GateInit, FoundTokens, RateInv, InOrder, StillThere, RateLimitHolds, GateAssumption
<1>4. NoStuckRefusal
  BY DEF GateInit, NoStuckRefusal
<1> QED
  BY <1>2, <1>3, <1>4 DEF GateInv

\* The cache is bounded when the invariant holds, and the other way round.
LEMMA CacheIsBounded ==
  ASSUME GateTypeOK
  PROVE  Bounded(invalidCache) <=> NoStuckRefusal
BY DEF GateTypeOK, Bounded, NoStuckRefusal, CacheEntries

\* What a step that charges no key leaves alone.
LEMMA TableKept ==
  ASSUME GateInv, UNCHANGED <<gateClock, rateState, cleanedAt, passed>>
  PROVE  RateInv' /\ RateLimitHolds'
BY DEF GateInv, RateInv, InOrder, StillThere, InWindow, Times, RateLimitHolds, RateKeys

\* A handler or its thread goes on with its call, or is done with it.
LEMMA CallStep ==
  ASSUME GateAssumption, GateInv, NEW c \in Calls, GateCallNext(c)
  PROVE  calls' \in [Calls -> {Idle} \cup CallStates] /\ FoundTokens'
<1>1. calls \in [Calls -> {Idle} \cup CallStates] /\ FoundTokens /\ Idle \notin CallStates
  BY DEF GateInv, GateTypeOK, GateAssumption
<1>2. \E next \in {Idle} \cup CallStates :
        /\ calls' = [calls EXCEPT ![c] = next]
        /\ next # Idle /\ next.phase = "found" => next.token # NoToken
  <2>1. ASSUME NEW token \in Tokens \cup {NoToken}, Arrive(c, token)
        PROVE  \E next \in {Idle} \cup CallStates :
                 /\ calls' = [calls EXCEPT ![c] = next]
                 /\ next # Idle /\ next.phase = "found" => next.token # NoToken
    <3>1. Call("queued", token, FALSE) \in CallStates
      BY DEF Call, CallStates
    <3>2. Call("queued", token, FALSE).phase # "found"
      BY DEF Call
    <3> QED
      BY <2>1, <3>1, <3>2 DEF Arrive
  <2>2. CASE StartLookup(c)
    <3>1. calls[c] \in CallStates
      BY <1>1, <2>2 DEF StartLookup
    <3>2. CASE calls[c].waited
      <4>1. /\ [calls[c] EXCEPT !.phase = "lookup"] \in CallStates
            /\ [calls[c] EXCEPT !.phase = "lookup"].phase = "lookup"
        BY <3>1 DEF CallStates
      <4>2. calls' = [calls EXCEPT ![c] = [calls[c] EXCEPT !.phase = "lookup"]]
        BY <2>2, <3>2 DEF StartLookup
      <4> QED
        BY <4>1, <4>2
    <3>3. CASE ~calls[c].waited
      <4>1. calls' = [calls EXCEPT ![c] = Idle]
        BY <2>2, <3>3 DEF StartLookup
      <4> QED
        BY <4>1
    <3> QED
      BY <3>2, <3>3
  <2>3. CASE calls' = [calls EXCEPT ![c] = Idle]
    BY <2>3
  <2>4. CASE ReadToken(c)
    <3>1. PICK b \in BOOLEAN : b = (calls[c].token \in validTokens)
      <4>1. (calls[c].token \in validTokens) \in BOOLEAN
        BY SMT
      <4> QED
        BY <4>1, Zenon
    <3>2. calls' = [calls EXCEPT ![c] = [calls[c] EXCEPT !.phase = "found", !.found = b]]
      BY <2>4, <3>1, Zenon DEF ReadToken
    <3>3. calls[c] \in CallStates /\ calls[c].token # NoToken
      BY <1>1, <2>4 DEF ReadToken
    <3>4. /\ [calls[c] EXCEPT !.phase = "found", !.found = b] \in CallStates
          /\ [calls[c] EXCEPT !.phase = "found", !.found = b].token # NoToken
      <4> HIDE <3>1
      <4> QED
        BY <3>3 DEF CallStates
    <3> QED
      BY <3>2, <3>4
  <2>5. CASE TimeOut(c)
    <3>1. calls[c] \in CallStates
      BY <1>1, <2>5 DEF TimeOut
    <3>2. /\ [calls[c] EXCEPT !.waited = FALSE] \in CallStates
          /\ [calls[c] EXCEPT !.waited = FALSE].phase = calls[c].phase
          /\ [calls[c] EXCEPT !.waited = FALSE].token = calls[c].token
      BY <3>1 DEF CallStates
    <3>3. calls' = [calls EXCEPT ![c] = [calls[c] EXCEPT !.waited = FALSE]]
      BY <2>5 DEF TimeOut
    <3>4. calls[c].phase = "found" => calls[c].token # NoToken
      BY <1>1, <2>5 DEF FoundTokens, TimeOut
    <3> QED
      BY <3>2, <3>3, <3>4
  <2> QED
    BY <2>1, <2>2, <2>3, <2>4, <2>5
       DEF GateCallNext, OwnerOrRefuse, RefuseCached, RefuseInvalid, AdmitOrLimit
<1> QED
  BY <1>1, <1>2 DEF FoundTokens

LEMMA GateStep ==
  ASSUME GateAssumption, GateInv, [GateNext]_gateVars
  PROVE  GateInv'
<1> USE DEF GateInv
<1>1. Bounded(invalidCache) /\ gateClock \in Nat
  BY CacheIsBounded DEF GateTypeOK
<1>2. ASSUME Bounded(invalidCache)', GateTypeOK'
      PROVE  NoStuckRefusal'
  BY <1>2 DEF Bounded, NoStuckRefusal
<1> DEFINE TableTypes == /\ DOMAIN rateState \subseteq RateKeys
                         /\ \A k \in DOMAIN rateState : rateState[k] \in Seq(Nat)
                         /\ cleanedAt \in 0 .. MaxTime
                         /\ passed \in [RateKeys -> Seq(Nat)]
<1>3. ASSUME UNCHANGED <<gateClock, rateState, cleanedAt, passed>>
      PROVE  TableTypes' /\ RateInv' /\ RateLimitHolds'
  BY <1>3, TableKept DEF GateTypeOK, RateKeys
<1>4. ASSUME NEW key \in RateKeys, CheckRateLimit(key), UNCHANGED gateClock
      PROVE  TableTypes' /\ RateInv' /\ RateLimitHolds'
  <2>1. RateKeys' = RateKeys
    BY DEF RateKeys
  <2> QED
    BY <1>4, <2>1, ChargeKeeps
<1>5. ASSUME UNCHANGED <<invalidCache, failedAt>>
      PROVE  Bounded(invalidCache)' /\ failedAt' \in [Tokens -> Nat]
  BY <1>1, <1>5 DEF Bounded, GateTypeOK
<1>6. ASSUME TableTypes', RateInv', RateLimitHolds', Bounded(invalidCache)',
             calls' \in [Calls -> {Idle} \cup CallStates], FoundTokens',
             failedAt' \in [Tokens -> Nat], validTokens' \subseteq Tokens,
             gateClock' \in 0 .. MaxTime
      PROVE  GateInv'
  <2>1. GateTypeOK'
    BY <1>6 DEF GateTypeOK, Bounded, CacheEntries, RateKeys
  <2> QED
    BY <1>2, <1>6, <2>1
<1> HIDE DEF TableTypes
<1>7. /\ validTokens \subseteq Tokens /\ gateClock \in 0 .. MaxTime
      /\ failedAt \in [Tokens -> Nat] /\ calls \in [Calls -> {Idle} \cup CallStates]
      /\ {"invalid", "missing"} \cup Tokens \subseteq RateKeys
  BY DEF GateTypeOK, RateKeys
<1>12. UNCHANGED calls => FoundTokens'
  BY DEF FoundTokens
<1>8. ASSUME NEW c \in Calls, GateCallNext(c)
      PROVE  GateInv'
  <2>1. calls' \in [Calls -> {Idle} \cup CallStates] /\ FoundTokens'
    BY <1>8, CallStep
  <2>2. calls[c] # Idle => calls[c].token \in Tokens \cup {NoToken}
    BY <1>7 DEF CallStates
  <2>3. ASSUME NEW token \in Tokens \cup {NoToken}, Arrive(c, token)
        PROVE  GateInv'
    BY <1>3, <1>5, <1>6, <1>7, <2>1, <2>3 DEF Arrive
  <2>4. CASE StartLookup(c)
    BY <1>3, <1>5, <1>6, <1>7, <2>1, <2>4 DEF StartLookup
  <2>5. ASSUME NEW isOwner \in BOOLEAN, OwnerOrRefuse(c, isOwner)
        PROVE  GateInv'
    <3>1. TableTypes' /\ RateInv' /\ RateLimitHolds'
      <4>1. CASE isOwner
        BY <1>3, <2>5, <4>1 DEF OwnerOrRefuse
      <4>2. CASE ~isOwner
        BY <1>4, <1>7, <2>5, <4>2 DEF OwnerOrRefuse
      <4> QED
        BY <4>1, <4>2
    <3> QED
      BY <1>5, <1>6, <1>7, <2>1, <2>5, <3>1 DEF OwnerOrRefuse
  <2>6. CASE RefuseCached(c)
    <3>1. TableTypes' /\ RateInv' /\ RateLimitHolds'
      BY <1>4, <1>7, <2>6 DEF RefuseCached
    <3>2. invalidCache' = Touched(calls[c].token) /\ failedAt' = failedAt
      BY <2>6 DEF RefuseCached
    <3>3. Bounded(Touched(calls[c].token))
      BY <1>1, TouchedBounded
    <3>4. Bounded(invalidCache)'
      BY <3>2, <3>3 DEF Bounded
    <3> QED
      BY <1>6, <1>7, <2>1, <2>6, <3>1, <3>2, <3>4 DEF RefuseCached
  <2>7. CASE ReadToken(c)
    <3>1. TableTypes' /\ RateInv' /\ RateLimitHolds'
      BY <1>3, <2>7 DEF ReadToken
    <3>2. invalidCache' = Live /\ failedAt' = failedAt
      BY <2>7 DEF ReadToken
    <3>3. Bounded(Live)
      BY <1>1, LiveBounded
    <3>4. Bounded(invalidCache)'
      BY <3>2, <3>3 DEF Bounded
    <3> QED
      BY <1>6, <1>7, <2>1, <2>7, <3>1, <3>2, <3>4 DEF ReadToken
  <2>8. CASE RefuseInvalid(c)
    <3>1. TableTypes' /\ RateInv' /\ RateLimitHolds'
      BY <1>4, <1>7, <2>8 DEF RefuseInvalid
    <3>2. calls[c].token \in Tokens
      BY <2>2, <2>8 DEF RefuseInvalid, FoundTokens
    <3>3. /\ invalidCache' = Remembered(calls[c].token)
          /\ failedAt' = [failedAt EXCEPT ![calls[c].token] = gateClock]
      BY <2>8 DEF RefuseInvalid
    <3>4. Bounded(invalidCache)'
      BY <1>1, <1>7, <3>2, <3>3, RememberedBounded
    <3>5. failedAt' \in [Tokens -> Nat]
      BY <1>1, <1>7, <3>3
    <3> QED
      BY <1>6, <1>7, <2>1, <2>8, <3>1, <3>4, <3>5 DEF RefuseInvalid
  <2>9. CASE AdmitOrLimit(c)
    <3>1. calls[c].token \in Tokens
      BY <2>2, <2>9 DEF AdmitOrLimit, FoundTokens
    <3>2. TableTypes' /\ RateInv' /\ RateLimitHolds'
      <4>1. CASE calls[c].waited
        BY <1>4, <1>7, <2>9, <3>1, <4>1 DEF AdmitOrLimit
      <4>2. CASE ~calls[c].waited
        BY <1>3, <2>9, <4>2 DEF AdmitOrLimit
      <4> QED
        BY <4>1, <4>2
    <3> QED
      BY <1>5, <1>6, <1>7, <2>1, <2>9, <3>2 DEF AdmitOrLimit
  <2>10. CASE TimeOut(c)
    BY <1>3, <1>5, <1>6, <1>7, <2>1, <2>10 DEF TimeOut
  <2> QED
    BY <1>8, <2>3, <2>4, <2>5, <2>6, <2>7, <2>8, <2>9, <2>10 DEF GateCallNext
<1>9. ASSUME NEW token \in Tokens, Mint(token) \/ Revoke(token)
      PROVE  GateInv'
  <2>1. /\ validTokens' \subseteq Tokens
        /\ UNCHANGED <<gateClock, invalidCache, rateState, cleanedAt, calls, passed, failedAt>>
    BY <1>7, <1>9 DEF Mint, Revoke
  <2> QED
    BY <1>3, <1>5, <1>6, <1>7, <1>12, <2>1
<1>10. CASE Elapse
  <2>1. /\ gateClock' = gateClock + 1 /\ gateClock' \in 0 .. MaxTime
        /\ UNCHANGED <<validTokens, invalidCache, rateState, cleanedAt, calls, passed, failedAt>>
    BY <1>7, <1>10 DEF Elapse, GateAssumption
  <2>2. TableTypes' /\ RateLimitHolds'
    BY <2>1 DEF TableTypes, GateTypeOK, RateLimitHolds, RateKeys
  <2>3. RateInv'
    <3> SUFFICES ASSUME NEW key \in RateKeys
                 PROVE  InOrder(passed[key])' /\ StillThere(passed[key], Times(key))'
      BY <2>1 DEF RateInv, RateKeys
    <3>1. /\ passed[key] \in Seq(Nat) /\ InOrder(passed[key])
          /\ StillThere(passed[key], Times(key)) /\ Times(key)' = Times(key)
      BY <2>1 DEF RateInv, GateTypeOK, Times
    <3>2. \A i \in 1 .. Len(passed[key]) : passed[key][i] <= gateClock + 1
      BY <1>1, <3>1 DEF InOrder
    <3>3. InOrder(passed[key])'
      BY <2>1, <3>1, <3>2 DEF InOrder
    <3>4. \A at \in Nat : InWindow(at)' => InWindow(at)
      BY <1>1, <2>1 DEF InWindow, GateAssumption
    <3>5. ASSUME NEW j \in Nat, j < Len(passed[key])
          PROVE  passed[key][Len(passed[key]) - j] \in Nat
      BY <3>1, <3>5
    <3>6. StillThere(passed[key], Times(key))'
      BY <2>1, <3>1, <3>4, <3>5 DEF StillThere, InWindow
    <3> QED
      BY <3>3, <3>6
  <2> QED
    BY <1>5, <1>6, <1>7, <1>12, <2>1, <2>2, <2>3
<1>11. CASE UNCHANGED gateVars
  BY <1>3, <1>5, <1>6, <1>7, <1>11, <1>12 DEF gateVars
<1> QED
  BY <1>8, <1>9, <1>10, <1>11 DEF GateNext

\* No token, and no address that is refused, passes more often than the limit in any
\* window (RateLimitHolds), whatever the clean-up of the table removes and however
\* the calls, their threads and the clock interleave (_check_rate_limit).
THEOREM RateLimitKept == GateSpec => []RateLimitHolds
<1>1. GateInv => RateLimitHolds
  BY DEF GateInv
<1> QED
  BY <1>1, GateAssumption, InitGate, GateStep, PTL DEF GateSpec

\* No token is refused from the cache longer than its time to live after the last
\* lookup that found it invalid (NoStuckRefusal; _invalid_token_is_cached,
\* _remember_invalid_token).
THEOREM RefusalsEnd == GateSpec => []NoStuckRefusal
<1>1. GateInv => NoStuckRefusal
  BY DEF GateInv
<1> QED
  BY <1>1, GateAssumption, InitGate, GateStep, PTL DEF GateSpec


(* ---- the buffers of the tools ------------------------------------------------- *)

Entries == [tool : Tools, at : Moments, timed : BOOLEAN]
ToolsOf(buffer) == {buffer[i].tool : i \in DOMAIN buffer}
Distinct(buffer) ==
  \A i, j \in DOMAIN buffer : buffer[i].tool = buffer[j].tool => i = j
Stored(rows) == {t \in Tools : rows[t] # NoTool}

\* A buffer holds each tool once.
BuffersDistinct == \A k \in Keys : Distinct(toolBuffer[k])

\* The rows a failure left uncounted are rows.
CountInv == uncounted \subseteq Stored(toolRows) /\ ToolCountsFollowRows

ToolInv == ToolTypeOK /\ BuffersDistinct /\ CountInv /\ NoToolForgotten

\* What is left of a buffer holds each of its tools once.
LEMMA KeptDistinct ==
  ASSUME NEW buffer \in Seq(Entries), Distinct(buffer), NEW places \in SUBSET DOMAIN buffer
  PROVE  /\ Kept(buffer, places) \in Seq(Entries) /\ Distinct(Kept(buffer, places))
         /\ \A i \in places : buffer[i].tool \in ToolsOf(Kept(buffer, places))
         /\ ToolsOf(Kept(buffer, places)) \subseteq ToolsOf(buffer)
<1> DEFINE left == Kept(buffer, places)
<1>1. /\ left \in Seq(Entries)
      /\ \A n \in DOMAIN left : \E i \in places : left[n] = buffer[i]
      /\ \A i \in places : \E n \in DOMAIN left : left[n] = buffer[i]
      /\ \A n, m \in DOMAIN left : n # m =>
           \E i, j \in places : i # j /\ left[n] = buffer[i] /\ left[m] = buffer[j]
  BY KeptEntries
<1> HIDE DEF left
<1>2. Distinct(left)
  <2> SUFFICES ASSUME NEW n \in DOMAIN left, NEW m \in DOMAIN left,
                      left[n].tool = left[m].tool, n # m
               PROVE  FALSE
    BY DEF Distinct
  <2>1. PICK i \in places, j \in places :
          i # j /\ left[n] = buffer[i] /\ left[m] = buffer[j]
    BY <1>1
  <2> QED
    BY <2>1 DEF Distinct
<1>3. \A i \in places : buffer[i].tool \in ToolsOf(left)
  BY <1>1 DEF ToolsOf
<1>4. ToolsOf(left) \subseteq ToolsOf(buffer)
  BY <1>1 DEF ToolsOf
<1> QED
  BY <1>1, <1>2, <1>3, <1>4 DEF left

\* A handler that rewrites the buffer of a key leaves the others alone.
LEMMA BufferStep ==
  ASSUME toolBuffer \in [Keys -> Seq(Entries)], BuffersDistinct, NEW k \in Keys,
         NEW buffer \in Seq(Entries), Distinct(buffer),
         toolBuffer' = [toolBuffer EXCEPT ![k] = buffer]
  PROVE  /\ toolBuffer' \in [Keys -> Seq(Entries)] /\ BuffersDistinct'
         /\ \A q \in Keys : Buffered(q)' = IF q = k THEN ToolsOf(buffer) ELSE Buffered(q)
<1>1. \A q \in Keys : toolBuffer'[q] = IF q = k THEN buffer ELSE toolBuffer[q]
  OBVIOUS
<1>2. toolBuffer' \in [Keys -> Seq(Entries)]
  OBVIOUS
<1>3. BuffersDistinct'
  BY <1>1 DEF BuffersDistinct, Distinct, Keys
<1>4. \A q \in Keys : Buffered(q)' = IF q = k THEN ToolsOf(buffer) ELSE Buffered(q)
  BY <1>1 DEF Buffered, ToolsOf
<1> QED
  BY <1>2, <1>3, <1>4

LEMMA EmptyBuffer == <<>> \in Seq(Entries) /\ Distinct(<<>>) /\ ToolsOf(<<>>) = {}
BY DEF Distinct, ToolsOf

\* What a handler may do to a tool without making it disappear.
LEMMA ToolsStay ==
  ASSUME ToolTypeOK, ToolAssumption, NoToolForgotten, decided' = decided,
         lostTools \subseteq lostTools',
         \A t \in Tools : toolRows[t] # NoTool => toolRows'[t] # NoTool,
         \A k \in Keys : \A t \in Buffered(k) :
           t \in Buffered(k)' \/ toolRows'[t] # NoTool \/ t \in lostTools'
  PROVE  NoToolForgotten'
<1> SUFFICES ASSUME NEW t \in Tools, decided[t] # NoTool
             PROVE  toolRows'[t] # NoTool \/ t \in Buffered(decided[t].key)' \cup lostTools'
  BY DEF NoToolForgotten
<1>1. decided[t].key \in Keys
  BY DEF ToolTypeOK, Decisions
<1>2. PICK k : k = decided[t].key
  OBVIOUS
<1>3. toolRows[t] # NoTool \/ t \in Buffered(k) \/ t \in lostTools
  BY <1>2 DEF NoToolForgotten
<1>4. toolRows'[t] # NoTool \/ t \in Buffered(k)' \/ t \in lostTools'
  BY <1>1, <1>2, <1>3
<1>5. decided[t].key = k
  BY <1>2
<1> QED
  BY <1>4, <1>5 DEF Buffered

(* ---- recording tools ----------------------------------------------------------- *)

\* However the recording of a buffer ends, what was recorded of it was in it, and
\* the tool whose session was not updated is none of those that are done.
LEMMA RecordingsOf ==
  ASSUME NEW entries \in Seq(Entries), Distinct(entries), NEW r \in Recordings(entries)
  PROVE  /\ r.done \subseteq ToolsOf(entries) /\ r.half \subseteq ToolsOf(entries)
         /\ r.done \cap r.half = {} /\ ToolsOf(entries) \subseteq Tools
<1> DEFINE tools(n) == {entries[i].tool : i \in 1 .. n}
<1>1. Len(entries) \in Nat /\ DOMAIN entries = 1 .. Len(entries)
  OBVIOUS
<1>2. ToolsOf(entries) \subseteq Tools
  <2>1. \A i \in DOMAIN entries : entries[i] \in Entries
    OBVIOUS
  <2> QED
    BY <2>1 DEF ToolsOf, Entries
<1>3. \A n \in 0 .. Len(entries) : tools(n) \subseteq ToolsOf(entries)
  BY <1>1 DEF ToolsOf
<1>4. CASE r = [done |-> tools(Len(entries)), half |-> {}]
  BY <1>1, <1>2, <1>3, <1>4
<1>5. ASSUME NEW n \in 1 .. Len(entries), r = [done |-> tools(n - 1), half |-> {}]
      PROVE  r.done \subseteq ToolsOf(entries) /\ r.half = {}
  <2>1. n - 1 \in 0 .. Len(entries)
    OBVIOUS
  <2> QED
    BY <1>3, <1>5, <2>1
<1>6. ASSUME NEW n \in 1 .. Len(entries),
             r = [done |-> tools(n - 1), half |-> {entries[n].tool}]
      PROVE  /\ r.done \subseteq ToolsOf(entries) /\ r.half \subseteq ToolsOf(entries)
             /\ r.done \cap r.half = {}
  <2>1. n - 1 \in 0 .. Len(entries) /\ n \in DOMAIN entries
    BY <1>1
  <2>2. r.done = tools(n - 1) /\ r.half = {entries[n].tool}
    BY <1>6
  <2>3. \A i \in 1 .. n - 1 : i \in DOMAIN entries /\ i # n
    BY <1>1
  <2>4. entries[n].tool \notin tools(n - 1)
    BY <2>1, <2>3 DEF Distinct
  <2>5. entries[n].tool \in ToolsOf(entries)
    BY <2>1 DEF ToolsOf
  <2> HIDE DEF tools
  <2> QED
    BY <1>3, <2>1, <2>2, <2>4, <2>5
<1>7. \/ r = [done |-> tools(Len(entries)), half |-> {}]
      \/ \E n \in 1 .. Len(entries) :
           \/ r = [done |-> tools(n - 1), half |-> {}]
           \/ r = [done |-> tools(n - 1), half |-> {entries[n].tool}]
  BY DEF Recordings
<1> HIDE DEF tools
<1> QED
  BY <1>2, <1>4, <1>5, <1>6, <1>7

\* Recording tools keeps the rows and the counter in step.
LEMMA RecordKeeps ==
  ASSUME ToolAssumption, ToolTypeOK, CountInv, NEW entries, NEW usage \in 0 .. MaxRequests,
         NEW done \in SUBSET Tools, NEW half \in SUBSET Tools, done \cap half = {},
         NEW known \in BOOLEAN, RecordTools(entries, usage, done, half, known)
  PROVE  /\ toolRows' \in [Tools -> {NoTool} \cup ToolCalls] /\ toolCounter' \in Nat
         /\ uncounted' \subseteq Tools /\ CountInv'
         /\ \A t \in done \cup half : toolRows'[t] # NoTool
         /\ \A t \in Tools : toolRows[t] # NoTool => toolRows'[t] # NoTool
<1> DEFINE old == Stored(toolRows)
           newDone == New(done)
           newHalf == New(half)
<1>1. \A t \in Tools : [usage |-> usage, timed |-> IsTimed(entries, t)] \in ToolCalls
  <2> SUFFICES ASSUME NEW t \in Tools
               PROVE  [usage |-> usage, timed |-> IsTimed(entries, t)] \in ToolCalls
    OBVIOUS
  <2>1. IsTimed(entries, t) \in BOOLEAN
    BY DEF IsTimed
  <2> QED
    BY <2>1 DEF ToolCalls
<1>2. /\ toolRows' \in [Tools -> {NoTool} \cup ToolCalls]
      /\ \A t \in Tools : toolRows'[t] # NoTool <=> t \in New(done \cup half) \/ toolRows[t] # NoTool
  BY <1>1 DEF RecordTools, ToolTypeOK, ToolAssumption
<1>3. /\ New(done \cup half) = newDone \cup newHalf
      /\ newDone \cap newHalf = {} /\ newDone \cap old = {} /\ newHalf \cap old = {}
      /\ newDone \subseteq Tools /\ newHalf \subseteq Tools /\ old \subseteq Tools
  BY DEF New, Stored
<1>4. Stored(toolRows)' = old \cup newDone \cup newHalf
  BY <1>2, <1>3 DEF Stored
<1>5. /\ \A t \in done \cup half : toolRows'[t] # NoTool
      /\ \A t \in Tools : toolRows[t] # NoTool => toolRows'[t] # NoTool
  BY <1>2 DEF New
<1>6. /\ uncounted \subseteq old /\ toolCounter \in Nat
      /\ toolCounter + Cardinality(uncounted) = Cardinality(old)
  BY DEF CountInv, ToolCountsFollowRows, ToolTypeOK, Stored
<1>7. /\ toolCounter' = toolCounter + (IF known THEN Cardinality(newDone) ELSE 0)
      /\ uncounted' = uncounted \cup newHalf \cup (IF known THEN {} ELSE newDone)
  BY DEF RecordTools
<1> HIDE DEF old, newDone, newHalf
<1>8. /\ IsFiniteSet(old) /\ IsFiniteSet(newDone) /\ IsFiniteSet(newHalf)
      /\ IsFiniteSet(uncounted)
  BY <1>3, <1>6, FS_Subset DEF ToolAssumption
<1>9. /\ Cardinality(old) \in Nat /\ Cardinality(newDone) \in Nat
      /\ Cardinality(newHalf) \in Nat /\ Cardinality(uncounted) \in Nat
  BY <1>8, FS_CardinalityType
<1>10. \A S, T : IsFiniteSet(S) /\ IsFiniteSet(T) /\ S \cap T = {} =>
         /\ IsFiniteSet(S \cup T)
         /\ Cardinality(S \cup T) = Cardinality(S) + Cardinality(T)
  <2> SUFFICES ASSUME NEW S, NEW T, IsFiniteSet(S), IsFiniteSet(T), S \cap T = {}
               PROVE  /\ IsFiniteSet(S \cup T)
                      /\ Cardinality(S \cup T) = Cardinality(S) + Cardinality(T)
    OBVIOUS
  <2>1. /\ IsFiniteSet(S \cup T)
        /\ Cardinality(S \cup T) = Cardinality(S) + Cardinality(T) - Cardinality(S \cap T)
    BY FS_Union
  <2>2. Cardinality(S \cap T) = 0
    BY FS_EmptySet
  <2>3. Cardinality(S) \in Nat /\ Cardinality(T) \in Nat
    BY FS_CardinalityType
  <2> QED
    BY <2>1, <2>2, <2>3
<1>11. Cardinality(old \cup newDone \cup newHalf)
         = Cardinality(old) + Cardinality(newDone) + Cardinality(newHalf)
  <2>1. /\ IsFiniteSet(old \cup newDone)
        /\ Cardinality(old \cup newDone) = Cardinality(old) + Cardinality(newDone)
    BY <1>3, <1>8, <1>10
  <2>2. (old \cup newDone) \cap newHalf = {}
    BY <1>3
  <2> QED
    BY <1>8, <1>10, <2>1, <2>2
<1>12. uncounted \cap newHalf = {} /\ uncounted \cap newDone = {}
  BY <1>3, <1>6
<1>13. /\ IsFiniteSet(uncounted \cup newHalf)
       /\ Cardinality(uncounted \cup newHalf) = Cardinality(uncounted) + Cardinality(newHalf)
  BY <1>8, <1>10, <1>12
<1>14. /\ toolCounter' \in Nat
       /\ toolCounter' + Cardinality(uncounted')
            = Cardinality(old \cup newDone \cup newHalf)
       /\ uncounted' \subseteq old \cup newDone \cup newHalf
  <2>1. CASE known
    <3>1. toolCounter' = toolCounter + Cardinality(newDone) /\ uncounted' = uncounted \cup newHalf
      BY <1>7, <2>1
    <3> QED
      BY <1>6, <1>9, <1>11, <1>13, <3>1
  <2>2. CASE ~known
    <3>1. toolCounter' = toolCounter /\ uncounted' = (uncounted \cup newHalf) \cup newDone
      BY <1>6, <1>7, <2>2
    <3>2. (uncounted \cup newHalf) \cap newDone = {}
      BY <1>3, <1>12
    <3>3. Cardinality((uncounted \cup newHalf) \cup newDone)
            = Cardinality(uncounted) + Cardinality(newHalf) + Cardinality(newDone)
      BY <1>8, <1>10, <1>13, <3>2
    <3> QED
      BY <1>6, <1>9, <1>11, <3>1, <3>3
  <2> QED
    BY <2>1, <2>2
<1>15. CountInv'
  BY <1>4, <1>14 DEF CountInv, ToolCountsFollowRows, Stored
<1> QED
  BY <1>2, <1>3, <1>5, <1>14, <1>15

(* ---- the records ---------------------------------------------------------------- *)

\* A handler that records tools, once it is known what becomes of the buffers.
LEMMA RecordingStep ==
  ASSUME ToolAssumption, ToolInv, NEW entries \in Seq(Entries), Distinct(entries),
         NEW r \in Recordings(entries), NEW usage \in 0 .. MaxRequests, NEW known \in BOOLEAN,
         RecordTools(entries, usage, r.done, r.half, known)
  PROVE  /\ toolRows' \in [Tools -> {NoTool} \cup ToolCalls] /\ toolCounter' \in Nat
         /\ uncounted' \subseteq Tools /\ CountInv'
         /\ \A t \in r.done \cup r.half : toolRows'[t] # NoTool
         /\ \A t \in Tools : toolRows[t] # NoTool => toolRows'[t] # NoTool
         /\ r.done \cup r.half \subseteq Tools
<1>1. /\ r.done \subseteq Tools /\ r.half \subseteq Tools /\ r.done \cap r.half = {}
  BY RecordingsOf
<1>2. PICK done, half : done = r.done /\ half = r.half
  OBVIOUS
<1>3. /\ done \in SUBSET Tools /\ half \in SUBSET Tools /\ done \cap half = {}
      /\ RecordTools(entries, usage, done, half, known)
  BY <1>1, <1>2
<1>4. /\ toolRows' \in [Tools -> {NoTool} \cup ToolCalls] /\ toolCounter' \in Nat
      /\ uncounted' \subseteq Tools /\ CountInv'
      /\ \A t \in done \cup half : toolRows'[t] # NoTool
      /\ \A t \in Tools : toolRows[t] # NoTool => toolRows'[t] # NoTool
  <2>1. ToolTypeOK /\ CountInv
    BY DEF ToolInv
  <2> HIDE <1>2
  <2> QED
    BY <1>3, <2>1, RecordKeeps
<1> QED
  BY <1>1, <1>2, <1>4

\* The types of what a handler keeps beside the buffers and the rows.
Surroundings ==
  /\ lastUsage \in [Prompts -> 0 .. MaxRequests]
  /\ codexState \subseteq Conversations
  /\ promptLengths \in [Keys -> 0 .. MaxLengths]
  /\ sessionKnown \in BOOLEAN /\ usageRows \in 0 .. MaxRequests

LEMMA ToolTypes ==
  ToolTypeOK <=> /\ Surroundings
                 /\ toolBuffer \in [Keys -> Seq(Entries)]
                 /\ toolRows \in [Tools -> {NoTool} \cup ToolCalls] /\ toolCounter \in Nat
                 /\ decided \in [Tools -> {NoTool} \cup Decisions]
                 /\ uncounted \subseteq Tools /\ lostTools \subseteq Tools
BY DEF ToolTypeOK, Surroundings, Entries

\* A stored usage row is a number the bound allows.
LEMMA StoredRow ==
  ASSUME ToolAssumption, Surroundings, NEW known \in BOOLEAN, UsageStored(known)
  PROVE  usageRows' \in 0 .. MaxRequests /\ sessionKnown' = known /\ sessionKnown' \in BOOLEAN
BY DEF UsageStored, Surroundings, ToolAssumption

LEMMA SurroundingsStep ==
  ASSUME ToolAssumption, Surroundings, ToolNext
  PROVE  Surroundings'
<1> USE DEF Surroundings
<1>1. PICK k \in Keys :
        \/ UserPrompt(k) \/ CodexEvent(k)
        \/ \E t \in Tools :
             \/ \E at \in MomentsOf(k) : ToolDecision(k, t, at)
             \/ ToolResult(k, t) \/ ToolTime(k, t)
        \/ \E known \in BOOLEAN :
             \/ \E cut \in 1 .. MaxMoments + 1 : ApiRequest(k, cut, known)
             \/ CodexCompleted(k, known) \/ MessageCompleted(k, known)
        \/ UsageNotRecorded(k)
        \/ EvictTools(k) \/ EvictUsage(k) \/ EvictState(k)
        \/ CollectorRestart
  BY DEF ToolNext
<1>2. MaxRequests \in Nat
  BY DEF ToolAssumption
<1>4. ASSUME Consumed(k)
      PROVE  promptLengths' \in [Keys -> 0 .. MaxLengths]
  <2>1. promptLengths[k] \in 0 .. MaxLengths /\ MaxLengths \in Nat
    BY DEF ToolAssumption
  <2>2. (IF promptLengths[k] > 0 THEN promptLengths[k] - 1 ELSE 0) \in 0 .. MaxLengths
    BY <2>1
  <2> QED
    BY <1>4, <2>2 DEF Consumed
<1>5. CASE UserPrompt(k)
  <2>1. promptLengths[k] + 1 \in 0 .. MaxLengths
    BY <1>5 DEF UserPrompt, ToolAssumption
  <2> QED
    BY <1>5, <2>1 DEF UserPrompt
<1>6. CASE CodexEvent(k)
  BY <1>6 DEF CodexEvent
<1>7. ASSUME NEW t \in Tools,
             \/ \E at \in MomentsOf(k) : ToolDecision(k, t, at)
             \/ ToolResult(k, t) \/ ToolTime(k, t)
      PROVE  Surroundings'
  <2>1. UNCHANGED <<lastUsage, codexState, promptLengths, sessionKnown, usageRows>>
    BY <1>7 DEF ToolDecision, ToolResult, ToolTime
  <2> QED
    BY <2>1 DEF Keys
<1>8. ASSUME NEW known \in BOOLEAN, NEW cut \in 1 .. MaxMoments + 1, ApiRequest(k, cut, known)
      PROVE  Surroundings'
  <2>1. /\ \/ lastUsage' = [lastUsage EXCEPT ![k] = usageRows']
           \/ lastUsage' = lastUsage
        /\ Consumed(k) /\ codexState' = codexState /\ UsageStored(known)
    BY <1>8 DEF ApiRequest
  <2>2. usageRows' \in 0 .. MaxRequests /\ sessionKnown' \in BOOLEAN
    BY <2>1, StoredRow
  <2>3. lastUsage' \in [Prompts -> 0 .. MaxRequests]
    BY <2>1, <2>2
  <2> QED
    BY <1>4, <2>1, <2>2, <2>3
<1>9. ASSUME NEW known \in BOOLEAN, CodexCompleted(k, known) \/ MessageCompleted(k, known)
      PROVE  Surroundings'
  <2>1. /\ Consumed(k) \/ promptLengths' = promptLengths
        /\ codexState' \subseteq codexState /\ lastUsage' = lastUsage
        /\ UsageStored(known)
    BY <1>9 DEF CodexCompleted, MessageCompleted, CodexFields, OpenCodeFields, RecordPopped
  <2>2. usageRows' \in 0 .. MaxRequests /\ sessionKnown' \in BOOLEAN
    BY <2>1, StoredRow
  <2> QED
    BY <1>4, <2>1, <2>2
<1>10. CASE UsageNotRecorded(k)
  <2>1. /\ Consumed(k) \/ promptLengths' = promptLengths
        /\ codexState' \subseteq codexState /\ lastUsage' = lastUsage
        /\ sessionKnown' = sessionKnown /\ usageRows' = usageRows
    BY <1>10 DEF UsageNotRecorded, ClaudeFields, CodexFields, OpenCodeFields
  <2> QED
    BY <1>4, <2>1
<1>11. CASE EvictTools(k)
  BY <1>11 DEF EvictTools
<1>12. CASE EvictUsage(k)
  <2>1. 0 \in 0 .. MaxRequests
    BY <1>2
  <2> QED
    BY <1>12, <2>1 DEF EvictUsage
<1>13. CASE EvictState(k)
  <2>1. 0 \in 0 .. MaxLengths
    BY DEF ToolAssumption
  <2> QED
    BY <1>13, <2>1 DEF EvictState
<1>15. CASE CollectorRestart
  <2>1. 0 \in 0 .. MaxLengths /\ 0 \in 0 .. MaxRequests
    BY <1>2 DEF ToolAssumption
  <2> QED
    BY <1>15, <2>1 DEF CollectorRestart
<1> QED
  BY <1>1, <1>5, <1>6, <1>7, <1>8, <1>9, <1>10, <1>11, <1>12, <1>13, <1>15

LEMMA InitTools == ToolAssumption /\ ToolInit => ToolInv
<1> SUFFICES ASSUME ToolAssumption, ToolInit
             PROVE  ToolInv
  OBVIOUS
<1>1. ToolTypeOK
  <2>1. 0 \in 0 .. MaxRequests /\ 0 \in 0 .. MaxLengths
    BY DEF ToolAssumption
  <2>2. Surroundings
    BY <2>1 DEF ToolInit, Surroundings
  <2>3. toolBuffer \in [Keys -> Seq(Entries)]
    BY EmptyBuffer DEF ToolInit
  <2>4. /\ toolRows \in [Tools -> {NoTool} \cup ToolCalls] /\ toolCounter \in Nat
        /\ decided \in [Tools -> {NoTool} \cup Decisions]
        /\ uncounted \subseteq Tools /\ lostTools \subseteq Tools
    BY DEF ToolInit
  <2> QED
    BY <2>2, <2>3, <2>4, ToolTypes
<1>2. BuffersDistinct
  BY DEF ToolInit, BuffersDistinct, Distinct
<1>3. Stored(toolRows) = {} /\ uncounted = {} /\ toolCounter = 0
  BY DEF ToolInit, Stored
<1>4. CountInv
  BY <1>3, FS_EmptySet DEF CountInv, ToolCountsFollowRows, Stored
<1>5. NoToolForgotten
  BY DEF ToolInit, NoToolForgotten
<1> QED
  BY <1>1, <1>2, <1>4, <1>5 DEF ToolInv

\* The parts of the invariant after a step, put together.
LEMMA ToolInvNext ==
  ASSUME ToolAssumption, ToolInv, Surroundings',
         toolBuffer' \in [Keys -> Seq(Entries)], BuffersDistinct',
         toolRows' \in [Tools -> {NoTool} \cup ToolCalls], toolCounter' \in Nat,
         decided' = decided, uncounted' \subseteq Tools, CountInv',
         lostTools \subseteq lostTools', lostTools' \subseteq Tools,
         \A t \in Tools : toolRows[t] # NoTool => toolRows'[t] # NoTool,
         \A k \in Keys : \A t \in Buffered(k) :
           t \in Buffered(k)' \/ toolRows'[t] # NoTool \/ t \in lostTools'
  PROVE  ToolInv'
<1>1. ToolTypeOK /\ NoToolForgotten
  BY DEF ToolInv
<1>2. decided' \in [Tools -> {NoTool} \cup Decisions]
  BY <1>1 DEF ToolTypeOK
<1>3. ToolTypeOK'
  BY <1>2 DEF ToolTypeOK, Surroundings, Entries, Keys, Decisions, ToolCalls
<1>4. NoToolForgotten'
  BY <1>1, ToolsStay
<1> QED
  BY <1>3, <1>4 DEF ToolInv

\* A record that is only noted keeps the invariant.
LEMMA NotedKeeps ==
  ASSUME ToolAssumption, ToolInv, Surroundings',
         UNCHANGED <<toolBuffer, toolRows, toolCounter, decided, uncounted, lostTools>>
  PROVE  ToolInv'
<1>1. /\ toolBuffer' \in [Keys -> Seq(Entries)]
      /\ toolRows' \in [Tools -> {NoTool} \cup ToolCalls] /\ toolCounter' \in Nat
      /\ uncounted' \subseteq Tools /\ lostTools' \subseteq Tools
  BY ToolTypes DEF ToolInv
<1>2. BuffersDistinct' /\ CountInv'
  BY DEF ToolInv, BuffersDistinct, CountInv, ToolCountsFollowRows, Stored, Keys
<1>3. \A k \in Keys : Buffered(k)' = Buffered(k)
  BY DEF Buffered
<1> QED
  BY <1>1, <1>2, <1>3, ToolInvNext

\* Buffers that are dropped with what is in them remembered as lost.
LEMMA DroppedKeeps ==
  ASSUME ToolAssumption, ToolInv, Surroundings',
         toolBuffer' \in [Keys -> Seq(Entries)], BuffersDistinct',
         UNCHANGED <<toolRows, toolCounter, decided, uncounted>>,
         NEW tools \in SUBSET Tools, lostTools' = lostTools \cup New(tools),
         \A k \in Keys : \A t \in Buffered(k) : t \in Buffered(k)' \/ t \in tools
  PROVE  ToolInv'
<1>1. /\ toolRows' \in [Tools -> {NoTool} \cup ToolCalls] /\ toolCounter' \in Nat
      /\ uncounted' \subseteq Tools /\ lostTools \subseteq Tools
  BY ToolTypes DEF ToolInv
<1>2. CountInv'
  BY DEF ToolInv, CountInv, ToolCountsFollowRows, Stored
<1>3. \A k \in Keys : \A t \in Buffered(k) :
        t \in Buffered(k)' \/ toolRows'[t] # NoTool \/ t \in lostTools'
  BY DEF New
<1>4. lostTools \subseteq lostTools' /\ lostTools' \subseteq Tools
  BY <1>1 DEF New
<1> QED
  BY <1>1, <1>2, <1>3, <1>4, ToolInvNext

\* The tools of a buffer are tools.
LEMMA BufferedTools ==
  ASSUME ToolTypeOK, NEW k \in Keys
  PROVE  /\ toolBuffer[k] \in Seq(Entries) /\ Buffered(k) = ToolsOf(toolBuffer[k])
         /\ Buffered(k) \subseteq Tools
<1>1. toolBuffer[k] \in Seq(Entries)
  BY ToolTypes
<1>2. \A i \in DOMAIN toolBuffer[k] : toolBuffer[k][i] \in Entries
  BY <1>1
<1> QED
  BY <1>1, <1>2 DEF Buffered, ToolsOf, Entries

\* A tool is decided, once or again: it joins the buffer if it is not there.
LEMMA DecisionKeeps ==
  ASSUME ToolAssumption, ToolInv, Surroundings', NEW k \in Keys, NEW t \in Tools,
         NEW at \in Moments, ToolDecision(k, t, at)
  PROVE  ToolInv'
<1>1. /\ toolBuffer \in [Keys -> Seq(Entries)] /\ BuffersDistinct /\ Surroundings
      /\ decided \in [Tools -> {NoTool} \cup Decisions] /\ ToolTypeOK
      /\ toolRows \in [Tools -> {NoTool} \cup ToolCalls] /\ toolCounter \in Nat
      /\ uncounted \subseteq Tools /\ lostTools \subseteq Tools
  BY ToolTypes DEF ToolInv
<1>2. /\ decided' = [decided EXCEPT ![t] = [key |-> k, at |-> at]]
      /\ toolBuffer' = [toolBuffer EXCEPT ![k] = Merged(k, Entry(t, at))]
  BY DEF ToolDecision
<1>4. [key |-> k, at |-> at] \in Decisions /\ Entry(t, at) \in Entries
  BY DEF Decisions, Entries, Entry
<1>5. decided' \in [Tools -> {NoTool} \cup Decisions]
  BY <1>1, <1>2, <1>4
<1> DEFINE old == toolBuffer[k]
           buffer == Merged(k, Entry(t, at))
<1>6. old \in Seq(Entries) /\ Distinct(old) /\ Buffered(k) = ToolsOf(old)
  BY <1>1, BufferedTools DEF BuffersDistinct
<1>7. /\ buffer \in Seq(Entries) /\ Distinct(buffer)
      /\ ToolsOf(buffer) = ToolsOf(old) \cup {t}
  <2>1. CASE t \in Buffered(k)
    <3>1. buffer = old
      BY <2>1 DEF Merged, Entry
    <3> QED
      BY <1>6, <2>1, <3>1
  <2>2. CASE t \notin Buffered(k)
    <3>1. buffer = Append(old, Entry(t, at))
      BY <2>2 DEF Merged, Entry
    <3> HIDE DEF buffer, old
    <3>2. /\ buffer \in Seq(Entries) /\ Len(buffer) = Len(old) + 1
          /\ \A i \in 1 .. Len(old) : buffer[i] = old[i]
          /\ buffer[Len(old) + 1] = Entry(t, at)
      BY <1>4, <1>6, <3>1, AppendProperties
    <3>3. /\ Len(old) \in Nat /\ DOMAIN old = 1 .. Len(old)
          /\ DOMAIN buffer = 1 .. Len(old) + 1
      BY <1>6, <3>2, LenProperties
    <3>4. /\ \A i \in DOMAIN old : old[i].tool # t /\ i \in DOMAIN buffer /\ buffer[i] = old[i]
          /\ Len(old) + 1 \in DOMAIN buffer /\ buffer[Len(old) + 1].tool = t
          /\ \A i \in DOMAIN buffer : i \in DOMAIN old \/ i = Len(old) + 1
      BY <1>6, <2>2, <3>2, <3>3 DEF ToolsOf, Entry
    <3>5. Distinct(buffer)
      BY <1>6, <3>4 DEF Distinct
    <3>6. ToolsOf(buffer) = ToolsOf(old) \cup {t}
      BY <3>4 DEF ToolsOf
    <3> QED
      BY <3>2, <3>5, <3>6
  <2> QED
    BY <2>1, <2>2
<1> HIDE DEF buffer, old
<1>8. /\ toolBuffer' \in [Keys -> Seq(Entries)] /\ BuffersDistinct'
      /\ \A q \in Keys : Buffered(q)' = IF q = k THEN ToolsOf(buffer) ELSE Buffered(q)
  <2>1. toolBuffer' = [toolBuffer EXCEPT ![k] = buffer]
    BY <1>2 DEF buffer
  <2> QED
    BY <1>1, <1>7, <2>1, BufferStep
<1>9. UNCHANGED <<toolRows, toolCounter, uncounted, lostTools>>
  BY DEF ToolDecision
<1>10. ToolTypeOK'
  BY <1>1, <1>5, <1>8, <1>9 DEF ToolTypeOK, Surroundings, Entries, Keys, Decisions, ToolCalls
<1>11. CountInv'
  BY <1>9 DEF ToolInv, CountInv, ToolCountsFollowRows, Stored
<1>12. NoToolForgotten'
  <2> SUFFICES ASSUME NEW u \in Tools, decided'[u] # NoTool
               PROVE  (toolRows[u] # NoTool \/ u \in Buffered(decided[u].key) \cup lostTools)'
    BY DEF NoToolForgotten
  <2>1. CASE u = t
    <3>1. decided'[u].key = k
      BY <1>1, <1>2, <2>1
    <3>2. u \in Buffered(k)'
      BY <1>7, <1>8, <2>1
    <3> QED
      BY <3>1, <3>2 DEF Buffered
  <2>2. CASE u # t
    <3>1. decided'[u] = decided[u]
      BY <1>1, <1>2, <2>2
    <3>2. PICK q : q = decided[u].key
      OBVIOUS
    <3>3. q \in Keys
      BY <1>1, <2>2, <3>1, <3>2 DEF Decisions
    <3>4. toolRows[u] # NoTool \/ u \in Buffered(q) \cup lostTools
      BY <3>1, <3>2 DEF ToolInv, NoToolForgotten
    <3>5. Buffered(q) \subseteq Buffered(q)'
      BY <1>6, <1>7, <1>8, <3>3
    <3>6. toolRows'[u] # NoTool \/ u \in Buffered(q)' \cup lostTools'
      BY <1>9, <3>4, <3>5
    <3>7. q = decided'[u].key
      BY <3>1, <3>2
    <3> QED
      BY <3>6, <3>7 DEF Buffered
  <2> QED
    BY <2>1, <2>2
<1> QED
  BY <1>8, <1>10, <1>11, <1>12 DEF ToolInv

\* The time of a tool is written into its entry or its row.
LEMMA TimeKeeps ==
  ASSUME ToolAssumption, ToolInv, Surroundings', NEW k \in Keys, NEW t \in Tools,
         ToolTime(k, t)
  PROVE  ToolInv'
<1>1. /\ toolBuffer \in [Keys -> Seq(Entries)] /\ BuffersDistinct /\ ToolTypeOK
      /\ toolRows \in [Tools -> {NoTool} \cup ToolCalls] /\ toolCounter \in Nat
      /\ uncounted \subseteq Tools /\ lostTools \subseteq Tools
  BY ToolTypes DEF ToolInv
<1>2. UNCHANGED <<toolCounter, decided, uncounted, lostTools>>
  BY DEF ToolTime
<1>3. CASE t \in Buffered(k)
  <2> DEFINE old == toolBuffer[k]
             buffer == Completed(k, t)
  <2>1. /\ toolBuffer' = [toolBuffer EXCEPT ![k] = buffer] /\ toolRows' = toolRows
    BY <1>3 DEF ToolTime
  <2>2. old \in Seq(Entries) /\ Distinct(old) /\ Buffered(k) = ToolsOf(old)
    BY <1>1, BufferedTools DEF BuffersDistinct
  <2>3. /\ DOMAIN old = 1 .. Len(old) /\ Len(old) \in Nat
        /\ \A i \in DOMAIN old : old[i] \in Entries
    BY <2>2
  <2>4. \A i \in DOMAIN old :
          /\ (IF old[i].tool = t THEN [old[i] EXCEPT !.timed = TRUE] ELSE old[i]) \in Entries
          /\ (IF old[i].tool = t THEN [old[i] EXCEPT !.timed = TRUE] ELSE old[i]).tool
               = old[i].tool
    BY <2>3 DEF Entries
  <2>5. /\ buffer \in [1 .. Len(old) -> Entries]
        /\ \A i \in DOMAIN old : buffer[i].tool = old[i].tool
    <3>1. buffer = [i \in 1 .. Len(old) |->
                      IF old[i].tool = t THEN [old[i] EXCEPT !.timed = TRUE] ELSE old[i]]
      BY <2>3 DEF Completed
    <3> HIDE DEF old, buffer
    <3> QED
      BY <2>3, <2>4, <3>1
  <2> HIDE DEF old, buffer
  <2>6. /\ buffer \in Seq(Entries) /\ DOMAIN buffer = DOMAIN old
    BY <2>3, <2>5
  <2>7. Distinct(buffer) /\ ToolsOf(buffer) = ToolsOf(old)
    BY <2>2, <2>5, <2>6 DEF Distinct, ToolsOf
  <2>8. /\ toolBuffer' \in [Keys -> Seq(Entries)] /\ BuffersDistinct'
        /\ \A q \in Keys : Buffered(q)' = IF q = k THEN ToolsOf(buffer) ELSE Buffered(q)
    BY <1>1, <2>1, <2>6, <2>7, BufferStep
  <2>9. CountInv'
    BY <1>2, <2>1 DEF ToolInv, CountInv, ToolCountsFollowRows, Stored
  <2>10. \A q \in Keys : \A u \in Buffered(q) : u \in Buffered(q)'
    BY <2>2, <2>7, <2>8
  <2> QED
    BY <1>1, <1>2, <2>1, <2>8, <2>9, <2>10, ToolInvNext
<1>4. CASE t \notin Buffered(k)
  <2>1. /\ toolBuffer' = toolBuffer /\ toolRows[t] # NoTool
        /\ toolRows' = [toolRows EXCEPT ![t] = TimedRow(toolRows[t])]
    BY <1>4 DEF ToolTime
  <2>2. TimedRow(toolRows[t]) \in ToolCalls /\ NoTool \notin ToolCalls
    <3>1. toolRows[t] \in ToolCalls
      BY <1>1, <2>1
    <3> QED
      BY <3>1 DEF TimedRow, ToolCalls, ToolAssumption
  <2>3. /\ toolRows' \in [Tools -> {NoTool} \cup ToolCalls]
        /\ \A u \in Tools : toolRows'[u] # NoTool <=> toolRows[u] # NoTool
    BY <1>1, <2>1, <2>2
  <2>4. Stored(toolRows') = Stored(toolRows)
    BY <2>3 DEF Stored
  <2>5. CountInv'
    BY <1>2, <2>4 DEF ToolInv, CountInv, ToolCountsFollowRows, Stored
  <2>6. toolBuffer' \in [Keys -> Seq(Entries)] /\ BuffersDistinct'
    BY <1>1, <2>1 DEF BuffersDistinct, Keys
  <2>7. \A q \in Keys : Buffered(q)' = Buffered(q)
    BY <2>1 DEF Buffered
  <2> QED
    BY <1>1, <1>2, <2>3, <2>5, <2>6, <2>7, ToolInvNext
<1> QED
  BY <1>3, <1>4

\* A tool that is timed by its result leaves the buffer and is recorded, or is lost
\* when its recording fails.
LEMMA ResultKeeps ==
  ASSUME ToolAssumption, ToolInv, Surroundings', NEW k \in Keys, NEW t \in Tools,
         ToolResult(k, t)
  PROVE  ToolInv'
<1> DEFINE entry == [Entry(t, decided[t].at) EXCEPT !.timed = TRUE]
           old == toolBuffer[k]
           places == {i \in DOMAIN old : old[i].tool # t}
<1>1. /\ toolBuffer \in [Keys -> Seq(Entries)] /\ BuffersDistinct /\ ToolTypeOK
      /\ lostTools \subseteq Tools /\ Surroundings
  BY ToolTypes DEF ToolInv
<1>2. old \in Seq(Entries) /\ Distinct(old) /\ Buffered(k) = ToolsOf(old)
  BY <1>1, BufferedTools DEF BuffersDistinct
<1>12. PICK one : one = <<entry>>
  OBVIOUS
<1>13. Len(one) = 1 /\ one[1].tool = t
  <2>1. entry.tool = t
    BY DEF Entry
  <2> HIDE DEF entry
  <2> QED
    BY <1>12, <2>1
<1>3. PICK r \in Recordings(one) :
        /\ RecordTools(one, lastUsage[k], r.done, r.half, sessionKnown)
        /\ lostTools' = lostTools \cup ({t} \ (r.done \cup r.half))
  BY <1>12 DEF ToolResult
<1> HIDE <1>12 DEF entry
<1>4. /\ k \in Prompts /\ toolBuffer' = [toolBuffer EXCEPT ![k] = Kept(old, places)]
      /\ decided' = decided
  BY DEF ToolResult, Without
<1>5. lastUsage[k] \in 0 .. MaxRequests /\ sessionKnown \in BOOLEAN
  BY <1>1, <1>4 DEF Surroundings
<1>6. /\ toolRows' \in [Tools -> {NoTool} \cup ToolCalls] /\ toolCounter' \in Nat
      /\ uncounted' \subseteq Tools /\ CountInv'
      /\ \A u \in r.done \cup r.half : toolRows'[u] # NoTool
      /\ \A u \in Tools : toolRows[u] # NoTool => toolRows'[u] # NoTool
  <2>4. r.done \in SUBSET Tools /\ r.half \in SUBSET Tools /\ r.done \cap r.half = {}
    <3> DEFINE tools(n) == {one[i].tool : i \in 1 .. n}
    <3>1. tools(0) = {} /\ tools(1) = {t}
      <4>1. 1 .. 0 = {} /\ 1 .. 1 = {1}
        OBVIOUS
      <4> QED
        BY <1>13, <4>1
    <3>2. \/ r = [done |-> tools(Len(one)), half |-> {}]
          \/ \E n \in 1 .. Len(one) :
               \/ r = [done |-> tools(n - 1), half |-> {}]
               \/ r = [done |-> tools(n - 1), half |-> {one[n].tool}]
      BY DEF Recordings
    <3> HIDE DEF tools
    <3>3. \A n \in 1 .. Len(one) : n = 1 /\ n - 1 = 0
      BY <1>13
    <3>4. \/ r = [done |-> {t}, half |-> {}] \/ r = [done |-> {}, half |-> {}]
          \/ r = [done |-> {}, half |-> {t}]
      BY <1>13, <3>1, <3>2, <3>3
    <3> QED
      BY <3>4
  <2>5. PICK done, half : done = r.done /\ half = r.half
    OBVIOUS
  <2>6. /\ done \in SUBSET Tools /\ half \in SUBSET Tools /\ done \cap half = {}
        /\ RecordTools(one, lastUsage[k], done, half, sessionKnown)
    BY <1>3, <2>4, <2>5
  <2>7. /\ toolRows' \in [Tools -> {NoTool} \cup ToolCalls] /\ toolCounter' \in Nat
        /\ uncounted' \subseteq Tools /\ CountInv'
        /\ \A u \in done \cup half : toolRows'[u] # NoTool
        /\ \A u \in Tools : toolRows[u] # NoTool => toolRows'[u] # NoTool
    <3>1. CountInv
      BY DEF ToolInv
    <3>2. PICK usage, known : usage = lastUsage[k] /\ known = sessionKnown
      OBVIOUS
    <3>3. usage \in 0 .. MaxRequests /\ known \in BOOLEAN
      BY <1>5, <3>2
    <3>4. RecordTools(one, usage, done, half, known)
      BY <2>6, <3>2, Zenon
    <3>5. /\ ToolTypeOK /\ done \in SUBSET Tools /\ half \in SUBSET Tools
          /\ done \cap half = {}
      BY <1>1, <2>6
    <3> HIDE <2>5, <3>2
    <3> QED
      BY <3>1, <3>3, <3>4, <3>5, RecordKeeps
  <2> QED
    BY <2>5, <2>7
<1> HIDE DEF old, places
<1>7. /\ Kept(old, places) \in Seq(Entries) /\ Distinct(Kept(old, places))
      /\ \A u \in Buffered(k) : u # t => u \in ToolsOf(Kept(old, places))
  <2>1. places \in SUBSET DOMAIN old
    BY DEF places
  <2>2. /\ Kept(old, places) \in Seq(Entries) /\ Distinct(Kept(old, places))
        /\ \A i \in places : old[i].tool \in ToolsOf(Kept(old, places))
    BY <1>2, <2>1, KeptDistinct
  <2>3. \A u \in Buffered(k) : u # t => \E i \in places : old[i].tool = u
    BY <1>2 DEF places, ToolsOf
  <2> QED
    BY <2>2, <2>3
<1>8. /\ toolBuffer' \in [Keys -> Seq(Entries)] /\ BuffersDistinct'
      /\ \A q \in Keys :
           Buffered(q)' = IF q = k THEN ToolsOf(Kept(old, places)) ELSE Buffered(q)
  BY <1>1, <1>4, <1>7, BufferStep
<1>9. /\ lostTools \subseteq lostTools' /\ lostTools' \subseteq Tools
  BY <1>1, <1>3
<1>10. toolRows'[t] # NoTool \/ t \in lostTools'
  BY <1>3, <1>6
<1>11. \A q \in Keys : \A u \in Buffered(q) :
         u \in Buffered(q)' \/ toolRows'[u] # NoTool \/ u \in lostTools'
  BY <1>7, <1>8, <1>10
<1> QED
  BY <1>4, <1>6, <1>8, <1>9, <1>11, ToolInvNext

\* A completed request of Claude Code records the tools decided before the cut and
\* takes them out of the buffer, or fails and leaves it as it is.
LEMMA ApiKeeps ==
  ASSUME ToolAssumption, ToolInv, Surroundings', NEW k \in Keys, NEW cut \in Nat,
         NEW known \in BOOLEAN, ApiRequest(k, cut, known)
  PROVE  ToolInv'
<1> DEFINE old == toolBuffer[k]
           before == {i \in DOMAIN old : old[i].at < cut}
           after == {i \in DOMAIN old : old[i].at >= cut}
           flushed == Kept(old, before)
           left == Kept(old, after)
<1>1. /\ toolBuffer \in [Keys -> Seq(Entries)] /\ BuffersDistinct /\ ToolTypeOK
      /\ lostTools \subseteq Tools /\ Surroundings
  BY ToolTypes DEF ToolInv
<1>2. old \in Seq(Entries) /\ Distinct(old) /\ Buffered(k) = ToolsOf(old)
  BY <1>1, BufferedTools DEF BuffersDistinct
<1>3. PICK r \in Recordings(flushed) :
        /\ RecordTools(flushed, usageRows', r.done, r.half, known)
        /\ IF r.done = {flushed[i].tool : i \in DOMAIN flushed}
             THEN toolBuffer' = [toolBuffer EXCEPT ![k] = left]
             ELSE toolBuffer' = toolBuffer
  BY DEF ApiRequest, Flushed, Remaining
<1>4. UNCHANGED <<decided, lostTools>>
  BY DEF ApiRequest
<1>5. before \in SUBSET DOMAIN old /\ after \in SUBSET DOMAIN old
  OBVIOUS
<1>6. \A i \in DOMAIN old : i \in before \/ i \in after
  <2>1. \A i \in DOMAIN old : old[i].at \in Nat
    <3>1. \A i \in DOMAIN old : old[i] \in Entries
      BY <1>2
    <3> QED
      BY <3>1 DEF Entries, Moments
  <2> QED
    BY <2>1
<1> HIDE DEF before, after, old
<1>7. /\ flushed \in Seq(Entries) /\ Distinct(flushed)
      /\ \A i \in before : old[i].tool \in ToolsOf(flushed)
  BY <1>2, <1>5, KeptDistinct
<1>8. /\ left \in Seq(Entries) /\ Distinct(left)
      /\ \A i \in after : old[i].tool \in ToolsOf(left)
  BY <1>2, <1>5, KeptDistinct
<1> HIDE DEF flushed, left
<1>9. usageRows' \in 0 .. MaxRequests
  BY <1>1, StoredRow DEF ApiRequest
<1>10. /\ toolRows' \in [Tools -> {NoTool} \cup ToolCalls] /\ toolCounter' \in Nat
       /\ uncounted' \subseteq Tools /\ CountInv'
       /\ \A u \in r.done \cup r.half : toolRows'[u] # NoTool
       /\ \A u \in Tools : toolRows[u] # NoTool => toolRows'[u] # NoTool
  BY <1>3, <1>7, <1>9, RecordingStep
<1>11. CASE r.done = ToolsOf(flushed)
  <2>1. toolBuffer' = [toolBuffer EXCEPT ![k] = left]
    BY <1>3, <1>11 DEF ToolsOf
  <2>2. /\ toolBuffer' \in [Keys -> Seq(Entries)] /\ BuffersDistinct'
        /\ \A q \in Keys : Buffered(q)' = IF q = k THEN ToolsOf(left) ELSE Buffered(q)
    BY <1>1, <1>8, <2>1, BufferStep
  <2>3. \A u \in Buffered(k) : u \in ToolsOf(flushed) \/ u \in ToolsOf(left)
    <3>1. \A u \in Buffered(k) : \E i \in DOMAIN old : old[i].tool = u
      BY <1>2 DEF ToolsOf
    <3> QED
      BY <1>6, <1>7, <1>8, <3>1
  <2>4. \A q \in Keys : \A u \in Buffered(q) : u \in Buffered(q)' \/ toolRows'[u] # NoTool
    BY <1>10, <1>11, <2>2, <2>3
  <2> QED
    BY <1>1, <1>4, <1>10, <2>2, <2>4, ToolInvNext
<1>12. CASE r.done # ToolsOf(flushed)
  <2>1. toolBuffer' = toolBuffer
    BY <1>3, <1>12 DEF ToolsOf
  <2>2. toolBuffer' \in [Keys -> Seq(Entries)] /\ BuffersDistinct'
    BY <1>1, <2>1 DEF BuffersDistinct, Keys
  <2>3. \A q \in Keys : \A u \in Buffered(q) : u \in Buffered(q)'
    BY <2>1 DEF Buffered
  <2> QED
    BY <1>1, <1>4, <1>10, <2>2, <2>3, ToolInvNext
<1> QED
  BY <1>11, <1>12

\* A completed request of the other agents takes the whole buffer.
LEMMA CompletedKeeps ==
  ASSUME ToolAssumption, ToolInv, Surroundings', NEW k \in Keys,
         NEW known \in BOOLEAN, CodexCompleted(k, known) \/ MessageCompleted(k, known)
  PROVE  ToolInv'
<1> DEFINE old == toolBuffer[k]
<1>1. /\ toolBuffer \in [Keys -> Seq(Entries)] /\ BuffersDistinct /\ ToolTypeOK
      /\ lostTools \subseteq Tools /\ Surroundings
  BY ToolTypes DEF ToolInv
<1>2. old \in Seq(Entries) /\ Distinct(old) /\ Buffered(k) \subseteq Tools
  BY <1>1, BufferedTools DEF BuffersDistinct
<1>3. PICK r \in Recordings(old) :
        /\ RecordTools(old, usageRows', r.done, r.half, known)
        /\ lostTools' = lostTools \cup (New(Buffered(k)) \ (r.done \cup r.half))
  BY DEF CodexCompleted, MessageCompleted, RecordPopped
<1>4. toolBuffer' = [toolBuffer EXCEPT ![k] = <<>>] /\ decided' = decided
  BY DEF CodexCompleted, MessageCompleted, RecordPopped, CodexFields, OpenCodeFields
<1>5. usageRows' \in 0 .. MaxRequests
  BY <1>1, StoredRow DEF CodexCompleted, MessageCompleted, RecordPopped
<1> HIDE DEF old
<1>6. /\ toolRows' \in [Tools -> {NoTool} \cup ToolCalls] /\ toolCounter' \in Nat
      /\ uncounted' \subseteq Tools /\ CountInv'
      /\ \A u \in r.done \cup r.half : toolRows'[u] # NoTool
      /\ \A u \in Tools : toolRows[u] # NoTool => toolRows'[u] # NoTool
  BY <1>2, <1>3, <1>5, RecordingStep
<1>7. /\ toolBuffer' \in [Keys -> Seq(Entries)] /\ BuffersDistinct'
      /\ \A q \in Keys : Buffered(q)' = IF q = k THEN {} ELSE Buffered(q)
  BY <1>1, <1>4, EmptyBuffer, BufferStep
<1>8. lostTools \subseteq lostTools' /\ lostTools' \subseteq Tools
  BY <1>1, <1>2, <1>3 DEF New
<1>9. \A u \in Buffered(k) : toolRows'[u] # NoTool \/ u \in lostTools'
  BY <1>2, <1>3, <1>6 DEF New
<1>10. \A q \in Keys : \A u \in Buffered(q) :
         u \in Buffered(q)' \/ toolRows'[u] # NoTool \/ u \in lostTools'
  BY <1>7, <1>9
<1> QED
  BY <1>4, <1>6, <1>7, <1>8, <1>10, ToolInvNext

\* A request that was not stored, an eviction, and a restart drop buffers.
LEMMA DropsKeep ==
  ASSUME ToolAssumption, ToolInv, Surroundings', NEW k \in Keys,
         UsageNotRecorded(k) \/ EvictTools(k) \/ CollectorRestart
  PROVE  ToolInv'
<1>1. /\ toolBuffer \in [Keys -> Seq(Entries)] /\ BuffersDistinct /\ ToolTypeOK
  BY ToolTypes DEF ToolInv
<1>2. UNCHANGED <<toolRows, toolCounter, decided, uncounted>>
  BY DEF UsageNotRecorded, EvictTools, CollectorRestart
<1>3. ASSUME toolBuffer' = [toolBuffer EXCEPT ![k] = <<>>],
             lostTools' = lostTools \cup New(Buffered(k))
      PROVE  ToolInv'
  <2>1. /\ toolBuffer' \in [Keys -> Seq(Entries)] /\ BuffersDistinct'
        /\ \A q \in Keys : Buffered(q)' = IF q = k THEN {} ELSE Buffered(q)
    BY <1>1, <1>3, EmptyBuffer, BufferStep
  <2>2. PICK tools \in SUBSET Tools : tools = Buffered(k)
    BY <1>1, BufferedTools
  <2>3. lostTools' = lostTools \cup New(tools)
    BY <1>3, <2>2
  <2>4. \A q \in Keys : \A t \in Buffered(q) : t \in Buffered(q)' \/ t \in tools
    BY <2>1, <2>2
  <2> QED
    BY <1>2, <2>1, <2>3, <2>4, DroppedKeeps
<1>4. CASE UsageNotRecorded(k) /\ k \in Prompts
  <2>1. toolBuffer' = toolBuffer /\ lostTools' = lostTools
    BY <1>4 DEF UsageNotRecorded, ClaudeFields, CodexFields, OpenCodeFields, ToolAssumption
  <2> QED
    BY <1>2, <2>1, NotedKeeps
<1>5. CASE UsageNotRecorded(k) /\ k \notin Prompts
  BY <1>3, <1>5 DEF UsageNotRecorded, ClaudeFields, CodexFields, OpenCodeFields
<1>6. CASE EvictTools(k)
  BY <1>3, <1>6 DEF EvictTools
<1>7. CASE CollectorRestart
  <2>1. \A q \in Keys : toolBuffer'[q] = <<>>
    BY <1>7 DEF CollectorRestart
  <2>2. toolBuffer' \in [Keys -> Seq(Entries)]
    BY <1>7, EmptyBuffer DEF CollectorRestart
  <2>3. BuffersDistinct'
    BY <2>1 DEF BuffersDistinct, Distinct, Keys
  <2>4. PICK tools \in SUBSET Tools : tools = UNION {Buffered(q) : q \in Keys}
    <3>1. \A q \in Keys : Buffered(q) \subseteq Tools
      BY <1>1, BufferedTools
    <3> QED
      BY <3>1
  <2>5. lostTools' = lostTools \cup New(tools)
    BY <1>7, <2>4 DEF CollectorRestart
  <2>6. \A q \in Keys : \A t \in Buffered(q) : t \in tools
    BY <2>4
  <2> QED
    BY <1>2, <2>2, <2>3, <2>5, <2>6, DroppedKeeps
<1> QED
  BY <1>3, <1>4, <1>5, <1>6, <1>7

LEMMA ToolStep ==
  ASSUME ToolAssumption, ToolInv, [ToolNext]_toolVars
  PROVE  ToolInv'
<1>1. CASE UNCHANGED toolVars
  <2>1. Surroundings'
    BY <1>1, ToolTypes DEF ToolInv, Surroundings, toolVars, Keys
  <2> QED
    BY <1>1, <2>1, NotedKeeps DEF toolVars
<1>2. CASE ToolNext
  <2>1. Surroundings'
    BY <1>2, ToolTypes, SurroundingsStep DEF ToolInv
  <2>2. PICK k \in Keys :
          \/ UserPrompt(k) \/ CodexEvent(k)
          \/ \E t \in Tools :
               \/ \E at \in MomentsOf(k) : ToolDecision(k, t, at)
               \/ ToolResult(k, t) \/ ToolTime(k, t)
          \/ \E known \in BOOLEAN :
               \/ \E cut \in 1 .. MaxMoments + 1 : ApiRequest(k, cut, known)
               \/ CodexCompleted(k, known) \/ MessageCompleted(k, known)
          \/ UsageNotRecorded(k)
          \/ EvictTools(k) \/ EvictUsage(k) \/ EvictState(k)
          \/ CollectorRestart
    BY <1>2 DEF ToolNext
  <2>3. CASE UserPrompt(k) \/ CodexEvent(k) \/ EvictUsage(k) \/ EvictState(k)
    <3>1. UNCHANGED <<toolBuffer, toolRows, toolCounter, decided, uncounted, lostTools>>
      BY <2>3 DEF UserPrompt, CodexEvent, EvictUsage, EvictState
    <3> QED
      BY <2>1, <3>1, NotedKeeps
  <2>4. ASSUME NEW t \in Tools, ToolResult(k, t) \/ ToolTime(k, t)
        PROVE  ToolInv'
    BY <2>1, <2>4, ResultKeeps, TimeKeeps
  <2>8. ASSUME NEW t \in Tools, NEW at \in MomentsOf(k), ToolDecision(k, t, at)
        PROVE  ToolInv'
    <3>1. at \in Moments
      BY DEF MomentsOf
    <3> QED
      BY <2>1, <2>8, <3>1, DecisionKeeps
  <2>5. ASSUME NEW known \in BOOLEAN, NEW cut \in 1 .. MaxMoments + 1, ApiRequest(k, cut, known)
        PROVE  ToolInv'
    <3>1. cut \in Nat
      OBVIOUS
    <3> QED
      BY <2>1, <2>5, <3>1, ApiKeeps
  <2>6. ASSUME NEW known \in BOOLEAN, CodexCompleted(k, known) \/ MessageCompleted(k, known)
        PROVE  ToolInv'
    BY <2>1, <2>6, CompletedKeeps
  <2>7. CASE UsageNotRecorded(k) \/ EvictTools(k) \/ CollectorRestart
    BY <2>1, <2>7, DropsKeep
  <2> QED
    BY <2>2, <2>3, <2>4, <2>5, <2>6, <2>7, <2>8
<1> QED
  BY <1>1, <1>2

\* The session counts each recorded tool once, and misses only those whose update
\* failed or that came before the session (ToolCountsFollowRows), however often and in
\* whatever order the pieces of a tool arrive (record_tool_call,
\* upsert_session_from_tool_call).
THEOREM ToolsCounted == ToolSpec => []ToolCountsFollowRows
<1>1. ToolInv => ToolCountsFollowRows
  BY DEF ToolInv, CountInv
<1> QED
  BY <1>1, ToolAssumption, InitTools, ToolStep, PTL DEF ToolSpec

\* A tool whose decision arrived is buffered or recorded until it is evicted or
\* popped for a record that failed (NoToolForgotten; _buffer_tool_call,
\* _flush_claude_tools, _extract_codex_fields, _extract_opencode_fields).
THEOREM ToolsRemembered == ToolSpec => []NoToolForgotten
<1>1. ToolInv => NoToolForgotten
  BY DEF ToolInv
<1> QED
  BY <1>1, ToolAssumption, InitTools, ToolStep, PTL DEF ToolSpec

===============================================================================
