---------------------------- MODULE Selection_proofs ----------------------------
(***************************************************************************)
(* What Kept returns, for any sequence and any set.  The proofs are by     *)
(* induction over the natural numbers, stated for a set instead of a       *)
(* predicate.                                                              *)
(***************************************************************************)
EXTENDS Selection, WellFoundedInduction, SequenceTheorems, TLAPS

\* A non-empty set of natural numbers has a least element.
LEMMA LeastNatural ==
  ASSUME NEW S \in SUBSET Nat, S # {}
  PROVE  \E n \in S : \A m \in S : n <= m
<1>1. PICK n \in S : \A m \in S : ~(<<m, n>> \in OpToRel(<, Nat))
  BY NatLessThanWellFounded, WFMin, Zenon
<1>2. \A m \in S : ~(m < n)
  BY <1>1 DEF OpToRel
<1> QED
  BY <1>2

\* Induction over the natural numbers.
LEMMA NatSetInduction ==
  ASSUME NEW S, 0 \in S, \A n \in Nat : n \in S => n + 1 \in S
  PROVE  Nat \subseteq S
<1> SUFFICES ASSUME Nat \ S # {}
             PROVE  FALSE
  OBVIOUS
<1>1. PICK n \in Nat \ S : \A m \in Nat \ S : n <= m
  BY LeastNatural
<1>2. n # 0 /\ n - 1 \in Nat /\ n = (n - 1) + 1
  OBVIOUS
<1>3. n - 1 \in S
  BY <1>1, <1>2
<1> QED
  BY <1>2, <1>3

Step(seq, S, f, i) ==
  IF i = 0 THEN << >> ELSE IF seq[i] \in S THEN Append(f[i - 1], seq[i]) ELSE f[i - 1]

LEMMA KeptDefined ==
  ASSUME NEW seq, NEW S, Len(seq) \in Nat
  PROVE  \E f : /\ f[0] = << >>
                /\ \A n \in Nat : n + 1 <= Len(seq) =>
                     f[n + 1] = IF seq[n + 1] \in S THEN Append(f[n], seq[n + 1]) ELSE f[n]
                /\ Kept(seq, S) = f[Len(seq)]
<1> DEFINE Defined == {n \in Nat : \E f : f = [i \in 0..n |-> Step(seq, S, f, i)]}
<1>1. 0 \in Defined
  <2>1. [i \in 0..0 |-> << >>] = [i \in 0..0 |-> Step(seq, S, [k \in 0..0 |-> << >>], i)]
    BY DEF Step
  <2> QED
    BY <2>1
<1>2. ASSUME NEW n \in Nat, n \in Defined
      PROVE  n + 1 \in Defined
  <2>1. PICK f : f = [i \in 0..n |-> Step(seq, S, f, i)]
    BY <1>2
  <2> DEFINE g == [i \in 0..n + 1 |-> IF i = n + 1 THEN Step(seq, S, f, i) ELSE f[i]]
  <2>2. \A i \in 0..n + 1 : g[i] = Step(seq, S, g, i)
    <3> SUFFICES ASSUME NEW i \in 0..n + 1 PROVE g[i] = Step(seq, S, g, i)
      OBVIOUS
    <3>1. i # 0 => g[i - 1] = f[i - 1]
      OBVIOUS
    <3>2. g[i] = Step(seq, S, f, i)
      BY <2>1
    <3> QED
      BY <3>1, <3>2 DEF Step
  <2>3. g = [i \in 0..n + 1 |-> Step(seq, S, g, i)]
    BY <2>2
  <2> HIDE DEF g
  <2>4. \E h : h = [i \in 0..n + 1 |-> Step(seq, S, h, i)]
    BY <2>3
  <2> QED
    BY <2>4
<1> HIDE DEF Defined
<1>3. Len(seq) \in Defined
  BY <1>1, <1>2, NatSetInduction
<1>4. PICK f : f = [i \in 0..Len(seq) |-> Step(seq, S, f, i)]
  BY <1>3 DEF Defined
<1> DEFINE kept == CHOOSE g : g = [i \in 0..Len(seq) |-> Step(seq, S, g, i)]
<1>5. kept = [i \in 0..Len(seq) |-> Step(seq, S, kept, i)]
  BY <1>4
<1>6. Kept(seq, S) = kept[Len(seq)]
  BY DEF Kept, Step
<1> HIDE DEF kept
<1>7. kept[0] = << >>
  BY <1>5 DEF Step
<1>8. \A n \in Nat : n + 1 <= Len(seq) =>
         kept[n + 1] = IF seq[n + 1] \in S THEN Append(kept[n], seq[n + 1]) ELSE kept[n]
  <2> SUFFICES ASSUME NEW n \in Nat, n + 1 <= Len(seq)
               PROVE  kept[n + 1] = IF seq[n + 1] \in S THEN Append(kept[n], seq[n + 1])
                                    ELSE kept[n]
    OBVIOUS
  <2>1. n + 1 \in 0..Len(seq) /\ n + 1 # 0 /\ (n + 1) - 1 = n
    OBVIOUS
  <2>2. kept[n + 1] = Step(seq, S, kept, n + 1)
    BY <1>5, <2>1
  <2> QED
    BY <2>1, <2>2 DEF Step
<1> QED
  BY <1>6, <1>7, <1>8

\* f lists, in order, the places of seq whose elements are in S, up to place n: those of t.
Lists(f, t, seq, S, n) ==
  /\ f \in [1..Len(t) -> 1..n]
  /\ \A k \in 1..Len(t) : t[k] = seq[f[k]] /\ seq[f[k]] \in S
  /\ \A k, l \in 1..Len(t) : k < l => f[k] < f[l]
  /\ \A i \in 1..n : seq[i] \in S => \E k \in 1..Len(t) : f[k] = i

LEMMA ListsExtended ==
  ASSUME NEW T, NEW seq \in Seq(T), NEW S, NEW n \in Nat, n + 1 <= Len(seq),
         NEW t \in Seq(T), NEW f, Lists(f, t, seq, S, n)
  PROVE  /\ seq[n + 1] \in S =>
              \E g : Append(t, seq[n + 1]) \in Seq(T) /\ Lists(g, Append(t, seq[n + 1]), seq, S, n + 1)
         /\ seq[n + 1] \notin S => Lists(f, t, seq, S, n + 1)
<1>1. CASE seq[n + 1] \notin S
  BY <1>1 DEF Lists
<1>2. CASE seq[n + 1] \in S
  <2> DEFINE u == Append(t, seq[n + 1])
             g == [k \in 1..Len(t) + 1 |-> IF k = Len(t) + 1 THEN n + 1 ELSE f[k]]
  <2>1. seq[n + 1] \in T /\ Len(t) \in Nat
    OBVIOUS
  <2>2. /\ u \in Seq(T) /\ Len(u) = Len(t) + 1 /\ u[Len(t) + 1] = seq[n + 1]
        /\ \A k \in 1..Len(t) : u[k] = t[k]
    BY <2>1, AppendProperties
  <2>3. /\ g \in [1..Len(t) + 1 -> 1..n + 1] /\ g[Len(t) + 1] = n + 1
        /\ \A k \in 1..Len(t) : g[k] = f[k] /\ g[k] \in 1..n
    <3>1. \A k \in 1..Len(t) : f[k] \in 1..n
      BY DEF Lists
    <3>2. \A k \in 1..Len(t) + 1 : k = Len(t) + 1 \/ k \in 1..Len(t)
      BY <2>1
    <3>3. \A k \in 1..Len(t) : k # Len(t) + 1 /\ k \in 1..Len(t) + 1
      BY <2>1
    <3>4. n + 1 \in 1..n + 1 /\ 1..n \subseteq 1..n + 1 /\ Len(t) + 1 \in 1..Len(t) + 1
      BY <2>1
    <3> QED
      BY <3>1, <3>2, <3>3, <3>4
  <2> HIDE DEF u, g
  <2>4. \A k \in 1..Len(u) : u[k] = seq[g[k]] /\ seq[g[k]] \in S
    BY <1>2, <2>1, <2>2, <2>3 DEF Lists
  <2>5. \A k, l \in 1..Len(u) : k < l => g[k] < g[l]
    <3> SUFFICES ASSUME NEW k \in 1..Len(t) + 1, NEW l \in 1..Len(t) + 1, k < l
                 PROVE  g[k] < g[l]
      BY <2>2
    <3>1. k \in 1..Len(t) /\ (l = Len(t) + 1 \/ l \in 1..Len(t))
      BY <2>1
    <3>2. CASE l = Len(t) + 1
      BY <2>3, <3>1, <3>2
    <3>3. CASE l \in 1..Len(t)
      BY <2>3, <3>1, <3>3 DEF Lists
    <3> QED
      BY <3>1, <3>2, <3>3
  <2>6. \A i \in 1..n + 1 : seq[i] \in S => \E k \in 1..Len(u) : g[k] = i
    <3> SUFFICES ASSUME NEW i \in 1..n + 1, seq[i] \in S
                 PROVE  \E k \in 1..Len(u) : g[k] = i
      OBVIOUS
    <3>1. CASE i = n + 1
      BY <2>1, <2>2, <2>3, <3>1
    <3>2. CASE i \in 1..n
      <4>1. PICK k \in 1..Len(t) : f[k] = i
        BY <3>2 DEF Lists
      <4> QED
        BY <2>1, <2>2, <2>3, <4>1
    <3> QED
      BY <3>1, <3>2
  <2>7. Lists(g, u, seq, S, n + 1)
    BY <2>2, <2>3, <2>4, <2>5, <2>6 DEF Lists
  <2>8. u \in Seq(T)
    BY <2>2
  <2>9. \E h : u \in Seq(T) /\ Lists(h, u, seq, S, n + 1)
    BY <2>7, <2>8
  <2> QED
    BY <1>2, <2>9 DEF u
<1> QED
  BY <1>1, <1>2

LEMMA KeptProperties ==
  ASSUME NEW T, NEW seq \in Seq(T), NEW S
  PROVE  /\ Kept(seq, S) \in Seq(T)
         /\ \E f : Lists(f, Kept(seq, S), seq, S, Len(seq))
<1>0. Len(seq) \in Nat
  OBVIOUS
<1>1. PICK kept :
        /\ kept[0] = << >>
        /\ \A n \in Nat : n + 1 <= Len(seq) =>
             kept[n + 1] = IF seq[n + 1] \in S THEN Append(kept[n], seq[n + 1]) ELSE kept[n]
        /\ Kept(seq, S) = kept[Len(seq)]
  BY <1>0, KeptDefined
<1> DEFINE Good == {n \in Nat : n <= Len(seq) =>
                      kept[n] \in Seq(T) /\ \E f : Lists(f, kept[n], seq, S, n)}
<1>2. 0 \in Good
  <2>1. kept[0] = << >>
    BY <1>1
  <2>2. << >> \in Seq(T) /\ Len(<< >>) = 0
    BY EmptySeq
  <2>3. Lists(<< >>, << >>, seq, S, 0)
    BY <2>2 DEF Lists
  <2> QED
    BY <2>1, <2>2, <2>3
<1>3. ASSUME NEW n \in Nat, n \in Good
      PROVE  n + 1 \in Good
  <2> SUFFICES ASSUME n + 1 <= Len(seq)
               PROVE  kept[n + 1] \in Seq(T) /\ \E f : Lists(f, kept[n + 1], seq, S, n + 1)
    OBVIOUS
  <2>1. kept[n + 1] = IF seq[n + 1] \in S THEN Append(kept[n], seq[n + 1]) ELSE kept[n]
    BY <1>1
  <2>2. PICK f : kept[n] \in Seq(T) /\ Lists(f, kept[n], seq, S, n)
    BY <1>3
  <2> QED
    BY <2>1, <2>2, ListsExtended
<1> HIDE DEF Good
<1>4. Len(seq) \in Good
  BY <1>0, <1>2, <1>3, NatSetInduction
<1> QED
  BY <1>0, <1>1, <1>4 DEF Good
=============================================================================
