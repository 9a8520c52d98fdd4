--------------------------- MODULE SpotFlowProofs ---------------------------
(***************************************************************************)
(* Proofs about the scanner, its alerts and the legacy consumer, for any   *)
(* symbols, exchanges, books and dedupe window, any number of              *)
(* opportunities and any number of deaths.                                 *)
(***************************************************************************)
EXTENDS SpotFlow, FiniteSetTheorems, WellFoundedInduction, TLAPS

-----------------------------------------------------------------------------

(* Induction up to n over a set, in place of a predicate.                  *)
LEMMA SetInduction ==
    ASSUME NEW n \in Nat, NEW S, 0 \in S,
           \A k \in 0..n : k \in S /\ k < n => k + 1 \in S
    PROVE  0..n \subseteq S
<1> SUFFICES ASSUME (0..n) \ S # {} PROVE FALSE
  OBVIOUS
<1> DEFINE T == (0..n) \ S
<1>1. T \in SUBSET Nat /\ T # {}
  OBVIOUS
<1>2. \E x \in T : \A y \in T : <<y, x>> \notin OpToRel(<, Nat)
  BY <1>1, NatLessThanWellFounded, WFMin, Zenon
<1>3. PICK x \in T : \A y \in T : <<y, x>> \notin OpToRel(<, Nat)
  BY <1>2
<1>4. x # 0 /\ x \in 0..n /\ x \notin S
  OBVIOUS
<1>5. <<x - 1, x>> \in OpToRel(<, Nat)
  BY <1>4 DEF OpToRel
<1>6. x - 1 \notin T
  BY <1>3, <1>5, Zenon
<1> QED
  BY <1>4, <1>6

(* Recursion up to n has a solution.                                       *)
Steps(n, X) == [1..n -> [X -> X]]
Iterates(h, n, X, x0, step) ==
    h \in [0..n -> X] /\ h[0] = x0 /\ \A i \in 1..n : h[i] = step[i][h[i - 1]]

LEMMA RecursionExists ==
    ASSUME NEW n \in Nat, NEW X, NEW x0 \in X, NEW step \in Steps(n, X)
    PROVE  \E h : Iterates(h, n, X, x0, step)
<1> USE DEF Steps
<1> DEFINE Solves(h, k) == \A i \in 0..k : h[i] = IF i = 0 THEN x0 ELSE step[i][h[i - 1]]
           S == {k \in 0..n : \E h \in [0..k -> X] : Solves(h, k)}
<1>1. 0 \in S
  <2> DEFINE h == [i \in 0..0 |-> x0]
  <2>1. h \in [0..0 -> X] /\ Solves(h, 0)
    OBVIOUS
  <2> HIDE DEF h, Solves
  <2>2. \E g \in [0..0 -> X] : Solves(g, 0)
    BY <2>1
  <2> QED
    BY <2>2
<1>2. ASSUME NEW k \in 0..n, k \in S, k < n
      PROVE  k + 1 \in S
  <2>1. PICK h \in [0..k -> X] : Solves(h, k)
    BY <1>2
  <2> DEFINE g == [i \in 0..(k + 1) |-> IF i = k + 1 THEN step[i][h[k]] ELSE h[i]]
  <2>2. g \in [0..(k + 1) -> X]
    BY <1>2
  <2>3. ASSUME NEW i \in 0..(k + 1)
        PROVE  g[i] = IF i = 0 THEN x0 ELSE step[i][g[i - 1]]
    <3>1. CASE i = k + 1
      BY <1>2, <3>1
    <3>2. CASE i \in 0..k
      <4>1. g[i] = h[i] /\ (i # 0 => g[i - 1] = h[i - 1])
        BY <1>2, <3>2
      <4> QED
        BY <2>1, <3>2, <4>1
    <3> QED
      BY <3>1, <3>2
  <2>4. Solves(g, k + 1)
    BY <2>3
  <2> HIDE DEF g, Solves
  <2>5. k + 1 \in 0..n /\ \E e \in [0..(k + 1) -> X] : Solves(e, k + 1)
    BY <1>2, <2>2, <2>4
  <2> QED
    BY <2>5
<1>3. n \in S
  <2>1. \A k \in 0..n : k \in S /\ k < n => k + 1 \in S
    BY <1>2
  <2> HIDE DEF S
  <2>2. 0..n \subseteq S
    BY <1>1, <2>1, SetInduction
  <2> QED
    BY <2>2
<1>4. PICK h \in [0..n -> X] : Solves(h, n)
  BY <1>3
<1>5. h[0] = x0 /\ \A i \in 1..n : h[i] = step[i][h[i - 1]]
  BY <1>4
<1> QED
  BY <1>4, <1>5 DEF Iterates

(* The sums of the reference are sums.                                     *)
LEMMA SumsAre ==
    ASSUME NEW n \in Nat, NEW f \in [1..n -> Int]
    PROVE  /\ SumsOf(f, n) \in [0..n -> Int]
           /\ SumsOf(f, n)[0] = 0
           /\ \A i \in 1..n : SumsOf(f, n)[i] = SumsOf(f, n)[i - 1] + f[i]
<1> DEFINE Sums(h) == h = [i \in 0..n |-> IF i = 0 THEN 0 ELSE h[i - 1] + f[i]]
<1>1. PICK step \in Steps(n, Int) : \A i \in 1..n : \A x \in Int : step[i][x] = x + f[i]
  <2> DEFINE step == [i \in 1..n |-> [x \in Int |-> x + f[i]]]
  <2>1. step \in Steps(n, Int) /\ \A i \in 1..n : \A x \in Int : step[i][x] = x + f[i]
    BY DEF Steps
  <2> HIDE DEF step
  <2> QED
    BY <2>1
<1>2. PICK h : Iterates(h, n, Int, 0, step)
  <2>1. 0 \in Int
    OBVIOUS
  <2> QED
    BY <2>1, RecursionExists, Zenon
<1>3. h \in [0..n -> Int] /\ h[0] = 0 /\ \A i \in 1..n : h[i] = step[i][h[i - 1]]
  BY <1>2 DEF Iterates
<1>4. Sums(h)
  <2>1. ASSUME NEW i \in 0..n
        PROVE  h[i] = IF i = 0 THEN 0 ELSE h[i - 1] + f[i]
    <3>1. CASE i = 0
      BY <1>3, <3>1
    <3>2. CASE i \in 1..n
      <4>1. i - 1 \in 0..n /\ h[i] = step[i][h[i - 1]]
        BY <1>3, <3>2
      <4>2. h[i - 1] \in Int
        BY <1>3, <4>1
      <4>3. step[i][h[i - 1]] = h[i - 1] + f[i]
        BY <1>1, <3>2, <4>2, Zenon
      <4> QED
        BY <3>2, <4>1, <4>3
    <3> QED
      BY <3>1, <3>2
  <2> QED
    BY <1>3, <2>1
<1>5. SumsOf(f, n) = CHOOSE g : Sums(g)
  BY DEF SumsOf
<1>6. Sums(SumsOf(f, n))
  BY <1>4, <1>5
<1>7. \A i \in 0..n : SumsOf(f, n)[i] = IF i = 0 THEN 0 ELSE SumsOf(f, n)[i - 1] + f[i]
  BY <1>6
<1> DEFINE S == {k \in 0..n : SumsOf(f, n)[k] \in Int}
<1>8. 0 \in S
  BY <1>7
<1>9. \A k \in 0..n : k \in S /\ k < n => k + 1 \in S
  BY <1>7
<1>10. 0..n \subseteq S
  <2> HIDE DEF S
  <2> QED
    BY <1>8, <1>9, SetInduction
<1> QED
  BY <1>6, <1>7, <1>10

(* Base per quote of a level, and the loop's locals.                       *)
Weight(level) == PriceUnit \div level.price
Acc == [remaining : 0..Target, base : Nat, used : Nat]
StartAcc == [remaining |-> Target, base |-> 0, used |-> 0]

(* Facts of arithmetic.                                                    *)
LEMMA ProductsOfNats ==
    ASSUME NEW a \in Nat, NEW b \in Nat
    PROVE  a * b \in Nat
OBVIOUS

(* Prices divide the unit, so a level has a whole weight: base per quote.   *)
LEMMA LevelFacts ==
    ASSUME NEW level \in Level
    PROVE  /\ Quote(level) \in Nat
           /\ Weight(level) \in Nat \ {0}
           /\ level.price \in Nat \ {0}
           /\ level.price * Weight(level) = PriceUnit
<1>1. /\ level.price \in 1..PriceUnit /\ level.size \in Nat /\ PriceUnit \in Nat \ {0}
      /\ PriceUnit % level.price = 0
  BY OpportunityAssumption DEF OpportunityAssumption, Level
<1>2. Quote(level) \in Nat
  BY <1>1, ProductsOfNats DEF Quote
<1>3. level.price * (PriceUnit \div level.price) = PriceUnit
  BY <1>1
<1>4. PriceUnit \div level.price \in Nat
  BY <1>1
<1>5. PriceUnit \div level.price # 0
  BY <1>1, <1>3
<1> QED
  BY <1>1, <1>2, <1>3, <1>4, <1>5 DEF Weight

(* What one turn of the loop takes, and what it leaves.                    *)
LEMMA OneLevel ==
    ASSUME NEW acc \in Acc, NEW level \in Level
    PROVE  LET t == take_quote(level, acc.remaining)
               next == Filled(acc, level)
           IN  /\ next \in Acc
               /\ t \in 0..acc.remaining /\ t <= Quote(level)
               /\ t = Quote(level) \/ t = acc.remaining
               /\ next.remaining = acc.remaining - t
               /\ next.base = acc.base + t * Weight(level)
<1> DEFINE t == take_quote(level, acc.remaining)
           next == Filled(acc, level)
<1>1. Quote(level) \in Nat /\ Weight(level) \in Nat
  BY LevelFacts
<1>2. acc.remaining \in 0..Target /\ acc.base \in Nat /\ acc.used \in Nat /\ Target \in Nat
  BY OpportunityAssumption DEF OpportunityAssumption, Acc
<1>3. /\ t \in 0..acc.remaining /\ t <= Quote(level)
      /\ t = Quote(level) \/ t = acc.remaining
  BY <1>1, <1>2 DEF take_quote
<1>4. t * Weight(level) \in Nat
  <2> HIDE DEF t
  <2> QED
    BY <1>1, <1>2, <1>3, ProductsOfNats
<1>5. CASE t <= 0
  <2>1. t = 0 /\ next = acc
    BY <1>2, <1>3, <1>5 DEF Filled
  <2>2. t * Weight(level) = 0
    <3> HIDE DEF t
    <3> QED
      BY <1>1, <2>1
  <2> QED
    BY <1>2, <1>3, <2>1, <2>2
<1>6. CASE ~(t <= 0)
  <2>1. next = [remaining |-> acc.remaining - t, base |-> acc.base + t * Weight(level),
                used |-> acc.used + 1]
    BY <1>6 DEF Filled, Weight
  <2> HIDE DEF t, next
  <2>2. next \in Acc
    BY <1>2, <1>3, <1>4, <2>1 DEF Acc
  <2> QED
    BY <1>3, <2>1, <2>2 DEF t, next
<1> QED
  BY <1>5, <1>6

(* The loop's locals are what its turns make of them.                      *)
LEMMA LoopIs ==
    ASSUME NEW levels \in Seq(Level)
    PROVE  /\ LoopOver(levels) \in [0..Len(levels) -> Acc]
           /\ LoopOver(levels)[0] = StartAcc
           /\ \A i \in 1..Len(levels) :
                 LoopOver(levels)[i] = Filled(LoopOver(levels)[i - 1], levels[i])
<1> DEFINE n == Len(levels)
           Loop(h) == h = [i \in 0..n |-> IF i = 0 THEN StartAcc ELSE Filled(h[i - 1], levels[i])]
<1>1. n \in Nat /\ \A i \in 1..n : levels[i] \in Level
  OBVIOUS
<1>2. StartAcc \in Acc
  BY OpportunityAssumption DEF OpportunityAssumption, Acc, StartAcc
<1> HIDE DEF n
<1>3. PICK step \in Steps(n, Acc) :
          \A i \in 1..n : \A x \in Acc : step[i][x] = Filled(x, levels[i])
  <2> DEFINE step == [i \in 1..n |-> [x \in Acc |-> Filled(x, levels[i])]]
  <2>1. \A i \in 1..n : \A x \in Acc : Filled(x, levels[i]) \in Acc
    BY <1>1, OneLevel
  <2>2. step \in Steps(n, Acc) /\ \A i \in 1..n : \A x \in Acc : step[i][x] = Filled(x, levels[i])
    BY <2>1 DEF Steps
  <2> HIDE DEF step
  <2> QED
    BY <2>2
<1>4. PICK h : Iterates(h, n, Acc, StartAcc, step)
  BY <1>1, <1>2, RecursionExists, Zenon
<1>5. h \in [0..n -> Acc] /\ h[0] = StartAcc /\ \A i \in 1..n : h[i] = step[i][h[i - 1]]
  BY <1>4 DEF Iterates
<1>6. Loop(h)
  <2>1. ASSUME NEW i \in 0..n
        PROVE  h[i] = IF i = 0 THEN StartAcc ELSE Filled(h[i - 1], levels[i])
    <3>1. CASE i = 0
      BY <1>5, <3>1
    <3>2. CASE i \in 1..n
      <4>1. h[i] = step[i][h[i - 1]] /\ h[i - 1] \in Acc
        BY <1>1, <1>5, <3>2
      <4>2. step[i][h[i - 1]] = Filled(h[i - 1], levels[i])
        BY <1>3, <3>2, <4>1, Zenon
      <4> QED
        BY <3>2, <4>1, <4>2
    <3> QED
      BY <1>1, <3>1, <3>2
  <2> QED
    BY <1>5, <2>1
<1>7. LoopOver(levels) = CHOOSE g : Loop(g)
  BY DEF LoopOver, n, StartAcc
<1>8. Loop(LoopOver(levels))
  BY <1>6, <1>7
<1>9. \A i \in 0..n : LoopOver(levels)[i] = IF i = 0 THEN StartAcc
                                            ELSE Filled(LoopOver(levels)[i - 1], levels[i])
  BY <1>8
<1> DEFINE S == {k \in 0..n : LoopOver(levels)[k] \in Acc}
<1>10. 0 \in S
  BY <1>1, <1>2, <1>9
<1>11. ASSUME NEW k \in 0..n, k \in S, k < n
       PROVE  k + 1 \in S
  <2>1. LoopOver(levels)[k + 1] = Filled(LoopOver(levels)[k], levels[k + 1])
    BY <1>1, <1>9, <1>11
  <2>2. Filled(LoopOver(levels)[k], levels[k + 1]) \in Acc
    BY <1>1, <1>11, OneLevel
  <2> QED
    BY <1>1, <1>11, <2>1, <2>2
<1>12. 0..n \subseteq S
  <2>1. \A k \in 0..n : k \in S /\ k < n => k + 1 \in S
    BY <1>11
  <2> HIDE DEF S
  <2> QED
    BY <1>1, <1>10, <2>1, SetInduction
<1>13. LoopOver(levels) \in [0..n -> Acc]
  BY <1>8, <1>12
<1> QED
  BY <1>1, <1>9, <1>13 DEF n

LEMMA OneRoundMore ==
    ASSUME NEW a \in Nat, NEW b \in Nat
    PROVE  a * b \in Nat /\ a * (b + 1) = a * b + a /\ (a + 1) * b = a * b + b
OBVIOUS

LEMMA ProductMonotone ==
    ASSUME NEW a \in Nat, NEW b \in Nat, NEW c \in Nat, b <= c
    PROVE  a * b \in Nat /\ a * c \in Nat /\ a * b <= a * c
<1>1. a * (c - b) \in Nat
  OBVIOUS
<1>2. a * c = a * b + a * (c - b)
  OBVIOUS
<1> QED
  BY <1>1, <1>2

(* The cheaper of two levels gives more base.                              *)
LEMMA CheaperIsHeavier ==
    ASSUME NEW l \in Level, NEW m \in Level, l.price <= m.price
    PROVE  Weight(m) <= Weight(l)
<1>1. /\ l.price \in Nat \ {0} /\ m.price \in Nat \ {0} /\ Weight(l) \in Nat /\ Weight(m) \in Nat
      /\ l.price * Weight(l) = PriceUnit /\ m.price * Weight(m) = PriceUnit
  BY LevelFacts
<1> SUFFICES ASSUME Weight(l) + 1 <= Weight(m) PROVE FALSE
  BY <1>1
<1>2. l.price * (Weight(l) + 1) <= l.price * Weight(m)
  BY <1>1, ProductMonotone
<1>3. Weight(m) * l.price <= Weight(m) * m.price
  BY <1>1, ProductMonotone
<1>4. l.price * (Weight(l) + 1) = l.price * Weight(l) + l.price
  BY <1>1, OneRoundMore
<1>5. Weight(m) * l.price = l.price * Weight(m) /\ Weight(m) * m.price = PriceUnit
  BY <1>1
<1> QED
  BY <1>1, <1>2, <1>3, <1>4, <1>5

(* How far ahead the loop is of another way of spending, in quote (e) and  *)
(* in base (d), from one level to the next.                                *)
LEMMA OneLevelAhead ==
    ASSUME NEW d \in Int, NEW e \in Nat, NEW v \in Nat, NEW w \in Nat,
           NEW t \in Nat, NEW f \in Nat
    PROVE  /\ v <= w /\ e * w <= d => (e + t - f) * v <= d + t * v - f * v
           /\ w <= v /\ d <= e * w => d + t * v - f * v <= (e + t - f) * v
<1>1. (e + t - f) * v = e * v + t * v - f * v
  OBVIOUS
<1>2. v <= w => e * v <= e * w
  BY ProductMonotone
<1>3. w <= v => e * w <= e * v
  BY ProductMonotone
<1>4. e * v \in Int /\ e * w \in Int /\ t * v \in Int /\ f * v \in Int
  OBVIOUS
<1> QED
  BY <1>1, <1>2, <1>3, <1>4

(* What each turn of the loop takes.                                       *)
Taken(levels) ==
    [i \in 1..Len(levels) |-> LoopOver(levels)[i - 1].remaining - LoopOver(levels)[i].remaining]

(* The same, turn by turn.                                                 *)
LEMMA LoopSteps ==
    ASSUME NEW levels \in Seq(Level), NEW i \in 1..Len(levels)
    PROVE  LET now == LoopOver(levels)[i]
               before == LoopOver(levels)[i - 1]
               t == Taken(levels)[i]
           IN  /\ now \in Acc /\ before \in Acc
               /\ levels[i] \in Level
               /\ t \in 0..Target /\ t <= Quote(levels[i])
               /\ t = Quote(levels[i]) \/ t = before.remaining
               /\ now.remaining = before.remaining - t
               /\ now.base = before.base + t * Weight(levels[i])
<1> DEFINE now == LoopOver(levels)[i]
           before == LoopOver(levels)[i - 1]
           t == take_quote(levels[i], before.remaining)
<1>1. /\ levels[i] \in Level /\ i - 1 \in 0..Len(levels) /\ i \in 0..Len(levels)
  OBVIOUS
<1>2. before \in Acc /\ now \in Acc /\ now = Filled(before, levels[i])
  BY <1>1, LoopIs
<1>3. /\ t \in 0..before.remaining /\ t <= Quote(levels[i])
      /\ t = Quote(levels[i]) \/ t = before.remaining
      /\ now.remaining = before.remaining - t
      /\ now.base = before.base + t * Weight(levels[i])
  <2> HIDE DEF now, before
  <2> QED
    BY <1>1, <1>2, OneLevel
<1>4. before.remaining \in 0..Target /\ Target \in Nat
  BY <1>2, OpportunityAssumption DEF Acc, OpportunityAssumption
<1>5. Taken(levels)[i] = before.remaining - now.remaining
  BY DEF Taken
<1>6. Taken(levels)[i] = t
  <2> HIDE DEF now, before, t
  <2> QED
    BY <1>3, <1>4, <1>5
<1> QED
  <2> HIDE DEF t
  <2> QED
    BY <1>1, <1>2, <1>3, <1>4, <1>6

(* The base a way of spending gets on each level.                          *)
WeightsOf(f, levels) == [i \in 1..Len(levels) |-> f[i] * Weight(levels[i])]

(* What the loop takes is a way of spending, if it gets to the end.        *)
LEMMA LoopIsFill ==
    ASSUME NEW levels \in Seq(Level), LoopOver(levels)[Len(levels)].remaining = 0
    PROVE  /\ Taken(levels) \in Fills(levels)
           /\ BaseOf(Taken(levels), levels) = LoopOver(levels)[Len(levels)].base
<1> DEFINE n == Len(levels)
           t == Taken(levels)
           L == LoopOver(levels)
           w == WeightsOf(t, levels)
<1>1. n \in Nat /\ Target \in Nat
  BY OpportunityAssumption DEF OpportunityAssumption
<1>2. \A i \in 1..n : /\ L[i] \in Acc /\ L[i - 1] \in Acc
                      /\ levels[i] \in Level
                      /\ t[i] \in 0..Target /\ t[i] <= Quote(levels[i])
                      /\ L[i].remaining = L[i - 1].remaining - t[i]
                      /\ L[i].base = L[i - 1].base + t[i] * Weight(levels[i])
  BY LoopSteps
<1>3. L \in [0..n -> Acc] /\ L[0].remaining = Target /\ L[0].base = 0
  BY LoopIs DEF StartAcc
<1>4. t \in [1..n -> 0..Target] /\ t \in [1..n -> Int]
  BY <1>1, <1>2 DEF Taken
<1>5. w \in [1..n -> Int] /\ \A i \in 1..n : w[i] = t[i] * Weight(levels[i])
  BY <1>2, <1>4, LevelFacts DEF WeightsOf
<1> HIDE DEF n, t, L, w
<1>6. /\ SumsOf(t, n) \in [0..n -> Int] /\ SumsOf(t, n)[0] = 0
      /\ \A i \in 1..n : SumsOf(t, n)[i] = SumsOf(t, n)[i - 1] + t[i]
  BY <1>1, <1>4, SumsAre
<1>7. /\ SumsOf(w, n) \in [0..n -> Int] /\ SumsOf(w, n)[0] = 0
      /\ \A i \in 1..n : SumsOf(w, n)[i] = SumsOf(w, n)[i - 1] + w[i]
  BY <1>1, <1>5, SumsAre
<1> DEFINE S == {k \in 0..n : /\ SumsOf(t, n)[k] = Target - L[k].remaining
                             /\ SumsOf(w, n)[k] = L[k].base}
<1>8. 0 \in S
  BY <1>1, <1>3, <1>6, <1>7
<1>9. ASSUME NEW k \in 0..n, k \in S, k < n
      PROVE  k + 1 \in S
  <2>1. k + 1 \in 1..n /\ (k + 1) - 1 = k
    BY <1>1, <1>9
  <2>2. L[k].remaining \in Int /\ L[k].base \in Int /\ t[k + 1] \in Int
    BY <1>3, <1>4, <2>1 DEF Acc
  <2>3. /\ SumsOf(t, n)[k + 1] = SumsOf(t, n)[k] + t[k + 1]
        /\ L[k + 1].remaining = L[k].remaining - t[k + 1]
    BY <1>2, <1>6, <2>1
  <2>4. /\ SumsOf(w, n)[k + 1] = SumsOf(w, n)[k] + w[k + 1]
        /\ L[k + 1].base = L[k].base + w[k + 1]
    BY <1>2, <1>5, <1>7, <2>1
  <2>5. SumsOf(t, n)[k + 1] = Target - L[k + 1].remaining
    BY ONLY <1>1, <1>9, <2>2, <2>3
  <2>6. SumsOf(w, n)[k + 1] = L[k + 1].base
    BY ONLY <1>9, <2>2, <2>4
  <2> QED
    BY <1>1, <2>1, <2>5, <2>6
<1>10. n \in S
  <2>1. \A k \in 0..n : k \in S /\ k < n => k + 1 \in S
    BY <1>9
  <2> HIDE DEF S
  <2>2. 0..n \subseteq S
    BY <1>1, <1>8, <2>1, SetInduction
  <2> QED
    BY <1>1, <2>2
<1>11. SumOf(t, n) = Target /\ SumOf(w, n) = L[n].base
  BY <1>1, <1>10 DEF SumOf, n, L
<1>12. t \in Fills(levels)
  BY <1>2, <1>4, <1>11 DEF Fills, n
<1> QED
  BY <1>11, <1>12 DEF BaseOf, WeightsOf, Weight, n, t, L, w

(* The loop is never behind another way of spending the target.            *)
LEMMA LoopIsAhead ==
    ASSUME NEW levels \in Seq(Level), NEW f \in Fills(levels)
    PROVE  /\ f \in [1..Len(levels) -> Int]
           /\ \A i \in 0..Len(levels) :
                 /\ SumsOf(f, Len(levels))[i] \in 0..Target
                 /\ SumsOf(f, Len(levels))[i] <= Target - LoopOver(levels)[i].remaining
           /\ LoopOver(levels)[Len(levels)].remaining = 0
<1> DEFINE n == Len(levels)
           L == LoopOver(levels)
           F == SumsOf(f, n)
<1>1. n \in Nat /\ Target \in Nat
  BY OpportunityAssumption DEF OpportunityAssumption
<1>2. f \in [1..n -> 0..Target] /\ f \in [1..n -> Int]
      /\ \A i \in 1..n : f[i] \in 0..Target /\ f[i] <= Quote(levels[i])
  BY <1>1 DEF Fills
<1>3. L \in [0..n -> Acc] /\ L[0].remaining = Target
  BY LoopIs DEF StartAcc
<1>4. \A i \in 1..n : /\ Quote(levels[i]) \in Nat
                      /\ Taken(levels)[i] \in 0..Target
                      /\ L[i].remaining = L[i - 1].remaining - Taken(levels)[i]
                      /\ \/ Taken(levels)[i] = Quote(levels[i])
                         \/ Taken(levels)[i] = L[i - 1].remaining
  BY LoopSteps, LevelFacts
<1>5. F[n] = Target
  BY DEF Fills, SumOf
<1>6. /\ F \in [0..n -> Int] /\ F[0] = 0
      /\ \A i \in 1..n : F[i] = F[i - 1] + f[i]
  BY <1>1, <1>2, SumsAre
<1> HIDE DEF n, L, F
<1>7. \A i \in 0..n : F[i] <= Target
  <2> DEFINE S == {k \in 0..n : F[n - k] <= Target}
  <2>1. 0 \in S
    BY <1>1, <1>5
  <2>2. ASSUME NEW k \in 0..n, k \in S, k < n
        PROVE  k + 1 \in S
    <3>1. n - k \in 1..n /\ n - (k + 1) \in 0..n /\ (n - k) - 1 = n - (k + 1)
      BY <1>1, <2>2
    <3>2. F[n - k] = F[n - (k + 1)] + f[n - k] /\ f[n - k] \in 0..Target /\ F[n - (k + 1)] \in Int
      BY <1>2, <1>6, <3>1
    <3> QED
      BY <1>1, <2>2, <3>1, <3>2
  <2>3. 0..n \subseteq S
    <3>1. \A k \in 0..n : k \in S /\ k < n => k + 1 \in S
      BY <2>2
    <3> HIDE DEF S
    <3> QED
      BY <1>1, <2>1, <3>1, SetInduction
  <2>4. ASSUME NEW i \in 0..n PROVE F[i] <= Target
    <3>1. n - i \in 0..n /\ n - (n - i) = i
      BY <1>1
    <3> QED
      BY <2>3, <3>1
  <2> QED
    BY <2>4
<1> DEFINE S == {k \in 0..n : F[k] \in Nat /\ F[k] <= Target - L[k].remaining}
<1>8. 0 \in S
  BY <1>1, <1>3, <1>6
<1>9. ASSUME NEW k \in 0..n, k \in S, k < n
      PROVE  k + 1 \in S
  <2>1. k + 1 \in 1..n /\ k + 1 \in 0..n /\ (k + 1) - 1 = k
    BY <1>1, <1>9
  <2>2. F[k + 1] = F[k] + f[k + 1] /\ f[k + 1] \in 0..Target /\ f[k + 1] <= Quote(levels[k + 1])
        /\ F[k + 1] <= Target
    BY <1>2, <1>6, <1>7, <2>1
  <2>3. /\ L[k + 1].remaining = L[k].remaining - Taken(levels)[k + 1]
        /\ Quote(levels[k + 1]) \in Nat
        /\ \/ Taken(levels)[k + 1] = Quote(levels[k + 1])
           \/ Taken(levels)[k + 1] = L[k].remaining
    BY <1>4, <2>1
  <2>4. L[k].remaining \in 0..Target
    BY <1>3 DEF Acc
  <2>5. F[k] \in Nat /\ F[k] <= Target - L[k].remaining
    BY <1>9
  <2>6. F[k + 1] \in Nat
    BY <2>2, <2>5
  <2>7. F[k + 1] <= Target - L[k + 1].remaining
    <3>1. CASE Taken(levels)[k + 1] = Quote(levels[k + 1])
      <4>1. F[k + 1] = F[k] + f[k + 1] /\ f[k + 1] <= Quote(levels[k + 1])
            /\ L[k + 1].remaining = L[k].remaining - Quote(levels[k + 1])
        BY <2>2, <2>3, <3>1
      <4>2. /\ F[k] \in Int /\ f[k + 1] \in Int /\ Quote(levels[k + 1]) \in Int
            /\ L[k].remaining \in Int /\ Target \in Int
        BY <1>1, <2>2, <2>3, <2>4, <2>5
      <4>3. F[k] <= Target - L[k].remaining
        BY <2>5
      <4> DEFINE x == F[k]
                 y == f[k + 1]
                 q == Quote(levels[k + 1])
                 r == L[k].remaining
      <4>4. x \in Int /\ y \in Int /\ q \in Int /\ r \in Int /\ y <= q /\ x <= Target - r
        BY <4>1, <4>2, <4>3
      <4> HIDE DEF x, y, q, r
      <4>5. x + y <= Target - (r - q)
        BY ONLY <4>2, <4>4
      <4> QED
        BY <4>1, <4>5 DEF x, y, q, r
    <3>2. CASE Taken(levels)[k + 1] = L[k].remaining
      <4>1. L[k + 1].remaining = 0
        BY <2>3, <2>4, <3>2
      <4> QED
        BY <1>1, <2>2, <2>6, <4>1
    <3> QED
      BY <2>3, <3>1, <3>2
  <2> QED
    BY <2>1, <2>6, <2>7
<1>10. 0..n \subseteq S
  <2>1. \A k \in 0..n : k \in S /\ k < n => k + 1 \in S
    BY <1>9
  <2> HIDE DEF S
  <2> QED
    BY <1>1, <1>8, <2>1, SetInduction
<1>11. L[n].remaining \in 0..Target /\ n \in 0..n
  BY <1>1, <1>3 DEF Acc
<1>12. L[n].remaining = 0
  BY <1>1, <1>5, <1>10, <1>11
<1>13. \A i \in 0..n : F[i] \in 0..Target /\ F[i] <= Target - L[i].remaining
  BY <1>1, <1>7, <1>10
<1> QED
  BY <1>2, <1>12, <1>13 DEF n, L, F

(* It spends the target on the levels with the most base if they get       *)
(* dearer, on those with the least if they get cheaper.                    *)
LEMMA LoopIsBest ==
    ASSUME NEW levels \in Seq(Level), NEW f \in Fills(levels)
    PROVE  /\ BaseOf(f, levels) \in Int
           /\ Ascending(levels) => BaseOf(f, levels) <= LoopOver(levels)[Len(levels)].base
           /\ Descending(levels) => LoopOver(levels)[Len(levels)].base <= BaseOf(f, levels)
<1> DEFINE n == Len(levels)
           t == Taken(levels)
           L == LoopOver(levels)
           F == SumsOf(f, n)
           w == WeightsOf(f, levels)
           B == SumsOf(w, n)
           W(i) == Weight(levels[i])
           e == [i \in 0..n |-> Target - L[i].remaining - F[i]]
           d == [i \in 0..n |-> L[i].base - B[i]]
<1>1. n \in Nat /\ Target \in Nat
  BY OpportunityAssumption DEF OpportunityAssumption
<1>2. /\ L \in [0..n -> Acc] /\ L[0].remaining = Target /\ L[0].base = 0
      /\ f \in [1..n -> Int]
      /\ \A i \in 0..n : F[i] \in Nat /\ F[i] <= Target - L[i].remaining
      /\ L[n].remaining = 0
  BY LoopIs, LoopIsAhead DEF StartAcc
<1>3. f \in [1..n -> 0..Target] /\ F[n] = Target
  BY DEF Fills, SumOf
<1>4. \A i \in 1..n : /\ levels[i] \in Level /\ W(i) \in Nat
                      /\ t[i] \in Nat /\ f[i] \in Nat
                      /\ L[i].remaining = L[i - 1].remaining - t[i]
                      /\ L[i].base = L[i - 1].base + t[i] * W(i)
  <2> SUFFICES ASSUME NEW i \in 1..n
               PROVE  /\ levels[i] \in Level /\ W(i) \in Nat
                      /\ t[i] \in Nat /\ f[i] \in Nat
                      /\ L[i].remaining = L[i - 1].remaining - t[i]
                      /\ L[i].base = L[i - 1].base + t[i] * W(i)
    OBVIOUS
  <2>1. /\ levels[i] \in Level /\ t[i] \in 0..Target
        /\ L[i].remaining = L[i - 1].remaining - t[i]
        /\ L[i].base = L[i - 1].base + t[i] * W(i)
    BY LoopSteps
  <2>2. f[i] \in 0..Target
    BY <1>3
  <2>3. W(i) \in Nat
    BY <2>1, LevelFacts
  <2> QED
    BY <1>1, <2>1, <2>2, <2>3
<1>5. \A i, j \in 1..n : i < j =>
          /\ Ascending(levels) => W(j) <= W(i)
          /\ Descending(levels) => W(i) <= W(j)
  <2> SUFFICES ASSUME NEW i \in 1..n, NEW j \in 1..n, i < j
               PROVE  /\ Ascending(levels) => W(j) <= W(i)
                      /\ Descending(levels) => W(i) <= W(j)
    OBVIOUS
  <2>1. /\ Ascending(levels) => levels[i].price <= levels[j].price
        /\ Descending(levels) => levels[j].price <= levels[i].price
    <3>1. i \in DOMAIN levels /\ j \in DOMAIN levels
      OBVIOUS
    <3>2. levels[j] \in Level /\ levels[i] \in Level
      BY <1>4
    <3>3. levels[j].price \in Int /\ levels[i].price \in Int
      <4>1. \A level \in Level : level.price \in Int
        BY LevelFacts
      <4> QED
        BY <3>2, <4>1
    <3> QED
      BY <3>1, <3>3 DEF Ascending, Descending
  <2> QED
    BY <1>4, <2>1, CheaperIsHeavier
<1>6. w \in [1..n -> Int] /\ \A i \in 1..n : w[i] = f[i] * W(i)
  BY <1>4 DEF WeightsOf
<1> HIDE DEF n, t, L, F, w, W
<1>7. /\ B \in [0..n -> Int] /\ B[0] = 0 /\ \A i \in 1..n : B[i] = B[i - 1] + w[i]
  BY <1>1, <1>6, SumsAre
<1>8. /\ F \in [0..n -> Int] /\ F[0] = 0 /\ \A i \in 1..n : F[i] = F[i - 1] + f[i]
  BY <1>1, <1>2, SumsAre DEF F
<1> HIDE DEF B
<1>9. \A i \in 0..n : e[i] \in Nat /\ d[i] \in Int
  <2> SUFFICES ASSUME NEW i \in 0..n PROVE e[i] \in Nat /\ d[i] \in Int
    OBVIOUS
  <2>1. L[i].remaining \in Int /\ L[i].base \in Int
    <3>1. L[i] \in Acc
      BY <1>2
    <3> QED
      BY <1>1, <3>1 DEF Acc
  <2>2. F[i] \in Nat /\ F[i] <= Target - L[i].remaining /\ B[i] \in Int
    BY <1>2, <1>7
  <2>3. e[i] = Target - L[i].remaining - F[i] /\ d[i] = L[i].base - B[i]
    OBVIOUS
  <2>4. Target - L[i].remaining - F[i] \in Nat
    <3> DEFINE r == L[i].remaining
               s == F[i]
    <3>1. r \in Int /\ s \in Int /\ Target \in Int /\ s <= Target - r
      BY <1>1, <2>1, <2>2
    <3> HIDE DEF r, s
    <3>2. Target - r - s \in Nat
      BY ONLY <3>1
    <3> QED
      BY <3>2 DEF r, s
  <2>5. L[i].base - B[i] \in Int
    BY ONLY <2>1, <2>2
  <2> QED
    BY ONLY <2>3, <2>4, <2>5
<1>10. ASSUME NEW i \in 1..n
       PROVE  /\ e[i] = e[i - 1] + t[i] - f[i]
              /\ d[i] = d[i - 1] + t[i] * W(i) - f[i] * W(i)
  <2>1. i - 1 \in 0..n /\ i \in 0..n
    BY <1>1
  <2>2. /\ L[i - 1].remaining \in Int /\ L[i - 1].base \in Int /\ F[i - 1] \in Int /\ B[i - 1] \in Int
        /\ t[i] \in Int /\ f[i] \in Int /\ W(i) \in Int
    <3>1. L[i - 1].remaining \in Int /\ L[i - 1].base \in Int
      <4>1. L[i - 1] \in Acc
        BY <1>2, <2>1
      <4> QED
        BY <1>1, <4>1 DEF Acc
    <3>2. F[i - 1] \in Int /\ B[i - 1] \in Int
      BY <1>7, <1>8, <2>1
    <3>3. t[i] \in Int /\ f[i] \in Int /\ W(i) \in Int
      BY <1>4
    <3> QED
      BY <3>1, <3>2, <3>3
  <2>3. t[i] * W(i) \in Int /\ f[i] * W(i) \in Int
    BY <2>2
  <2>4. F[i] = F[i - 1] + f[i] /\ B[i] = B[i - 1] + f[i] * W(i)
    BY <1>6, <1>7, <1>8
  <2>5. L[i].remaining = L[i - 1].remaining - t[i] /\ L[i].base = L[i - 1].base + t[i] * W(i)
    BY <1>4
  <2>6. /\ e[i] = Target - L[i].remaining - F[i]
        /\ e[i - 1] = Target - L[i - 1].remaining - F[i - 1]
        /\ d[i] = L[i].base - B[i] /\ d[i - 1] = L[i - 1].base - B[i - 1]
    BY <2>1
  <2> HIDE DEF e, d
  <2>7. e[i] = e[i - 1] + t[i] - f[i]
    <3>1. F[i] = F[i - 1] + f[i] /\ L[i].remaining = L[i - 1].remaining - t[i]
      BY <2>4, <2>5
    <3>2. e[i] = Target - L[i].remaining - F[i] /\ e[i - 1] = Target - L[i - 1].remaining - F[i - 1]
      BY <2>6
    <3>3. /\ Target \in Int /\ L[i - 1].remaining \in Int /\ F[i - 1] \in Int
          /\ t[i] \in Int /\ f[i] \in Int
      BY <1>1, <2>2
    <3> QED
      BY ONLY <3>1, <3>2, <3>3
  <2>8. d[i] = d[i - 1] + t[i] * W(i) - f[i] * W(i)
    <3> DEFINE p == t[i] * W(i)
               q == f[i] * W(i)
    <3>1. /\ d[i] = L[i].base - B[i] /\ d[i - 1] = L[i - 1].base - B[i - 1]
          /\ L[i].base = L[i - 1].base + p /\ B[i] = B[i - 1] + q
      BY <2>4, <2>5, <2>6
    <3>2. p \in Int /\ q \in Int /\ L[i - 1].base \in Int /\ B[i - 1] \in Int
      BY <2>2, <2>3
    <3> HIDE DEF p, q
    <3>3. d[i] = d[i - 1] + p - q
      BY ONLY <3>1, <3>2
    <3> QED
      BY <3>3 DEF p, q
  <2> QED
    BY <2>7, <2>8
<1> HIDE DEF e, d
<1> DEFINE Ahead(k) == /\ Ascending(levels) => e[k] * W(k) <= d[k]
                       /\ Descending(levels) => d[k] <= e[k] * W(k)
           S == {k \in 0..n : k = 0 \/ Ahead(k)}
<1>11. ASSUME NEW k \in 0..n, k \in S, k < n
       PROVE  k + 1 \in S
  <2>1. k + 1 \in 1..n /\ (k + 1) - 1 = k
    BY <1>1, <1>11
  <2>2. /\ e[k + 1] = e[k] + t[k + 1] - f[k + 1]
        /\ d[k + 1] = d[k] + t[k + 1] * W(k + 1) - f[k + 1] * W(k + 1)
    BY <1>10, <2>1
  <2>3. d[k] \in Int /\ e[k] \in Nat /\ W(k + 1) \in Nat /\ t[k + 1] \in Nat /\ f[k + 1] \in Nat
    BY <1>4, <1>9, <2>1
  <2>4. Ahead(k + 1)
    <3>1. CASE k = 0
      <4>1. e[0] = 0 /\ d[0] = 0
        BY <1>1, <1>2, <1>7, <1>8 DEF e, d
      <4>2. 0 * W(k + 1) = 0
        BY <2>3
      <4>3. (e[k] + t[k + 1] - f[k + 1]) * W(k + 1) = t[k + 1] * W(k + 1) - f[k + 1] * W(k + 1)
        BY <2>3, <3>1, <4>1
      <4>4. t[k + 1] * W(k + 1) \in Nat /\ f[k + 1] * W(k + 1) \in Nat
        BY <2>3, ProductsOfNats
      <4>5. e[k + 1] * W(k + 1) = d[k + 1]
        BY <2>2, <3>1, <4>1, <4>3, <4>4
      <4>6. d[k + 1] \in Int
        BY <1>9, <2>1
      <4> QED
        BY <4>5, <4>6
    <3>2. CASE k \in 1..n
      <4>1. Ahead(k) /\ W(k) \in Nat
        BY <1>4, <1>11, <3>2
      <4>2. /\ Ascending(levels) => W(k + 1) <= W(k)
            /\ Descending(levels) => W(k) <= W(k + 1)
        BY <1>5, <2>1, <3>2
      <4>3. Ascending(levels) => (e[k] + t[k + 1] - f[k + 1]) * W(k + 1)
                                    <= d[k] + t[k + 1] * W(k + 1) - f[k + 1] * W(k + 1)
        BY <2>3, <4>1, <4>2, OneLevelAhead
      <4>4. Descending(levels) => d[k] + t[k + 1] * W(k + 1) - f[k + 1] * W(k + 1)
                                    <= (e[k] + t[k + 1] - f[k + 1]) * W(k + 1)
        BY <2>3, <4>1, <4>2, OneLevelAhead
      <4> QED
        BY <2>2, <4>3, <4>4
    <3> QED
      BY <3>1, <3>2
  <2> QED
    BY <2>1, <2>4
<1>12. n \in S
  <2>1. 0 \in S
    BY <1>1
  <2>2. \A k \in 0..n : k \in S /\ k < n => k + 1 \in S
    BY <1>11
  <2> HIDE DEF S
  <2>3. 0..n \subseteq S
    BY <1>1, <2>1, <2>2, SetInduction
  <2> QED
    BY <1>1, <2>3
<1>13. e[n] = 0
  BY <1>1, <1>2, <1>3 DEF e
<1>14. /\ Ascending(levels) => 0 <= d[n]
       /\ Descending(levels) => d[n] <= 0
  <2>1. CASE n = 0
    BY <1>2, <1>7, <2>1 DEF d
  <2>2. CASE n \in 1..n
    <3>1. W(n) \in Nat /\ 0 * W(n) = 0
      BY <1>4, <2>2
    <3> QED
      BY <1>12, <1>13, <2>2, <3>1
  <2> QED
    BY <1>1, <2>1, <2>2
<1>15. BaseOf(f, levels) = B[n]
  BY DEF BaseOf, SumOf, WeightsOf, Weight, B, w, n
<1>16. B[n] \in Int /\ L[n].base \in Int
  BY <1>1, <1>2, <1>7 DEF Acc
<1> QED
  BY <1>14, <1>15, <1>16 DEF d, n, L

(* A book that is not used up has a price.                                 *)
LEMMA BaseCovers ==
    ASSUME NEW levels \in Seq(Level)
    PROVE  LoopOver(levels)[Len(levels)].remaining = 0 => LoopOver(levels)[Len(levels)].base > 0
<1> DEFINE n == Len(levels)
           t == Taken(levels)
           L == LoopOver(levels)
           S == {k \in 0..n : L[k].base >= Target - L[k].remaining}
<1>1. n \in Nat /\ Target \in Nat \ {0}
  BY OpportunityAssumption DEF OpportunityAssumption
<1>2. L \in [0..n -> Acc] /\ L[0].remaining = Target /\ L[0].base = 0
  BY LoopIs DEF StartAcc
<1>3. ASSUME NEW i \in 1..n
      PROVE  /\ t[i] \in Nat
             /\ L[i].remaining = L[i - 1].remaining - t[i]
             /\ L[i].base >= L[i - 1].base + t[i]
  <2>1. /\ levels[i] \in Level /\ t[i] \in Nat
        /\ L[i].remaining = L[i - 1].remaining - t[i]
        /\ L[i].base = L[i - 1].base + t[i] * Weight(levels[i])
        /\ L[i - 1] \in Acc
    BY <1>1, LoopSteps
  <2>2. Weight(levels[i]) \in Nat /\ 1 <= Weight(levels[i])
    BY <2>1, LevelFacts
  <2> HIDE DEF t, L
  <2>3. t[i] * 1 <= t[i] * Weight(levels[i]) /\ t[i] * Weight(levels[i]) \in Nat
    BY <2>1, <2>2, ProductMonotone
  <2>4. t[i] * 1 = t[i]
    BY <2>1
  <2>5. L[i - 1].base \in Nat
    BY <2>1 DEF Acc
  <2> QED
    BY <2>1, <2>3, <2>4, <2>5
<1> HIDE DEF n, t, L
<1>4. 0 \in S
  BY <1>1, <1>2
<1>5. ASSUME NEW k \in 0..n, k \in S, k < n
      PROVE  k + 1 \in S
  <2>1. k + 1 \in 1..n /\ k + 1 \in 0..n /\ (k + 1) - 1 = k
    BY <1>1, <1>5
  <2>2. L[k + 1] \in Acc /\ L[k] \in Acc
    BY <1>2, <2>1
  <2>3. /\ t[k + 1] \in Nat
        /\ L[k + 1].remaining = L[k].remaining - t[k + 1]
        /\ L[k + 1].base >= L[k].base + t[k + 1]
    BY <1>3, <2>1
  <2>4. /\ L[k].base \in Nat /\ L[k].remaining \in Nat
        /\ L[k + 1].base \in Nat /\ L[k + 1].remaining \in Nat
    BY <1>1, <2>2 DEF Acc
  <2>5. L[k].base >= Target - L[k].remaining
    BY <1>5
  <2>6. L[k + 1].base >= Target - L[k + 1].remaining
    <3> DEFINE b == L[k].base + t[k + 1]
    <3>1. L[k + 1].remaining = L[k].remaining - t[k + 1]
      BY <2>3
    <3>2. b >= Target - L[k + 1].remaining
      <4> DEFINE x == L[k].base
                 y == t[k + 1]
                 r == L[k].remaining
      <4>1. x \in Nat /\ y \in Nat /\ r \in Nat /\ Target \in Nat /\ x >= Target - r
        BY <1>1, <2>3, <2>4, <2>5
      <4> HIDE DEF x, y, r
      <4>2. x + y >= Target - (r - y)
        BY ONLY <4>1
      <4> QED
        BY <3>1, <4>2 DEF x, y, r
    <3>3. b \in Int /\ L[k + 1].base >= b
      BY <2>3, <2>4
    <3> HIDE DEF b
    <3> QED
      BY ONLY <1>1, <2>4, <3>2, <3>3
  <2> QED
    BY <2>1, <2>6
<1>6. \A k \in 0..n : k \in S /\ k < n => k + 1 \in S
  BY <1>5
<1>7. 0..n \subseteq S
  <2> HIDE DEF S
  <2> QED
    BY <1>1, <1>4, <1>6, SetInduction
<1>8. L[n].base >= Target - L[n].remaining /\ L[n] \in Acc
  BY <1>1, <1>2, <1>7
<1> QED
  BY <1>1, <1>8 DEF n, L, Acc

(* The weighted price of a sorted book is the best use of the target there *)
(* is, and there is one exactly if the target can be spent at all.         *)
LEMMA WeightedPriceIs ==
    ASSUME NEW levels \in Seq(Level)
    PROVE  /\ WeightedPrice(levels) = NoPrice \/ WeightedPrice(levels).base \in Nat \ {0}
           /\ WeightedPrice(levels) = NoPrice => Fills(levels) = {}
           /\ WeightedPrice(levels) # NoPrice /\ Ascending(levels) =>
                 WeightedPrice(levels).base = Best(levels)
           /\ WeightedPrice(levels) # NoPrice /\ Descending(levels) =>
                 WeightedPrice(levels).base = Least(levels)
<1> DEFINE end == LoopOver(levels)[Len(levels)]
<1>1. end \in Acc /\ Target \in Nat
  BY LoopIs, OpportunityAssumption DEF OpportunityAssumption
<1>2. CASE end.remaining <= 0
  <2>1. end.remaining = 0 /\ end.base \in Nat
    BY <1>1, <1>2 DEF Acc
  <2>2. end.base > 0
    BY <2>1, BaseCovers
  <2>3. WeightedPrice(levels) = [base |-> end.base, used |-> end.used]
    BY <1>2 DEF WeightedPrice
  <2>4. WeightedPrice(levels).base = end.base /\ WeightedPrice(levels) # NoPrice
    <3> HIDE DEF end
    <3> QED
      BY <2>1, <2>2, <2>3 DEF NoPrice
  <2>5. end.base \in Bases(levels)
    <3>1. Taken(levels) \in Fills(levels) /\ BaseOf(Taken(levels), levels) = end.base
      BY <2>1, LoopIsFill
    <3> QED
      BY <3>1 DEF Bases
  <2>6. \A b \in Bases(levels) : /\ b \in Int
                                 /\ Ascending(levels) => b <= end.base
                                 /\ Descending(levels) => end.base <= b
    BY LoopIsBest DEF Bases
  <2> HIDE DEF end
  <2>7. Ascending(levels) => Best(levels) = end.base
    <3> SUFFICES ASSUME Ascending(levels) PROVE Best(levels) = end.base
      OBVIOUS
    <3> DEFINE Top(x) == x \in Bases(levels) /\ \A y \in Bases(levels) : x >= y
    <3>1. Top(end.base)
      BY <2>1, <2>5, <2>6
    <3>2. Best(levels) = CHOOSE x \in Bases(levels) : \A y \in Bases(levels) : x >= y
      BY DEF Best, Max
    <3>3. Top(Best(levels))
      BY <3>1, <3>2
    <3> QED
      BY <2>1, <2>6, <3>1, <3>3
  <2>8. Descending(levels) => Least(levels) = end.base
    <3> SUFFICES ASSUME Descending(levels) PROVE Least(levels) = end.base
      OBVIOUS
    <3> DEFINE Bottom(x) == x \in Bases(levels) /\ \A y \in Bases(levels) : x <= y
    <3>1. Bottom(end.base)
      BY <2>1, <2>5, <2>6
    <3>2. Least(levels) = CHOOSE x \in Bases(levels) : \A y \in Bases(levels) : x <= y
      BY DEF Least, Min
    <3>3. Bottom(Least(levels))
      BY <3>1, <3>2
    <3> QED
      BY <2>1, <2>6, <3>1, <3>3
  <2> QED
    BY <2>1, <2>2, <2>4, <2>7, <2>8
<1>3. CASE ~(end.remaining <= 0)
  <2>1. WeightedPrice(levels) = NoPrice
    BY <1>3 DEF WeightedPrice
  <2>2. Fills(levels) = {}
    <3> SUFFICES ASSUME NEW f \in Fills(levels) PROVE FALSE
      OBVIOUS
    <3>1. end.remaining = 0
      BY LoopIsAhead
    <3> QED
      BY <1>3, <3>1
  <2> QED
    BY <2>1, <2>2
<1> QED
  BY <1>2, <1>3
-----------------------------------------------------------------------------

(* A client that is open has an adapter that will be closed, or its        *)
(* session failed; after the round only the latter is left.                *)
SessionsInv ==
    /\ ssessions.live \subseteq ssessions.ready \cup ssessions.raised
    /\ ClientsClosed

AlertInv ==
    /\ cached \in Ages
    /\ told \subseteq SymbolSet
    /\ ssym \in DOMAIN Symbols
    /\ SilenceOnlyAfterAlert

(* How far the probe has got, by what the consumer does next.              *)
Untouched == order = NoOrder /\ answered = {} /\ uncalled = {} /\ ~failed
BothOpen == /\ order["buy"] = "open" /\ order["sell"] = "open"
            /\ answered = Legs /\ uncalled = {} /\ ~failed
Cancelled(leg) == order[leg] # "open" \/ leg \in uncalled
Noted == uncalled # {} => failed
Early == /\ failed /\ uncalled = {}
         /\ order["buy"] # "cancelled" /\ order["sell"] # "cancelled"
Late == answered = Legs /\ Noted /\ Cancelled("buy") /\ Cancelled("sell")

ProbeInv ==
    /\ order \in [Legs -> {"none", "open", "cancelled"}]
    /\ answered \subseteq Legs /\ uncalled \subseteq Legs
    /\ failed \in BOOLEAN
    /\ cpc \in {"read", "tickers", "create_buy", "down"} => Untouched
    /\ cpc = "create_sell" => /\ order["buy"] = "open" /\ order["sell"] = "none"
                              /\ answered = {"buy"} /\ uncalled = {} /\ ~failed
    /\ cpc \in {"look_buy", "look_sell", "cancel_buy"} => BothOpen
    /\ cpc = "cancel_sell" => /\ order["sell"] = "open" /\ Cancelled("buy")
                              /\ answered = Legs /\ Noted
    /\ cpc \in {"final_buy", "final_sell"} => Late
    /\ cpc \in {"result", "ack"} => Early \/ Late
    /\ cpc = "ack" => status = IF ~failed THEN "OPEN_HEDGED"
                               ELSE IF answered # {} THEN "OPEN_PARTIAL" ELSE "none"

(* A round that has begun is one that will move the cursor.                *)
AtWork == cpc \notin {"read", "down"}
IsStream(s) == \E S : s \in Seq(S)
RoundsInv ==
    /\ IsStream(opps)
    /\ clast \in Nat /\ rounds \in Nat /\ crashes \in Nat
    /\ clast <= Len(opps)
    /\ AtWork => clast < Len(opps)
    /\ rounds <= Len(opps) * crashes + clast + (IF AtWork THEN 1 ELSE 0)

(* A round, by what the scanner does next: as many sessions ready as there *)
(* were turns, a book for every turn, none more than the market offers.    *)
FirstExchanges(k) == {ScanExchanges[i] : i \in 1..k}
Opening ==
    /\ sbooks = <<>>
    /\ \E k \in 0..(Len(ScanExchanges) - 1) :
          /\ ssessions.ready = FirstExchanges(k)
          /\ IsFiniteSet(ssessions.ready) /\ Cardinality(ssessions.ready) = k

RoundInv ==
    /\ spc \in {"open", "fetch", "build", "publish", "close", "alert", "report", "sending",
                "sleep", "down"}
    /\ spc \in {"open", "down"} => Opening
    /\ spc = "fetch" => Len(sbooks) < Len(ScanExchanges)
    /\ spc = "build" => Len(sbooks) = Len(ScanExchanges)
    /\ spc \in {"fetch", "build"} => \A i \in DOMAIN sbooks : Offered(sbooks[i])
    /\ spc = "publish" => Len(opps) < MaxOpps /\ sopp \in OpportunitySet
    /\ opps \in Seq(OpportunitySet) /\ Len(opps) <= MaxOpps
    /\ ssessions \in SessionsOf
    /\ sbooks \in Seq(AllBooks) /\ Len(sbooks) <= Len(ScanExchanges)
    /\ sopp \in OpportunitySet \cup {NoOpportunity}
    /\ sfailed \in BOOLEAN
    /\ sdeaths \in 0..MaxScannerDeaths
    /\ OpportunityIsBestFill

(* The rest of the consumer's types, and its stream.                       *)
ConsumerInv ==
    /\ cpc \in {"read", "tickers", "create_buy", "create_sell", "look_buy", "look_sell",
                "cancel_buy", "cancel_sell", "final_buy", "final_sell", "result", "ack", "down"}
    /\ status \in Results
    /\ crashes \in 0..MaxConsumerCrashes

SpotInv == SessionsInv /\ AlertInv /\ ProbeInv /\ RoundsInv /\ RoundInv /\ ConsumerInv

-----------------------------------------------------------------------------
(* What the operations on sessions do.                                     *)
LEMMA SessionOperations ==
    ASSUME NEW s, s.live \subseteq s.ready \cup s.raised
    PROVE  /\ \A e : /\ Opened(s, e).live \subseteq Opened(s, e).ready \cup Opened(s, e).raised
                    /\ NotReady(s, e).live \subseteq NotReady(s, e).ready \cup NotReady(s, e).raised
           /\ \A failing : Closed(s, failing).live \subseteq Closed(s, failing).raised
           /\ NoSessions.live = {}
BY DEF Opened, NotReady, Closed, NoSessions

(* The scanner's steps on its sessions.                                    *)
LEMMA SessionsStep ==
    ASSUME SessionsInv, ScannerNext
    PROVE  SessionsInv'
<1> USE SessionOperations DEF SessionsInv, ClientsClosed
<1>1. CASE OpenSession
  BY <1>1 DEF OpenSession
<1>2. CASE CloseSessions
  <2>1. PICK failing \in SUBSET ssessions.ready : ssessions' = Closed(ssessions, failing)
    BY <1>2 DEF CloseSessions
  <2>2. ssessions.live \subseteq ssessions.ready \cup ssessions.raised
    OBVIOUS
  <2>3. Closed(ssessions, failing).live \subseteq Closed(ssessions, failing).raised
    BY <2>2
  <2>4. ssessions'.live \subseteq ssessions'.raised
    BY <2>1, <2>3, Zenon
  <2> QED
    BY <2>4
<1>3. CASE FetchBook \/ BuildOpportunity \/ Publish \/ Tick \/ SendAlert
  <2>1. CASE FetchBook
    BY <2>1 DEF FetchBook
  <2>2. CASE BuildOpportunity
    BY <2>2 DEF BuildOpportunity
  <2>3. CASE Publish
    BY <2>3 DEF Publish
  <2>4. CASE SendAlert
    BY <2>4 DEF SendAlert
  <2>5. CASE Tick
    BY <2>5 DEF Tick
  <2> QED
    BY <1>3, <2>1, <2>2, <2>3, <2>4, <2>5
<1>4. CASE AlertDetected \/ ReportFailure \/ NextSymbol \/ ScannerDies
  BY <1>4 DEF AlertDetected, ReportFailure, NextSymbol, ScannerDies, ForgetRound
<1>5. CASE ScannerRestart
  BY <1>5 DEF ScannerRestart
<1> QED
  BY <1>1, <1>2, <1>3, <1>4, <1>5 DEF ScannerNext, ScannerStep

(* The scanner's steps on the dedupe cache.                                *)
LEMMA AlertStep ==
    ASSUME AlertInv, ScannerNext
    PROVE  AlertInv'
<1> USE ScannerAssumption DEF ScannerAssumption, AlertInv, SilenceOnlyAfterAlert, alertVars
<1>1. active_symbol \in SymbolSet
  BY DEF active_symbol, SymbolSet, Range
<1>2. CASE OpenSession \/ FetchBook \/ BuildOpportunity \/ Publish \/ CloseSessions \/ AlertDetected
           \/ ScannerRestart
  <2>1. UNCHANGED <<cached, told, ssym>> /\ spc # "sending"
    BY <1>2 DEF OpenSession, FetchBook, BuildOpportunity, Publish, CloseSessions, AlertDetected,
                ScannerRestart
  <2> QED
    BY <2>1
<1>3. CASE ReportFailure
  <2>1. CASE UNCHANGED alertVars /\ spc' = "sleep" /\ spc # "sending" /\ UNCHANGED ssym
    BY <2>1
  <2>2. CASE /\ spc' = "sending" /\ spc # "sending" /\ UNCHANGED ssym
             /\ cached' = [cached EXCEPT ![active_symbol] = 0]
             /\ told' = told \ {active_symbol}
    <3>1. active_symbol' = active_symbol
      BY <2>2 DEF active_symbol
    <3>2. cached' \in Ages /\ told' \subseteq SymbolSet
      <4>1. 0 \in 0..DedupeWindow
        OBVIOUS
      <4>2. cached \in [SymbolSet -> 0..DedupeWindow]
        BY DEF Ages
      <4>3. cached' \in [SymbolSet -> 0..DedupeWindow]
        BY ONLY <2>2, <4>1, <4>2
      <4> QED
        BY <2>2, <4>3 DEF Ages
    <3>3. \A s \in SymbolSet : s # active_symbol => cached'[s] = cached[s]
      BY <2>2 DEF Ages
    <3> QED
      BY <2>2, <3>1, <3>2, <3>3
  <2> QED
    BY <1>3, <2>1, <2>2 DEF ReportFailure
<1>4. CASE SendAlert
  BY <1>1, <1>4 DEF SendAlert, active_symbol
<1>5. CASE NextSymbol
  <2>1. ssym' \in DOMAIN Symbols
    <3>1. Len(Symbols) \in Nat \ {0} /\ DOMAIN Symbols = 1..Len(Symbols)
      OBVIOUS
    <3> QED
      BY <1>5, <3>1 DEF NextSymbol
  <2> QED
    BY <1>5, <2>1 DEF NextSymbol
<1>6. CASE ScannerDies
  <2>1. 1 \in DOMAIN Symbols
    OBVIOUS
  <2> QED
    BY <1>6, <2>1 DEF ScannerDies, LongAgo, Ages
<1>7. CASE Tick
  BY <1>7 DEF Tick, Ages, active_symbol
<1> QED
  BY <1>2, <1>3, <1>4, <1>5, <1>6, <1>7 DEF ScannerNext, ScannerStep

-----------------------------------------------------------------------------
(* The consumer's steps on its probe.                                      *)
LEMMA ProbeStep ==
    ASSUME ProbeInv, ConsumerNext
    PROVE  ProbeInv'
<1> USE DEF ProbeInv, Legs, Untouched, BothOpen, Cancelled, Noted, Early, Late, NoOrder
<1>1. CASE ReadOpportunity
  BY <1>1 DEF ReadOpportunity, probeVars
<1>2. CASE FetchTickers
  <2>1. order["buy"] = "none" /\ order["sell"] = "none"
    BY <1>2 DEF FetchTickers
  <2>2. CASE cpc' = "create_buy" /\ UNCHANGED failed
    BY <1>2, <2>2 DEF FetchTickers, ConsumerFrame
  <2>3. CASE Abort
    BY <1>2, <2>1, <2>3 DEF FetchTickers, Abort, ConsumerFrame
  <2> QED
    BY <1>2, <2>2, <2>3 DEF FetchTickers
<1>3. CASE CreateBuy
  <2>1. order["buy"] = "none" /\ order["sell"] = "none" /\ cpc = "create_buy"
    BY <1>3 DEF CreateBuy
  <2>2. /\ order'["sell"] = "none" /\ order'["buy"] \in {"none", "open"}
        /\ order' \in [Legs -> {"none", "open", "cancelled"}]
    BY <1>3, <2>1 DEF CreateBuy, Create
  <2>3. CASE Abort /\ answered' = {}
    BY <1>3, <2>2, <2>3 DEF CreateBuy, Create, Abort, ConsumerFrame
  <2>4. CASE ~Abort
    <3>1. /\ cpc' = "create_sell" /\ failed' = failed
          /\ order'["buy"] = "open" /\ answered' = {"buy"} /\ uncalled' = {}
      BY <1>3, <2>1, <2>4 DEF CreateBuy, Create, ConsumerFrame
    <3> QED
      BY <2>1, <2>2, <3>1
  <2> QED
    BY <1>3, <2>3, <2>4 DEF CreateBuy, Create, Abort
<1>4. CASE CreateSell
  <2>1. /\ order'["buy"] = "open" /\ order'["sell"] \in {"none", "open"}
        /\ order' \in [Legs -> {"none", "open", "cancelled"}]
    BY <1>4 DEF CreateSell, Create
  <2>2. CASE Abort
    BY <1>4, <2>1, <2>2 DEF CreateSell, Create, Abort, ConsumerFrame
  <2>3. CASE ~Abort
    <3>1. /\ cpc' = "look_buy" /\ failed' = failed
          /\ order'["sell"] = "open" /\ answered' = Legs /\ uncalled' = {}
      BY <1>4, <2>3 DEF CreateSell, Create, ConsumerFrame
    <3> QED
      BY <1>4, <2>1, <3>1 DEF CreateSell
  <2> QED
    BY <2>2, <2>3
<1>5. CASE LookBuy \/ LookSell
  <2>1. BothOpen /\ UNCHANGED <<order, answered, uncalled>> /\ cpc' \in {"look_sell", "cancel_buy", "result"}
    BY <1>5 DEF LookBuy, LookSell, Look, Abort
  <2>2. cpc' = "result" => failed'
    BY <1>5 DEF LookBuy, LookSell, Look, Abort
  <2>3. cpc' # "result" => ~failed'
    BY <1>5, <2>1 DEF LookBuy, LookSell, Look, Abort
  <2>4. failed' \in BOOLEAN
    BY <1>5 DEF LookBuy, LookSell, Look, Abort
  <2> QED
    BY <2>1, <2>2, <2>3, <2>4
<1>6. CASE CancelBuy
  BY <1>6 DEF CancelBuy, Cancel
<1>7. CASE CancelSell
  <2>1. /\ cpc' = "final_buy" /\ answered' = Legs
        /\ order' \in [Legs -> {"none", "open", "cancelled"}]
    BY <1>7 DEF CancelSell, Cancel
  <2>5. uncalled' \subseteq Legs /\ failed' \in BOOLEAN
    BY <1>7 DEF CancelSell, Cancel
  <2>2. Noted'
    BY <1>7 DEF CancelSell, Cancel
  <2>3. Cancelled("buy")'
    BY <1>7 DEF CancelSell, Cancel
  <2>4. Cancelled("sell")'
    BY <1>7 DEF CancelSell, Cancel
  <2> QED
    BY <2>1, <2>2, <2>3, <2>4, <2>5
<1>8. CASE FinalBuy \/ FinalSell
  BY <1>8 DEF FinalBuy, FinalSell, LastLook
<1>9. CASE MakeResult
  BY <1>9 DEF MakeResult
<1>10. CASE Ack \/ ConsumerCrash
  BY <1>10 DEF Ack, ConsumerCrash, ForgetProbe
<1>11. CASE ConsumerRestart
  BY <1>11 DEF ConsumerRestart, probeVars
<1> QED
  BY <1>1, <1>2, <1>3, <1>4, <1>5, <1>6, <1>7, <1>8, <1>9, <1>10, <1>11
     DEF ConsumerNext, ConsumerStep

-----------------------------------------------------------------------------
(* The entries of the stream are counted, and an append counts one more.   *)
LEMMA StreamGrows ==
    ASSUME NEW s, IsStream(s), NEW e
    PROVE  /\ Len(s) \in Nat
           /\ IsStream(Append(s, e)) /\ Len(Append(s, e)) = Len(s) + 1
<1>1. PICK S : s \in Seq(S)
  BY DEF IsStream
<1>2. s \in Seq(S \cup {e})
  BY <1>1
<1>3. Append(s, e) \in Seq(S \cup {e}) /\ Len(Append(s, e)) = Len(s) + 1
  BY <1>2
<1> QED
  BY <1>2, <1>3 DEF IsStream

(* The consumer's steps on its cursor: it reads an entry only when there   *)
(* is one, and only a kill takes the cursor back.                          *)
LEMMA ConsumerRounds ==
    ASSUME RoundsInv, ConsumerNext
    PROVE  RoundsInv'
<1> DEFINE L == Len(opps)
<1>1. L \in Nat /\ opps' = opps
  BY StreamGrows DEF RoundsInv, ConsumerNext, ConsumerStep, ReadOpportunity, FetchTickers,
     CreateBuy, CreateSell, Create, LookBuy, LookSell, Look, CancelBuy, CancelSell, Cancel,
     FinalBuy, FinalSell, LastLook, MakeResult, Ack, ConsumerRestart, ConsumerCrash,
     ConsumerFrame
<1>2. L * crashes \in Nat /\ L * (crashes + 1) = L * crashes + L
  BY <1>1, OneRoundMore DEF RoundsInv
<1>3. CASE ReadOpportunity
  BY <1>1, <1>2, <1>3 DEF ReadOpportunity, ConsumerFrame, RoundsInv, AtWork
<1>4. CASE Ack
  BY <1>1, <1>2, <1>4 DEF Ack, RoundsInv, AtWork
<1>5. CASE ConsumerCrash
  BY <1>1, <1>2, <1>5 DEF ConsumerCrash, RoundsInv, AtWork
<1>6. CASE ConsumerRestart
  BY <1>1, <1>2, <1>6 DEF ConsumerRestart, RoundsInv, AtWork
<1>7. CASE FetchTickers \/ CreateBuy \/ CreateSell \/ LookBuy \/ LookSell \/ CancelBuy
           \/ CancelSell \/ FinalBuy \/ FinalSell \/ MakeResult
  <2>1. UNCHANGED <<opps, clast, crashes, rounds>> /\ AtWork /\ AtWork'
    BY <1>7 DEF FetchTickers, Abort, CreateBuy, CreateSell, Create, LookBuy, LookSell, Look,
       CancelBuy, CancelSell, Cancel, FinalBuy, FinalSell, LastLook, MakeResult,
       ConsumerFrame, AtWork
  <2> QED
    BY <2>1 DEF RoundsInv
<1> QED
  BY <1>3, <1>4, <1>5, <1>6, <1>7 DEF ConsumerNext, ConsumerStep

(* The scanner only ever appends to the stream.                            *)
LEMMA ScannerRounds ==
    ASSUME RoundsInv, ScannerNext, UNCHANGED consumerVars
    PROVE  RoundsInv'
<1>1. UNCHANGED <<cpc, clast, rounds, crashes>>
  BY DEF consumerVars
<1>2. UNCHANGED opps \/ opps' = Append(opps, sopp)
  BY DEF ScannerNext, ScannerStep, OpenSession, FetchBook, BuildOpportunity, Publish,
     CloseSessions, AlertDetected, ReportFailure, SendAlert, NextSymbol, ScannerRestart,
     ScannerDies, Tick
<1>3. CASE UNCHANGED opps
  BY <1>1, <1>3 DEF RoundsInv, AtWork
<1>4. CASE opps' = Append(opps, sopp)
  <2>1. /\ Len(opps) \in Nat
        /\ IsStream(opps') /\ Len(opps') = Len(opps) + 1
    BY <1>4, StreamGrows DEF RoundsInv
  <2>2. /\ Len(opps) * crashes \in Nat
        /\ Len(opps') * crashes = Len(opps) * crashes + crashes
    BY <2>1, OneRoundMore DEF RoundsInv
  <2> QED
    BY <1>1, <2>1, <2>2 DEF RoundsInv, AtWork
<1> QED
  BY <1>2, <1>3, <1>4

-----------------------------------------------------------------------------
(* min of Python has an answer: the first among the least.                 *)
LEMMA FirstLeast ==
    ASSUME NEW n \in Nat \ {0}, NEW p, \A i \in 1..n : p[i] \in Nat
    PROVE  \E i \in 1..n : \A j \in 1..n : p[i] < p[j] \/ (p[i] = p[j] /\ i <= j)
<1> DEFINE V == {p[i] : i \in 1..n}
<1>1. \E v \in V : \A y \in V : <<y, v>> \notin OpToRel(<, Nat)
  <2>1. V \in SUBSET Nat /\ V # {}
    <3>1. 1 \in 1..n
      OBVIOUS
    <3> QED
      BY <3>1
  <2> HIDE DEF V
  <2> QED
    BY <2>1, NatLessThanWellFounded, WFMin, Zenon
<1>2. PICK v \in V : \A y \in V : <<y, v>> \notin OpToRel(<, Nat)
  BY <1>1
<1>3. v \in Nat /\ \A j \in 1..n : v <= p[j]
  <2>1. v \in Nat
    OBVIOUS
  <2>2. ASSUME NEW j \in 1..n, p[j] < v PROVE FALSE
    <3>1. <<p[j], v>> \in OpToRel(<, Nat)
      BY <2>1, <2>2 DEF OpToRel
    <3> QED
      BY <1>2, <3>1
  <2> QED
    BY <2>1, <2>2
<1> DEFINE I == {i \in 1..n : p[i] = v}
<1>4. \E i \in I : \A y \in I : <<y, i>> \notin OpToRel(<, Nat)
  <2>1. I \in SUBSET Nat /\ I # {}
    OBVIOUS
  <2> HIDE DEF I
  <2> QED
    BY <2>1, NatLessThanWellFounded, WFMin, Zenon
<1>5. PICK i \in I : \A y \in I : <<y, i>> \notin OpToRel(<, Nat)
  BY <1>4
<1>6. ASSUME NEW j \in 1..n
      PROVE  p[i] < p[j] \/ (p[i] = p[j] /\ i <= j)
  <2>1. CASE p[j] = v
    <3>1. ASSUME j < i PROVE FALSE
      <4>1. <<j, i>> \in OpToRel(<, Nat)
        BY <3>1 DEF OpToRel
      <4> QED
        BY <1>5, <2>1, <4>1
    <3> QED
      BY <2>1, <3>1
  <2>2. CASE p[j] # v
    BY <1>3, <2>2
  <2> QED
    BY <2>1, <2>2
<1> QED
  BY <1>6

(* Both sides of every book are levels, sorted.                            *)
LEMMA BookSides ==
    ASSUME NEW b \in AllBooks
    PROVE  /\ b.bids \in Seq(Level) /\ b.asks \in Seq(Level)
           /\ Descending(b.bids) /\ Ascending(b.asks)
           /\ Weighted[b.bids] = WeightedPrice(b.bids)
           /\ Weighted[b.asks] = WeightedPrice(b.asks)
<1> USE ScannerAssumption DEF ScannerAssumption
<1>1. PICK e \in Exchanges : b \in Books[e]
  BY DEF AllBooks, Range
<1>2. b \in [bids : Seq(Level), asks : Seq(Level)]
  BY <1>1
<1>3. Weighted[b.bids] = WeightedPrice(b.bids) /\ Weighted[b.asks] = WeightedPrice(b.asks)
  BY DEF Weighted
<1> QED
  BY <1>2, <1>3

(* The exchanges chosen are among those asked, and their books among those *)
(* that came.                                                              *)
LEMMA ChosenExchanges ==
    ASSUME sbooks \in Seq(AllBooks), sbooks # <<>>,
           \A i \in DOMAIN sbooks : sbooks[i].bids # <<>> /\ sbooks[i].asks # <<>>
    PROVE  buy_exchange \in DOMAIN sbooks /\ sell_exchange \in DOMAIN sbooks
<1> DEFINE n == Len(sbooks)
<1>1. n \in Nat \ {0} /\ DOMAIN sbooks = 1..n
  OBVIOUS
<1>2. ASSUME NEW i \in 1..n
      PROVE  best_bid(i) \in 0..PriceUnit /\ best_ask(i) \in Nat
  <2>1. sbooks[i] \in AllBooks
    OBVIOUS
  <2>2. /\ sbooks[i].bids \in Seq(Level) /\ sbooks[i].bids # <<>>
        /\ sbooks[i].asks \in Seq(Level) /\ sbooks[i].asks # <<>>
    BY <1>1, <2>1, BookSides
  <2>3. sbooks[i].bids[1] \in Level /\ sbooks[i].asks[1] \in Level
    BY <2>2
  <2> QED
    BY <2>3, OpportunityAssumption DEF OpportunityAssumption, Level, best_bid, best_ask
<1>3. buy_exchange \in DOMAIN sbooks
  <2> DEFINE p == [i \in 1..n |-> best_ask(i)]
  <2>1. \A i \in 1..n : p[i] = best_ask(i) /\ p[i] \in Nat
    BY <1>2
  <2> HIDE DEF n, p
  <2>2. \E i \in 1..n : \A j \in 1..n : p[i] < p[j] \/ (p[i] = p[j] /\ i <= j)
    BY <1>1, <2>1, FirstLeast
  <2>3. \E i \in DOMAIN sbooks : \A j \in DOMAIN sbooks :
            best_ask(i) < best_ask(j) \/ (best_ask(i) = best_ask(j) /\ i <= j)
    BY <1>1, <2>1, <2>2
  <2> QED
    BY <2>3 DEF buy_exchange
<1>4. sell_exchange \in DOMAIN sbooks
  <2> DEFINE p == [i \in 1..n |-> PriceUnit - best_bid(i)]
  <2>1. \A i \in 1..n : p[i] = PriceUnit - best_bid(i) /\ p[i] \in Nat /\ best_bid(i) \in Int
    BY <1>2, OpportunityAssumption DEF OpportunityAssumption
  <2> HIDE DEF n, p
  <2>2. \E i \in 1..n : \A j \in 1..n : p[i] < p[j] \/ (p[i] = p[j] /\ i <= j)
    BY <1>1, <2>1, FirstLeast
  <2>3. PICK i \in 1..n : \A j \in 1..n : p[i] < p[j] \/ (p[i] = p[j] /\ i <= j)
    BY <2>2
  <2>4. ASSUME NEW j \in 1..n
        PROVE  best_bid(i) > best_bid(j) \/ (best_bid(i) = best_bid(j) /\ i <= j)
    <3>1. PriceUnit \in Int
      BY OpportunityAssumption DEF OpportunityAssumption
    <3>2. /\ p[i] = PriceUnit - best_bid(i) /\ best_bid(i) \in Int
          /\ p[j] = PriceUnit - best_bid(j) /\ best_bid(j) \in Int
          /\ p[i] < p[j] \/ (p[i] = p[j] /\ i <= j)
      BY <2>1, <2>3
    <3> QED
      BY <3>1, <3>2
  <2>5. \E k \in DOMAIN sbooks : \A j \in DOMAIN sbooks :
            best_bid(k) > best_bid(j) \/ (best_bid(k) = best_bid(j) /\ k <= j)
    BY <1>1, <2>4
  <2> QED
    BY <2>5 DEF sell_exchange
<1> QED
  BY <1>3, <1>4

(* An opportunity is never taken for none.                                 *)
LEMMA NotNone ==
    ASSUME NEW s, NEW e, NEW f, NEW b, NEW c
    PROVE  [symbol |-> s, buy_exchange |-> e, sell_exchange |-> f, bought |-> b, sold |-> c]
              # NoOpportunity
<1>1. DOMAIN NoOpportunity = {"symbol"}
  BY DEF NoOpportunity
<1>2. "sold" \in DOMAIN [symbol |-> s, buy_exchange |-> e, sell_exchange |-> f, bought |-> b,
                         sold |-> c]
  OBVIOUS
<1> QED
  BY <1>1, <1>2

-----------------------------------------------------------------------------
(* A session that gets ready is one more of the first ones, in order.      *)
LEMMA OpenStep ==
    ASSUME RoundInv, OpenSession
    PROVE  RoundInv'
<1> USE ScannerAssumption DEF ScannerAssumption
<1> DEFINE n == Len(ScanExchanges)
<1>1. n \in Nat \ {0} /\ DOMAIN ScanExchanges = 1..n
      /\ \A i \in 1..n : ScanExchanges[i] \in Exchanges
  OBVIOUS
<1>2. PICK k \in 0..(n - 1) : /\ ssessions.ready = FirstExchanges(k)
                              /\ IsFiniteSet(ssessions.ready) /\ Cardinality(ssessions.ready) = k
  BY DEF RoundInv, OpenSession, Opening
<1>3. k + 1 \in 1..n /\ nextExchange = ScanExchanges[k + 1] /\ nextExchange \in Exchanges
  BY <1>1, <1>2 DEF nextExchange
<1>4. ssessions \in SessionsOf /\ spc = "open" /\ sbooks = <<>>
      /\ UNCHANGED <<opps, sbooks, sopp, sdeaths>>
  BY DEF RoundInv, OpenSession, Opening
<1>5. Opened(ssessions, nextExchange) \in SessionsOf /\ NotReady(ssessions, nextExchange) \in SessionsOf
  <2>1. /\ ssessions.ready \subseteq Exchanges /\ ssessions.live \subseteq Exchanges
        /\ ssessions.raised \subseteq Exchanges
    BY <1>4 DEF SessionsOf
  <2> QED
    BY <1>3, <2>1 DEF SessionsOf, Opened, NotReady
<1>6. CASE ssessions' = Opened(ssessions, nextExchange) /\ UNCHANGED sfailed
           /\ spc' = IF Cardinality(ssessions.ready) + 1 = n THEN "fetch" ELSE "open"
  <2>1. ssessions'.ready = ssessions.ready \cup {nextExchange}
    BY <1>6 DEF Opened
  <2>2. ssessions'.ready = FirstExchanges(k + 1)
    <3>1. FirstExchanges(k + 1) = FirstExchanges(k) \cup {ScanExchanges[k + 1]}
      BY <1>3 DEF FirstExchanges
    <3> QED
      BY <1>2, <1>3, <2>1, <3>1
  <2>3. nextExchange \notin ssessions.ready
    <3>1. \A i \in 1..k : i \in 1..n /\ i # k + 1
      BY <1>1, <1>2
    <3>2. \A i \in 1..k : ScanExchanges[i] # ScanExchanges[k + 1]
      BY <1>1, <1>3, <3>1 DEF IsInjective
    <3> QED
      BY <1>2, <1>3, <3>2 DEF FirstExchanges
  <2>4. IsFiniteSet(ssessions'.ready) /\ Cardinality(ssessions'.ready) = k + 1
    <3>1. /\ IsFiniteSet(ssessions.ready \cup {nextExchange})
          /\ Cardinality(ssessions.ready \cup {nextExchange}) = Cardinality(ssessions.ready) + 1
      BY <1>2, <2>3, FS_AddElement, Zenon
    <3> QED
      BY <1>2, <2>1, <3>1
  <2>5. CASE k + 1 = n
    <3>1. spc' = "fetch"
      BY <1>2, <1>6, <2>5
    <3>2. Len(sbooks') = 0 /\ DOMAIN sbooks' = {}
      BY <1>4
    <3> QED
      BY <1>1, <1>4, <1>5, <1>6, <3>1, <3>2 DEF RoundInv, OpportunityIsBestFill
  <2>6. CASE k + 1 # n
    <3>1. spc' = "open"
      BY <1>2, <1>6, <2>6
    <3>2. k + 1 \in 0..(n - 1)
      BY ONLY n \in Nat, k \in 0..(n - 1), k + 1 # n
    <3>3. Opening'
      BY <1>4, <2>2, <2>4, <3>2 DEF Opening, FirstExchanges
    <3> QED
      BY <1>4, <1>5, <1>6, <3>1, <3>3 DEF RoundInv, OpportunityIsBestFill
  <2> QED
    BY <2>5, <2>6
<1>7. CASE ssessions' = NotReady(ssessions, nextExchange) /\ spc' = "close" /\ sfailed' = TRUE
  BY <1>4, <1>5, <1>7 DEF RoundInv, OpportunityIsBestFill
<1> QED
  BY <1>6, <1>7 DEF OpenSession

(* A book that came is one more, and none more than the market offers.     *)
LEMMA FetchStep ==
    ASSUME RoundInv, FetchBook
    PROVE  RoundInv'
<1> USE ScannerAssumption DEF ScannerAssumption
<1>1. /\ spc = "fetch" /\ UNCHANGED <<opps, ssessions, sopp, sdeaths>>
      /\ sbooks \in Seq(AllBooks) /\ Len(sbooks) < Len(ScanExchanges)
      /\ \A i \in DOMAIN sbooks : Offered(sbooks[i])
  BY DEF RoundInv, FetchBook
<1>2. CASE spc' = "close" /\ sfailed' = TRUE /\ UNCHANGED sbooks
  BY <1>1, <1>2 DEF RoundInv, OpportunityIsBestFill
<1>3. CASE /\ \E b \in Books[ScanExchanges[Len(sbooks) + 1]] :
                 Offered(b) /\ sbooks' = Append(sbooks, b)
           /\ spc' = IF Len(sbooks) + 1 = Len(ScanExchanges) THEN "build" ELSE "fetch"
           /\ UNCHANGED sfailed
  <2>1. PICK b \in Books[ScanExchanges[Len(sbooks) + 1]] : Offered(b) /\ sbooks' = Append(sbooks, b)
    BY <1>3
  <2>2. Len(sbooks) + 1 \in 1..Len(ScanExchanges)
    BY <1>1
  <2>3. b \in AllBooks
    <3>1. ScanExchanges[Len(sbooks) + 1] \in Exchanges
      BY <2>2
    <3>2. Books[ScanExchanges[Len(sbooks) + 1]] \in Range(Books)
      BY <3>1 DEF Range
    <3> QED
      BY <3>2 DEF AllBooks
  <2>4. /\ sbooks' \in Seq(AllBooks) /\ Len(sbooks') = Len(sbooks) + 1
        /\ DOMAIN sbooks' = 1..(Len(sbooks) + 1) /\ DOMAIN sbooks = 1..Len(sbooks)
        /\ \A i \in 1..Len(sbooks) : sbooks'[i] = sbooks[i]
        /\ sbooks'[Len(sbooks) + 1] = b
    BY <1>1, <2>1, <2>3
  <2>5. \A i \in DOMAIN sbooks' : Offered(sbooks'[i])
    <3> SUFFICES ASSUME NEW i \in DOMAIN sbooks' PROVE Offered(sbooks'[i])
      OBVIOUS
    <3>1. CASE i \in 1..Len(sbooks)
      BY <1>1, <2>4, <3>1
    <3>2. CASE i = Len(sbooks) + 1
      BY <2>1, <2>4, <3>2
    <3> QED
      BY <1>1, <2>4, <3>1, <3>2
  <2>6. (\A i \in DOMAIN sbooks : Offered(sbooks[i]))'
    BY <1>1, <2>5 DEF Offered
  <2>7. Len(sbooks') \in Nat /\ Len(ScanExchanges) \in Nat /\ Len(sbooks') <= Len(ScanExchanges)
    BY <1>1, <2>2, <2>4
  <2>8. CASE spc' = "build" /\ Len(sbooks') = Len(ScanExchanges)
    BY <1>1, <1>3, <2>4, <2>6, <2>7, <2>8 DEF RoundInv, OpportunityIsBestFill
  <2>9. CASE spc' = "fetch" /\ Len(sbooks') # Len(ScanExchanges)
    BY <1>1, <1>3, <2>4, <2>6, <2>7, <2>9 DEF RoundInv, OpportunityIsBestFill
  <2> QED
    BY <1>3, <2>4, <2>8, <2>9
<1> QED
  BY <1>2, <1>3 DEF FetchBook

(* An opportunity is built from the weighted prices of two books, and one  *)
(* is missing only if one of the books has none.                           *)
LEMMA BuildStep ==
    ASSUME RoundInv, BuildOpportunity, ssym \in DOMAIN Symbols
    PROVE  RoundInv'
<1> USE ScannerAssumption DEF ScannerAssumption
<1>1. /\ spc = "build" /\ UNCHANGED <<opps, ssym, ssessions, sbooks, sdeaths>>
      /\ sbooks \in Seq(AllBooks) /\ Len(sbooks) = Len(ScanExchanges)
      /\ \A i \in DOMAIN sbooks : Offered(sbooks[i])
      /\ sopp \in OpportunitySet \cup {NoOpportunity} /\ sfailed \in BOOLEAN
      /\ Len(sbooks) <= Len(ScanExchanges)
  BY DEF RoundInv, BuildOpportunity
<1>2. CASE spc' = "close" /\ sfailed' = TRUE /\ UNCHANGED sopp
  BY <1>1, <1>2 DEF RoundInv, OpportunityIsBestFill
<1>3. CASE ~\E i \in DOMAIN sbooks : sbooks[i].bids = <<>> \/ sbooks[i].asks = <<>>
  <2> DEFINE buy == buy_exchange
             sell == sell_exchange
             asks == sbooks[buy].asks
             bids == sbooks[sell].bids
             o == build_depth_spot_opportunity(active_symbol, ScanExchanges[buy],
                      ScanExchanges[sell], Weighted[asks], Weighted[bids])
  <2>1. sopp' = o /\ spc' = (IF o = NoOpportunity THEN "close" ELSE "publish") /\ UNCHANGED sfailed
    BY <1>3 DEF BuildOpportunity
  <2>2. buy \in DOMAIN sbooks /\ sell \in DOMAIN sbooks
    <3>1. sbooks # <<>>
      BY <1>1
    <3> QED
      BY <1>1, <1>3, <3>1, ChosenExchanges
  <2>3. sbooks[buy] \in AllBooks /\ sbooks[sell] \in AllBooks
    BY <1>1, <2>2
  <2>4. buy' = buy /\ sell' = sell
    BY <1>1 DEF buy_exchange, sell_exchange, best_ask, best_bid
  <2>5. asks' = asks /\ bids' = bids
    BY <1>1, <2>4
  <2>6. ScanExchanges[buy] \in Exchanges /\ ScanExchanges[sell] \in Exchanges
    <3>1. buy \in 1..Len(ScanExchanges) /\ sell \in 1..Len(ScanExchanges)
      BY <1>1, <2>2
    <3> QED
      BY <3>1
  <2>7. active_symbol \in SymbolSet
    BY DEF active_symbol, SymbolSet, Range
  <2>8. /\ asks \in Seq(Level) /\ Ascending(asks) /\ Weighted[asks] = WeightedPrice(asks)
        /\ bids \in Seq(Level) /\ Descending(bids) /\ Weighted[bids] = WeightedPrice(bids)
    BY <2>3, BookSides
  <2>9. Len(opps) < MaxOpps \/ Weighted[bids] = NoPrice
    BY <1>1, <2>2 DEF Offered
  <2> HIDE DEF buy, sell, asks, bids
  <2>10. CASE WeightedPrice(asks) = NoPrice \/ WeightedPrice(bids) = NoPrice
    <3>1. o = NoOpportunity
      BY <2>8, <2>10 DEF build_depth_spot_opportunity
    <3>2. Fills(asks) = {} \/ Fills(bids) = {}
      BY <2>8, <2>10, WeightedPriceIs
    <3>3. Fills(asks') = {} \/ Fills(bids') = {}
      BY <2>5, <3>2
    <3>4. OpportunityIsBestFill'
      BY <2>1, <3>1, <3>3 DEF OpportunityIsBestFill, buy, sell, asks, bids
    <3>5. spc' = "close" /\ sopp' = NoOpportunity
      BY <2>1, <3>1
    <3> QED
      BY <1>1, <2>1, <3>4, <3>5 DEF RoundInv
  <2>11. CASE WeightedPrice(asks) # NoPrice /\ WeightedPrice(bids) # NoPrice
    <3>1. o = [symbol |-> active_symbol, buy_exchange |-> ScanExchanges[buy],
               sell_exchange |-> ScanExchanges[sell],
               bought |-> WeightedPrice(asks).base, sold |-> WeightedPrice(bids).base]
      BY <2>8, <2>11 DEF build_depth_spot_opportunity
    <3>2. /\ WeightedPrice(asks).base \in Nat /\ WeightedPrice(asks).base = Best(asks)
          /\ WeightedPrice(bids).base \in Nat /\ WeightedPrice(bids).base = Least(bids)
      BY <2>8, <2>11, WeightedPriceIs
    <3>3. o # NoOpportunity
      BY <3>1, NotNone
    <3>4. o \in OpportunitySet /\ o.bought = Best(asks) /\ o.sold = Least(bids)
      BY <2>6, <2>7, <3>1, <3>2 DEF OpportunitySet
    <3> HIDE DEF o
    <3>5. spc' = "publish" /\ sopp' = o
      BY <2>1, <3>3
    <3>6. sopp'.bought = Best(asks') /\ sopp'.sold = Least(bids')
      BY <2>5, <3>4, <3>5
    <3>7. OpportunityIsBestFill'
      BY <3>5, <3>6 DEF OpportunityIsBestFill, buy, sell, asks, bids
    <3>8. Len(opps) < MaxOpps
      BY <2>8, <2>9, <2>11
    <3> QED
      BY <1>1, <2>1, <3>4, <3>5, <3>7, <3>8 DEF RoundInv
  <2> QED
    BY <2>10, <2>11
<1> QED
  BY <1>2, <1>3 DEF BuildOpportunity

(* Nothing but these matters to a round.                                   *)
LEMMA RoundStutters ==
    ASSUME RoundInv, UNCHANGED <<opps, spc, ssessions, sbooks, sopp, sfailed, sdeaths>>
    PROVE  RoundInv'
<1>1. buy_exchange' = buy_exchange /\ sell_exchange' = sell_exchange
  BY DEF buy_exchange, sell_exchange, best_ask, best_bid
<1>2. OpportunityIsBestFill'
  <2>1. /\ sbooks[buy_exchange]' = sbooks[buy_exchange]
        /\ sbooks[sell_exchange]' = sbooks[sell_exchange]
    BY <1>1
  <2>2. OpportunityIsBestFill
    BY DEF RoundInv
  <2> QED
    BY <2>1, <2>2 DEF OpportunityIsBestFill
<1>3. Opening => Opening'
  BY DEF Opening
<1> QED
  BY <1>2, <1>3 DEF RoundInv, Offered

(* The scanner's steps on its round.                                       *)
LEMMA RoundStep ==
    ASSUME RoundInv, ScannerNext, ssym \in DOMAIN Symbols
    PROVE  RoundInv'
<1> USE ScannerAssumption DEF ScannerAssumption
<1>1. CASE Publish
  <2>1. /\ spc = "publish" /\ spc' = "close" /\ UNCHANGED <<ssessions, sbooks, sopp, sdeaths>>
        /\ sopp \in OpportunitySet /\ Len(opps) < MaxOpps /\ opps \in Seq(OpportunitySet)
        /\ sfailed' \in BOOLEAN
    BY <1>1 DEF Publish, RoundInv
  <2>2. opps' \in Seq(OpportunitySet) /\ Len(opps') <= MaxOpps
    <3>1. CASE opps' = Append(opps, sopp)
      BY <2>1, <3>1
    <3>2. CASE UNCHANGED opps
      BY <2>1, <3>2
    <3> QED
      BY <1>1, <3>1, <3>2 DEF Publish
  <2>3. sopp # NoOpportunity
    <3>1. DOMAIN sopp = {"symbol", "buy_exchange", "sell_exchange", "bought", "sold"}
      BY <2>1 DEF OpportunitySet
    <3>2. DOMAIN NoOpportunity = {"symbol"}
      BY DEF NoOpportunity
    <3> QED
      BY <3>1, <3>2
  <2> QED
    BY <2>1, <2>2, <2>3 DEF RoundInv, OpportunityIsBestFill
<1>2. CASE CloseSessions
  <2>1. PICK failing \in SUBSET ssessions.ready : ssessions' = Closed(ssessions, failing)
    BY <1>2 DEF CloseSessions
  <2>2. ssessions' \in SessionsOf
    <3>1. /\ ssessions.ready \subseteq Exchanges /\ ssessions.live \subseteq Exchanges
          /\ ssessions.raised \subseteq Exchanges
      BY DEF RoundInv, SessionsOf
    <3> QED
      BY <2>1, <3>1 DEF Closed, SessionsOf
  <2>3. spc' \in {"report", "sleep", "alert"}
    BY <1>2 DEF CloseSessions
  <2>4. sbooks' \in Seq(AllBooks) /\ Len(sbooks') = 0
    BY <1>2 DEF CloseSessions
  <2>5. UNCHANGED <<opps, sopp, sfailed, sdeaths>>
    BY <1>2 DEF CloseSessions
  <2> QED
    BY <2>2, <2>3, <2>4, <2>5 DEF RoundInv, OpportunityIsBestFill
<1>3. CASE AlertDetected \/ ReportFailure \/ NextSymbol \/ ScannerDies
  <2>1. ForgetRound /\ spc' \in {"sleep", "report", "sending", "open", "down"}
        /\ opps' = opps /\ sfailed' \in BOOLEAN /\ sdeaths' \in 0..MaxScannerDeaths
    <3>1. sfailed \in BOOLEAN /\ sdeaths \in 0..MaxScannerDeaths
      BY DEF RoundInv
    <3>2. CASE AlertDetected \/ ReportFailure \/ NextSymbol
      BY <3>1, <3>2 DEF AlertDetected, ReportFailure, NextSymbol
    <3>3. CASE ScannerDies
      <4>1. sdeaths < MaxScannerDeaths /\ sdeaths' = sdeaths + 1 /\ MaxScannerDeaths \in Nat
        BY <3>3 DEF ScannerDies
      <4>2. sdeaths' \in 0..MaxScannerDeaths
        BY ONLY <3>1, <4>1
      <4> QED
        BY <3>3, <4>2 DEF ScannerDies
    <3> QED
      BY <1>3, <3>2, <3>3
  <2>2. /\ ssessions' = NoSessions /\ sbooks' = <<>> /\ sopp' = NoOpportunity
    BY <2>1 DEF ForgetRound
  <2>3. Opening'
    <3>1. 0 \in 0..(Len(ScanExchanges) - 1)
      OBVIOUS
    <3>2. ssessions'.ready = {} /\ FirstExchanges(0) = {}
      BY <2>2 DEF NoSessions, FirstExchanges
    <3>3. (ssessions.ready = FirstExchanges(0)
            /\ IsFiniteSet(ssessions.ready) /\ Cardinality(ssessions.ready) = 0)'
      BY <3>2, FS_EmptySet DEF FirstExchanges
    <3> QED
      BY <2>2, <3>1, <3>3 DEF Opening
  <2>4. ssessions' \in SessionsOf
    BY <2>2 DEF NoSessions, SessionsOf
  <2>5. sbooks' \in Seq(AllBooks) /\ Len(sbooks') = 0
    BY <2>2
  <2> QED
    BY <2>1, <2>2, <2>3, <2>4, <2>5 DEF RoundInv, OpportunityIsBestFill
<1>4. CASE SendAlert \/ ScannerRestart
  <2>1. spc' \in {"sleep", "open"} /\ UNCHANGED <<opps, ssessions, sbooks, sopp, sfailed, sdeaths>>
        /\ (spc' = "open" => spc = "down")
    BY <1>4 DEF SendAlert, ScannerRestart
  <2>2. spc' = "open" => Opening'
    BY <2>1 DEF RoundInv, Opening
  <2> QED
    BY <2>1, <2>2 DEF RoundInv, OpportunityIsBestFill
<1>5. CASE Tick
  <2>1. UNCHANGED <<opps, spc, ssessions, sbooks, sopp, sfailed, sdeaths>>
    BY <1>5 DEF Tick
  <2> QED
    BY <2>1, RoundStutters
<1> QED
  BY <1>1, <1>2, <1>3, <1>4, <1>5, OpenStep, FetchStep, BuildStep DEF ScannerNext, ScannerStep

(* The consumer's steps on the rest of its types.                          *)
LEMMA ConsumerTypesStep ==
    ASSUME ConsumerInv, ConsumerNext
    PROVE  ConsumerInv' /\ UNCHANGED opps
<1> USE ConsumerAssumption DEF ConsumerAssumption, ConsumerInv, ConsumerFrame
<1>1. CASE ReadOpportunity \/ FetchTickers \/ CreateBuy \/ CreateSell \/ LookBuy \/ LookSell
  BY <1>1 DEF ReadOpportunity, FetchTickers, Abort, CreateBuy, CreateSell, Create, LookBuy, LookSell,
     Look, probeVars
<1>2. CASE CancelBuy \/ CancelSell \/ FinalBuy \/ FinalSell
  BY <1>2 DEF CancelBuy, CancelSell, Cancel, FinalBuy, FinalSell, LastLook
<1>3. CASE MakeResult
  BY <1>3 DEF MakeResult, Results
<1>4. CASE Ack \/ ConsumerRestart \/ ConsumerCrash
  BY <1>4 DEF Ack, ConsumerRestart, ConsumerCrash, ForgetProbe, probeVars, Results
<1> QED
  BY <1>1, <1>2, <1>3, <1>4 DEF ConsumerNext, ConsumerStep

-----------------------------------------------------------------------------
LEMMA SpotInit_Inv ==
    ASSUME SpotInit
    PROVE  SpotInv
<1> USE ScannerAssumption DEF SpotInit, ScannerInit, ConsumerInit, ProbeInit
<1>1. SessionsInv
  BY DEF SessionsInv, ClientsClosed, NoSessions
<1>2. AlertInv
  <2>1. 1 \in DOMAIN Symbols
    BY DEF ScannerAssumption
  <2>2. DedupeWindow \in Nat
    BY DEF ScannerAssumption
  <2> QED
    BY <2>1, <2>2 DEF AlertInv, LongAgo, Ages, SilenceOnlyAfterAlert
<1>3. ProbeInv
  BY DEF ProbeInv, Untouched, NoOrder, Legs
<1>4. RoundsInv
  <2>1. opps \in Seq({}) /\ Len(opps) = 0
    OBVIOUS
  <2> QED
    BY <2>1 DEF RoundsInv, IsStream, AtWork
<1>5. RoundInv
  <2>1. Opening
    <3>1. 0 \in 0..(Len(ScanExchanges) - 1)
      BY DEF ScannerAssumption
    <3>2. ssessions.ready = {} /\ FirstExchanges(0) = {}
      BY DEF NoSessions, FirstExchanges
    <3> QED
      BY <3>1, <3>2, FS_EmptySet DEF Opening
  <2>2. ssessions \in SessionsOf
    BY DEF NoSessions, SessionsOf
  <2>3. Len(ScanExchanges) \in Nat /\ MaxOpps \in Nat /\ MaxScannerDeaths \in Nat
    BY DEF ScannerAssumption
  <2>4. /\ sbooks = <<>> /\ sbooks \in Seq(AllBooks) /\ Len(sbooks) = 0
        /\ opps \in Seq(OpportunitySet) /\ Len(opps) = 0
        /\ spc = "open" /\ sopp = NoOpportunity /\ sfailed = FALSE /\ sdeaths = 0
    OBVIOUS
  <2>5. OpportunityIsBestFill
    BY <2>4 DEF OpportunityIsBestFill
  <2>6. Len(opps) <= MaxOpps /\ Len(sbooks) <= Len(ScanExchanges) /\ sdeaths \in 0..MaxScannerDeaths
    BY ONLY <2>3, <2>4
  <2>7. spc \notin {"fetch", "build", "publish"}
    BY <2>4
  <2> QED
    BY ONLY <2>1, <2>2, <2>4, <2>5, <2>6, <2>7 DEF RoundInv
<1>6. ConsumerInv
  BY ConsumerAssumption DEF ConsumerInv, ConsumerAssumption, Results
<1> QED
  BY <1>1, <1>2, <1>3, <1>4, <1>5, <1>6 DEF SpotInv

LEMMA SpotStep ==
    ASSUME SpotInv, [SpotNext]_spotVars
    PROVE  SpotInv'
<1> USE DEF SpotInv
<1>1. CASE ScannerNext /\ UNCHANGED consumerVars
  <2>1. SessionsInv' /\ AlertInv'
    BY <1>1, SessionsStep, AlertStep
  <2>2. ProbeInv'
    BY <1>1 DEF consumerVars, probeVars, ProbeInv, Untouched, BothOpen, Cancelled, Noted, Early,
                Late
  <2>3. RoundInv'
    BY <1>1, RoundStep DEF AlertInv
  <2>4. ConsumerInv'
    BY <1>1 DEF consumerVars, probeVars, ConsumerInv
  <2> QED
    BY <1>1, <2>1, <2>2, <2>3, <2>4, ScannerRounds
<1>2. CASE ConsumerNext /\ UNCHANGED scannerVars
  <2>1. SessionsInv' /\ AlertInv'
    BY <1>2 DEF scannerVars, SessionsInv, ClientsClosed, AlertInv, SilenceOnlyAfterAlert,
                active_symbol
  <2>2. ConsumerInv' /\ UNCHANGED opps
    BY <1>2, ConsumerTypesStep
  <2>3. RoundInv'
    BY <1>2, <2>2, RoundStutters DEF scannerVars
  <2> QED
    BY <1>2, <2>1, <2>2, <2>3, ProbeStep, ConsumerRounds
<1>3. CASE UNCHANGED spotVars
  <2>1. RoundInv'
    BY <1>3, RoundStutters DEF spotVars, scannerVars
  <2>2. SessionsInv' /\ AlertInv'
    BY <1>3 DEF spotVars, scannerVars, SessionsInv, ClientsClosed, AlertInv,
       SilenceOnlyAfterAlert, active_symbol
  <2>3. ProbeInv'
    BY <1>3 DEF spotVars, consumerVars, probeVars, ProbeInv, Untouched, BothOpen, Cancelled,
       Noted, Early, Late
  <2>4. RoundsInv' /\ ConsumerInv'
    BY <1>3 DEF spotVars, consumerVars, probeVars, RoundsInv, AtWork, ConsumerInv
  <2> QED
    BY <2>1, <2>2, <2>3, <2>4
<1> QED
  BY <1>1, <1>2, <1>3 DEF SpotNext

LEMMA SpotInvariant == SpotSpec => []SpotInv
<1>1. SpotInit => SpotInv
  BY SpotInit_Inv
<1>2. SpotInv /\ [SpotNext]_spotVars => SpotInv'
  BY SpotStep
<1> QED
  BY <1>1, <1>2, PTL DEF SpotSpec

-----------------------------------------------------------------------------
(* Every variable of the scanner and of the consumer keeps its type: the   *)
(* books of a round are never more than the exchanges asked, the cursor is *)
(* never behind the end of the stream.                                     *)
THEOREM SpotTypes == SpotSpec => []SpotTypeOK
<1>1. SpotInv => SpotTypeOK
  <2> SUFFICES ASSUME SpotInv PROVE SpotTypeOK
    OBVIOUS
  <2>1. ScannerTypeOK
    BY DEF SpotInv, AlertInv, RoundInv, ScannerTypeOK
  <2>2. Len(opps) \in Nat
    BY StreamGrows DEF SpotInv, RoundsInv
  <2>3. ConsumerTypeOK
    BY <2>2 DEF SpotInv, ProbeInv, RoundsInv, ConsumerInv, ConsumerTypeOK
  <2> QED
    BY <2>1, <2>3 DEF SpotTypeOK
<1> QED
  BY <1>1, SpotInvariant, PTL

(* What is published is the best use of the target on the books fetched,   *)
(* and nothing that could be had on them is passed over, for any books,    *)
(* target and prices (OpportunityCalculator).                              *)
THEOREM OpportunitiesAreBestFills == SpotSpec => []OpportunityIsBestFill
<1>1. SpotInv => OpportunityIsBestFill
  BY DEF SpotInv, RoundInv
<1> QED
  BY <1>1, SpotInvariant, PTL

(* No round leaves a client open but those that failed to get ready or to  *)
(* close, for any number of exchanges (LiveSpotFlowService.run_once).      *)
THEOREM ScannerClosesClients == SpotSpec => []ClientsClosed
<1>1. SpotInv => ClientsClosed
  BY DEF SpotInv, SessionsInv
<1> QED
  BY <1>1, SpotInvariant, PTL

(* The dedupe cache silences a symbol only on account of an alert for it   *)
(* that was delivered (AlertRouter.dispatch).                              *)
THEOREM SilenceIsEarned == SpotSpec => []SilenceOnlyAfterAlert
<1>1. SpotInv => SilenceOnlyAfterAlert
  BY DEF SpotInv, AlertInv
<1> QED
  BY <1>1, SpotInvariant, PTL

(* What a probe leaves on an exchange has a cause of its own, and its      *)
(* result tells of it (SpotArbitrageProbeService.run_task).                *)
THEOREM OpenOrdersExplained == SpotSpec => []OpenOrderExplained
<1>1. ProbeInv => OpenOrderExplained
  BY DEF ProbeInv, OpenOrderExplained, Legs, Early, Late, Cancelled, Noted
<1> QED
  BY <1>1, SpotInvariant, PTL DEF SpotInv

(* An entry is probed again only because of a kill, for any number of      *)
(* entries and of kills (RedisSpotConsumer.run).                           *)
THEOREM ProbesAreBounded == SpotSpec => []ProbedOncePerRun
<1>1. RoundsInv => ProbedOncePerRun
  <2> SUFFICES ASSUME RoundsInv PROVE ProbedOncePerRun
    OBVIOUS
  <2>1. Len(opps) \in Nat
    BY StreamGrows DEF RoundsInv
  <2>2. /\ Len(opps) * crashes \in Nat
        /\ Len(opps) * (crashes + 1) = Len(opps) * crashes + Len(opps)
    BY <2>1, OneRoundMore DEF RoundsInv
  <2> QED
    BY <2>1, <2>2 DEF RoundsInv, ProbedOncePerRun
<1> QED
  BY <1>1, SpotInvariant, PTL DEF SpotInv
=============================================================================
