---------------------------- MODULE ClaimProofs -----------------------------
(***************************************************************************)
(* The claim workflow proved for every set of users, claims and request    *)
(* slots, every limit and every number of submissions: first the facts     *)
(* about the arithmetic and the operators of SubmitPolicy, then the types  *)
(* and the inductive invariant of the handlers, and last that they         *)
(* implement ClaimLifecycle.                                               *)
(***************************************************************************)
EXTENDS ClaimProperties, WellFoundedInduction, SequenceTheorems,
        FiniteSetTheorems, TLAPS

-----------------------------------------------------------------------------
(* The decimal arithmetic of Decimals computes what it is taken for, for   *)
(* every amount.                                                           *)

(* splitDecimal loses nothing of an amount with two digits.                *)
LEMMA SplitKeepsValue ==
    ASSUME NEW v \in Nat
    PROVE  /\ SplitDecimal(v) \in Decimal
           /\ SplitDecimal(v).whole >= 0
           /\ Value(SplitDecimal(v)) = v
BY SMT DEF SplitDecimal, Decimal, Value

(* The sign of a number tells whether it is above zero.                    *)
LEMMA SignTells ==
    ASSUME NEW n \in Int
    PROVE  (Sign(n) > 0 <=> n > 0) /\ (Sign(n) <= 0 <=> n <= 0)
BY SMT DEF Sign

(* Whole parts decide before cents do.                                     *)
LEMMA WholeDecides ==
    ASSUME NEW x \in Int, NEW y \in Int, NEW c \in 0..99, NEW d \in 0..99, x # y
    PROVE  /\ x > y <=> 100 * x + c > 100 * y + d
           /\ x <= y <=> 100 * x + c <= 100 * y + d
<1>1. c \in Int /\ 0 <= c /\ c <= 99 /\ d \in Int /\ 0 <= d /\ d <= 99
  OBVIOUS
<1>2. CASE x < y
  BY <1>1, <1>2, SMT
<1>3. CASE y < x
  BY <1>1, <1>3, SMT
<1> QED BY <1>2, <1>3

(* compareNumeric orders decimals as the numbers they stand for.           *)
THEOREM CompareOrders ==
    ASSUME NEW a \in Decimal, NEW b \in Decimal
    PROVE  /\ CompareNumeric(a, b) > 0 <=> Value(a) > Value(b)
           /\ CompareNumeric(a, b) <= 0 <=> Value(a) <= Value(b)
<1>1. /\ a.whole \in Int /\ a.cents \in 0..99
      /\ b.whole \in Int /\ b.cents \in 0..99
  BY DEF Decimal
<1>2. CASE a.whole # b.whole
  <2>1. CompareNumeric(a, b) = Sign(a.whole - b.whole)
    BY <1>2 DEF CompareNumeric
  <2>2. (CompareNumeric(a, b) > 0 <=> a.whole > b.whole)
        /\ (CompareNumeric(a, b) <= 0 <=> a.whole <= b.whole)
    <3>1. a.whole - b.whole \in Int
      BY <1>1
    <3> QED BY <1>1, <2>1, <3>1, SignTells
  <2>3. /\ a.whole > b.whole
              <=> 100 * a.whole + a.cents > 100 * b.whole + b.cents
        /\ a.whole <= b.whole
              <=> 100 * a.whole + a.cents <= 100 * b.whole + b.cents
    BY <1>1, <1>2, WholeDecides, Zenon
  <2> QED BY <2>2, <2>3, Zenon DEF Value
<1>3. CASE a.whole = b.whole
  <2>1. CompareNumeric(a, b) = Sign(a.cents - b.cents)
    BY <1>3 DEF CompareNumeric
  <2>2. (CompareNumeric(a, b) > 0 <=> a.cents > b.cents)
        /\ (CompareNumeric(a, b) <= 0 <=> a.cents <= b.cents)
    <3>1. a.cents - b.cents \in Int /\ a.cents \in Int /\ b.cents \in Int
      BY <1>1
    <3> DEFINE n == a.cents - b.cents
    <3>2. (Sign(n) > 0 <=> n > 0) /\ (Sign(n) <= 0 <=> n <= 0)
      BY <3>1, SignTells
    <3>3. (n > 0 <=> a.cents > b.cents) /\ (n <= 0 <=> a.cents <= b.cents)
      BY <3>1
    <3> QED BY <2>1, <3>2, <3>3
  <2>3. (a.cents > b.cents <=> Value(a) > Value(b))
        /\ (a.cents <= b.cents <=> Value(a) <= Value(b))
    <3> DEFINE w == 100 * b.whole
    <3>1. Value(a) = w + a.cents /\ Value(b) = w + b.cents
      BY <1>3 DEF Value
    <3>2. w \in Int /\ a.cents \in Int /\ b.cents \in Int
      BY <1>1
    <3> HIDE DEF w
    <3> QED BY <3>1, <3>2
  <2> QED BY <2>2, <2>3
<1> QED BY <1>2, <1>3

(* addNumeric carries.                                                     *)
THEOREM AddIsSum ==
    ASSUME NEW a \in Decimal, NEW b \in Decimal
    PROVE  /\ AddNumeric(a, b) \in Decimal
           /\ Value(AddNumeric(a, b)) = Value(a) + Value(b)
<1>1. /\ a.whole \in Int /\ a.cents \in 0..99
      /\ b.whole \in Int /\ b.cents \in 0..99
  BY DEF Decimal
<1> QED BY <1>1, SMT DEF AddNumeric, Decimal, Value

(* subtractNumeric borrows, and is right whatever the callers enforce.     *)
THEOREM SubtractIsDifference ==
    ASSUME NEW a \in Decimal, NEW b \in Decimal
    PROVE  /\ SubtractNumeric(a, b) \in Decimal
           /\ Value(SubtractNumeric(a, b)) = Value(a) - Value(b)
<1>1. /\ a.whole \in Int /\ a.cents \in 0..99
      /\ b.whole \in Int /\ b.cents \in 0..99
  BY DEF Decimal
<1> DEFINE w == a.whole - b.whole
           c == a.cents - b.cents
<1>2. CASE c < 0
  <2>1. SubtractNumeric(a, b) = [whole |-> w - 1, cents |-> c + 100]
    BY <1>2 DEF SubtractNumeric
  <2> QED BY <1>1, <1>2, <2>1, SMT DEF Decimal, Value
<1>3. CASE ~(c < 0)
  <2>1. SubtractNumeric(a, b) = [whole |-> w, cents |-> c]
    BY <1>3 DEF SubtractNumeric
  <2> QED BY <1>1, <1>3, <2>1, SMT DEF Decimal, Value
<1> QED BY <1>2, <1>3

(* What a limit leaves is told as it is, or as nothing when more than the  *)
(* limit is spent: the minus sign is enough to tell the two apart, though  *)
(* the text behind it is not the difference (formatDecimal).               *)
THEOREM RemainingIsWhatIsLeft ==
    ASSUME NEW limit \in Nat, NEW spent \in Nat
    PROVE  Value(Remaining(SplitDecimal(limit), SplitDecimal(spent)))
             = IF spent <= limit THEN limit - spent ELSE 0
<1> DEFINE a == SplitDecimal(limit)
           b == SplitDecimal(spent)
           d == SubtractNumeric(a, b)
<1>1. a \in Decimal /\ b \in Decimal /\ Value(a) = limit /\ Value(b) = spent
  BY SplitKeepsValue
<1> HIDE DEF a, b
<1>2. d \in Decimal /\ Value(d) = limit - spent
  BY <1>1, SubtractIsDifference
<1> HIDE DEF d
<1>3. d.whole \in Int /\ d.cents \in 0..99 /\ 100 * d.whole + d.cents = limit - spent
  BY <1>2 DEF Decimal, Value
<1>4. d.whole < 0 <=> limit < spent
  BY <1>3, SMT
<1>5. Remaining(a, b) = IF d.whole < 0 THEN [whole |-> 0, cents |-> 0] ELSE d
  BY DEF Remaining, d
<1> QED BY <1>2, <1>4, <1>5, SMT DEF Value, a, b

-----------------------------------------------------------------------------
(* Sums over finite sets, as MonthlyCategorySpend has them.                *)

(* A non-empty set of natural numbers has a least element.                 *)
LEMMA LeastElement ==
    ASSUME NEW I, I \subseteq Nat, I # {}
    PROVE  \E m \in I : \A n \in I : m <= n
<1> DEFINE R == OpToRel(<, Nat)
<1>1. \A x, y \in Nat : y < x => <<y, x>> \in R
  BY DEF OpToRel
<1>2. IsWellFoundedOn(R, Nat)
  BY NatLessThanWellFounded
<1> HIDE DEF R
<1>3. PICK m \in I : \A y \in I : <<y, m>> \notin R
  BY <1>2, WFMin
<1>4. ASSUME NEW n \in I PROVE m <= n
  <2>1. m \in Nat /\ n \in Nat
    OBVIOUS
  <2>2. ~(n < m)
    BY <1>1, <1>3, <2>1
  <2> QED BY <2>1, <2>2
<1> QED BY <1>4

(* Of a family of finite subsets of T, one loses membership with any of    *)
(* its elements.                                                           *)
LEMMA SmallestSet ==
    ASSUME NEW T, IsFiniteSet(T), NEW F \in SUBSET SUBSET T, F # {}
    PROVE  \E s \in F : IsFiniteSet(s) /\ \A x \in s : s \ {x} \notin F
<1> DEFINE I == {Cardinality(s) : s \in F}
<1>1. \A s \in F : IsFiniteSet(s) /\ Cardinality(s) \in Nat
  BY FS_Subset, FS_CardinalityType
<1>2. I \subseteq Nat /\ I # {}
  BY <1>1
<1>3. PICK m \in I : \A n \in I : m <= n
  <2> HIDE DEF I
  <2> QED BY <1>2, LeastElement
<1>4. PICK s \in F : m = Cardinality(s)
  BY <1>3
<1>5. ASSUME NEW x \in s, s \ {x} \in F PROVE FALSE
  <2>1. Cardinality(s \ {x}) = Cardinality(s) - 1
    BY <1>1, <1>4, FS_RemoveElement
  <2>2. Cardinality(s) <= Cardinality(s \ {x})
    BY <1>3, <1>4, <1>5
  <2> QED BY <1>1, <1>4, <2>1, <2>2
<1> QED BY <1>1, <1>4, <1>5

(* The element a sum takes first, and the recursion that sums f.           *)
First(s) == CHOOSE x \in s : TRUE
Sums(f, T, g) ==
    g = [s \in SUBSET T |-> IF s = {} THEN 0
                            ELSE f[First(s)] + g[s \ {First(s)}]]

(* What f sums to over a set.                                             *)
Total(f, T) == SumFunctionOnSet(f, T)

(* It is one of the set.                                                   *)
LEMMA FirstIn == ASSUME NEW s, s # {} PROVE First(s) \in s
BY DEF First

(* The recursion at a set.                                                 *)
LEMMA SumsAt ==
    ASSUME NEW f, NEW T, NEW g, Sums(f, T, g), NEW s \in SUBSET T
    PROVE  g[s] = IF s = {} THEN 0 ELSE f[First(s)] + g[s \ {First(s)}]
BY DEF Sums

(* Two such recursions agree where both are defined.                       *)
LEMMA SumsAgree ==
    ASSUME NEW f, NEW T, IsFiniteSet(T), NEW U, NEW g, NEW h,
           Sums(f, T, g), Sums(f, U, h), NEW s \in SUBSET (T \cap U)
    PROVE  g[s] = h[s]
<1> DEFINE F == {t \in SUBSET (T \cap U) : g[t] # h[t]}
<1>1. SUFFICES ASSUME F # {} PROVE FALSE
  OBVIOUS
<1>2. IsFiniteSet(T \cap U)
  BY FS_Subset
<1>3. PICK t \in F : \A x \in t : t \ {x} \notin F
  <2>1. F \in SUBSET SUBSET (T \cap U)
    OBVIOUS
  <2> HIDE DEF F
  <2> QED BY <1>1, <1>2, <2>1, SmallestSet
<1>4. t \in SUBSET T /\ t \in SUBSET U
  OBVIOUS
<1>5. CASE t = {}
  BY <1>3, <1>4, <1>5, SumsAt
<1>6. CASE t # {}
  <2>1. g[t \ {First(t)}] = h[t \ {First(t)}]
    BY <1>3, <1>6, FirstIn
  <2>2. g[t] = f[First(t)] + g[t \ {First(t)}]
    BY <1>4, <1>6, SumsAt
  <2>3. h[t] = f[First(t)] + h[t \ {First(t)}]
    BY <1>4, <1>6, SumsAt
  <2> QED BY <1>3, <2>1, <2>2, <2>3
<1> QED BY <1>5, <1>6

(* There is one for every finite set.                                      *)
LEMMA SumsExist ==
    ASSUME NEW f, NEW T, IsFiniteSet(T)
    PROVE  \E g : Sums(f, T, g)
<1> DEFINE F == {t \in SUBSET T : ~\E g : Sums(f, t, g)}
<1>1. SUFFICES ASSUME F # {} PROVE FALSE
  OBVIOUS
<1>2. PICK t \in F : IsFiniteSet(t) /\ \A x \in t : t \ {x} \notin F
  <2>1. F \in SUBSET SUBSET T
    OBVIOUS
  <2> HIDE DEF F
  <2> QED BY <1>1, <2>1, SmallestSet
<1>3. t \in SUBSET T /\ ~\E g : Sums(f, t, g)
  BY <1>2
<1> DEFINE Out(s) == First(t \ s)
           Of(s) == CHOOSE g : Sums(f, t \ {Out(s)}, g)
           Part(s) == IF s = {} THEN 0 ELSE Of(s)[s]
           g == [s \in SUBSET t |->
                   IF s = t /\ t # {} THEN f[First(t)] + Part(t \ {First(t)})
                                      ELSE Part(s)]
<1>4. ASSUME NEW s \in SUBSET t, s # t
      PROVE  /\ Sums(f, t \ {Out(s)}, Of(s))
             /\ s \in SUBSET (t \ {Out(s)})
             /\ IsFiniteSet(t \ {Out(s)})
  <2>1. Out(s) \in t \ s
    BY <1>4, FirstIn
  <2>2. t \ {Out(s)} \notin F
    BY <1>2, <2>1
  <2>3. \E h : Sums(f, t \ {Out(s)}, h)
    BY <1>3, <2>2
  <2>4. IsFiniteSet(t \ {Out(s)})
    BY <1>2, FS_Subset
  <2> QED BY <2>1, <2>3, <2>4
<1>5. ASSUME NEW s \in SUBSET t, s # {}, s # t
      PROVE  Part(s) = f[First(s)] + Part(s \ {First(s)})
  <2> DEFINE r == s \ {First(s)}
  <2>1. First(s) \in s
    BY <1>5, FirstIn
  <2>2. r \in SUBSET t /\ r # t
    BY <2>1
  <2>3. Of(s)[s] = f[First(s)] + Of(s)[r]
    BY <1>4, <1>5, SumsAt
  <2>4. Of(s)[r] = Part(r)
    <3>1. CASE r = {}
      BY <1>4, <1>5, <3>1, SumsAt
    <3>2. CASE r # {}
      <4>1. /\ Sums(f, t \ {Out(s)}, Of(s)) /\ IsFiniteSet(t \ {Out(s)})
            /\ s \in SUBSET (t \ {Out(s)})
        BY <1>4, <1>5
      <4>2. Sums(f, t \ {Out(r)}, Of(r)) /\ r \in SUBSET (t \ {Out(r)})
        BY <1>4, <2>2
      <4>3. r \in SUBSET ((t \ {Out(s)}) \cap (t \ {Out(r)}))
        BY <4>1, <4>2
      <4> HIDE DEF Of, Out, r
      <4>4. Of(s)[r] = Of(r)[r]
        BY <4>1, <4>2, <4>3, SumsAgree
      <4> QED BY <3>2, <4>4
    <3> QED BY <3>1, <3>2
  <2> QED BY <1>5, <2>3, <2>4
<1>6. ASSUME NEW s \in SUBSET t
      PROVE  g[s] = IF s = {} THEN 0 ELSE f[First(s)] + g[s \ {First(s)}]
  <2> HIDE DEF Of
  <2>1. CASE s = {}
    BY <2>1
  <2>2. CASE s # {}
    <3>1. First(s) \in s /\ s \ {First(s)} \in SUBSET t /\ s \ {First(s)} # t
      BY <2>2, FirstIn
    <3>2. g[s \ {First(s)}] = Part(s \ {First(s)})
      BY <3>1
    <3>3. g[s] = f[First(s)] + Part(s \ {First(s)})
      <4> HIDE DEF Part
      <4>1. CASE s = t
        BY <2>2, <4>1
      <4>2. CASE s # t
        BY <1>5, <2>2, <4>2
      <4> QED BY <4>1, <4>2
    <3> QED BY <2>2, <3>2, <3>3
  <2> QED BY <2>1, <2>2
<1>7. Sums(f, t, g)
  <2>1. g = [s \in SUBSET t |-> g[s]]
    OBVIOUS
  <2> HIDE DEF g
  <2> QED BY <1>6, <2>1 DEF Sums
<1> QED BY <1>3, <1>7

(* A sum takes its first element and goes on with the rest.                *)
LEMMA SumStep ==
    ASSUME NEW f, NEW T, IsFiniteSet(T)
    PROVE  Total(f, T) = IF T = {} THEN 0 ELSE f[First(T)] + Total(f, T \ {First(T)})
<1> DEFINE Of(U) == CHOOSE g : Sums(f, U, g)
<1>1. \A U : Total(f, U) = Of(U)[U]
  BY DEF Total, SumFunctionOnSet, FoldFunctionOnSet, MapThenFoldSet, Sums, First
<1>2. ASSUME NEW U, IsFiniteSet(U) PROVE Sums(f, U, Of(U))
  BY <1>2, SumsExist
<1> HIDE DEF Of
<1>3. CASE T = {}
  BY <1>1, <1>2, <1>3, SumsAt
<1>4. CASE T # {}
  <2> DEFINE U == T \ {First(T)}
  <2>1. IsFiniteSet(U) /\ U \in SUBSET (T \cap U)
    BY FS_Subset
  <2>2. Of(T)[U] = Of(U)[U]
    BY <1>2, <2>1, SumsAgree
  <2>3. Of(T)[T] = f[First(T)] + Of(T)[U]
    BY <1>2, <1>4, SumsAt
  <2> QED BY <1>1, <1>4, <2>2, <2>3
<1> QED BY <1>3, <1>4

(* Sums of natural numbers are natural numbers.                            *)
LEMMA SumNat ==
    ASSUME NEW f, NEW T, IsFiniteSet(T), \A x \in T : f[x] \in Nat
    PROVE  Total(f, T) \in Nat
<1> DEFINE F == {t \in SUBSET T : Total(f, t) \notin Nat}
<1>1. SUFFICES ASSUME F # {} PROVE FALSE
  OBVIOUS
<1>2. PICK t \in F : IsFiniteSet(t) /\ \A x \in t : t \ {x} \notin F
  <2>1. F \in SUBSET SUBSET T
    OBVIOUS
  <2> HIDE DEF F
  <2> QED BY <1>1, <2>1, SmallestSet
<1>3. t # {}
  <2>1. Total(f, {}) = 0
    BY FS_EmptySet, SumStep
  <2> QED BY <1>2, <2>1
<1>4. First(t) \in t /\ f[First(t)] \in Nat
  BY <1>3, FirstIn
<1>5. Total(f, t \ {First(t)}) \in Nat
  BY <1>2, <1>4
<1>6. Total(f, t) = f[First(t)] + Total(f, t \ {First(t)})
  BY <1>2, <1>3, SumStep
<1> QED BY <1>2, <1>4, <1>5, <1>6

(* Any element may be taken out of a sum.                                  *)
LEMMA SumTakes ==
    ASSUME NEW f, NEW T, IsFiniteSet(T), \A x \in T : f[x] \in Nat, NEW x \in T
    PROVE  Total(f, T) = f[x] + Total(f, T \ {x})
<1> DEFINE F == {t \in SUBSET T :
                   \E y \in t : Total(f, t) # f[y] + Total(f, t \ {y})}
<1>1. SUFFICES ASSUME F # {} PROVE FALSE
  OBVIOUS
<1>2. PICK t \in F : IsFiniteSet(t) /\ \A y \in t : t \ {y} \notin F
  <2>1. F \in SUBSET SUBSET T
    OBVIOUS
  <2> HIDE DEF F
  <2> QED BY <1>1, <2>1, SmallestSet
<1>3. PICK y \in t : Total(f, t) # f[y] + Total(f, t \ {y})
  BY <1>2
<1> DEFINE z == First(t)
           r == (t \ {y}) \ {z}
<1>4. z \in t /\ Total(f, t) = f[z] + Total(f, t \ {z})
  BY <1>2, <1>3, SumStep, FirstIn
<1> HIDE DEF z
<1>5. y # z
  BY <1>3, <1>4
<1>6. Total(f, t \ {z}) = f[y] + Total(f, r)
  <2>1. y \in t \ {z} /\ t \ {z} \in SUBSET T /\ t \ {z} \notin F
    BY <1>2, <1>4, <1>5
  <2>2. (t \ {z}) \ {y} = r
    OBVIOUS
  <2> QED BY <2>1, <2>2
<1>7. Total(f, t \ {y}) = f[z] + Total(f, r)
  <2>1. z \in t \ {y} /\ t \ {y} \in SUBSET T /\ t \ {y} \notin F
    BY <1>2, <1>4, <1>5
  <2> QED BY <2>1
<1>8. f[y] \in Nat /\ f[z] \in Nat /\ Total(f, r) \in Nat
  <2>1. IsFiniteSet(r) /\ \A v \in r : f[v] \in Nat
    BY <1>2, FS_Subset
  <2> QED BY <1>4, <2>1, SumNat
<1> QED BY <1>3, <1>4, <1>6, <1>7, <1>8

(* A sum looks at its function on its set only.                            *)
LEMMA SumSame ==
    ASSUME NEW f, NEW h, NEW T, IsFiniteSet(T), \A x \in T : f[x] = h[x]
    PROVE  Total(f, T) = Total(h, T)
<1> DEFINE F == {t \in SUBSET T : Total(f, t) # Total(h, t)}
<1>1. SUFFICES ASSUME F # {} PROVE FALSE
  OBVIOUS
<1>2. PICK t \in F : IsFiniteSet(t) /\ \A x \in t : t \ {x} \notin F
  <2>1. F \in SUBSET SUBSET T
    OBVIOUS
  <2> HIDE DEF F
  <2> QED BY <1>1, <2>1, SmallestSet
<1>3. CASE t = {}
  BY <1>2, <1>3, SumStep
<1>4. CASE t # {}
  <2>1. First(t) \in t /\ f[First(t)] = h[First(t)]
    BY <1>4, FirstIn
  <2>2. Total(f, t \ {First(t)}) = Total(h, t \ {First(t)})
    BY <1>2, <2>1
  <2>3. Total(f, t) = f[First(t)] + Total(f, t \ {First(t)})
    BY <1>2, <1>4, SumStep
  <2>4. Total(h, t) = h[First(t)] + Total(h, t \ {First(t)})
    BY <1>2, <1>4, SumStep
  <2> QED BY <1>2, <2>1, <2>2, <2>3, <2>4
<1> QED BY <1>3, <1>4

(* A part sums to no more than the whole.                                  *)
LEMMA SumGrows ==
    ASSUME NEW f, NEW T, IsFiniteSet(T), \A x \in T : f[x] \in Nat,
           NEW S \in SUBSET T
    PROVE  Total(f, S) <= Total(f, T)
<1> DEFINE F == {t \in SUBSET (T \ S) : ~(Total(f, S) <= Total(f, S \cup t))}
<1>1. T \ S \in F => F # {}
  OBVIOUS
<1>2. S \cup (T \ S) = T
  OBVIOUS
<1>3. SUFFICES ASSUME F # {} PROVE FALSE
  BY <1>1, <1>2
<1>4. IsFiniteSet(T \ S) /\ IsFiniteSet(S)
  BY FS_Subset
<1>5. PICK t \in F : \A x \in t : t \ {x} \notin F
  <2>1. F \in SUBSET SUBSET (T \ S)
    OBVIOUS
  <2> HIDE DEF F
  <2> QED BY <1>3, <1>4, <2>1, SmallestSet
<1>6. Total(f, S) \in Nat
  BY <1>4, SumNat
<1>7. t # {}
  <2>1. S \cup {} = S
    OBVIOUS
  <2> QED BY <1>5, <1>6, <2>1
<1>8. PICK x \in t : TRUE
  BY <1>7
<1> DEFINE U == S \cup t
<1>9. (S \cup t) \ {x} = S \cup (t \ {x})
  OBVIOUS
<1>10. IsFiniteSet(U) /\ (\A y \in U : f[y] \in Nat) /\ x \in U
  BY FS_Subset
<1> HIDE DEF U
<1>11. Total(f, U) = f[x] + Total(f, U \ {x})
  BY <1>10, SumTakes
<1>12. Total(f, S) <= Total(f, U \ {x})
  BY <1>5, <1>8, <1>9 DEF U
<1>13. Total(f, U \ {x}) \in Nat /\ f[x] \in Nat
  <2>1. IsFiniteSet(U \ {x}) /\ \A y \in U \ {x} : f[y] \in Nat
    BY <1>10, FS_Subset
  <2> QED BY <1>10, <2>1, SumNat
<1>14. Total(f, S) <= Total(f, U)
  BY <1>6, <1>11, <1>12, <1>13
<1> QED BY <1>5, <1>14 DEF U

-----------------------------------------------------------------------------
(* The operators of SubmitPolicy.                                          *)

(* NextPending returns 0 when no step is pending, and otherwise the first  *)
(* pending step: nextPendingIndex of statemachine.go:62-69.                *)
LEMMA FirstPending ==
    ASSUME NEW S, NEW s \in Seq(S)
    PROVE  /\ NextPending(s) \in 0..Len(s)
           /\ NextPending(s) = 0 =>
                \A i \in 1..Len(s) : s[i].status # "pending"
           /\ NextPending(s) # 0 =>
                /\ NextPending(s) \in 1..Len(s)
                /\ s[NextPending(s)].status = "pending"
                /\ \A j \in 1..(NextPending(s) - 1) : s[j].status # "pending"
<1> DEFINE I == {i \in 1..Len(s) : s[i].status = "pending"}
<1>1. NextPending(s) = IF I # {} THEN Min(I) ELSE 0
  BY DEF NextPending, SelectInSeq
<1>2. CASE I = {}
  BY <1>1, <1>2
<1>3. CASE I # {}
  <2>1. I \subseteq Nat
    OBVIOUS
  <2>2. \E m \in I : \A n \in I : m <= n
    BY <1>3, <2>1, LeastElement
  <2>3. Min(I) \in I /\ \A n \in I : Min(I) <= n
    BY <2>2 DEF Min
  <2>4. NextPending(s) = Min(I)
    BY <1>1, <1>3
  <2>5. NextPending(s) \in I /\ \A n \in I : NextPending(s) <= n
    BY <2>3, <2>4
  <2> QED BY <2>5
<1> QED BY <1>2, <1>3

(* The approval matrix yields one of three paths.                          *)
LEMMA ChainCases ==
    ASSUME NEW amount \in Int
    PROVE  ApprovalChain(amount) \in
             {<<"manager">>, <<"manager", "finance">>,
              <<"manager", "finance", "admin">>}
BY TierAssumption DEF ApprovalChain

(* Taking one element out of a sequence leaves a sequence over the same    *)
(* set.                                                                    *)
LEMMA RemoveAtType ==
    ASSUME NEW S, NEW s \in Seq(S), NEW k \in 1..Len(s)
    PROVE  RemoveAt(s, k) \in Seq(S)
<1>1. SubSeq(s, 1, k - 1) \in Seq(S)
  BY SubSeqProperties
<1>2. SubSeq(s, k + 1, Len(s)) \in Seq(S)
  BY SubSeqProperties
<1> QED BY <1>1, <1>2, ConcatProperties DEF RemoveAt

(* So does leaving the submitter out of an approval path.                  *)
LEMMA ExcludeSubmitterType ==
    ASSUME NEW S, NEW chain \in Seq(S), NEW r
    PROVE  ExcludeSubmitter(chain, r) \in Seq(S)
<1> DEFINE I == {i \in 1..Len(chain) : chain[i] = r}
<1>1. CASE \E i \in 1..Len(chain) : chain[i] = r
  <2>1. I # {} /\ I \subseteq Nat
    BY <1>1
  <2>2. \E m \in I : \A n \in I : m <= n
    BY <2>1, LeastElement
  <2>3. Min(I) \in I
    BY <2>2 DEF Min
  <2>4. SelectInSeq(chain, LAMBDA v : v = r) = Min(I)
    BY <2>1 DEF SelectInSeq
  <2>5. PICK k \in 1..Len(chain) : k = Min(I)
    BY <2>3
  <2>6. ExcludeSubmitter(chain, r) = RemoveAt(chain, k)
    BY <1>1, <2>4, <2>5 DEF ExcludeSubmitter, RemoveFirst
  <2> QED BY <2>6, RemoveAtType
<1>2. CASE ~ \E i \in 1..Len(chain) : chain[i] = r
  BY <1>2 DEF ExcludeSubmitter, RemoveFirst
<1> QED BY <1>1, <1>2

(* What Submit snapshots is a sequence of approver roles.                  *)
LEMMA ChainType ==
    ASSUME NEW amount \in Int, NEW r
    PROVE  ExcludeSubmitter(ApprovalChain(amount), r) \in Seq(ApproverRoles)
<1>1. ApprovalChain(amount) \in Seq(ApproverRoles)
  <2>1. /\ <<"manager">> \in Seq(ApproverRoles)
        /\ <<"manager", "finance">> \in Seq(ApproverRoles)
        /\ <<"manager", "finance", "admin">> \in Seq(ApproverRoles)
    BY DEF ApproverRoles
  <2> QED BY <2>1, ChainCases
<1> QED BY <1>1, ExcludeSubmitterType

-----------------------------------------------------------------------------
(* The workflow: its types.                                                *)

(* There are details to fill unused fields with.                           *)
LEMMA NoDetailsType == NoDetails \in Details
<1>1. Details # {}
  <2>1. PICK x \in Categories, y \in Dates, z \in Amounts : TRUE
    BY DetailsAssumption
  <2>2. [cat |-> x, date |-> y, amount |-> z] \in Details
    BY DEF Details
  <2> QED BY <2>2
<1> QED BY <1>1 DEF NoDetails

(* A slot that is not idle serves a user about a claim.                    *)
LEMMA Serving ==
    ASSUME TypeOK, NEW p \in Slots, req[p].phase # "idle"
    PROVE  req[p] \in Active
<1>1. req[p] \in {Idle} \cup Active
  BY DEF TypeOK, Request
<1>2. Idle.phase = "idle"
  BY DEF Idle
<1> QED BY <1>1, <1>2

(* The records requests and rows are replaced by have the right types.     *)
LEMMA TaskType ==
    ASSUME NEW phase \in Phases \ {"idle"}, NEW u \in Users, NEW c \in Claims,
           NEW seen \in Details, NEW chain \in Seq(ApproverRoles),
           NEW subject \in Subjects \cup {""}
    PROVE  Task(phase, u, c, seen, chain, subject) \in Request
<1>1. Task(phase, u, c, seen, chain, subject) \in Active
  BY Zenon DEF Task, Active
<1> QED BY <1>1 DEF Request

(* The requests that carry neither details nor a chain.                    *)
LEMMA PlainTaskType ==
    ASSUME NEW phase \in Phases \ {"idle"}, NEW u \in Users, NEW c \in Claims,
           NEW subject \in Subjects \cup {""}
    PROVE  Task(phase, u, c, NoDetails, <<>>, subject) \in Request
<1>1. <<>> \in Seq(ApproverRoles)
  BY EmptySeq
<1> QED BY <1>1, NoDetailsType, TaskType

(* A request that moves on to its next phase.                              *)
LEMMA NextPhaseType ==
    ASSUME NEW r \in Active, NEW phase \in Phases \ {"idle"}
    PROVE  [r EXCEPT !.phase = phase] \in Request
<1>1. [r EXCEPT !.phase = phase] \in Active
  BY DEF Active
<1> QED BY <1>1 DEF Request

(* A row whose status or current_step is written, or which is deleted.     *)
LEMMA RowStatusType ==
    ASSUME NEW row \in Row, NEW status \in Statuses, NEW step \in Nat
    PROVE  /\ [row EXCEPT !.status = status] \in Row
           /\ [row EXCEPT !.step = step] \in Row
           /\ [row EXCEPT !.status = status, !.step = step] \in Row
BY DEF Row

(* A row that SoftDelete marks.                                            *)
LEMMA RowDeletedType ==
    ASSUME NEW row \in Row
    PROVE  [row EXCEPT !.deleted = TRUE] \in Row
BY DEF Row

(* A row whose category, date and amount are replaced.                     *)
LEMMA RowDetailsType ==
    ASSUME NEW row \in Row, NEW d \in Details
    PROVE  [row EXCEPT !.cat = d.cat, !.date = d.date, !.amount = d.amount]
             \in Row
<1>1. d.cat \in Categories /\ d.date \in Dates /\ d.amount \in Amounts
  BY DEF Details
<1> QED BY <1>1 DEF Row

(* The row of an identifier no claim has taken yet.                        *)
LEMMA UnusedType == Unused \in Row
BY NoDetailsType DEF Unused, Row, Details

(* The snapshot of an approval path is a sequence of approval rows.        *)
LEMMA SnapshotType ==
    ASSUME NEW chain \in Seq(ApproverRoles)
    PROVE  Snapshot(chain) \in Seq(Steps)
<1>1. \A i \in 1..Len(chain) : Pending(chain[i]) \in Steps
  BY DEF Pending, Steps
<1> QED BY <1>1 DEF Snapshot

(* Deciding one step leaves a sequence of approval rows, of the same       *)
(* length.                                                                 *)
LEMMA DecidedType ==
    ASSUME NEW steps \in Seq(Steps), NEW i \in 1..Len(steps), NEW u \in Users,
           NEW status \in {"approved", "rejected"}
    PROVE  Decided(steps, i, status, u) \in Seq(Steps)
<1>1. steps[i] \in Steps
  OBVIOUS
<1>2. [role |-> steps[i].role, status |-> status, approver |-> u] \in Steps
  BY <1>1 DEF Steps
<1> QED BY <1>2 DEF Decided

(* The initial state has the right types.                                  *)
LEMMA TypeInit == Init => TypeOK
<1> SUFFICES ASSUME Init PROVE TypeOK
  OBVIOUS
<1> USE DEF Init
<1>1. claim \in [Claims -> Row]
  BY UnusedType
<1>2. approvals \in [Claims -> Seq(Steps)]
  OBVIOUS
<1>3. audit \in [Claims -> Seq(AuditRow)]
  OBVIOUS
<1>4. /\ receipts \in [Claims -> Nat] /\ objects \in [Claims -> Nat]
      /\ mails \in [Claims -> [Subjects -> Nat]]
  OBVIOUS
<1>5. /\ role \in [Users -> Roles] /\ tokens \in [Users -> SUBSET Roles]
      /\ active \subseteq Categories
  OBVIOUS
<1>6. req \in [Slots -> Request]
  BY DEF Request
<1> QED BY <1>1, <1>2, <1>3, <1>4, <1>5, <1>6 DEF TypeOK

(* Committing a change: the audit row and the request that goes on to      *)
(* notify have the right types.                                            *)
LEMMA CommitType ==
    ASSUME TypeOK, NEW p \in Slots, NEW u \in Users, NEW c \in Claims,
           NEW action \in Actions, NEW subject \in Subjects,
           Write(u, action, c), ThenNotify(p, u, c, subject)
    PROVE  /\ audit' \in [Claims -> Seq(AuditRow)]
           /\ req' \in [Slots -> Request]
<1> DEFINE row == [actor |-> u, action |-> action]
<1>0. row \in AuditRow
  BY DEF AuditRow
<1>1. audit' \in [Claims -> Seq(AuditRow)]
  <2>1. Append(audit[c], row) \in Seq(AuditRow)
    BY <1>0 DEF TypeOK
  <2>2. audit' = [audit EXCEPT ![c] = Append(audit[c], row)]
    BY DEF Write
  <2> QED BY <2>1, <2>2 DEF TypeOK
<1>2. Task("notify", u, c, NoDetails, <<>>, subject) \in Request
  BY PlainTaskType DEF Phases
<1>3. req' \in [Slots -> Request]
  BY <1>2 DEF TypeOK, ThenNotify
<1> QED BY <1>1, <1>3

(* Every step keeps the types: one case per action of the workflow.        *)
LEMMA TypeNext == TypeOK /\ [Next]_vars => TypeOK'
<1> SUFFICES ASSUME TypeOK, [Next]_vars PROVE TypeOK'
  OBVIOUS
<1> USE DEF tables, storage, directory
<1>1. ASSUME NEW p \in Slots, NEW u \in Users, NEW c \in Claims, NEW d \in Details,
             Create(p, u, c, d)
      PROVE  TypeOK'
  <2>1. [status |-> "DRAFT", owner |-> u, cat |-> d.cat, date |-> d.date,
         amount |-> d.amount, step |-> 0, deleted |-> FALSE] \in Row
    BY DEF Row, Statuses, Details
  <2> QED BY <1>1, <2>1 DEF Create, NewClaim, TypeOK
<1>2. ASSUME NEW p \in Slots, NEW u \in Users, NEW c \in Claims, NEW d \in Details,
             UpdateCheck(p, u, c, d)
      PROVE  TypeOK'
  <2>1. Task("update", u, c, d, <<>>, "") \in Request
    <3>1. <<>> \in Seq(ApproverRoles)
      BY EmptySeq
    <3> QED BY <3>1, TaskType DEF Phases
  <2> QED BY <1>2, <2>1 DEF UpdateCheck, TypeOK
<1>3. ASSUME NEW p \in Slots, UpdateWrite(p)
      PROVE  TypeOK'
  <2> DEFINE c == req[p].claim
             d == req[p].seen
             row == [claim[c] EXCEPT !.cat = d.cat, !.date = d.date,
                                     !.amount = d.amount]
  <2>1. c \in Claims /\ d \in Details
    BY <1>3, Serving DEF UpdateWrite, Active
  <2>2. row \in Row
    BY <2>1, RowDetailsType DEF TypeOK
  <2>3. claim' = [claim EXCEPT ![c] = row] /\ req' = [req EXCEPT ![p] = Idle]
    BY <1>3 DEF UpdateWrite
  <2>4. claim' \in [Claims -> Row]
    <3> HIDE DEF row
    <3> QED BY <2>2, <2>3 DEF TypeOK
  <2> QED BY <1>3, <2>3, <2>4 DEF Request, UpdateWrite, TypeOK
<1>4. ASSUME NEW p \in Slots, NEW u \in Users, NEW c \in Claims,
             DeleteCheck(p, u, c)
      PROVE  TypeOK'
  <2>1. Task("delete", u, c, NoDetails, <<>>, "") \in Request
    BY PlainTaskType DEF Phases
  <2> QED BY <1>4, <2>1 DEF DeleteCheck, TypeOK
<1>5. ASSUME NEW p \in Slots, DeleteWrite(p)
      PROVE  TypeOK'
  <2> DEFINE c == req[p].claim
             row == [claim[c] EXCEPT !.deleted = TRUE]
  <2>1. c \in Claims
    BY <1>5, Serving DEF DeleteWrite, Active
  <2>4. row \in Row
    BY <2>1, RowDeletedType DEF TypeOK
  <2>2. claim' = [claim EXCEPT ![c] = row] /\ req' = [req EXCEPT ![p] = Idle]
    BY <1>5 DEF DeleteWrite
  <2>3. claim' \in [Claims -> Row]
    <3> HIDE DEF row
    <3> QED BY <2>1, <2>4, <2>2 DEF TypeOK
  <2> QED BY <1>5, <2>2, <2>3 DEF Request, DeleteWrite, TypeOK
<1>6. ASSUME NEW p \in Slots, NEW u \in Users, NEW c \in Claims,
             AttachCheck(p, u, c)
      PROVE  TypeOK'
  <2>1. Task("putObject", u, c, NoDetails, <<>>, "") \in Request
    BY PlainTaskType DEF Phases
  <2> QED BY <1>6, <2>1 DEF AttachCheck, TypeOK
<1>7. ASSUME NEW p \in Slots, AttachPutObject(p)
      PROVE  TypeOK'
  <2>1. [req[p] EXCEPT !.phase = "attach"] \in Request
    BY <1>7, Serving, NextPhaseType DEF AttachPutObject, Phases
  <2>2. req' = [req EXCEPT ![p] = [req[p] EXCEPT !.phase = "attach"]]
    BY <1>7 DEF AttachPutObject
  <2>3. req' \in [Slots -> Request]
    BY <2>1, <2>2 DEF TypeOK
  <2>4. objects' \in [Claims -> Nat]
    <3>1. req[p].claim \in Claims
      BY <1>7, Serving DEF AttachPutObject, Active
    <3> QED BY <1>7, <3>1 DEF AttachPutObject, TypeOK
  <2> QED BY <1>7, <2>3, <2>4 DEF AttachPutObject, TypeOK
<1>8. ASSUME NEW p \in Slots, AttachInsert(p)
      PROVE  TypeOK'
  <2>1. req[p].claim \in Claims
    BY <1>8, Serving DEF AttachInsert, Active
  <2>2. req' \in [Slots -> Request] /\ receipts' \in [Claims -> Nat]
    BY <1>8, <2>1 DEF AttachInsert, TypeOK, Request
  <2> QED BY <1>8, <2>2 DEF AttachInsert, TypeOK
<1>9. ASSUME NEW p \in Slots, NEW u \in Users, NEW c \in Claims,
             SubmitRead(p, u, c)
      PROVE  TypeOK'
  <2> DEFINE chain == ExcludeSubmitter(ApprovalChain(claim[c].amount), role[u])
  <2>1. DetailsOf(c) \in Details
    BY DEF TypeOK, DetailsOf, Details, Row
  <2>2. chain \in Seq(ApproverRoles)
    <3>1. claim[c].amount \in Int
      <4>1. claim[c] \in Row
        BY DEF TypeOK
      <4>2. claim[c].amount \in Amounts
        BY <4>1 DEF Row
      <4>3. \A a \in Amounts : a \in Int
        BY DetailsAssumption
      <4> QED BY <4>2, <4>3
    <3> QED BY <3>1, ChainType
  <2>3. Task("policy", u, c, DetailsOf(c), chain, "") \in Request
    <3> HIDE DEF chain
    <3> QED BY <2>1, <2>2, TaskType DEF Phases
  <2> QED BY <1>9, <2>3 DEF SubmitRead, TypeOK
<1>10. ASSUME NEW p \in Slots, SubmitPolicyCheck(p)
       PROVE  TypeOK'
  <2>1. [req[p] EXCEPT !.phase = "duplicate"] \in Request
    BY <1>10, Serving, NextPhaseType DEF SubmitPolicyCheck, Phases
  <2> QED BY <1>10, <2>1 DEF SubmitPolicyCheck, TypeOK
<1>11. ASSUME NEW p \in Slots, SubmitDuplicateCheck(p)
       PROVE  TypeOK'
  <2>1. [req[p] EXCEPT !.phase = "submit"] \in Request
    BY <1>11, Serving, NextPhaseType DEF SubmitDuplicateCheck, Phases
  <2> QED BY <1>11, <2>1 DEF SubmitDuplicateCheck, TypeOK
<1>12. ASSUME NEW p \in Slots, NEW u \in Users, NEW r \in Roles, NEW c \in Claims,
              Approve(p, u, r, c)
       PROVE  TypeOK'
  <2> DEFINE i == NextPending(approvals[c])
  <2>1. audit' \in [Claims -> Seq(AuditRow)] /\ req' \in [Slots -> Request]
    BY <1>12, CommitType DEF Approve, Actions, Subjects
  <2>2. approvals[c] \in Seq(Steps) /\ i \in 1..Len(approvals[c])
    BY <1>12, FirstPending DEF TypeOK, Approve, MayDecide
  <2>3. Decided(approvals[c], i, "approved", u) \in Seq(Steps)
    BY <2>2, DecidedType
  <2>4. approvals' \in [Claims -> Seq(Steps)]
    BY <1>12, <2>3 DEF Approve, TypeOK
  <2>5. AfterApproval(claim[c], i, Len(approvals[c])) \in Row
    <3>1. claim[c] \in Row /\ i + 1 \in Nat
      BY <2>2 DEF TypeOK
    <3>2. [claim[c] EXCEPT !.status = "APPROVED"] \in Row
      BY <3>1, RowStatusType DEF Statuses
    <3>3. [claim[c] EXCEPT !.step = i + 1] \in Row
      <4> HIDE DEF i
      <4> QED BY <3>1, RowStatusType DEF Statuses
    <3> QED BY <3>2, <3>3 DEF AfterApproval
  <2>6. claim' \in [Claims -> Row]
    BY <1>12, <2>5 DEF Approve, TypeOK
  <2> QED BY <1>12, <2>1, <2>4, <2>6 DEF Approve, TypeOK
<1>13. ASSUME NEW p \in Slots, NEW u \in Users, NEW r \in Roles, NEW c \in Claims,
              Reject(p, u, r, c)
       PROVE  TypeOK'
  <2> DEFINE i == NextPending(approvals[c])
  <2>1. audit' \in [Claims -> Seq(AuditRow)] /\ req' \in [Slots -> Request]
    BY <1>13, CommitType DEF Reject, Actions, Subjects
  <2>2. approvals[c] \in Seq(Steps) /\ i \in 1..Len(approvals[c])
    BY <1>13, FirstPending DEF TypeOK, Reject, MayDecide
  <2>3. Decided(approvals[c], i, "rejected", u) \in Seq(Steps)
    BY <2>2, DecidedType
  <2>4. approvals' \in [Claims -> Seq(Steps)]
    BY <1>13, <2>3 DEF Reject, TypeOK
  <2>5. [claim[c] EXCEPT !.status = "REJECTED"] \in Row
    BY RowStatusType DEF TypeOK, Statuses
  <2>6. claim' \in [Claims -> Row]
    BY <1>13, <2>5 DEF Reject, TypeOK
  <2> QED BY <1>13, <2>1, <2>4, <2>6 DEF Reject, TypeOK
<1>14. ASSUME NEW p \in Slots, NEW u \in Users, NEW c \in Claims,
              Cancel(p, u, c)
       PROVE  TypeOK'
  <2>1. audit' \in [Claims -> Seq(AuditRow)] /\ req' \in [Slots -> Request]
    BY <1>14, CommitType DEF Cancel, Actions, Subjects
  <2>2. [claim[c] EXCEPT !.status = "CANCELLED"] \in Row
    BY RowStatusType DEF TypeOK, Statuses
  <2> QED BY <1>14, <2>1, <2>2 DEF Cancel, TypeOK
<1>15. ASSUME NEW p \in Slots, NEW u \in Users, NEW c \in Claims,
              Pay(p, u, c)
       PROVE  TypeOK'
  <2>1. audit' \in [Claims -> Seq(AuditRow)] /\ req' \in [Slots -> Request]
    BY <1>15, CommitType DEF Pay, Actions, Subjects
  <2>2. [claim[c] EXCEPT !.status = "PAID"] \in Row
    BY RowStatusType DEF TypeOK, Statuses
  <2> QED BY <1>15, <2>1, <2>2 DEF Pay, TypeOK
<1>16. ASSUME NEW p \in Slots, SubmitCommit(p)
       PROVE  TypeOK'
  <2> DEFINE c == req[p].claim
             u == req[p].user
  <2>1. c \in Claims /\ u \in Users /\ req[p].chain \in Seq(ApproverRoles)
    BY <1>16, Serving DEF SubmitCommit, Active
  <2>2. audit' \in [Claims -> Seq(AuditRow)] /\ req' \in [Slots -> Request]
    BY <1>16, <2>1, CommitType DEF SubmitCommit, Actions, Subjects
  <2>3. approvals' \in [Claims -> Seq(Steps)]
    BY <1>16, <2>1, SnapshotType DEF SubmitCommit, TypeOK
  <2>4. [claim[c] EXCEPT !.status = "SUBMITTED", !.step = 1] \in Row
    BY <2>1, RowStatusType DEF TypeOK, Statuses
  <2>5. claim' \in [Claims -> Row]
    BY <1>16, <2>4 DEF SubmitCommit, TypeOK
  <2> QED BY <1>16, <2>2, <2>3, <2>5 DEF SubmitCommit, TypeOK
<1>17. ASSUME NEW p \in Slots, NotifyEmployee(p)
       PROVE  TypeOK'
  <2>1. req[p].claim \in Claims /\ req[p].subject \in Subjects \cup {""}
    BY <1>17, Serving DEF NotifyEmployee, Active
  <2>2. req' \in [Slots -> Request] /\ mails' \in [Claims -> [Subjects -> Nat]]
    <3>1. mails[req[p].claim] \in [Subjects -> Nat]
      BY <2>1 DEF TypeOK
    <3>2. CASE req[p].subject \in Subjects
      <4> DEFINE m == mails[req[p].claim]
                 box == [m EXCEPT ![req[p].subject] = m[req[p].subject] + 1]
      <4>1. mails' = [mails EXCEPT ![req[p].claim] = box]
        BY <1>17 DEF NotifyEmployee
      <4>2. box \in [Subjects -> Nat]
        BY <3>1, <3>2
      <4> HIDE DEF box
      <4>3. mails' \in [Claims -> [Subjects -> Nat]]
        BY <4>1, <4>2 DEF TypeOK
      <4> QED BY <1>17, <4>3 DEF NotifyEmployee, TypeOK, Request
    <3>3. CASE req[p].subject \notin Subjects
      BY <1>17, <2>1, <3>1, <3>3 DEF NotifyEmployee, TypeOK, Request
    <3> QED BY <3>2, <3>3
  <2> QED BY <1>17, <2>2 DEF NotifyEmployee, TypeOK
<1>18. ASSUME NEW p \in Slots, Abort(p)
       PROVE  TypeOK'
  BY <1>18 DEF Request, Abort, TypeOK
<1>19. ASSUME NEW u \in Users, NEW r \in Roles, ChangeRole(u, r)
       PROVE  TypeOK'
  BY <1>19 DEF ChangeRole, TypeOK
<1>20. ASSUME NEW u \in Users, ExpireTokens(u)
       PROVE  TypeOK'
  BY <1>20 DEF ExpireTokens, TypeOK
<1>21. ASSUME NEW k \in MayDeactivate, SwitchCategory(k)
       PROVE  TypeOK'
  BY <1>21, DetailsAssumption DEF SwitchCategory, TypeOK
<1>22. CASE UNCHANGED vars
  BY <1>22 DEF vars, TypeOK
<1> QED
  BY <1>1, <1>2, <1>3, <1>4, <1>5, <1>6, <1>7, <1>8, <1>9, <1>10, <1>11, <1>12,
     <1>13, <1>14, <1>15, <1>16, <1>17, <1>18, <1>19, <1>20, <1>21, <1>22
  DEF Next, Start, EditRequest, WorkflowRequest, Continue

(* Type correctness, for every value of the constants.                     *)
THEOREM TypeCorrect == Spec => []TypeOK
<1>1. Init => TypeOK
  BY TypeInit
<1>2. TypeOK /\ [Next]_vars => TypeOK'
  BY TypeNext
<1> QED BY <1>1, <1>2, PTL DEF Spec

-----------------------------------------------------------------------------
(* Status and steps.                                                       *)

(* The inductive invariant holds initially.                                *)
LEMMA WorkflowInit == Init => WorkflowInv
<1> SUFFICES ASSUME Init PROVE WorkflowInv
  OBVIOUS
<1>1. TypeOK
  BY TypeInit
<1>2. \A c \in Claims : /\ claim[c].status = "NONE"
                        /\ approvals[c] = <<>>
  BY DEF Init, Unused
<1>3. StatusMatchesSteps
  BY <1>2 DEF StatusMatchesSteps, StoryOf
<1>4. NoSelfApproval
  BY <1>2 DEF NoSelfApproval, ApproversOf
<1>5. OwnedClaims
  BY <1>2 DEF OwnedClaims
<1>6. ChainReady
  BY DEF Init, Idle, ChainReady
<1>7. ChainFromMatrix
  BY DEF Init, Idle, ChainFromMatrix
<1> QED BY <1>1, <1>3, <1>4, <1>5, <1>6, <1>7 DEF WorkflowInv

(* A step that leaves approvals, statuses, current_steps and owners alone  *)
(* keeps the three invariants about claims.                                *)
LEMMA Frame ==
    ASSUME WorkflowInv, approvals' = approvals,
           \A c \in Claims : /\ claim'[c].status = claim[c].status
                             /\ claim'[c].step = claim[c].step
                             /\ claim'[c].owner = claim[c].owner
    PROVE  StatusMatchesSteps' /\ NoSelfApproval' /\ OwnedClaims'
<1>1. ASSUME NEW c \in Claims PROVE StoryOf(c)'
  BY DEF WorkflowInv, StatusMatchesSteps, StoryOf, StandsAt, NoStepActed
<1>2. ASSUME NEW c \in Claims PROVE ApproversOf(c)'
  BY DEF WorkflowInv, NoSelfApproval, ApproversOf
<1>3. OwnedClaims'
  BY DEF WorkflowInv, OwnedClaims
<1> QED BY <1>1, <1>2, <1>3 DEF StatusMatchesSteps, NoSelfApproval

(* A step that writes the row and the steps of one claim only has to be    *)
(* looked at there.                                                        *)
LEMMA OneClaim ==
    ASSUME WorkflowInv, NEW c \in Claims,
           NEW row, NEW steps,
           claim' = [claim EXCEPT ![c] = row],
           approvals' = [approvals EXCEPT ![c] = steps],
           StoryOf(c)', ApproversOf(c)', row.owner \in Users
    PROVE  StatusMatchesSteps' /\ NoSelfApproval' /\ OwnedClaims'
<1>1. /\ claim'[c] = row /\ approvals'[c] = steps
      /\ \A e \in Claims \ {c} : /\ claim'[e] = claim[e]
                                 /\ approvals'[e] = approvals[e]
  BY DEF WorkflowInv, TypeOK
<1>2. ASSUME NEW e \in Claims PROVE StoryOf(e)'
  <2>1. CASE e = c
    BY <2>1
  <2>2. CASE e # c
    BY <1>1, <2>2
    DEF WorkflowInv, StatusMatchesSteps, StoryOf, StandsAt, NoStepActed
  <2> QED BY <2>1, <2>2
<1>3. ASSUME NEW e \in Claims PROVE ApproversOf(e)'
  <2>1. CASE e = c
    BY <2>1
  <2>2. CASE e # c
    BY <1>1, <2>2 DEF WorkflowInv, NoSelfApproval, ApproversOf
  <2> QED BY <2>1, <2>2
<1>4. OwnedClaims'
  BY <1>1 DEF WorkflowInv, OwnedClaims
<1> QED BY <1>2, <1>3, <1>4 DEF StatusMatchesSteps, NoSelfApproval

(* Only the duplicate check lets a request into the "submit" phase.        *)
LEMMA OneRequest ==
    ASSUME WorkflowInv, NEW p \in Slots, NEW t,
           req' = [req EXCEPT ![p] = t],
           t.phase = "submit" => t.chain # <<>>
    PROVE  ChainReady'
BY DEF WorkflowInv, ChainReady, TypeOK

(* The first pending step of a submitted claim is the one current_step     *)
(* points at.                                                              *)
LEMMA PendingIsCurrent ==
    ASSUME WorkflowInv, NEW c \in Claims, claim[c].status = "SUBMITTED"
    PROVE  /\ approvals[c] \in Seq(Steps)
           /\ NextPending(approvals[c]) = claim[c].step
           /\ claim[c].step \in 1..Len(approvals[c])
           /\ StandsAt(c, claim[c].step, "pending")
<1> DEFINE s == approvals[c]
           i == claim[c].step
           n == NextPending(s)
<1>1. s \in Seq(Steps) /\ StandsAt(c, i, "pending") /\ i \in Nat
  <2>1. claim[c] \in Row
    BY DEF WorkflowInv, TypeOK
  <2>2. i \in Nat
    BY <2>1 DEF Row
  <2> QED BY <2>2 DEF WorkflowInv, TypeOK, StatusMatchesSteps, StoryOf
<1>2. i \in 1..Len(s) /\ s[i].status = "pending"
      /\ \A j \in 1..Len(s) : j < i => s[j].status = "approved"
  BY <1>1 DEF StandsAt
<1>3. /\ n \in 0..Len(s)
      /\ n = 0 => \A j \in 1..Len(s) : s[j].status # "pending"
      /\ n # 0 => /\ n \in 1..Len(s)
                  /\ s[n].status = "pending"
                  /\ \A j \in 1..(n - 1) : s[j].status # "pending"
  BY <1>1, FirstPending
<1> HIDE DEF s, i, n
<1>4. n # 0
  BY <1>2, <1>3
<1>5. ~(n < i)
  BY <1>2, <1>3, <1>4
<1>6. ~(i < n)
  BY <1>2, <1>3, <1>4
<1>7. n = i
  BY <1>2, <1>3, <1>5, <1>6
<1> QED BY <1>1, <1>2, <1>7 DEF s, i, n

(* What a decision writes: step i gets the status and the approver, the    *)
(* others stay.                                                            *)
LEMMA DecidedSteps ==
    ASSUME NEW steps \in Seq(Steps), NEW i \in 1..Len(steps), NEW u, NEW status
    PROVE  /\ Len(Decided(steps, i, status, u)) = Len(steps)
           /\ DOMAIN Decided(steps, i, status, u) = 1..Len(steps)
           /\ Decided(steps, i, status, u)[i].status = status
           /\ Decided(steps, i, status, u)[i].approver = u
           /\ \A j \in 1..Len(steps) : j # i =>
                 Decided(steps, i, status, u)[j] = steps[j]
BY DEF Decided

(* An approval moves the claim on to the next step, or to APPROVED, and    *)
(* the approver is not its owner.                                          *)
LEMMA ApproveKeeps ==
    ASSUME WorkflowInv, NEW p \in Slots, NEW u \in Users, NEW r \in Roles,
           NEW c \in Claims, Approve(p, u, r, c)
    PROVE  StatusMatchesSteps' /\ NoSelfApproval' /\ OwnedClaims'
<1> DEFINE s == approvals[c]
           i == claim[c].step
           t == Decided(s, i, "approved", u)
           row == AfterApproval(claim[c], i, Len(s))
<1>1. /\ claim[c].status = "SUBMITTED" /\ u # claim[c].owner
      /\ claim[c].status # "NONE"
  BY DEF Approve, MayDecide
<1>2. /\ s \in Seq(Steps) /\ NextPending(s) = i /\ i \in 1..Len(s)
      /\ StandsAt(c, i, "pending")
  BY <1>1, PendingIsCurrent
<1>3. /\ claim' = [claim EXCEPT ![c] = row]
      /\ approvals' = [approvals EXCEPT ![c] = t]
  BY <1>2 DEF Approve
<1>4. /\ Len(t) = Len(s) /\ DOMAIN t = 1..Len(s)
      /\ t[i].status = "approved" /\ t[i].approver = u
      /\ \A j \in 1..Len(s) : j # i => t[j] = s[j]
  BY <1>2, DecidedSteps
<1>5. claim[c] \in Row /\ claim[c].owner \in Users
  BY <1>1 DEF WorkflowInv, TypeOK, OwnedClaims
<1>6. /\ row.owner = claim[c].owner
      /\ i = Len(s) => row.status = "APPROVED"
      /\ i # Len(s) => row.status = "SUBMITTED" /\ row.step = i + 1
  BY <1>1, <1>5 DEF AfterApproval, Row
<1>7. claim'[c] = row /\ approvals'[c] = t
  BY <1>3 DEF WorkflowInv, TypeOK
<1>8. ApproversOf(c)'
  <2>1. ApproversOf(c)
    BY DEF WorkflowInv, NoSelfApproval
  <2>2. u # NoUser
    BY UserAssumption
  <2> HIDE DEF t, row, i
  <2> QED BY <1>1, <1>2, <1>4, <1>6, <1>7, <2>1, <2>2 DEF ApproversOf
<1>9. StoryOf(c)'
  <2> HIDE DEF t, row, i
  <2>1. CASE i = Len(s)
    BY <1>2, <1>4, <1>6, <1>7, <2>1 DEF StoryOf, StandsAt
  <2>2. CASE i # Len(s)
    BY <1>2, <1>4, <1>6, <1>7, <2>2 DEF StoryOf, StandsAt
  <2> QED BY <2>1, <2>2
<1>10. row.owner \in Users
  BY <1>5, <1>6
<1> HIDE DEF t, row
<1> QED BY <1>3, <1>8, <1>9, <1>10, OneClaim

(* A rejection leaves the claim standing at the step that rejected it.     *)
LEMMA RejectKeeps ==
    ASSUME WorkflowInv, NEW p \in Slots, NEW u \in Users, NEW r \in Roles,
           NEW c \in Claims, Reject(p, u, r, c)
    PROVE  StatusMatchesSteps' /\ NoSelfApproval' /\ OwnedClaims'
<1> DEFINE s == approvals[c]
           i == claim[c].step
           t == Decided(s, i, "rejected", u)
           row == [claim[c] EXCEPT !.status = "REJECTED"]
<1>1. /\ claim[c].status = "SUBMITTED" /\ u # claim[c].owner
      /\ claim[c].status # "NONE"
  BY DEF Reject, MayDecide
<1>2. /\ s \in Seq(Steps) /\ NextPending(s) = i /\ i \in 1..Len(s)
      /\ StandsAt(c, i, "pending")
  BY <1>1, PendingIsCurrent
<1>3. /\ claim' = [claim EXCEPT ![c] = row]
      /\ approvals' = [approvals EXCEPT ![c] = t]
  BY <1>2 DEF Reject
<1>4. /\ Len(t) = Len(s) /\ DOMAIN t = 1..Len(s)
      /\ t[i].status = "rejected" /\ t[i].approver = u
      /\ \A j \in 1..Len(s) : j # i => t[j] = s[j]
  BY <1>2, DecidedSteps
<1>5. claim[c] \in Row /\ claim[c].owner \in Users
  BY <1>1 DEF WorkflowInv, TypeOK, OwnedClaims
<1>6. row.owner = claim[c].owner /\ row.status = "REJECTED" /\ row.step = i
  BY <1>5 DEF Row
<1>7. claim'[c] = row /\ approvals'[c] = t
  BY <1>3 DEF WorkflowInv, TypeOK
<1>8. ApproversOf(c)'
  <2>1. ApproversOf(c)
    BY DEF WorkflowInv, NoSelfApproval
  <2>2. u # NoUser
    BY UserAssumption
  <2> HIDE DEF t, row, i
  <2> QED BY <1>1, <1>2, <1>4, <1>6, <1>7, <2>1, <2>2 DEF ApproversOf
<1>9. StoryOf(c)'
  <2> HIDE DEF t, row, i
  <2> QED BY <1>2, <1>4, <1>6, <1>7 DEF StoryOf, StandsAt
<1>10. row.owner \in Users
  BY <1>5, <1>6
<1> HIDE DEF t, row
<1> QED BY <1>3, <1>8, <1>9, <1>10, OneClaim

(* A submission that reaches its transaction starts the claim over at the  *)
(* first of a non-empty list of pending steps.                             *)
LEMMA SubmitKeeps ==
    ASSUME WorkflowInv, NEW p \in Slots, SubmitCommit(p)
    PROVE  StatusMatchesSteps' /\ NoSelfApproval' /\ OwnedClaims'
<1>1. req[p].claim \in Claims /\ req[p].chain \in Seq(ApproverRoles)
  BY Serving DEF SubmitCommit, Active, WorkflowInv
<1>0. PICK c \in Claims : c = req[p].claim
  BY <1>1
<1> DEFINE t == Snapshot(req[p].chain)
           row == [claim[c] EXCEPT !.status = "SUBMITTED", !.step = 1]
<1>2. req[p].chain # <<>>
  BY DEF SubmitCommit, WorkflowInv, ChainReady
<1>3. /\ claim' = [claim EXCEPT ![c] = row]
      /\ approvals' = [approvals EXCEPT ![c] = t]
      /\ claim[c].status # "NONE"
  BY <1>0 DEF SubmitCommit, Visible
<1>4. claim[c] \in Row /\ claim[c].owner \in Users
  BY <1>1, <1>3 DEF WorkflowInv, TypeOK, OwnedClaims
<1>5. row.owner = claim[c].owner /\ row.status = "SUBMITTED" /\ row.step = 1
  BY <1>4 DEF Row
<1>6. claim'[c] = row /\ approvals'[c] = t
  BY <1>1, <1>3 DEF WorkflowInv, TypeOK
<1>7. /\ DOMAIN t = 1..Len(req[p].chain)
      /\ 1 \in 1..Len(req[p].chain)
      /\ \A i \in DOMAIN t : t[i].status = "pending" /\ t[i].approver = NoUser
  <2>1. 1 \in 1..Len(req[p].chain)
    BY <1>1, <1>2, EmptySeq
  <2>2. DOMAIN t = 1..Len(req[p].chain)
    BY DEF Snapshot
  <2>3. \A i \in DOMAIN t : t[i].status = "pending" /\ t[i].approver = NoUser
    BY DEF Snapshot, Pending
  <2> QED BY <2>1, <2>2, <2>3
<1> HIDE DEF t, row
<1>8. StoryOf(c)'
  BY <1>5, <1>6, <1>7 DEF StoryOf, StandsAt
<1>9. ApproversOf(c)'
  BY <1>4, <1>5, <1>6, <1>7, UserAssumption DEF ApproversOf
<1>10. row.owner \in Users
  BY <1>4, <1>5
<1> QED BY <1>3, <1>8, <1>9, <1>10, OneClaim

(* Cancel changes the status of one claim and none of its steps.           *)
LEMMA CancelKeeps ==
    ASSUME WorkflowInv, NEW p \in Slots, NEW u \in Users, NEW c \in Claims,
           Cancel(p, u, c)
    PROVE  StatusMatchesSteps' /\ NoSelfApproval' /\ OwnedClaims'
<1> DEFINE row == [claim[c] EXCEPT !.status = "CANCELLED"]
<1>1. /\ claim' = [claim EXCEPT ![c] = row] /\ approvals' = approvals
      /\ claim[c].status = "SUBMITTED" /\ claim[c].owner = u /\ NoStepActed(c)
  BY DEF Cancel, CanTransition
<1>2. claim[c] \in Row
  BY DEF WorkflowInv, TypeOK
<1>3. row.owner = u /\ row.status = "CANCELLED"
  BY <1>1, <1>2 DEF Row
<1>4. claim'[c] = row /\ approvals'[c] = approvals[c]
      /\ approvals' = [approvals EXCEPT ![c] = approvals[c]]
  BY <1>1 DEF WorkflowInv, TypeOK
<1> HIDE DEF row
<1>5. approvals[c] # <<>>
  BY <1>1 DEF WorkflowInv, StatusMatchesSteps, StoryOf, StandsAt
<1>6. StoryOf(c)'
  BY <1>1, <1>3, <1>4, <1>5 DEF StoryOf, NoStepActed
<1>7. ApproversOf(c)'
  BY <1>1, <1>3, <1>4 DEF ApproversOf, WorkflowInv, NoSelfApproval
<1> QED BY <1>1, <1>3, <1>4, <1>6, <1>7, OneClaim

(* Pay changes the status of an approved claim and none of its steps.      *)
LEMMA PayKeeps ==
    ASSUME WorkflowInv, NEW p \in Slots, NEW u \in Users, NEW c \in Claims,
           Pay(p, u, c)
    PROVE  StatusMatchesSteps' /\ NoSelfApproval' /\ OwnedClaims'
<1> DEFINE row == [claim[c] EXCEPT !.status = "PAID"]
<1>1. /\ claim' = [claim EXCEPT ![c] = row] /\ approvals' = approvals
      /\ claim[c].status = "APPROVED" /\ claim[c].status # "NONE"
  BY DEF Pay, CanTransition
<1>2. claim[c] \in Row /\ claim[c].owner \in Users
  BY <1>1 DEF WorkflowInv, TypeOK, OwnedClaims
<1>3. row.owner = claim[c].owner /\ row.status = "PAID"
  BY <1>2 DEF Row
<1>4. claim'[c] = row /\ approvals'[c] = approvals[c]
      /\ approvals' = [approvals EXCEPT ![c] = approvals[c]]
  BY <1>1 DEF WorkflowInv, TypeOK
<1> HIDE DEF row
<1>5. StoryOf(c)'
  BY <1>1, <1>3, <1>4 DEF StoryOf, WorkflowInv, StatusMatchesSteps
<1>6. ApproversOf(c)'
  BY <1>3, <1>4 DEF ApproversOf, WorkflowInv, NoSelfApproval
<1> QED BY <1>1, <1>2, <1>3, <1>4, <1>5, <1>6, OneClaim

(* A new claim is a draft without steps.                                   *)
LEMMA CreateKeeps ==
    ASSUME WorkflowInv, NEW p \in Slots, NEW u \in Users, NEW c \in Claims,
           NEW d \in Details, Create(p, u, c, d)
    PROVE  StatusMatchesSteps' /\ NoSelfApproval' /\ OwnedClaims'
<1> DEFINE row == [status |-> "DRAFT", owner |-> u, cat |-> d.cat,
                   date |-> d.date, amount |-> d.amount, step |-> 0,
                   deleted |-> FALSE]
<1>1. /\ claim' = [claim EXCEPT ![c] = row] /\ approvals' = approvals
      /\ claim[c].status = "NONE"
  BY DEF Create, NewClaim, Unused
<1>2. row.owner = u /\ row.status = "DRAFT"
  OBVIOUS
<1>3. claim'[c] = row /\ approvals'[c] = approvals[c]
      /\ approvals' = [approvals EXCEPT ![c] = approvals[c]]
  BY <1>1 DEF WorkflowInv, TypeOK
<1> HIDE DEF row
<1>4. approvals[c] = <<>>
  BY <1>1 DEF WorkflowInv, StatusMatchesSteps, StoryOf
<1>5. StoryOf(c)'
  BY <1>2, <1>3, <1>4 DEF StoryOf
<1>6. ApproversOf(c)'
  BY <1>3, <1>4 DEF ApproversOf
<1> QED BY <1>1, <1>2, <1>3, <1>5, <1>6, OneClaim

(* A request whose chain, as long as its Submit is going on, comes from    *)
(* the approval matrix keeps ChainFromMatrix.                              *)
LEMMA MatrixRequest ==
    ASSUME TypeOK, ChainFromMatrix, NEW p \in Slots, NEW t,
           req' = [req EXCEPT ![p] = t],
           t.phase \in {"policy", "duplicate", "submit"} => t.chain \in MatrixPaths
    PROVE  ChainFromMatrix'
BY DEF TypeOK, ChainFromMatrix, MatrixPaths

(* The chain of a Submit is computed once, from the matrix, and carried    *)
(* along.                                                                  *)
LEMMA ChainNext == TypeOK /\ ChainFromMatrix /\ [Next]_vars => ChainFromMatrix'
<1> SUFFICES ASSUME TypeOK, ChainFromMatrix, [Next]_vars PROVE ChainFromMatrix'
  OBVIOUS
<1>1. ASSUME NEW p \in Slots, NEW u \in Users, NEW c \in Claims, Start(p, u, c)
      PROVE  ChainFromMatrix'
  <2>1. ASSUME NEW d \in Details, Create(p, u, c, d) PROVE ChainFromMatrix'
    BY <2>1 DEF Create, NewClaim, ChainFromMatrix, MatrixPaths
  <2>2. ASSUME NEW d \in Details, UpdateCheck(p, u, c, d) PROVE ChainFromMatrix'
    BY <2>2, MatrixRequest DEF UpdateCheck, Task
  <2>3. CASE DeleteCheck(p, u, c)
    BY <2>3, MatrixRequest DEF DeleteCheck, Task
  <2>4. CASE AttachCheck(p, u, c)
    BY <2>4, MatrixRequest DEF AttachCheck, Task
  <2>5. CASE SubmitRead(p, u, c)
    <3>1. claim[c].amount \in Amounts /\ role[u] \in Roles
      BY DEF TypeOK, Row
    <3>2. ExcludeSubmitter(ApprovalChain(claim[c].amount), role[u]) \in MatrixPaths
      BY <3>1 DEF MatrixPaths
    <3> QED BY <2>5, <3>2, MatrixRequest DEF SubmitRead, Task
  <2>6. ASSUME NEW r \in Roles, Approve(p, u, r, c) PROVE ChainFromMatrix'
    BY <2>6, MatrixRequest DEF Approve, ThenNotify, Task
  <2>7. ASSUME NEW r \in Roles, Reject(p, u, r, c) PROVE ChainFromMatrix'
    BY <2>7, MatrixRequest DEF Reject, ThenNotify, Task
  <2>8. CASE Cancel(p, u, c)
    BY <2>8, MatrixRequest DEF Cancel, ThenNotify, Task
  <2>9. CASE Pay(p, u, c)
    BY <2>9, MatrixRequest DEF Pay, ThenNotify, Task
  <2> QED BY <1>1, <2>1, <2>2, <2>3, <2>4, <2>5, <2>6, <2>7, <2>8, <2>9
         DEF Start, EditRequest, WorkflowRequest
<1>2. ASSUME NEW p \in Slots, Continue(p)
      PROVE  ChainFromMatrix'
  <2>1. CASE UpdateWrite(p) \/ DeleteWrite(p) \/ AttachInsert(p)
              \/ NotifyEmployee(p) \/ Abort(p)
    BY <2>1, MatrixRequest
    DEF UpdateWrite, DeleteWrite, AttachInsert, NotifyEmployee, Abort, Idle
  <2>2. CASE AttachPutObject(p)
    <3>1. [req[p] EXCEPT !.phase = "attach"].phase = "attach"
      BY <2>2, Serving DEF AttachPutObject, Active
    <3> QED BY <2>2, <3>1, MatrixRequest DEF AttachPutObject
  <2>3. CASE SubmitPolicyCheck(p)
    <3>1. [req[p] EXCEPT !.phase = "duplicate"].chain = req[p].chain
      BY <2>3, Serving DEF SubmitPolicyCheck, Active
    <3> QED BY <2>3, <3>1, MatrixRequest DEF SubmitPolicyCheck, ChainFromMatrix
  <2>4. CASE SubmitDuplicateCheck(p)
    <3>1. [req[p] EXCEPT !.phase = "submit"].chain = req[p].chain
      BY <2>4, Serving DEF SubmitDuplicateCheck, Active
    <3> QED BY <2>4, <3>1, MatrixRequest DEF SubmitDuplicateCheck, ChainFromMatrix
  <2>5. CASE SubmitCommit(p)
    BY <2>5, MatrixRequest DEF SubmitCommit, ThenNotify, Task
  <2> QED BY <1>2, <2>1, <2>2, <2>3, <2>4, <2>5 DEF Continue
<1>3. CASE req' = req
  BY <1>3 DEF ChainFromMatrix, MatrixPaths
<1>4. ASSUME \/ \E u \in Users : \/ ExpireTokens(u)
                                 \/ \E r \in Roles : ChangeRole(u, r)
             \/ \E k \in MayDeactivate : SwitchCategory(k)
             \/ UNCHANGED vars
      PROVE  ChainFromMatrix'
  BY <1>3, <1>4 DEF ExpireTokens, ChangeRole, SwitchCategory, vars
<1> QED BY <1>1, <1>2, <1>4 DEF Next

(* Every step keeps the inductive invariant: one case per action.          *)
LEMMA WorkflowNext == WorkflowInv /\ [Next]_vars => WorkflowInv'
<1> SUFFICES ASSUME WorkflowInv, [Next]_vars PROVE WorkflowInv'
  OBVIOUS
<1> USE DEF tables, storage, directory
<1>0. TypeOK'
  BY TypeNext DEF WorkflowInv
<1> DEFINE Kept == StatusMatchesSteps' /\ NoSelfApproval' /\ OwnedClaims'
<1>1. ASSUME NEW p \in Slots, NEW u \in Users, NEW c \in Claims, NEW d \in Details,
             Create(p, u, c, d)
      PROVE  Kept /\ ChainReady'
  BY <1>1, CreateKeeps DEF Create, NewClaim, WorkflowInv, ChainReady
<1>2. ASSUME NEW p \in Slots, NEW u \in Users, NEW c \in Claims, NEW d \in Details,
             UpdateCheck(p, u, c, d)
      PROVE  Kept /\ ChainReady'
  BY <1>2, Frame, OneRequest DEF UpdateCheck, Task
<1>3. ASSUME NEW p \in Slots, UpdateWrite(p)
      PROVE  Kept /\ ChainReady'
  <2>1. \A c \in Claims : /\ claim'[c].status = claim[c].status
                          /\ claim'[c].step = claim[c].step
                          /\ claim'[c].owner = claim[c].owner
    BY <1>3 DEF UpdateWrite, WorkflowInv, TypeOK, Row
  <2> QED BY <1>3, <2>1, Frame, OneRequest DEF UpdateWrite, Idle
<1>4. ASSUME NEW p \in Slots, NEW u \in Users, NEW c \in Claims,
             DeleteCheck(p, u, c)
      PROVE  Kept /\ ChainReady'
  BY <1>4, Frame, OneRequest DEF DeleteCheck, Task
<1>5. ASSUME NEW p \in Slots, DeleteWrite(p)
      PROVE  Kept /\ ChainReady'
  <2>1. \A c \in Claims : /\ claim'[c].status = claim[c].status
                          /\ claim'[c].step = claim[c].step
                          /\ claim'[c].owner = claim[c].owner
    BY <1>5 DEF DeleteWrite, WorkflowInv, TypeOK, Row
  <2> QED BY <1>5, <2>1, Frame, OneRequest DEF DeleteWrite, Idle
<1>6. ASSUME NEW p \in Slots, NEW u \in Users, NEW c \in Claims,
             AttachCheck(p, u, c)
      PROVE  Kept /\ ChainReady'
  BY <1>6, Frame, OneRequest DEF AttachCheck, Task
<1>7. ASSUME NEW p \in Slots, AttachPutObject(p)
      PROVE  Kept /\ ChainReady'
  <2>1. [req[p] EXCEPT !.phase = "attach"].phase = "attach"
    BY <1>7, Serving DEF AttachPutObject, WorkflowInv, Active
  <2> QED BY <1>7, <2>1, Frame, OneRequest DEF AttachPutObject
<1>8. ASSUME NEW p \in Slots, AttachInsert(p)
      PROVE  Kept /\ ChainReady'
  BY <1>8, Frame, OneRequest DEF AttachInsert, Idle
<1>9. ASSUME NEW p \in Slots, NEW u \in Users, NEW c \in Claims,
             SubmitRead(p, u, c)
      PROVE  Kept /\ ChainReady'
  BY <1>9, Frame, OneRequest DEF SubmitRead, Task
<1>10. ASSUME NEW p \in Slots, SubmitPolicyCheck(p)
       PROVE  Kept /\ ChainReady'
  <2>1. [req[p] EXCEPT !.phase = "duplicate"].phase = "duplicate"
    BY <1>10, Serving DEF SubmitPolicyCheck, WorkflowInv, Active
  <2> QED BY <1>10, <2>1, Frame, OneRequest DEF SubmitPolicyCheck
<1>11. ASSUME NEW p \in Slots, SubmitDuplicateCheck(p)
       PROVE  Kept /\ ChainReady'
  <2>1. [req[p] EXCEPT !.phase = "submit"].chain = req[p].chain
    BY <1>11, Serving DEF SubmitDuplicateCheck, WorkflowInv, Active
  <2> QED BY <1>11, <2>1, Frame, OneRequest DEF SubmitDuplicateCheck
<1>12. ASSUME NEW p \in Slots, SubmitCommit(p)
       PROVE  Kept /\ ChainReady'
  BY <1>12, SubmitKeeps, OneRequest DEF SubmitCommit, ThenNotify, Task
<1>13. ASSUME NEW p \in Slots, NEW u \in Users, NEW r \in Roles, NEW c \in Claims,
              Approve(p, u, r, c)
       PROVE  Kept /\ ChainReady'
  BY <1>13, ApproveKeeps, OneRequest DEF Approve, ThenNotify, Task
<1>14. ASSUME NEW p \in Slots, NEW u \in Users, NEW r \in Roles, NEW c \in Claims,
              Reject(p, u, r, c)
       PROVE  Kept /\ ChainReady'
  BY <1>14, RejectKeeps, OneRequest DEF Reject, ThenNotify, Task
<1>15. ASSUME NEW p \in Slots, NEW u \in Users, NEW c \in Claims,
              Cancel(p, u, c)
       PROVE  Kept /\ ChainReady'
  BY <1>15, CancelKeeps, OneRequest DEF Cancel, ThenNotify, Task
<1>16. ASSUME NEW p \in Slots, NEW u \in Users, NEW c \in Claims,
              Pay(p, u, c)
       PROVE  Kept /\ ChainReady'
  BY <1>16, PayKeeps, OneRequest DEF Pay, ThenNotify, Task
<1>17. ASSUME NEW p \in Slots, NotifyEmployee(p)
       PROVE  Kept /\ ChainReady'
  BY <1>17, Frame, OneRequest DEF NotifyEmployee, Idle
<1>18. ASSUME NEW p \in Slots, Abort(p)
       PROVE  Kept /\ ChainReady'
  BY <1>18, Frame, OneRequest DEF Abort, Idle
<1>19. ASSUME NEW u \in Users, NEW r \in Roles, ChangeRole(u, r)
       PROVE  Kept /\ ChainReady'
  BY <1>19, Frame DEF ChangeRole, WorkflowInv, ChainReady
<1>20. ASSUME NEW u \in Users, ExpireTokens(u)
       PROVE  Kept /\ ChainReady'
  BY <1>20, Frame DEF ExpireTokens, WorkflowInv, ChainReady
<1>21. ASSUME NEW k \in MayDeactivate, SwitchCategory(k)
       PROVE  Kept /\ ChainReady'
  BY <1>21, Frame DEF SwitchCategory, WorkflowInv, ChainReady
<1>22. ASSUME UNCHANGED vars
       PROVE  Kept /\ ChainReady'
  BY <1>22, Frame DEF vars, WorkflowInv, ChainReady
<1> HIDE DEF Kept
<1>23. Kept /\ ChainReady'
  BY <1>1, <1>2, <1>3, <1>4, <1>5, <1>6, <1>7, <1>8, <1>9, <1>10, <1>11, <1>12,
     <1>13, <1>14, <1>15, <1>16, <1>17, <1>18, <1>19, <1>20, <1>21, <1>22
  DEF Next, Start, EditRequest, WorkflowRequest, Continue
<1>24. ChainFromMatrix'
  BY ChainNext DEF WorkflowInv
<1> QED BY <1>0, <1>23, <1>24 DEF WorkflowInv, Kept

(* The inductive invariant holds in every reachable state.                 *)
THEOREM WorkflowInvariant == Spec => []WorkflowInv
<1>1. Init => WorkflowInv
  BY WorkflowInit
<1>2. WorkflowInv /\ [Next]_vars => WorkflowInv'
  BY WorkflowNext
<1> QED BY <1>1, <1>2, PTL DEF Spec

(* Status, current_step and approval steps agree in every reachable state. *)
THEOREM StatusAgreesWithSteps == Spec => []StatusMatchesSteps
BY WorkflowInvariant, PTL DEF WorkflowInv

(* Nobody ever decides on a claim of their own.                            *)
THEOREM OwnersNeverDecide == Spec => []NoSelfApproval
BY WorkflowInvariant, PTL DEF WorkflowInv

-----------------------------------------------------------------------------
(* What a step may never do.                                               *)

(* Each action that changes a status, the steps or the audit trail of a    *)
(* claim finds it undeleted, and in a status that is not final.            *)
LEMMA FinalNext == TypeOK /\ [Next]_vars => \A c \in Claims : FinalStep(c)
<1> SUFFICES ASSUME TypeOK, [Next]_vars, NEW c \in Claims PROVE FinalStep(c)
  OBVIOUS
<1> USE DEF tables, storage, directory
<1>0. claim[c] \in Row
  BY DEF TypeOK
<1>1. ASSUME NEW p \in Slots, NEW u \in Users, NEW e \in Claims, Start(p, u, e)
      PROVE  FinalStep(c)
  <2>1. ASSUME NEW d \in Details, Create(p, u, e, d) PROVE FinalStep(c)
    BY <2>1 DEF Create, NewClaim, Unused, FinalStep, TypeOK
  <2>2. ASSUME NEW d \in Details, UpdateCheck(p, u, e, d) PROVE FinalStep(c)
    BY <2>2 DEF UpdateCheck, FinalStep
  <2>3. CASE DeleteCheck(p, u, e)
    BY <2>3 DEF DeleteCheck, FinalStep
  <2>4. CASE AttachCheck(p, u, e)
    BY <2>4 DEF AttachCheck, FinalStep
  <2>5. CASE SubmitRead(p, u, e)
    BY <2>5 DEF SubmitRead, FinalStep
  <2>6. ASSUME NEW r \in Roles, Approve(p, u, r, e) PROVE FinalStep(c)
    BY <2>6 DEF Approve, MayDecide, Visible, Write, FinalStep, TypeOK
  <2>7. ASSUME NEW r \in Roles, Reject(p, u, r, e) PROVE FinalStep(c)
    BY <2>7 DEF Reject, MayDecide, Visible, Write, FinalStep, TypeOK
  <2>8. CASE Cancel(p, u, e)
    BY <2>8 DEF Cancel, Visible, CanTransition, Write, FinalStep, TypeOK
  <2>9. CASE Pay(p, u, e)
    BY <2>9 DEF Pay, Visible, CanTransition, Write, FinalStep, TypeOK
  <2> QED BY <1>1, <2>1, <2>2, <2>3, <2>4, <2>5, <2>6, <2>7, <2>8, <2>9
         DEF Start, EditRequest, WorkflowRequest
<1>2. ASSUME NEW p \in Slots, Continue(p)
      PROVE  FinalStep(c)
  <2>1. CASE UpdateWrite(p)
    BY <1>0, <2>1 DEF UpdateWrite, FinalStep, TypeOK, Row
  <2>2. CASE DeleteWrite(p)
    BY <1>0, <2>2 DEF DeleteWrite, FinalStep, TypeOK, Row
  <2>3. CASE AttachPutObject(p)
    BY <2>3 DEF AttachPutObject, FinalStep
  <2>4. CASE AttachInsert(p)
    BY <2>4 DEF AttachInsert, FinalStep
  <2>5. CASE SubmitPolicyCheck(p)
    BY <2>5 DEF SubmitPolicyCheck, FinalStep
  <2>6. CASE SubmitDuplicateCheck(p)
    BY <2>6 DEF SubmitDuplicateCheck, FinalStep
  <2>7. CASE SubmitCommit(p)
    BY <2>7 DEF SubmitCommit, Visible, CanTransition, Write, FinalStep, TypeOK
  <2>8. CASE NotifyEmployee(p)
    BY <2>8 DEF NotifyEmployee, FinalStep
  <2>9. CASE Abort(p)
    BY <2>9 DEF Abort, FinalStep
  <2> QED BY <1>2, <2>1, <2>2, <2>3, <2>4, <2>5, <2>6, <2>7, <2>8, <2>9
          DEF Continue
<1>3. ASSUME NEW u \in Users, ExpireTokens(u) \/ \E r \in Roles : ChangeRole(u, r)
      PROVE  FinalStep(c)
  BY <1>3 DEF ExpireTokens, ChangeRole, FinalStep
<1>4. ASSUME NEW k \in MayDeactivate, SwitchCategory(k)
      PROVE  FinalStep(c)
  BY <1>4 DEF SwitchCategory, FinalStep
<1>5. CASE UNCHANGED vars
  BY <1>5 DEF vars, FinalStep
<1> QED BY <1>1, <1>2, <1>3, <1>4, <1>5 DEF Next

(* Nothing happens to a paid, cancelled or deleted claim any more.         *)
THEOREM FinalClaimsStay == Spec => FinalIsFinal
<1>1. TypeOK /\ [Next]_vars => [\A c \in Claims : FinalStep(c)]_vars
  BY FinalNext
<1> QED BY <1>1, TypeCorrect, PTL DEF Spec, FinalIsFinal

(* A decision on claim e writes its current step only, by a holder of the  *)
(* step's role who does not own the claim.                                 *)
LEMMA DecisionIsCurrent ==
    ASSUME WorkflowInv, NEW u \in Users, NEW r \in tokens[u], NEW e \in Claims,
           NEW status, MayDecide(u, r, e),
           approvals' = [approvals EXCEPT ![e] =
                           Decided(@, NextPending(approvals[e]), status, u)],
           NEW c \in Claims
    PROVE  DecisionStep(c)
<1> DEFINE n == claim[e].step
           t == Decided(approvals[e], n, status, u)
<1>1. /\ approvals[e] \in Seq(Steps) /\ NextPending(approvals[e]) = n
      /\ n \in 1..Len(approvals[e]) /\ StandsAt(e, n, "pending")
  BY PendingIsCurrent DEF MayDecide
<1>2. /\ approvals[e][n].role = r /\ u # claim[e].owner
      /\ approvals[e][n].status = "pending"
      /\ \A j \in 1..(n - 1) : approvals[e][j].status = "approved"
  BY <1>1 DEF MayDecide, StandsAt
<1>3. /\ DOMAIN t = DOMAIN approvals[e] /\ t[n].approver = u
      /\ \A j \in DOMAIN approvals[e] : j # n => t[j] = approvals[e][j]
  BY <1>1, DecidedSteps
<1>4. approvals' = [approvals EXCEPT ![e] = t]
  BY <1>1
<1> HIDE DEF t, n
<1>5. CASE c = e
  <2>1. approvals'[c] = t
    BY <1>4, <1>5 DEF WorkflowInv, TypeOK
  <2> QED BY <1>1, <1>2, <1>3, <1>5, <2>1 DEF DecisionStep, StepStands
<1>6. CASE c # e
  BY <1>4, <1>6 DEF DecisionStep, WorkflowInv, TypeOK
<1> QED BY <1>5, <1>6

(* Decisions write pending steps only; besides them, only a submission     *)
(* touches the steps of a claim, and it finds either none or a rejected    *)
(* round.                                                                  *)
LEMMA DecisionNext ==
    WorkflowInv /\ [Next]_vars => \A c \in Claims : DecisionStep(c)
<1> SUFFICES ASSUME WorkflowInv, [Next]_vars, NEW c \in Claims
             PROVE  DecisionStep(c)
  OBVIOUS
<1>1. CASE approvals' = approvals
  BY <1>1 DEF DecisionStep
<1>2. ASSUME NEW p \in Slots, NEW u \in Users, NEW e \in Claims, NEW r \in Roles,
             Approve(p, u, r, e)
      PROVE  DecisionStep(c)
  BY <1>2, DecisionIsCurrent DEF Approve
<1>3. ASSUME NEW p \in Slots, NEW u \in Users, NEW e \in Claims, NEW r \in Roles,
             Reject(p, u, r, e)
      PROVE  DecisionStep(c)
  BY <1>3, DecisionIsCurrent DEF Reject
<1>4. ASSUME NEW p \in Slots, SubmitCommit(p)
      PROVE  DecisionStep(c)
  <2>1. req[p].claim \in Claims
    BY <1>4, Serving DEF SubmitCommit, Active, WorkflowInv
  <2>2. PICK e \in Claims : e = req[p].claim
    BY <2>1
  <2>3. claim[e].status \in {"DRAFT", "REJECTED"}
    BY <1>4, <2>2 DEF SubmitCommit, CanTransition
  <2>4. claim'[e].status = "SUBMITTED"
    BY <1>4, <2>2 DEF SubmitCommit, WorkflowInv, TypeOK, Row
  <2>5. CASE c = e
    <3>1. claim[e].status = "DRAFT" => approvals[e] = <<>>
      BY DEF WorkflowInv, StatusMatchesSteps, StoryOf
    <3> QED BY <2>3, <2>4, <2>5, <3>1 DEF DecisionStep
  <2>6. CASE c # e
    BY <1>4, <2>2, <2>6 DEF SubmitCommit, DecisionStep, WorkflowInv, TypeOK
  <2> QED BY <2>5, <2>6
<1>5. \/ approvals' = approvals
      \/ \E p \in Slots : SubmitCommit(p)
      \/ \E p \in Slots, u \in Users, e \in Claims, r \in Roles :
           Approve(p, u, r, e) \/ Reject(p, u, r, e)
  <2>1. ASSUME NEW p \in Slots, NEW u \in Users, NEW e \in Claims, Start(p, u, e)
        PROVE  \/ approvals' = approvals
               \/ \E r \in Roles : Approve(p, u, r, e) \/ Reject(p, u, r, e)
    BY <2>1 DEF Start, EditRequest, WorkflowRequest, Create, NewClaim,
                UpdateCheck, DeleteCheck, AttachCheck, SubmitRead,
                Cancel, Pay, tables
  <2>2. ASSUME NEW p \in Slots, Continue(p)
        PROVE  approvals' = approvals \/ SubmitCommit(p)
    BY <2>2 DEF Continue, UpdateWrite, DeleteWrite, AttachPutObject, AttachInsert,
                SubmitPolicyCheck, SubmitDuplicateCheck, NotifyEmployee, Abort,
                tables
  <2>3. ASSUME \/ \E u \in Users : \/ ExpireTokens(u)
                                    \/ \E r \in Roles : ChangeRole(u, r)
               \/ \E k \in MayDeactivate : SwitchCategory(k)
               \/ UNCHANGED vars
        PROVE  approvals' = approvals
    BY <2>3 DEF ExpireTokens, ChangeRole, SwitchCategory, vars, tables
  <2> QED BY <2>1, <2>2, <2>3 DEF Next
<1> QED BY <1>1, <1>2, <1>3, <1>4, <1>5

(* Decisions are taken in order and never overwritten.                     *)
THEOREM DecisionsAreFinal == Spec => DecisionsStand
<1>1. WorkflowInv /\ [Next]_vars => [\A c \in Claims : DecisionStep(c)]_vars
  BY DecisionNext
<1> QED BY <1>1, WorkflowInvariant, PTL DEF Spec, DecisionsStand

-----------------------------------------------------------------------------
(* ClaimWorkflow implements ClaimLifecycle: each step of a handler is one  *)
(* step of a claim's life, or none.                                        *)

(* A step that leaves steps and statuses alone is a stutter of the         *)
(* lifecycle.                                                              *)
LEMMA LifecycleStutter ==
    ASSUME approvals' = approvals,
           \A c \in Claims : claim'[c].status = claim[c].status
    PROVE  UNCHANGED Lifecycle!vars
BY DEF Lifecycle!vars, StatusMap, PathMap, ApprovedMap

(* A function over the claims, and one that changes at one of them.        *)
IsMap(f) == f = [d \in Claims |-> f[d]]
(* Two functions that differ at one claim are updates of each other.       *)
LEMMA MapUpdate ==
    ASSUME NEW f, NEW g, IsMap(f), IsMap(g), NEW c \in Claims,
           \A d \in Claims \ {c} : g[d] = f[d]
    PROVE  g = [f EXCEPT ![c] = g[c]]
BY DEF IsMap

(* A step that writes the row of one claim shows at that claim only.       *)
LEMMA StatusMaps ==
    ASSUME TypeOK, NEW c \in Claims, NEW row, claim' = [claim EXCEPT ![c] = row]
    PROVE  StatusMap' = [StatusMap EXCEPT ![c] = row.status]
<1>1. StatusMap'[c] = row.status
  BY DEF StatusMap, TypeOK
<1>2. \A d \in Claims \ {c} : StatusMap'[d] = StatusMap[d]
  BY DEF StatusMap, TypeOK
<1>3. IsMap(StatusMap) /\ IsMap(StatusMap')
  BY DEF IsMap, StatusMap
<1> QED BY <1>1, <1>2, <1>3, MapUpdate

(* The same of the paths.                                                  *)
LEMMA PathMaps ==
    ASSUME TypeOK, NEW c \in Claims, NEW steps,
           approvals' = [approvals EXCEPT ![c] = steps]
    PROVE  PathMap' = [PathMap EXCEPT ![c] = RolesOf(steps)]
<1>1. PathMap'[c] = RolesOf(steps)
  BY DEF PathMap, TypeOK
<1>2. \A d \in Claims \ {c} : PathMap'[d] = PathMap[d]
  BY DEF PathMap, TypeOK
<1>3. IsMap(PathMap) /\ IsMap(PathMap')
  BY DEF IsMap, PathMap
<1> QED BY <1>1, <1>2, <1>3, MapUpdate

(* The same of the positions walked.                                       *)
LEMMA ApprovedMaps ==
    ASSUME TypeOK, NEW c \in Claims, NEW steps,
           approvals' = [approvals EXCEPT ![c] = steps]
    PROVE  ApprovedMap' = [ApprovedMap EXCEPT ![c] = Walked(steps)]
<1>1. ApprovedMap'[c] = Walked(steps)
  BY DEF ApprovedMap, TypeOK
<1>2. \A d \in Claims \ {c} : ApprovedMap'[d] = ApprovedMap[d]
  BY DEF ApprovedMap, TypeOK
<1>3. IsMap(ApprovedMap) /\ IsMap(ApprovedMap')
  BY DEF IsMap, ApprovedMap
<1> QED BY <1>1, <1>2, <1>3, MapUpdate

(* A step that changes the status of one claim is a Move.                  *)
LEMMA MoveMaps ==
    ASSUME TypeOK, NEW c \in Claims, NEW to, NEW row,
           claim' = [claim EXCEPT ![c] = row], row.status = to,
           approvals' = approvals
    PROVE  Lifecycle!Move(c, claim[c].status, to)
<1>2. StatusMap' = [StatusMap EXCEPT ![c] = to]
  BY StatusMaps
<1>3. UNCHANGED <<PathMap, ApprovedMap>>
  BY DEF PathMap, ApprovedMap
<1> QED BY <1>2, <1>3 DEF Lifecycle!Move, StatusMap

(* What the abstract state shows of a claim.                               *)
LEMMA MapsOf ==
    ASSUME NEW c \in Claims
    PROVE  /\ StatusMap[c] = claim[c].status
           /\ DOMAIN PathMap[c] = DOMAIN approvals[c]
           /\ PathMap[c] = RolesOf(approvals[c])
           /\ ApprovedMap[c] = Walked(approvals[c])
BY DEF StatusMap, PathMap, ApprovedMap, RolesOf

(* A claim that waits for step n has been approved up to n - 1.            *)
LEMMA ApprovedSoFar ==
    ASSUME WorkflowInv, NEW c \in Claims, claim[c].status = "SUBMITTED"
    PROVE  ApprovedMap[c] = 1..(claim[c].step - 1)
<1> DEFINE n == claim[c].step
<1>1. /\ approvals[c] \in Seq(Steps) /\ n \in 1..Len(approvals[c])
      /\ StandsAt(c, n, "pending")
  BY PendingIsCurrent
<1>2. \A i \in DOMAIN approvals[c] : approvals[c][i].status = "approved" <=> i < n
  BY <1>1 DEF StandsAt
<1>3. DOMAIN approvals[c] = 1..Len(approvals[c])
  BY <1>1
<1> HIDE DEF n
<1>4. Walked(approvals[c]) = 1..(n - 1)
  BY <1>1, <1>2, <1>3 DEF Walked
<1> QED BY <1>4, MapsOf DEF n

(* SubmitCommit is a Submit: a path of the matrix, nothing approved yet.   *)
LEMMA SubmitMaps ==
    ASSUME WorkflowInv, NEW p \in Slots, SubmitCommit(p)
    PROVE  \E c \in Claims : Lifecycle!Submit(c)
<1>0. TypeOK
  BY DEF WorkflowInv
<1>1. req[p].claim \in Claims /\ req[p].chain \in Seq(ApproverRoles)
  BY Serving DEF SubmitCommit, Active, WorkflowInv
<1>2. PICK c \in Claims : c = req[p].claim
  BY <1>1
<1> DEFINE chain == req[p].chain
           t == Snapshot(chain)
           row == [claim[c] EXCEPT !.status = "SUBMITTED", !.step = 1]
<1>3. chain \in MatrixPaths \ {<<>>}
  BY DEF SubmitCommit, WorkflowInv, ChainReady, ChainFromMatrix
<1>4. /\ claim' = [claim EXCEPT ![c] = row]
      /\ approvals' = [approvals EXCEPT ![c] = t]
      /\ claim[c].status \in {"DRAFT", "REJECTED"}
  BY <1>2 DEF SubmitCommit, CanTransition
<1>5. row.status = "SUBMITTED"
  BY DEF WorkflowInv, TypeOK, Row
<1>6. RolesOf(t) = chain
  <2>1. DOMAIN t = 1..Len(chain) /\ \A i \in 1..Len(chain) : t[i].role = chain[i]
    BY DEF Snapshot, Pending
  <2>2. chain = [i \in 1..Len(chain) |-> chain[i]]
    BY <1>1
  <2> HIDE DEF t, chain
  <2> QED BY <2>1, <2>2 DEF RolesOf
<1>7. Walked(t) = {}
  BY DEF Snapshot, Pending, Walked
<1> HIDE DEF t, row, chain
<1>8. /\ StatusMap' = [StatusMap EXCEPT ![c] = "SUBMITTED"]
      /\ PathMap' = [PathMap EXCEPT ![c] = chain]
      /\ ApprovedMap' = [ApprovedMap EXCEPT ![c] = {}]
  <2>1. StatusMap' = [StatusMap EXCEPT ![c] = "SUBMITTED"]
    BY <1>4, <1>5, <1>0, StatusMaps
  <2>2. PathMap' = [PathMap EXCEPT ![c] = chain]
    BY <1>4, <1>6, <1>0, PathMaps
  <2>3. ApprovedMap' = [ApprovedMap EXCEPT ![c] = {}]
    BY <1>4, <1>7, <1>0, ApprovedMaps
  <2> QED BY <2>1, <2>2, <2>3
<1>9. StatusMap[c] \in {"DRAFT", "REJECTED"}
  BY <1>4, MapsOf
<1> QED BY <1>3, <1>8, <1>9 DEF Lifecycle!Submit

(* An approval walks one position on, and a last one approves the claim.   *)
LEMMA ApproveMaps ==
    ASSUME WorkflowInv, NEW p \in Slots, NEW u \in Users, NEW r \in Roles,
           NEW c \in Claims, Approve(p, u, r, c)
    PROVE  \E i \in DOMAIN PathMap[c] : Lifecycle!Approve(c, i)
<1> DEFINE s == approvals[c]
           n == claim[c].step
           t == Decided(s, n, "approved", u)
           row == AfterApproval(claim[c], n, Len(s))
<1>0. TypeOK
  BY DEF WorkflowInv
<1>1. claim[c].status = "SUBMITTED"
  BY DEF Approve, MayDecide
<1>2. /\ s \in Seq(Steps) /\ NextPending(s) = n /\ n \in 1..Len(s)
      /\ StandsAt(c, n, "pending")
  BY <1>1, PendingIsCurrent
<1>3. /\ claim' = [claim EXCEPT ![c] = row]
      /\ approvals' = [approvals EXCEPT ![c] = t]
  BY <1>2 DEF Approve
<1>4. row.status = IF n = Len(s) THEN "APPROVED" ELSE "SUBMITTED"
  BY <1>1 DEF AfterApproval, WorkflowInv, TypeOK, Row
<1>5. /\ DOMAIN t = 1..Len(s) /\ t[n].status = "approved"
      /\ \A j \in 1..Len(s) : j # n => t[j] = s[j]
  BY <1>2, DecidedSteps
<1>6. \A j \in 1..Len(s) : t[j].role = s[j].role
  BY <1>2 DEF Decided
<1>7. DOMAIN s = 1..Len(s)
  BY <1>2
<1>8. RolesOf(t) = PathMap[c]
  BY <1>5, <1>6, <1>7, MapsOf DEF RolesOf
<1>9. \A j \in 1..Len(s) : t[j].status = "approved" <=> j <= n
  BY <1>2, <1>5, <1>7 DEF StandsAt
<1>10. Walked(t) = 1..n
  BY <1>2, <1>5, <1>9 DEF Walked
<1>11. /\ StatusMap[c] = "SUBMITTED" /\ DOMAIN PathMap[c] = 1..Len(s)
       /\ ApprovedMap[c] = 1..(n - 1)
  BY <1>1, <1>7, MapsOf, ApprovedSoFar
<1>12. 1..n = DOMAIN PathMap[c] <=> n = Len(s)
  BY <1>2, <1>11
<1> HIDE DEF t, row, s, n
<1>13. /\ StatusMap' = [StatusMap EXCEPT ![c] = row.status]
       /\ PathMap' = [PathMap EXCEPT ![c] = PathMap[c]]
       /\ ApprovedMap' = [ApprovedMap EXCEPT ![c] = 1..n]
  <2>1. StatusMap' = [StatusMap EXCEPT ![c] = row.status]
    BY <1>3, <1>0, StatusMaps
  <2>2. PathMap' = [PathMap EXCEPT ![c] = PathMap[c]]
    BY <1>3, <1>8, <1>0, PathMaps
  <2>3. ApprovedMap' = [ApprovedMap EXCEPT ![c] = 1..n]
    BY <1>3, <1>10, <1>0, ApprovedMaps
  <2> QED BY <2>1, <2>2, <2>3
<1>14. PathMap' = PathMap
  BY <1>13 DEF PathMap
<1>15. Lifecycle!Approve(c, n)
  BY <1>2, <1>4, <1>11, <1>12, <1>13, <1>14 DEF Lifecycle!Approve
<1> QED BY <1>2, <1>11, <1>15

(* A rejection leaves the approvals as they are.                           *)
LEMMA RejectMaps ==
    ASSUME WorkflowInv, NEW p \in Slots, NEW u \in Users, NEW r \in Roles,
           NEW c \in Claims, Reject(p, u, r, c)
    PROVE  Lifecycle!Move(c, "SUBMITTED", "REJECTED")
<1> DEFINE s == approvals[c]
           n == claim[c].step
           t == Decided(s, n, "rejected", u)
           row == [claim[c] EXCEPT !.status = "REJECTED"]
<1>0. TypeOK
  BY DEF WorkflowInv
<1>1. claim[c].status = "SUBMITTED"
  BY DEF Reject, MayDecide
<1>2. /\ s \in Seq(Steps) /\ NextPending(s) = n /\ n \in 1..Len(s)
      /\ StandsAt(c, n, "pending")
  BY <1>1, PendingIsCurrent
<1>3. /\ claim' = [claim EXCEPT ![c] = row]
      /\ approvals' = [approvals EXCEPT ![c] = t]
  BY <1>2 DEF Reject
<1>4. row.status = "REJECTED"
  BY DEF WorkflowInv, TypeOK, Row
<1>5. /\ DOMAIN t = 1..Len(s) /\ t[n].status = "rejected"
      /\ \A j \in 1..Len(s) : j # n => t[j] = s[j]
  BY <1>2, DecidedSteps
<1>6. /\ \A j \in 1..Len(s) : t[j].role = s[j].role
      /\ s[n].status = "pending" /\ DOMAIN s = 1..Len(s)
  BY <1>2 DEF Decided, StandsAt
<1>7. RolesOf(t) = PathMap[c]
  BY <1>5, <1>6, MapsOf DEF RolesOf
<1>8. Walked(t) = ApprovedMap[c]
  BY <1>5, <1>6, MapsOf DEF Walked
<1> HIDE DEF t, row, s, n
<1>9. /\ StatusMap' = [StatusMap EXCEPT ![c] = "REJECTED"]
      /\ PathMap' = [PathMap EXCEPT ![c] = PathMap[c]]
      /\ ApprovedMap' = [ApprovedMap EXCEPT ![c] = ApprovedMap[c]]
  <2>1. StatusMap' = [StatusMap EXCEPT ![c] = "REJECTED"]
    BY <1>3, <1>4, <1>0, StatusMaps
  <2>2. PathMap' = [PathMap EXCEPT ![c] = PathMap[c]]
    BY <1>3, <1>7, <1>0, PathMaps
  <2>3. ApprovedMap' = [ApprovedMap EXCEPT ![c] = ApprovedMap[c]]
    BY <1>3, <1>8, <1>0, ApprovedMaps
  <2> QED BY <2>1, <2>2, <2>3
<1>10. PathMap' = PathMap /\ ApprovedMap' = ApprovedMap
  BY <1>9 DEF PathMap, ApprovedMap
<1> QED BY <1>1, <1>9, <1>10, MapsOf DEF Lifecycle!Move

(* A cancellation finds no step acted on, so nothing approved.             *)
LEMMA CancelMaps ==
    ASSUME WorkflowInv, NEW p \in Slots, NEW u \in Users, NEW c \in Claims,
           Cancel(p, u, c)
    PROVE  Lifecycle!Cancel(c)
<1> DEFINE row == [claim[c] EXCEPT !.status = "CANCELLED"]
<1>1. /\ claim' = [claim EXCEPT ![c] = row] /\ approvals' = approvals
      /\ claim[c].status = "SUBMITTED" /\ NoStepActed(c)
  BY DEF Cancel, CanTransition
<1>2. row.status = "CANCELLED"
  BY DEF WorkflowInv, TypeOK, Row
<1>3. ApprovedMap[c] = {}
  BY <1>1, MapsOf DEF NoStepActed, Walked
<1> HIDE DEF row
<1> QED BY <1>1, <1>2, <1>3, MoveMaps DEF Lifecycle!Cancel, WorkflowInv

-----------------------------------------------------------------------------
(* No claim exists in the beginning.                                       *)
LEMMA LifecycleInit == Init => Lifecycle!Init
BY DEF Init, Unused, Lifecycle!Init, StatusMap, PathMap, ApprovedMap, RolesOf,
       Walked

(* A claim is paid once, from "APPROVED".                                  *)
LEMMA PayMaps ==
    ASSUME WorkflowInv, NEW p \in Slots, NEW u \in Users, NEW c \in Claims,
           Pay(p, u, c)
    PROVE  Lifecycle!Move(c, "APPROVED", "PAID")
<1> DEFINE row == [claim[c] EXCEPT !.status = "PAID"]
<1>1. /\ claim' = [claim EXCEPT ![c] = row] /\ approvals' = approvals
      /\ claim[c].status = "APPROVED"
  BY DEF Pay, CanTransition
<1>2. row.status = "PAID"
  BY DEF WorkflowInv, TypeOK, Row
<1> HIDE DEF row
<1> QED BY <1>1, <1>2, MoveMaps DEF WorkflowInv

(* A claim begins as a draft.                                              *)
LEMMA CreateMaps ==
    ASSUME WorkflowInv, NEW p \in Slots, NEW u \in Users, NEW c \in Claims,
           NEW d \in Details, Create(p, u, c, d)
    PROVE  Lifecycle!Move(c, "NONE", "DRAFT")
<1> DEFINE row == [status |-> "DRAFT", owner |-> u, cat |-> d.cat,
                   date |-> d.date, amount |-> d.amount,
                   step |-> 0, deleted |-> FALSE]
<1>1. /\ claim' = [claim EXCEPT ![c] = row] /\ approvals' = approvals
      /\ claim[c].status = "NONE" /\ row.status = "DRAFT"
  BY DEF Create, NewClaim, Unused
<1> HIDE DEF row
<1> QED BY <1>1, MoveMaps DEF WorkflowInv

(* Every step of the workflow is a step of one claim's life, or none.      *)
LEMMA LifecycleNext ==
    WorkflowInv /\ [Next]_vars => [Lifecycle!Next]_(Lifecycle!vars)
<1> SUFFICES ASSUME WorkflowInv, [Next]_vars
             PROVE  Lifecycle!Next \/ UNCHANGED Lifecycle!vars
  OBVIOUS
<1> DEFINE Simulated == Lifecycle!Next \/ UNCHANGED Lifecycle!vars
<1>1. ASSUME NEW p \in Slots, NEW u \in Users, NEW c \in Claims, Start(p, u, c)
      PROVE  Simulated
  <2>1. ASSUME NEW d \in Details, Create(p, u, c, d) PROVE Simulated
    BY <2>1, CreateMaps DEF Lifecycle!Next
  <2>2. ASSUME NEW d \in Details, UpdateCheck(p, u, c, d) PROVE Simulated
    BY <2>2, LifecycleStutter DEF UpdateCheck, tables
  <2>3. CASE DeleteCheck(p, u, c)
    BY <2>3, LifecycleStutter DEF DeleteCheck, tables
  <2>4. CASE AttachCheck(p, u, c)
    BY <2>4, LifecycleStutter DEF AttachCheck, tables
  <2>5. CASE SubmitRead(p, u, c)
    BY <2>5, LifecycleStutter DEF SubmitRead, tables
  <2>6. ASSUME NEW r \in Roles, Approve(p, u, r, c) PROVE Simulated
    BY <2>6, ApproveMaps DEF Lifecycle!Next
  <2>7. ASSUME NEW r \in Roles, Reject(p, u, r, c) PROVE Simulated
    BY <2>7, RejectMaps DEF Lifecycle!Next
  <2>8. CASE Cancel(p, u, c)
    BY <2>8, CancelMaps DEF Lifecycle!Next
  <2>9. CASE Pay(p, u, c)
    BY <2>9, PayMaps DEF Lifecycle!Next
  <2> HIDE DEF Simulated
  <2> QED BY <1>1, <2>1, <2>2, <2>3, <2>4, <2>5, <2>6, <2>7, <2>8, <2>9
         DEF Start, EditRequest, WorkflowRequest
<1>2. ASSUME NEW p \in Slots, Continue(p) PROVE Simulated
  <2>0. TypeOK
    BY DEF WorkflowInv
  <2>1. CASE UpdateWrite(p)
    <3>1. \A c \in Claims : claim'[c].status = claim[c].status
      BY <2>0, <2>1 DEF UpdateWrite, TypeOK, Row
    <3> QED BY <2>1, <3>1, LifecycleStutter DEF UpdateWrite
  <2>2. CASE DeleteWrite(p)
    <3>1. \A c \in Claims : claim'[c].status = claim[c].status
      BY <2>0, <2>2 DEF DeleteWrite, TypeOK, Row
    <3> QED BY <2>2, <3>1, LifecycleStutter DEF DeleteWrite
  <2>3. CASE AttachPutObject(p)
    BY <2>3, LifecycleStutter DEF AttachPutObject, tables
  <2>4. CASE AttachInsert(p)
    BY <2>4, LifecycleStutter DEF AttachInsert, tables
  <2>5. CASE SubmitPolicyCheck(p)
    BY <2>5, LifecycleStutter DEF SubmitPolicyCheck, tables
  <2>6. CASE SubmitDuplicateCheck(p)
    BY <2>6, LifecycleStutter DEF SubmitDuplicateCheck, tables
  <2>7. CASE SubmitCommit(p)
    BY <2>7, SubmitMaps DEF Lifecycle!Next
  <2>8. CASE NotifyEmployee(p)
    BY <2>8, LifecycleStutter DEF NotifyEmployee, tables
  <2>9. CASE Abort(p)
    BY <2>9, LifecycleStutter DEF Abort, tables
  <2> HIDE DEF Simulated
  <2> QED BY <1>2, <2>1, <2>2, <2>3, <2>4, <2>5, <2>6, <2>7, <2>8, <2>9
          DEF Continue
<1>3. ASSUME NEW u \in Users, ExpireTokens(u) \/ \E r \in Roles : ChangeRole(u, r)
      PROVE  Simulated
  BY <1>3, LifecycleStutter DEF ExpireTokens, ChangeRole, tables
<1>4. ASSUME NEW k \in MayDeactivate, SwitchCategory(k) PROVE Simulated
  BY <1>4, LifecycleStutter DEF SwitchCategory, tables
<1>5. UNCHANGED vars => Simulated
  BY LifecycleStutter DEF vars
<1> HIDE DEF Simulated
<1>6. Next => Simulated
  BY <1>1, <1>2, <1>3, <1>4 DEF Next
<1>7. Simulated
  BY <1>5, <1>6
<1> QED BY <1>7 DEF Simulated

(* However many users, claims and requests there are, the handlers of      *)
(* reimbursements/service implement the lifecycle: no claim skips an       *)
(* approval, is paid before its path is walked, or leaves a final status.  *)
THEOREM WorkflowImplementsLifecycle == Spec => ImplementsLifecycle
<1>1. Init => Lifecycle!Init
  BY LifecycleInit
<1>2. WorkflowInv /\ [Next]_vars => [Lifecycle!Next]_(Lifecycle!vars)
  BY LifecycleNext
<1> QED BY <1>1, <1>2, WorkflowInvariant, PTL
        DEF Spec, ImplementsLifecycle, Lifecycle!Spec
=============================================================================
