--------------------------- MODULE CollectionLemmas ---------------------------
(***************************************************************************)
(* Facts about numbers, finite sets, sums and queues that the proofs of    *)
(* this project use.  Those about sums need induction; it is stated for a  *)
(* set of numbers or of sets, not for a predicate, and rests on the least  *)
(* element that every set of natural numbers has.                          *)
(***************************************************************************)
EXTENDS Integers, Sequences, SequencesExt, FiniteSets, FiniteSetsExt, Functions,
        FiniteSetTheorems, SequenceTheorems, WellFoundedInduction, TLAPS

\* A set of natural numbers has a least element.
LEMMA LeastNumber ==
  ASSUME NEW S \in SUBSET Nat, S # {}
  PROVE  \E m \in S : \A n \in S : m <= n
  <1> DEFINE less == {p \in Nat \X Nat : p[1] < p[2]}
  <1>1. IsWellFoundedOn(less, Nat)
    BY NatLessThanWellFounded DEF OpToRel
  <1> HIDE DEF less
  <1>2. PICK m \in S : \A n \in S : <<n, m>> \notin less
    BY <1>1, WFMin
  <1>3. ASSUME NEW n \in S PROVE m <= n
    <2>1. n < m => <<n, m>> \in less
      BY DEF less
    <2> QED
      BY <1>2, <2>1
  <1> QED
    BY <1>3

\* Induction over the natural numbers.
LEMMA NumbersByInduction ==
  ASSUME NEW P \in SUBSET Nat, 0 \in P, \A n \in P : n + 1 \in P
  PROVE  P = Nat
  <1>1. SUFFICES ASSUME Nat \ P # {} PROVE FALSE
    OBVIOUS
  <1>2. PICK m \in Nat \ P : \A n \in Nat \ P : m <= n
    BY <1>1, LeastNumber
  <1>3. m - 1 \in Nat /\ m - 1 \in P
    BY <1>2
  <1> QED
    BY <1>3

\* Induction over the subsets of a finite set, by removing one element.
LEMMA SubsetsByInduction ==
  ASSUME NEW S, IsFiniteSet(S), NEW P \in SUBSET (SUBSET S), {} \in P,
         \A t \in SUBSET S : t # {} /\ (\A x \in t : t \ {x} \in P) => t \in P
  PROVE  P = SUBSET S
  <1> DEFINE N == {n \in Nat : \A t \in SUBSET S : Cardinality(t) = n => t \in P}
  <1>1. \A t \in SUBSET S : IsFiniteSet(t) /\ Cardinality(t) \in Nat
    BY FS_Subset, FS_CardinalityType
  <1>2. 0 \in N
    BY <1>1, FS_EmptySet
  <1>3. ASSUME NEW n \in N PROVE n + 1 \in N
    <2> SUFFICES ASSUME NEW t \in SUBSET S, Cardinality(t) = n + 1 PROVE t \in P
      BY <1>3
    <2>1. t # {}
      BY FS_EmptySet
    <2>2. ASSUME NEW x \in t PROVE t \ {x} \in P
      <3>1. Cardinality(t \ {x}) = n
        BY <1>1, FS_RemoveElement
      <3> QED
        BY <1>3, <3>1
    <2> QED
      BY <2>1, <2>2
  <1>4. N = Nat
    <2> N \in SUBSET Nat
      OBVIOUS
    <2> HIDE DEF N
    <2> QED
      BY <1>2, <1>3, NumbersByInduction
  <1>5. ASSUME NEW t \in SUBSET S PROVE t \in P
    <2>1. Cardinality(t) \in N
      BY <1>1, <1>4
    <2> QED
      BY <2>1
  <1> QED
    BY <1>5
-----------------------------------------------------------------------------
(* Sums *)

\* The element that a sum over t takes first.
First(t) == CHOOSE x \in t : TRUE

\* sum is the function that SumFunctionOnSet computes f's sums with.
SumsOf(sum, f, S) ==
  sum = [t \in SUBSET S |-> IF t = {} THEN 0 ELSE f[First(t)] + sum[t \ {First(t)}]]

LEMMA FirstIn == ASSUME NEW t, t # {} PROVE First(t) \in t
  BY DEF First

\* The recursive function that sums exists, for every finite set of indices.
LEMMA SumsExist ==
  ASSUME NEW f, NEW S, IsFiniteSet(S)
  PROVE  \E sum : SumsOf(sum, f, S)
  <1> DEFINE Small(n) == {t \in SUBSET S : Cardinality(t) <= n}
             Eq(g, D) == g = [t \in D |-> IF t = {} THEN 0 ELSE f[First(t)] + g[t \ {First(t)}]]
             N == {n \in Nat : \E g : Eq(g, Small(n))}
  <1>1. \A t \in SUBSET S : IsFiniteSet(t) /\ Cardinality(t) \in Nat
    BY FS_Subset, FS_CardinalityType
  <1>2. 0 \in N
    <2> DEFINE g == [t \in Small(0) |-> 0]
    <2>1. \A t \in Small(0) : t = {}
      BY <1>1, FS_EmptySet
    <2>2. Eq(g, Small(0))
      BY <2>1
    <2> QED
      BY <2>2
  <1>3. ASSUME NEW n \in N PROVE n + 1 \in N
    <2>1. PICK g : Eq(g, Small(n))
      BY <1>3
    <2> DEFINE h == [t \in Small(n + 1) |-> IF t = {} THEN 0 ELSE f[First(t)] + g[t \ {First(t)}]]
    <2>2. ASSUME NEW t \in Small(n + 1), t # {} PROVE t \ {First(t)} \in Small(n)
      BY <1>1, <2>2, FirstIn, FS_RemoveElement
    <2>3. Small(n) \subseteq Small(n + 1)
      BY <1>1
    <2>4. \A t \in Small(n) : h[t] = g[t]
      BY <2>1, <2>3
    <2>5. \A t \in Small(n + 1) : t # {} => h[t \ {First(t)}] = g[t \ {First(t)}]
      BY <2>2, <2>4
    <2>6. Eq(h, Small(n + 1))
      BY <2>5
    <2>7. \E k : Eq(k, Small(n + 1))
      BY <2>6
    <2> HIDE DEF Eq, Small
    <2> QED
      BY <1>3, <2>7
  <1>4. N = Nat
    <2> N \in SUBSET Nat
      OBVIOUS
    <2> HIDE DEF N
    <2> QED
      BY <1>2, <1>3, NumbersByInduction
  <1>5. Cardinality(S) \in N
    BY <1>1, <1>4
  <1>6. Small(Cardinality(S)) = SUBSET S
    BY FS_Subset
  <1> QED
    BY <1>5, <1>6 DEF SumsOf

\* A sum, from the sums of the same numbers in any set that has them.
LEMMA SumOnSet ==
  ASSUME NEW f, NEW S, IsFiniteSet(S)
  PROVE  \E sum : SumsOf(sum, f, S) /\ SumFunctionOnSet(f, S) = sum[S]
  <1> DEFINE sum == CHOOSE g : SumsOf(g, f, S)
  <1>1. SumsOf(sum, f, S)
    BY SumsExist
  <1>2. SumFunctionOnSet(f, S) = sum[S]
    BY DEF SumFunctionOnSet, FoldFunctionOnSet, MapThenFoldSet, SumsOf, First
  <1> QED
    BY <1>1, <1>2

\* An empty sum.
LEMMA SumEmpty == ASSUME NEW f PROVE SumFunctionOnSet(f, {}) = 0
  <1>1. PICK sum : SumsOf(sum, f, {}) /\ SumFunctionOnSet(f, {}) = sum[{}]
    BY FS_EmptySet, SumOnSet
  <1>2. {} \in SUBSET {}
    OBVIOUS
  <1> QED
    BY <1>1, <1>2 DEF SumsOf

\* Two ways to sum the same numbers.
LEMMA SumsAgree ==
  ASSUME NEW S, IsFiniteSet(S), NEW A, NEW B, S \subseteq A, S \subseteq B,
         NEW f, NEW g, \A x \in S : f[x] = g[x],
         NEW sum, NEW other, SumsOf(sum, f, A), SumsOf(other, g, B)
  PROVE  sum[S] = other[S]
  <1> DEFINE P == {t \in SUBSET S : sum[t] = other[t]}
  <1>1. ASSUME NEW t \in SUBSET S, t # {}
        PROVE  /\ sum[t] = f[First(t)] + sum[t \ {First(t)}]
               /\ other[t] = g[First(t)] + other[t \ {First(t)}]
               /\ First(t) \in t
    <2>1. t \in SUBSET A /\ t \in SUBSET B
      OBVIOUS
    <2> QED
      BY <1>1, <2>1, FirstIn DEF SumsOf
  <1>2. {} \in P
    BY DEF SumsOf
  <1>3. ASSUME NEW t \in SUBSET S, t # {}, \A x \in t : t \ {x} \in P PROVE t \in P
    BY <1>1, <1>3
  <1>4. P = SUBSET S
    <2>1. P \in SUBSET (SUBSET S)
      OBVIOUS
    <2> HIDE DEF P
    <2>2. {} \in P /\ IsFiniteSet(S)
      BY <1>2
    <2>3. \A t \in SUBSET S : t # {} /\ (\A x \in t : t \ {x} \in P) => t \in P
      BY <1>3
    <2> QED
      BY <2>2, <2>3, <2>1, SubsetsByInduction
  <1> QED
    BY <1>4

\* A sum depends only on the numbers that are summed.
LEMMA SumSame ==
  ASSUME NEW S, IsFiniteSet(S), NEW f, NEW g, \A x \in S : f[x] = g[x]
  PROVE  SumFunctionOnSet(f, S) = SumFunctionOnSet(g, S)
  <1>1. PICK sum : SumsOf(sum, f, S) /\ SumFunctionOnSet(f, S) = sum[S]
    BY SumOnSet
  <1>2. PICK other : SumsOf(other, g, S) /\ SumFunctionOnSet(g, S) = other[S]
    BY SumOnSet
  <1> QED
    BY <1>1, <1>2, SumsAgree

\* A sum of natural numbers, whichever of them is taken out of it first.
LEMMA SumSplit ==
  ASSUME NEW S, IsFiniteSet(S), NEW f, \A x \in S : f[x] \in Nat
  PROVE  /\ SumFunctionOnSet(f, S) \in Nat
         /\ \A x \in S : SumFunctionOnSet(f, S) = f[x] + SumFunctionOnSet(f, S \ {x})
  <1>1. PICK sum : SumsOf(sum, f, S) /\ SumFunctionOnSet(f, S) = sum[S]
    BY SumOnSet
  <1>2. ASSUME NEW t \in SUBSET S, t # {}
        PROVE  First(t) \in t /\ f[First(t)] \in Nat /\ sum[t] = f[First(t)] + sum[t \ {First(t)}]
    BY <1>1, <1>2, FirstIn DEF SumsOf
  <1>3. \A t \in SUBSET S : sum[t] \in Nat
    <2> DEFINE P == {t \in SUBSET S : sum[t] \in Nat}
    <2>1. {} \in P
      BY <1>1 DEF SumsOf
    <2>2. ASSUME NEW t \in SUBSET S, t # {}, \A x \in t : t \ {x} \in P PROVE t \in P
      <3>1. First(t) \in t /\ f[First(t)] \in Nat /\ sum[t \ {First(t)}] \in Nat
        BY <1>2, <2>2
      <3>2. sum[t] = f[First(t)] + sum[t \ {First(t)}]
        BY <1>2, <2>2
      <3> QED
        BY <3>1, <3>2
    <2>3. P = SUBSET S
      <3> P \in SUBSET (SUBSET S)
        OBVIOUS
      <3> HIDE DEF P
      <3> QED
        BY <2>1, <2>2, SubsetsByInduction
    <2> QED
      BY <2>3
  <1>4. \A t \in SUBSET S : \A x \in t : sum[t] = f[x] + sum[t \ {x}]
    <2> DEFINE P == {t \in SUBSET S : \A x \in t : sum[t] = f[x] + sum[t \ {x}]}
    <2>1. {} \in P
      OBVIOUS
    <2>2. ASSUME NEW t \in SUBSET S, t # {}, \A x \in t : t \ {x} \in P PROVE t \in P
      <3> DEFINE y == First(t)
      <3>1. y \in t /\ f[y] \in Nat /\ sum[t] = f[y] + sum[t \ {y}]
        BY <1>2, <2>2
      <3> HIDE DEF y
      <3>2. ASSUME NEW x \in t, x # y PROVE sum[t] = f[x] + sum[t \ {x}]
        <4>1. sum[t \ {y}] = f[x] + sum[(t \ {y}) \ {x}]
          BY <2>2, <3>1, <3>2
        <4>2. sum[t \ {x}] = f[y] + sum[(t \ {x}) \ {y}]
          BY <2>2, <3>1, <3>2
        <4>3. (t \ {y}) \ {x} = (t \ {x}) \ {y}
          OBVIOUS
        <4>4. sum[(t \ {x}) \ {y}] \in Nat /\ f[x] \in Nat /\ f[y] \in Nat
          BY <1>3, <3>1
        <4> QED
          BY <3>1, <4>1, <4>2, <4>3, <4>4, f[y] + (f[x] + sum[(t \ {x}) \ {y}])
                                             = f[x] + (f[y] + sum[(t \ {x}) \ {y}])
      <3> QED
        BY <3>1, <3>2
    <2>3. P = SUBSET S
      <3> P \in SUBSET (SUBSET S)
        OBVIOUS
      <3> HIDE DEF P
      <3> QED
        BY <2>1, <2>2, SubsetsByInduction
    <2> QED
      BY <2>3
  <1>5. ASSUME NEW x \in S PROVE SumFunctionOnSet(f, S \ {x}) = sum[S \ {x}]
    <2>1. IsFiniteSet(S \ {x})
      BY FS_RemoveElement
    <2>2. PICK other : SumsOf(other, f, S \ {x}) /\ SumFunctionOnSet(f, S \ {x}) = other[S \ {x}]
      BY <2>1, SumOnSet
    <2> QED
      BY <1>1, <2>1, <2>2, SumsAgree
  <1> QED
    BY <1>1, <1>3, <1>4, <1>5

\* Numbers f on the finite set S, and g, which says the same but of c.
DifferAt(f, g, S, c) == /\ IsFiniteSet(S)
                        /\ \A x \in S : f[x] \in Nat
                        /\ \A x \in S \ {c} : g[x] = f[x]

\* One number is added to those that are summed, or takes the place of another.
LEMMA SumChanged ==
  ASSUME NEW S, NEW f, NEW g, NEW c, DifferAt(f, g, S, c), g[c] \in Nat
  PROVE  /\ SumFunctionOnSet(f, S) \in Nat
         /\ SumFunctionOnSet(g, S \cup {c}) =
              SumFunctionOnSet(f, S) - (IF c \in S THEN f[c] ELSE 0) + g[c]
  <1>1. /\ IsFiniteSet(S) /\ \A x \in S : f[x] \in Nat
        /\ \A x \in S \ {c} : g[x] = f[x]
    BY DEF DifferAt
  <1>2. IsFiniteSet(S \ {c}) /\ IsFiniteSet(S \cup {c})
    BY <1>1, FS_RemoveElement, FS_AddElement
  <1>3. SumFunctionOnSet(g, S \ {c}) = SumFunctionOnSet(f, S \ {c})
    BY <1>1, <1>2, SumSame
  <1>4. SumFunctionOnSet(g, S \cup {c}) = g[c] + SumFunctionOnSet(g, (S \cup {c}) \ {c})
    BY <1>1, <1>2, SumSplit
  <1>5. (S \cup {c}) \ {c} = S \ {c}
    OBVIOUS
  <1>6. SumFunctionOnSet(f, S \ {c}) \in Nat /\ SumFunctionOnSet(f, S) \in Nat
    BY <1>1, <1>2, SumSplit
  <1>7. SumFunctionOnSet(g, S \cup {c}) = g[c] + SumFunctionOnSet(f, S \ {c})
    BY <1>3, <1>4, <1>5
  <1>8. CASE c \in S
    <2>1. SumFunctionOnSet(f, S) = f[c] + SumFunctionOnSet(f, S \ {c}) /\ f[c] \in Nat
      BY <1>1, <1>8, SumSplit
    <2> QED
      BY <1>6, <1>7, <1>8, <2>1
  <1>9. CASE c \notin S
    <2>1. S \ {c} = S
      BY <1>9
    <2>2. SumFunctionOnSet(g, S \cup {c}) = g[c] + SumFunctionOnSet(f, S)
      BY <1>7, <2>1
    <2>3. SumFunctionOnSet(f, S) \in Nat /\ g[c] \in Nat
      BY <1>6
    <2> QED
      BY <1>6, <1>9, <2>2, <2>3
  <1> QED
    BY <1>8, <1>9

\* One number more.
LEMMA SumMore ==
  ASSUME NEW S, NEW f, NEW g, NEW c, DifferAt(f, g, S, c), g[c] \in Nat, c \notin S
  PROVE  /\ SumFunctionOnSet(f, S) \in Nat
         /\ SumFunctionOnSet(g, S \cup {c}) = SumFunctionOnSet(f, S) + g[c]
  <1>1. /\ SumFunctionOnSet(f, S) \in Nat
        /\ SumFunctionOnSet(g, S \cup {c}) =
             SumFunctionOnSet(f, S) - (IF c \in S THEN f[c] ELSE 0) + g[c]
    BY SumChanged
  <1> QED
    BY <1>1

\* One number is taken away.
LEMMA SumRemoved ==
  ASSUME NEW S, NEW f, NEW g, NEW c, DifferAt(f, g, S, c)
  PROVE  SumFunctionOnSet(g, S \ {c}) =
           SumFunctionOnSet(f, S) - (IF c \in S THEN f[c] ELSE 0)
  <1>1. /\ IsFiniteSet(S) /\ \A x \in S : f[x] \in Nat
        /\ \A x \in S \ {c} : g[x] = f[x]
    BY DEF DifferAt
  <1>2. IsFiniteSet(S \ {c})
    BY <1>1, FS_RemoveElement
  <1>3. SumFunctionOnSet(g, S \ {c}) = SumFunctionOnSet(f, S \ {c})
    BY <1>1, <1>2, SumSame
  <1>4. SumFunctionOnSet(f, S \ {c}) \in Nat
    BY <1>1, <1>2, SumSplit
  <1>5. CASE c \in S
    <2>1. SumFunctionOnSet(f, S) = f[c] + SumFunctionOnSet(f, S \ {c}) /\ f[c] \in Nat
      BY <1>1, <1>5, SumSplit
    <2> QED
      BY <1>3, <1>4, <1>5, <2>1
  <1>6. CASE c \notin S
    <2>1. S \ {c} = S
      BY <1>6
    <2> QED
      BY <1>3, <1>4, <1>6, <2>1
  <1> QED
    BY <1>5, <1>6

\* Nothing is the sum of nothings only, and everything is at most the sum.
LEMMA SumPositive ==
  ASSUME NEW S, IsFiniteSet(S), NEW f, \A x \in S : f[x] \in Nat
  PROVE  /\ SumFunctionOnSet(f, S) # 0 => \E x \in S : f[x] # 0
         /\ \A x \in S : f[x] <= SumFunctionOnSet(f, S)
  <1>1. ASSUME \A x \in S : f[x] = 0 PROVE SumFunctionOnSet(f, S) = 0
    <2> DEFINE P == {t \in SUBSET S : SumFunctionOnSet(f, t) = 0}
    <2>1. {} \in P
      BY SumEmpty
    <2>2. ASSUME NEW t \in SUBSET S, t # {}, \A x \in t : t \ {x} \in P PROVE t \in P
      <3>1. PICK x \in t : t \ {x} \in P
        BY <2>2
      <3>2. IsFiniteSet(t) /\ \A y \in t : f[y] \in Nat
        BY FS_Subset
      <3>3. SumFunctionOnSet(f, t) = f[x] + SumFunctionOnSet(f, t \ {x})
        BY <3>2, SumSplit
      <3> QED
        BY <1>1, <3>1, <3>3
    <2>3. P \in SUBSET (SUBSET S)
      OBVIOUS
    <2> HIDE DEF P
    <2>4. P = SUBSET S
      BY <2>1, <2>2, <2>3, SubsetsByInduction
    <2> QED
      BY <2>4 DEF P
  <1>2. ASSUME NEW x \in S PROVE f[x] <= SumFunctionOnSet(f, S)
    <2>1. IsFiniteSet(S \ {x})
      BY FS_RemoveElement
    <2>2. SumFunctionOnSet(f, S \ {x}) \in Nat
      BY <2>1, SumSplit
    <2> QED
      BY <2>2, SumSplit
  <1> QED
    BY <1>1, <1>2
-----------------------------------------------------------------------------
(* Queues *)

\* No element is in the queue twice.
Once(seq) == \A i, j \in 1..Len(seq) : seq[i] = seq[j] => i = j

\* What push does to a queue of requests.
LEMMA Pushed ==
  ASSUME NEW S, NEW seq \in Seq(S), NEW e \in S
  PROVE  /\ Append(seq, e) \in Seq(S)
         /\ Len(Append(seq, e)) = Len(seq) + 1 /\ Len(seq) \in Nat
         /\ ToSet(Append(seq, e)) = ToSet(seq) \cup {e}
         /\ Once(seq) /\ e \notin ToSet(seq) => Once(Append(seq, e))
  <1>1. /\ Append(seq, e) \in Seq(S) /\ Len(Append(seq, e)) = Len(seq) + 1 /\ Len(seq) \in Nat
        /\ \A i \in 1..Len(seq) : Append(seq, e)[i] = seq[i]
        /\ Append(seq, e)[Len(seq) + 1] = e
    BY AppendProperties, LenProperties
  <1>2. DOMAIN Append(seq, e) = 1..(Len(seq) + 1) /\ DOMAIN seq = 1..Len(seq)
    BY <1>1, LenProperties
  <1>3. ToSet(Append(seq, e)) = ToSet(seq) \cup {e}
    BY <1>1, <1>2 DEF ToSet
  <1>4. ASSUME Once(seq), e \notin ToSet(seq) PROVE Once(Append(seq, e))
    BY <1>1, <1>2, <1>4 DEF Once, ToSet
  <1> QED
    BY <1>1, <1>3, <1>4

\* What pop does to a queue that holds no request twice.
LEMMA Popped ==
  ASSUME NEW S, NEW seq \in Seq(S), seq # << >>
  PROVE  /\ Head(seq) \in S /\ Tail(seq) \in Seq(S)
         /\ Len(Tail(seq)) = Len(seq) - 1 /\ Len(seq) \in Nat \ {0}
         /\ Head(seq) \in ToSet(seq)
         /\ Once(seq) => ToSet(Tail(seq)) = ToSet(seq) \ {Head(seq)} /\ Once(Tail(seq))
  <1>1. /\ Head(seq) \in S /\ Tail(seq) \in Seq(S) /\ Len(Tail(seq)) = Len(seq) - 1
        /\ \A i \in 1..Len(Tail(seq)) : Tail(seq)[i] = seq[i + 1]
    BY HeadTailProperties
  <1>2. Len(seq) \in Nat \ {0} /\ DOMAIN seq = 1..Len(seq) /\ Head(seq) = seq[1]
    BY LenProperties
  <1>3. DOMAIN Tail(seq) = 1..(Len(seq) - 1)
    BY <1>1, LenProperties
  <1>4. Head(seq) \in ToSet(seq)
    BY <1>2 DEF ToSet
  <1>5. ASSUME Once(seq) PROVE Once(Tail(seq))
    <2> SUFFICES ASSUME NEW i \in 1..(Len(seq) - 1), NEW j \in 1..(Len(seq) - 1),
                        Tail(seq)[i] = Tail(seq)[j]
                 PROVE  i = j
      BY <1>1, <1>2 DEF Once
    <2>1. seq[i + 1] = seq[j + 1] /\ i + 1 \in 1..Len(seq) /\ j + 1 \in 1..Len(seq)
      BY <1>1, <1>2
    <2> QED
      BY <1>5, <2>1 DEF Once
  <1>6. ASSUME Once(seq) PROVE ToSet(Tail(seq)) = ToSet(seq) \ {Head(seq)}
    <2>1. ASSUME NEW i \in 1..(Len(seq) - 1)
          PROVE  Tail(seq)[i] \in ToSet(seq) \ {Head(seq)}
      <3>1. Tail(seq)[i] = seq[i + 1] /\ i + 1 \in 1..Len(seq) /\ 1 \in 1..Len(seq) /\ i + 1 # 1
        BY <1>1, <1>2
      <3> QED
        BY <1>2, <1>6, <3>1 DEF Once, ToSet
    <2>2. ASSUME NEW i \in 1..Len(seq), seq[i] # Head(seq) PROVE seq[i] \in ToSet(Tail(seq))
      <3>1. i - 1 \in 1..(Len(seq) - 1) /\ seq[i] = Tail(seq)[i - 1]
        BY <1>1, <1>2, <2>2
      <3> QED
        BY <1>3, <3>1 DEF ToSet
    <2> QED
      BY <1>2, <1>3, <2>1, <2>2 DEF ToSet
  <1> QED
    BY <1>1, <1>2, <1>4, <1>5, <1>6

\* A queue of the elements of seq and then those of more.
Follow(long, seq, more) ==
  /\ DOMAIN long = 1..(Len(seq) + Len(more))
  /\ \A i \in 1..Len(seq) : i \in DOMAIN long /\ long[i] = seq[i]
  /\ \A i \in 1..Len(more) : Len(seq) + i \in DOMAIN long /\ long[Len(seq) + i] = more[i]

\* Two queues, one after the other.
LEMMA JoinedPlaces ==
  ASSUME NEW S, NEW seq \in Seq(S), NEW more \in Seq(S)
  PROVE  Follow(seq \o more, seq, more)
  <1>1. /\ seq \o more \in Seq(S) /\ Len(seq \o more) = Len(seq) + Len(more)
        /\ \A i \in 1..(Len(seq) + Len(more)) :
             (seq \o more)[i] = IF i <= Len(seq) THEN seq[i] ELSE more[i - Len(seq)]
    BY ConcatProperties
  <1>2. Len(seq) \in Nat /\ Len(more) \in Nat
    BY LenProperties
  <1>3. DOMAIN (seq \o more) = 1..(Len(seq) + Len(more))
    BY <1>1, LenProperties
  <1>4. ASSUME NEW i \in 1..Len(seq)
        PROVE  i \in 1..(Len(seq) + Len(more)) /\ (seq \o more)[i] = seq[i]
    <2>1. i \in 1..(Len(seq) + Len(more)) /\ i <= Len(seq)
      BY <1>2
    <2> QED
      BY <1>1, <2>1
  <1>5. ASSUME NEW i \in 1..Len(more)
        PROVE  /\ Len(seq) + i \in 1..(Len(seq) + Len(more))
               /\ (seq \o more)[Len(seq) + i] = more[i]
    <2>1. /\ Len(seq) + i \in 1..(Len(seq) + Len(more))
          /\ ~(Len(seq) + i <= Len(seq)) /\ (Len(seq) + i) - Len(seq) = i
      BY <1>2
    <2> QED
      BY <1>1, <2>1
  <1> QED
    BY <1>3, <1>4, <1>5 DEF Follow

\* One queue after another that shares no element with it.
LEMMA Joined ==
  ASSUME NEW S, NEW seq \in Seq(S), NEW more \in Seq(S)
  PROVE  /\ seq \o more \in Seq(S)
         /\ ToSet(seq \o more) = ToSet(seq) \cup ToSet(more)
         /\ Once(seq) /\ Once(more) /\ ToSet(seq) \cap ToSet(more) = {} => Once(seq \o more)
  <1>1. /\ seq \o more \in Seq(S) /\ Len(seq \o more) = Len(seq) + Len(more)
        /\ \A i \in 1..(Len(seq) + Len(more)) :
             (seq \o more)[i] = IF i <= Len(seq) THEN seq[i] ELSE more[i - Len(seq)]
    BY ConcatProperties
  <1>2. Len(seq) \in Nat /\ Len(more) \in Nat /\ DOMAIN seq = 1..Len(seq)
        /\ DOMAIN more = 1..Len(more) /\ DOMAIN (seq \o more) = 1..(Len(seq) + Len(more))
    BY <1>1, LenProperties
  <1>3. /\ \A i \in 1..Len(seq) : (seq \o more)[i] = seq[i]
        /\ \A i \in 1..Len(more) : (seq \o more)[Len(seq) + i] = more[i]
    BY JoinedPlaces DEF Follow
  <1>4. ToSet(seq \o more) = ToSet(seq) \cup ToSet(more)
    <2>1. ASSUME NEW i \in 1..(Len(seq) + Len(more))
          PROVE  (seq \o more)[i] \in ToSet(seq) \cup ToSet(more)
      <3>1. CASE i <= Len(seq)
        BY <1>1, <1>2, <3>1 DEF ToSet
      <3>2. CASE ~(i <= Len(seq))
        <4>1. i - Len(seq) \in 1..Len(more)
          BY <1>2, <3>2
        <4> QED
          BY <1>1, <1>2, <3>2, <4>1 DEF ToSet
      <3> QED
        BY <3>1, <3>2
    <2>2. ASSUME NEW i \in 1..Len(seq) PROVE seq[i] \in ToSet(seq \o more)
      <3>1. i \in 1..(Len(seq) + Len(more))
        BY <1>2
      <3> QED
        BY <1>2, <1>3, <3>1 DEF ToSet
    <2>3. ASSUME NEW i \in 1..Len(more) PROVE more[i] \in ToSet(seq \o more)
      <3>1. Len(seq) + i \in 1..(Len(seq) + Len(more))
        BY <1>2
      <3> QED
        BY <1>2, <1>3, <3>1 DEF ToSet
    <2> QED
      BY <1>2, <2>1, <2>2, <2>3 DEF ToSet
  <1>5. ASSUME Once(seq), Once(more), ToSet(seq) \cap ToSet(more) = {}
        PROVE  Once(seq \o more)
    <2> SUFFICES ASSUME NEW i \in 1..(Len(seq) + Len(more)), NEW j \in 1..(Len(seq) + Len(more)),
                        (seq \o more)[i] = (seq \o more)[j]
                 PROVE  i = j
      BY <1>1 DEF Once
    <2>1. \A k \in 1..Len(seq), l \in 1..Len(more) : seq[k] # more[l]
      BY <1>2, <1>5 DEF ToSet
    <2>2. CASE i <= Len(seq) /\ j <= Len(seq)
      BY <1>1, <1>2, <1>5, <2>2 DEF Once
    <2>3. CASE i <= Len(seq) /\ j > Len(seq)
      <3>1. j - Len(seq) \in 1..Len(more) /\ i \in 1..Len(seq)
        BY <1>2, <2>3
      <3> QED
        BY <1>1, <1>2, <2>1, <2>3, <3>1
    <2>4. CASE i > Len(seq) /\ j <= Len(seq)
      <3>1. i - Len(seq) \in 1..Len(more) /\ j \in 1..Len(seq)
        BY <1>2, <2>4
      <3> QED
        BY <1>1, <1>2, <2>1, <2>4, <3>1
    <2>5. CASE i > Len(seq) /\ j > Len(seq)
      <3>1. i - Len(seq) \in 1..Len(more) /\ j - Len(seq) \in 1..Len(more)
        BY <1>2, <2>5
      <3>2. more[i - Len(seq)] = more[j - Len(seq)]
        BY <1>1, <1>2, <2>5
      <3>3. i - Len(seq) = j - Len(seq)
        BY <1>5, <3>1, <3>2 DEF Once
      <3> QED
        BY <1>2, <3>3
    <2> QED
      BY <1>2, <2>2, <2>3, <2>4, <2>5
  <1> QED
    BY <1>1, <1>4, <1>5

\* A queue is as long as it has elements exactly when it has none of them twice.
LEMMA LengthOnce ==
  ASSUME NEW S, NEW seq \in Seq(S)
  PROVE  /\ IsFiniteSet(ToSet(seq))
         /\ Once(seq) <=> Len(seq) = Cardinality(ToSet(seq))
  <1>1. Len(seq) \in Nat /\ DOMAIN seq = 1..Len(seq) /\ seq \in [1..Len(seq) -> ToSet(seq)]
    BY LenProperties DEF ToSet
  <1>2. IsFiniteSet(1..Len(seq)) /\ Cardinality(1..Len(seq)) = Len(seq)
    <2> DEFINE n == Len(seq)
    <2>1. n \in Nat
      BY <1>1
    <2> HIDE DEF n
    <2>2. IsFiniteSet(1..n) /\ Cardinality(1..n) = n
      BY <2>1, FS_Interval
    <2> QED
      BY <2>2 DEF n
  <1>3. seq \in Surjection(1..Len(seq), ToSet(seq))
    BY <1>1 DEF Surjection, ToSet
  <1>4. /\ IsFiniteSet(ToSet(seq))
        /\ Cardinality(ToSet(seq)) = Len(seq) <=> seq \in Injection(1..Len(seq), ToSet(seq))
    BY <1>2, <1>3, FS_Surjection
  <1>5. seq \in Injection(1..Len(seq), ToSet(seq)) <=> Once(seq)
    BY <1>1 DEF Injection, IsInjective, Once
  <1> QED
    BY <1>4, <1>5
-------------------------------------------------------------------------------
(* Folds over sequences *)

\* fold is the function that FoldLeft computes the results for parts of a sequence
\* with, for an operation that is a function of a place and a result.
FoldsTo(fold, op, base, S) ==
  fold = [t \in SUBSET S |-> IF t = {} THEN base ELSE op[<<Max(t), fold[t \ {Max(t)}]>>]]

\* A finite set of numbers has a greatest one.
LEMMA Greatest ==
  ASSUME NEW t \in SUBSET Nat, IsFiniteSet(t), t # {}
  PROVE  Max(t) \in t /\ \A n \in t : n <= Max(t)
  <1> DEFINE P == {s \in SUBSET t : s # {} => \E m \in s : \A n \in s : n <= m}
  <1>1. ASSUME NEW s \in SUBSET t, s # {}, \A x \in s : s \ {x} \in P PROVE s \in P
    <2>1. PICK x \in s : TRUE
      BY <1>1
    <2>2. CASE s \ {x} = {}
      BY <2>1, <2>2
    <2>3. CASE s \ {x} # {}
      <3>1. PICK m \in s \ {x} : \A n \in s \ {x} : n <= m
        BY <1>1, <2>1, <2>3
      <3> QED
        BY <2>1, <3>1
    <2> QED
      BY <2>2, <2>3
  <1>2. P = SUBSET t
    <2> P \in SUBSET (SUBSET t) /\ {} \in P
      OBVIOUS
    <2> HIDE DEF P
    <2> QED
      BY <1>1, SubsetsByInduction
  <1>3. \E m \in t : \A n \in t : m >= n
    <2>1. t \in P
      BY <1>2
    <2> QED
      BY <2>1
  <1> QED
    BY <1>3 DEF Max

\* The recursive function exists, and its results have the type of the operation's.
LEMMA FoldsExist ==
  ASSUME NEW S \in SUBSET Nat, IsFiniteSet(S), NEW T, NEW base \in T,
         NEW op \in [S \X T -> T]
  PROVE  \E fold \in [SUBSET S -> T] : FoldsTo(fold, op, base, S)
  <1> DEFINE Small(n) == {t \in SUBSET S : Cardinality(t) <= n}
             Result(g, t) == IF t = {} THEN base ELSE op[<<Max(t), g[t \ {Max(t)}]>>]
             Eq(g, D) == g \in [D -> T] /\ g = [t \in D |-> Result(g, t)]
             N == {n \in Nat : \E g : Eq(g, Small(n))}
  <1>1. \A t \in SUBSET S : IsFiniteSet(t) /\ Cardinality(t) \in Nat
    BY FS_Subset, FS_CardinalityType
  <1>2. ASSUME NEW t \in SUBSET S, t # {} PROVE Max(t) \in t
    BY <1>1, <1>2, Greatest
  <1>3. 0 \in N
    <2> DEFINE g == [t \in Small(0) |-> base]
    <2>1. \A t \in Small(0) : t = {}
      BY <1>1, FS_EmptySet
    <2>2. Eq(g, Small(0))
      BY <2>1
    <2> QED
      BY <2>2
  <1>4. ASSUME NEW n \in N PROVE n + 1 \in N
    <2>1. PICK g : Eq(g, Small(n))
      BY <1>4
    <2> DEFINE h == [t \in Small(n + 1) |-> Result(g, t)]
    <2>2. ASSUME NEW t \in Small(n + 1), t # {}
          PROVE  t \ {Max(t)} \in Small(n) /\ Max(t) \in S
      <3>1. Max(t) \in t /\ IsFiniteSet(t) /\ t \in SUBSET S
        BY <1>1, <1>2, <2>2
      <3>2. Cardinality(t \ {Max(t)}) = Cardinality(t) - 1
        BY <3>1, FS_RemoveElement
      <3>3. Cardinality(t) \in Nat /\ Cardinality(t) <= n + 1 /\ n \in Nat
        BY <1>1, <1>4
      <3>4. Cardinality(t \ {Max(t)}) <= n
        BY <3>2, <3>3
      <3> QED
        BY <3>1, <3>4
    <2>3. \A t \in Small(n + 1) : h[t] \in T
      BY <2>1, <2>2
    <2>4. Small(n) \subseteq Small(n + 1)
      BY <1>1
    <2>5. \A t \in Small(n) : h[t] = g[t]
      BY <2>1, <2>4
    <2>6. \A t \in Small(n + 1) : t # {} => h[t \ {Max(t)}] = g[t \ {Max(t)}]
      BY <2>2, <2>5
    <2>7. \A t \in Small(n + 1) : Result(g, t) = Result(h, t)
      BY <2>6
    <2>8. h \in [Small(n + 1) -> T]
      BY <2>3
    <2> HIDE DEF Small, Result
    <2>9. Eq(h, Small(n + 1))
      BY <2>7, <2>8
    <2>10. \E k : Eq(k, Small(n + 1))
      BY <2>9
    <2> HIDE DEF Eq
    <2> QED
      BY <1>4, <2>10
  <1>5. N = Nat
    <2> N \in SUBSET Nat
      OBVIOUS
    <2> HIDE DEF N
    <2> QED
      BY <1>3, <1>4, NumbersByInduction
  <1>6. Cardinality(S) \in N
    BY <1>1, <1>5
  <1>7. Small(Cardinality(S)) = SUBSET S
    BY FS_Subset
  <1> QED
    BY <1>6, <1>7 DEF FoldsTo

\* flat is the function that FlattenSeq joins the first sequences with.
FlattensTo(flat, seqs, n) ==
  flat = [i \in 1..n |-> IF i = 1 THEN seqs[i] ELSE flat[i - 1] \o seqs[i]]

LEMMA FlattensExist ==
  ASSUME NEW seqs, NEW n \in Nat
  PROVE  \E flat : FlattensTo(flat, seqs, n)
  <1> DEFINE N == {k \in Nat : \E flat : FlattensTo(flat, seqs, k)}
  <1>1. 0 \in N
    <2>1. FlattensTo([i \in 1..0 |-> << >>], seqs, 0)
      BY DEF FlattensTo
    <2> QED
      BY <2>1
  <1>2. ASSUME NEW k \in N PROVE k + 1 \in N
    <2>1. PICK g : FlattensTo(g, seqs, k)
      BY <1>2
    <2> DEFINE Result(f, i) == IF i = 1 THEN seqs[i] ELSE f[i - 1] \o seqs[i]
               h == [i \in 1..(k + 1) |-> Result(g, i)]
    <2>2. k \in Nat
      OBVIOUS
    <2>3. \A i \in 1..k : h[i] = g[i]
      <3>1. \A i \in 1..k : g[i] = Result(g, i)
        BY <2>1 DEF FlattensTo
      <3>2. 1..k \subseteq 1..(k + 1)
        BY <2>2
      <3> HIDE DEF Result
      <3> QED
        BY <3>1, <3>2
    <2>4. \A i \in 1..(k + 1) : Result(g, i) = Result(h, i)
      <3>1. ASSUME NEW i \in 1..(k + 1), i # 1 PROVE h[i - 1] = g[i - 1]
        <4>1. i - 1 \in 1..k
          BY <2>2, <3>1
        <4> QED
          BY <2>3, <4>1
      <3> QED
        BY <3>1
    <2>5. FlattensTo(h, seqs, k + 1)
      BY <2>4 DEF FlattensTo
    <2> HIDE DEF h
    <2> QED
      BY <2>2, <2>5
  <1>3. N = Nat
    <2> N \in SUBSET Nat
      OBVIOUS
    <2> HIDE DEF N
    <2> QED
      BY <1>1, <1>2, NumbersByInduction
  <1> QED
    BY <1>3

\* Sequences of elements of T are one sequence of them when they are joined.
LEMMA Flattened ==
  ASSUME NEW T, NEW seqs \in Seq(Seq(T))
  PROVE  FlattenSeq(seqs) \in Seq(T)
  <1> DEFINE n == Len(seqs)
             flat == CHOOSE f : FlattensTo(f, seqs, n)
             N == {k \in Nat : k \in 1..n => flat[k] \in Seq(T)}
  <1>1. n \in Nat /\ \A i \in 1..n : seqs[i] \in Seq(T)
    BY LenProperties
  <1>2. FlattensTo(flat, seqs, n)
    BY <1>1, FlattensExist
  <1>3. \A k \in 1..n : flat[k] = IF k = 1 THEN seqs[k] ELSE flat[k - 1] \o seqs[k]
    BY <1>2 DEF FlattensTo
  <1>4. FlattenSeq(seqs) = IF n = 0 THEN seqs ELSE flat[n]
    BY DEF FlattenSeq, FlattensTo
  <1> HIDE DEF flat, n
  <1>5. ASSUME NEW k \in N PROVE k + 1 \in N
    <2> SUFFICES ASSUME k + 1 \in 1..n PROVE flat[k + 1] \in Seq(T)
      OBVIOUS
    <2>1. CASE k = 0
      BY <1>1, <1>3, <2>1
    <2>2. CASE k # 0
      <3>1. k \in 1..n /\ (k + 1) - 1 = k /\ k + 1 # 1
        BY <1>1, <2>2
      <3>2. flat[k + 1] = flat[k] \o seqs[k + 1]
        BY <1>3, <3>1
      <3>3. flat[k] \in Seq(T) /\ seqs[k + 1] \in Seq(T)
        BY <1>1, <3>1
      <3> QED
        BY <3>2, <3>3
    <2> QED
      BY <2>1, <2>2
  <1>6. N = Nat
    <2>1. 0 \in N /\ N \in SUBSET Nat
      BY <1>1
    <2> HIDE DEF N
    <2> QED
      BY <1>5, <2>1, NumbersByInduction
  <1>7. CASE n = 0
    <2>1. seqs = << >>
      BY <1>7, EmptySeq DEF n
    <2> QED
      BY <1>4, <1>7, <2>1
  <1>8. CASE n # 0
    <2>1. n \in 1..n
      BY <1>1, <1>8
    <2>2. flat[n] \in Seq(T)
      BY <1>1, <1>6, <2>1
    <2> QED
      BY <1>4, <1>8, <2>2
  <1> QED
    BY <1>7, <1>8
-----------------------------------------------------------------------------
(* Counting *)

\* A function onto T that tells the elements of S apart: S has as many as T.
LEMMA CountedBy ==
  ASSUME NEW S, NEW T, NEW f \in [S -> T], IsFiniteSet(T),
         \A y \in T : \E x \in S : f[x] = y,
         \A x, y \in S : f[x] = f[y] => x = y
  PROVE  Cardinality(S) = Cardinality(T)
  <1>1. f \in Injection(S, T) /\ f \in Surjection(S, T)
    BY DEF Injection, IsInjective, Surjection
  <1> QED
    BY <1>1, FS_Injection

\* What two sets without a common element have together.
LEMMA DisjointUnion ==
  ASSUME NEW S, NEW T, IsFiniteSet(S), IsFiniteSet(T), S \cap T = {}
  PROVE  IsFiniteSet(S \cup T) /\ Cardinality(S \cup T) = Cardinality(S) + Cardinality(T)
  <1>1. /\ IsFiniteSet(S \cup T)
        /\ Cardinality(S \cup T) = Cardinality(S) + Cardinality(T) - Cardinality(S \cap T)
    BY FS_Union
  <1>2. Cardinality(S \cap T) = 0
    BY FS_EmptySet
  <1>3. Cardinality(S) \in Nat /\ Cardinality(T) \in Nat
    BY FS_CardinalityType
  <1> QED
    BY <1>1, <1>2, <1>3
===============================================================================
