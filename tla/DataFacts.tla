----------------------------- MODULE DataFacts -----------------------------
(***************************************************************************)
(* What the proofs need to know of the data the modules are made of: lists *)
(* of entries, and sums over finite sets.  A claim about every list or set *)
(* is proved from a smallest exception to it, of which there is one if     *)
(* there is any.                                                           *)
(***************************************************************************)
EXTENDS LinuxList, FiniteSetTheorems, TLAPS

(***************************************************************************)
(* The elements of a list.                                                 *)
(***************************************************************************)
LEMMA RangeFact == ASSUME NEW S, NEW s \in Seq(S)
                   PROVE  /\ Range(s) \subseteq S
                          /\ \A i \in 1..Len(s) : s[i] \in Range(s)
                          /\ \A x \in Range(s) : \E i \in 1..Len(s) : s[i] = x
                          /\ s = <<>> => Range(s) = {}
  BY DEF Range

(***************************************************************************)
(* list_del: an entry leaves the list, those behind it move up.            *)
(***************************************************************************)
LEMMA RemoveFact ==
  ASSUME NEW S, NEW s \in Seq(S), IsInjective(s), NEW x \in Range(s), NEW t, t = Without(s, x)
  PROVE  /\ t \in Seq(S) /\ Len(t) = Len(s) - 1
         /\ \A k \in 1..Len(s) : s[k] = x =>
              /\ \A i \in 1..(k - 1) : t[i] = s[i]
              /\ \A i \in k..(Len(s) - 1) : t[i] = s[i + 1]
<1>1. PICK k \in 1..Len(s) : s[k] = x
  BY RangeFact, Zenon
<1>2. \A j \in 1..Len(s) : s[j] = x => j = k
  BY <1>1 DEF IsInjective
<1>3. Index(s, x) = k
  BY <1>1, <1>2, Zenon DEF Index
<1>4. t = [i \in 1..(Len(s) - 1) |-> IF i < k THEN s[i] ELSE s[i + 1]]
  BY <1>3, Zenon DEF Without
<1>5. Len(s) - 1 \in Nat /\ \A i \in 1..(Len(s) - 1) : t[i] \in S
  BY <1>4
<1>6. t \in Seq(S) /\ Len(t) = Len(s) - 1
  BY <1>4, <1>5
<1> QED BY <1>2, <1>4, <1>6

(***************************************************************************)
(* The entries that are left: all but the one removed, each still once.    *)
(***************************************************************************)
LEMMA RemoveRange ==
  ASSUME NEW S, NEW s \in Seq(S), IsInjective(s), NEW x \in Range(s), NEW t, t = Without(s, x)
  PROVE  Range(t) = Range(s) \ {x} /\ IsInjective(t)
<1>0. PICK k \in 1..Len(s) : s[k] = x
  BY RangeFact
<1>1. /\ t \in Seq(S) /\ Len(t) = Len(s) - 1
      /\ \A i \in 1..(k - 1) : t[i] = s[i]
      /\ \A i \in k..(Len(s) - 1) : t[i] = s[i + 1]
  BY <1>0, RemoveFact
<1>2. DOMAIN t = 1..(Len(s) - 1) /\ DOMAIN s = 1..Len(s)
  BY <1>1
<1> DEFINE from(i) == IF i < k THEN i ELSE i + 1
<1>3. \A i \in 1..(Len(s) - 1) : from(i) \in (1..Len(s)) \ {k} /\ t[i] = s[from(i)]
  BY <1>1
<1>4. \A i, j \in 1..(Len(s) - 1) : from(i) = from(j) => i = j
  OBVIOUS
<1>5. \A j \in (1..Len(s)) \ {k} : \E i \in 1..(Len(s) - 1) : from(i) = j
  <2> TAKE j \in (1..Len(s)) \ {k}
  <2>1. CASE j < k
    BY <2>1
  <2>2. CASE j > k
    <3>1. j - 1 \in 1..(Len(s) - 1) /\ from(j - 1) = j
      BY <2>2
    <3> QED BY <3>1, Zenon
  <2> QED BY <2>1, <2>2
<1> HIDE DEF from
<1>6. IsInjective(t)
  BY <1>2, <1>3, <1>4 DEF IsInjective
<1>7. Range(t) = Range(s) \ {x}
  <2>1. \A e \in Range(t) : e \in Range(s) /\ e # x
    BY <1>0, <1>2, <1>3 DEF IsInjective, Range
  <2>2. ASSUME NEW e \in Range(s), e # x PROVE e \in Range(t)
    <3>1. PICK j \in 1..Len(s) : s[j] = e
      BY RangeFact, Zenon
    <3>2. PICK i \in 1..(Len(s) - 1) : from(i) = j
      BY <1>0, <2>2, <3>1, <1>5, Zenon
    <3>3. i \in DOMAIN t /\ t[i] = e
      BY <1>2, <1>3, <3>1, <3>2, Zenon
    <3> QED BY <3>3, Zenon DEF Range
  <2> QED BY <2>1, <2>2, Zenon
<1> QED BY <1>1, <1>6, <1>7, Zenon

(***************************************************************************)
(* list_add_tail: an entry that is not in the list comes to its end.       *)
(***************************************************************************)
LEMMA AppendRange ==
  ASSUME NEW S, NEW s \in Seq(S), NEW x \in S, NEW t, t = Append(s, x)
  PROVE  /\ Range(t) = Range(s) \cup {x}
         /\ IsInjective(s) /\ x \notin Range(s) => IsInjective(t)
<1>1. t[Len(s) + 1] = x /\ \A i \in 1..Len(s) : t[i] = s[i]
  OBVIOUS
<1>2. DOMAIN t = (1..Len(s)) \cup {Len(s) + 1} /\ DOMAIN s = 1..Len(s) /\ Len(s) \in Nat
  OBVIOUS
<1>3. Range(t) = Range(s) \cup {x}
  <2>1. \A e \in Range(t) : e \in Range(s) \cup {x}
    BY <1>1, <1>2, Zenon DEF Range
  <2>2. \A e \in Range(s) \cup {x} : e \in Range(t)
    BY <1>1, <1>2, Zenon DEF Range
  <2> QED BY <2>1, <2>2, Zenon
<1>4. ASSUME IsInjective(s), x \notin Range(s) PROVE IsInjective(t)
  <2>1. \A i \in 1..Len(s) : s[i] # x
    BY <1>2, <1>4, Zenon DEF Range
  <2> QED BY <1>1, <1>2, <1>4, <2>1 DEF IsInjective
<1> QED BY <1>3, <1>4, Zenon

-----------------------------------------------------------------------------
(***************************************************************************)
(* Induction over the subsets of a finite set: a set of subsets that are   *)
(* exceptions to a claim, if there are any, has a smallest one.            *)
(***************************************************************************)
LEMMA Smallest ==
  ASSUME NEW S, IsFiniteSet(S)
  PROVE  \A B \in SUBSET SUBSET S :
           B # {} => \E s \in B : \A u \in B : u \subseteq s => u = s
<1> SUFFICES ASSUME NEW B \in SUBSET SUBSET S, B # {}
             PROVE  \E s \in B : \A u \in B : u \subseteq s => u = s
  BY Zenon
<1>1. IsWellFoundedOn(StrictSubsetOrdering(S), SUBSET S)
  BY FS_StrictSubsetOrderingWellFounded, FS_FiniteSubsetsOfFinite, Zenon
<1>2. PICK s \in B : \A u \in B : ~(<<u, s>> \in StrictSubsetOrdering(S))
  BY <1>1, WFMin, Zenon
<1>3. \A u \in B : u \subseteq s /\ u # s => <<u, s>> \in StrictSubsetOrdering(S)
  BY Zenon DEF StrictSubsetOrdering
<1>4. \A u \in B : u \subseteq s => u = s
  <2> HIDE DEF StrictSubsetOrdering
  <2> SUFFICES ASSUME NEW u \in B, u \subseteq s, u # s PROVE FALSE
    BY Zenon
  <2> QED BY <1>2, <1>3, Zenon
<1> QED BY <1>4, Zenon

(***************************************************************************)
(* A set of natural numbers that is not empty has a least element.         *)
(***************************************************************************)
LEMMA Least ==
  ASSUME NEW T \in SUBSET Nat, T # {}
  PROVE  \E m \in T : \A n \in T : m <= n
<1>1. PICK m \in T : \A n \in T : ~(<<n, m>> \in OpToRel(<, Nat))
  BY NatLessThanWellFounded, WFMin, Zenon
<1>2. \A n \in T : n < m => <<n, m>> \in OpToRel(<, Nat)
  BY Zenon DEF OpToRel
<1>3. \A n \in T : ~(n < m)
  BY <1>1, <1>2, Zenon
<1> QED BY <1>3

\* The element a fold takes next.
Pick(s) == CHOOSE x \in s : TRUE

(***************************************************************************)
(* What a fold takes is an element, and leaves a smaller finite set.       *)
(***************************************************************************)
LEMMA PickFact ==
  ASSUME NEW S, IsFiniteSet(S), NEW s \in SUBSET S, s # {}
  PROVE  /\ Pick(s) \in s /\ s \ {Pick(s)} \in SUBSET S /\ s \ {Pick(s)} # s
         /\ IsFiniteSet(s) /\ Cardinality(s) \in Nat \ {0}
         /\ Cardinality(s \ {Pick(s)}) = Cardinality(s) - 1
<1>1. Pick(s) \in s
  BY Zenon DEF Pick
<1>2. IsFiniteSet(s) /\ Cardinality(s) \in Nat /\ Cardinality(s) # 0
  BY FS_Subset, FS_CardinalityType, FS_EmptySet, Zenon
<1>3. Cardinality(s \ {Pick(s)}) = Cardinality(s) - 1
  BY <1>1, <1>2, FS_RemoveElement, Zenon
<1> QED BY <1>1, <1>2, <1>3, Zenon

\* What a fold does with the elements of S, and the table of its results.
Folder(S, Val) == [S -> [Val -> Val]]
FoldTable(S, Val, base, w, g) ==
  /\ g \in [SUBSET S -> Val]
  /\ \A s \in SUBSET S : g[s] = IF s = {} THEN base ELSE w[Pick(s)][g[s \ {Pick(s)}]]

(***************************************************************************)
(* The function that a fold over the subsets of S defines exists.          *)
(***************************************************************************)
LEMMA FoldExists ==
  ASSUME NEW S, IsFiniteSet(S), NEW Val, NEW base, base \in Val,
         NEW w, w \in Folder(S, Val)
  PROVE  \E g : FoldTable(S, Val, base, w, g)
<1>w. w \in [S -> [Val -> Val]]
  BY Zenon DEF Folder
<1> DEFINE D(n) == {s \in SUBSET S : Cardinality(s) <= n}
           Sat(n, g) == /\ g \in [D(n) -> Val]
                        /\ \A s \in D(n) : g[s] = IF s = {} THEN base
                                                  ELSE w[Pick(s)][g[s \ {Pick(s)}]]
           Bad == {n \in Nat : ~\E g : Sat(n, g)}
<1>1. ASSUME Bad # {} PROVE FALSE
  <2>0. PICK m \in Bad : \A n \in Bad : m <= n
    BY <1>1, Least, Zenon
  <2>1. m \in Nat /\ ~(\E g : Sat(m, g)) /\ \A n \in Nat : n < m => \E g : Sat(n, g)
    <3> HIDE DEF Sat
    <3> QED BY <2>0
  <2>2. CASE m = 0
    <3>1. \A s \in D(0) : s = {}
      <4> SUFFICES ASSUME NEW s \in SUBSET S, Cardinality(s) <= 0, s # {} PROVE FALSE
        BY Zenon
      <4>1. Cardinality(s) \in Nat \ {0}
        BY PickFact, Zenon
      <4> QED BY <4>1
    <3>2. Sat(0, [s \in D(0) |-> base])
      BY <3>1, Zenon
    <3> QED BY <2>1, <2>2, <3>2, Zenon
  <2>3. CASE m # 0
    <3>1. m - 1 \in Nat /\ m - 1 < m
      BY <2>1, <2>3
    <3>2. PICK g : Sat(m - 1, g)
      BY <2>1, <3>1, Zenon
    <3> DEFINE h == [s \in D(m) |-> IF s \in D(m - 1) THEN g[s]
                                    ELSE w[Pick(s)][g[s \ {Pick(s)}]]]
    <3>3. ASSUME NEW s \in D(m), s # {}
          PROVE  s \ {Pick(s)} \in D(m - 1) /\ s \ {Pick(s)} \in D(m) /\ Pick(s) \in S
      <4>1. /\ Pick(s) \in s /\ s \ {Pick(s)} \in SUBSET S /\ Cardinality(s) \in Nat
            /\ Cardinality(s \ {Pick(s)}) = Cardinality(s) - 1
        BY <3>3, PickFact, Zenon
      <4> QED BY <2>1, <4>1
    <3>4. {} \in D(m - 1) /\ D(m - 1) \subseteq D(m)
      <4>1. \A s \in D(m - 1) : Cardinality(s) \in Nat
        BY FS_Subset, FS_CardinalityType, Zenon
      <4> QED BY <3>1, <2>1, <4>1, FS_EmptySet
    <3> HIDE DEF D
    <3>5. \A s \in D(m) : h[s] \in Val
      <4> SUFFICES ASSUME NEW s \in D(m) PROVE h[s] \in Val
        BY Zenon
      <4>1. CASE s \in D(m - 1)
        BY <3>2, <4>1, Zenon
      <4>2. CASE s \notin D(m - 1)
        <5>1. s # {}
          BY <3>4, <4>2, Zenon
        <5>2. g[s \ {Pick(s)}] \in Val /\ w[Pick(s)] \in [Val -> Val]
          BY <1>w, <3>2, <3>3, <5>1, Zenon
        <5> QED BY <4>2, <5>2, Zenon
      <4> QED BY <4>1, <4>2, Zenon
    <3>6. \A s \in D(m) : h[s] = IF s = {} THEN base ELSE w[Pick(s)][h[s \ {Pick(s)}]]
      BY <1>w, <3>2, <3>3, <3>4, Zenon
    <3>7. Sat(m, h)
      BY <3>5, <3>6, Zenon
    <3> QED BY <2>1, <3>7, Zenon
  <2> QED BY <2>2, <2>3, Zenon
<1>2. Cardinality(S) \in Nat /\ D(Cardinality(S)) = SUBSET S
  BY FS_CardinalityType, FS_Subset, Zenon
<1>3. PICK g : Sat(Cardinality(S), g)
  BY <1>1, <1>2, Zenon
<1>4. FoldTable(S, Val, base, w, g)
  BY <1>2, <1>3, Zenon DEF FoldTable
<1> QED BY <1>4, Zenon

(***************************************************************************)
(* SumFunctionOnSet adds the value at the element it takes next to the sum *)
(* over the rest.                                                          *)
(***************************************************************************)
LEMMA SumRec ==
  ASSUME NEW S, IsFiniteSet(S), NEW f, \A x \in S : f[x] \in Int
  PROVE  /\ \A s \in SUBSET S : SumFunctionOnSet(f, s) \in Int
         /\ \A s \in SUBSET S : SumFunctionOnSet(f, s) =
              IF s = {} THEN 0 ELSE f[Pick(s)] + SumFunctionOnSet(f, s \ {Pick(s)})
<1> DEFINE w == [x \in S |-> [a \in Int |-> f[x] + a]]
<1>0. PICK g : FoldTable(S, Int, 0, w, g)
  <2>1. w \in Folder(S, Int)
    BY DEF Folder
  <2> HIDE DEF w
  <2>2. 0 \in Int
    OBVIOUS
  <2> QED BY <2>1, <2>2, FoldExists, Zenon
<1>1. /\ g \in [SUBSET S -> Int]
      /\ \A s \in SUBSET S : g[s] = IF s = {} THEN 0 ELSE w[Pick(s)][g[s \ {Pick(s)}]]
  BY <1>0, Zenon DEF FoldTable
<1>2. ASSUME NEW s \in SUBSET S, s # {}
      PROVE  Pick(s) \in S /\ s \ {Pick(s)} \in SUBSET S
  BY <1>2, PickFact, Zenon
<1>3. \A s \in SUBSET S : g[s] = IF s = {} THEN 0 ELSE f[Pick(s)] + g[s \ {Pick(s)}]
  BY <1>1, <1>2, Zenon
<1>4. ASSUME NEW s \in SUBSET S PROVE SumFunctionOnSet(f, s) = g[s]
  <2> DEFINE Eq(h) == h = [u \in SUBSET s |-> IF u = {} THEN 0
                                              ELSE f[Pick(u)] + h[u \ {Pick(u)}]]
             h0 == CHOOSE h : Eq(h)
             g0 == [u \in SUBSET s |-> g[u]]
  <2>1. SumFunctionOnSet(f, s) = h0[s]
    BY Zenon DEF SumFunctionOnSet, FoldFunctionOnSet, MapThenFoldSet, Pick
  <2>2. ASSUME NEW u \in SUBSET s, u # {} PROVE u \ {Pick(u)} \in SUBSET s
    BY Zenon
  <2>3. Eq(g0)
    <3>1. \A u \in SUBSET s : g[u] = IF u = {} THEN 0 ELSE f[Pick(u)] + g0[u \ {Pick(u)}]
      BY <1>3, <2>2, Zenon
    <3> HIDE DEF g0
    <3>2. g0 = [u \in SUBSET s |-> IF u = {} THEN 0 ELSE f[Pick(u)] + g0[u \ {Pick(u)}]]
      BY <3>1, Zenon DEF g0
    <3> QED BY <3>2, Zenon
  <2>4. Eq(h0)
    <3> HIDE DEF Eq
    <3> QED BY <2>3, Zenon
  <2>5. \A u \in SUBSET s : h0[u] = IF u = {} THEN 0 ELSE f[Pick(u)] + h0[u \ {Pick(u)}]
    <3> HIDE DEF h0
    <3> QED BY <2>4, Zenon
  <2> HIDE DEF h0, Eq
  <2> DEFINE B == {u \in SUBSET s : h0[u] # g[u]}
  <2>6. ASSUME B # {} PROVE FALSE
    <3>1. PICK u \in B : \A v \in B : v \subseteq u => v = u
      <4>1. IsFiniteSet(s) /\ B \in SUBSET SUBSET s
        BY FS_Subset, Zenon
      <4> HIDE DEF B
      <4> QED BY <2>6, <4>1, Smallest, SMT
    <3>2. u # {} /\ u \in SUBSET S
      BY <1>3, <2>5, Zenon
    <3>3. u \ {Pick(u)} \in SUBSET s /\ u \ {Pick(u)} # u
      BY <3>2, PickFact, Zenon
    <3>4. h0[u \ {Pick(u)}] = g[u \ {Pick(u)}]
      BY <3>1, <3>3, Zenon
    <3> QED BY <1>3, <2>5, <3>2, <3>4, Zenon
  <2>7. h0[s] = g[s]
    BY <2>6, Zenon
  <2> QED BY <2>1, <2>7, Zenon
<1>5. \A s \in SUBSET S : SumFunctionOnSet(f, s) \in Int
  BY <1>1, <1>4
<1>6. ASSUME NEW s \in SUBSET S
      PROVE  SumFunctionOnSet(f, s) =
               IF s = {} THEN 0 ELSE f[Pick(s)] + SumFunctionOnSet(f, s \ {Pick(s)})
  <2>1. CASE s = {}
    BY <2>1, <1>3, <1>4, Zenon
  <2>2. CASE s # {}
    <3>1. g[s] = f[Pick(s)] + g[s \ {Pick(s)}] /\ s \ {Pick(s)} \in SUBSET S
      BY <2>2, <1>2, <1>3, Zenon
    <3> QED BY <2>2, <3>1, <1>4, Zenon
  <2> QED BY <2>1, <2>2, Zenon
<1> QED BY <1>5, <1>6, Zenon

(***************************************************************************)
(* Any element of the set may be taken out of its sum.                     *)
(***************************************************************************)
LEMMA SumRemove ==
  ASSUME NEW S, IsFiniteSet(S), NEW f, \A x \in S : f[x] \in Int, NEW x \in S
  PROVE  SumFunctionOnSet(f, S) = f[x] + SumFunctionOnSet(f, S \ {x})
<1> DEFINE Sm(s) == SumFunctionOnSet(f, s)
           B == {s \in SUBSET S : \E e \in s : Sm(s) # f[e] + Sm(s \ {e})}
<1>1. /\ \A s \in SUBSET S : Sm(s) \in Int
      /\ \A s \in SUBSET S : Sm(s) = IF s = {} THEN 0 ELSE f[Pick(s)] + Sm(s \ {Pick(s)})
  BY SumRec, Zenon
<1> HIDE DEF Sm
<1>2. ASSUME B # {} PROVE FALSE
  <2>1. PICK s \in B : \A u \in B : u \subseteq s => u = s
    <3>1. B \in SUBSET SUBSET S
      BY Zenon
    <3> HIDE DEF B
    <3> QED BY <1>2, <3>1, Smallest, SMT
  <2>2. PICK e \in s : Sm(s) # f[e] + Sm(s \ {e})
    BY <2>1, Zenon
  <2>3. s \in SUBSET S /\ s # {}
    BY <2>1, <2>2, Zenon
  <2> DEFINE y == Pick(s)
  <2>4. y \in s /\ Sm(s) = f[y] + Sm(s \ {y})
    BY <2>3, <1>1, PickFact, Zenon
  <2> HIDE DEF y
  <2>5. e # y
    BY <2>2, <2>4, Zenon
  <2>6. s \ {y} \in SUBSET S /\ s \ {e} \in SUBSET S /\ s \ {y} # s /\ s \ {e} # s
        /\ e \in s \ {y} /\ y \in s \ {e} /\ (s \ {y}) \ {e} = (s \ {e}) \ {y}
    BY <2>3, <2>4, <2>5, Zenon
  <2>7. Sm(s \ {y}) = f[e] + Sm((s \ {y}) \ {e})
    BY <2>1, <2>6, Zenon
  <2>8. Sm(s \ {e}) = f[y] + Sm((s \ {y}) \ {e})
    BY <2>1, <2>6, Zenon
  <2>9. (s \ {y}) \ {e} \in SUBSET S /\ e \in S /\ y \in S
    BY <2>3, <2>4, Zenon
  <2>10. f[e] \in Int /\ f[y] \in Int /\ Sm((s \ {y}) \ {e}) \in Int
    BY <2>9, <1>1, Zenon
  <2> DEFINE r == Sm((s \ {y}) \ {e})
  <2>11. f[y] + (f[e] + r) = f[e] + (f[y] + r)
    <3> HIDE DEF r
    <3> QED BY <2>10 DEF r
  <2> QED BY <2>2, <2>4, <2>7, <2>8, <2>11, Zenon
<1>3. S \in SUBSET S /\ ~(S \in B)
  BY <1>2, Zenon
<1> QED BY <1>3, Zenon DEF Sm

(***************************************************************************)
(* A common factor may be taken out of a sum; with k = 1, two functions    *)
(* that agree on the set have the same sum.                                *)
(***************************************************************************)
LEMMA SumScale ==
  ASSUME NEW S, IsFiniteSet(S), NEW f, NEW g, NEW k \in Int, \A x \in S : f[x] \in Int,
         \A x \in S : g[x] = k * f[x]
  PROVE  SumFunctionOnSet(g, S) = k * SumFunctionOnSet(f, S)
<1> DEFINE F(s) == SumFunctionOnSet(f, s)
           G(s) == SumFunctionOnSet(g, s)
           B == {s \in SUBSET S : G(s) # k * F(s)}
<1>0. ASSUME NEW a \in Int PROVE k * a \in Int
  OBVIOUS
<1>1. /\ \A s \in SUBSET S : F(s) \in Int
      /\ \A s \in SUBSET S : F(s) = IF s = {} THEN 0 ELSE f[Pick(s)] + F(s \ {Pick(s)})
  BY SumRec, Zenon
<1>2. /\ \A s \in SUBSET S : G(s) \in Int
      /\ \A s \in SUBSET S : G(s) = IF s = {} THEN 0 ELSE g[Pick(s)] + G(s \ {Pick(s)})
  <2>1. \A x \in S : g[x] \in Int
    BY <1>0, Zenon
  <2> QED BY <2>1, SumRec, Zenon
<1> HIDE DEF F, G
<1>3. ASSUME B # {} PROVE FALSE
  <2>1. PICK s \in B : \A u \in B : u \subseteq s => u = s
    <3>1. B \in SUBSET SUBSET S
      BY Zenon
    <3> HIDE DEF B
    <3> QED BY <1>3, <3>1, Smallest, SMT
  <2>2. s \in SUBSET S /\ G(s) # k * F(s)
    BY <2>1, Zenon
  <2>3. s # {}
    <3>1. F({}) = 0 /\ G({}) = 0 /\ 0 = k * 0
      <4>1. F({}) = 0
        BY <1>1, Zenon
      <4>2. G({}) = 0
        BY <1>2, Zenon
      <4> QED BY <4>1, <4>2, SMT
    <3> QED BY <2>2, <3>1, Zenon
  <2> DEFINE y == Pick(s)
  <2>4. y \in s /\ y \in S /\ F(s) = f[y] + F(s \ {y}) /\ G(s) = g[y] + G(s \ {y})
    BY <2>2, <2>3, <1>1, <1>2, PickFact, Zenon
  <2> HIDE DEF y
  <2>5. s \ {y} \in SUBSET S /\ s \ {y} # s
    BY <2>2, <2>4, Zenon
  <2>6. G(s \ {y}) = k * F(s \ {y})
    BY <2>1, <2>5, Zenon
  <2>7. f[y] \in Int /\ F(s \ {y}) \in Int /\ g[y] = k * f[y]
    BY <2>4, <2>5, <1>1, Zenon
  <2>8. ASSUME NEW a \in Int, NEW b \in Int PROVE k * a + k * b = k * (a + b)
    OBVIOUS
  <2> QED BY <2>2, <2>4, <2>6, <2>7, <2>8, Zenon
<1>4. S \in SUBSET S /\ ~(S \in B)
  BY <1>3, Zenon
<1> QED BY <1>4, Zenon DEF F, G

(***************************************************************************)
(* A sum of natural numbers is a natural number, at least each of them.    *)
(***************************************************************************)
LEMMA SumNat ==
  ASSUME NEW S, IsFiniteSet(S), NEW f, \A x \in S : f[x] \in Nat
  PROVE  /\ SumFunctionOnSet(f, S) \in Nat
         /\ \A x \in S : f[x] <= SumFunctionOnSet(f, S)
<1> DEFINE F(s) == SumFunctionOnSet(f, s)
           B == {s \in SUBSET S : ~(F(s) \in Nat)}
<1>0. \A x \in S : f[x] \in Int
  OBVIOUS
<1>1. \A s \in SUBSET S : F(s) = IF s = {} THEN 0 ELSE f[Pick(s)] + F(s \ {Pick(s)})
  <2>1. \A s \in SUBSET S : SumFunctionOnSet(f, s) =
          IF s = {} THEN 0 ELSE f[Pick(s)] + SumFunctionOnSet(f, s \ {Pick(s)})
    BY <1>0, SumRec, Zenon
  <2> QED BY <2>1, Zenon
<1>2. \A x \in S : F(S) = f[x] + F(S \ {x})
  BY <1>0, SumRemove, Zenon
<1> HIDE DEF F
<1>3. ASSUME B # {} PROVE FALSE
  <2>1. PICK s \in B : \A u \in B : u \subseteq s => u = s
    <3>1. B \in SUBSET SUBSET S
      BY Zenon
    <3> HIDE DEF B
    <3> QED BY <1>3, <3>1, Smallest, SMT
  <2>2. s \in SUBSET S /\ ~(F(s) \in Nat)
    BY <2>1, Zenon
  <2>3. s # {}
    <3>1. F({}) = 0 /\ 0 \in Nat
      BY <1>1, Zenon
    <3> QED BY <2>2, <3>1, Zenon
  <2>4. Pick(s) \in S /\ F(s) = f[Pick(s)] + F(s \ {Pick(s)})
        /\ s \ {Pick(s)} \in SUBSET S /\ s \ {Pick(s)} # s
    BY <2>2, <2>3, <1>1, PickFact, Zenon
  <2>5. F(s \ {Pick(s)}) \in Nat
    BY <2>1, <2>4, Zenon
  <2>6. f[Pick(s)] \in Nat
    BY <2>4, Zenon
  <2> QED BY <2>2, <2>4, <2>5, <2>6
<1>4. \A s \in SUBSET S : F(s) \in Nat
  BY <1>3, Zenon
<1>5. ASSUME NEW x \in S PROVE f[x] <= F(S)
  <2>1. f[x] \in Nat /\ F(S \ {x}) \in Nat /\ F(S) = f[x] + F(S \ {x})
    BY <1>2, <1>4, Zenon
  <2> QED BY <2>1
<1>6. F(S) \in Nat
  BY <1>4, Zenon
<1> QED BY <1>5, <1>6, Zenon DEF F

\* f has integers on S; g is f but for x.
Integral(f, S)      == \A y \in S : f[y] \in Int
SameBut(f, g, S, x) == \A y \in S \ {x} : g[y] = f[y]

(***************************************************************************)
(* Where one value changes, the sum changes as much.                       *)
(***************************************************************************)
LEMMA SumUpdate ==
  ASSUME NEW S, IsFiniteSet(S), NEW f, NEW g, NEW x \in S,
         Integral(f, S), Integral(g, S), SameBut(f, g, S, x)
  PROVE  SumFunctionOnSet(g, S) = SumFunctionOnSet(f, S) - f[x] + g[x]
<1>0. /\ \A y \in S : f[y] \in Int
      /\ \A y \in S : g[y] \in Int
      /\ \A y \in S \ {x} : g[y] = f[y]
  BY Zenon DEF Integral, SameBut
<1> DEFINE R == S \ {x}
<1>1. IsFiniteSet(R) /\ (\A y \in R : f[y] \in Int) /\ \A y \in R : g[y] = 1 * f[y]
  BY <1>0, FS_Subset
<1>2. SumFunctionOnSet(g, R) = 1 * SumFunctionOnSet(f, R)
  <2>1. 1 \in Int
    OBVIOUS
  <2> HIDE DEF R
  <2> QED BY <1>1, <2>1, SumScale, Zenon
<1>3. SumFunctionOnSet(f, R) \in Int
  <2>1. \A s \in SUBSET S : SumFunctionOnSet(f, s) \in Int
    BY <1>0, SumRec, Zenon
  <2> QED BY <2>1, Zenon
<1>4. SumFunctionOnSet(f, S) = f[x] + SumFunctionOnSet(f, R)
  BY <1>0, SumRemove, Zenon
<1>5. SumFunctionOnSet(g, S) = g[x] + SumFunctionOnSet(g, R)
  BY <1>0, SumRemove, Zenon
<1>6. f[x] \in Int /\ g[x] \in Int
  BY <1>0, Zenon
<1> DEFINE A == SumFunctionOnSet(f, R)  B == SumFunctionOnSet(g, R)
<1> HIDE DEF A, B
<1>7. A \in Int /\ B = A /\ SumFunctionOnSet(f, S) = f[x] + A /\ SumFunctionOnSet(g, S) = g[x] + B
  <2>1. A \in Int /\ B = 1 * A
    BY <1>2, <1>3, Zenon DEF A, B
  <2>2. B = A
    BY <2>1
  <2> QED BY <1>4, <1>5, <2>1, <2>2, Zenon DEF A, B
<1> QED BY <1>6, <1>7
=============================================================================
