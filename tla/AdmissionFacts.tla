---------------------------- MODULE AdmissionFacts ----------------------------
(***************************************************************************)
(* What one call of admission_control does, for every word size, and the   *)
(* laws of the exact sum of C/P it is compared with.                       *)
(***************************************************************************)
EXTENDS Admission, DataFacts

(***************************************************************************)
(* A word that does not wrap keeps its value.                              *)
(***************************************************************************)
LEMMA ModSmall == ASSUME NEW x \in Nat, NEW m \in Nat \ {0}, x < m
                  PROVE  x % m = x
  BY SMT

(***************************************************************************)
(* A product reduced to a word is a natural number below the word size.    *)
(***************************************************************************)
LEMMA ModNat == ASSUME NEW x \in Nat, NEW m \in Nat \ {0}
                PROVE  x % m \in Nat /\ x % m < m
  BY SMT

(***************************************************************************)
(* The products of admission_control are natural numbers.                  *)
(***************************************************************************)
LEMMA ProdNat == ASSUME NEW x \in Nat, NEW y \in Nat PROVE x * y \in Nat
  BY SMT

(***************************************************************************)
(* A factor does not lower a product, nor disturb a comparison.            *)
(***************************************************************************)
LEMMA ScaleLeq == ASSUME NEW a \in Nat, NEW b \in Nat, NEW k \in Nat, a <= b
                  PROVE  a * k <= b * k
  BY SMT

(***************************************************************************)
(* One call maps naturals to naturals.                                     *)
(***************************************************************************)
LEMMA CallType ==
  ASSUME NEW n \in Nat, NEW d \in Nat, NEW P \in Nat, NEW C \in Nat, NEW flag
  PROVE  /\ admission_control(n, d, P, C, flag).n \in Nat
         /\ admission_control(n, d, P, C, flag).d \in Nat
<1>1. Scaled(n, P) \in Nat /\ Share(d, C) \in Nat /\ CurrDen(d, P) \in Nat
  BY ProdNat, ModNat, WidthAssumption, Zenon DEF Scaled, Share, CurrDen, ULong
<1>2. CurrN(n, d, P, C) \in Nat
  BY <1>1, ModNat, WidthAssumption DEF CurrN, ULong
<1>3. ReleaseN(n, d, P, C) \in Nat /\ ReleaseD(n, d, P, C) \in Nat
  BY <1>1 DEF ReleaseN, ReleaseD
<1>4. AdmitN(n, d, P, C) \in Nat /\ AdmitD(n, d, P, C) \in Nat
  BY <1>1, <1>2, Zenon DEF AdmitN, AdmitD
<1> QED BY <1>3, <1>4, Zenon DEF admission_control

(***************************************************************************)
(* In range, the words of one call hold the exact products.                *)
(***************************************************************************)
LEMMA Exact ==
  ASSUME NEW n \in Nat, NEW d \in Nat, NEW P \in Nat, NEW C \in Nat,
         InRange(n, d, P, C)
  PROVE  /\ Scaled(n, P) = n * P /\ Share(d, C) = C * d
         /\ CurrDen(d, P) = d * P /\ CurrN(n, d, P, C) = n * P + C * d
         /\ Fits(n, d, P, C) <=> IF n = 0 THEN 1000 * C <= 693 * P
                                 ELSE 1000 * (n * P + C * d) <= 693 * (d * P)
<1> DEFINE np == n * P
           cd == C * d
           dp == d * P
<1>1. np \in Nat /\ cd \in Nat /\ dp \in Nat
  BY ProdNat, Zenon
<1>2. 1000 * C < UINT /\ 693 * P < UINT /\ 1000 * (np + cd) < ULONG /\ 693 * dp < ULONG
  BY DEF InRange
<1> HIDE DEF np, cd, dp
<1>a. \A x \in Nat, m \in Nat \ {0} : x < m => x % m = x
  BY ModSmall, Zenon
<1>b. np < ULONG /\ cd < ULONG /\ dp < ULONG /\ np + cd < ULONG
  BY <1>1, <1>2, WidthAssumption
<1>3. np % ULONG = np /\ cd % ULONG = cd /\ dp % ULONG = dp
      /\ (np + cd) % ULONG = np + cd
  BY <1>1, <1>a, <1>b, WidthAssumption
<1>4. /\ (np + cd) * 1000 = 1000 * (np + cd)
      /\ (1000 * (np + cd)) % ULONG = 1000 * (np + cd)
      /\ (693 * dp) % ULONG = 693 * dp
      /\ C * 1000 = 1000 * C
      /\ (1000 * C) % UINT = 1000 * C /\ (693 * P) % UINT = 693 * P
  <2>1. /\ 1000 * (np + cd) \in Nat /\ 693 * dp \in Nat /\ 1000 * C \in Nat
        /\ 693 * P \in Nat /\ (np + cd) * 1000 = 1000 * (np + cd)
        /\ C * 1000 = 1000 * C
    BY <1>1
  <2> DEFINE a == 1000 * (np + cd)
             b == 693 * dp
             c == 1000 * C
             e == 693 * P
  <2>2. a \in Nat /\ a < ULONG /\ b \in Nat /\ b < ULONG
        /\ c \in Nat /\ c < UINT /\ e \in Nat /\ e < UINT
    BY <2>1, <1>2
  <2> HIDE DEF a, b, c, e
  <2>3. a % ULONG = a /\ b % ULONG = b /\ c % UINT = c /\ e % UINT = e
    BY <2>2, <1>a, WidthAssumption, Zenon
  <2> QED BY <2>1, <2>3 DEF a, b, c, e
<1>5. Scaled(n, P) = np /\ Share(d, C) = cd /\ CurrDen(d, P) = dp
  BY <1>3, Zenon DEF Scaled, Share, CurrDen, ULong, np, cd, dp
<1>6. CurrN(n, d, P, C) = np + cd
  BY <1>5, <1>3, Zenon DEF CurrN, ULong
<1>7. Fits(n, d, P, C) <=> IF n = 0 THEN 1000 * C <= 693 * P
                           ELSE 1000 * (np + cd) <= 693 * dp
  <2>1. CASE n = 0
    BY <2>1, <1>4 DEF Fits, UInt
  <2>2. CASE n # 0
    <3>1. Fits(n, d, P, C) <=> ((np + cd) * 1000) % ULONG <= (693 * dp) % ULONG
      BY <2>2, <1>5, <1>6 DEF Fits, ULong
    <3> QED BY <3>1, <2>2, <1>4
  <2> QED BY <2>1, <2>2, Zenon
<1> QED BY <1>5, <1>6, <1>7, Zenon DEF np, cd, dp

(***************************************************************************)
(* In range, one call keeps the recorded fraction at or below 693/1000.    *)
(***************************************************************************)
LEMMA CallBound ==
  ASSUME NEW n \in Nat, NEW d \in Nat, NEW P \in Nat, NEW C \in Nat, NEW flag,
         InRange(n, d, P, C), 1000 * n <= 693 * d
  PROVE  LET r == admission_control(n, d, P, C, flag)
         IN  1000 * r.n <= 693 * r.d
<1> DEFINE np == n * P
           cd == C * d
           dp == d * P
<1>1. np \in Nat /\ cd \in Nat /\ dp \in Nat
  BY ProdNat
<1>2. /\ Scaled(n, P) = np /\ Share(d, C) = cd
      /\ CurrDen(d, P) = dp /\ CurrN(n, d, P, C) = np + cd
      /\ Fits(n, d, P, C) <=> IF n = 0 THEN 1000 * C <= 693 * P
                              ELSE 1000 * (np + cd) <= 693 * dp
  BY Exact
<1>3. 1000 * np <= 693 * dp
  <2>1. (1000 * n) * P <= (693 * d) * P
    BY ScaleLeq
  <2>2. (1000 * n) * P = 1000 * (n * P) /\ (693 * d) * P = 693 * (d * P)
    BY SMT
  <2> QED BY <2>1, <2>2
<1> HIDE DEF np, cd, dp
<1>4. 1000 * ReleaseN(n, d, P, C) <= 693 * ReleaseD(n, d, P, C)
  BY <1>1, <1>2, <1>3 DEF ReleaseN, ReleaseD
<1>5. ASSUME Fits(n, d, P, C)
      PROVE  1000 * AdmitN(n, d, P, C) <= 693 * AdmitD(n, d, P, C)
  BY <1>1, <1>2, <1>5 DEF AdmitN, AdmitD
<1> QED BY <1>4, <1>5 DEF admission_control

-----------------------------------------------------------------------------
\* The periods of the tasks in S are positive.
Positive(P, S) == \A x \in S : P[x] \in Nat \ {0}
Natural(C, S)  == \A x \in S : C[x] \in Nat
Agree(f, g, S) == \A x \in S : f[x] = g[x]

(***************************************************************************)
(* Positive numbers have a positive product.                               *)
(***************************************************************************)
LEMMA PosMul == ASSUME NEW a \in Nat \ {0}, NEW b \in Nat \ {0} PROVE a * b \in Nat \ {0}
  BY SMT

(***************************************************************************)
(* Factors may change places.                                              *)
(***************************************************************************)
LEMMA MulSwap == ASSUME NEW a \in Nat, NEW b \in Nat, NEW c \in Nat
                 PROVE  a * (b * c) = b * (a * c)
  BY SMT

(***************************************************************************)
(* Prod multiplies the value at the element it takes next with the product *)
(* over the rest.                                                          *)
(***************************************************************************)
LEMMA ProdRec ==
  ASSUME NEW S, IsFiniteSet(S), NEW f, Positive(f, S)
  PROVE  /\ \A s \in SUBSET S : Prod(f, s) \in Nat \ {0}
         /\ \A s \in SUBSET S : Prod(f, s) =
              IF s = {} THEN 1 ELSE f[Pick(s)] * Prod(f, s \ {Pick(s)})
<1> DEFINE Val == Nat \ {0}
           w == [x \in S |-> [a \in Val |-> f[x] * a]]
<1>0. PICK g : FoldTable(S, Val, 1, w, g)
  <2>1. \A x \in S, a \in Val : f[x] * a \in Val
    BY PosMul, Zenon DEF Positive
  <2>2. w \in Folder(S, Val)
    <3> HIDE DEF Val
    <3> QED BY <2>1, Zenon DEF Folder
  <2>3. 1 \in Val
    OBVIOUS
  <2> HIDE DEF w, Val
  <2> QED BY <2>2, <2>3, FoldExists, Zenon
<1>1. /\ g \in [SUBSET S -> Val]
      /\ \A s \in SUBSET S : g[s] = IF s = {} THEN 1 ELSE w[Pick(s)][g[s \ {Pick(s)}]]
  BY <1>0, Zenon DEF FoldTable
<1> HIDE DEF Val
<1>2. ASSUME NEW s \in SUBSET S, s # {}
      PROVE  Pick(s) \in S /\ s \ {Pick(s)} \in SUBSET S
  BY <1>2, PickFact, Zenon
<1>3. \A s \in SUBSET S : g[s] = IF s = {} THEN 1 ELSE f[Pick(s)] * g[s \ {Pick(s)}]
  BY <1>1, <1>2, Zenon
<1>4. ASSUME NEW s \in SUBSET S PROVE Prod(f, s) = g[s]
  <2> DEFINE Eq(h) == h = [u \in SUBSET s |-> IF u = {} THEN 1
                                              ELSE f[Pick(u)] * h[u \ {Pick(u)}]]
             h0 == CHOOSE h : Eq(h)
             g0 == [u \in SUBSET s |-> g[u]]
  <2>1. Prod(f, s) = h0[s]
    BY Zenon DEF Prod, FoldFunctionOnSet, MapThenFoldSet, Pick
  <2>2. ASSUME NEW u \in SUBSET s, u # {} PROVE u \ {Pick(u)} \in SUBSET s
    BY Zenon
  <2>3. Eq(g0)
    <3>1. \A u \in SUBSET s : g[u] = IF u = {} THEN 1 ELSE f[Pick(u)] * g0[u \ {Pick(u)}]
      BY <1>3, <2>2, Zenon
    <3> HIDE DEF g0
    <3>2. g0 = [u \in SUBSET s |-> IF u = {} THEN 1 ELSE f[Pick(u)] * g0[u \ {Pick(u)}]]
      BY <3>1, Zenon DEF g0
    <3> QED BY <3>2, Zenon
  <2>4. Eq(h0)
    <3> HIDE DEF Eq
    <3> QED BY <2>3, Zenon
  <2>5. \A u \in SUBSET s : h0[u] = IF u = {} THEN 1 ELSE f[Pick(u)] * h0[u \ {Pick(u)}]
    <3> HIDE DEF h0
    <3> QED BY <2>4, Zenon
  <2> HIDE DEF h0, Eq
  <2> DEFINE B == {u \in SUBSET s : h0[u] # g[u]}
  <2>6. ASSUME B # {} PROVE FALSE
    <3>1. PICK u \in B : \A v \in B : v \subseteq u => v = u
      <4>1. IsFiniteSet(s) /\ B \in SUBSET SUBSET s
        BY FS_Subset, Zenon
      <4> HIDE DEF B
      <4> QED BY <2>6, <4>1, Smallest, SMT
    <3>2. u # {} /\ u \in SUBSET S
      BY <1>3, <2>5, Zenon
    <3>3. u \ {Pick(u)} \in SUBSET s /\ u \ {Pick(u)} # u
      BY <3>2, PickFact, Zenon
    <3>4. h0[u \ {Pick(u)}] = g[u \ {Pick(u)}]
      BY <3>1, <3>3, Zenon
    <3> QED BY <1>3, <2>5, <3>2, <3>4, Zenon
  <2>7. h0[s] = g[s]
    BY <2>6, Zenon
  <2> QED BY <2>1, <2>7, Zenon
<1>5. \A s \in SUBSET S : Prod(f, s) \in Val
  BY <1>1, <1>4, Zenon
<1>6. ASSUME NEW s \in SUBSET S
      PROVE  Prod(f, s) = IF s = {} THEN 1 ELSE f[Pick(s)] * Prod(f, s \ {Pick(s)})
  <2>1. CASE s = {}
    BY <2>1, <1>3, <1>4, Zenon
  <2>2. CASE s # {}
    <3>1. g[s] = f[Pick(s)] * g[s \ {Pick(s)}] /\ s \ {Pick(s)} \in SUBSET S
      BY <2>2, <1>2, <1>3, Zenon
    <3> QED BY <2>2, <3>1, <1>4, Zenon
  <2> QED BY <2>1, <2>2, Zenon
<1> QED BY <1>5, <1>6, Zenon DEF Val

(***************************************************************************)
(* Any element of the set may be taken out of its product.                 *)
(***************************************************************************)
LEMMA ProdRemove ==
  ASSUME NEW S, IsFiniteSet(S), NEW f, Positive(f, S)
  PROVE  \A s \in SUBSET S, x \in S : x \in s => Prod(f, s) = f[x] * Prod(f, s \ {x})
<1> DEFINE Pr(s) == Prod(f, s)
           B == {s \in SUBSET S : \E e \in s : Pr(s) # f[e] * Pr(s \ {e})}
<1>1. /\ \A s \in SUBSET S : Pr(s) \in Nat \ {0}
      /\ \A s \in SUBSET S : Pr(s) = IF s = {} THEN 1 ELSE f[Pick(s)] * Pr(s \ {Pick(s)})
  BY ProdRec, Zenon
<1> HIDE DEF Pr
<1>2. ASSUME B # {} PROVE FALSE
  <2>1. PICK s \in B : \A u \in B : u \subseteq s => u = s
    <3>1. B \in SUBSET SUBSET S
      BY Zenon
    <3> HIDE DEF B
    <3> QED BY <1>2, <3>1, Smallest, SMT
  <2>2. PICK e \in s : Pr(s) # f[e] * Pr(s \ {e})
    BY <2>1, Zenon
  <2>3. s \in SUBSET S /\ s # {}
    BY <2>1, <2>2, Zenon
  <2> DEFINE y == Pick(s)
  <2>4. y \in s /\ Pr(s) = f[y] * Pr(s \ {y})
    BY <2>3, <1>1, PickFact, Zenon
  <2> HIDE DEF y
  <2>5. e # y
    BY <2>2, <2>4, Zenon
  <2>6. s \ {y} \in SUBSET S /\ s \ {e} \in SUBSET S /\ s \ {y} # s /\ s \ {e} # s
        /\ e \in s \ {y} /\ y \in s \ {e} /\ (s \ {y}) \ {e} = (s \ {e}) \ {y}
    BY <2>3, <2>4, <2>5, Zenon
  <2>7. Pr(s \ {y}) = f[e] * Pr((s \ {y}) \ {e})
    BY <2>1, <2>6, Zenon
  <2>8. Pr(s \ {e}) = f[y] * Pr((s \ {y}) \ {e})
    BY <2>1, <2>6, Zenon
  <2>9. (s \ {y}) \ {e} \in SUBSET S /\ e \in S /\ y \in S
    BY <2>3, <2>4, Zenon
  <2>10. f[e] \in Nat /\ f[y] \in Nat /\ Pr((s \ {y}) \ {e}) \in Nat
    BY <2>9, <1>1, Zenon DEF Positive
  <2> DEFINE r == Pr((s \ {y}) \ {e})
  <2>11. f[y] * (f[e] * r) = f[e] * (f[y] * r)
    BY <2>10, MulSwap, Zenon
  <2> QED BY <2>2, <2>4, <2>7, <2>8, <2>11, Zenon
<1>3. \A s \in SUBSET S : ~(s \in B)
  BY <1>2, Zenon
<1> QED BY <1>3, Zenon DEF Pr

(***************************************************************************)
(* Only the values on the set count.                                       *)
(***************************************************************************)
LEMMA ProdAgree ==
  ASSUME NEW S, IsFiniteSet(S), NEW f, NEW h, Positive(f, S), Agree(h, f, S)
  PROVE  \A s \in SUBSET S : Prod(h, s) = Prod(f, s)
<1> DEFINE F(s) == Prod(f, s)
           H(s) == Prod(h, s)
           B == {s \in SUBSET S : H(s) # F(s)}
<1>1. \A s \in SUBSET S : F(s) = IF s = {} THEN 1 ELSE f[Pick(s)] * F(s \ {Pick(s)})
  BY ProdRec, Zenon
<1>2. \A s \in SUBSET S : H(s) = IF s = {} THEN 1 ELSE h[Pick(s)] * H(s \ {Pick(s)})
  <2>1. Positive(h, S)
    BY Zenon DEF Positive, Agree
  <2> QED BY <2>1, ProdRec, Zenon
<1> HIDE DEF F, H
<1>3. ASSUME B # {} PROVE FALSE
  <2>1. PICK s \in B : \A u \in B : u \subseteq s => u = s
    <3>1. B \in SUBSET SUBSET S
      BY Zenon
    <3> HIDE DEF B
    <3> QED BY <1>3, <3>1, Smallest, SMT
  <2>2. s \in SUBSET S /\ H(s) # F(s)
    BY <2>1, Zenon
  <2>3. s # {}
    BY <2>2, <1>1, <1>2, Zenon
  <2>4. Pick(s) \in S /\ s \ {Pick(s)} \in SUBSET S /\ s \ {Pick(s)} # s
    BY <2>2, <2>3, PickFact, Zenon
  <2>5. H(s \ {Pick(s)}) = F(s \ {Pick(s)})
    BY <2>1, <2>4, Zenon
  <2>6. F(s) = f[Pick(s)] * F(s \ {Pick(s)}) /\ H(s) = h[Pick(s)] * H(s \ {Pick(s)})
    BY <2>2, <2>3, <1>1, <1>2, Zenon
  <2> QED BY <2>2, <2>4, <2>5, <2>6, Zenon DEF Agree
<1>4. \A s \in SUBSET S : ~(s \in B)
  BY <1>3, Zenon
<1> QED BY <1>4, Zenon DEF F, H

(***************************************************************************)
(* The sum of no tasks is 0/1; the sum over any finite set is a fraction.  *)
(***************************************************************************)
LEMMA UseType ==
  ASSUME NEW S, IsFiniteSet(S), NEW P, NEW C, Positive(P, S), Natural(C, S)
  PROVE  /\ Prod(P, S) \in Nat \ {0} /\ Sum(P, C, S) \in Nat
         /\ S = {} => Prod(P, S) = 1 /\ Sum(P, C, S) = 0
<1> DEFINE f == [p \in S |-> C[p] * Prod(P, S \ {p})]
<1>1. \A s \in SUBSET S : Prod(P, s) \in Nat \ {0}
  BY ProdRec, Zenon
<1>2. \A p \in S : f[p] \in Nat
  <2> SUFFICES ASSUME NEW p \in S PROVE C[p] * Prod(P, S \ {p}) \in Nat
    BY Zenon
  <2>1. C[p] \in Nat /\ Prod(P, S \ {p}) \in Nat
    BY <1>1, Zenon DEF Natural
  <2> QED BY <2>1, ProdNat, Zenon
<1>3. Sum(P, C, S) = SumFunctionOnSet(f, S)
  BY Zenon DEF Sum
<1> HIDE DEF f
<1>4. SumFunctionOnSet(f, S) \in Nat
  BY <1>2, SumNat, Zenon
<1>5. S = {} => Prod(P, S) = 1
  BY ProdRec, Zenon
<1>6. S = {} => SumFunctionOnSet(f, S) = 0
  <2>1. \A p \in S : f[p] \in Int
    BY <1>2
  <2> QED BY <2>1, SumRec, Zenon
<1> QED BY <1>1, <1>3, <1>4, <1>5, <1>6, Zenon

(***************************************************************************)
(* A task more: the sum over S and x is C/P of x plus the sum over S, with *)
(* the denominators brought to a common one.                               *)
(***************************************************************************)
LEMMA UseAdd ==
  ASSUME NEW S, IsFiniteSet(S), NEW x, x \notin S, NEW P, NEW C, NEW Q, NEW D,
         Positive(P, S \cup {x}), Natural(C, S \cup {x}),
         Agree(Q, P, S), Agree(D, C, S)
  PROVE  /\ Prod(P, S \cup {x}) = P[x] * Prod(Q, S)
         /\ Sum(P, C, S \cup {x}) = C[x] * Prod(Q, S) + P[x] * Sum(Q, D, S)
<1> DEFINE T == S \cup {x}
           f == [p \in T |-> C[p] * Prod(P, T \ {p})]
           g == [p \in S |-> D[p] * Prod(Q, S \ {p})]
<1>1. IsFiniteSet(T) /\ x \in T /\ T \ {x} = S /\ S \in SUBSET T
  BY FS_AddElement, Zenon
<1>2. Positive(P, S) /\ Positive(Q, S) /\ Natural(D, S)
  BY Zenon DEF Positive, Natural, Agree
<1>3. \A s \in SUBSET S : Prod(Q, s) = Prod(P, s) /\ Prod(Q, s) \in Nat \ {0}
  <2>1. \A s \in SUBSET S : Prod(Q, s) \in Nat \ {0}
    BY <1>2, ProdRec, Zenon
  <2>2. \A s \in SUBSET S : Prod(Q, s) = Prod(P, s)
    BY <1>2, ProdAgree
  <2> QED BY <2>1, <2>2, Zenon
<1>4. \A s \in SUBSET T : x \in s => Prod(P, s) = P[x] * Prod(P, s \ {x})
  <2>1. Positive(P, T)
    BY Zenon
  <2> HIDE DEF T
  <2>2. \A s \in SUBSET T, y \in T : y \in s => Prod(P, s) = P[y] * Prod(P, s \ {y})
    BY <1>1, <2>1, ProdRemove, SMT
  <2> QED BY <2>2, <1>1, Zenon
<1>5. P[x] \in Nat /\ C[x] \in Nat
  BY Zenon DEF Positive, Natural
<1>6. \A p \in S : g[p] \in Nat
  <2> SUFFICES ASSUME NEW p \in S PROVE D[p] * Prod(Q, S \ {p}) \in Nat
    BY Zenon
  <2>1. D[p] \in Nat /\ Prod(Q, S \ {p}) \in Nat
    BY <1>2, <1>3, Zenon DEF Natural
  <2> QED BY <2>1, ProdNat, Zenon
<1>7. \A p \in S : f[p] = P[x] * g[p]
  <2> SUFFICES ASSUME NEW p \in S
               PROVE  C[p] * Prod(P, T \ {p}) = P[x] * (D[p] * Prod(Q, S \ {p}))
    BY Zenon
  <2>1. x \in T \ {p} /\ T \ {p} \in SUBSET T /\ (T \ {p}) \ {x} = S \ {p}
    BY <1>1, Zenon
  <2>2. Prod(P, T \ {p}) = P[x] * Prod(Q, S \ {p})
    BY <2>1, <1>3, <1>4, Zenon
  <2>3. C[p] = D[p] /\ D[p] \in Nat /\ Prod(Q, S \ {p}) \in Nat
    BY <1>2, <1>3, Zenon DEF Natural, Agree
  <2>4. D[p] * (P[x] * Prod(Q, S \ {p})) = P[x] * (D[p] * Prod(Q, S \ {p}))
    BY <2>3, <1>5, MulSwap, Zenon
  <2> QED BY <2>2, <2>3, <2>4, Zenon
<1>8. f[x] = C[x] * Prod(Q, S)
  BY <1>1, <1>3, Zenon
<1>9. Sum(P, C, T) = SumFunctionOnSet(f, T) /\ Sum(Q, D, S) = SumFunctionOnSet(g, S)
  BY Zenon DEF Sum
<1>10. Prod(P, T) = P[x] * Prod(Q, S)
  BY <1>1, <1>3, <1>4, Zenon
<1> HIDE DEF T, f, g
<1>11. \A p \in T : f[p] \in Int
  <2>1. \A p \in S : f[p] \in Int
    <3> SUFFICES ASSUME NEW p \in S PROVE P[x] * g[p] \in Int
      BY <1>7, Zenon
    <3> QED BY <1>5, <1>6
  <2>2. f[x] \in Int
    <3>1. Prod(Q, S) \in Nat
      BY <1>3, Zenon
    <3> QED BY <1>5, <1>8, <3>1
  <2> QED BY <2>1, <2>2, Zenon DEF T
<1>12. SumFunctionOnSet(f, T) = f[x] + SumFunctionOnSet(f, S)
  BY <1>1, <1>11, SumRemove, Zenon
<1>13. SumFunctionOnSet(f, S) = P[x] * SumFunctionOnSet(g, S)
  <2>1. (\A p \in S : g[p] \in Int) /\ P[x] \in Int
    BY <1>5, <1>6
  <2> QED BY <2>1, <1>7, SumScale, Zenon
<1> QED BY <1>8, <1>9, <1>10, <1>12, <1>13, Zenon DEF T

-----------------------------------------------------------------------------
(***************************************************************************)
(* n/d is the sum v/u, also when nothing has been recorded yet.            *)
(***************************************************************************)
Records(n, d, v, u) == n * u = d * v /\ (d = 0 => v = 0)

(***************************************************************************)
(* A product is zero only if a factor is.                                  *)
(***************************************************************************)
LEMMA NoZeroDivisors == ASSUME NEW a \in Nat, NEW b \in Nat, a * b = 0 PROVE a = 0 \/ b = 0
  BY SMT

(***************************************************************************)
(* A positive factor may be cancelled from both sides of a comparison.     *)
(***************************************************************************)
LEMMA Cancel == ASSUME NEW a \in Int, NEW b \in Int, NEW k \in Nat \ {0}
                PROVE  (k * a <= k * b) <=> (a <= b)
<1>1. ASSUME a <= b PROVE k * a <= k * b
  BY <1>1, SMT
<1>2. ASSUME b < a PROVE k * b < k * a
  BY <1>2, SMT
<1> QED BY <1>1, <1>2

(***************************************************************************)
(* An exact account with numerator 0 stands for no load, and one with      *)
(* another numerator has a denominator.                                    *)
(***************************************************************************)
LEMMA RecordsZero ==
  ASSUME NEW n \in Nat, NEW d \in Nat, NEW v \in Nat, NEW u \in Nat \ {0}, Records(n, d, v, u)
  PROVE  (n = 0 => v = 0) /\ (n # 0 => d # 0)
<1>1. ASSUME n = 0 PROVE v = 0
  <2>1. d * v = 0
    BY <1>1 DEF Records
  <2>2. d = 0 \/ v = 0
    BY <2>1, NoZeroDivisors, Zenon
  <2> QED BY <2>2, Zenon DEF Records
<1>2. ASSUME n # 0, d = 0 PROVE FALSE
  <2>1. n * u = 0
    BY <1>2 DEF Records
  <2>2. n = 0 \/ u = 0
    BY <2>1, NoZeroDivisors, Zenon
  <2> QED BY <1>2, <2>2, Zenon
<1> QED BY <1>1, <1>2, Zenon

(***************************************************************************)
(* In range, admitting a task adds exactly its C/P to the account.         *)
(***************************************************************************)
LEMMA AdmitExact ==
  ASSUME NEW n \in Nat, NEW d \in Nat, NEW P \in Nat \ {0}, NEW C \in Nat,
         NEW v \in Nat, NEW u \in Nat \ {0}, Records(n, d, v, u),
         InRange(n, d, P, C)
  PROVE  Records(AdmitN(n, d, P, C), AdmitD(n, d, P, C), C * u + P * v, P * u)
<1>1. CASE n = 0
  <2>1. v = 0
    BY <1>1, RecordsZero, Zenon
  <2>2. C * (P * u) = P * (C * u + P * v)
    BY <2>1
  <2> QED BY <1>1, <2>2, Zenon DEF AdmitN, AdmitD, Records
<1>2. CASE n # 0
  <2>1. d # 0 /\ n * u = d * v
    BY <1>2, RecordsZero, Zenon DEF Records
  <2>2. AdmitN(n, d, P, C) = n * P + C * d /\ AdmitD(n, d, P, C) = d * P
    BY <1>2, Exact DEF AdmitN, AdmitD
  <2>3. (n * P + C * d) * (P * u) = (P * P) * (n * u) + (C * d) * (P * u)
    BY SMT
  <2>4. (d * P) * (C * u + P * v) = (P * P) * (d * v) + (C * d) * (P * u)
    BY SMT
  <2>5. d * P # 0
    BY <2>1, NoZeroDivisors, Zenon
  <2> QED BY <2>1, <2>2, <2>3, <2>4, <2>5, Zenon DEF Records
<1> QED BY <1>1, <1>2, Zenon

(***************************************************************************)
(* In range, a release takes exactly its C/P out of the account.           *)
(***************************************************************************)
LEMMA ReleaseExact ==
  ASSUME NEW n \in Nat, NEW d \in Nat, NEW P \in Nat \ {0}, NEW C \in Nat,
         NEW v \in Nat, NEW u \in Nat \ {0}, Records(n, d, C * u + P * v, P * u),
         InRange(n, d, P, C)
  PROVE  Records(ReleaseN(n, d, P, C), ReleaseD(n, d, P, C), v, u)
<1> DEFINE np == n * P
           cd == C * d
           dp == d * P
<1>1. np \in Nat /\ cd \in Nat /\ dp \in Nat
  BY ProdNat, Zenon
<1>2. Scaled(n, P) = np /\ Share(d, C) = cd /\ CurrDen(d, P) = dp
  BY Exact
<1>3. np * u = cd * u + dp * v
  <2>1. n * (P * u) = d * (C * u + P * v)
    BY Zenon DEF Records
  <2>2. n * (P * u) = np * u
    BY SMT
  <2>3. d * (C * u + P * v) = cd * u + dp * v
    BY SMT
  <2> QED BY <2>1, <2>2, <2>3, Zenon
<1>4. ASSUME dp * v = 0 PROVE v = 0
  <2>1. dp = 0 \/ v = 0
    BY <1>1, <1>4, NoZeroDivisors, Zenon
  <2>2. dp = 0 => d = 0
    BY NoZeroDivisors, Zenon
  <2>3. d = 0 => C * u + P * v = 0
    BY Zenon DEF Records
  <2>4. C * u + P * v = 0 => P * v = 0
    <3>1. C * u \in Nat /\ P * v \in Nat
      BY ProdNat, Zenon
    <3> QED BY <3>1
  <2>5. P * v = 0 => v = 0
    BY NoZeroDivisors, Zenon
  <2> QED BY <2>1, <2>2, <2>3, <2>4, <2>5, Zenon
<1>5. dp = 0 => v = 0
  <2>1. dp = 0 => dp * v = 0
    BY <1>1
  <2> QED BY <1>4, <2>1, Zenon
<1> HIDE DEF np, cd, dp
<1>6. CASE np <= cd
  <2>1. np * u <= cd * u
    BY <1>1, <1>6, ScaleLeq, Zenon
  <2>2. cd * u \in Nat /\ dp * v \in Nat
    BY <1>1, ProdNat, Zenon
  <2>3. dp * v = 0
    BY <1>3, <2>1, <2>2
  <2>4. v = 0
    BY <1>4, <2>3, Zenon
  <2>5. 0 * u = d * v
    BY <2>4
  <2> QED BY <1>2, <1>6, <2>4, <2>5, Zenon DEF ReleaseN, ReleaseD, Records
<1>7. CASE ~(np <= cd)
  <2>1. (np - cd) * u = np * u - cd * u
    BY <1>1, SMT
  <2>2. cd * u \in Nat /\ dp * v \in Nat
    BY <1>1, ProdNat
  <2>3. (np - cd) * u = dp * v
    BY <1>3, <2>1, <2>2
  <2>4. ReleaseN(n, d, P, C) = np - cd /\ ReleaseD(n, d, P, C) = dp
    BY <1>2, <1>7, Zenon DEF ReleaseN, ReleaseD
  <2> QED BY <1>5, <2>3, <2>4, Zenon DEF Records
<1> QED BY <1>6, <1>7, Zenon

(***************************************************************************)
(* In range, a request fits exactly when the sum with it is at most        *)
(* 693/1000.                                                               *)
(***************************************************************************)
LEMMA FitsExact ==
  ASSUME NEW n \in Nat, NEW d \in Nat, NEW P \in Nat \ {0}, NEW C \in Nat,
         NEW v \in Nat, NEW u \in Nat \ {0}, Records(n, d, v, u), InRange(n, d, P, C)
  PROVE  Fits(n, d, P, C) <=> 1000 * (C * u + P * v) <= 693 * (P * u)
<1>1. CASE n = 0
  <2>1. v = 0
    BY <1>1, RecordsZero
  <2>2. Fits(n, d, P, C) <=> 1000 * C <= 693 * P
    BY <1>1, Exact
  <2>3. 1000 * (C * u + P * v) = u * (1000 * C) /\ 693 * (P * u) = u * (693 * P)
    BY <2>1
  <2>4. 1000 * C \in Int /\ 693 * P \in Int
    OBVIOUS
  <2>5. (u * (1000 * C) <= u * (693 * P)) <=> (1000 * C <= 693 * P)
    <3> DEFINE a == 1000 * C
               b == 693 * P
    <3>0. a \in Int /\ b \in Int
      BY <2>4, Zenon
    <3> HIDE DEF a, b
    <3>1. (u * a <= u * b) <=> (a <= b)
      BY <3>0, Cancel, Zenon
    <3> QED BY <3>1, Zenon DEF a, b
  <2> QED BY <2>2, <2>3, <2>5, SMT
<1>2. CASE n # 0
  <2>1. d \in Nat \ {0} /\ n * u = d * v
    BY <1>2, RecordsZero, Zenon DEF Records
  <2>2. Fits(n, d, P, C) <=> 1000 * (n * P + C * d) <= 693 * (d * P)
    BY <1>2, Exact
  <2> DEFINE a == 1000 * (n * P + C * d)
             b == 693 * (d * P)
             e == 1000 * (C * u + P * v)
             f == 693 * (P * u)
  <2>3. u * a = 1000 * (P * (n * u)) + 1000 * (C * (d * u)) /\ u * b = d * f
    BY SMT
  <2>4. d * e = 1000 * (P * (d * v)) + 1000 * (C * (d * u))
    BY SMT
  <2>5. u * a = d * e
    BY <2>1, <2>3, <2>4, SMT
  <2>6. a \in Int /\ b \in Int /\ e \in Int /\ f \in Int
    OBVIOUS
  <2>7. u * b = d * f
    BY <2>3, SMT
  <2> HIDE DEF a, b, e, f
  <2>8. (u * a <= u * b) <=> (a <= b)
    BY <2>6, Cancel, Zenon
  <2>9. (d * e <= d * f) <=> (e <= f)
    BY <2>1, <2>6, Cancel, Zenon
  <2>10. (a <= b) <=> (e <= f)
    BY <2>5, <2>7, <2>8, <2>9, Zenon
  <2> QED BY <2>2, <2>10, SMT DEF a, b, e, f
<1> QED BY <1>1, <1>2, Zenon
=============================================================================
