--------------------------- MODULE BillingProofs ---------------------------
(***************************************************************************)
(* Proofs about what a gateway bills and counts: the ledger of ready times *)
(* (ReadyIntervals), the shares of the cost a model has in what is ready   *)
(* next to it, the money of the usage views (BillingLedger), what happens  *)
(* to a settled interval, and the requests the metrics count               *)
(* (GatewayMetrics).  The components are those of GatewayStores.  The sums *)
(* are taken with SumFunctionOnSet; what is needed of them comes first.    *)
(***************************************************************************)
EXTENDS GatewayStores, Sequences, FiniteSetTheorems, TLAPS

(***************************************************************************)
(* Sums.                                                                   *)
(***************************************************************************)

\* The element a fold takes first.
Taken(s) == CHOOSE x \in s : TRUE

\* g is the fold over the subsets of S.
Folded(F, g, s) == IF s = {} THEN 0 ELSE F[Taken(s)] + g[s \ {Taken(s)}]
Solves(F, g, S) == g = [s \in SUBSET S |-> Folded(F, g, s)]

LEMMA SumIsFold ==
  ASSUME NEW F, NEW S
  PROVE  SumFunctionOnSet(F, S) = (CHOOSE g : Solves(F, g, S))[S]
  BY DEF SumFunctionOnSet, FoldFunctionOnSet, MapThenFoldSet, Solves, Folded, Taken

\* What holds of a finite set if it does of every set whose proper subsets all have it.
LEMMA SubsetInduction ==
  ASSUME NEW S, IsFiniteSet(S), NEW G,
         ASSUME NEW T \in SUBSET S, (SUBSET T) \ {T} \subseteq G PROVE T \in G
  PROVE  S \in G
<1> DEFINE Bad == (SUBSET S) \ G
<1>1. SUFFICES ASSUME Bad # {} PROVE FALSE
  OBVIOUS
<1>2. IsWellFoundedOn(StrictSubsetOrdering(S), SUBSET S)
  BY FS_StrictSubsetOrderingWellFounded, FS_FiniteSubsetsOfFinite
<1>3. PICK T \in Bad : \A U \in Bad : <<U, T>> \notin StrictSubsetOrdering(S)
  <2>1. Bad \subseteq SUBSET S
    OBVIOUS
  <2> HIDE DEF Bad
  <2> QED BY <1>1, <1>2, <2>1, WFMin
<1>4. \A U \in (SUBSET T) \ {T} : U \in SUBSET S /\ <<U, T>> \in StrictSubsetOrdering(S)
  BY DEF StrictSubsetOrdering
<1>5. (SUBSET T) \ {T} \subseteq G
  BY <1>3, <1>4
<1> QED BY <1>3, <1>5
\* A fold over more sets gives the same.
LEMMA FoldsAgree ==
  ASSUME NEW F, NEW S, IsFiniteSet(S), NEW U, S \subseteq U, NEW g, NEW h,
         Solves(F, g, S), Solves(F, h, U)
  PROVE  g[S] = h[S]
<1> DEFINE G == {T \in SUBSET S : g[T] = h[T]}
<1>1. ASSUME NEW T \in SUBSET S, (SUBSET T) \ {T} \subseteq G PROVE T \in G
  <2>1. g[T] = Folded(F, g, T)
    BY DEF Solves
  <2>2. h[T] = Folded(F, h, T)
    BY DEF Solves
  <2>3. CASE T = {}
    BY <2>1, <2>2, <2>3 DEF Folded
  <2>4. CASE T # {}
    <3> DEFINE x == Taken(T)
    <3>1. x \in T
      BY <2>4 DEF Taken
    <3> HIDE DEF x
    <3>2. T \ {x} \in (SUBSET T) \ {T}
      BY <3>1
    <3>3. g[T \ {x}] = h[T \ {x}]
      BY <1>1, <3>2
    <3> QED BY <2>1, <2>2, <2>4, <3>3 DEF Folded, x
  <2> QED BY <2>3, <2>4
<1> HIDE DEF G
<1>2. S \in G
  BY <1>1, SubsetInduction
<1> QED BY <1>2 DEF G

\* There is a fold.
LEMMA FoldExists ==
  ASSUME NEW F, NEW S, IsFiniteSet(S)
  PROVE  \E g : Solves(F, g, S)
<1> DEFINE G == {T \in SUBSET S : \E g : Solves(F, g, T)}
           the(T) == CHOOSE g : Solves(F, g, T)
<1>1. ASSUME NEW T \in SUBSET S, (SUBSET T) \ {T} \subseteq G PROVE T \in G
  <2> DEFINE g == [s \in SUBSET T |-> IF s = {} THEN 0
                                      ELSE F[Taken(s)] + the(s \ {Taken(s)})[s \ {Taken(s)}]]
  <2>1. ASSUME NEW s \in (SUBSET T) \ {T} PROVE g[s] = the(s)[s]
    <3>1. Solves(F, the(s), s)
      BY <1>1
    <3>2. the(s)[s] = Folded(F, the(s), s)
      BY <3>1 DEF Solves
    <3>3. CASE s = {}
      BY <3>2, <3>3 DEF Folded
    <3>4. CASE s # {}
      <4> DEFINE r == s \ {Taken(s)}
      <4>1. Taken(s) \in s
        BY <3>4 DEF Taken
      <4>2. r \in (SUBSET T) \ {T} /\ r \subseteq s
        BY <4>1
      <4>3. Solves(F, the(r), r)
        BY <1>1, <4>2
      <4>4. IsFiniteSet(r)
        BY FS_Subset
      <4>5. the(r)[r] = the(s)[r]
        <5> HIDE DEF the, r
        <5> QED BY <3>1, <4>2, <4>3, <4>4, FoldsAgree
      <4>6. g[s] = F[Taken(s)] + the(r)[r]
        BY <3>4
      <4> QED BY <3>2, <3>4, <4>5, <4>6 DEF Folded
    <3> QED BY <3>3, <3>4
  <2>2. ASSUME NEW s \in SUBSET T PROVE g[s] = Folded(F, g, s)
    <3>1. CASE s = {}
      BY <3>1 DEF Folded
    <3>2. CASE s # {}
      <4> DEFINE r == s \ {Taken(s)}
      <4>1. Taken(s) \in s
        BY <3>2 DEF Taken
      <4>2. r \in (SUBSET T) \ {T}
        BY <4>1
      <4>3. g[r] = the(r)[r]
        BY <2>1, <4>2
      <4>4. g[s] = F[Taken(s)] + the(r)[r]
        BY <3>2
      <4> QED BY <3>2, <4>3, <4>4 DEF Folded
    <3> QED BY <3>1, <3>2
  <2>3. g = [s \in SUBSET T |-> g[s]]
    OBVIOUS
  <2> HIDE DEF g
  <2>4. Solves(F, g, T)
    BY <2>2, <2>3 DEF Solves
  <2> QED BY <2>4
<1> HIDE DEF G
<1>2. S \in G
  BY <1>1, SubsetInduction
<1> QED BY <1>2 DEF G

\* The sum over a set, one element at a time.
LEMMA SumFirst ==
  ASSUME NEW F, NEW S, IsFiniteSet(S)
  PROVE  SumFunctionOnSet(F, S)
           = IF S = {} THEN 0 ELSE F[Taken(S)] + SumFunctionOnSet(F, S \ {Taken(S)})
<1> DEFINE the(T) == CHOOSE g : Solves(F, g, T)
           r == S \ {Taken(S)}
<1>1. Solves(F, the(S), S)
  BY FoldExists
<1>2. IsFiniteSet(r)
  BY FS_Subset
<1>3. Solves(F, the(r), r)
  BY <1>2, FoldExists
<1>4. the(r)[r] = the(S)[r]
  <2> HIDE DEF the
  <2>1. r \subseteq S
    OBVIOUS
  <2> HIDE DEF r
  <2> QED BY <1>1, <1>2, <1>3, <2>1, FoldsAgree
<1>5. the(S)[S] = Folded(F, the(S), S)
  BY <1>1 DEF Solves
<1>6. SumFunctionOnSet(F, S) = the(S)[S] /\ SumFunctionOnSet(F, r) = the(r)[r]
  BY SumIsFold
<1> HIDE DEF the
<1> QED BY <1>4, <1>5, <1>6 DEF Folded

Total(F, S) == SumFunctionOnSet(F, S)
Ints(F, S) == \A x \in S : F[x] \in Int

LEMMA TotalEmpty == \A F : Total(F, {}) = 0
  BY FS_EmptySet, SumFirst DEF Total

\* A sum is a number, and any element may be taken first.
LEMMA TotalWithout ==
  ASSUME NEW F, NEW S, IsFiniteSet(S), Ints(F, S)
  PROVE  Total(F, S) \in Int /\ \A a \in S : Total(F, S) = F[a] + Total(F, S \ {a})
<1> DEFINE G == {T \in SUBSET S : /\ Total(F, T) \in Int
                                  /\ \A a \in T : Total(F, T) = F[a] + Total(F, T \ {a})}
<1>1. ASSUME NEW T \in SUBSET S, (SUBSET T) \ {T} \subseteq G PROVE T \in G
  <2> DEFINE x == Taken(T)
  <2>1. IsFiniteSet(T)
    BY FS_Subset
  <2>2. CASE T = {}
    <3>1. Total(F, T) = 0
      BY <2>2, TotalEmpty
    <3> QED BY <2>2, <3>1
  <2>3. CASE T # {}
    <3>1. x \in T
      BY <2>3 DEF Taken
    <3>2. Total(F, T) = F[x] + Total(F, T \ {x})
      BY <2>1, <2>3, SumFirst DEF Total
    <3> HIDE DEF x
    <3>3. T \ {x} \in G /\ F[x] \in Int
      BY <1>1, <3>1 DEF Ints
    <3>4. Total(F, T) \in Int
      BY <3>2, <3>3
    <3>5. ASSUME NEW a \in T, a # x PROVE Total(F, T) = F[a] + Total(F, T \ {a})
      <4> DEFINE rest == (T \ {x}) \ {a}
      <4>1. T \ {a} \in G /\ F[a] \in Int
        BY <1>1 DEF Ints
      <4>2. Total(F, T \ {x}) = F[a] + Total(F, rest)
        BY <3>3, <3>5
      <4>3. (T \ {a}) \ {x} = rest
        OBVIOUS
      <4> HIDE DEF rest
      <4>4. Total(F, T \ {a}) = F[x] + Total(F, rest)
        BY <3>1, <3>5, <4>1, <4>3
      <4>5. rest \in G
        BY <1>1, <3>1 DEF rest
      <4>6. Total(F, rest) \in Int
        BY <4>5
      <4> HIDE DEF G
      <4> QED BY <3>2, <3>3, <4>1, <4>2, <4>4, <4>6
    <3> QED BY <3>2, <3>4, <3>5
  <2> QED BY <2>2, <2>3
<1> HIDE DEF G
<1>2. S \in G
  BY <1>1, SubsetInduction
<1> QED BY <1>2 DEF G

\* Only the values on the set count.
LEMMA TotalSame ==
  ASSUME NEW F, NEW H, NEW S, IsFiniteSet(S), Ints(F, S), \A x \in S : H[x] = F[x]
  PROVE  Total(H, S) = Total(F, S)
<1> DEFINE G == {T \in SUBSET S : Total(H, T) = Total(F, T)}
<1>1. ASSUME NEW T \in SUBSET S, (SUBSET T) \ {T} \subseteq G PROVE T \in G
  <2>1. IsFiniteSet(T) /\ Ints(F, T) /\ Ints(H, T)
    BY FS_Subset DEF Ints
  <2>2. CASE T = {}
    BY <2>2, TotalEmpty
  <2>3. CASE T # {}
    <3>1. PICK a \in T : TRUE
      BY <2>3
    <3>2. Total(F, T) = F[a] + Total(F, T \ {a}) /\ Total(H, T) = H[a] + Total(H, T \ {a})
      BY <2>1, TotalWithout
    <3>3. T \ {a} \in G
      BY <1>1
    <3> QED BY <3>2, <3>3
  <2> QED BY <2>2, <2>3
<1> HIDE DEF G
<1>2. S \in G
  BY <1>1, SubsetInduction
<1> QED BY <1>2 DEF G

\* A sum of equal numbers.
LEMMA TotalConstant ==
  ASSUME NEW F, NEW S, IsFiniteSet(S), NEW c \in Int, \A x \in S : F[x] = c
  PROVE  Total(F, S) = c * Cardinality(S)
<1> DEFINE G == {T \in SUBSET S : Total(F, T) = c * Cardinality(T)}
<1>1. ASSUME NEW T \in SUBSET S, (SUBSET T) \ {T} \subseteq G PROVE T \in G
  <2>1. IsFiniteSet(T) /\ Ints(F, T) /\ Cardinality(T) \in Nat
    BY FS_Subset, FS_CardinalityType DEF Ints
  <2>2. CASE T = {}
    BY <2>2, TotalEmpty, FS_EmptySet
  <2>3. CASE T # {}
    <3>1. PICK a \in T : TRUE
      BY <2>3
    <3>2. Total(F, T) = c + Total(F, T \ {a})
      BY <2>1, TotalWithout
    <3>3. T \ {a} \in G
      BY <1>1
    <3>4. Cardinality(T \ {a}) = Cardinality(T) - 1
      BY <2>1, FS_RemoveElement
    <3> DEFINE n == Cardinality(T)
    <3>5. Total(F, T) = c + c * (n - 1) /\ n \in Int
      BY <2>1, <3>2, <3>3, <3>4
    <3> HIDE DEF n
    <3>6. c + c * (n - 1) = c * n
      BY <3>5
    <3> QED BY <3>5, <3>6 DEF n
  <2> QED BY <2>2, <2>3
<1> HIDE DEF G
<1>2. S \in G
  BY <1>1, SubsetInduction
<1> QED BY <1>2 DEF G

\* The sum over two disjoint sets.
LEMMA TotalUnion ==
  ASSUME NEW F, NEW S, IsFiniteSet(S), NEW U, IsFiniteSet(U), S \cap U = {}, Ints(F, S \cup U)
  PROVE  Total(F, S \cup U) = Total(F, S) + Total(F, U)
<1> DEFINE G == {T \in SUBSET S : Total(F, T \cup U) = Total(F, T) + Total(F, U)}
<1>0. Total(F, U) \in Int
  BY TotalWithout DEF Ints
<1>1. ASSUME NEW T \in SUBSET S, (SUBSET T) \ {T} \subseteq G PROVE T \in G
  <2>1. IsFiniteSet(T) /\ IsFiniteSet(T \cup U) /\ Ints(F, T) /\ Ints(F, T \cup U)
    BY FS_Subset, FS_Union DEF Ints
  <2>2. CASE T = {}
    BY <1>0, <2>2, TotalEmpty
  <2>3. CASE T # {}
    <3>1. PICK a \in T : TRUE
      BY <2>3
    <3>2. /\ Total(F, T) = F[a] + Total(F, T \ {a})
          /\ Total(F, T \cup U) = F[a] + Total(F, (T \cup U) \ {a})
      BY <2>1, TotalWithout
    <3>3. Total(F, (T \cup U) \ {a}) = Total(F, T \ {a}) + Total(F, U)
      <4>1. T \ {a} \in G /\ (T \cup U) \ {a} = (T \ {a}) \cup U
        BY <1>1
      <4> QED BY <4>1
    <3>4. Total(F, T \ {a}) \in Int /\ F[a] \in Int
      <4>1. IsFiniteSet(T \ {a}) /\ Ints(F, T \ {a})
        BY <2>1, FS_Subset DEF Ints
      <4> QED BY <2>1, <4>1, TotalWithout DEF Ints
    <3>5. Total(F, T \cup U) = Total(F, T) + Total(F, U)
      <4> HIDE DEF G
      <4> QED BY <1>0, <3>2, <3>3, <3>4
    <3> QED BY <3>5
  <2> QED BY <2>2, <2>3
<1> HIDE DEF G
<1>2. S \in G
  BY <1>1, SubsetInduction
<1> QED BY <1>2 DEF G

\* A sum may be taken part by part.
PartOf(S, part, p) == {x \in S : part[x] = p}

LEMMA TotalParts ==
  ASSUME NEW F, NEW S, IsFiniteSet(S), Ints(F, S), NEW P, IsFiniteSet(P),
         NEW part, \A x \in S : part[x] \in P,
         NEW H, \A p \in P : H[p] = Total(F, PartOf(S, part, p))
  PROVE  Total(F, S) = Total(H, P)
<1> USE DEF PartOf
<1> DEFINE In(Q) == {x \in S : part[x] \in Q}
           Of(p) == {x \in S : part[x] = p}
           G == {Q \in SUBSET P : Total(F, In(Q)) = Total(H, Q)}
<1>0. Ints(H, P)
  <2> SUFFICES ASSUME NEW p \in P PROVE H[p] \in Int
    BY DEF Ints
  <2>1. IsFiniteSet(Of(p)) /\ Ints(F, Of(p))
    BY FS_Subset DEF Ints
  <2>2. H[p] = Total(F, Of(p))
    OBVIOUS
  <2> HIDE DEF Of
  <2> QED BY <2>1, <2>2, TotalWithout
<1>1. ASSUME NEW Q \in SUBSET P, (SUBSET Q) \ {Q} \subseteq G PROVE Q \in G
  <2>1. IsFiniteSet(Q) /\ Ints(H, Q)
    BY <1>0, FS_Subset DEF Ints
  <2>2. CASE Q = {}
    <3>1. In(Q) = {}
      BY <2>2
    <3> QED BY <2>2, <3>1, TotalEmpty
  <2>3. CASE Q # {}
    <3>1. PICK p \in Q : TRUE
      BY <2>3
    <3>2. Total(H, Q) = H[p] + Total(H, Q \ {p})
      BY <2>1, TotalWithout
    <3>3. Q \ {p} \in G
      BY <1>1
    <3>4. In(Q) = Of(p) \cup In(Q \ {p}) /\ Of(p) \cap In(Q \ {p}) = {}
      OBVIOUS
    <3>5. /\ IsFiniteSet(Of(p)) /\ IsFiniteSet(In(Q \ {p}))
          /\ Ints(F, Of(p) \cup In(Q \ {p}))
      BY FS_Subset DEF Ints
    <3>6. Total(F, In(Q)) = Total(F, Of(p)) + Total(F, In(Q \ {p}))
      <4> DEFINE A == Of(p)
                 B == In(Q \ {p})
      <4>1. /\ In(Q) = A \cup B /\ A \cap B = {} /\ Ints(F, A \cup B)
            /\ IsFiniteSet(A) /\ IsFiniteSet(B)
        BY <3>4, <3>5
      <4> HIDE DEF A, B
      <4>2. Total(F, A \cup B) = Total(F, A) + Total(F, B)
        BY <4>1, TotalUnion
      <4> QED BY <4>1, <4>2 DEF A, B
    <3>7. H[p] = Total(F, Of(p))
      OBVIOUS
    <3> HIDE DEF Of
    <3> QED BY <3>2, <3>3, <3>6, <3>7
  <2> QED BY <2>2, <2>3
<1> HIDE DEF G
<1>2. P \in G
  <2>1. IsFiniteSet(P)
    OBVIOUS
  <2> QED BY ONLY <1>1, <2>1, SubsetInduction
<1>3. In(P) = S
  OBVIOUS
<1> QED BY <1>2, <1>3 DEF G

LEMMA ImageFinite ==
  ASSUME NEW f, IsFiniteSet(DOMAIN f)
  PROVE  IsFiniteSet({f[x] : x \in DOMAIN f})
<1> DEFINE S == DOMAIN f
           T == {f[x] : x \in S}
           g == [x \in S |-> f[x]]
<1>1. g \in [S -> T] /\ \A y \in T : \E x \in S : g[x] = y
  OBVIOUS
<1>2. g \in Surjection(S, T)
  BY <1>1 DEF Surjection
<1> HIDE DEF g
<1> QED BY <1>2, FS_Surjection

\* Sums of sums and of multiples.
LEMMA TotalAdd ==
  ASSUME NEW S, IsFiniteSet(S), NEW F, Ints(F, S), NEW H, Ints(H, S),
         NEW B, \A x \in S : B[x] = F[x] + H[x]
  PROVE  Total(B, S) = Total(F, S) + Total(H, S)
<1> DEFINE G == {T \in SUBSET S : Total(B, T) = Total(F, T) + Total(H, T)}
<1>1. ASSUME NEW T \in SUBSET S, (SUBSET T) \ {T} \subseteq G PROVE T \in G
  <2>1. IsFiniteSet(T) /\ Ints(F, T) /\ Ints(H, T) /\ Ints(B, T)
    BY FS_Subset DEF Ints
  <2>2. CASE T = {}
    <3>1. Total(B, T) = 0 /\ Total(F, T) = 0 /\ Total(H, T) = 0
      BY <2>2, TotalEmpty
    <3> QED BY <3>1
  <2>3. CASE T # {}
    <3>1. PICK a \in T : TRUE
      BY <2>3
    <3> DEFINE r == T \ {a}
    <3>2. /\ Total(B, T) = B[a] + Total(B, r)
          /\ Total(F, T) = F[a] + Total(F, r) /\ Total(H, T) = H[a] + Total(H, r)
      BY <2>1, TotalWithout
    <3>3. Total(B, r) = Total(F, r) + Total(H, r)
      <4>1. r \in G
        BY <1>1
      <4> QED BY <4>1
    <3>4. IsFiniteSet(r) /\ Ints(F, r) /\ Ints(H, r)
      BY <2>1, FS_Subset DEF Ints
    <3> HIDE DEF r
    <3>5. /\ Total(F, r) \in Int /\ Total(H, r) \in Int
          /\ F[a] \in Int /\ H[a] \in Int /\ B[a] = F[a] + H[a]
      BY <3>4, TotalWithout DEF Ints
    <3>6. Total(B, T) = Total(F, T) + Total(H, T)
      <4> HIDE DEF G
      <4> QED BY <3>2, <3>3, <3>5
    <3> QED BY <3>6
  <2> QED BY <2>2, <2>3
<1> HIDE DEF G
<1>2. S \in G
  BY <1>1, SubsetInduction
<1> QED BY <1>2 DEF G

LEMMA TotalScale ==
  ASSUME NEW S, IsFiniteSet(S), NEW F, Ints(F, S), NEW k \in Int,
         NEW B, \A x \in S : B[x] = k * F[x]
  PROVE  Total(B, S) = k * Total(F, S)
<1> DEFINE G == {T \in SUBSET S : Total(B, T) = k * Total(F, T)}
<1>1. ASSUME NEW T \in SUBSET S, (SUBSET T) \ {T} \subseteq G PROVE T \in G
  <2>1. IsFiniteSet(T) /\ Ints(F, T) /\ Ints(B, T)
    <3>1. \A y \in Int : k * y \in Int
      OBVIOUS
    <3> QED BY <3>1, FS_Subset DEF Ints
  <2>2. CASE T = {}
    <3>1. Total(B, T) = 0 /\ Total(F, T) = 0
      BY <2>2, TotalEmpty
    <3> QED BY <3>1
  <2>3. CASE T # {}
    <3>1. PICK a \in T : TRUE
      BY <2>3
    <3> DEFINE r == T \ {a}
    <3>2. Total(B, T) = B[a] + Total(B, r) /\ Total(F, T) = F[a] + Total(F, r)
      BY <2>1, TotalWithout
    <3>3. Total(B, r) = k * Total(F, r)
      <4>1. r \in G
        BY <1>1
      <4> QED BY <4>1
    <3>4. IsFiniteSet(r) /\ Ints(F, r)
      BY <2>1, FS_Subset DEF Ints
    <3> HIDE DEF r
    <3>5. Total(F, r) \in Int /\ F[a] \in Int /\ B[a] = k * F[a]
      BY <3>4, TotalWithout DEF Ints
    <3>6. k * F[a] + k * Total(F, r) = k * (F[a] + Total(F, r))
      BY ONLY <3>5, k \in Int
    <3>7. Total(B, T) = k * Total(F, T)
      <4> HIDE DEF G
      <4> QED BY <3>2, <3>3, <3>5, <3>6
    <3> QED BY <3>7
  <2> QED BY <2>2, <2>3
<1> HIDE DEF G
<1>2. S \in G
  BY <1>1, SubsetInduction
<1> QED BY <1>2 DEF G

\* A sum of bounded numbers.
LEMMA TotalBounds ==
  ASSUME NEW S, IsFiniteSet(S), NEW F, NEW b \in Nat, \A x \in S : F[x] \in 0 .. b
  PROVE  Total(F, S) \in Nat /\ Total(F, S) <= b * Cardinality(S)
<1> DEFINE G == {T \in SUBSET S : Total(F, T) \in Nat /\ Total(F, T) <= b * Cardinality(T)}
<1>1. ASSUME NEW T \in SUBSET S, (SUBSET T) \ {T} \subseteq G PROVE T \in G
  <2>1. IsFiniteSet(T) /\ Ints(F, T) /\ Cardinality(T) \in Nat
    BY FS_Subset, FS_CardinalityType DEF Ints
  <2>2. CASE T = {}
    <3>1. Total(F, T) = 0 /\ Cardinality(T) = 0
      BY <2>2, TotalEmpty, FS_EmptySet
    <3> QED BY <3>1
  <2>3. CASE T # {}
    <3>1. PICK a \in T : TRUE
      BY <2>3
    <3> DEFINE r == T \ {a}
               t == Total(F, r)
               n == Cardinality(T)
    <3>2. Total(F, T) = F[a] + t /\ F[a] \in 0 .. b
      BY <2>1, TotalWithout
    <3>3. t \in Nat /\ t <= b * Cardinality(r)
      <4>1. r \in G
        BY <1>1
      <4> QED BY <4>1
    <3>4. Cardinality(r) = n - 1 /\ n \in Nat
      BY <2>1, FS_RemoveElement
    <3> HIDE DEF r, t, n
    <3>5. b * (n - 1) + b = b * n
      BY <3>4
    <3>6. Total(F, T) \in Nat /\ Total(F, T) <= b * n
      <4> HIDE DEF G
      <4> QED BY <3>2, <3>3, <3>4, <3>5
    <3> QED BY <3>6 DEF n
  <2> QED BY <2>2, <2>3
<1> HIDE DEF G
<1>2. S \in G
  BY <1>1, SubsetInduction
<1> QED BY <1>2 DEF G

LEMMA TotalSingle ==
  ASSUME NEW F, NEW a, F[a] \in Int
  PROVE  Total(F, {a}) = F[a]
<1>1. IsFiniteSet({a}) /\ Ints(F, {a}) /\ {a} \ {a} = {}
  BY FS_Singleton DEF Ints
<1>2. Total(F, {a}) = F[a] + Total(F, {a} \ {a})
  BY <1>1, TotalWithout
<1>3. Total(F, {a} \ {a}) = 0
  BY <1>1, TotalEmpty
<1> QED BY <1>2, <1>3

\* A sum over other names of the same things.
LEMMA TotalRenamed ==
  ASSUME NEW S, IsFiniteSet(S), NEW P, IsFiniteSet(P), NEW F, Ints(F, S), NEW H,
         NEW name, \A x \in S : name[x] \in P /\ H[name[x]] = F[x],
         \A x, y \in S : name[x] = name[y] => x = y,
         \A p \in P : \E x \in S : name[x] = p
  PROVE  Total(F, S) = Total(H, P)
<1>1. ASSUME NEW p \in P PROVE H[p] = Total(F, PartOf(S, name, p))
  <2>1. PICK x \in S : name[x] = p
    OBVIOUS
  <2>2. PartOf(S, name, p) = {x}
    BY <2>1 DEF PartOf
  <2>3. Total(F, {x}) = F[x]
    BY TotalSingle DEF Ints
  <2> QED BY <2>1, <2>2, <2>3
<1> QED BY <1>1, TotalParts

\* The part that is not zero.
LEMMA TotalSupport ==
  ASSUME NEW S, IsFiniteSet(S), NEW F, Ints(F, S), NEW U \in SUBSET S, \A x \in S \ U : F[x] = 0
  PROVE  Total(F, S) = Total(F, U)
<1> DEFINE V == S \ U
<1>1. /\ IsFiniteSet(U) /\ IsFiniteSet(V) /\ U \cap V = {} /\ S = U \cup V
      /\ Ints(F, U \cup V) /\ Ints(F, U)
  BY FS_Subset DEF Ints
<1> HIDE DEF V
<1>2. Total(F, S) = Total(F, U) + Total(F, V)
  BY <1>1, TotalUnion
<1>3. Total(F, V) = 0 * Cardinality(V)
  BY <1>1, TotalConstant DEF V
<1>4. Cardinality(V) \in Nat /\ Total(F, U) \in Int
  BY <1>1, FS_CardinalityType, TotalWithout
<1> QED BY <1>2, <1>3, <1>4

\* Row by row or column by column.
Crossed(F, R, A, col, C, B) ==
  /\ \A a \in A : Ints(F[a], B) /\ R[a] = Total(F[a], B)
  /\ \A b \in B : C[b] = Total(col[b], A) /\ \A a \in A : col[b][a] = F[a][b]

LEMMA TotalSwap ==
  ASSUME NEW A, IsFiniteSet(A), NEW B, IsFiniteSet(B),
         NEW F, NEW R, NEW col, NEW C, Crossed(F, R, A, col, C, B)
  PROVE  Total(R, A) = Total(C, B)
<1> DEFINE part(T) == [b \in B |-> Total(col[b], T)]
           G == {T \in SUBSET A : Total(R, T) = Total(part(T), B)}
<1> USE DEF Crossed
<1>0. \A b \in B : Ints(col[b], A)
  BY DEF Ints
<1>1. ASSUME NEW T \in SUBSET A, (SUBSET T) \ {T} \subseteq G PROVE T \in G
  <2>1. IsFiniteSet(T) /\ Ints(R, T) /\ \A b \in B : Ints(col[b], T)
    <3>1. \A a \in T : R[a] \in Int
      BY TotalWithout
    <3> QED BY <1>0, <3>1, FS_Subset DEF Ints
  <2>2. CASE T = {}
    <3>1. \A b \in B : part(T)[b] = 0
      BY <2>2, TotalEmpty
    <3> HIDE DEF part
    <3>2. Total(part(T), B) = 0 * Cardinality(B) /\ Cardinality(B) \in Nat
      BY <3>1, TotalConstant, FS_CardinalityType
    <3>3. Total(R, T) = 0
      BY <2>2, TotalEmpty
    <3> QED BY <3>2, <3>3
  <2>3. CASE T # {}
    <3>1. PICK a \in T : TRUE
      BY <2>3
    <3> DEFINE r == T \ {a}
    <3>2. Total(R, T) = R[a] + Total(R, r)
      BY <2>1, TotalWithout
    <3>3. Total(R, r) = Total(part(r), B)
      <4>1. r \in G
        BY <1>1
      <4> QED BY <4>1
    <3>4. IsFiniteSet(r) /\ \A b \in B : Ints(col[b], r)
      BY <1>0, <2>1, FS_Subset DEF Ints
    <3>5. ASSUME NEW b \in B PROVE part(T)[b] = F[a][b] + part(r)[b] /\ part(r)[b] \in Int
      <4>1. Total(col[b], T) = col[b][a] + Total(col[b], r)
        BY <2>1, TotalWithout
      <4>2. Total(col[b], r) \in Int
        BY <3>4, TotalWithout
      <4> HIDE DEF r
      <4> QED BY <4>1, <4>2
    <3> HIDE DEF part, r
    <3>6. Ints(F[a], B) /\ Ints(part(r), B)
      BY <3>5 DEF Ints
    <3>7. Total(part(T), B) = Total(F[a], B) + Total(part(r), B)
      BY <3>5, <3>6, TotalAdd
    <3>8. Total(R, T) = Total(part(T), B)
      BY <3>2, <3>3, <3>7
    <3> QED BY <3>8
  <2> QED BY <2>2, <2>3
<1> HIDE DEF G
<1>2. A \in G
  BY <1>1, SubsetInduction
<1>3. Total(R, A) = Total(part(A), B)
  BY <1>2 DEF G
<1>4. \A b \in B : C[b] = part(A)[b] /\ part(A)[b] \in Int
  BY <1>0, TotalWithout
<1> HIDE DEF part
<1>5. Total(C, B) = Total(part(A), B)
  BY <1>4, TotalSame DEF Ints
<1> QED BY <1>3, <1>5

\* A sum of natural numbers.
LEMMA TotalNatural ==
  ASSUME NEW S, IsFiniteSet(S), NEW F, \A x \in S : F[x] \in Nat
  PROVE  Total(F, S) \in Nat
<1> DEFINE G == {T \in SUBSET S : Total(F, T) \in Nat}
<1>1. ASSUME NEW T \in SUBSET S, (SUBSET T) \ {T} \subseteq G PROVE T \in G
  <2>1. IsFiniteSet(T) /\ Ints(F, T)
    BY FS_Subset DEF Ints
  <2>2. CASE T = {}
    BY <2>2, TotalEmpty
  <2>3. CASE T # {}
    <3>1. PICK a \in T : TRUE
      BY <2>3
    <3>2. Total(F, T) = F[a] + Total(F, T \ {a})
      BY <2>1, TotalWithout
    <3>3. T \ {a} \in G
      BY <1>1
    <3> QED BY <3>2, <3>3
  <2> QED BY <2>2, <2>3
<1> HIDE DEF G
<1>2. S \in G
  BY <1>1, SubsetInduction
<1> QED BY <1>2 DEF G

(***************************************************************************)
(* Quotients.                                                              *)
(***************************************************************************)

LEMMA Division ==
  ASSUME NEW a \in Int, NEW k \in Nat \ {0}
  PROVE  a \div k \in Int /\ a % k \in 0 .. k - 1 /\ a = k * (a \div k) + (a % k)
<1>1. a \div k \in Int /\ a % k \in 0 .. k - 1
  OBVIOUS
<1>2. a = k * (a \div k) + (a % k)
  OBVIOUS
<1> QED BY <1>1, <1>2

LEMMA Quotient ==
  ASSUME NEW a \in Int, NEW b \in Nat \ {0}, NEW q \in Int, b * q <= a, a < b * q + b
  PROVE  a \div b = q
<1> DEFINE d == a \div b
<1>1. d \in Int /\ b * d <= a /\ a < b * d + b
  OBVIOUS
<1> HIDE DEF d
<1>2. ASSUME d >= q + 1 PROVE FALSE
  <2>1. b * d >= b * (q + 1)
    BY <1>1, <1>2
  <2> QED BY <1>1, <2>1
<1>3. ASSUME d <= q - 1 PROVE FALSE
  <2>1. b * d <= b * (q - 1)
    BY <1>1, <1>3
  <2> QED BY <1>1, <2>1
<1>4. d = q
  BY <1>1, <1>2, <1>3
<1> QED BY <1>4 DEF d

LEMMA Exact ==
  ASSUME NEW q \in Int, NEW k \in Nat \ {0}
  PROVE  (q * k) \div k = q
<1>1. q * k \in Int /\ k * q <= q * k /\ q * k < k * q + k
  OBVIOUS
<1> QED BY <1>1, Quotient

\* A quotient does not depend on the unit.
LEMMA Scaled ==
  ASSUME NEW a \in Int, NEW b \in Nat \ {0}, NEW w \in Nat \ {0}
  PROVE  (w * a) \div (w * b) = a \div b
<1> DEFINE q == a \div b
           x == b * q
<1>1. q \in Int /\ x \in Int /\ x <= a /\ a < x + b
  OBVIOUS
<1>2. (w * b) * q = w * x
  OBVIOUS
<1> HIDE DEF x, q
<1>3. w * x <= w * a /\ w * a < w * (x + b) /\ w * (x + b) = w * x + w * b
  BY <1>1
<1>4. w * a \in Int /\ w * b \in Nat \ {0}
  OBVIOUS
<1>5. (w * a) \div (w * b) = q
  <2> DEFINE A == w * a
             B == w * b
  <2>1. A \in Int /\ B \in Nat \ {0} /\ B * q <= A /\ A < B * q + B
    BY <1>1, <1>2, <1>3, <1>4
  <2> HIDE DEF A, B
  <2>2. A \div B = q
    BY <1>1, <2>1, Quotient
  <2> QED BY <2>2 DEF A, B
<1> QED BY <1>5 DEF q

(***************************************************************************)
(* The largest remainder.                                                  *)
(***************************************************************************)

\* What comes before c in the order B, as pairs.
Prior(C, B, c) == {d \in C : <<d, c>> \in B}

StrictOrder(B, C) ==
  /\ \A c \in C : <<c, c>> \notin B
  /\ \A c, d \in C : c # d => <<c, d>> \in B \/ <<d, c>> \in B
  /\ \A c, d, e \in C : <<c, d>> \in B /\ <<d, e>> \in B => <<c, e>> \in B

\* In a strict order every place is taken once.
LEMMA Places ==
  ASSUME NEW C, IsFiniteSet(C), NEW B, StrictOrder(B, C),
         NEW place, \A c \in C : place[c] = Cardinality(Prior(C, B, c)),
         NEW n \in 0 .. Cardinality(C)
  PROVE  /\ \A c \in C : place[c] \in 0 .. Cardinality(C) - 1
         /\ Cardinality({c \in C : place[c] < n}) = n
<1> DEFINE N == Cardinality(C)
           U == {c \in C : place[c] < n}
           f == [c \in C |-> place[c]]
           g == [c \in U |-> place[c]]
<1>1. N \in Nat
  BY FS_CardinalityType
<1>2. ASSUME NEW c \in C PROVE place[c] \in 0 .. N - 1
  <2>1. Prior(C, B, c) \in SUBSET (C \ {c})
    BY DEF Prior, StrictOrder
  <2>2. IsFiniteSet(C \ {c}) /\ Cardinality(C \ {c}) = N - 1
    BY FS_RemoveElement
  <2>3. IsFiniteSet(Prior(C, B, c)) /\ Cardinality(Prior(C, B, c)) <= N - 1
    BY <2>1, <2>2, FS_Subset
  <2> QED BY <1>1, <2>3, FS_CardinalityType
<1>3. ASSUME NEW c \in C, NEW d \in C, <<c, d>> \in B PROVE place[c] < place[d]
  <2>1. Prior(C, B, c) \cup {c} \in SUBSET Prior(C, B, d) /\ c \notin Prior(C, B, c)
    BY <1>3 DEF Prior, StrictOrder
  <2>2. IsFiniteSet(Prior(C, B, c)) /\ IsFiniteSet(Prior(C, B, d))
    BY FS_Subset DEF Prior
  <2>3. Cardinality(Prior(C, B, c) \cup {c}) = place[c] + 1
    BY <2>1, <2>2, FS_AddElement
  <2>4. Cardinality(Prior(C, B, c) \cup {c}) <= place[d]
    BY <2>1, <2>2, FS_Subset
  <2> QED BY <1>2, <2>3, <2>4
<1>4. ASSUME NEW c \in C, NEW d \in C, place[c] = place[d] PROVE c = d
  <2> SUFFICES ASSUME c # d PROVE FALSE
    OBVIOUS
  <2>1. <<c, d>> \in B \/ <<d, c>> \in B
    BY DEF StrictOrder
  <2>2. place[c] \in Int /\ place[d] \in Int
    BY <1>2
  <2> QED BY <1>3, <1>4, <2>1, <2>2
<1> HIDE DEF N
<1>5. IsFiniteSet(0 .. N - 1) /\ Cardinality(0 .. N - 1) = N
  BY <1>1, FS_Interval
<1>6. f \in Surjection(C, 0 .. N - 1)
  <2>1. f \in Injection(C, 0 .. N - 1)
    <3>1. f \in [C -> 0 .. N - 1] /\ \A c, d \in C : f[c] = f[d] => c = d
      BY <1>2, <1>4
    <3> HIDE DEF f
    <3> QED BY <3>1 DEF Injection, IsInjective
  <2> HIDE DEF f
  <2> QED BY <1>5, <2>1, FS_Injection DEF N
<1>7. \A k \in 0 .. N - 1 : \E c \in C : place[c] = k
  BY <1>6 DEF Surjection
<1>8. n \in Nat /\ n <= N /\ IsFiniteSet(U)
  BY <1>1, FS_Subset DEF N
<1>9. g \in Surjection(U, 0 .. n - 1) /\ g \in Injection(U, 0 .. n - 1)
  <2>1. g \in [U -> 0 .. n - 1]
    BY <1>2, <1>8
  <2>2. \A k \in 0 .. n - 1 : \E c \in U : g[c] = k
    BY <1>1, <1>7, <1>8
  <2>3. \A c, d \in U : g[c] = g[d] => c = d
    BY <1>4
  <2> HIDE DEF g, U
  <2> QED BY <2>1, <2>2, <2>3 DEF Surjection, Injection, IsInjective
<1>10. Cardinality(0 .. n - 1) = n
  BY <1>8, FS_Interval
<1>11. Cardinality(U) = n
  <2> HIDE DEF g, U
  <2> QED BY <1>8, <1>9, <1>10, FS_Surjection
<1> QED BY <1>2, <1>11 DEF N

\* What is left over after rounding down is at most one for every remainder.
LEMMA LeftOver ==
  ASSUME NEW C, IsFiniteSet(C), NEW M \in Nat \ {0}, NEW raw, \A c \in C : raw[c] \in Nat,
         NEW down, \A c \in C : down[c] = raw[c] \div M,
         NEW t, t = (2 * Total(raw, C) + M) \div (2 * M)
  PROVE  /\ Total(down, C) \in Int /\ t \in Int
         /\ t - Total(down, C) \in 0 .. Cardinality({c \in C : raw[c] % M > 0})
<1> DEFINE rest == [c \in C |-> raw[c] % M]
           much == [c \in C |-> M * down[c]]
           P == {c \in C : raw[c] % M > 0}
           K == Cardinality(P)
           R == Total(raw, C)
           D == Total(down, C)
           r == Total(rest, C)
<1>1. ASSUME NEW c \in C
      PROVE  /\ down[c] \in Int /\ much[c] \in Int /\ rest[c] \in 0 .. M - 1 /\ raw[c] \in Int
             /\ raw[c] = much[c] + rest[c] /\ much[c] = M * down[c]
  <2>0. rest[c] = raw[c] % M /\ much[c] = M * down[c] /\ down[c] = raw[c] \div M
    OBVIOUS
  <2>1. raw[c] \in Int
    OBVIOUS
  <2>2. /\ raw[c] \div M \in Int /\ raw[c] % M \in 0 .. M - 1
        /\ raw[c] = M * (raw[c] \div M) + (raw[c] % M)
    BY <2>1, Division
  <2>3. \A x \in Int : M * x \in Int
    OBVIOUS
  <2> HIDE DEF rest, much
  <2> QED BY <2>0, <2>1, <2>2, <2>3
<1>2. P \in SUBSET C /\ \A c \in C \ P : rest[c] = 0
  <2> SUFFICES ASSUME NEW c \in C \ P PROVE rest[c] = 0
    OBVIOUS
  <2>1. rest[c] \in 0 .. M - 1 /\ ~(rest[c] > 0)
    BY <1>1
  <2> QED BY <2>1
<1> HIDE DEF rest, much, P
<1>3. Ints(down, C) /\ Ints(much, C) /\ Ints(rest, C) /\ Ints(raw, C)
  BY <1>1 DEF Ints
<1>4. R = Total(much, C) + r
  BY <1>1, <1>3, TotalAdd
<1>5. Total(much, C) = M * D
  <2>1. M \in Int /\ \A c \in C : much[c] = M * down[c]
    BY <1>1
  <2> QED BY <1>3, <2>1, TotalScale DEF D
<1>6. r \in Nat /\ r <= (M - 1) * K /\ K \in Nat
  <2>1. r = Total(rest, P)
    BY <1>2, <1>3, TotalSupport
  <2>2. IsFiniteSet(P) /\ \A c \in P : rest[c] \in 0 .. M - 1
    BY <1>1, <1>2, FS_Subset
  <2>3. M - 1 \in Nat
    OBVIOUS
  <2> DEFINE b == M - 1
  <2> HIDE DEF b
  <2>4. Total(rest, P) \in Nat /\ Total(rest, P) <= b * Cardinality(P)
    <3>1. b \in Nat /\ \A c \in P : rest[c] \in 0 .. b
      BY <2>2, <2>3 DEF b
    <3> QED BY <2>2, <3>1, TotalBounds
  <2> QED BY <2>1, <2>2, <2>4, FS_CardinalityType DEF b
<1>7. D \in Int /\ R \in Int
  BY <1>3, TotalWithout
<1> HIDE DEF R, D, r, K
<1>8. t \in Int /\ (2 * M) * t <= 2 * R + M /\ 2 * R + M < (2 * M) * t + 2 * M
  <2>1. 2 * R + M \in Int /\ 2 * M \in Nat \ {0}
    BY <1>7
  <2> DEFINE x == 2 * R + M
             y == 2 * M
  <2>2. t = x \div y
    BY DEF R
  <2>3. x \in Int /\ y \in Nat \ {0}
    BY <2>1
  <2> HIDE DEF x, y
  <2>4. t \in Int /\ y * t <= x /\ x < y * t + y
    BY <2>2, <2>3
  <2> QED BY <2>4 DEF x, y
<1> DEFINE l == t - D
<1>9. (2 * M) * t = 2 * (M * l) + 2 * (M * D) /\ l \in Int
  BY <1>7, <1>8
<1>10. R = M * D + r
  BY <1>4, <1>5
<1> HIDE DEF l
<1>11. M * l \in Int /\ M * D \in Int
  BY <1>7, <1>9
<1>12. 2 * (M * l) <= 2 * r + M /\ 2 * r < 2 * (M * l) + M
  BY <1>6, <1>8, <1>9, <1>10, <1>11
<1>13. l >= 0
  <2> SUFFICES ASSUME l <= -1 PROVE FALSE
    BY <1>9
  <2>1. M * l <= -M
    BY <1>9
  <2> QED BY <1>6, <1>11, <1>12, <2>1
<1>14. l <= K
  <2> SUFFICES ASSUME l >= K + 1 PROVE FALSE
    BY <1>6, <1>9
  <2>1. M * l >= M * (K + 1)
    BY <1>6, <1>9
  <2>2. M * (K + 1) = M * K + M /\ (M - 1) * K = M * K - K /\ M * K \in Int
    BY <1>6
  <2> QED BY <1>6, <1>11, <1>12, <2>1, <2>2
<1> QED BY <1>6, <1>7, <1>8, <1>9, <1>13, <1>14 DEF l, D, K, P

\* Dealing out what is left over, largest remainder first, gives the rounded total,
\* and no cell is off by one.
LEMMA Dealt ==
  ASSUME NEW C, IsFiniteSet(C), NEW M \in Nat \ {0}, NEW raw, \A c \in C : raw[c] \in Nat,
         NEW B, StrictOrder(B, C), \A c, d \in C : raw[c] % M > raw[d] % M => <<c, d>> \in B,
         NEW place, \A c \in C : place[c] = Cardinality(Prior(C, B, c)),
         NEW down, \A c \in C : down[c] = raw[c] \div M,
         NEW t, t = (2 * Total(raw, C) + M) \div (2 * M),
         NEW left, left = t - Total(down, C),
         NEW got, \A c \in C :
           got[c] = down[c] + (IF left > place[c] THEN 1 + (left - place[c] - 1) \div Cardinality(C)
                                                  ELSE 0)
  PROVE  /\ Total(got, C) = t
         /\ \A c \in C : got[c] * M > raw[c] - M /\ got[c] * M < raw[c] + M
<1> DEFINE N == Cardinality(C)
           P == {c \in C : raw[c] % M > 0}
           K == Cardinality(P)
           U == {c \in C : place[c] < left}
           extra == [c \in C |-> IF c \in U THEN 1 ELSE 0]
<1>1. /\ Total(down, C) \in Int /\ t \in Int /\ left \in 0 .. K
      /\ N \in Nat /\ K \in Nat /\ K <= N /\ IsFiniteSet(U) /\ IsFiniteSet(P)
  <2>1. Total(down, C) \in Int /\ t \in Int /\ t - Total(down, C) \in 0 .. K
    BY LeftOver
  <2>2. IsFiniteSet(P) /\ K <= N /\ IsFiniteSet(U)
    BY FS_Subset
  <2> QED BY <2>1, <2>2, FS_CardinalityType
<1>2. (\A c \in C : place[c] \in 0 .. N - 1) /\ Cardinality(U) = left
  <2>1. left \in 0 .. Cardinality(C)
    BY <1>1
  <2> QED BY <2>1, Places
<1>3. ASSUME NEW c \in C PROVE got[c] = down[c] + extra[c] /\ extra[c] \in {0, 1}
  <2>1. CASE left > place[c]
    <3>1. left - place[c] - 1 \in 0 .. N - 1
      BY <1>1, <1>2, <2>1
    <3>2. (left - place[c] - 1) \div N = 0
      <4> DEFINE x == left - place[c] - 1
      <4>1. x \in 0 .. N - 1
        BY <3>1
      <4> HIDE DEF x, N
      <4>2. x \div N \in Int /\ N * (x \div N) <= x /\ x < N * (x \div N) + N
        BY <1>1, <4>1
      <4> DEFINE q == x \div N
      <4> HIDE DEF q
      <4>3. q \in Int /\ N * q <= x /\ x < N * q + N
        BY <4>2 DEF q
      <4>4. ASSUME q >= 1 PROVE FALSE
        <5>1. N * q >= N
          BY <1>1, <4>3, <4>4
        <5> QED BY <1>1, <4>1, <4>3, <5>1
      <4>5. ASSUME q <= -1 PROVE FALSE
        <5>1. N * q <= -N
          BY <1>1, <4>3, <4>5
        <5> QED BY <1>1, <4>1, <4>3, <5>1
      <4>6. q = 0
        BY <4>3, <4>4, <4>5
      <4> QED BY <4>6 DEF q, x
    <3>3. c \in U
      BY <1>1, <1>2, <2>1
    <3> QED BY <2>1, <3>2, <3>3
  <2>2. CASE ~(left > place[c])
    <3>1. c \notin U
      BY <1>1, <1>2, <2>2
    <3> QED BY <2>2, <3>1
  <2> QED BY <2>1, <2>2
<1>4. ASSUME NEW c \in C
      PROVE  /\ down[c] \in Int /\ raw[c] % M \in 0 .. M - 1
             /\ raw[c] = M * down[c] + (raw[c] % M) /\ raw[c] \in Int
  <2>1. raw[c] \in Int /\ down[c] = raw[c] \div M
    OBVIOUS
  <2>2. /\ raw[c] \div M \in Int /\ raw[c] % M \in 0 .. M - 1
        /\ raw[c] = M * (raw[c] \div M) + (raw[c] % M)
    BY <2>1, Division
  <2> QED BY <2>1, <2>2
<1>5. ASSUME NEW c \in C, raw[c] % M = 0 PROVE extra[c] = 0
  <2>1. P \in SUBSET Prior(C, B, c)
    BY <1>5 DEF Prior
  <2>2. IsFiniteSet(Prior(C, B, c))
    BY FS_Subset DEF Prior
  <2>3. K <= place[c]
    BY <2>1, <2>2, FS_Subset
  <2>4. ~(place[c] < left)
    BY <1>1, <1>2, <2>3
  <2> QED BY <2>4
<1>6. Total(extra, C) = left
  <2>1. U \in SUBSET C /\ (\A c \in C \ U : extra[c] = 0) /\ (\A c \in U : extra[c] = 1)
    OBVIOUS
  <2>2. Ints(extra, C)
    BY <1>3 DEF Ints
  <2> HIDE DEF U, extra
  <2>3. Total(extra, C) = Total(extra, U)
    BY <2>1, <2>2, TotalSupport
  <2>4. Total(extra, U) = 1 * Cardinality(U)
    BY <1>1, <2>1, TotalConstant
  <2> QED BY <1>1, <1>2, <2>3, <2>4
<1>7. Total(got, C) = t
  <2>1. Ints(down, C) /\ Ints(extra, C)
    BY <1>3, <1>4 DEF Ints
  <2> HIDE DEF extra
  <2>2. Total(got, C) = Total(down, C) + Total(extra, C)
    BY <1>3, <2>1, TotalAdd
  <2> QED BY <1>1, <1>6, <2>2
<1>8. ASSUME NEW c \in C PROVE got[c] * M > raw[c] - M /\ got[c] * M < raw[c] + M
  <2> DEFINE q == down[c]
             e == extra[c]
             a == raw[c]
             r == a % M
  <2>1. q \in Int /\ e \in {0, 1} /\ r \in 0 .. M - 1 /\ a = M * q + r /\ got[c] = q + e
        /\ (r = 0 => e = 0)
    <3>1. extra[c] \in {0, 1} /\ got[c] = down[c] + extra[c]
      BY <1>3
    <3> HIDE DEF extra
    <3> QED BY <1>4, <1>5, <3>1
  <2> HIDE DEF q, e, a, r
  <2>2. (q + e) * M = M * q + e * M /\ M * q \in Int
    BY <2>1
  <2>3. e * M = IF e = 0 THEN 0 ELSE M
    BY <2>1
  <2>4. got[c] * M > a - M /\ got[c] * M < a + M
    BY <2>1, <2>2, <2>3
  <2> QED BY <2>4 DEF a
<1> QED BY <1>7, <1>8

\* What holds of 0 and of the successor of every number it holds of.
LEMMA Inductive ==
  ASSUME NEW G, 0 \in G, \A n \in Nat : n \in G => n + 1 \in G
  PROVE  Nat \subseteq G
<1> DEFINE Bad == Nat \ G
<1> SUFFICES ASSUME Bad # {} PROVE FALSE
  OBVIOUS
<1>1. PICK n \in Bad : \A k \in Bad : <<k, n>> \notin OpToRel(<, Nat)
  <2>1. Bad \subseteq Nat
    OBVIOUS
  <2> HIDE DEF Bad
  <2> QED BY <2>1, NatLessThanWellFounded, WFMin
<1>2. n - 1 \in Nat /\ <<n - 1, n>> \in OpToRel(<, Nat)
  BY DEF OpToRel
<1>3. n - 1 \in G
  BY <1>1, <1>2
<1>4. n \in Nat /\ n \notin G /\ (n - 1) + 1 = n
  OBVIOUS
<1> HIDE DEF Bad
<1>5. (n - 1) + 1 \in G
  BY <1>2, <1>3
<1> QED BY <1>4, <1>5
-----------------------------------------------------------------------------
(***************************************************************************)
(* The ready intervals.                                                    *)
(***************************************************************************)

LEMMA IntervalsAssumed == Intervals!IntervalAssumption /\ IsFiniteSet(Models)
  BY GatewayStoresAssumption DEF GatewayStoresAssumption, Intervals!IntervalAssumption,
     Intervals!IsFiniteSet, IsFiniteSet

\* What LedgerKept says of one step.
Keeps(R, T) ==
  \A i \in DOMAIN R :
    /\ i \in DOMAIN T
    /\ ~Intervals!Open(R[i]) => T[i] = R[i]
    /\ \A j \in DOMAIN T \ DOMAIN R : T[j].model = R[i].model => ~Intervals!Open(T[i])

Rows == Intervals!ReadyRows

\* A row begins, and ends.
LEMMA RowBegins ==
  ASSUME NEW m \in Models, NEW t \in Nat, NEW id \in Nat
  PROVE  Intervals!Row(m, t, id) \in Rows /\ Intervals!Row(m, t, id).model = m
  BY DEF Rows, Intervals!ReadyRows, Intervals!Row

LEMMA RowEnds ==
  ASSUME NEW r \in Rows, NEW x \in Nat
  PROVE  /\ [r EXCEPT !.end = x, !.seen = x] \in Rows
         /\ [r EXCEPT !.end = x, !.seen = x].model = r.model
         /\ [r EXCEPT !.seen = x] \in Rows
         /\ [r EXCEPT !.seen = x].model = r.model
         /\ [r EXCEPT !.seen = None] \in Rows
         /\ \A id \in Nat : Intervals!Ended(r, x, id) \in Rows
  BY DEF Rows, Intervals!ReadyRows, Intervals!Ended

\* A finite set written as a sequence.
LEMMA SetListed ==
  ASSUME NEW S, IsFiniteSet(S)
  PROVE  Intervals!SetToSeq(S) \in Seq(S)
<1>1. PICK n \in Nat : ExistsBijection(1 .. n, S)
  BY FS_NatBijection
<1>2. Cardinality(S) = n
  BY <1>1, FS_CountingElements
<1>3. PICK f \in [1 .. n -> S] : \A i, j \in 1 .. n : f[i] = f[j] => i = j
  BY <1>1 DEF ExistsBijection, Bijection, Injection, IsInjective
<1>4. Intervals!Cardinality(S) = n
  BY <1>2 DEF Intervals!Cardinality, Cardinality
<1>5. \E g \in [1 .. n -> S] : Intervals!IsInjective(g)
  BY <1>3 DEF Intervals!IsInjective
<1>6. Intervals!SetToSeq(S) \in [1 .. n -> S]
  BY <1>4, <1>5 DEF Intervals!SetToSeq
<1> QED BY <1>6

LEMMA Lined ==
  ASSUME NEW S, NEW n \in Nat, NEW T, T = [i \in 1 .. n |-> T[i]], \A i \in 1 .. n : T[i] \in S
  PROVE  T \in Seq(S) /\ DOMAIN T = 1 .. n /\ Len(T) = n
<1>1. T \in [1 .. n -> S]
  OBVIOUS
<1> QED BY <1>1

LEMMA Joined ==
  ASSUME NEW S, NEW A \in Seq(S), NEW B \in Seq(S), NEW n \in Nat, n = Len(A)
  PROVE  /\ A \o B \in Seq(S) /\ Len(A \o B) = n + Len(B) /\ Len(B) \in Nat
         /\ \A i \in 1 .. n : i \in DOMAIN (A \o B) /\ (A \o B)[i] = A[i]
         /\ \A j \in DOMAIN (A \o B) \ (1 .. n) :
              j - n \in 1 .. Len(B) /\ (A \o B)[j] = B[j - n]
  OBVIOUS

\* An event is applied to the rows.
LEMMA AppliedKeeps ==
  ASSUME NEW R \in Seq(Rows), NEW e \in Intervals!Told, NEW id \in Nat
  PROVE  Intervals!Applied(R, e, id) \in Seq(Rows) /\ Keeps(R, Intervals!Applied(R, e, id))
<1>1. e.model \in Models /\ e.time \in Nat
  BY DEF Intervals!Told
<1>2. ASSUME Intervals!Opened(R, e, id) # R
      PROVE  Intervals!Opened(R, e, id) \in Seq(Rows) /\ Keeps(R, Intervals!Opened(R, e, id))
  <2> DEFINE r == Intervals!Row(e.model, e.time, id)
             T == Append(R, r)
  <2>1. Intervals!Opened(R, e, id) = T
    BY <1>2 DEF Intervals!Opened
  <2>2. \A i \in DOMAIN R : R[i].model = e.model => ~Intervals!Open(R[i])
    BY <1>2 DEF Intervals!Opened
  <2>3. r.model = e.model /\ r \in Rows
    BY <1>1, RowBegins
  <2> HIDE DEF r
  <2>4. T \in Seq(Rows)
    BY <2>3
  <2>5. \A i \in DOMAIN R : i \in DOMAIN T /\ T[i] = R[i]
    BY <2>3
  <2>6. \A j \in DOMAIN T \ DOMAIN R : T[j] = r
    BY <2>3
  <2> HIDE DEF T
  <2>7. Keeps(R, T)
    BY <2>2, <2>3, <2>5, <2>6 DEF Keeps
  <2> QED BY <2>1, <2>4, <2>7
<1>3. Intervals!Closed(R, e, id) \in Seq(Rows) /\ Keeps(R, Intervals!Closed(R, e, id))
  <2> DEFINE T == Intervals!Closed(R, e, id)
  <2>1. DOMAIN R = 1 .. Len(R) /\ Len(R) \in Nat /\ \A i \in DOMAIN R : R[i] \in Rows
    OBVIOUS
  <2>2. /\ T = [i \in 1 .. Len(R) |-> T[i]]
        /\ \A i \in DOMAIN R : T[i] = R[i] \/ T[i] = Intervals!Ended(R[i], e.time, id)
        /\ \A i \in DOMAIN R : ~Intervals!Open(R[i]) => T[i] = R[i]
    BY <2>1 DEF Intervals!Closed
  <2> HIDE DEF T
  <2>3. \A i \in DOMAIN R : T[i] \in Rows
    <3> SUFFICES ASSUME NEW i \in DOMAIN R PROVE T[i] \in Rows
      OBVIOUS
    <3>1. Intervals!Ended(R[i], e.time, id) \in Rows
      BY <1>1, <2>1, RowEnds
    <3> QED BY <2>1, <2>2, <3>1
  <2>4. T \in Seq(Rows) /\ DOMAIN T = DOMAIN R
    BY <2>1, <2>2, <2>3, Lined
  <2> QED BY <2>2, <2>4 DEF Keeps, T
<1>4. Keeps(R, R)
  BY DEF Keeps
<1> QED BY <1>2, <1>3, <1>4 DEF Intervals!Applied

\* The running models of a heartbeat are taken down.
LEMMA SnapshotKeeps ==
  ASSUME NEW R \in Seq(Rows), NEW M \in SUBSET Models, NEW t \in Nat
  PROVE  LET T == Intervals!SnapshotRows(R, M, t) IN T \in Seq(Rows) /\ Keeps(R, T)
<1> DEFINE kept == Intervals!WithoutLegacy(R, M, t)
           new == {m \in M : ~Intervals!OpenIn(kept, m)}
           fresh == {Intervals!Row(m, t, 0) : m \in new}
           added == Intervals!SetToSeq(fresh)
           all == kept \o added
           listed == Intervals!Refreshed(all, M, t)
           T == Intervals!SnapshotRows(R, M, t)
<1>1. DOMAIN R = 1 .. Len(R) /\ Len(R) \in Nat /\ \A i \in DOMAIN R : R[i] \in Rows
  OBVIOUS
\* Without what an old version left.
<1>2. /\ kept = [i \in 1 .. Len(R) |-> kept[i]]
      /\ \A i \in DOMAIN R :
           \/ kept[i] = R[i]
           \/ kept[i] = [R[i] EXCEPT !.end = R[i].start, !.seen = R[i].start]
      /\ \A i \in DOMAIN R : ~Intervals!Open(R[i]) => kept[i] = R[i]
  BY <1>1 DEF Intervals!WithoutLegacy
<1>3. /\ kept \in Seq(Rows) /\ Len(kept) = Len(R)
      /\ \A i \in DOMAIN R : kept[i].model = R[i].model
  <2>1. \A i \in DOMAIN R : kept[i] \in Rows /\ kept[i].model = R[i].model
    <3> HIDE DEF kept
    <3> SUFFICES ASSUME NEW i \in DOMAIN R
                 PROVE  kept[i] \in Rows /\ kept[i].model = R[i].model
      OBVIOUS
    <3> DEFINE x == R[i].start
    <3>1. R[i] \in Rows /\ x \in Nat
      BY <1>1 DEF Rows, Intervals!ReadyRows
    <3>2. kept[i] = R[i] \/ kept[i] = [R[i] EXCEPT !.end = x, !.seen = x]
      BY <1>2
    <3> HIDE DEF x
    <3> QED BY <3>1, <3>2, RowEnds
  <2> HIDE DEF kept
  <2> QED BY <1>1, <1>2, <2>1, Lined
\* Followed by the models that run now and did not.
<1>4. added \in Seq(fresh) /\ fresh \subseteq Rows
  <2>1. IsFiniteSet(new)
    BY IntervalsAssumed, FS_Subset
  <2>2. \A m \in new : Intervals!Row(m, t, 0) \in Rows
    BY RowBegins
  <2> DEFINE f == [m \in new |-> Intervals!Row(m, t, 0)]
  <2>3. fresh = {f[m] : m \in DOMAIN f} /\ DOMAIN f = new
    OBVIOUS
  <2> HIDE DEF new, f
  <2>4. IsFiniteSet(fresh)
    BY <2>1, <2>3, ImageFinite
  <2> QED BY <2>2, <2>4, SetListed
<1> HIDE DEF kept, added, fresh
<1>5. added \in Seq(Rows)
  BY <1>4
<1>6. /\ all \in Seq(Rows) /\ Len(all) = Len(R) + Len(added) /\ Len(added) \in Nat
      /\ \A i \in DOMAIN R : i \in DOMAIN all /\ all[i] = kept[i]
      /\ \A j \in DOMAIN all \ DOMAIN R :
           /\ j - Len(R) \in 1 .. Len(added)
           /\ all[j] = added[j - Len(R)]
  BY <1>1, <1>3, <1>5, Joined
<1>7. \A j \in DOMAIN all \ DOMAIN R : \E m \in new : all[j] = Intervals!Row(m, t, 0)
  <2>1. \A k \in 1 .. Len(added) : added[k] \in fresh
    BY <1>4
  <2> HIDE DEF new, all
  <2> QED BY <1>6, <2>1 DEF fresh
<1> HIDE DEF all
<1>8. DOMAIN all = 1 .. Len(all) /\ Len(all) \in Nat /\ \A i \in DOMAIN all : all[i] \in Rows
  BY <1>6
\* What runs is seen, what does not is closed.
<1>9. /\ listed = [i \in DOMAIN all |-> listed[i]]
      /\ \A i \in DOMAIN all : listed[i] = all[i] \/ listed[i] = [all[i] EXCEPT !.seen = t]
      /\ \A i \in DOMAIN all : ~Intervals!Open(all[i]) => listed[i] = all[i]
  BY DEF Intervals!Refreshed
<1> HIDE DEF listed
<1>10. \A i \in DOMAIN all : listed[i] \in Rows /\ listed[i].model = all[i].model
  <2> SUFFICES ASSUME NEW i \in DOMAIN all
               PROVE  listed[i] \in Rows /\ listed[i].model = all[i].model
    OBVIOUS
  <2>1. all[i] \in Rows
    BY <1>8
  <2>2. listed[i] = all[i] \/ listed[i] = [all[i] EXCEPT !.seen = t]
    BY <1>9
  <2> QED BY <2>1, <2>2, RowEnds
<1>11. T = Intervals!MissingClosed(listed, M, t)
  BY DEF Intervals!SnapshotRows, all, listed, kept, added, fresh
<1>12. DOMAIN listed = DOMAIN all
  BY <1>9
<1> HIDE DEF T
<1>13. /\ T = [i \in DOMAIN all |-> T[i]]
       /\ \A i \in DOMAIN all : T[i] = listed[i] \/ T[i] = [listed[i] EXCEPT !.end = t, !.seen = t]
       /\ \A i \in DOMAIN all : ~Intervals!Open(listed[i]) => T[i] = listed[i]
  BY <1>11, <1>12 DEF Intervals!MissingClosed
<1>14. \A i \in DOMAIN all : T[i] \in Rows /\ T[i].model = all[i].model
  <2> SUFFICES ASSUME NEW i \in DOMAIN all
               PROVE  T[i] \in Rows /\ T[i].model = all[i].model
    OBVIOUS
  <2>1. listed[i] \in Rows /\ listed[i].model = all[i].model
    BY <1>10
  <2>2. T[i] = listed[i] \/ T[i] = [listed[i] EXCEPT !.end = t, !.seen = t]
    BY <1>13
  <2>3. /\ [listed[i] EXCEPT !.end = t, !.seen = t] \in Rows
        /\ [listed[i] EXCEPT !.end = t, !.seen = t].model = listed[i].model
    BY <2>1, RowEnds
  <2> QED BY <2>1, <2>2, <2>3
<1>15. T \in Seq(Rows) /\ DOMAIN T = DOMAIN all
  BY <1>8, <1>13, <1>14, Lined
<1>16. \A i \in DOMAIN R : i \in DOMAIN T /\ (~Intervals!Open(R[i]) => T[i] = R[i])
  BY <1>2, <1>6, <1>9, <1>13, <1>15
<1>17. ASSUME NEW i \in DOMAIN R, NEW j \in DOMAIN T \ DOMAIN R, T[j].model = R[i].model
       PROVE  ~Intervals!Open(T[i])
  <2>1. PICK m \in new : all[j] = Intervals!Row(m, t, 0)
    BY <1>7, <1>15
  <2>2. all[j].model = m
    BY <2>1 DEF Intervals!Row
  <2>3. kept[i].model = m
    BY <1>3, <1>14, <1>15, <1>17, <2>2
  <2>4. ~Intervals!Open(kept[i])
    BY <1>1, <1>2, <2>3 DEF Intervals!OpenIn
  <2> QED BY <1>6, <1>9, <1>13, <2>4
<1> QED BY <1>15, <1>16, <1>17 DEF Keeps, T

\* One more turn, call, fault or query.
Spent == [turns : Nat, calls : Nat, faults : Nat, queries : Nat]

LEMMA SpentGrows ==
  ASSUME NEW s \in Spent
  PROVE  /\ [s EXCEPT !.turns = @ + 1] \in Spent /\ [s EXCEPT !.calls = @ + 1] \in Spent
         /\ [s EXCEPT !.faults = @ + 1] \in Spent /\ [s EXCEPT !.queries = @ + 1] \in Spent
  BY DEF Spent

LEMMA IntervalsInit == Intervals!Init => Intervals!TypeOK
<1> SUFFICES ASSUME Intervals!Init PROVE Intervals!TypeOK
  OBVIOUS
<1> DEFINE f == [m \in Legacy |-> [Intervals!Row(m, 0, 0) EXCEPT !.seen = None]]
           T == {f[m] : m \in DOMAIN f}
<1>1. IsFiniteSet(Legacy) /\ Legacy \subseteq Models
  BY IntervalsAssumed, FS_Subset DEF Intervals!IntervalAssumption
<1>2. IsFiniteSet(T)
  <2>1. DOMAIN f = Legacy
    OBVIOUS
  <2> HIDE DEF f
  <2> QED BY <1>1, <2>1, ImageFinite
<1>3. T \subseteq Rows
  BY <1>1, RowBegins, RowEnds
<1>4. rows = Intervals!SetToSeq(T)
  BY DEF Intervals!Init
<1> HIDE DEF T
<1>5. rows \in Seq(Rows)
  BY <1>2, <1>3, <1>4, SetListed
<1> QED BY <1>5 DEF Intervals!Init, Intervals!TypeOK, Rows

\* Every step keeps the types and what is history.
LEMMA IntervalsNext ==
  ASSUME Intervals!TypeOK, [Intervals!Next]_(Intervals!vars)
  PROVE  Intervals!TypeOK' /\ Keeps(rows, rows')
<1> USE DEF Rows
<1>0. intervalSpent \in Spent
  BY DEF Intervals!TypeOK, Spent
<1>1. Keeps(rows, rows)
  BY DEF Keeps
<1>2. CASE UNCHANGED Intervals!vars
  BY <1>1, <1>2 DEF Intervals!TypeOK, Intervals!vars
<1>3. CASE Intervals!Tick
  BY <1>1, <1>3 DEF Intervals!TypeOK, Intervals!Tick
<1>4. ASSUME NEW m \in Models, Intervals!Turn(m) PROVE Intervals!TypeOK' /\ Keeps(rows, rows')
  <2>1. now + Skew \in Nat
    BY IntervalsAssumed DEF Intervals!IntervalAssumption, Intervals!TypeOK
  <2> DEFINE e == Intervals!Event(IF m \in readyModels THEN "closes" ELSE "opens", m, now + Skew)
  <2>2. e \in Intervals!Told
    BY <2>1 DEF Intervals!Told, Intervals!Event
  <2>3. backlog' = Append(backlog, e)
    BY <1>4 DEF Intervals!Turn
  <2> HIDE DEF e
  <2>4. backlog' \in Seq(Intervals!Told)
    BY <2>2, <2>3 DEF Intervals!TypeOK
  <2>5. intervalSpent' \in Spent
    BY <1>0, <1>4, SpentGrows DEF Intervals!Turn
  <2>6. readyModels' \subseteq Models
    BY <1>4 DEF Intervals!Turn, Intervals!TypeOK
  <2> QED BY <1>1, <1>4, <2>4, <2>5, <2>6 DEF Intervals!TypeOK, Intervals!Turn, Spent
<1>5. CASE Intervals!Beat
  <2>1. beat' \in Intervals!Beats
    BY <1>5 DEF Intervals!Beat, Intervals!Beats, Intervals!TypeOK
  <2> QED BY <1>1, <1>5, <2>1 DEF Intervals!TypeOK, Intervals!Beat
<1>6. ASSUME NEW e \in Intervals!Told, Intervals!Store(e)
      PROVE  /\ events' \in Seq(Intervals!Told) /\ rows' \in Seq(Rows)
             /\ DOMAIN events \subseteq DOMAIN events' /\ Keeps(rows, rows')
  <2>1. rows' \in Seq(Rows) /\ Keeps(rows, rows')
    BY <1>6, AppliedKeeps DEF Intervals!TypeOK, Intervals!Store
  <2> QED BY <1>6, <2>1 DEF Intervals!TypeOK, Intervals!Store
<1>7. CASE Intervals!Deliver
  <2>1. beat \in Intervals!Beats /\ beat.todo \in Seq(Intervals!Told) /\ beat.todo # <<>>
    BY <1>7 DEF Intervals!Deliver, Intervals!TypeOK, Intervals!Beats
  <2>2. Head(beat.todo) \in Intervals!Told /\ Tail(beat.todo) \in Seq(Intervals!Told)
    BY <2>1
  <2>3. beat' \in Intervals!Beats
    BY <1>7, <2>1, <2>2 DEF Intervals!Deliver, Intervals!Beats
  <2>4. CASE Intervals!Store(Head(beat.todo)) /\ UNCHANGED intervalSpent
    BY <1>6, <1>7, <2>2, <2>3, <2>4 DEF Intervals!Deliver, Intervals!TypeOK
  <2>5. CASE Intervals!StoreOnly(Head(beat.todo))
    <3>1. intervalSpent' \in Spent
      BY <1>0, <2>5, SpentGrows DEF Intervals!StoreOnly
    <3>2. events' \in Seq(Intervals!Told) /\ DOMAIN events \subseteq DOMAIN events'
      BY <2>2, <2>5 DEF Intervals!StoreOnly, Intervals!TypeOK
    <3> QED BY <1>1, <1>7, <2>3, <2>5, <3>1, <3>2
         DEF Intervals!Deliver, Intervals!StoreOnly, Intervals!TypeOK, Spent
  <2> QED BY <1>7, <2>4, <2>5 DEF Intervals!Deliver
<1>8. CASE Intervals!Finish
  <2>1. beat.models \in SUBSET Models /\ beat.at \in Nat /\ beat.sent \in Nat
    BY <1>8 DEF Intervals!Finish, Intervals!TypeOK, Intervals!Beats
  <2>2. rows' = rows \/ rows' = Intervals!SnapshotRows(rows, beat.models, beat.at)
    BY <1>8 DEF Intervals!Finish
  <2>3. rows' \in Seq(Rows) /\ Keeps(rows, rows')
    BY <1>1, <2>1, <2>2, SnapshotKeeps DEF Intervals!TypeOK
  <2>4. backlog' \in Seq(Intervals!Told)
    BY <1>8, <2>1 DEF Intervals!Finish, Intervals!TypeOK
  <2> QED BY <1>8, <2>1, <2>3, <2>4 DEF Intervals!Finish, Intervals!TypeOK
<1>9. CASE Intervals!Break
  <2>1. intervalSpent' \in Spent
    BY <1>0, <1>9, SpentGrows DEF Intervals!Break
  <2> QED BY <1>1, <1>9, <2>1 DEF Intervals!Break, Intervals!TypeOK, Spent
<1>10. ASSUME NEW m \in Models, Intervals!GatewayEvent(m)
       PROVE  Intervals!TypeOK' /\ Keeps(rows, rows')
  <2> DEFINE e == Intervals!Event(IF m \in readyModels THEN "opens" ELSE "closes", m, now)
  <2>1. e \in Intervals!Told
    BY DEF Intervals!Told, Intervals!Event, Intervals!TypeOK
  <2>2. Intervals!Store(e)
    BY <1>10 DEF Intervals!GatewayEvent, Intervals!Store
  <2> HIDE DEF e
  <2>3. intervalSpent' \in Spent
    BY <1>0, <1>10, SpentGrows DEF Intervals!GatewayEvent
  <2> QED BY <1>6, <1>10, <2>1, <2>2, <2>3 DEF Intervals!GatewayEvent, Intervals!TypeOK, Spent
<1>11. CASE Intervals!Query
  BY <1>1, <1>11 DEF Intervals!Query, Intervals!TypeOK
<1>12. ASSUME NEW id \in backfill, Intervals!Backfill(id)
       PROVE  Intervals!TypeOK' /\ Keeps(rows, rows')
  <2>1. events[id] \in Intervals!Told /\ id \in Nat
    BY DEF Intervals!TypeOK
  <2>2. rows' \in Seq(Rows) /\ Keeps(rows, rows')
    BY <1>12, <2>1, AppliedKeeps DEF Intervals!Backfill, Intervals!TypeOK
  <2> QED BY <1>12, <2>2 DEF Intervals!Backfill, Intervals!TypeOK
<1> QED BY <1>2, <1>3, <1>4, <1>5, <1>7, <1>8, <1>9, <1>10, <1>11, <1>12 DEF Intervals!Next

LEMMA IntervalsTyped == Intervals!Spec => []Intervals!TypeOK
<1>1. Intervals!TypeOK /\ [Intervals!Next]_(Intervals!vars) => Intervals!TypeOK'
  BY IntervalsNext
<1> QED BY <1>1, IntervalsInit, PTL DEF Intervals!Spec

\* What is closed in the ledger of ready times stays as it is, and no interval
\* of a model begins while one is open.
THEOREM LedgerKeeps == Intervals!Spec => LedgerKept
<1> DEFINE Kept ==
             [\A i \in DOMAIN rows :
                /\ i \in DOMAIN rows'
                /\ ~Intervals!Open(rows[i]) => rows'[i] = rows[i]
                /\ \A j \in DOMAIN rows' \ DOMAIN rows :
                     rows'[j].model = rows[i].model => ~Intervals!Open(rows'[i])]_(Intervals!vars)
<1>1. Intervals!TypeOK /\ [Intervals!Next]_(Intervals!vars) => Kept
  BY IntervalsNext DEF Keeps
<1> QED BY <1>1, IntervalsTyped, PTL DEF Intervals!Spec, LedgerKept, Intervals!LedgerKept
-----------------------------------------------------------------------------
(* The shares of the models in what was ready.                             *)

\* A finite set of numbers has a greatest and a least one.
LEMMA Extremes ==
  ASSUME NEW S, IsFiniteSet(S), S \subseteq Int, S # {}
  PROVE  (\E a \in S : \A x \in S : x <= a) /\ (\E a \in S : \A x \in S : a <= x)
<1> DEFINE G == {T \in SUBSET S : T # {} => /\ \E a \in T : \A x \in T : x <= a
                                           /\ \E a \in T : \A x \in T : a <= x}
<1>1. ASSUME NEW T \in SUBSET S, (SUBSET T) \ {T} \subseteq G PROVE T \in G
  <2>0. CASE T = {}
    BY <2>0
  <2> SUFFICES ASSUME T # {} PROVE T \in G
    BY <2>0
  <2>1. PICK b \in T : TRUE
    OBVIOUS
  <2>2. T \ {b} \in G
    BY <1>1
  <2>3. CASE T \ {b} = {}
    BY <2>1, <2>3
  <2>4. CASE T \ {b} # {}
    <3>1. PICK a \in T \ {b} : \A x \in T \ {b} : x <= a
      BY <2>2, <2>4
    <3>2. PICK c \in T \ {b} : \A x \in T \ {b} : c <= x
      BY <2>2, <2>4
    <3>3. \E d \in T : \A x \in T : x <= d
      BY <2>1, <3>1
    <3>4. \E d \in T : \A x \in T : d <= x
      BY <2>1, <3>2
    <3> QED BY <3>3, <3>4
  <2> QED BY <2>3, <2>4
<1> HIDE DEF G
<1>2. S \in G
  BY <1>1, SubsetInduction
<1> QED BY <1>2 DEF G

\* Between a point and a later one a moment lies between two consecutive ones.
LEMMA Between ==
  ASSUME NEW P, IsFiniteSet(P), P \subseteq Int, NEW t \in Int,
         NEW a \in P, a <= t, NEW b \in P, t < b
  PROVE  \E g \in P \X P : g[1] <= t /\ t < g[2] /\ \A x \in P : x <= g[1] \/ x >= g[2]
<1> DEFINE A == {x \in P : x <= t}
           B == {x \in P : t < x}
<1>1. IsFiniteSet(A) /\ IsFiniteSet(B) /\ A \subseteq Int /\ B \subseteq Int /\ a \in A /\ b \in B
  BY FS_Subset
<1>2. PICK c \in A : \A x \in A : x <= c
  BY <1>1, Extremes
<1>3. PICK d \in B : \A x \in B : d <= x
  BY <1>1, Extremes
<1>4. <<c, d>> \in P \X P /\ c <= t /\ t < d
  BY <1>2, <1>3
<1>5. \A x \in P : x <= c \/ x >= d
  BY <1>1, <1>2, <1>3
<1> QED BY <1>4, <1>5

\* Who is ready in the tick t, by the intervals I.
ReadyIn(I, t) == {m \in Models : \E i \in I : i.model = m /\ i.from <= t /\ t < i.to}

\* The segments part the ticks in which a model is ready, and who is active in
\* a segment is ready in each of its ticks.
LEMMA SegmentsPart ==
  ASSUME NEW I, NEW n \in Nat,
         \A i \in I : i.model \in Models /\ i.from \in 1 .. n /\ i.to \in 1 .. n
  PROVE  LET G == Intervals!Segments(I) IN
         /\ IsFiniteSet(G)
         /\ \A g \in G : /\ g[1] \in 1 .. n /\ g[2] \in 1 .. n /\ g[1] < g[2]
                         /\ \A t \in g[1] .. g[2] - 1 : Intervals!ActiveIn(I, g) = ReadyIn(I, t)
         /\ \A t \in Int : ReadyIn(I, t) # {} => \E g \in G : t \in g[1] .. g[2] - 1
         /\ \A g, h \in G : \A t \in g[1] .. g[2] - 1 : t \in h[1] .. h[2] - 1 => g = h
<1> DEFINE P == Intervals!Points(I)
           G == Intervals!Segments(I)
<1>1. P \subseteq 1 .. n /\ \A i \in I : i.from \in P /\ i.to \in P
  BY DEF Intervals!Points
<1>2. G = {g \in P \X P : g[1] < g[2] /\ \A x \in P : x <= g[1] \/ x >= g[2]}
  BY DEF Intervals!Segments
<1> HIDE DEF P, G
<1>3. IsFiniteSet(P)
  <2>1. IsFiniteSet(1 .. n)
    BY FS_Interval
  <2> QED BY <1>1, <2>1, FS_Subset
<1>4. IsFiniteSet(G)
  BY <1>2, <1>3, FS_Product, FS_Subset
<1>5. ASSUME NEW g \in G
      PROVE  /\ g[1] \in 1 .. n /\ g[2] \in 1 .. n /\ g[1] < g[2]
             /\ \A x \in P : x <= g[1] \/ x >= g[2]
             /\ g = <<g[1], g[2]>>
  <2>1. PICK x \in P, y \in P : g = <<x, y>>
    BY <1>2
  <2>2. g[1] = x /\ g[2] = y
    BY <2>1
  <2> QED BY <1>1, <1>2, <2>1, <2>2
<1>6. ASSUME NEW g \in G, NEW t \in g[1] .. g[2] - 1
      PROVE  Intervals!ActiveIn(I, g) = ReadyIn(I, t)
  <2>1. g[1] \in Int /\ g[2] \in Int /\ t \in Int /\ g[1] <= t /\ t < g[2]
    BY <1>5
  <2>2. ASSUME NEW i \in I PROVE (i.from < g[2] /\ i.to > g[1]) <=> (i.from <= t /\ t < i.to)
    <3>1. i.from \in P /\ i.to \in P /\ i.from \in Int /\ i.to \in Int
      BY <1>1
    <3>2. (i.from <= g[1] \/ i.from >= g[2]) /\ (i.to <= g[1] \/ i.to >= g[2])
      BY <1>5, <3>1
    <3> QED BY <2>1, <3>1, <3>2
  <2> QED BY <2>2 DEF Intervals!ActiveIn, ReadyIn
<1>7. ASSUME NEW t \in Int, ReadyIn(I, t) # {} PROVE \E g \in G : t \in g[1] .. g[2] - 1
  <2>1. PICK i \in I : i.from <= t /\ t < i.to
    BY <1>7 DEF ReadyIn
  <2>2. i.from \in P /\ i.to \in P /\ P \subseteq Int
    BY <1>1
  <2>3. PICK g \in P \X P : g[1] <= t /\ t < g[2] /\ \A x \in P : x <= g[1] \/ x >= g[2]
    <3> DEFINE a == i.from
               b == i.to
    <3>1. a \in P /\ b \in P /\ a <= t /\ t < b
      BY <2>1, <2>2
    <3> HIDE DEF a, b
    <3> QED BY <1>3, <2>2, <3>1, Between
  <2>4. g[1] \in Int /\ g[2] \in Int
    BY <2>2
  <2> QED BY <1>2, <2>3, <2>4
<1>8. ASSUME NEW g \in G, NEW h \in G, NEW t \in g[1] .. g[2] - 1, t \in h[1] .. h[2] - 1
      PROVE  g = h
  <2>1. /\ g[1] \in P /\ g[2] \in P /\ h[1] \in P /\ h[2] \in P
        /\ \A k \in {g, h} : /\ k[1] \in Int /\ k[2] \in Int /\ k[1] <= t /\ t < k[2]
                             /\ \A x \in P : x <= k[1] \/ x >= k[2]
    BY <1>2, <1>5, <1>8
  <2>2. g[1] = h[1] /\ g[2] = h[2]
    BY <2>1
  <2> QED BY <1>5, <2>2
<1> QED BY <1>4, <1>5, <1>6, <1>7, <1>8 DEF G

\* The ticks of a share.
Ticks(s) == s.from .. s.from + s.length - 1

\* What is summed up share by share may be summed up tick by tick.
LEMMA TickByTick ==
  ASSUME NEW A, IsFiniteSet(A), NEW T, IsFiniteSet(T),
         \A s \in A : s.length \in Nat /\ s.from \in Int /\ Ticks(s) \subseteq T,
         \A t \in T : \E s \in A : t \in Ticks(s),
         \A r, s \in A : \A t \in Ticks(r) : t \in Ticks(s) => r = s,
         NEW c, \A s \in A : c[s] \in Int,
         NEW W, \A s \in A : W[s] = c[s] * s.length,
         NEW V, \A s \in A : \A t \in Ticks(s) : V[t] = c[s]
  PROVE  Total(W, A) = Total(V, T)
<1> DEFINE share == [t \in T |-> CHOOSE s \in A : t \in Ticks(s)]
<1>1. \A t \in T : share[t] \in A /\ t \in Ticks(share[t])
  OBVIOUS
<1> HIDE DEF share
<1>2. Ints(V, T)
  BY <1>1 DEF Ints
<1>3. ASSUME NEW s \in A PROVE W[s] = Total(V, PartOf(T, share, s))
  <2>1. PartOf(T, share, s) = Ticks(s)
    BY <1>1 DEF PartOf
  <2>2. s.from \in Int /\ s.length \in Nat
    OBVIOUS
  <2>3. IsFiniteSet(Ticks(s)) /\ Cardinality(Ticks(s)) = s.length
    <3> DEFINE a == s.from
               b == s.from + s.length - 1
    <3>1. /\ a \in Int /\ b \in Int /\ Ticks(s) = a .. b
          /\ s.length = IF a > b THEN 0 ELSE b - a + 1
      BY <2>2 DEF Ticks
    <3> HIDE DEF a, b
    <3> QED BY <3>1, FS_Interval
  <2>4. Total(V, Ticks(s)) = c[s] * Cardinality(Ticks(s))
    BY <2>3, TotalConstant
  <2> QED BY <2>1, <2>3, <2>4
<1>4. Total(V, T) = Total(W, A)
  <2>1. IsFiniteSet(T) /\ IsFiniteSet(A) /\ \A t \in T : share[t] \in A
    BY <1>1
  <2> QED BY ONLY <1>2, <1>3, <2>1, TotalParts
<1> QED BY <1>4

(***************************************************************************)
(* Whole is divided evenly among any of the models.                        *)
(***************************************************************************)

\* g is the factorial on D.
Product(g, D) == g = [n \in D |-> IF n = 0 THEN 1 ELSE n * g[n - 1]]

LEMMA ProductsAgree ==
  ASSUME NEW n \in Nat, NEW m \in Nat, n <= m, NEW g, Product(g, 0 .. n),
         NEW h, Product(h, 0 .. m)
  PROVE  g[n] = h[n]
<1> DEFINE G == {k \in Nat : k <= n => g[k] = h[k]}
<1>1. /\ \A k \in 0 .. n : g[k] = IF k = 0 THEN 1 ELSE k * g[k - 1]
      /\ \A k \in 0 .. m : h[k] = IF k = 0 THEN 1 ELSE k * h[k - 1]
  BY DEF Product
<1>2. 0 \in G
  BY <1>1
<1>3. ASSUME NEW k \in Nat, k \in G PROVE k + 1 \in G
  <2> SUFFICES ASSUME k + 1 <= n PROVE g[k + 1] = h[k + 1]
    OBVIOUS
  <2>1. g[k + 1] = (k + 1) * g[k] /\ h[k + 1] = (k + 1) * h[k]
    BY <1>1
  <2> QED BY <1>3, <2>1
<1> HIDE DEF G
<1>4. Nat \subseteq G
  BY <1>2, <1>3, Inductive
<1> QED BY <1>4 DEF G

LEMMA ProductExists == \A n \in Nat : \E g : Product(g, 0 .. n)
<1> DEFINE G == {n \in Nat : \E g : Product(g, 0 .. n)}
<1>1. 0 \in G
  <2>1. Product([k \in 0 .. 0 |-> 1], 0 .. 0)
    BY DEF Product
  <2> QED BY <2>1
<1>2. ASSUME NEW n \in Nat, n \in G PROVE n + 1 \in G
  <2>1. PICK g : Product(g, 0 .. n)
    BY <1>2
  <2> DEFINE h == [k \in 0 .. n + 1 |-> IF k = n + 1 THEN (n + 1) * g[n] ELSE g[k]]
  <2>2. ASSUME NEW k \in 0 .. n + 1 PROVE h[k] = IF k = 0 THEN 1 ELSE k * h[k - 1]
    <3>1. \A j \in 0 .. n : g[j] = IF j = 0 THEN 1 ELSE j * g[j - 1]
      BY <2>1 DEF Product
    <3>2. CASE k = n + 1
      BY <3>2
    <3>3. CASE k \in 0 .. n
      <4>1. h[k] = g[k] /\ (k # 0 => h[k - 1] = g[k - 1])
        BY <3>3
      <4> HIDE DEF h
      <4> QED BY <3>1, <3>3, <4>1
    <3> QED BY <3>2, <3>3
  <2>3. h = [k \in 0 .. n + 1 |-> h[k]]
    OBVIOUS
  <2> HIDE DEF h
  <2>4. Product(h, 0 .. n + 1)
    BY <2>2, <2>3 DEF Product
  <2> QED BY <2>4
<1> HIDE DEF G
<1>3. Nat \subseteq G
  BY <1>1, <1>2, Inductive
<1> QED BY <1>3 DEF G

LEMMA FactorialIs ==
  \A n \in Nat : Intervals!Factorial[n] = IF n = 0 THEN 1 ELSE n * Intervals!Factorial[n - 1]
<1> DEFINE the(n) == CHOOSE g : Product(g, 0 .. n)
           f == [n \in Nat |-> the(n)[n]]
<1>1. \A n \in Nat : Product(the(n), 0 .. n)
  BY ProductExists
<1>2. \A n \in Nat : the(n)[n] = IF n = 0 THEN 1 ELSE n * the(n)[n - 1]
  <2> SUFFICES ASSUME NEW n \in Nat
               PROVE  the(n)[n] = IF n = 0 THEN 1 ELSE n * the(n)[n - 1]
    OBVIOUS
  <2> DEFINE g == the(n)
  <2>1. Product(g, 0 .. n)
    BY <1>1
  <2> HIDE DEF g, the
  <2>2. g[n] = IF n = 0 THEN 1 ELSE n * g[n - 1]
    BY <2>1 DEF Product
  <2> QED BY <2>2 DEF g
<1>3. ASSUME NEW n \in Nat \ {0} PROVE the(n)[n - 1] = the(n - 1)[n - 1]
  <2>1. /\ n - 1 \in Nat /\ n - 1 <= n
        /\ Product(the(n), 0 .. n) /\ Product(the(n - 1), 0 .. n - 1)
    BY <1>1
  <2> HIDE DEF the
  <2> QED BY <2>1, ProductsAgree
<1>4. \A n \in Nat : f[n] = IF n = 0 THEN 1 ELSE n * f[n - 1]
  <2> HIDE DEF the
  <2> QED BY <1>2, <1>3
<1>5. f = [n \in Nat |-> f[n]]
  OBVIOUS
<1> HIDE DEF f
<1>6. Product(f, Nat)
  BY <1>4, <1>5 DEF Product
<1>7. Intervals!Factorial = CHOOSE g : Product(g, Nat)
  BY DEF Intervals!Factorial, Product
<1>8. Product(Intervals!Factorial, Nat)
  BY <1>6, <1>7
<1> QED BY <1>8 DEF Product

LEMMA FactorialDivided ==
  \A n \in Nat : /\ Intervals!Factorial[n] \in Nat
                /\ \A k \in 1 .. n : \E c \in Nat : Intervals!Factorial[n] = c * k
<1> DEFINE f == Intervals!Factorial
           G == {n \in Nat : f[n] \in Nat /\ \A k \in 1 .. n : \E c \in Nat : f[n] = c * k}
<1>2. \A n \in Nat : f[n] = IF n = 0 THEN 1 ELSE n * f[n - 1]
  BY FactorialIs
<1> HIDE DEF f
<1>3. 0 \in G
  BY <1>2
<1>4. ASSUME NEW n \in Nat, n \in G PROVE n + 1 \in G
  <2>1. f[n + 1] = (n + 1) * f[n] /\ f[n] \in Nat
    BY <1>2, <1>4
  <2>2. ASSUME NEW k \in 1 .. n + 1 PROVE \E c \in Nat : f[n + 1] = c * k
    <3>1. CASE k = n + 1
      <4>1. f[n + 1] = f[n] * k
        BY <2>1, <3>1
      <4> QED BY <2>1, <4>1
    <3>2. CASE k # n + 1
      <4>1. PICK c \in Nat : f[n] = c * k
        BY <1>4, <3>2
      <4>2. (n + 1) * (c * k) = ((n + 1) * c) * k /\ (n + 1) * c \in Nat
        BY <4>1
      <4> QED BY <2>1, <4>1, <4>2
    <3> QED BY <3>1, <3>2
  <2>3. f[n + 1] \in Nat
    BY <2>1
  <2> QED BY <2>2, <2>3
<1> HIDE DEF G
<1>5. Nat \subseteq G
  BY <1>3, <1>4, Inductive
<1> QED BY <1>5 DEF G, f

LEMMA WholeDivided ==
  ASSUME NEW A \in SUBSET Models, A # {}, NEW a \in Nat
  PROVE  /\ Intervals!Whole \div Cardinality(A) \in Nat
         /\ (a * Intervals!Whole) \div Cardinality(A) = (Intervals!Whole \div Cardinality(A)) * a
<1> DEFINE k == Cardinality(A)
           n == Cardinality(Models)
           w == Intervals!Whole
<1>1. k \in Nat \ {0} /\ n \in Nat /\ k \in 1 .. n
  BY IntervalsAssumed, FS_CardinalityType, FS_Subset, FS_EmptySet
<1>2. w = Intervals!Factorial[n]
  BY DEF Intervals!Whole, Intervals!Cardinality, Cardinality
<1> HIDE DEF k, n, w
<1>3. PICK c \in Nat : w = c * k
  BY <1>1, <1>2, FactorialDivided
<1>4. w \div k = c
  BY <1>1, <1>3, Exact
<1>5. a * (c * k) = (c * a) * k /\ c * a \in Nat
  BY <1>1
<1>6. (a * w) \div k = c * a
  BY <1>1, <1>3, <1>5, Exact
<1> QED BY <1>4, <1>6 DEF k, w

(***************************************************************************)
(* What billing reads of the ledger.                                       *)
(***************************************************************************)

LEMMA MaxMinOfTwo ==
  ASSUME NEW a \in Int, NEW b \in Int
  PROVE  /\ Intervals!Max({a, b}) = IF a >= b THEN a ELSE b
         /\ Intervals!Min({a, b}) = IF a <= b THEN a ELSE b
<1>1. /\ \E x \in {a, b} : \A y \in {a, b} : x >= y
      /\ \E x \in {a, b} : \A y \in {a, b} : x <= y
  OBVIOUS
<1>2. Intervals!Max({a, b}) \in {a, b} /\ \A y \in {a, b} : Intervals!Max({a, b}) >= y
  BY <1>1 DEF Intervals!Max
<1>3. Intervals!Min({a, b}) \in {a, b} /\ \A y \in {a, b} : Intervals!Min({a, b}) <= y
  BY <1>1 DEF Intervals!Min
<1> QED BY <1>2, <1>3

\* The intervals that end a query are those of the rows, cut to its time.
LEMMA CutToQuery ==
  ASSUME Intervals!TypeOK
  PROVE  LET I == Intervals!Intervals(1, now) IN
         /\ \A i \in I : i.model \in Models /\ i.from \in 1 .. now /\ i.to \in 1 .. now
         /\ \A t \in 1 .. now - 1 : {m \in Models : Intervals!Billed(m, t)} = ReadyIn(I, t)
<1> DEFINE I == Intervals!Intervals(1, now)
           R == Intervals!ToSet(rows)
           end(r) == Intervals!EffectiveEnd(r)
           cut(r) == [model |-> r.model, from |-> IF r.start >= 1 THEN r.start ELSE 1,
                      to |-> IF end(r) <= now THEN end(r) ELSE now]
<1>1. now \in Nat
  BY DEF Intervals!TypeOK
<1>2. ASSUME NEW r \in R PROVE r.model \in Models /\ r.start \in Nat /\ end(r) \in Nat
  <2>1. r \in Rows
    BY DEF Intervals!TypeOK, Intervals!ToSet, Rows
  <2> QED BY <2>1 DEF Rows, Intervals!ReadyRows, Intervals!EffectiveEnd
<1> HIDE DEF R, end
<1>3. I = {cut(r) : r \in {x \in R : x.start < now /\ end(x) > 1}}
  <2>1. \A r \in R : /\ Intervals!Max({r.start, 1}) = IF r.start >= 1 THEN r.start ELSE 1
                     /\ Intervals!Min({end(r), now}) = IF end(r) <= now THEN end(r) ELSE now
    <3> SUFFICES ASSUME NEW r \in R
                 PROVE  /\ Intervals!Max({r.start, 1}) = IF r.start >= 1 THEN r.start ELSE 1
                        /\ Intervals!Min({end(r), now}) = IF end(r) <= now THEN end(r) ELSE now
      OBVIOUS
    <3> DEFINE a == r.start
               b == end(r)
    <3>1. a \in Int /\ b \in Int
      BY <1>2
    <3> HIDE DEF a, b
    <3>2. /\ Intervals!Max({a, 1}) = IF a >= 1 THEN a ELSE 1
          /\ Intervals!Min({b, now}) = IF b <= now THEN b ELSE now
      BY <1>1, <3>1, MaxMinOfTwo
    <3> QED BY <3>2 DEF a, b
  <2>2. I = {[model |-> r.model, from |-> Intervals!Max({r.start, 1}),
              to |-> Intervals!Min({end(r), now})] : r \in {x \in R : x.start < now /\ end(x) > 1}}
    BY DEF Intervals!Intervals, R, end
  <2> HIDE DEF I
  <2> QED BY <2>1, <2>2
<1> HIDE DEF I
<1>4. ASSUME NEW i \in I PROVE i.model \in Models /\ i.from \in 1 .. now /\ i.to \in 1 .. now
  <2>1. PICK r \in R : r.start < now /\ end(r) > 1 /\ i = cut(r)
    BY <1>3
  <2> QED BY <1>1, <1>2, <2>1
<1>5. ASSUME NEW t \in 1 .. now - 1, NEW m \in Models
      PROVE  Intervals!Billed(m, t) <=> \E i \in I : i.model = m /\ i.from <= t /\ t < i.to
  <2>1. Intervals!Billed(m, t) <=> \E r \in R : r.model = m /\ r.start <= t /\ t < end(r)
    BY DEF Intervals!Billed, R, end
  <2>2. ASSUME NEW r \in R, r.model = m, r.start <= t, t < end(r)
        PROVE  \E i \in I : i.model = m /\ i.from <= t /\ t < i.to
    <3>1. cut(r) \in I
      BY <1>1, <1>2, <1>3, <2>2
    <3>2. cut(r).model = m /\ cut(r).from <= t /\ t < cut(r).to
      BY <1>1, <1>2, <2>2
    <3> QED BY <3>1, <3>2
  <2>3. ASSUME NEW i \in I, i.model = m, i.from <= t, t < i.to
        PROVE  \E r \in R : r.model = m /\ r.start <= t /\ t < end(r)
    <3>1. PICK r \in R : r.start < now /\ end(r) > 1 /\ i = cut(r)
      BY <1>3
    <3> QED BY <1>1, <1>2, <2>3, <3>1
  <2> QED BY <2>1, <2>2, <2>3
<1> QED BY <1>4, <1>5 DEF I, ReadyIn

LEMMA SameSum == \A F, S : Intervals!SumFunctionOnSet(F, S) = Total(F, S)
  BY DEF Intervals!SumFunctionOnSet, Intervals!FoldFunctionOnSet, Intervals!MapThenFoldSet,
     Total, SumFunctionOnSet, FoldFunctionOnSet, MapThenFoldSet

LEMMA SameCount == \A S : Intervals!Cardinality(S) = Cardinality(S)
  BY DEF Intervals!Cardinality, Cardinality

LEMMA SharesAreExact == Intervals!TypeOK => Intervals!SharesAddUp
<1> SUFFICES ASSUME Intervals!TypeOK PROVE Intervals!SharesAddUp
  OBVIOUS
<1> DEFINE I == Intervals!Intervals(1, now)
           G == Intervals!Segments(I)
           Active(g) == Intervals!ActiveIn(I, g)
           share(g) == [length |-> g[2] - g[1], active |-> Active(g), from |-> g[1]]
           shares == {share(g) : g \in G}
           Busy == [t \in 1 .. (now - 1) |-> {m \in Models : Intervals!Billed(m, t)}]
           A(m) == {s \in shares : m \in s.active}
           T(m) == {t \in 1 .. (now - 1) : m \in Busy[t]}
           w == Intervals!Whole
           Seconds(m) == [s \in A(m) |-> s.length]
           Billable(m) == [s \in A(m) |-> (s.length * w) \div Intervals!Cardinality(s.active)]
           Shared(m) == [t \in T(m) |-> w \div Intervals!Cardinality(Busy[t])]
<1>1. now \in Nat
  BY DEF Intervals!TypeOK
<1>2. /\ \A i \in I : i.model \in Models /\ i.from \in 1 .. now /\ i.to \in 1 .. now
      /\ \A t \in 1 .. now - 1 : Busy[t] = ReadyIn(I, t)
  BY CutToQuery
<1>3. /\ IsFiniteSet(G)
      /\ \A g \in G : /\ g[1] \in 1 .. now /\ g[2] \in 1 .. now /\ g[1] < g[2]
                      /\ \A t \in g[1] .. g[2] - 1 : Active(g) = ReadyIn(I, t)
      /\ \A t \in Int : ReadyIn(I, t) # {} => \E g \in G : t \in g[1] .. g[2] - 1
      /\ \A g, h \in G : \A t \in g[1] .. g[2] - 1 : t \in h[1] .. h[2] - 1 => g = h
  <2> HIDE DEF I
  <2> QED BY <1>1, <1>2, SegmentsPart
<1>4. (\A m \in Models : /\ Total(Seconds(m), A(m)) = Cardinality(T(m))
                         /\ Total(Billable(m), A(m)) = Total(Shared(m), T(m)))
        => Intervals!SharesAddUp
  BY SameSum, SameCount DEF Intervals!SharesAddUp, Intervals!ModelReady, Intervals!SumOver
<1> HIDE DEF I, G, Active, w, Busy
<1>5. IsFiniteSet(shares)
  <2> DEFINE f == [g \in G |-> share(g)]
  <2>1. shares = {f[g] : g \in DOMAIN f} /\ IsFiniteSet(DOMAIN f)
    BY <1>3
  <2> HIDE DEF f
  <2> QED BY <2>1, ImageFinite
<1>6. ASSUME NEW s \in shares
      PROVE  /\ s.length \in Nat /\ s.from \in Int /\ s.active \in SUBSET Models
             /\ \A t \in Ticks(s) : t \in 1 .. now - 1 /\ Busy[t] = s.active
  <2>1. PICK g \in G : s = share(g)
    OBVIOUS
  <2>2. /\ g[1] \in 1 .. now /\ g[2] \in 1 .. now /\ g[1] < g[2]
        /\ \A t \in g[1] .. g[2] - 1 : Active(g) = ReadyIn(I, t)
    BY <1>3
  <2>3. s.length = g[2] - g[1] /\ s.from = g[1] /\ s.active = Active(g)
    BY <2>1
  <2>4. s.from + s.length - 1 = g[2] - 1
    BY <2>2, <2>3
  <2>5. Ticks(s) = g[1] .. g[2] - 1
    BY <2>3, <2>4 DEF Ticks
  <2>6. \A t \in Ticks(s) : t \in 1 .. now - 1
    BY <1>1, <2>2, <2>5
  <2>7. \A t \in Ticks(s) : Busy[t] = s.active
    BY <1>2, <2>2, <2>3, <2>5, <2>6
  <2>8. s.active \in SUBSET Models
    <3>1. g[1] \in g[1] .. g[2] - 1
      BY <2>2
    <3> QED BY <2>2, <2>3, <3>1 DEF ReadyIn
  <2> HIDE DEF shares
  <2> QED BY <1>1, <2>2, <2>3, <2>6, <2>7, <2>8
<1>7. ASSUME NEW t \in 1 .. now - 1, Busy[t] # {} PROVE \E s \in shares : t \in Ticks(s)
  <2>1. t \in Int /\ ReadyIn(I, t) # {}
    BY <1>2, <1>7
  <2>2. PICK g \in G : t \in g[1] .. g[2] - 1
    BY <1>3, <2>1
  <2>3. g[1] \in Int /\ g[2] \in Int
    BY <1>3
  <2>4. t \in Ticks(share(g))
    BY <2>2, <2>3 DEF Ticks
  <2> QED BY <2>4
<1>8. ASSUME NEW r \in shares, NEW s \in shares, NEW t \in Ticks(r), t \in Ticks(s)
      PROVE  r = s
  <2>1. PICK g \in G, h \in G : r = share(g) /\ s = share(h)
    OBVIOUS
  <2>2. g[1] \in Int /\ g[2] \in Int /\ h[1] \in Int /\ h[2] \in Int
    BY <1>3
  <2>3. Ticks(r) = g[1] .. g[2] - 1 /\ Ticks(s) = h[1] .. h[2] - 1
    BY <2>1, <2>2 DEF Ticks
  <2>4. g = h
    BY <1>3, <1>8, <2>3
  <2> QED BY <2>1, <2>4
<1> HIDE DEF shares
<1>9. ASSUME NEW m \in Models
      PROVE  /\ IsFiniteSet(A(m)) /\ IsFiniteSet(T(m))
             /\ \A s \in A(m) : s.length \in Nat /\ s.from \in Int /\ Ticks(s) \subseteq T(m)
             /\ \A t \in T(m) : \E s \in A(m) : t \in Ticks(s)
             /\ \A r, s \in A(m) : \A t \in Ticks(r) : t \in Ticks(s) => r = s
  <2>1. IsFiniteSet(A(m))
    BY <1>5, FS_Subset
  <2>2. IsFiniteSet(T(m))
    <3>1. IsFiniteSet(1 .. now - 1)
      BY <1>1, FS_Interval
    <3> QED BY <3>1, FS_Subset
  <2>3. \A s \in A(m) : s.length \in Nat /\ s.from \in Int /\ Ticks(s) \subseteq T(m)
    BY <1>6
  <2>4. \A t \in T(m) : \E s \in A(m) : t \in Ticks(s)
    <3> SUFFICES ASSUME NEW t \in T(m) PROVE \E s \in A(m) : t \in Ticks(s)
      OBVIOUS
    <3>1. PICK s \in shares : t \in Ticks(s)
      BY <1>7
    <3>2. m \in s.active
      BY <1>6, <3>1
    <3> QED BY <3>1, <3>2
  <2>5. \A r, s \in A(m) : \A t \in Ticks(r) : t \in Ticks(s) => r = s
    BY <1>8
  <2> QED BY <2>1, <2>2, <2>3, <2>4, <2>5
<1>10. ASSUME NEW m \in Models PROVE Total(Seconds(m), A(m)) = Cardinality(T(m))
  <2> DEFINE one == [s \in A(m) |-> 1]
             each == [t \in T(m) |-> 1]
  <2>1. ASSUME NEW s \in A(m) PROVE Seconds(m)[s] = one[s] * s.length /\ one[s] \in Int
    <3>1. s.length \in Nat
      BY <1>6
    <3>2. Seconds(m)[s] = s.length /\ one[s] = 1
      OBVIOUS
    <3> HIDE DEF Seconds, one
    <3> QED BY <3>1, <3>2
  <2>2. \A s \in A(m) : \A t \in Ticks(s) : each[t] = one[s]
    BY <1>9
  <2>3. Total(each, T(m)) = 1 * Cardinality(T(m)) /\ Cardinality(T(m)) \in Nat
    <3> DEFINE Z == T(m)
    <3>1. (\A t \in Z : each[t] = 1) /\ IsFiniteSet(Z)
      BY <1>9
    <3> HIDE DEF each, Z
    <3>2. Total(each, Z) = 1 * Cardinality(Z) /\ Cardinality(Z) \in Nat
      BY <3>1, TotalConstant, FS_CardinalityType
    <3> QED BY <3>2 DEF Z
  <2> HIDE DEF A, T, Seconds, one, each
  <2>4. Total(Seconds(m), A(m)) = Total(each, T(m))
    BY <1>9, <2>1, <2>2, TickByTick
  <2> QED BY <2>3, <2>4
<1>11. ASSUME NEW m \in Models PROVE Total(Billable(m), A(m)) = Total(Shared(m), T(m))
  <2> DEFINE part == [s \in A(m) |-> w \div Cardinality(s.active)]
  <2>1. ASSUME NEW s \in A(m)
        PROVE  part[s] \in Int /\ Billable(m)[s] = part[s] * s.length
    <3>1. s.active \in SUBSET Models /\ s.active # {} /\ s.length \in Nat
      BY <1>6
    <3>2. /\ w \div Cardinality(s.active) \in Nat
          /\ (s.length * w) \div Cardinality(s.active) = (w \div Cardinality(s.active)) * s.length
      BY <3>1, WholeDivided DEF w
    <3>3. Intervals!Cardinality(s.active) = Cardinality(s.active)
      BY SameCount
    <3> HIDE DEF A
    <3> QED BY <3>2, <3>3
  <2>2. ASSUME NEW s \in A(m), NEW t \in Ticks(s) PROVE Shared(m)[t] = part[s]
    <3>1. t \in T(m) /\ Busy[t] = s.active
      BY <1>6, <1>9
    <3>2. Intervals!Cardinality(s.active) = Cardinality(s.active)
      BY SameCount
    <3> HIDE DEF A, T
    <3> QED BY <3>1, <3>2
  <2> HIDE DEF A, T, Billable, Shared, part
  <2> QED BY <1>9, <2>1, <2>2, TickByTick
<1> QED BY <1>4, <1>10, <1>11

\* The cost of every tick in which some model was ready is charged exactly once,
\* split evenly among those that were, whatever the rows of the ledger overlap.
THEOREM SharesExact == Intervals!Spec => []Intervals!SharesAddUp /\ []SharesAddUp
<1>1. Intervals!SharesAddUp => SharesAddUp
  BY DEF SharesAddUp
<1> QED BY <1>1, SharesAreExact, IntervalsTyped, PTL
-----------------------------------------------------------------------------
(***************************************************************************)
(* The billed requests.                                                    *)
(***************************************************************************)

Settlements == Ledger!Snaps \cup {None}
BilledLines ==
  [id : Nat, model : BilledModels, alias : Aliases \cup {None}, app : Apps,
   usage : Usages, snap : Settlements]
BilledRows ==
  [id : Nat, model : BilledModels, alias : Aliases \cup {None}, app : Apps,
   usage : Usages, hash : Nat, snap : Settlements]

LedgerTypeOK ==
  /\ prices \in [BilledModels -> Prices]
  /\ log \in Seq(BilledLines)
  /\ table \in Seq(BilledRows)
  /\ importing \in Nat \cup {None}
  /\ billingSpent \in [served : Nat, changes : Nat, imports : Nat, fails : Nat]

\* The lines of an old version come first in the log and are numbered; every
\* later line has its prices.
LogProper ==
  \A i \in DOMAIN log :
    IF log[i].id <= OldLines THEN log[i].id = i ELSE Ledger!Frozen(log[i])

\* So a row without prices, or one that got them late, is the import of its
\* line, and no line is imported twice.
TableProper ==
  /\ \A i \in DOMAIN table :
       IF table[i].id <= OldLines THEN table[i].hash = table[i].id /\ table[i].id # 0
                                  ELSE Ledger!Frozen(table[i])
  /\ \A i, j \in DOMAIN table : table[i].hash = table[j].hash /\ table[i].hash # 0 => i = j

\* A row a query read is in the table, and if it had its prices it has them.
ReadProper ==
  \A q \in BillingQueries : \A r \in queries[q].rows :
    /\ \E i \in DOMAIN table : table[i].id = r.id
    /\ Ledger!Frozen(r) => \A i \in DOMAIN table : table[i].id = r.id => Ledger!Frozen(table[i])

QueriesProper ==
  queries \in [BillingQueries -> [phase : {"no", "begun", "read", "done", "failed"},
                                  prices : [BilledModels -> Prices], rows : SUBSET BilledRows]]

LedgerInv == LedgerTypeOK /\ QueriesProper /\ LogProper /\ TableProper /\ ReadProper
-----------------------------------------------------------------------------
LEMMA LedgerAssumed == Ledger!BillingAssumption
  BY GatewayStoresAssumption DEF GatewayStoresAssumption

\* Costs are numbers, so what a request is billed at is not None.
LEMMA RoundedTyped == \A x \in Int : Ledger!Rounded(x) \in Int
<1>1. Fine \in Nat \ {0}
  BY LedgerAssumed DEF Ledger!BillingAssumption
<1>2. \A a \in Int, b \in Nat \ {0} : a \div b \in Int
  OBVIOUS
<1> SUFFICES ASSUME NEW x \in Int PROVE Ledger!Rounded(x) \in Int
  OBVIOUS
<1>3. 2 * x + Fine \in Int /\ 2 * Fine \in Nat \ {0}
  BY <1>1
<1> DEFINE y == (2 * x + Fine) \div (2 * Fine)
<1>4. y \in Int
  BY <1>2, <1>3
<1> HIDE DEF y
<1>5. Fine * y \in Int
  BY <1>1, <1>4
<1> QED BY <1>5 DEF Ledger!Rounded, y

LEMMA CostTyped ==
  ASSUME NEW p \in Prices, NEW u \in Usages
  PROVE  /\ Ledger!UsageCost(p, u) \in Int
         /\ Ledger!Snapshot(p, u) \in Ledger!Snaps
         /\ [price |-> p, cost |-> Ledger!Rounded(Ledger!UsageCost(p, u))] \in Ledger!Snaps
<1>1. /\ u \in [prompt : Nat, completion : Nat, cache : Nat, seconds : Nat]
      /\ p \in [flat : Nat, input : Nat, output : Nat, cached : Nat]
  BY LedgerAssumed DEF Ledger!BillingAssumption
<1>2. \A x \in Int : Ledger!Max({x, 0}) \in Int
  <2> SUFFICES ASSUME NEW x \in Int PROVE Ledger!Max({x, 0}) \in Int
    OBVIOUS
  <2>1. \E y \in {x, 0} : \A z \in {x, 0} : y >= z
    OBVIOUS
  <2> QED BY <2>1 DEF Ledger!Max
<1>3. Ledger!Max({u.prompt - u.cache, 0}) \in Int
  BY <1>1, <1>2
<1> DEFINE m == Ledger!Max({u.prompt - u.cache, 0})
<1> HIDE DEF m
<1>4. m * p.input \in Int /\ u.completion * p.output \in Int /\ u.cache * p.cached \in Int
  BY <1>1, <1>3 DEF m
<1>5. Ledger!UsageCost(p, u) \in Int
  BY <1>1, <1>4 DEF Ledger!UsageCost, m
<1>6. Ledger!Rounded(Ledger!UsageCost(p, u)) \in Int
  BY <1>5, RoundedTyped
<1> QED BY <1>5, <1>6 DEF Ledger!Snapshot, Ledger!Snaps

LEMMA SnapsAreNotNone == None \notin Ledger!Snaps
  BY LedgerAssumed DEF Ledger!BillingAssumption

\* A line in the table.
LEMMA StoredTyped ==
  ASSUME NEW line \in BilledLines, NEW hash \in Nat
  PROVE  LET r == Ledger!Stored(line, hash) IN
           /\ r \in BilledRows /\ r.id = line.id /\ r.hash = hash
           /\ Ledger!Frozen(line) => Ledger!Frozen(r)
<1> DEFINE snap == IF line.snap = None THEN None
                                       ELSE [line.snap EXCEPT !.cost = Ledger!Rounded(@)]
<1>1. snap \in Settlements /\ (line.snap # None => snap # None)
  <2> SUFFICES ASSUME line.snap # None PROVE snap \in Ledger!Snaps /\ snap # None
    BY DEF Settlements
  <2>1. line.snap \in Ledger!Snaps
    BY DEF BilledLines, Settlements
  <2>2. Ledger!Rounded(line.snap.cost) \in Int
    BY <2>1, RoundedTyped DEF Ledger!Snaps
  <2>3. snap \in Ledger!Snaps
    BY <2>1, <2>2 DEF Ledger!Snaps
  <2> QED BY <2>3, SnapsAreNotNone
<1>2. Ledger!Stored(line, hash) =
        [id |-> line.id, model |-> line.model, alias |-> line.alias, app |-> line.app,
         usage |-> line.usage, hash |-> hash, snap |-> snap]
  BY DEF Ledger!Stored
<1> HIDE DEF snap
<1> QED BY <1>1, <1>2 DEF BilledLines, BilledRows, Ledger!Frozen
-----------------------------------------------------------------------------
\* What PersistSettles says of the table.
KeepsSettled(t, T) ==
  \A i \in DOMAIN t : i \in DOMAIN T /\ (Ledger!Frozen(t[i]) => T[i] = t[i])

LEMMA LedgerInit == Ledger!Init => LedgerInv
<1> SUFFICES ASSUME Ledger!Init PROVE LedgerInv
  OBVIOUS
<1>1. OldLines \in Nat
  BY LedgerAssumed DEF Ledger!BillingAssumption
<1>2. PICK u \in [1..OldLines -> Usages], m \in [1..OldLines -> BilledModels], app \in Apps :
        log = [i \in 1..OldLines |-> Ledger!Line(i, m[i], None, app, u[i], None)]
  BY DEF Ledger!Init
<1>3. \A i \in 1 .. OldLines : log[i] \in BilledLines /\ log[i].id = i
  BY <1>1, <1>2 DEF Ledger!Line, BilledLines, Settlements
<1>4. log \in Seq(BilledLines) /\ DOMAIN log = 1 .. OldLines
  <2>1. log \in [1 .. OldLines -> BilledLines]
    BY <1>2, <1>3
  <2> QED BY <1>1, <2>1
<1>5. LedgerTypeOK /\ QueriesProper
  BY <1>4 DEF Ledger!Init, LedgerTypeOK, QueriesProper
<1>6. LogProper
  BY <1>1, <1>3, <1>4 DEF LogProper
<1>7. TableProper /\ ReadProper
  BY DEF Ledger!Init, TableProper, ReadProper
<1> QED BY <1>5, <1>6, <1>7 DEF LedgerInv

\* A row is added to the table.
LEMMA AddedRow ==
  ASSUME LedgerInv, NEW r \in BilledRows, table' = Append(table, r), queries' = queries,
         IF r.id <= OldLines THEN r.hash = r.id /\ r.id # 0 ELSE Ledger!Frozen(r),
         r.hash # 0 => \A i \in DOMAIN table : table[i].hash # r.hash
  PROVE  table' \in Seq(BilledRows) /\ TableProper' /\ ReadProper' /\ KeepsSettled(table, table')
<1>1. /\ table \in Seq(BilledRows) /\ table' \in Seq(BilledRows)
      /\ DOMAIN table' = 1 .. (Len(table) + 1) /\ DOMAIN table = 1 .. Len(table)
      /\ Len(table) \in Nat
      /\ \A i \in DOMAIN table : table'[i] = table[i]
      /\ table'[Len(table) + 1] = r
  BY DEF LedgerInv, LedgerTypeOK
<1>2. \A i \in DOMAIN table' : i \in DOMAIN table \/ i = Len(table) + 1
  BY <1>1
<1>3. TableProper'
  BY <1>1, <1>2 DEF LedgerInv, TableProper
<1>4. KeepsSettled(table, table')
  BY <1>1 DEF KeepsSettled
<1>5. ASSUME NEW q \in BillingQueries, NEW x \in queries[q].rows
      PROVE  /\ \E i \in DOMAIN table' : table'[i].id = x.id
             /\ Ledger!Frozen(x) =>
                  \A i \in DOMAIN table' : table'[i].id = x.id => Ledger!Frozen(table'[i])
  <2>1. PICK k \in DOMAIN table : table[k].id = x.id
    BY DEF LedgerInv, ReadProper
  <2>2. ASSUME r.id = x.id, r.id <= OldLines PROVE FALSE
    <3>1. table[k].hash = table[k].id
      BY <2>1, <2>2 DEF LedgerInv, TableProper
    <3> QED BY <2>1, <2>2, <3>1
  <2>3. r.id = x.id => Ledger!Frozen(r)
    BY <2>2
  <2>4. \E i \in DOMAIN table' : table'[i].id = x.id
    BY <1>1, <2>1
  <2>5. ASSUME Ledger!Frozen(x), NEW i \in DOMAIN table', table'[i].id = x.id
        PROVE  Ledger!Frozen(table'[i])
    <3>1. CASE i \in DOMAIN table
      BY <1>1, <2>5, <3>1 DEF LedgerInv, ReadProper
    <3>2. CASE i \notin DOMAIN table
      BY <1>1, <1>2, <2>3, <2>5, <3>2
    <3> QED BY <3>1, <3>2
  <2> QED BY <2>4, <2>5
<1>6. ReadProper'
  BY <1>5 DEF ReadProper
<1> QED BY <1>1, <1>3, <1>4, <1>6

\* Only the table changes the table's and the queries' part of the invariant.
LEMMA TableAlone ==
  ASSUME LedgerInv, UNCHANGED <<table, queries>>
  PROVE  TableProper' /\ ReadProper' /\ QueriesProper' /\ KeepsSettled(table, table')
  BY DEF LedgerInv, TableProper, ReadProper, QueriesProper, KeepsSettled, LedgerTypeOK

LEMMA ServeStep ==
  ASSUME LedgerInv, NEW m \in BilledModels, NEW a \in Aliases \cup {None}, NEW app \in Apps,
         NEW u \in Usages, Ledger!Serve(m, a, app, u)
  PROVE  LedgerInv' /\ KeepsSettled(table, table')
<1> DEFINE id == OldLines + billingSpent.served + 1
           line == Ledger!Line(id, m, a, app, u, Ledger!Snapshot(prices[m], u))
           r == Ledger!Stored(line, 0)
<1>1. OldLines \in Nat /\ billingSpent.served \in Nat
  BY LedgerAssumed DEF Ledger!BillingAssumption, LedgerInv, LedgerTypeOK
<1>2. Ledger!Snapshot(prices[m], u) \in Ledger!Snaps
  <2>1. prices[m] \in Prices
    BY DEF LedgerInv, LedgerTypeOK
  <2> QED BY <2>1, CostTyped
<1>3. line \in BilledLines /\ line.id = id /\ Ledger!Frozen(line)
  BY <1>1, <1>2, SnapsAreNotNone DEF Ledger!Line, BilledLines, Settlements, Ledger!Frozen
<1>4. id \in Nat /\ ~(id <= OldLines)
  BY <1>1
<1>5. /\ log' = Append(log, line)
      /\ table' = Append(table, r) \/ UNCHANGED table
      /\ UNCHANGED <<prices, importing, queries>>
  BY DEF Ledger!Serve
<1> HIDE DEF line, id
<1>6. r \in BilledRows /\ r.id = id /\ r.hash = 0 /\ Ledger!Frozen(r)
  BY <1>3, StoredTyped
<1> HIDE DEF r
<1>7. table' \in Seq(BilledRows) /\ TableProper' /\ ReadProper' /\ KeepsSettled(table, table')
  <2>1. CASE table' = Append(table, r)
    BY <1>4, <1>5, <1>6, <2>1, AddedRow
  <2>2. CASE UNCHANGED table
    BY <1>5, <2>2, TableAlone DEF LedgerInv, LedgerTypeOK
  <2> QED BY <1>5, <2>1, <2>2
<1>8. billingSpent' \in [served : Nat, changes : Nat, imports : Nat, fails : Nat]
  <2>1. \/ billingSpent' = [billingSpent EXCEPT !.served = @ + 1]
        \/ billingSpent' = [billingSpent EXCEPT !.served = @ + 1, !.fails = @ + 1]
    BY DEF Ledger!Serve
  <2>2. billingSpent \in [served : Nat, changes : Nat, imports : Nat, fails : Nat]
    BY DEF LedgerInv, LedgerTypeOK
  <2>3. /\ billingSpent.served + 1 \in Nat /\ billingSpent.fails + 1 \in Nat
        /\ billingSpent = [served |-> billingSpent.served, changes |-> billingSpent.changes,
                           imports |-> billingSpent.imports, fails |-> billingSpent.fails]
        /\ billingSpent.changes \in Nat /\ billingSpent.imports \in Nat
        /\ billingSpent.served \in Nat /\ billingSpent.fails \in Nat
    BY ONLY <2>2
  <2>4. CASE billingSpent' = [billingSpent EXCEPT !.served = @ + 1]
    BY ONLY <2>2, <2>3, <2>4
  <2>5. CASE billingSpent' = [billingSpent EXCEPT !.served = @ + 1, !.fails = @ + 1]
    BY ONLY <2>2, <2>3, <2>5
  <2> QED BY <2>1, <2>4, <2>5
<1>9. log' \in Seq(BilledLines) /\ LogProper'
  <2>1. /\ log \in Seq(BilledLines) /\ log' \in Seq(BilledLines)
        /\ DOMAIN log' = 1 .. (Len(log) + 1) /\ DOMAIN log = 1 .. Len(log) /\ Len(log) \in Nat
        /\ \A i \in DOMAIN log : log'[i] = log[i]
        /\ log'[Len(log) + 1] = line
    BY <1>3, <1>5 DEF LedgerInv, LedgerTypeOK
  <2>2. ASSUME NEW i \in DOMAIN log'
        PROVE  IF log'[i].id <= OldLines THEN log'[i].id = i ELSE Ledger!Frozen(log'[i])
    <3>1. CASE i \in DOMAIN log
      BY <2>1, <3>1 DEF LedgerInv, LogProper
    <3>2. CASE i \notin DOMAIN log
      BY <1>3, <1>4, <2>1, <2>2, <3>2
    <3> QED BY <3>1, <3>2
  <2> QED BY <2>1, <2>2 DEF LogProper
<1> QED BY <1>5, <1>7, <1>8, <1>9 DEF LedgerInv, LedgerTypeOK, QueriesProper

LEMMA ImportLineStep ==
  ASSUME LedgerInv, Ledger!ImportLine
  PROVE  LedgerInv' /\ KeepsSettled(table, table')
<1> DEFINE i == importing + 1
           r == Ledger!Stored(log[i], i)
<1>1. /\ importing \in Nat /\ importing < Len(log) /\ log \in Seq(BilledLines)
      /\ table' = Ledger!Inserted(table, i) /\ importing' = i
      /\ UNCHANGED <<prices, log, queries, billingSpent>>
  BY DEF Ledger!ImportLine, LedgerInv, LedgerTypeOK
<1>2. i \in DOMAIN log /\ i \in Nat /\ i # 0 /\ log[i] \in BilledLines
  BY <1>1
<1>3. table' = table \/ (table' = Append(table, r) /\ \A j \in DOMAIN table : table[j].hash # i)
  BY <1>1 DEF Ledger!Inserted
<1>4. /\ r \in BilledRows /\ r.id = log[i].id /\ r.hash = i
      /\ Ledger!Frozen(log[i]) => Ledger!Frozen(r)
  <2> HIDE DEF i
  <2> QED BY <1>2, StoredTyped
<1> HIDE DEF r, i
<1>5. IF r.id <= OldLines THEN r.hash = r.id /\ r.id # 0 ELSE Ledger!Frozen(r)
  BY <1>2, <1>4 DEF LedgerInv, LogProper
<1>6. table' \in Seq(BilledRows) /\ TableProper' /\ ReadProper' /\ KeepsSettled(table, table')
  <2>1. CASE table' = table
    BY <1>1, <2>1, TableAlone DEF LedgerInv, LedgerTypeOK
  <2>2. CASE table' = Append(table, r) /\ \A j \in DOMAIN table : table[j].hash # i
    BY <1>1, <1>4, <1>5, <2>2, AddedRow
  <2> QED BY <1>3, <2>1, <2>2
<1> QED BY <1>1, <1>2, <1>6 DEF LedgerInv, LedgerTypeOK, LogProper, QueriesProper

\* A query writes the costs it computed.
LEMMA SettledRows ==
  ASSUME LedgerInv, NEW q \in BillingQueries
  PROVE  LET T == Ledger!Settled(table, q) IN
           /\ T \in Seq(BilledRows) /\ DOMAIN T = DOMAIN table
           /\ KeepsSettled(table, T)
           /\ \A i \in DOMAIN table :
                /\ T[i].id = table[i].id /\ T[i].hash = table[i].hash
                /\ (\E r \in queries[q].rows : r.id = table[i].id) => Ledger!Frozen(T[i])
                /\ Ledger!Frozen(T[i]) /\ ~Ledger!Frozen(table[i]) =>
                     T[i].snap.price = queries[q].prices[table[i].model]
<1> DEFINE T == Ledger!Settled(table, q)
           snap(i) == [price |-> queries[q].prices[table[i].model],
                       cost |-> Ledger!Rounded(Ledger!UsageCost(queries[q].prices[table[i].model],
                                                                table[i].usage))]
           due(i) == ~Ledger!Frozen(table[i])
                       /\ \E r \in queries[q].rows : ~Ledger!Frozen(r) /\ r.id = table[i].id
<1>1. /\ table \in Seq(BilledRows) /\ DOMAIN table = 1 .. Len(table) /\ Len(table) \in Nat
      /\ \A i \in DOMAIN table : table[i] \in BilledRows
  BY DEF LedgerInv, LedgerTypeOK
<1>2. ASSUME NEW i \in DOMAIN table PROVE snap(i) \in Ledger!Snaps /\ snap(i) # None
  <2>1. queries[q].prices[table[i].model] \in Prices /\ table[i].usage \in Usages
    BY <1>1 DEF LedgerInv, QueriesProper, BilledRows
  <2> QED BY <2>1, CostTyped, SnapsAreNotNone
<1>3. T = [i \in 1 .. Len(table) |->
             IF due(i) THEN [table[i] EXCEPT !.snap = snap(i)] ELSE table[i]]
  BY <1>1 DEF Ledger!Settled
<1> HIDE DEF T
<1>4. ASSUME NEW i \in DOMAIN table
      PROVE  /\ T[i] \in BilledRows /\ T[i].id = table[i].id /\ T[i].hash = table[i].hash
             /\ ~due(i) => T[i] = table[i]
             /\ due(i) => T[i].snap = snap(i)
  <2>1. table[i] \in BilledRows /\ snap(i) \in Settlements
    BY <1>1, <1>2 DEF Settlements
  <2>2. T[i] = IF due(i) THEN [table[i] EXCEPT !.snap = snap(i)] ELSE table[i]
    BY <1>1, <1>3
  <2> HIDE DEF snap, due
  <2> QED BY <2>1, <2>2 DEF BilledRows
<1>5. T \in Seq(BilledRows) /\ DOMAIN T = DOMAIN table
  <2>1. T \in [1 .. Len(table) -> BilledRows]
    <3> HIDE DEF snap, due
    <3>1. T = [i \in 1 .. Len(table) |-> T[i]]
      BY <1>3
    <3> QED BY <1>1, <1>4, <3>1
  <2> QED BY <1>1, <2>1
<1>6. ASSUME NEW i \in DOMAIN table, NEW r \in queries[q].rows, r.id = table[i].id
      PROVE  Ledger!Frozen(T[i])
  <2>1. CASE due(i)
    BY <1>2, <1>4, <2>1 DEF Ledger!Frozen
  <2>2. CASE Ledger!Frozen(table[i])
    BY <1>4, <2>2
  <2>3. CASE ~due(i) /\ ~Ledger!Frozen(table[i])
    <3>1. Ledger!Frozen(r)
      BY <1>6, <2>3
    <3> QED BY <1>6, <2>3, <3>1 DEF LedgerInv, ReadProper
  <2> QED BY <2>1, <2>2, <2>3
<1>7. ASSUME NEW i \in DOMAIN table, Ledger!Frozen(T[i]), ~Ledger!Frozen(table[i])
      PROVE  T[i].snap.price = queries[q].prices[table[i].model]
  <2>1. due(i)
    <3> HIDE DEF due
    <3> QED BY <1>4, <1>7
  <2>2. T[i].snap = snap(i)
    BY <1>4, <2>1
  <2> QED BY <2>2
<1>8. KeepsSettled(table, T)
  BY <1>4, <1>5 DEF KeepsSettled
<1> HIDE DEF snap, due
<1> QED BY <1>4, <1>5, <1>6, <1>7, <1>8 DEF T

LEMMA QueryReadStep ==
  ASSUME LedgerInv, NEW q \in BillingQueries, Ledger!QueryBegin(q) \/ Ledger!QueryRead(q)
  PROVE  LedgerInv' /\ KeepsSettled(table, table')
<1>1. UNCHANGED <<prices, log, table, importing, billingSpent>>
  BY DEF Ledger!QueryBegin, Ledger!QueryRead
<1>2. /\ QueriesProper'
      /\ \A p \in BillingQueries : p # q => queries'[p].rows = queries[p].rows
      /\ queries'[q].rows \subseteq Ledger!ToSet(table)
  <2>1. CASE Ledger!QueryBegin(q)
    BY <2>1 DEF Ledger!QueryBegin, LedgerInv, LedgerTypeOK, QueriesProper
  <2>2. CASE Ledger!QueryRead(q)
    <3> DEFINE X == Ledger!ToSet(table)
    <3>1. X \in SUBSET BilledRows
      BY DEF Ledger!ToSet, LedgerInv, LedgerTypeOK
    <3>2. queries' = [queries EXCEPT ![q].phase = "read", ![q].rows = X]
      BY <2>2 DEF Ledger!QueryRead
    <3> HIDE DEF X
    <3>3. QueriesProper
      BY DEF LedgerInv
    <3>4. /\ QueriesProper'
          /\ \A p \in BillingQueries : p # q => queries'[p].rows = queries[p].rows
          /\ queries'[q].rows = X
      BY <3>1, <3>2, <3>3 DEF QueriesProper
    <3> QED BY <3>4 DEF X
  <2> QED BY <2>1, <2>2
<1>4. ASSUME NEW p \in BillingQueries, NEW r \in queries'[p].rows
      PROVE  /\ \E i \in DOMAIN table' : table'[i].id = r.id
             /\ Ledger!Frozen(r) =>
                  \A i \in DOMAIN table' : table'[i].id = r.id => Ledger!Frozen(table'[i])
  <2>1. CASE p # q
    BY <1>1, <1>2, <2>1 DEF LedgerInv, ReadProper
  <2>2. CASE p = q
    <3>1. PICK k \in DOMAIN table : r = table[k]
      BY <1>2, <2>2 DEF Ledger!ToSet
    <3>2. ASSUME Ledger!Frozen(r), NEW i \in DOMAIN table, table[i].id = r.id
          PROVE  Ledger!Frozen(table[i])
      <4>1. CASE r.id <= OldLines
        <5>1. table[i].hash = table[k].hash /\ table[i].hash # 0
          BY <3>1, <3>2, <4>1 DEF LedgerInv, TableProper
        <5>2. i = k
          BY <5>1 DEF LedgerInv, TableProper
        <5> QED BY <3>1, <3>2, <5>2
      <4>2. CASE ~(r.id <= OldLines)
        BY <3>2, <4>2 DEF LedgerInv, TableProper
      <4> QED BY <4>1, <4>2
    <3> QED BY <1>1, <3>1, <3>2
  <2> QED BY <2>1, <2>2
<1>5. ReadProper'
  BY <1>4 DEF ReadProper
<1> QED BY <1>1, <1>2, <1>5 DEF LedgerInv, LedgerTypeOK, LogProper, TableProper, KeepsSettled

LEMMA QueryPersistStep ==
  ASSUME LedgerInv, NEW q \in BillingQueries, Ledger!QueryPersist(q)
  PROVE  LedgerInv' /\ KeepsSettled(table, table')
<1>1. /\ table' = Ledger!Settled(table, q)
      /\ queries' = [queries EXCEPT ![q].phase = "done"]
      /\ UNCHANGED <<prices, log, importing, billingSpent>>
  BY DEF Ledger!QueryPersist
<1>2. /\ table' \in Seq(BilledRows) /\ DOMAIN table' = DOMAIN table
      /\ KeepsSettled(table, table')
      /\ \A i \in DOMAIN table : table'[i].id = table[i].id /\ table'[i].hash = table[i].hash
  BY <1>1, SettledRows
<1>3. /\ QueriesProper'
      /\ \A p \in BillingQueries : queries'[p].rows = queries[p].rows
  BY <1>1 DEF LedgerInv, QueriesProper
<1>4. \A i \in DOMAIN table : Ledger!Frozen(table[i]) => Ledger!Frozen(table'[i])
  BY <1>2 DEF KeepsSettled
<1>5. TableProper' /\ ReadProper'
  BY <1>2, <1>3, <1>4 DEF LedgerInv, TableProper, ReadProper
<1> QED BY <1>1, <1>2, <1>3, <1>5 DEF LedgerInv, LedgerTypeOK, LogProper

LEMMA QueryFailsStep ==
  ASSUME LedgerInv, NEW q \in BillingQueries, Ledger!QueryFails(q)
  PROVE  LedgerInv' /\ KeepsSettled(table, table')
<1>1. /\ queries' = [queries EXCEPT ![q].phase = "failed"]
      /\ UNCHANGED <<prices, log, table, importing>>
      /\ billingSpent' = [billingSpent EXCEPT !.fails = @ + 1]
  BY DEF Ledger!QueryFails
<1>2. /\ QueriesProper'
      /\ \A p \in BillingQueries : queries'[p].rows = queries[p].rows
  BY <1>1 DEF LedgerInv, QueriesProper
<1>3. LedgerTypeOK'
  BY <1>1 DEF LedgerInv, LedgerTypeOK
<1> QED BY <1>1, <1>2, <1>3 DEF LedgerInv, LogProper, TableProper, ReadProper, KeepsSettled

LEMMA LedgerNext ==
  ASSUME LedgerInv, [Ledger!Next]_(Ledger!vars)
  PROVE  LedgerInv' /\ KeepsSettled(table, table')
<1>1. ASSUME UNCHANGED <<log, table, queries>>, LedgerTypeOK' PROVE LedgerInv'
        /\ KeepsSettled(table, table')
  BY <1>1, TableAlone DEF LedgerInv, LogProper
<1>2. CASE UNCHANGED Ledger!vars \/ Ledger!ImportEnd
  BY <1>1, <1>2 DEF Ledger!vars, Ledger!ImportEnd, LedgerInv, LedgerTypeOK
<1>3. CASE Ledger!ImportBegin
  BY <1>1, <1>3 DEF Ledger!ImportBegin, LedgerInv, LedgerTypeOK
<1>4. CASE \E m \in BilledModels, p \in Prices : Ledger!Reprice(m, p)
  BY <1>1, <1>4 DEF Ledger!Reprice, LedgerInv, LedgerTypeOK
<1>5. CASE \E m \in BilledModels, a \in Aliases \cup {None}, app \in Apps, u \in Usages :
             Ledger!Serve(m, a, app, u)
  BY <1>5, ServeStep
<1>6. CASE Ledger!ImportLine
  BY <1>6, ImportLineStep
<1>7. CASE \E q \in BillingQueries : Ledger!QueryBegin(q) \/ Ledger!QueryRead(q)
                                       \/ Ledger!QueryPersist(q) \/ Ledger!QueryFails(q)
  BY <1>7, QueryReadStep, QueryPersistStep, QueryFailsStep
<1> QED BY <1>2, <1>3, <1>4, <1>5, <1>6, <1>7 DEF Ledger!Next

\* What is settled stays settled, and a query settles all it read at the prices
\* it began with.
THEOREM Settlement == Ledger!Spec => PersistSettles
<1> DEFINE Settles ==
      [/\ \A i \in DOMAIN table :
            /\ i \in DOMAIN table'
            /\ Ledger!Frozen(table[i]) => table'[i] = table[i]
       /\ \A q \in DOMAIN queries :
            queries[q].phase = "read" /\ queries'[q].phase = "done" =>
              \A i \in DOMAIN table :
                /\ (\E r \in queries[q].rows : r.id = table[i].id) => Ledger!Frozen(table'[i])
                /\ Ledger!Frozen(table'[i]) /\ ~Ledger!Frozen(table[i]) =>
                     table'[i].snap.price = queries[q].prices[table[i].model]]_(Ledger!vars)
<1>1. LedgerInv /\ [Ledger!Next]_(Ledger!vars) => LedgerInv' /\ Settles
  <2> SUFFICES ASSUME LedgerInv, [Ledger!Next]_(Ledger!vars) PROVE LedgerInv' /\ Settles
    OBVIOUS
  <2>1. LedgerInv' /\ KeepsSettled(table, table')
    BY LedgerNext
  <2>2. ASSUME Ledger!Next, NEW q \in DOMAIN queries,
               queries[q].phase = "read", queries'[q].phase = "done"
        PROVE  Ledger!QueryPersist(q) /\ q \in BillingQueries
    <3>1. q \in BillingQueries
            /\ queries \in [BillingQueries -> [phase : {"no", "begun", "read", "done", "failed"},
                                  prices : [BilledModels -> Prices], rows : SUBSET BilledRows]]
      BY DEF LedgerInv, QueriesProper
    <3>2. queries' # queries
      BY <2>2
    <3>3. PICK p \in BillingQueries : Ledger!QueryBegin(p) \/ Ledger!QueryRead(p)
                                       \/ Ledger!QueryPersist(p) \/ Ledger!QueryFails(p)
      BY <2>2, <3>2 DEF Ledger!Next, Ledger!Serve, Ledger!Reprice, Ledger!ImportBegin,
         Ledger!ImportLine, Ledger!ImportEnd
    <3>4. p = q
      BY <2>2, <3>1, <3>3 DEF Ledger!QueryBegin, Ledger!QueryRead, Ledger!QueryPersist,
         Ledger!QueryFails
    <3>5. ~Ledger!QueryBegin(q) /\ ~Ledger!QueryRead(q) /\ ~Ledger!QueryFails(q)
      BY <2>2, <3>1 DEF Ledger!QueryBegin, Ledger!QueryRead, Ledger!QueryFails
    <3> QED BY <3>1, <3>3, <3>4, <3>5
  <2>3. ASSUME NEW q \in BillingQueries, Ledger!QueryPersist(q), NEW i \in DOMAIN table
        PROVE  /\ (\E r \in queries[q].rows : r.id = table[i].id) => Ledger!Frozen(table'[i])
               /\ Ledger!Frozen(table'[i]) /\ ~Ledger!Frozen(table[i]) =>
                    table'[i].snap.price = queries[q].prices[table[i].model]
    <3>1. table' = Ledger!Settled(table, q)
      BY <2>3 DEF Ledger!QueryPersist
    <3> QED BY <2>3, <3>1, SettledRows
  <2> QED BY <2>1, <2>2, <2>3 DEF KeepsSettled
<1> QED BY <1>1, LedgerInit, PTL DEF Ledger!Spec, PersistSettles, Ledger!PersistSettles

-----------------------------------------------------------------------------
(***************************************************************************)
(* The views of the bill.                                                  *)
(***************************************************************************)

\* What the ready time costs does not change.
ReadyKept == readyCosts \in [BilledModels -> ReadyCosts]

LEMMA ReadyNext ==
  ASSUME ReadyKept, [Ledger!Next]_(Ledger!vars)
  PROVE  ReadyKept'
<1>1. UNCHANGED readyCosts
  BY DEF Ledger!Next, Ledger!vars, Ledger!Serve, Ledger!Reprice, Ledger!ImportBegin,
     Ledger!ImportLine, Ledger!ImportEnd, Ledger!QueryBegin, Ledger!QueryRead,
     Ledger!QueryPersist, Ledger!QueryFails
<1> QED BY <1>1 DEF ReadyKept

AliasNames == Aliases \cup {None}

LEMMA LedgerFinite ==
  /\ IsFiniteSet(BilledModels) /\ IsFiniteSet(AliasNames) /\ IsFiniteSet(Apps)
  /\ Fine \in Nat \ {0} /\ Multiple \in Nat \ {0} /\ ReadyCosts \subseteq Nat
<1>1. \A S \in {BilledModels, AliasNames, Apps} : Ledger!IsFiniteSet(S)
  BY LedgerAssumed DEF Ledger!BillingAssumption, AliasNames
<1>2. \A S : Ledger!IsFiniteSet(S) <=> IsFiniteSet(S)
  BY DEF Ledger!IsFiniteSet, IsFiniteSet
<1>3. Fine \in Nat \ {0} /\ Multiple \in Nat \ {0} /\ ReadyCosts \subseteq Nat
  BY LedgerAssumed DEF Ledger!BillingAssumption
<1> QED BY <1>1, <1>2, <1>3

LEMMA SameLedgerSum == \A F, S : Ledger!SumFunctionOnSet(F, S) = Total(F, S)
  BY DEF Ledger!SumFunctionOnSet, Ledger!FoldFunctionOnSet, Ledger!MapThenFoldSet,
     Total, SumFunctionOnSet, FoldFunctionOnSet, MapThenFoldSet

LEMMA SameLedgerCount == \A S : Ledger!Cardinality(S) = Cardinality(S)
  BY DEF Ledger!Cardinality, Cardinality

LEMMA LedgerMax ==
  ASSUME NEW a \in Int, NEW b \in Int
  PROVE  Ledger!Max({a, b}) = IF a >= b THEN a ELSE b
<1>1. \E x \in {a, b} : \A y \in {a, b} : x >= y
  OBVIOUS
<1>2. Ledger!Max({a, b}) \in {a, b} /\ \A y \in {a, b} : Ledger!Max({a, b}) >= y
  BY <1>1 DEF Ledger!Max
<1> QED BY <1>2

\* The rows, what they cost, the seconds they took, and whose they are.
BilledSet == DOMAIN table
Costs == [i \in BilledSet |-> Ledger!Used(table[i])]
Times == [i \in BilledSet |-> table[i].usage.seconds]
Ones == [i \in BilledSet |-> 1]
ModelOf == [i \in BilledSet |-> table[i].model]
AliasOf == [i \in BilledSet |-> table[i].alias]
AppOf == [i \in BilledSet |-> table[i].app]

LEMMA RowsTyped ==
  ASSUME LedgerTypeOK
  PROVE  /\ IsFiniteSet(BilledSet)
         /\ \A i \in BilledSet :
              /\ ModelOf[i] \in BilledModels /\ AliasOf[i] \in AliasNames /\ AppOf[i] \in Apps
              /\ Costs[i] \in Int /\ Times[i] \in Nat /\ Ones[i] = 1
<1>1. BilledSet = 1 .. Len(table) /\ Len(table) \in Nat
  BY DEF LedgerTypeOK, BilledSet
<1>2. IsFiniteSet(BilledSet)
  BY <1>1, FS_Interval
<1>3. ASSUME NEW i \in BilledSet
      PROVE  /\ ModelOf[i] \in BilledModels /\ AliasOf[i] \in AliasNames /\ AppOf[i] \in Apps
             /\ Costs[i] \in Int /\ Times[i] \in Nat /\ Ones[i] = 1
  <2>1. table[i] \in BilledRows
    BY <1>1 DEF LedgerTypeOK
  <2>2. table[i].usage \in [prompt : Nat, completion : Nat, cache : Nat, seconds : Nat]
    BY <2>1, LedgerAssumed DEF BilledRows, Ledger!BillingAssumption
  <2>3. Ledger!Used(table[i]) \in Int
    <3>1. CASE table[i].snap # None
      <4>1. table[i].snap \in Ledger!Snaps
        BY <2>1, <3>1 DEF BilledRows, Settlements
      <4> QED BY <3>1, <4>1 DEF Ledger!Used, Ledger!UsedCost, Ledger!Snaps
    <3>2. CASE table[i].snap = None
      <4>1. prices[table[i].model] \in Prices /\ table[i].usage \in Usages
        BY <2>1 DEF BilledRows, LedgerTypeOK
      <4>2. Ledger!UsageCost(prices[table[i].model], table[i].usage) \in Int
        BY <4>1, CostTyped
      <4> QED BY <3>2, <4>2 DEF Ledger!Used, Ledger!UsedCost
    <3> QED BY <3>1, <3>2
  <2> QED BY <2>1, <2>2, <2>3
          DEF ModelOf, AliasOf, AppOf, Costs, Times, Ones, BilledRows, AliasNames
<1> QED BY <1>2, <1>3

\* A sum over some rows.
LEMMA OverRows ==
  ASSUME NEW S, IsFiniteSet(S), NEW F, Ints(F, S)
  PROVE  Total([x \in S |-> F[x]], S) = Total(F, S)
<1> DEFINE H == [x \in S |-> F[x]]
<1>1. \A x \in S : H[x] = F[x]
  OBVIOUS
<1> HIDE DEF H
<1>2. Total(H, S) = Total(F, S)
  BY <1>1, TotalSame
<1> QED BY <1>2 DEF H

\* The requests of a model by some applications.
Asking(m, A) == {i \in PartOf(BilledSet, ModelOf, m) : AppOf[i] \in A}

LEMMA ViewSums ==
  ASSUME LedgerTypeOK
  PROVE  /\ \A m : Ledger!ModelUsed(m) = Total(Costs, PartOf(BilledSet, ModelOf, m))
         /\ \A a : Ledger!GroupUsed(a) = Total(Costs, PartOf(BilledSet, AliasOf, a))
         /\ \A p : Ledger!AppUsed(p) = Total(Costs, PartOf(BilledSet, AppOf, p))
         /\ \A m, A : Ledger!Seconds(m, A) = Total(Times, Asking(m, A))
         /\ \A m, A : Ledger!Calls(m, A) = Total(Ones, Asking(m, A))
         /\ \A m, a : Ledger!Requests(m, a)
                        = Total(Ones, PartOf(PartOf(BilledSet, ModelOf, m), AliasOf, a))
<1>1. ASSUME NEW S \in SUBSET BilledSet
      PROVE  /\ Total([i \in S |-> Ledger!Used(table[i])], S) = Total(Costs, S)
             /\ Total([i \in S |-> table[i].usage.seconds], S) = Total(Times, S)
             /\ Total([i \in S |-> 1], S) = Total(Ones, S)
  <2>1. IsFiniteSet(S) /\ Ints(Costs, S) /\ Ints(Times, S) /\ Ints(Ones, S)
    BY RowsTyped, FS_Subset DEF Ints
  <2>2. /\ Total([i \in S |-> Costs[i]], S) = Total(Costs, S)
        /\ Total([i \in S |-> Times[i]], S) = Total(Times, S)
        /\ Total([i \in S |-> Ones[i]], S) = Total(Ones, S)
    BY <2>1, OverRows
  <2>3. /\ [i \in S |-> Costs[i]] = [i \in S |-> Ledger!Used(table[i])]
        /\ [i \in S |-> Times[i]] = [i \in S |-> table[i].usage.seconds]
        /\ [i \in S |-> Ones[i]] = [i \in S |-> 1]
    BY DEF Costs, Times, Ones
  <2> QED BY <2>2, <2>3
<1>2. ASSUME NEW m PROVE Ledger!ModelUsed(m) = Total(Costs, PartOf(BilledSet, ModelOf, m))
  <2> DEFINE S == {i \in DOMAIN table : table[i].model = m}
  <2>1. Ledger!ModelUsed(m) = Total([i \in S |-> Ledger!Used(table[i])], S)
    BY SameLedgerSum DEF Ledger!ModelUsed, Ledger!Over, Ledger!SumOver
  <2>2. S = PartOf(BilledSet, ModelOf, m) /\ S \in SUBSET BilledSet
    BY DEF PartOf, ModelOf, BilledSet
  <2> HIDE DEF S
  <2> QED BY <1>1, <2>1, <2>2
<1>3. ASSUME NEW a PROVE Ledger!GroupUsed(a) = Total(Costs, PartOf(BilledSet, AliasOf, a))
  <2> DEFINE S == {i \in DOMAIN table : table[i].alias = a}
  <2>1. Ledger!GroupUsed(a) = Total([i \in S |-> Ledger!Used(table[i])], S)
    BY SameLedgerSum DEF Ledger!GroupUsed, Ledger!Over, Ledger!SumOver
  <2>2. S = PartOf(BilledSet, AliasOf, a) /\ S \in SUBSET BilledSet
    BY DEF PartOf, AliasOf, BilledSet
  <2> HIDE DEF S
  <2> QED BY <1>1, <2>1, <2>2
<1>4. ASSUME NEW p PROVE Ledger!AppUsed(p) = Total(Costs, PartOf(BilledSet, AppOf, p))
  <2> DEFINE S == {i \in DOMAIN table : table[i].app = p}
  <2>1. Ledger!AppUsed(p) = Total([i \in S |-> Ledger!Used(table[i])], S)
    BY SameLedgerSum DEF Ledger!AppUsed, Ledger!Over, Ledger!SumOver
  <2>2. S = PartOf(BilledSet, AppOf, p) /\ S \in SUBSET BilledSet
    BY DEF PartOf, AppOf, BilledSet
  <2> HIDE DEF S
  <2> QED BY <1>1, <2>1, <2>2
<1>5. ASSUME NEW m, NEW A
      PROVE  /\ Ledger!Seconds(m, A) = Total(Times, Asking(m, A))
             /\ Ledger!Calls(m, A) = Total(Ones, Asking(m, A))
  <2> DEFINE S == {i \in DOMAIN table : table[i].model = m /\ table[i].app \in A}
  <2>1. Ledger!Seconds(m, A) = Total([i \in S |-> table[i].usage.seconds], S)
    BY SameLedgerSum DEF Ledger!Seconds, Ledger!Over, Ledger!SumOver
  <2>2. Ledger!Calls(m, A) = Total([i \in S |-> 1], S)
    BY SameLedgerSum DEF Ledger!Calls, Ledger!Over, Ledger!SumOver, Ledger!One
  <2>3. S = Asking(m, A) /\ S \in SUBSET BilledSet
    BY DEF Asking, PartOf, AppOf, ModelOf, BilledSet
  <2> HIDE DEF S
  <2> QED BY <1>1, <2>1, <2>2, <2>3
<1>6. ASSUME NEW m, NEW a
      PROVE  Ledger!Requests(m, a)
               = Total(Ones, PartOf(PartOf(BilledSet, ModelOf, m), AliasOf, a))
  <2> DEFINE S == {i \in DOMAIN table : table[i].model = m /\ table[i].alias = a}
  <2>1. Ledger!Requests(m, a) = Total([i \in S |-> 1], S)
    BY SameLedgerSum DEF Ledger!Requests, Ledger!Over, Ledger!SumOver, Ledger!One
  <2>2. S = PartOf(PartOf(BilledSet, ModelOf, m), AliasOf, a) /\ S \in SUBSET BilledSet
    BY DEF PartOf, AliasOf, ModelOf, BilledSet
  <2> HIDE DEF S
  <2> QED BY <1>1, <2>1, <2>2
<1> QED BY <1>2, <1>3, <1>4, <1>5, <1>6

\* Some rows may be summed group by group.
LEMMA Grouped ==
  ASSUME NEW S, IsFiniteSet(S), NEW F, Ints(F, S), NEW P, IsFiniteSet(P),
         NEW part, \A i \in S : part[i] \in P
  PROVE  Total([p \in P |-> Total(F, PartOf(S, part, p))], P) = Total(F, S)
<1> DEFINE H == [p \in P |-> Total(F, PartOf(S, part, p))]
<1>1. \A p \in P : H[p] = Total(F, PartOf(S, part, p))
  OBVIOUS
<1> HIDE DEF H
<1>2. Total(F, S) = Total(H, P)
  BY <1>1, TotalParts
<1> QED BY <1>2 DEF H

\* What was used is the same by model, by alias and by application.
LEMMA UsedByAll ==
  ASSUME LedgerTypeOK
  PROVE  /\ Ledger!SumOver(BilledModels, Ledger!ModelUsed) = Total(Costs, BilledSet)
         /\ Ledger!SumOver(AliasNames, Ledger!GroupUsed) = Total(Costs, BilledSet)
         /\ Total([m \in BilledModels |-> Ledger!ModelUsed(m)], BilledModels)
              = Total(Costs, BilledSet)
         /\ Total([p \in Apps |-> Ledger!AppUsed(p)], Apps) = Total(Costs, BilledSet)
<1>1. /\ IsFiniteSet(BilledSet) /\ Ints(Costs, BilledSet)
      /\ \A i \in BilledSet : /\ ModelOf[i] \in BilledModels /\ AliasOf[i] \in AliasNames
                              /\ AppOf[i] \in Apps
  BY RowsTyped DEF Ints
<1>2. /\ [m \in BilledModels |-> Ledger!ModelUsed(m)]
           = [m \in BilledModels |-> Total(Costs, PartOf(BilledSet, ModelOf, m))]
      /\ [a \in AliasNames |-> Ledger!GroupUsed(a)]
           = [a \in AliasNames |-> Total(Costs, PartOf(BilledSet, AliasOf, a))]
      /\ [p \in Apps |-> Ledger!AppUsed(p)]
           = [p \in Apps |-> Total(Costs, PartOf(BilledSet, AppOf, p))]
  BY ViewSums
<1>3. /\ Ledger!SumOver(BilledModels, Ledger!ModelUsed)
           = Total([m \in BilledModels |-> Ledger!ModelUsed(m)], BilledModels)
      /\ Ledger!SumOver(AliasNames, Ledger!GroupUsed)
           = Total([a \in AliasNames |-> Ledger!GroupUsed(a)], AliasNames)
  BY SameLedgerSum DEF Ledger!SumOver
<1>4. /\ Total([m \in BilledModels |-> Total(Costs, PartOf(BilledSet, ModelOf, m))], BilledModels)
           = Total(Costs, BilledSet)
      /\ Total([a \in AliasNames |-> Total(Costs, PartOf(BilledSet, AliasOf, a))], AliasNames)
           = Total(Costs, BilledSet)
      /\ Total([p \in Apps |-> Total(Costs, PartOf(BilledSet, AppOf, p))], Apps)
           = Total(Costs, BilledSet)
  BY <1>1, LedgerFinite, Grouped
<1> QED BY <1>2, <1>3, <1>4

\* The requests of a model under its aliases are all it was asked.
LEMMA CountsAdd ==
  ASSUME LedgerTypeOK, NEW m \in BilledModels
  PROVE  /\ Ledger!Asked(m) \in Nat
         /\ \A a \in AliasNames : Ledger!Count(m, a) \in Nat
         /\ Total([a \in AliasNames |-> Ledger!Count(m, a)], AliasNames)
              = IF Ledger!Asked(m) = 0 THEN 1 ELSE Ledger!Asked(m)
<1> DEFINE R == PartOf(BilledSet, ModelOf, m)
           C == [a \in AliasNames |-> Ledger!Count(m, a)]
<1>1. /\ R \in SUBSET BilledSet /\ IsFiniteSet(R)
      /\ \A i \in R : AliasOf[i] \in AliasNames /\ AppOf[i] \in Apps /\ Ones[i] = 1
  BY RowsTyped, FS_Subset DEF PartOf
<1>2. Asking(m, Apps) = R
  BY <1>1 DEF Asking
<1> HIDE DEF R
<1>3. \A T \in SUBSET R : Total(Ones, T) \in Nat
  <2> SUFFICES ASSUME NEW T \in SUBSET R PROVE Total(Ones, T) \in Nat
    OBVIOUS
  <2>1. IsFiniteSet(T) /\ (\A i \in T : Ones[i] \in 0 .. 1) /\ 1 \in Nat
    BY <1>1, FS_Subset
  <2> QED BY <2>1, TotalBounds
<1>4. Ledger!Asked(m) = Total(Ones, R) /\ Ledger!Asked(m) \in Nat
  BY <1>2, <1>3, ViewSums DEF Ledger!Asked
<1>5. ASSUME NEW a PROVE Ledger!Requests(m, a) \in Nat
  <2>1. PartOf(R, AliasOf, a) \in SUBSET R
    BY DEF PartOf
  <2> QED BY <1>3, <2>1, ViewSums DEF R
<1>6. \A a \in AliasNames : Ledger!Count(m, a) \in Nat
  BY <1>5 DEF Ledger!Count
<1>7. CASE Ledger!Asked(m) = 0
  <2>1. /\ None \in AliasNames /\ C[None] = 1 /\ \A a \in AliasNames \ {None} : C[a] = 0
        /\ \A a \in AliasNames : C[a] \in Int
    BY <1>7 DEF AliasNames, Ledger!Count
  <2> HIDE DEF C
  <2>2. Total(C, AliasNames) = Total(C, {None})
    BY <2>1, LedgerFinite, TotalSupport DEF Ints
  <2>3. Total(C, {None}) = 1
    BY <2>1, TotalSingle
  <2> QED BY <1>4, <1>6, <1>7, <2>2, <2>3 DEF C
<1>8. CASE Ledger!Asked(m) # 0
  <2>1. C = [a \in AliasNames |-> Total(Ones, PartOf(R, AliasOf, a))]
    BY <1>8, ViewSums DEF Ledger!Count, R
  <2>2. Ints(Ones, R)
    BY <1>1 DEF Ints
  <2>3. Total([a \in AliasNames |-> Total(Ones, PartOf(R, AliasOf, a))], AliasNames)
          = Total(Ones, R)
    BY <1>1, <2>2, LedgerFinite, Grouped
  <2> QED BY <1>4, <1>6, <1>8, <2>1, <2>3
<1> QED BY <1>7, <1>8

Unit(m) == Multiple \div Ledger!Max({Ledger!Asked(m), 1})

\* Nothing is lost when what a model cost is spread over its requests.
LEMMA UnitFits ==
  ASSUME LedgerTypeOK, Ledger!WholeFits, NEW m \in BilledModels
  PROVE  /\ Unit(m) \in Nat
         /\ Unit(m) * (IF Ledger!Asked(m) = 0 THEN 1 ELSE Ledger!Asked(m)) = Multiple
<1> DEFINE n == IF Ledger!Asked(m) = 0 THEN 1 ELSE Ledger!Asked(m)
<1>1. Ledger!Asked(m) \in Nat
  BY CountsAdd
<1>2. Unit(m) = Multiple \div n /\ n \in Nat \ {0}
  BY <1>1, LedgerMax DEF Unit
<1>3. Multiple % n = 0 /\ Multiple \in Nat \ {0}
  <2>1. CASE Ledger!Asked(m) = 0
    BY <2>1, LedgerFinite
  <2>2. CASE Ledger!Asked(m) # 0
    BY <2>2, LedgerFinite DEF Ledger!WholeFits, Ledger!Asked
  <2> QED BY <2>1, <2>2
<1> HIDE DEF n
<1>4. Multiple \div n \in Int /\ Multiple = n * (Multiple \div n) + (Multiple % n)
  BY <1>2, <1>3, Division
<1> DEFINE u == Multiple \div n
<1>5. u \in Int /\ Multiple = n * u
  BY <1>2, <1>3, <1>4
<1> HIDE DEF u
<1>6. u >= 0
  <2> SUFFICES ASSUME u <= -1 PROVE FALSE
    BY <1>5
  <2>1. n * u <= -n
    BY <1>2, <1>5
  <2> QED BY <1>2, <1>3, <1>5, <2>1
<1>7. u * n = n * u
  BY <1>2, <1>5
<1> QED BY <1>2, <1>5, <1>6, <1>7 DEF u, n

\* A sum of sums.
RowOf(F, a, B) == [b \in B |-> F[<<a, b>>]]

LEMMA TotalPairs ==
  ASSUME NEW A, IsFiniteSet(A), NEW B, IsFiniteSet(B), NEW F, Ints(F, A \X B),
         NEW R, \A a \in A : R[a] = Total(RowOf(F, a, B), B)
  PROVE  Total(F, A \X B) = Total(R, A)
<1> DEFINE S == A \X B
           left == [p \in S |-> p[1]]
           right == [p \in S |-> p[2]]
<1>1. IsFiniteSet(S) /\ Ints(F, S) /\ \A p \in S : left[p] \in A
  BY FS_Product
<1>2. ASSUME NEW a \in A PROVE R[a] = Total(F, PartOf(S, left, a))
  <2> DEFINE L == PartOf(S, left, a)
             H == [b \in B |-> F[<<a, b>>]]
  <2>1. L \in SUBSET S
    BY DEF PartOf
  <2>2. IsFiniteSet(L) /\ Ints(F, L)
    BY <1>1, <2>1, FS_Subset DEF Ints
  <2>3. \A p \in L : p = <<a, right[p]>> /\ right[p] \in B
    BY DEF PartOf
  <2>4. \A b \in B : <<a, b>> \in L /\ right[<<a, b>>] = b
    BY DEF PartOf
  <2>5. \A p \in L : right[p] \in B /\ H[right[p]] = F[p]
    BY <2>3
  <2> HIDE DEF L, H, S, right
  <2>6. (\A p, q \in L : right[p] = right[q] => p = q) /\ \A b \in B : \E p \in L : right[p] = b
    BY <2>3, <2>4
  <2>7. Total(F, L) = Total(H, B)
    BY <2>2, <2>5, <2>6, TotalRenamed
  <2> QED BY <2>7 DEF L, H, RowOf
<1> HIDE DEF S, left
<1>3. Total(F, S) = Total(R, A)
  BY <1>1, <1>2, TotalParts
<1> QED BY <1>3 DEF S

\* The cells of the view by alias, and what each would get if money had no smallest unit.
Pairs == BilledModels \X AliasNames
Live == {p \in Pairs : Ledger!Count(p[1], p[2]) > 0}
Raw == [p \in Pairs |-> readyCosts[p[1]] * Ledger!Count(p[1], p[2]) * Unit(p[1])]
CellRaw == [c \in Ledger!Cells |-> c.raw]

LEMMA CellsAre ==
  ASSUME LedgerTypeOK, ReadyKept, Ledger!WholeFits
  PROVE  /\ IsFiniteSet(Ledger!Cells)
         /\ \A c \in Ledger!Cells : /\ c.model \in BilledModels /\ c.alias \in AliasNames
                                    /\ c.raw \in Nat /\ c = Ledger!Cell(c.model, c.alias)
         /\ Ints(Raw, Pairs) /\ Ints(CellRaw, Ledger!Cells)
         /\ Total(CellRaw, Ledger!Cells) = Total(Raw, Pairs)
<1> DEFINE name == [p \in Live |-> Ledger!Cell(p[1], p[2])]
           C == Ledger!Cells
<1>1. IsFiniteSet(Pairs) /\ Live \in SUBSET Pairs /\ IsFiniteSet(Live)
  <2>1. IsFiniteSet(Pairs)
    BY LedgerFinite, FS_Product DEF Pairs
  <2> QED BY <2>1, FS_Subset DEF Live
<1>2. ASSUME NEW p \in Pairs
      PROVE  /\ p[1] \in BilledModels /\ p[2] \in AliasNames /\ p = <<p[1], p[2]>>
             /\ Raw[p] \in Nat /\ (p \notin Live => Raw[p] = 0)
             /\ Ledger!Cell(p[1], p[2]) = [model |-> p[1], alias |-> p[2], raw |-> Raw[p]]
  <2>1. p[1] \in BilledModels /\ p[2] \in AliasNames /\ p = <<p[1], p[2]>>
    BY DEF Pairs
  <2> DEFINE r == readyCosts[p[1]]
             k == Ledger!Count(p[1], p[2])
             u == Unit(p[1])
  <2>2. r \in Nat /\ k \in Nat /\ u \in Nat
    BY <2>1, LedgerFinite, CountsAdd, UnitFits DEF ReadyKept
  <2>3. Raw[p] = r * k * u
    BY DEF Raw
  <2>4. p \notin Live <=> ~(k > 0)
    BY DEF Live
  <2>5. Ledger!Cell(p[1], p[2]) = [model |-> p[1], alias |-> p[2], raw |-> r * k * u]
    BY DEF Ledger!Cell, Unit
  <2> HIDE DEF r, k, u
  <2>6. r * k \in Nat
    BY <2>2
  <2>7. r * k * u \in Nat
    BY <2>2, <2>6
  <2>8. k = 0 => r * k = 0
    BY <2>2
  <2>9. k = 0 => r * k * u = 0
    BY <2>2, <2>8
  <2> QED BY <2>1, <2>2, <2>3, <2>4, <2>5, <2>7, <2>9
<1>3. C = {name[p] : p \in DOMAIN name} /\ DOMAIN name = Live
  BY DEF Ledger!Cells, Live, Pairs, AliasNames
<1> HIDE DEF C
<1>4. \A p \in Live : name[p] = [model |-> p[1], alias |-> p[2], raw |-> Raw[p]] /\ name[p] \in C
  BY <1>1, <1>2, <1>3
<1>5. ASSUME NEW c \in C
      PROVE  \E p \in Live : /\ c = name[p] /\ p[1] = c.model /\ p[2] = c.alias /\ Raw[p] = c.raw
                             /\ c = Ledger!Cell(c.model, c.alias)
  <2>1. PICK p \in Live : c = name[p]
    BY <1>3
  <2>2. c = [model |-> p[1], alias |-> p[2], raw |-> Raw[p]]
    BY <1>4, <2>1
  <2>3. c = Ledger!Cell(p[1], p[2])
    BY <2>1
  <2>4. p[1] = c.model /\ p[2] = c.alias /\ Raw[p] = c.raw
    BY <2>2
  <2>5. c = Ledger!Cell(c.model, c.alias)
    BY <2>3, <2>4
  <2> HIDE DEF name
  <2> QED BY <2>1, <2>4, <2>5
<1>6. IsFiniteSet(C)
  <2> HIDE DEF name
  <2> QED BY <1>1, <1>3, ImageFinite
<1>7. ASSUME NEW c \in C
      PROVE  /\ c.model \in BilledModels /\ c.alias \in AliasNames /\ c.raw \in Nat
             /\ c = Ledger!Cell(c.model, c.alias)
  BY <1>1, <1>2, <1>5
<1>8. Ints(Raw, Pairs) /\ Ints(Raw, Live) /\ Ints(CellRaw, C) /\ \A c \in C : CellRaw[c] = c.raw
  <2>1. \A c \in C : CellRaw[c] = c.raw
    BY DEF CellRaw, C
  <2>2. Ints(CellRaw, C)
    BY <1>7, <2>1 DEF Ints
  <2>3. ASSUME NEW p \in Pairs PROVE Raw[p] \in Int
    <3>1. Raw[p] \in Nat
      BY <1>2
    <3> QED BY <3>1
  <2>4. Ints(Raw, Pairs) /\ Ints(Raw, Live)
    BY <1>1, <2>3 DEF Ints
  <2> QED BY <2>1, <2>2, <2>4
<1>9. Total(Raw, Pairs) = Total(Raw, Live)
  BY <1>1, <1>2, <1>8, TotalSupport
<1>10. Total(Raw, Live) = Total(CellRaw, C)
  <2>1. \A p \in Live : name[p] \in C /\ CellRaw[name[p]] = Raw[p]
    <3> SUFFICES ASSUME NEW p \in Live PROVE name[p] \in C /\ CellRaw[name[p]] = Raw[p]
      OBVIOUS
    <3> HIDE DEF name
    <3>1. name[p] \in C /\ name[p] = [model |-> p[1], alias |-> p[2], raw |-> Raw[p]]
      BY <1>4
    <3>2. name[p].raw = Raw[p]
      BY <3>1
    <3> QED BY <1>8, <3>1, <3>2
  <2>2. \A p, q \in Live : name[p] = name[q] => p = q
    <3> SUFFICES ASSUME NEW p \in Live, NEW q \in Live, name[p] = name[q] PROVE p = q
      OBVIOUS
    <3>1. p[1] = q[1] /\ p[2] = q[2]
      <4> HIDE DEF name
      <4>1. ASSUME NEW x \in Live PROVE name[x].model = x[1] /\ name[x].alias = x[2]
        <5>1. name[x] = [model |-> x[1], alias |-> x[2], raw |-> Raw[x]]
          BY <1>4
        <5> QED BY ONLY <5>1
      <4>2. name[p].model = p[1] /\ name[p].alias = p[2]
        BY <4>1
      <4>3. name[q].model = q[1] /\ name[q].alias = q[2]
        BY <4>1
      <4> QED BY <4>2, <4>3
    <3> QED BY <1>1, <1>2, <3>1
  <2>3. \A c \in C : \E p \in Live : name[p] = c
    BY <1>5
  <2> HIDE DEF name
  <2> QED BY <1>1, <1>6, <1>8, <2>1, <2>2, <2>3, TotalRenamed
<1> QED BY <1>6, <1>7, <1>8, <1>9, <1>10 DEF C

\* Together the cells are what the models cost.
LEMMA CellsTotal ==
  ASSUME LedgerTypeOK, ReadyKept, Ledger!WholeFits
  PROVE  /\ Total(readyCosts, BilledModels) \in Nat
         /\ Total(CellRaw, Ledger!Cells) = Multiple * Total(readyCosts, BilledModels)
<1> DEFINE R == [m \in BilledModels |-> Multiple * readyCosts[m]]
<1>1. \A m \in BilledModels : readyCosts[m] \in Nat
  BY LedgerFinite DEF ReadyKept
<1>2. ASSUME NEW m \in BilledModels
      PROVE  R[m] = Total(RowOf(Raw, m, AliasNames), AliasNames)
  <2> DEFINE H == [a \in AliasNames |-> Raw[<<m, a>>]]
             N == [a \in AliasNames |-> Ledger!Count(m, a)]
             n == IF Ledger!Asked(m) = 0 THEN 1 ELSE Ledger!Asked(m)
             r == readyCosts[m]
             u == Unit(m)
             k == r * u
  <2>1. r \in Nat /\ u \in Nat /\ n \in Nat /\ u * n = Multiple /\ Total(N, AliasNames) = n
    BY <1>1, CountsAdd, UnitFits
  <2>2. \A a \in AliasNames : H[a] = r * N[a] * u /\ N[a] \in Nat
    BY CountsAdd DEF Raw, Pairs
  <2>3. R[m] = Multiple * r
    OBVIOUS
  <2> HIDE DEF H, N, n, r, u
  <2>4. k \in Int
    BY <2>1
  <2>5. \A x \in Nat : r * x * u = k * x
    BY <2>1
  <2> HIDE DEF k
  <2>6. Total(H, AliasNames) = k * Total(N, AliasNames)
    <3>1. \A a \in AliasNames : H[a] = k * N[a]
      BY <2>2, <2>5
    <3>2. Ints(N, AliasNames)
      BY <2>2 DEF Ints
    <3> QED BY <2>4, <3>1, <3>2, LedgerFinite, TotalScale
  <2>7. k * n = (u * n) * r
    BY <2>1 DEF k
  <2> HIDE DEF R
  <2> QED BY <2>1, <2>3, <2>6, <2>7 DEF H, RowOf
<1>3. Ints(readyCosts, BilledModels)
  BY <1>1 DEF Ints
<1>4. Total(R, BilledModels) = Multiple * Total(readyCosts, BilledModels)
  <2>1. (\A m \in BilledModels : R[m] = Multiple * readyCosts[m]) /\ Multiple \in Int
    BY LedgerFinite
  <2> HIDE DEF R
  <2> QED BY <1>3, <2>1, LedgerFinite, TotalScale
<1>5. Total(Raw, Pairs) = Total(R, BilledModels)
  <2> HIDE DEF R
  <2>1. Ints(Raw, BilledModels \X AliasNames)
    BY CellsAre DEF Pairs
  <2>2. IsFiniteSet(BilledModels) /\ IsFiniteSet(AliasNames)
    BY LedgerFinite
  <2>3. Total(Raw, BilledModels \X AliasNames) = Total(R, BilledModels)
    BY ONLY <1>2, <2>1, <2>2, TotalPairs
  <2> QED BY <2>3 DEF Pairs
<1>6. Total(readyCosts, BilledModels) \in Nat
  BY <1>1, LedgerFinite, TotalNatural
<1> QED BY <1>4, <1>5, <1>6, CellsAre

\* The total to deal out is what the models cost, in micro-dollars, rounded.
LEMMA TargetIs ==
  ASSUME LedgerTypeOK, ReadyKept, Ledger!WholeFits
  PROVE  /\ Ledger!Micro \in Nat \ {0}
         /\ Ledger!Target = (2 * Total(CellRaw, Ledger!Cells) + Ledger!Micro)
                              \div (2 * Ledger!Micro)
<1> DEFINE s == Total(readyCosts, BilledModels)
           w == Multiple
           f == Fine
           M == Ledger!Micro
           q == (2 * s + f) \div (2 * f)
<1>1. s \in Nat /\ w \in Nat \ {0} /\ f \in Nat \ {0} /\ M = f * w
  BY CellsTotal, LedgerFinite DEF Ledger!Micro
<1>2. Total(CellRaw, Ledger!Cells) = w * s
  BY CellsTotal
<1>3. Ledger!Target = (f * q) \div f
  <2>1. Ledger!SumOver(BilledModels, LAMBDA m : readyCosts[m]) = s
    <3>1. Ledger!SumOver(BilledModels, LAMBDA m : readyCosts[m])
            = Total([m \in BilledModels |-> readyCosts[m]], BilledModels)
      BY SameLedgerSum DEF Ledger!SumOver
    <3>2. Ints(readyCosts, BilledModels)
      <4>1. \A m \in BilledModels : readyCosts[m] \in Nat
        BY LedgerFinite DEF ReadyKept
      <4> QED BY <4>1 DEF Ints
    <3> QED BY <3>1, <3>2, LedgerFinite, OverRows
  <2> HIDE DEF s
  <2> QED BY <2>1 DEF Ledger!Target, Ledger!Rounded
<1> HIDE DEF s, w, f, M
<1>4. 2 * s + f \in Int /\ 2 * f \in Nat \ {0} /\ M \in Nat \ {0}
  BY <1>1
<1>5. q \in Int
  <2> DEFINE a == 2 * s + f
             b == 2 * f
  <2>1. a \in Int /\ b \in Nat \ {0}
    BY <1>4
  <2> HIDE DEF a, b
  <2>2. a \div b \in Int
    BY <2>1
  <2> QED BY <2>2 DEF a, b
<1>6. (f * q) \div f = q
  <2> HIDE DEF q
  <2>1. f * q = q * f
    BY <1>1, <1>5
  <2> QED BY <1>1, <1>5, <2>1, Exact
<1>7. 2 * (w * s) + M = w * (2 * s + f) /\ 2 * M = w * (2 * f)
  BY <1>1
<1>8. (w * (2 * s + f)) \div (w * (2 * f)) = q
  BY <1>1, <1>4, Scaled
<1> HIDE DEF q
<1> QED BY <1>2, <1>3, <1>4, <1>6, <1>7, <1>8 DEF M

\* Largest remainder first, then by name, is an order of the cells.
CellOrder == {p \in Ledger!Cells \X Ledger!Cells : Ledger!Before(p[1], p[2])}

LEMMA CellsOrdered ==
  ASSUME LedgerTypeOK, ReadyKept, Ledger!WholeFits
  PROVE  /\ StrictOrder(CellOrder, Ledger!Cells)
         /\ \A c, d \in Ledger!Cells :
              c.raw % Ledger!Micro > d.raw % Ledger!Micro => <<c, d>> \in CellOrder
<1> DEFINE C == Ledger!Cells
           rem == [c \in C |-> c.raw % Ledger!Micro]
           M == BilledModels
           A == AliasNames
<1>1. \A c \in C : /\ c.model \in M /\ c.alias \in A /\ rem[c] \in Int
                   /\ rem[c] = c.raw % Ledger!Micro /\ c = Ledger!Cell(c.model, c.alias)
  <2> SUFFICES ASSUME NEW c \in C
               PROVE  /\ c.model \in M /\ c.alias \in A /\ rem[c] \in Int
                      /\ rem[c] = c.raw % Ledger!Micro /\ c = Ledger!Cell(c.model, c.alias)
    OBVIOUS
  <2>1. c.model \in M /\ c.alias \in A /\ c.raw \in Int /\ c = Ledger!Cell(c.model, c.alias)
    BY CellsAre
  <2>2. c.raw % Ledger!Micro \in Int
    BY <2>1, TargetIs
  <2> QED BY <2>1, <2>2
<1>2. /\ \A x \in M : Rank[x] \in Int
      /\ \A x, y \in M : Rank[x] = Rank[y] => x = y
      /\ \A x \in A : Rank[x] \in Int
      /\ \A x, y \in A : Rank[x] = Rank[y] => x = y
  BY LedgerAssumed DEF Ledger!BillingAssumption, AliasNames
<1> DEFINE Lower(c, d) == \/ rem[c] > rem[d]
                          \/ rem[c] = rem[d] /\ Rank[c.model] < Rank[d.model]
                          \/ rem[c] = rem[d] /\ c.model = d.model /\ Rank[c.alias] < Rank[d.alias]
<1> HIDE DEF C, rem, M, A
<1>3. ASSUME NEW c \in C, NEW d \in C PROVE Ledger!Before(c, d) <=> Lower(c, d)
  BY <1>1 DEF Ledger!Before
<1>4. ASSUME NEW c \in C, NEW d \in C
      PROVE  <<c, d>> \in CellOrder <=> Lower(c, d)
  <2>1. <<c, d>> \in CellOrder <=> Ledger!Before(c, d)
    BY DEF CellOrder, C
  <2> QED BY <1>3, <2>1
<1>5. ASSUME NEW c \in C PROVE ~Lower(c, c)
  BY <1>1, <1>2
<1>6. ASSUME NEW c \in C, NEW d \in C, c # d PROVE Lower(c, d) \/ Lower(d, c)
  <2>1. c.model # d.model \/ c.alias # d.alias
    BY <1>1, <1>6
  <2>2. Rank[c.model] # Rank[d.model] \/ (c.model = d.model /\ Rank[c.alias] # Rank[d.alias])
    BY <1>1, <1>2, <2>1
  <2>3. /\ Rank[c.model] \in Int /\ Rank[d.model] \in Int /\ rem[c] \in Int /\ rem[d] \in Int
        /\ Rank[c.alias] \in Int /\ Rank[d.alias] \in Int
    BY <1>1, <1>2
  <2> QED BY <2>2, <2>3
<1>7. ASSUME NEW c \in C, NEW d \in C, NEW e \in C, Lower(c, d), Lower(d, e) PROVE Lower(c, e)
  <2>1. /\ Rank[c.model] \in Int /\ Rank[d.model] \in Int /\ Rank[e.model] \in Int
        /\ Rank[c.alias] \in Int /\ Rank[d.alias] \in Int /\ Rank[e.alias] \in Int
        /\ rem[c] \in Int /\ rem[d] \in Int /\ rem[e] \in Int
    BY <1>1, <1>2
  <2> QED BY <1>7, <2>1
<1>8. StrictOrder(CellOrder, C)
  <2> HIDE DEF Lower
  <2> QED BY <1>4, <1>5, <1>6, <1>7 DEF StrictOrder
<1>9. \A c, d \in C : c.raw % Ledger!Micro > d.raw % Ledger!Micro => <<c, d>> \in CellOrder
  BY <1>1, <1>4
<1> QED BY <1>8, <1>9 DEF C

\* What the cells get is the rounded total, and none is off by a micro-dollar.
LEMMA CellsAddUp ==
  ASSUME LedgerTypeOK, ReadyKept, Ledger!WholeFits
  PROVE  /\ Ledger!SumOver(Ledger!Cells, Ledger!Allocated) = Ledger!Target
         /\ \A c \in Ledger!Cells : /\ Ledger!Allocated(c) * Ledger!Micro > c.raw - Ledger!Micro
                                    /\ Ledger!Allocated(c) * Ledger!Micro < c.raw + Ledger!Micro
<1> DEFINE C == Ledger!Cells
           M == Ledger!Micro
           t == Ledger!Target
           place == [c \in C |-> Cardinality({d \in C : Ledger!Before(d, c)})]
           down == [c \in C |-> c.raw \div M]
           got == [c \in C |-> Ledger!Allocated(c)]
           left == t - Total(down, C)
           before == CellOrder
           raw == CellRaw
<1>1. IsFiniteSet(C) /\ \A c \in C : raw[c] = c.raw /\ raw[c] \in Nat
  <2>1. ASSUME NEW c \in C PROVE raw[c] = c.raw
    BY DEF CellRaw
  <2> HIDE DEF raw
  <2> QED BY <2>1, CellsAre
<1>2. M \in Nat \ {0} /\ t = (2 * Total(raw, C) + M) \div (2 * M)
  BY TargetIs
<1>3. /\ StrictOrder(before, C)
      /\ \A c, d \in C : raw[c] % M > raw[d] % M => <<c, d>> \in before
  <2>1. \A c \in C : raw[c] = c.raw
    BY <1>1
  <2> HIDE DEF raw, before, C, M
  <2> QED BY <2>1, CellsOrdered DEF before, C, M
<1>4. ASSUME NEW c \in C PROVE place[c] = Cardinality(Prior(C, before, c))
  <2>1. {d \in C : Ledger!Before(d, c)} = Prior(C, before, c)
    BY DEF Prior, CellOrder
  <2> QED BY <2>1
<1>5. ASSUME NEW c \in C PROVE down[c] = raw[c] \div M
  BY <1>1
<1>6. ASSUME NEW c \in C
      PROVE  got[c] = down[c]
               + (IF left > place[c] THEN 1 + (left - place[c] - 1) \div Cardinality(C) ELSE 0)
  <2>1. Ledger!SumOver(C, LAMBDA d : d.raw \div M) = Total(down, C)
    BY SameLedgerSum DEF Ledger!SumOver
  <2>2. Ledger!Cardinality({d \in C : Ledger!Before(d, c)}) = place[c]
    BY SameLedgerCount
  <2>3. Ledger!Cardinality(C) = Cardinality(C)
    BY SameLedgerCount
  <2> QED BY <2>1, <2>2, <2>3 DEF Ledger!Allocated
<1>7. Ledger!SumOver(C, Ledger!Allocated) = Total(got, C)
  BY SameLedgerSum DEF Ledger!SumOver
<1>8. left = t - Total(down, C) /\ \A c \in C : got[c] = Ledger!Allocated(c)
  OBVIOUS
<1> HIDE DEF C, M, t, place, down, got, left, before, raw
<1>9. Total(got, C) = t /\ \A c \in C : got[c] * M > raw[c] - M /\ got[c] * M < raw[c] + M
  <2>1. IsFiniteSet(C) /\ (\A c \in C : raw[c] \in Nat) /\ M \in Nat \ {0}
    BY <1>1, <1>2
  <2>2. t = (2 * Total(raw, C) + M) \div (2 * M)
    BY <1>2
  <2>3. left = t - Total(down, C)
    BY <1>8
  <2> QED BY ONLY <1>3, <1>4, <1>5, <1>6, <2>1, <2>2, <2>3, Dealt
<1> QED BY <1>1, <1>7, <1>8, <1>9 DEF C, M, t

\* The requests of the applications are the requests of the model, and so are
\* their seconds.
LEMMA BasisAdds ==
  ASSUME LedgerTypeOK, NEW m \in BilledModels
  PROVE  /\ Ledger!Basis(m, Apps) \in Nat /\ \A p \in Apps : Ledger!Basis(m, {p}) \in Nat
         /\ Total([p \in Apps |-> Ledger!Basis(m, {p})], Apps) = Ledger!Basis(m, Apps)
         /\ Ledger!Asked(m) # 0 => Ledger!Basis(m, Apps) # 0
         /\ Ledger!Asked(m) = 0 => /\ Ledger!ModelUsed(m) = 0
                                   /\ \A p \in Apps : Ledger!Basis(m, {p}) = 0
<1> DEFINE R == PartOf(BilledSet, ModelOf, m)
           byApp(F) == [p \in Apps |-> Total(F, PartOf(R, AppOf, p))]
<1>1. /\ R \in SUBSET BilledSet /\ IsFiniteSet(R)
      /\ \A i \in R : AppOf[i] \in Apps /\ Ones[i] = 1 /\ Times[i] \in Nat
  BY RowsTyped, FS_Subset DEF PartOf
<1>2. Asking(m, Apps) = R /\ \A p : Asking(m, {p}) = PartOf(R, AppOf, p)
  BY <1>1 DEF Asking, PartOf
<1>3. /\ Ledger!Seconds(m, Apps) = Total(Times, R) /\ Ledger!Asked(m) = Total(Ones, R)
      /\ Ledger!Calls(m, Apps) = Total(Ones, R) /\ Ledger!ModelUsed(m) = Total(Costs, R)
      /\ \A p : /\ Ledger!Seconds(m, {p}) = Total(Times, PartOf(R, AppOf, p))
                /\ Ledger!Calls(m, {p}) = Total(Ones, PartOf(R, AppOf, p))
  BY <1>2, ViewSums DEF Ledger!Asked
<1> HIDE DEF R
<1>4. \A T \in SUBSET R : Total(Ones, T) \in Nat /\ Total(Times, T) \in Nat
  <2> SUFFICES ASSUME NEW T \in SUBSET R PROVE Total(Ones, T) \in Nat /\ Total(Times, T) \in Nat
    OBVIOUS
  <2>1. IsFiniteSet(T) /\ \A i \in T : Ones[i] \in Nat /\ Times[i] \in Nat
    BY <1>1, FS_Subset
  <2> QED BY <2>1, TotalNatural
<1>5. \A p : PartOf(R, AppOf, p) \in SUBSET R
  BY DEF PartOf
<1>6. Ledger!Basis(m, Apps) \in Nat /\ \A p \in Apps : Ledger!Basis(m, {p}) \in Nat
  BY <1>3, <1>4, <1>5 DEF Ledger!Basis
<1>7. Total(byApp(Times), Apps) = Total(Times, R) /\ Total(byApp(Ones), Apps) = Total(Ones, R)
  <2>1. Ints(Times, R) /\ Ints(Ones, R)
    BY <1>1 DEF Ints
  <2> QED BY <1>1, <2>1, LedgerFinite, Grouped
<1>8. Total([p \in Apps |-> Ledger!Basis(m, {p})], Apps) = Ledger!Basis(m, Apps)
  <2>1. CASE Total(Times, R) > 0
    <3>1. [p \in Apps |-> Ledger!Basis(m, {p})] = byApp(Times)
      BY <1>3, <2>1 DEF Ledger!Basis
    <3> HIDE DEF byApp
    <3> QED BY <1>3, <1>7, <2>1, <3>1 DEF Ledger!Basis
  <2>2. CASE ~(Total(Times, R) > 0)
    <3>1. [p \in Apps |-> Ledger!Basis(m, {p})] = byApp(Ones)
      BY <1>3, <2>2 DEF Ledger!Basis
    <3> HIDE DEF byApp
    <3> QED BY <1>3, <1>7, <2>2, <3>1 DEF Ledger!Basis
  <2> QED BY <2>1, <2>2
<1>9. Ledger!Asked(m) # 0 => Ledger!Basis(m, Apps) # 0
  BY <1>3, <1>4 DEF Ledger!Basis
<1>10. ASSUME Ledger!Asked(m) = 0
       PROVE  Ledger!ModelUsed(m) = 0 /\ \A p \in Apps : Ledger!Basis(m, {p}) = 0
  <2>1. R = {}
    <3>1. Total(Ones, R) = 1 * Cardinality(R) /\ Cardinality(R) \in Nat
      BY <1>1, TotalConstant, FS_CardinalityType
    <3>2. Cardinality(R) = 0
      <4> DEFINE n == Cardinality(R)
      <4>1. n \in Nat /\ 1 * n = 0
        BY <1>3, <1>10, <3>1
      <4> HIDE DEF n
      <4>2. n = 0
        BY <4>1
      <4> QED BY <4>2 DEF n
    <3> QED BY <1>1, <3>2, FS_EmptySet
  <2>2. \A p : PartOf(R, AppOf, p) = {}
    BY <2>1 DEF PartOf
  <2> QED BY <1>3, <2>1, <2>2, TotalEmpty DEF Ledger!Basis
<1> QED BY <1>6, <1>8, <1>9, <1>10

\* What a model cost idle is shared out among those who asked for it, to the last unit.
LEMMA IdleAdds ==
  ASSUME LedgerTypeOK, ReadyKept, Ledger!WholeFits, NEW m \in BilledModels
  PROVE  /\ Ledger!Idle(m) \in Int /\ Ledger!ModelUsed(m) \in Int
         /\ \A p \in Apps : Ledger!IdleShare(m, p) \in Int
         /\ Total([p \in Apps |-> Ledger!IdleShare(m, p)], Apps)
              = IF Ledger!Asked(m) = 0 \/ Ledger!Idle(m) <= 0 THEN 0
                                                             ELSE Multiple * Ledger!Idle(m)
<1> DEFINE S == [p \in Apps |-> Ledger!IdleShare(m, p)]
           b == [p \in Apps |-> Ledger!Basis(m, {p})]
           B == Ledger!Basis(m, Apps)
           idle == Ledger!Idle(m)
           w == Multiple
           u == w \div B
           k == idle * u
<1>1. idle \in Int /\ Ledger!ModelUsed(m) \in Int
  <2>1. IsFiniteSet(PartOf(BilledSet, ModelOf, m)) /\ Ints(Costs, PartOf(BilledSet, ModelOf, m))
    BY RowsTyped, FS_Subset DEF PartOf, Ints
  <2>2. Ledger!ModelUsed(m) \in Int
    BY <2>1, ViewSums, TotalWithout
  <2>3. readyCosts[m] \in Nat
    BY LedgerFinite DEF ReadyKept
  <2> QED BY <2>2, <2>3 DEF Ledger!Idle
<1>2. ASSUME Ledger!Asked(m) = 0 \/ idle <= 0
      PROVE  (\A p \in Apps : Ledger!IdleShare(m, p) = 0) /\ Total(S, Apps) = 0
  <2>1. \A p \in Apps : S[p] = 0 /\ Ledger!IdleShare(m, p) = 0
    BY <1>2, BasisAdds DEF Ledger!IdleShare
  <2>2. Cardinality(Apps) \in Nat
    BY LedgerFinite, FS_CardinalityType
  <2> HIDE DEF S
  <2>3. Total(S, Apps) = 0 * Cardinality(Apps)
    BY <2>1, LedgerFinite, TotalConstant
  <2> QED BY <2>1, <2>2, <2>3
<1>3. ASSUME Ledger!Asked(m) # 0, ~(idle <= 0)
      PROVE  (\A p \in Apps : Ledger!IdleShare(m, p) \in Int) /\ Total(S, Apps) = w * idle
  <2>1. /\ B \in Nat \ {0} /\ Total(b, Apps) = B /\ \A p \in Apps : b[p] \in Nat
        /\ w \in Nat \ {0}
    BY <1>3, BasisAdds, LedgerFinite
  <2>2. w % B = 0
    BY <2>1 DEF Ledger!WholeFits
  <2>3. \A p \in Apps : /\ S[p] = Ledger!IdleShare(m, p)
                        /\ S[p] = IF b[p] = 0 THEN 0 ELSE (idle * w * b[p]) \div B
    BY <1>3 DEF Ledger!IdleShare
  <2> HIDE DEF S, b, B, idle, w
  <2>4. u \in Int /\ w = B * u
    BY <2>1, <2>2, Division
  <2> HIDE DEF u
  <2>5. k \in Int
    BY <1>1, <2>4
  <2>6. ASSUME NEW p \in Apps PROVE S[p] = k * b[p]
    <3>1. b[p] \in Nat
      BY <2>1
    <3>2. CASE b[p] = 0
      <4> HIDE DEF k
      <4>1. k * 0 = 0
        BY <2>5
      <4> QED BY <2>3, <3>2, <4>1
    <3>3. CASE b[p] # 0
      <4>1. idle * w * b[p] = (k * b[p]) * B /\ k * b[p] \in Int
        <5> DEFINE x == b[p]
        <5> HIDE DEF x
        <5>1. x \in Int /\ idle \in Int /\ u \in Int /\ B \in Int
          BY <1>1, <2>1, <2>4, <3>1 DEF x
        <5>2. idle * (B * u) * x = ((idle * u) * x) * B /\ (idle * u) * x \in Int
          BY <5>1
        <5> QED BY <2>4, <5>2 DEF x, k
      <4>2. (idle * w * b[p]) \div B = k * b[p]
        BY <2>1, <4>1, Exact
      <4> QED BY <2>3, <3>3, <4>2
    <3> QED BY <3>2, <3>3
  <2> HIDE DEF k
  <2>7. Total(S, Apps) = k * B
    <3>1. Ints(b, Apps)
      BY <2>1 DEF Ints
    <3> QED BY <2>1, <2>5, <2>6, <3>1, LedgerFinite, TotalScale
  <2>8. k * B = w * idle
    BY <1>1, <2>1, <2>4 DEF k
  <2>9. \A p \in Apps : Ledger!IdleShare(m, p) \in Int
    <3> SUFFICES ASSUME NEW p \in Apps PROVE Ledger!IdleShare(m, p) \in Int
      OBVIOUS
    <3>1. Ledger!IdleShare(m, p) = k * b[p] /\ b[p] \in Nat
      BY <2>1, <2>3, <2>6
    <3> QED BY <2>5, <3>1
  <2> QED BY <2>7, <2>8, <2>9
<1> QED BY <1>1, <1>2, <1>3

\* The applications are charged what the models they asked for cost, or what they used.
LEMMA AppsAddUp ==
  ASSUME LedgerTypeOK, ReadyKept, Ledger!WholeFits
  PROVE  Ledger!SumOver(Apps, LAMBDA p : Ledger!AppUsed(p) * Multiple + Ledger!AppIdle(p))
           = Multiple * Ledger!SumOver({m \in BilledModels : Ledger!Asked(m) > 0},
                          LAMBDA m : Ledger!Max({readyCosts[m], Ledger!ModelUsed(m)}))
<1> DEFINE M == BilledModels
           w == Multiple
           used == [m \in M |-> Ledger!ModelUsed(m)]
           share == [p \in Apps |-> [m \in M |-> Ledger!IdleShare(m, p)]]
           col == [m \in M |-> [p \in Apps |-> Ledger!IdleShare(m, p)]]
           idle == [m \in M |-> Total(col[m], Apps)]
           appUsed == [p \in Apps |-> Ledger!AppUsed(p)]
           appIdle == [p \in Apps |-> Ledger!AppIdle(p)]
           wholeUsed == [p \in Apps |-> w * appUsed[p]]
           paid == [p \in Apps |-> Ledger!AppUsed(p) * w + Ledger!AppIdle(p)]
           asked == {m \in M : Ledger!Asked(m) > 0}
           top == [m \in asked |-> Ledger!Max({readyCosts[m], Ledger!ModelUsed(m)})]
           due == [m \in M |-> IF m \in asked
                               THEN Ledger!Max({readyCosts[m], Ledger!ModelUsed(m)}) ELSE 0]
           wholeModels == [m \in M |-> w * used[m]]
           wholeDue == [m \in M |-> w * due[m]]
<1>1. IsFiniteSet(M) /\ IsFiniteSet(Apps) /\ w \in Nat \ {0}
  BY LedgerFinite
<1>2. /\ Ledger!SumOver(Apps, LAMBDA p : Ledger!AppUsed(p) * Multiple + Ledger!AppIdle(p))
           = Total(paid, Apps)
      /\ Ledger!SumOver(asked, LAMBDA m : Ledger!Max({readyCosts[m], Ledger!ModelUsed(m)}))
           = Total(top, asked)
  BY SameLedgerSum DEF Ledger!SumOver
<1>3. \A m \in M : \A p \in Apps : Ledger!IdleShare(m, p) \in Int
  BY IdleAdds
<1>4. /\ \A p \in Apps : Ints(share[p], M)
      /\ \A m \in M : Ints(col[m], Apps) /\ \A p \in Apps : col[m][p] = share[p][m]
  BY <1>3 DEF Ints
<1>5. ASSUME NEW p \in Apps
      PROVE  appIdle[p] = Total(share[p], M) /\ appIdle[p] \in Int
  <2>1. appIdle[p] = Total(share[p], M)
    BY SameLedgerSum DEF Ledger!AppIdle, Ledger!SumOver
  <2>2. Ints(share[p], M)
    BY <1>4
  <2> HIDE DEF share, appIdle, M
  <2> QED BY <1>1, <2>1, <2>2, TotalWithout
<1>6. ASSUME NEW p \in Apps PROVE appUsed[p] \in Int
  <2>1. PartOf(BilledSet, AppOf, p) \in SUBSET BilledSet
    BY DEF PartOf
  <2>2. IsFiniteSet(PartOf(BilledSet, AppOf, p)) /\ Ints(Costs, PartOf(BilledSet, AppOf, p))
    BY <2>1, RowsTyped, FS_Subset DEF Ints
  <2>3. Ledger!AppUsed(p) \in Int
    BY <2>2, ViewSums, TotalWithout
  <2> QED BY <2>3
<1>7. ASSUME NEW p \in Apps
      PROVE  wholeUsed[p] = w * appUsed[p] /\ paid[p] = wholeUsed[p] + appIdle[p]
  <2>1. /\ wholeUsed[p] = w * appUsed[p] /\ appIdle[p] = Ledger!AppIdle(p)
        /\ appUsed[p] = Ledger!AppUsed(p) /\ paid[p] = Ledger!AppUsed(p) * w + Ledger!AppIdle(p)
    OBVIOUS
  <2>2. appUsed[p] * w = w * appUsed[p]
    BY <1>1, <1>6
  <2> HIDE DEF paid, wholeUsed, appUsed, appIdle, w
  <2> QED BY <2>1, <2>2
<1>8. ASSUME NEW m \in M
      PROVE  /\ used[m] \in Int /\ due[m] \in Int /\ idle[m] \in Int
             /\ wholeModels[m] = w * used[m] /\ wholeDue[m] = w * due[m]
             /\ wholeDue[m] = wholeModels[m] + idle[m]
             /\ idle[m] = Total(col[m], Apps)
  <2> DEFINE i == Ledger!Idle(m)
             r == readyCosts[m]
             z == Ledger!ModelUsed(m)
             n == Ledger!Asked(m)
  <2>1. /\ i = r - z /\ r \in Int /\ z \in Int /\ n \in Nat /\ (n = 0 => z = 0)
        /\ idle[m] = IF n = 0 \/ i <= 0 THEN 0 ELSE w * i
    <3>1. r \in Nat
      BY LedgerFinite DEF ReadyKept
    <3>2. z \in Int /\ Total([p \in Apps |-> Ledger!IdleShare(m, p)], Apps)
                         = IF n = 0 \/ i <= 0 THEN 0 ELSE w * i
      BY IdleAdds
    <3>3. n \in Nat /\ (n = 0 => z = 0)
      BY CountsAdd, BasisAdds
    <3>4. i = r - z
      BY DEF Ledger!Idle
    <3>5. idle[m] = Total([p \in Apps |-> Ledger!IdleShare(m, p)], Apps)
      OBVIOUS
    <3> HIDE DEF idle, i, r, z, n
    <3> QED BY <3>1, <3>2, <3>3, <3>4, <3>5
  <2>2. due[m] = IF n > 0 THEN (IF r >= z THEN r ELSE z) ELSE 0
    <3>1. due[m] = IF n > 0 THEN Ledger!Max({r, z}) ELSE 0
      OBVIOUS
    <3> HIDE DEF due, r, z, n
    <3> QED BY <2>1, <3>1, LedgerMax
  <2>3. used[m] = z /\ wholeModels[m] = w * used[m] /\ wholeDue[m] = w * due[m]
        /\ idle[m] = Total(col[m], Apps)
    OBVIOUS
  <2> HIDE DEF i, r, z, n, used, idle, due, wholeModels, wholeDue, col, w
  <2>4. w * r = w * z + w * (r - z) /\ w * 0 = 0 /\ w * (r - z) \in Int
    BY <1>1, <2>1
  <2>5. wholeDue[m] = wholeModels[m] + idle[m] /\ idle[m] \in Int
    <3>1. w * z \in Int /\ w * r \in Int
      BY <1>1, <2>1
    <3>2. CASE n = 0
      BY <2>1, <2>2, <2>3, <2>4, <3>1, <3>2
    <3>3. CASE n > 0 /\ i <= 0
      <4>1. due[m] = z
        BY <2>1, <2>2, <3>3
      <4> QED BY <2>1, <2>3, <3>1, <3>3, <4>1
    <3>4. CASE n > 0 /\ ~(i <= 0)
      <4>1. due[m] = r
        BY <2>1, <2>2, <3>4
      <4> QED BY <2>1, <2>3, <2>4, <3>1, <3>4, <4>1
    <3> QED BY <2>1, <3>2, <3>3, <3>4
  <2> QED BY <2>1, <2>2, <2>3, <2>5
<1>9. /\ asked \in SUBSET M /\ (\A m \in M \ asked : due[m] = 0)
      /\ \A m \in asked : top[m] = due[m]
  OBVIOUS
<1>10. Total(used, M) = Total(appUsed, Apps)
  BY UsedByAll
<1> HIDE DEF M, w, used, share, col, idle, appUsed, appIdle, wholeUsed, paid, asked, top, due,
             wholeModels, wholeDue
<1>11. Total(appIdle, Apps) = Total(idle, M)
  <2>1. Crossed(share, appIdle, Apps, col, idle, M)
    BY <1>4, <1>5, <1>8 DEF Crossed
  <2> QED BY <1>1, <2>1, TotalSwap
<1>12. Ints(appUsed, Apps) /\ Ints(appIdle, Apps) /\ Ints(used, M) /\ Ints(idle, M) /\ Ints(due, M)
  BY <1>5, <1>6, <1>8 DEF Ints
<1>13. Total(wholeUsed, Apps) = w * Total(appUsed, Apps) /\ Ints(wholeUsed, Apps)
  <2>1. Total(wholeUsed, Apps) = w * Total(appUsed, Apps)
    BY <1>1, <1>7, <1>12, TotalScale
  <2>2. \A p \in Apps : w * appUsed[p] \in Int
    BY <1>1, <1>6
  <2> QED BY <1>7, <2>1, <2>2 DEF Ints
<1>14. Total(paid, Apps) = Total(wholeUsed, Apps) + Total(appIdle, Apps)
  BY <1>1, <1>7, <1>12, <1>13, TotalAdd
<1>15. Total(wholeModels, M) = w * Total(used, M) /\ Ints(wholeModels, M)
  <2>1. Total(wholeModels, M) = w * Total(used, M)
    BY <1>1, <1>8, <1>12, TotalScale
  <2>2. \A m \in M : w * used[m] \in Int
    BY <1>1, <1>8
  <2> QED BY <1>8, <2>1, <2>2 DEF Ints
<1>16. Total(wholeDue, M) = Total(wholeModels, M) + Total(idle, M)
  BY <1>1, <1>8, <1>12, <1>15, TotalAdd
<1>17. Total(wholeDue, M) = w * Total(due, M)
  BY <1>1, <1>8, <1>12, TotalScale
<1>18. Total(due, M) = Total(top, asked)
  <2>1. Total(due, M) = Total(due, asked)
    BY <1>1, <1>9, <1>12, TotalSupport
  <2>2. IsFiniteSet(asked) /\ Ints(due, asked)
    BY <1>1, <1>9, <1>12, FS_Subset DEF Ints
  <2>3. Total(top, asked) = Total(due, asked)
    BY <1>9, <2>2, TotalSame
  <2> QED BY <2>1, <2>3
<1>19. Total(paid, Apps) = w * Total(top, asked)
  BY <1>10, <1>11, <1>13, <1>14, <1>15, <1>16, <1>17, <1>18
<1> QED BY <1>2, <1>19 DEF asked, M, w

\* However requests are spread over models, aliases and applications, and whatever
\* prices do, the bill by alias adds up to what the models cost, no cell is off by
\* a micro-dollar, the use is the same by alias as by model, and the applications
\* are charged what the models they asked for cost, or what they used if that is
\* more; Multiple is but the unit of the shares, fine enough to divide them.
THEOREM MoneyIsExact ==
  Ledger!Spec => [](Ledger!WholeFits => Ledger!MoneyAddsUp) /\ []MoneyAddsUp
<1>1. LedgerInv /\ ReadyKept => (Ledger!WholeFits => Ledger!MoneyAddsUp)
  <2> SUFFICES ASSUME LedgerTypeOK, ReadyKept, Ledger!WholeFits PROVE Ledger!MoneyAddsUp
    BY DEF LedgerInv
  <2>1. Ledger!SumOver(BilledModels, Ledger!ModelUsed)
          = Ledger!SumOver(Aliases \cup {None}, Ledger!GroupUsed)
    BY UsedByAll DEF AliasNames
  <2> DEFINE cells == Ledger!Cells
             micros == [c \in cells |-> Ledger!Allocated(c)]
  <2>2. Ledger!SumFunctionOnSet(micros, cells) = Ledger!Target
    BY CellsAddUp DEF Ledger!SumOver
  <2>3. \A c \in cells : /\ micros[c] * Ledger!Micro > c.raw - Ledger!Micro
                         /\ micros[c] * Ledger!Micro < c.raw + Ledger!Micro
    BY CellsAddUp
  <2> QED BY <2>1, <2>2, <2>3, AppsAddUp DEF Ledger!MoneyAddsUp
<1>2. Ledger!Init => LedgerInv /\ ReadyKept
  BY LedgerInit DEF Ledger!Init, ReadyKept
<1>3. LedgerInv /\ ReadyKept /\ [Ledger!Next]_(Ledger!vars) => LedgerInv' /\ ReadyKept'
  BY LedgerNext, ReadyNext
<1>4. (Ledger!WholeFits => Ledger!MoneyAddsUp) => MoneyAddsUp
  BY DEF MoneyAddsUp
<1> QED BY <1>1, <1>2, <1>3, <1>4, PTL DEF Ledger!Spec
-----------------------------------------------------------------------------
(***************************************************************************)
(* The requests the metrics count.                                         *)
(***************************************************************************)

ActivityRows == [id : Nat, request : Nat]
SeenKeys == ScrapedWorkers \X Nat

ScrapeStates ==
  {None} \cup [todo : SUBSET ScrapedWorkers,
               got : [ScrapedWorkers -> Seq(ActivityRows) \cup {None}]]

MetricsTypeOK ==
  /\ history \in [ScrapedWorkers -> Seq(ActivityRows)]
  /\ requests \in [ScrapedWorkers -> Nat]
  /\ scrapes \in [Scrapes -> ScrapeStates]
  /\ seen \in SUBSET SeenKeys
  /\ seenOrder \in Seq(SeenKeys)
  /\ counted \in Seq({0, 1})

\* A scrape has the answer of a worker and has not handled it yet.
Answered(p, w) == scrapes[p] # None /\ scrapes[p].got[w] # None

\* Rows of a worker that are remembered or on their way.
InHand(w, row) ==
  \/ \E i \in DOMAIN history[w] : history[w][i] = row
  \/ \E p \in Scrapes :
       Answered(p, w) /\ \E i \in DOMAIN scrapes[p].got[w] : scrapes[p].got[w][i] = row

\* A row is of a request that was served; the same id at the same worker is the
\* same request, and no other row is of it.
RowsProper ==
  /\ \A w \in ScrapedWorkers : \A r \in ActivityRows : InHand(w, r) =>
       r.id <= requests[w] /\ r.request \in DOMAIN counted
  /\ \A v, w \in ScrapedWorkers : \A r, s \in ActivityRows : InHand(v, r) /\ InHand(w, s) =>
       (r.request = s.request <=> (v = w /\ r.id = s.id))

\* A key is that of a request that was served; a row is known if and only if its
\* request was counted; and there are no more keys than requests counted.
Tally(c) == {r \in DOMAIN c : c[r] = 1}

KeysProper ==
  /\ \A k \in seen : k[2] <= requests[k[1]]
  /\ \A w \in ScrapedWorkers : \A r \in ActivityRows : InHand(w, r) =>
       (<<w, r.id>> \in seen <=> counted[r.request] = 1)
  /\ Len(seenOrder) = Cardinality(Tally(counted))

\* As long as every request has room among the keys.
Room == Len(counted) <= Cap

MetricsInv == MetricsTypeOK /\ RowsProper /\ KeysProper

\* The requests are numbered, whatever becomes of the keys.
Numbers(c) == \E n \in Nat : c \in [1 .. n -> {c[i] : i \in DOMAIN c}]

LEMMA MetricsAssumed == Keep \in Nat \ {0} /\ Cap \in Nat \ {0}
  BY GatewayStoresAssumption DEF GatewayStoresAssumption, Metrics!MetricsAssumption

LEMMA NewestOf ==
  ASSUME NEW T, NEW s \in Seq(T), NEW n \in Nat \ {0}
  PROVE  /\ Metrics!Newest(s, n) \in Seq(T)
         /\ \A i \in DOMAIN Metrics!Newest(s, n) :
              \E j \in DOMAIN s : Metrics!Newest(s, n)[i] = s[j]
         /\ Len(s) <= n => Metrics!Newest(s, n) = s
<1> DEFINE a == IF Len(s) > n THEN Len(s) - n + 1 ELSE 1
           t == SubSeq(s, a, Len(s))
<1>1. Metrics!Newest(s, n) = t
  BY DEF Metrics!Newest
<1>2. /\ Len(s) \in Nat /\ DOMAIN s = 1 .. Len(s) /\ a \in Nat /\ a >= 1 /\ a <= Len(s) + 1
      /\ \A i \in 1 .. Len(s) : s[i] \in T
  OBVIOUS
<1> HIDE DEF a
<1>3. /\ t = [i \in 1 .. (Len(s) - a + 1) |-> s[i + a - 1]]
      /\ Len(s) - a + 1 \in Nat
  BY <1>2
<1>4. \A i \in 1 .. (Len(s) - a + 1) : i + a - 1 \in 1 .. Len(s) /\ s[i + a - 1] \in T
  BY <1>2
<1>5. t \in Seq(T) /\ \A i \in DOMAIN t : \E j \in DOMAIN s : t[i] = s[j]
  BY <1>2, <1>3, <1>4
<1>6. Len(s) <= n => t = s
  <2> SUFFICES ASSUME Len(s) <= n PROVE t = s
    OBVIOUS
  <2>1. a = 1
    BY <1>2 DEF a
  <2> QED BY <1>2, <1>3, <2>1
<1> QED BY <1>1, <1>5, <1>6

\* One row is passed over or remembered.
Passed(w, k, row) ==
  IF <<w, row.id>> \in k.known THEN k ELSE Metrics!Remembered(k, <<w, row.id>>, row)

\* g says of a set of places in s what pulling the rows there makes of k.
PullsAll(w, k, s, g, D) ==
  g = [S \in SUBSET D |-> IF S = {} THEN k
                          ELSE Passed(w, g[S \ {Metrics!Max(S)}], s[Metrics!Max(S)])]

LEMMA PulledIsFold ==
  ASSUME NEW p, NEW w
  PROVE  LET s == scrapes[p].got[w]
             k == [known |-> seen, order |-> seenOrder, new |-> <<>>]
         IN  Metrics!Pulled(p, w) = (CHOOSE g : PullsAll(w, k, s, g, DOMAIN s))[DOMAIN s]
  BY DEF Metrics!Pulled, Metrics!FoldLeft, Metrics!MapThenFoldSet, Metrics!Key, PullsAll, Passed

LEMMA MaxOf ==
  ASSUME NEW n \in Nat, NEW S \in SUBSET (1 .. n + 1), n + 1 \in S
  PROVE  Metrics!Max(S) = n + 1
<1>1. \A y \in S : n + 1 >= y
  OBVIOUS
<1>2. \A x \in S : (\A y \in S : x >= y) => x = n + 1
  OBVIOUS
<1> QED BY <1>1, <1>2 DEF Metrics!Max

\* There is such a g, and it takes the rows in their order.
LEMMA PullsAllExists ==
  ASSUME NEW w, NEW k, NEW s, NEW n \in Nat
  PROVE  \E g : PullsAll(w, k, s, g, 1 .. n)
<1> DEFINE G == {m \in Nat : \E g : PullsAll(w, k, s, g, 1 .. m)}
<1>1. 0 \in G
  <2> DEFINE g == [S \in SUBSET (1 .. 0) |-> k]
  <2>1. \A S \in SUBSET (1 .. 0) : S = {}
    OBVIOUS
  <2>2. PullsAll(w, k, s, g, 1 .. 0)
    BY <2>1 DEF PullsAll
  <2> QED BY <2>2
<1>2. ASSUME NEW m \in Nat, m \in G PROVE m + 1 \in G
  <2>1. PICK h : PullsAll(w, k, s, h, 1 .. m)
    BY <1>2
  <2> DEFINE g == [S \in SUBSET (1 .. m + 1) |->
                     IF m + 1 \in S THEN Passed(w, h[S \ {m + 1}], s[m + 1]) ELSE h[S]]
             value(S) == IF S = {} THEN k
                         ELSE Passed(w, g[S \ {Metrics!Max(S)}], s[Metrics!Max(S)])
  <2>2. ASSUME NEW S \in SUBSET (1 .. m + 1) PROVE g[S] = value(S)
    <3>1. CASE m + 1 \in S
      <4>1. Metrics!Max(S) = m + 1
        BY <3>1, MaxOf
      <4>2. S \ {m + 1} \in SUBSET (1 .. m + 1) /\ m + 1 \notin S \ {m + 1}
        OBVIOUS
      <4>3. g[S \ {m + 1}] = h[S \ {m + 1}]
        BY <4>2
      <4>4. g[S] = Passed(w, h[S \ {m + 1}], s[m + 1])
        BY <3>1
      <4> HIDE DEF g
      <4> QED BY <3>1, <4>1, <4>3, <4>4
    <3>2. CASE m + 1 \notin S
      <4>1. S \in SUBSET (1 .. m)
        BY <3>2
      <4> DEFINE r == S \ {Metrics!Max(S)}
      <4>2. r \in SUBSET (1 .. m + 1) /\ m + 1 \notin r
        BY <3>2
      <4>3. g[r] = h[r] /\ g[S] = h[S]
        <5> HIDE DEF r
        <5> QED BY <3>2, <4>2
      <4>4. h[S] = IF S = {} THEN k ELSE Passed(w, h[r], s[Metrics!Max(S)])
        BY <2>1, <4>1 DEF PullsAll
      <4> HIDE DEF g
      <4> QED BY <4>3, <4>4
    <3> QED BY <3>1, <3>2
  <2>3. PullsAll(w, k, s, g, 1 .. m + 1)
    <3>1. g = [S \in SUBSET (1 .. m + 1) |-> g[S]]
      OBVIOUS
    <3> HIDE DEF g
    <3>2. g = [S \in SUBSET (1 .. m + 1) |-> value(S)]
      BY <2>2, <3>1
    <3> QED BY <3>2 DEF PullsAll
  <2> HIDE DEF g
  <2> QED BY <2>3
<1> HIDE DEF G
<1>3. Nat \subseteq G
  BY <1>1, <1>2, Inductive
<1> QED BY <1>3 DEF G

\* One row after the other.
InOrder(w, k, s, g, n) ==
  /\ g[1 .. 0] = k
  /\ \A i \in 0 .. n - 1 : g[1 .. i + 1] = Passed(w, g[1 .. i], s[i + 1])

LEMMA PullsInOrder ==
  ASSUME NEW w, NEW k, NEW s, NEW n \in Nat, NEW g, PullsAll(w, k, s, g, 1 .. n)
  PROVE  InOrder(w, k, s, g, n)
<1>1. g[1 .. 0] = k
  <2>1. 1 .. 0 = {}
    OBVIOUS
  <2> QED BY <2>1 DEF PullsAll
<1>2. ASSUME NEW i \in 0 .. n - 1 PROVE g[1 .. i + 1] = Passed(w, g[1 .. i], s[i + 1])
  <2> DEFINE S == 1 .. i + 1
  <2>1. i \in Nat /\ S \in SUBSET (1 .. n) /\ i + 1 \in S /\ S \ {i + 1} = 1 .. i /\ S # {}
    OBVIOUS
  <2>2. Metrics!Max(S) = i + 1
    BY <2>1, MaxOf
  <2> HIDE DEF S
  <2>3. g[S] = Passed(w, g[S \ {i + 1}], s[i + 1])
    BY <2>1, <2>2 DEF PullsAll
  <2> QED BY <2>1, <2>3 DEF S
<1> QED BY <1>1, <1>2 DEF InOrder
-----------------------------------------------------------------------------
(***************************************************************************)
(* What is known and what is counted after the first rows of an answer.    *)
(***************************************************************************)

Asked(s, i) == {s[j].request : j \in 1 .. i}
KeysOf(w, s, i) == {<<w, s[j].id>> : j \in 1 .. i}
Done(s, i) == Tally(counted) \cup Asked(s, i)

After(w, s, i, k) ==
  /\ k.known = seen \cup KeysOf(w, s, i)
  /\ k.order \in Seq(SeenKeys) /\ Len(k.order) = Cardinality(Done(s, i))
  /\ k.new \in Seq(DOMAIN counted)
  /\ \A a, b \in DOMAIN k.new : k.new[a] = k.new[b] => a = b
  /\ {k.new[a] : a \in DOMAIN k.new} = Asked(s, i) \ Tally(counted)

\* An answer whose rows are in hand.
AnswerOf(w, s) == s \in Seq(ActivityRows) /\ \A i \in DOMAIN s : InHand(w, s[i])

LEMMA DoneFits ==
  ASSUME MetricsInv, NEW w \in ScrapedWorkers, NEW s, AnswerOf(w, s), NEW i \in 0 .. Len(s)
  PROVE  /\ IsFiniteSet(Done(s, i)) /\ Done(s, i) \subseteq DOMAIN counted
         /\ Cardinality(Done(s, i)) \in Nat /\ Cardinality(Done(s, i)) <= Len(counted)
<1>1. DOMAIN counted = 1 .. Len(counted) /\ Len(counted) \in Nat
  BY DEF MetricsInv, MetricsTypeOK
<1>2. \A j \in 1 .. i : s[j] \in ActivityRows /\ InHand(w, s[j])
  BY DEF AnswerOf
<1>3. Done(s, i) \subseteq DOMAIN counted
  BY <1>2 DEF Done, Asked, Tally, MetricsInv, RowsProper
<1>4. IsFiniteSet(1 .. Len(counted)) /\ Cardinality(1 .. Len(counted)) = Len(counted)
  <2> DEFINE n == Len(counted)
  <2>1. n \in Nat /\ n \in Int /\ 1 \in Int
    BY <1>1
  <2> HIDE DEF n
  <2>2. IsFiniteSet(1 .. n) /\ Cardinality(1 .. n) = IF 1 > n THEN 0 ELSE n - 1 + 1
    BY <2>1, FS_Interval
  <2>3. (IF 1 > n THEN 0 ELSE n - 1 + 1) = n
    BY <2>1
  <2> QED BY <2>2, <2>3 DEF n
<1> QED BY <1>1, <1>3, <1>4, FS_Subset, FS_CardinalityType

LEMMA PassedKeeps ==
  ASSUME MetricsInv, Room, NEW w \in ScrapedWorkers, NEW s, AnswerOf(w, s),
         NEW i \in 0 .. Len(s) - 1, NEW k, After(w, s, i, k)
  PROVE  After(w, s, i + 1, Passed(w, k, s[i + 1]))
<1> DEFINE row == s[i + 1]
           key == <<w, row.id>>
           more == Metrics!Remembered(k, key, row)
<1>0. i \in Nat /\ i + 1 \in 1 .. Len(s) /\ i \in 0 .. Len(s) /\ i + 1 \in 0 .. Len(s)
      /\ 1 .. i + 1 = (1 .. i) \cup {i + 1}
  BY DEF AnswerOf
<1>1. row \in ActivityRows /\ InHand(w, row) /\ row.id \in Nat /\ row.request \in DOMAIN counted
  <2>1. row \in ActivityRows /\ InHand(w, row)
    BY <1>0 DEF AnswerOf
  <2> QED BY <2>1 DEF ActivityRows, MetricsInv, RowsProper
<1>2. \A j \in 1 .. i : s[j] \in ActivityRows /\ InHand(w, s[j])
  BY <1>0 DEF AnswerOf
<1>3. Asked(s, i + 1) = Asked(s, i) \cup {row.request}
  BY <1>0 DEF Asked
<1>4. KeysOf(w, s, i + 1) = KeysOf(w, s, i) \cup {key}
  BY <1>0 DEF KeysOf
<1>5. Done(s, i + 1) = Done(s, i) \cup {row.request}
  BY <1>3 DEF Done
<1> HIDE DEF row
\* The key is known if and only if the request was counted.
<1>6. \A j \in 1 .. i : s[j].id = row.id <=> s[j].request = row.request
  BY <1>1, <1>2 DEF MetricsInv, RowsProper
<1>7. key \in seen <=> row.request \in Tally(counted)
  BY <1>1 DEF MetricsInv, KeysProper, Tally
<1>8. key \in KeysOf(w, s, i) <=> row.request \in Asked(s, i)
  BY <1>6 DEF KeysOf, Asked
<1>9. key \in k.known <=> row.request \in Done(s, i)
  BY <1>7, <1>8 DEF Done, After
<1>10. CASE key \in k.known
  <2>1. Passed(w, k, row) = k
    BY <1>10 DEF Passed
  <2>2. Done(s, i + 1) = Done(s, i) /\ row.request \in Done(s, i)
    BY <1>5, <1>9, <1>10
  <2>3. k.known = seen \cup KeysOf(w, s, i + 1)
    BY <1>4, <1>10 DEF After
  <2>4. Asked(s, i + 1) \ Tally(counted) = Asked(s, i) \ Tally(counted)
    BY <1>3, <2>2 DEF Done
  <2>5. After(w, s, i + 1, k)
    BY <2>2, <2>3, <2>4 DEF After
  <2> QED BY <2>1, <2>5 DEF row
<1>11. CASE key \notin k.known
  <2> DEFINE order == Append(k.order, key)
             new == Append(k.new, row.request)
  <2>1. row.request \notin Done(s, i)
    BY <1>9, <1>11
  <2>2. Cardinality(Done(s, i + 1)) = Cardinality(Done(s, i)) + 1
    <3>1. IsFiniteSet(Done(s, i))
      BY <1>0, DoneFits
    <3> QED BY <1>5, <2>1, <3>1, FS_AddElement
  <2>3. Cardinality(Done(s, i + 1)) <= Cap /\ Cardinality(Done(s, i + 1)) \in Nat
    <3>1. Cardinality(Done(s, i + 1)) <= Len(counted) /\ Cardinality(Done(s, i + 1)) \in Nat
      BY <1>0, DoneFits
    <3>2. Len(counted) \in Nat
      BY DEF MetricsInv, MetricsTypeOK
    <3> QED BY <3>1, <3>2, MetricsAssumed DEF Room
  <2>4. key \in SeenKeys
    BY <1>1 DEF SeenKeys
  <2>5. k.order \in Seq(SeenKeys) /\ Len(k.order) = Cardinality(Done(s, i))
    BY DEF After
  <2> HIDE DEF key
  <2>6. order \in Seq(SeenKeys) /\ Len(order) = Cardinality(Done(s, i + 1))
    BY <2>2, <2>4, <2>5
  <2>7. Metrics!Newest(order, Cap) = order
    <3> HIDE DEF order
    <3> QED BY <2>3, <2>6, MetricsAssumed, NewestOf
  <2>8. Metrics!ToSet(SubSeq(order, 1, Len(order) - Cap)) = {}
    <3> DEFINE n == Len(order) - Cap
    <3>1. n \in Int /\ n <= 0
      BY <2>3, <2>6, MetricsAssumed
    <3> HIDE DEF n, order
    <3>2. SubSeq(order, 1, n) = << >>
      BY <2>6, <3>1
    <3>3. Metrics!ToSet(<< >>) = {}
      BY DEF Metrics!ToSet
    <3> QED BY <3>2, <3>3 DEF n
  <2>9. more = [known |-> k.known \cup {key}, order |-> order, new |-> new]
    BY <2>7, <2>8 DEF Metrics!Remembered
  <2>10. Passed(w, k, row) = more
    BY <1>11 DEF Passed, key
  <2>11. more.known = seen \cup KeysOf(w, s, i + 1)
    <3>1. more.known = k.known \cup {key}
      BY <2>9
    <3> QED BY <1>4, <3>1 DEF After, key
  <2>12. /\ new \in Seq(DOMAIN counted)
         /\ \A a, b \in DOMAIN new : new[a] = new[b] => a = b
         /\ {new[a] : a \in DOMAIN new} = Asked(s, i + 1) \ Tally(counted)
    <3>1. k.new \in Seq(DOMAIN counted) /\ row.request \in DOMAIN counted
      BY <1>1 DEF After
    <3> DEFINE old == k.new
               n == Len(old)
               r == row.request
    <3>2. n \in Nat /\ DOMAIN old = 1 .. n /\ old \in Seq(DOMAIN counted)
      BY <3>1
    <3>3. /\ {old[a] : a \in DOMAIN old} = Asked(s, i) \ Tally(counted)
          /\ \A a, b \in DOMAIN old : old[a] = old[b] => a = b
      BY DEF After
    <3>4. r \notin Tally(counted) /\ r \notin Asked(s, i)
      BY <2>1 DEF Done
    <3> HIDE DEF old, n, r
    <3>5. /\ new \in Seq(DOMAIN counted)
          /\ DOMAIN new = (1 .. n) \cup {n + 1} /\ n + 1 \notin 1 .. n
          /\ new[n + 1] = r /\ \A a \in 1 .. n : new[a] = old[a]
      BY <3>1, <3>2 DEF old, n, r
    <3> HIDE DEF new
    <3>6. {new[a] : a \in DOMAIN new} = {old[a] : a \in DOMAIN old} \cup {r}
      BY <3>2, <3>5
    <3>7. \A a \in 1 .. n : old[a] # r
      BY <3>2, <3>3, <3>4
    <3>8. \A a, b \in DOMAIN new : new[a] = new[b] => a = b
      BY <3>2, <3>3, <3>5, <3>7
    <3>9. {new[a] : a \in DOMAIN new} = Asked(s, i + 1) \ Tally(counted)
      BY <1>3, <3>3, <3>4, <3>6 DEF r
    <3> QED BY <3>5, <3>8, <3>9
  <2>13. more.order = order /\ more.new = new
    BY <2>9
  <2> HIDE DEF more, order, new
  <2>14. After(w, s, i + 1, more)
    BY <2>6, <2>11, <2>12, <2>13 DEF After
  <2> QED BY <2>10, <2>14 DEF row
<1> QED BY <1>10, <1>11

\* What a scrape makes of an answer.
LEMMA PulledIs ==
  ASSUME MetricsInv, Room, NEW p \in Scrapes, NEW w \in ScrapedWorkers, Answered(p, w)
  PROVE  /\ AnswerOf(w, scrapes[p].got[w])
         /\ After(w, scrapes[p].got[w], Len(scrapes[p].got[w]), Metrics!Pulled(p, w))
<1> DEFINE s == scrapes[p].got[w]
           k == [known |-> seen, order |-> seenOrder, new |-> << >>]
<1>1. s \in Seq(ActivityRows)
  <2>1. scrapes[p] \in ScrapeStates /\ scrapes[p] # None
    BY DEF MetricsInv, MetricsTypeOK, Answered
  <2>2. scrapes[p].got \in [ScrapedWorkers -> Seq(ActivityRows) \cup {None}]
    BY <2>1 DEF ScrapeStates
  <2> QED BY <2>2 DEF Answered
<1>2. AnswerOf(w, s)
  BY <1>1 DEF AnswerOf, InHand
<1>3. Len(s) \in Nat /\ DOMAIN s = 1 .. Len(s)
  BY <1>1
<1>4. PICK g : PullsAll(w, k, s, g, 1 .. Len(s))
  BY <1>3, PullsAllExists
<1> DEFINE h == CHOOSE f : PullsAll(w, k, s, f, DOMAIN s)
<1>5. PullsAll(w, k, s, h, 1 .. Len(s)) /\ Metrics!Pulled(p, w) = h[1 .. Len(s)]
  BY <1>3, <1>4, PulledIsFold
<1> HIDE DEF h
<1>6. After(w, s, 0, k)
  <2>1. 1 .. 0 = {}
    OBVIOUS
  <2>2. Asked(s, 0) = {} /\ KeysOf(w, s, 0) = {} /\ Done(s, 0) = Tally(counted)
    BY <2>1 DEF Asked, KeysOf, Done
  <2>3. << >> \in Seq(DOMAIN counted) /\ DOMAIN << >> = {}
    OBVIOUS
  <2>4. {k.new[a] : a \in DOMAIN k.new} = {}
    BY <2>3
  <2>5. seenOrder \in Seq(SeenKeys) /\ Len(seenOrder) = Cardinality(Tally(counted))
    BY DEF MetricsInv, MetricsTypeOK, KeysProper
  <2>6. k.known = seen /\ k.order = seenOrder /\ k.new = << >>
    OBVIOUS
  <2> HIDE DEF k
  <2> QED BY <2>2, <2>3, <2>4, <2>5, <2>6 DEF After
<1> DEFINE G == {i \in Nat : i <= Len(s) => After(w, s, i, h[1 .. i])}
<1>7. h[1 .. 0] = k /\ \A i \in 0 .. Len(s) - 1 : h[1 .. i + 1] = Passed(w, h[1 .. i], s[i + 1])
  <2> DEFINE n == Len(s)
  <2>1. n \in Nat /\ PullsAll(w, k, s, h, 1 .. n)
    BY <1>3, <1>5
  <2> HIDE DEF n, k, s
  <2> HIDE DEF h
  <2>2. InOrder(w, k, s, h, n)
    BY ONLY <2>1, PullsInOrder
  <2> QED BY <2>2 DEF n, InOrder
<1> HIDE DEF k, s
<1>8. 0 \in G
  BY <1>6, <1>7
<1>9. ASSUME NEW i \in Nat, i \in G PROVE i + 1 \in G
  <2> SUFFICES ASSUME i + 1 <= Len(s) PROVE After(w, s, i + 1, h[1 .. i + 1])
    BY <1>3
  <2>1. i \in 0 .. Len(s) - 1 /\ i <= Len(s)
    BY <1>3
  <2>2. After(w, s, i, h[1 .. i])
    BY <1>9, <2>1
  <2>3. After(w, s, i + 1, Passed(w, h[1 .. i], s[i + 1]))
    BY <1>2, <2>1, <2>2, PassedKeeps
  <2> QED BY <1>7, <2>1, <2>3
<1> HIDE DEF G
<1>10. Len(s) \in G
  BY <1>3, <1>8, <1>9, Inductive
<1>11. After(w, s, Len(s), h[1 .. Len(s)])
  BY <1>3, <1>10 DEF G
<1> QED BY <1>2, <1>5, <1>11 DEF s
-----------------------------------------------------------------------------
(***************************************************************************)
(* The steps.                                                              *)
(***************************************************************************)

LEMMA SameTally == \A S : Metrics!Cardinality(S) = Cardinality(S)
  BY DEF Metrics!Cardinality, Cardinality

\* A scrape that begins, hears, fails or ends has in hand what there was.
LEMMA ScrapesMove ==
  ASSUME MetricsInv, UNCHANGED <<history, requests, seen, seenOrder, counted>>,
         scrapes' \in [Scrapes -> ScrapeStates],
         \A w \in ScrapedWorkers : \A r \in ActivityRows : InHand(w, r)' => InHand(w, r)
  PROVE  MetricsInv'
<1>1. MetricsTypeOK'
  BY DEF MetricsInv, MetricsTypeOK
<1>2. RowsProper'
  BY DEF MetricsInv, RowsProper
<1>3. KeysProper'
  BY DEF MetricsInv, KeysProper, Tally
<1> QED BY <1>1, <1>2, <1>3 DEF MetricsInv

\* One scrape handles what it has of a worker, or loses it, or hears of it.
LEMMA GotMoves ==
  ASSUME MetricsInv, NEW p \in Scrapes, NEW w \in ScrapedWorkers, scrapes[p] # None,
         NEW x, x = None \/ x = history[w],
         NEW next \in ScrapeStates, next.got = [scrapes[p].got EXCEPT ![w] = x],
         scrapes' = [scrapes EXCEPT ![p] = next],
         UNCHANGED history
  PROVE  /\ scrapes' \in [Scrapes -> ScrapeStates]
         /\ \A v \in ScrapedWorkers : \A r \in ActivityRows : InHand(v, r)' => InHand(v, r)
<1> DEFINE got == [scrapes[p].got EXCEPT ![w] = x]
<1>1. scrapes \in [Scrapes -> ScrapeStates] /\ history \in [ScrapedWorkers -> Seq(ActivityRows)]
  BY DEF MetricsInv, MetricsTypeOK
<1>2. scrapes[p].got \in [ScrapedWorkers -> Seq(ActivityRows) \cup {None}]
  BY <1>1 DEF ScrapeStates
<1>3. next.got = got
  OBVIOUS
<1>4. /\ got[w] = x
      /\ \A v \in ScrapedWorkers : v # w => got[v] = scrapes[p].got[v]
  BY <1>2
<1> HIDE DEF got
<1>5. /\ scrapes' = [scrapes EXCEPT ![p] = next]
      /\ scrapes'[p] = next
      /\ \A q \in Scrapes : q # p => scrapes'[q] = scrapes[q]
  BY <1>1
<1>6. scrapes' \in [Scrapes -> ScrapeStates]
  BY <1>1, <1>5
<1>7. ASSUME NEW v \in ScrapedWorkers, NEW r \in ActivityRows, InHand(v, r)' PROVE InHand(v, r)
  <2>1. CASE \E i \in DOMAIN history'[v] : history'[v][i] = r
    BY <2>1 DEF InHand
  <2>2. ASSUME NEW q \in Scrapes, scrapes'[q] # None, scrapes'[q].got[v] # None,
               NEW i \in DOMAIN scrapes'[q].got[v], scrapes'[q].got[v][i] = r
        PROVE  InHand(v, r)
    <3>1. CASE q # p
      BY <1>5, <2>2, <3>1 DEF InHand, Answered
    <3>2. CASE q = p /\ v # w
      BY <1>3, <1>4, <1>5, <2>2, <3>2 DEF InHand, Answered
    <3>3. CASE q = p /\ v = w
      <4>1. scrapes'[q].got[v] = x
        BY <1>3, <1>4, <1>5, <3>3
      <4>2. x = history[w]
        BY <2>2, <4>1
      <4> QED BY <2>2, <3>3, <4>1, <4>2 DEF InHand
    <3> QED BY <3>1, <3>2, <3>3
  <2> QED BY <1>7, <2>1, <2>2 DEF InHand, Answered
<1> QED BY <1>6, <1>7

LEMMA ServeKeeps ==
  ASSUME MetricsInv, NEW w \in ScrapedWorkers, Metrics!Serve(w)
  PROVE  MetricsInv'
<1> DEFINE row == Metrics!Row(w)
           longer == Append(history[w], row)
<1>1. /\ counted \in Seq({0, 1}) /\ Len(counted) \in Nat /\ DOMAIN counted = 1 .. Len(counted)
      /\ requests \in [ScrapedWorkers -> Nat]
      /\ history \in [ScrapedWorkers -> Seq(ActivityRows)]
      /\ scrapes \in [Scrapes -> ScrapeStates]
  BY DEF MetricsInv, MetricsTypeOK
<1>2. /\ counted' = Append(counted, 0)
      /\ requests' = [requests EXCEPT ![w] = @ + 1]
      /\ history' = [history EXCEPT ![w] = Metrics!Newest(longer, Keep)]
      /\ UNCHANGED <<scrapes, seen, seenOrder>>
  BY DEF Metrics!Serve
<1>3. /\ row = [id |-> requests[w] + 1, request |-> Len(counted) + 1]
      /\ row.id = requests[w] + 1 /\ row.request = Len(counted) + 1
      /\ row \in ActivityRows
  BY <1>1 DEF Metrics!Row, ActivityRows
<1> HIDE DEF row
<1>4. /\ longer \in Seq(ActivityRows)
      /\ \A i \in DOMAIN longer :
           longer[i] = row \/ \E j \in DOMAIN history[w] : longer[i] = history[w][j]
  BY <1>1, <1>3
<1> HIDE DEF longer
<1>5. /\ Metrics!Newest(longer, Keep) \in Seq(ActivityRows)
      /\ \A i \in DOMAIN Metrics!Newest(longer, Keep) :
           \E j \in DOMAIN longer : Metrics!Newest(longer, Keep)[i] = longer[j]
  BY <1>4, MetricsAssumed, NewestOf
<1>6. history' \in [ScrapedWorkers -> Seq(ActivityRows)] /\ requests' \in [ScrapedWorkers -> Nat]
  BY <1>1, <1>2, <1>5
<1>7. /\ counted' \in Seq({0, 1}) /\ DOMAIN counted' = DOMAIN counted \cup {row.request}
      /\ row.request \notin DOMAIN counted /\ counted'[row.request] = 0
      /\ \A i \in DOMAIN counted : counted'[i] = counted[i]
  BY <1>1, <1>2, <1>3
<1>8. MetricsTypeOK'
  BY <1>2, <1>6, <1>7 DEF MetricsInv, MetricsTypeOK
\* Only the new row is new.
<1>9. ASSUME NEW v \in ScrapedWorkers, NEW r \in ActivityRows, InHand(v, r)'
      PROVE  InHand(v, r) \/ (v = w /\ r = row)
  <2>1. CASE \E i \in DOMAIN history'[v] : history'[v][i] = r
    <3>1. CASE v = w
      <4>1. history'[w] = Metrics!Newest(longer, Keep)
        BY <1>1, <1>2
      <4>2. PICK j \in DOMAIN longer : r = longer[j]
        BY <1>5, <2>1, <3>1, <4>1
      <4> QED BY <1>4, <3>1, <4>2 DEF InHand
    <3>2. CASE v # w
      <4>1. history'[v] = history[v]
        BY <1>1, <1>2, <3>2
      <4> QED BY <2>1, <4>1 DEF InHand
    <3> QED BY <3>1, <3>2
  <2>2. CASE ~\E i \in DOMAIN history'[v] : history'[v][i] = r
    BY <1>2, <1>9, <2>2 DEF InHand, Answered
  <2> QED BY <2>1, <2>2
<1>10. \A v \in ScrapedWorkers :
         requests'[v] \in Nat /\ requests[v] \in Nat /\ requests[v] <= requests'[v]
  BY <1>1, <1>2
<1>11. requests'[w] = row.id /\ row.id \in Nat
  BY <1>1, <1>2, <1>3
<1>12. \A v \in ScrapedWorkers : \A r \in ActivityRows : InHand(v, r) =>
         /\ r.id \in Nat /\ r.id <= requests[v] /\ r.request \in DOMAIN counted
         /\ r.request # row.request
         /\ v = w => r.id # row.id
  <2> SUFFICES ASSUME NEW v \in ScrapedWorkers, NEW r \in ActivityRows, InHand(v, r)
               PROVE  /\ r.id \in Nat /\ r.id <= requests[v] /\ r.request \in DOMAIN counted
                      /\ r.request # row.request
                      /\ v = w => r.id # row.id
    OBVIOUS
  <2>1. r.id <= requests[v] /\ r.request \in DOMAIN counted /\ r.id \in Nat
    BY DEF MetricsInv, RowsProper, ActivityRows
  <2>2. v = w => r.id # row.id
    BY <1>1, <1>3, <2>1
  <2> QED BY <1>7, <2>1, <2>2
<1>13. RowsProper'
  <2>1. ASSUME NEW v \in ScrapedWorkers, NEW r \in ActivityRows, InHand(v, r)'
        PROVE  r.id <= requests'[v] /\ r.request \in DOMAIN counted'
    <3>1. CASE InHand(v, r)
      BY <1>7, <1>10, <1>12, <3>1
    <3>2. CASE v = w /\ r = row
      BY <1>7, <1>11, <3>2
    <3> QED BY <1>9, <2>1, <3>1, <3>2
  <2>2. ASSUME NEW v \in ScrapedWorkers, NEW u \in ScrapedWorkers,
               NEW r \in ActivityRows, NEW s \in ActivityRows, InHand(v, r)', InHand(u, s)'
        PROVE  r.request = s.request <=> (v = u /\ r.id = s.id)
    <3>1. CASE InHand(v, r) /\ InHand(u, s)
      BY <3>1 DEF MetricsInv, RowsProper
    <3>2. CASE InHand(v, r) /\ u = w /\ s = row
      BY <1>12, <3>2
    <3>3. CASE v = w /\ r = row /\ InHand(u, s)
      BY <1>12, <3>3
    <3>4. CASE v = w /\ r = row /\ u = w /\ s = row
      BY <3>4
    <3> QED BY <1>9, <2>2, <3>1, <3>2, <3>3, <3>4
  <2> QED BY <2>1, <2>2 DEF RowsProper
<1>14. KeysProper'
  <2>1. \A k \in seen :
          k \in SeenKeys /\ k[1] \in ScrapedWorkers /\ k[2] \in Nat /\ k[2] <= requests[k[1]]
    BY DEF MetricsInv, MetricsTypeOK, KeysProper, SeenKeys
  <2>2. \A k \in seen' : k[2] <= requests'[k[1]]
    BY <1>2, <1>10, <2>1
  <2>3. <<w, row.id>> \notin seen
    <3>1. <<w, row.id>>[1] = w /\ <<w, row.id>>[2] = row.id
      OBVIOUS
    <3> DEFINE key == <<w, row.id>>
    <3> HIDE DEF key
    <3>2. key[1] = w /\ key[2] = row.id
      BY <3>1 DEF key
    <3>3. ~(row.id <= requests[w])
      BY <1>1, <1>3
    <3> QED BY <2>1, <3>2, <3>3 DEF key
  <2>4. ASSUME NEW v \in ScrapedWorkers, NEW r \in ActivityRows, InHand(v, r)'
        PROVE  <<v, r.id>> \in seen' <=> counted'[r.request] = 1
    <3>1. CASE InHand(v, r)
      BY <1>2, <1>7, <1>12, <3>1 DEF MetricsInv, KeysProper
    <3>2. CASE v = w /\ r = row
      BY <1>2, <1>7, <2>3, <3>2
    <3> QED BY <1>9, <2>4, <3>1, <3>2
  <2>5. Tally(counted') = Tally(counted)
    BY <1>7 DEF Tally
  <2>6. Len(seenOrder') = Cardinality(Tally(counted'))
    BY <1>2, <2>5 DEF MetricsInv, KeysProper
  <2> QED BY <2>2, <2>4, <2>6 DEF KeysProper
<1> QED BY <1>8, <1>13, <1>14 DEF MetricsInv

\* A scrape that is changed in its two fields.
LEMMA GotChanged ==
  ASSUME NEW f, NEW p \in DOMAIN f, NEW w, NEW t, NEW x, NEW U, NEW V, f[p] \in [todo : U, got : V]
  PROVE  [f EXCEPT ![p].todo = t, ![p].got[w] = x]
           = [f EXCEPT ![p] = [[f[p] EXCEPT !.todo = t] EXCEPT !.got = [f[p].got EXCEPT ![w] = x]]]
<1> DEFINE r == [f[p] EXCEPT !.todo = t]
           h == [f EXCEPT ![p] = r]
           got == [f[p].got EXCEPT ![w] = x]
<1>1. [f EXCEPT ![p].todo = t] = h
  OBVIOUS
<1>2. h[p] = r /\ r.got = f[p].got /\ p \in DOMAIN h
  OBVIOUS
<1>3. [f EXCEPT ![p].todo = t, ![p].got[w] = x] = [h EXCEPT ![p].got[w] = x]
  BY <1>1
<1> HIDE DEF r
<1>4. [h EXCEPT ![p] = [r EXCEPT !.got = got]] = [f EXCEPT ![p] = [r EXCEPT !.got = got]]
  <2> HIDE DEF got
  <2> QED OBVIOUS
<1> HIDE DEF h
<1>5. [h EXCEPT ![p].got[w] = x]
        = [h EXCEPT ![p] = [h[p] EXCEPT !.got = [h[p].got EXCEPT ![w] = x]]]
  OBVIOUS
<1>6. [h EXCEPT ![p].got[w] = x] = [h EXCEPT ![p] = [r EXCEPT !.got = got]]
  BY <1>2, <1>5
<1> QED BY <1>3, <1>4, <1>6 DEF r

\* A scrape that begins, hears of a worker, fails or ends.
LEMMA ScrapeKeeps ==
  ASSUME MetricsInv, NEW p \in Scrapes,
         \/ Metrics!Begin(p) \/ Metrics!Finish(p)
         \/ \E w \in ScrapedWorkers : Metrics!Observe(p, w) \/ Metrics!PullFails(p, w)
  PROVE  MetricsInv'
<1>1. UNCHANGED <<history, requests, seen, seenOrder, counted>>
  BY DEF Metrics!Begin, Metrics!Finish, Metrics!Observe, Metrics!PullFails,
         Metrics!worker, Metrics!keys
<1>2. scrapes \in [Scrapes -> ScrapeStates]
  BY DEF MetricsInv, MetricsTypeOK
<1>3. CASE Metrics!Begin(p) \/ Metrics!Finish(p)
  <2> DEFINE fresh == [todo |-> ScrapedWorkers, got |-> [w \in ScrapedWorkers |-> None]]
  <2>1. fresh \in ScrapeStates /\ \A w \in ScrapedWorkers : fresh.got[w] = None
    BY DEF ScrapeStates
  <2>2. scrapes' = [scrapes EXCEPT ![p] = fresh] \/ scrapes' = [scrapes EXCEPT ![p] = None]
    BY <1>3 DEF Metrics!Begin, Metrics!Finish
  <2> HIDE DEF fresh
  <2>3. None \in ScrapeStates
    BY DEF ScrapeStates
  <2>4. scrapes' \in [Scrapes -> ScrapeStates]
    BY <1>2, <2>1, <2>2, <2>3
  <2>5. ASSUME NEW w \in ScrapedWorkers, NEW r \in ActivityRows, InHand(w, r)' PROVE InHand(w, r)
    <3>1. scrapes'[p] = fresh \/ scrapes'[p] = None
      BY <1>2, <2>2
    <3>2. \A q \in Scrapes : q # p => scrapes'[q] = scrapes[q]
      BY <1>2, <2>2
    <3> QED BY <1>1, <2>1, <2>5, <3>1, <3>2 DEF InHand, Answered
  <2> QED BY <1>1, <2>4, <2>5, ScrapesMove
<1>4. ASSUME NEW w \in ScrapedWorkers, Metrics!Observe(p, w) \/ Metrics!PullFails(p, w)
      PROVE  MetricsInv'
  <2> DEFINE U == SUBSET ScrapedWorkers
             V == [ScrapedWorkers -> Seq(ActivityRows) \cup {None}]
             old == scrapes[p]
             got(x) == [old.got EXCEPT ![w] = x]
  <2>1. old # None
    BY <1>4 DEF Metrics!Observe, Metrics!PullFails
  <2>2. old \in [todo : U, got : V] /\ ScrapeStates = {None} \cup [todo : U, got : V]
    BY <1>2, <2>1 DEF ScrapeStates
  <2>3. got(None) \in V /\ got(history[w]) \in V
    <3>1. old.got \in V
      <4> HIDE DEF V, old
      <4> QED BY <2>2
    <3>2. history[w] \in Seq(ActivityRows)
      BY DEF MetricsInv, MetricsTypeOK
    <3> HIDE DEF old
    <3> QED BY <3>1, <3>2
  <2>4. CASE Metrics!Observe(p, w)
    <3> DEFINE t == old.todo \ {w}
               y == got(history[w])
               next == [[old EXCEPT !.todo = t] EXCEPT !.got = y]
    <3>1. scrapes' = [scrapes EXCEPT ![p].todo = scrapes[p].todo \ {w}, ![p].got[w] = history[w]]
      BY <2>4 DEF Metrics!Observe
    <3>2. scrapes' = [scrapes EXCEPT ![p] = next]
      <4> HIDE DEF U, V
      <4> QED BY <1>2, <2>2, <3>1, GotChanged
    <3>3. t \in U /\ y \in V
      <4>1. old.todo \in U
        <5> HIDE DEF U, V, old
        <5> QED BY <2>2
      <4> QED BY <2>3, <4>1
    <3>4. next \in [todo : U, got : V] /\ next.got = y
      <4> HIDE DEF old, t, y, U, V
      <4> QED BY <2>2, <3>3
    <3>5. next \in ScrapeStates
      BY <2>2, <3>4
    <3> HIDE DEF next
    <3>6. /\ scrapes' \in [Scrapes -> ScrapeStates]
          /\ \A v \in ScrapedWorkers : \A r \in ActivityRows : InHand(v, r)' => InHand(v, r)
      BY <1>1, <2>1, <3>2, <3>4, <3>5, GotMoves
    <3> QED BY <1>1, <3>6, ScrapesMove
  <2>5. CASE Metrics!PullFails(p, w)
    <3> DEFINE y == got(None)
               next == [old EXCEPT !.got = y]
    <3>1. scrapes' = [scrapes EXCEPT ![p].got[w] = None]
      BY <2>5 DEF Metrics!PullFails
    <3>2. scrapes' = [scrapes EXCEPT ![p] = next]
      BY <3>1
    <3>3. next \in [todo : U, got : V] /\ next.got = y
      <4> HIDE DEF old, y, U, V
      <4> QED BY <2>2, <2>3 DEF y
    <3>4. next \in ScrapeStates
      BY <2>2, <3>3
    <3> HIDE DEF next
    <3>5. /\ scrapes' \in [Scrapes -> ScrapeStates]
          /\ \A v \in ScrapedWorkers : \A r \in ActivityRows : InHand(v, r)' => InHand(v, r)
      BY <1>1, <2>1, <3>2, <3>3, <3>4, GotMoves
    <3> QED BY <1>1, <3>5, ScrapesMove
  <2> QED BY <1>4, <2>4, <2>5
<1> QED BY <1>3, <1>4

\* How often an answer has a request that is new.
LEMMA CountedTimes ==
  ASSUME NEW T, NEW s \in Seq(T), \A a, b \in DOMAIN s : s[a] = s[b] => a = b, NEW r
  PROVE  Metrics!Cardinality({i \in DOMAIN s : s[i] = r})
           = IF r \in {s[a] : a \in DOMAIN s} THEN 1 ELSE 0
<1> DEFINE I == {i \in DOMAIN s : s[i] = r}
<1>1. CASE r \in {s[a] : a \in DOMAIN s}
  <2>1. PICK a \in DOMAIN s : s[a] = r
    BY <1>1
  <2>2. I = {a}
    BY <2>1
  <2> QED BY <1>1, <2>2, SameTally, FS_Singleton
<1>2. CASE r \notin {s[a] : a \in DOMAIN s}
  <2>1. I = {}
    BY <1>2
  <2> QED BY <1>2, <2>1, SameTally, FS_EmptySet
<1> QED BY <1>1, <1>2

LEMMA CountKeeps ==
  ASSUME MetricsInv, Room, NEW p \in Scrapes, NEW w \in ScrapedWorkers, Metrics!Count(p, w)
  PROVE  MetricsInv'
<1> DEFINE s == scrapes[p].got[w]
           n == Len(s)
           k == Metrics!Pulled(p, w)
           D == Done(s, n)
<1>1. Answered(p, w) /\ scrapes[p] # None
  BY DEF Metrics!Count, Answered
<1>2. AnswerOf(w, s) /\ After(w, s, n, k)
  BY <1>1, PulledIs
<1>3. /\ seen' = k.known /\ seenOrder' = k.order
      /\ counted' = [r \in DOMAIN counted |->
                       counted[r] + Metrics!Cardinality({i \in DOMAIN k.new : k.new[i] = r})]
      /\ scrapes' = [scrapes EXCEPT ![p].got[w] = None]
      /\ UNCHANGED <<history, requests>>
  BY DEF Metrics!Count, Metrics!worker, Metrics!Served
<1> HIDE DEF k
<1>4. n \in Nat /\ n \in 0 .. n /\ \A j \in 1 .. n : s[j] \in ActivityRows /\ InHand(w, s[j])
  BY <1>2 DEF AnswerOf
<1>5. D \subseteq DOMAIN counted
  BY <1>2, <1>4, DoneFits
<1>6. /\ counted \in Seq({0, 1}) /\ DOMAIN counted = 1 .. Len(counted) /\ Len(counted) \in Nat
      /\ scrapes \in [Scrapes -> ScrapeStates]
  BY DEF MetricsInv, MetricsTypeOK
\* What is counted is what was and what is asked for.
<1>7. ASSUME NEW r \in DOMAIN counted PROVE counted'[r] = IF r \in D THEN 1 ELSE 0
  <2> DEFINE more == Metrics!Cardinality({i \in DOMAIN k.new : k.new[i] = r})
  <2>1. /\ k.new \in Seq(DOMAIN counted)
        /\ \A a, b \in DOMAIN k.new : k.new[a] = k.new[b] => a = b
        /\ {k.new[a] : a \in DOMAIN k.new} = Asked(s, n) \ Tally(counted)
    BY <1>2 DEF After
  <2>2. more = IF r \in Asked(s, n) \ Tally(counted) THEN 1 ELSE 0
    <3> DEFINE new == k.new
    <3>1. /\ new \in Seq(DOMAIN counted)
          /\ \A a, b \in DOMAIN new : new[a] = new[b] => a = b
      BY <2>1
    <3> HIDE DEF new
    <3>2. Metrics!Cardinality({i \in DOMAIN new : new[i] = r})
            = IF r \in {new[a] : a \in DOMAIN new} THEN 1 ELSE 0
      BY <3>1, CountedTimes
    <3> QED BY <2>1, <3>2 DEF new
  <2>3. counted'[r] = counted[r] + more
    BY <1>3
  <2>4. counted[r] = 0 \/ counted[r] = 1
    BY <1>6
  <2>5. r \in Tally(counted) <=> counted[r] = 1
    BY DEF Tally
  <2> HIDE DEF more
  <2> QED BY <2>2, <2>3, <2>4, <2>5 DEF Done
<1> HIDE DEF D
<1>8. counted' = [r \in DOMAIN counted |-> IF r \in D THEN 1 ELSE 0]
  BY <1>3, <1>7
<1>9. counted' \in Seq({0, 1}) /\ DOMAIN counted' = DOMAIN counted
  BY <1>6, <1>8
<1>10. Tally(counted') = D
  BY <1>5, <1>8 DEF Tally
\* The answer is out of hand.
<1>11. /\ scrapes' \in [Scrapes -> ScrapeStates]
       /\ \A v \in ScrapedWorkers : \A r \in ActivityRows : InHand(v, r)' => InHand(v, r)
  <2> DEFINE U == SUBSET ScrapedWorkers
             V == [ScrapedWorkers -> Seq(ActivityRows) \cup {None}]
             old == scrapes[p]
             y == [old.got EXCEPT ![w] = None]
             next == [old EXCEPT !.got = y]
  <2>1. old \in [todo : U, got : V] /\ ScrapeStates = {None} \cup [todo : U, got : V]
    BY <1>1, <1>6 DEF ScrapeStates
  <2>2. scrapes' = [scrapes EXCEPT ![p] = next]
    BY <1>3
  <2>3. y \in V
    <3>1. old.got \in V
      <4> HIDE DEF V, old
      <4> QED BY <2>1
    <3> HIDE DEF old
    <3> QED BY <3>1
  <2>4. next \in [todo : U, got : V] /\ next.got = y
    <3> HIDE DEF old, y, U, V
    <3> QED BY <2>1, <2>3
  <2>5. next \in ScrapeStates
    BY <2>1, <2>4
  <2> HIDE DEF next
  <2>6. next.got = [scrapes[p].got EXCEPT ![w] = None]
    BY <2>4
  <2>7. MetricsInv /\ p \in Scrapes /\ w \in ScrapedWorkers /\ UNCHANGED history
    BY <1>3
  <2> QED BY ONLY <1>1, <2>2, <2>5, <2>6, <2>7, GotMoves
<1> HIDE DEF s
<1>12. MetricsTypeOK'
  <2>1. k.order \in Seq(SeenKeys) /\ k.known = seen \cup KeysOf(w, s, n)
    BY <1>2 DEF After
  <2>2. KeysOf(w, s, n) \subseteq SeenKeys
    BY <1>4 DEF KeysOf, SeenKeys, ActivityRows
  <2> QED BY <1>3, <1>9, <1>11, <2>1, <2>2 DEF MetricsInv, MetricsTypeOK
<1>13. RowsProper'
  BY <1>3, <1>9, <1>11 DEF MetricsInv, RowsProper
<1>14. KeysProper'
  <2>1. ASSUME NEW x \in seen' PROVE x[2] <= requests'[x[1]]
    <3>1. CASE x \in seen
      BY <1>3, <3>1 DEF MetricsInv, KeysProper
    <3>2. CASE x \in KeysOf(w, s, n)
      <4>1. PICK j \in 1 .. n : x = <<w, s[j].id>>
        BY <3>2 DEF KeysOf
      <4>2. s[j].id <= requests[w]
        BY <1>4 DEF MetricsInv, RowsProper
      <4> QED BY <1>3, <4>1, <4>2
    <3> QED BY <1>2, <1>3, <3>1, <3>2 DEF After
  <2>2. ASSUME NEW v \in ScrapedWorkers, NEW r \in ActivityRows, InHand(v, r)'
        PROVE  <<v, r.id>> \in seen' <=> counted'[r.request] = 1
    <3>1. InHand(v, r) /\ r.request \in DOMAIN counted
      BY <1>11, <2>2 DEF MetricsInv, RowsProper
    <3>2. <<v, r.id>> \in seen <=> r.request \in Tally(counted)
      BY <3>1 DEF MetricsInv, KeysProper, Tally
    <3>3. <<v, r.id>> \in KeysOf(w, s, n) <=> r.request \in Asked(s, n)
      <4>1. \A j \in 1 .. n : s[j].request = r.request <=> (w = v /\ s[j].id = r.id)
        BY <1>4, <3>1 DEF MetricsInv, RowsProper
      <4> QED BY <4>1 DEF KeysOf, Asked
    <3>4. <<v, r.id>> \in seen' <=> r.request \in D
      BY <1>2, <1>3, <3>2, <3>3 DEF After, Done, D
    <3> QED BY <1>7, <3>1, <3>4
  <2>3. Len(seenOrder') = Cardinality(Tally(counted'))
    BY <1>2, <1>3, <1>10 DEF After, D
  <2> QED BY <2>1, <2>2, <2>3 DEF KeysProper
<1> QED BY <1>12, <1>13, <1>14 DEF MetricsInv
-----------------------------------------------------------------------------
(***************************************************************************)
(* The counts.                                                             *)
(***************************************************************************)

\* Requests are numbered in their order, and there are never fewer of them.
LEMMA NumbersKept ==
  ASSUME Numbers(counted), [Metrics!Next]_(Metrics!vars)
  PROVE  /\ Numbers(counted')
         /\ Len(counted) \in Nat /\ Len(counted') \in Nat /\ Len(counted) <= Len(counted')
<1> DEFINE T == {counted[i] : i \in DOMAIN counted}
<1>1. PICK n \in Nat : counted \in [1 .. n -> T]
  BY DEF Numbers
<1> HIDE DEF T
<1>2. Len(counted) = n /\ counted \in Seq(T) /\ DOMAIN counted = 1 .. n
  BY <1>1
<1>3. ASSUME NEW m \in Nat, n <= m,
             NEW c, c = counted', DOMAIN c = 1 .. m, c = [i \in 1 .. m |-> c[i]]
      PROVE  /\ Numbers(counted')
             /\ Len(counted) \in Nat /\ Len(counted') \in Nat /\ Len(counted) <= Len(counted')
  <2>1. c \in [1 .. m -> {c[i] : i \in DOMAIN c}]
    BY <1>3
  <2>2. Len(c) = m
    BY <2>1
  <2> QED BY <1>2, <1>3, <2>1, <2>2 DEF Numbers
<1>4. CASE counted' = counted
  BY <1>1, <1>2, <1>3, <1>4
<1>5. CASE counted' = Append(counted, 0)
  <2>1. counted \in Seq(T \cup {0})
    BY <1>1
  <2>2. counted' \in [1 .. n + 1 -> T \cup {0}]
    <3>1. Append(counted, 0) \in Seq(T \cup {0}) /\ Len(Append(counted, 0)) = n + 1
      BY <1>2, <2>1
    <3> DEFINE c == Append(counted, 0)
               m == n + 1
               V == T \cup {0}
    <3>2. c \in Seq(V) /\ Len(c) = m
      BY <3>1
    <3> HIDE DEF c, m, V
    <3>3. c \in [1 .. m -> V]
      BY <3>2
    <3> QED BY <1>5, <3>3 DEF c, m, V
  <2> DEFINE c == counted'
  <2>3. DOMAIN c = 1 .. n + 1 /\ c = [i \in 1 .. n + 1 |-> c[i]]
    BY <2>2
  <2> HIDE DEF c
  <2>4. n + 1 \in Nat /\ n <= n + 1
    BY <1>1
  <2> QED BY <1>3, <2>3, <2>4 DEF c
<1>6. ASSUME NEW p \in Scrapes, NEW w \in ScrapedWorkers, Metrics!Count(p, w)
      PROVE  /\ Numbers(counted')
             /\ Len(counted) \in Nat /\ Len(counted') \in Nat /\ Len(counted) <= Len(counted')
  <2> DEFINE c == counted'
  <2>1. DOMAIN c = 1 .. n /\ c = [i \in 1 .. n |-> c[i]]
    BY <1>2, <1>6 DEF Metrics!Count, Metrics!Served
  <2> HIDE DEF c
  <2> QED BY <1>1, <1>3, <2>1 DEF c
<1>7. \/ counted' = counted
      \/ counted' = Append(counted, 0)
      \/ \E p \in Scrapes, w \in ScrapedWorkers : Metrics!Count(p, w)
  BY DEF Metrics!Next, Metrics!vars, Metrics!keys, Metrics!worker, Metrics!Serve, Metrics!Begin,
         Metrics!Finish, Metrics!Observe, Metrics!PullFails
<1> QED BY <1>4, <1>5, <1>6, <1>7

LEMMA MetricsNext ==
  ASSUME MetricsInv, Room, [Metrics!Next]_(Metrics!vars)
  PROVE  MetricsInv'
<1>1. ASSUME NEW w \in ScrapedWorkers, Metrics!Serve(w) PROVE MetricsInv'
  BY <1>1, ServeKeeps
<1>2. ASSUME NEW p \in Scrapes, Metrics!Begin(p) \/ Metrics!Finish(p) PROVE MetricsInv'
  BY <1>2, ScrapeKeeps
<1>3. ASSUME NEW p \in Scrapes, NEW w \in ScrapedWorkers,
             Metrics!Observe(p, w) \/ Metrics!PullFails(p, w)
      PROVE  MetricsInv'
  BY <1>3, ScrapeKeeps
<1>4. ASSUME NEW p \in Scrapes, NEW w \in ScrapedWorkers, Metrics!Count(p, w) PROVE MetricsInv'
  BY <1>4, CountKeeps
<1>5. CASE UNCHANGED Metrics!vars
  BY <1>5 DEF Metrics!vars, Metrics!worker, Metrics!keys, MetricsInv, MetricsTypeOK, RowsProper,
              KeysProper, InHand, Answered, Tally
<1> QED BY <1>1, <1>2, <1>3, <1>4, <1>5 DEF Metrics!Next

LEMMA MetricsStart ==
  ASSUME Metrics!Init
  PROVE  Numbers(counted) /\ MetricsInv
<1>1. /\ history = [w \in ScrapedWorkers |-> << >>] /\ requests = [w \in ScrapedWorkers |-> 0]
      /\ scrapes = [p \in Scrapes |-> None] /\ seen = {} /\ seenOrder = << >> /\ counted = << >>
  BY DEF Metrics!Init
<1>2. DOMAIN counted = {} /\ Len(counted) = 0
  BY <1>1
<1>3. Numbers(counted)
  <2>1. counted \in [1 .. 0 -> {counted[i] : i \in DOMAIN counted}]
    BY <1>1
  <2> QED BY <2>1 DEF Numbers
<1>4. MetricsTypeOK
  BY <1>1 DEF MetricsTypeOK, ScrapeStates
<1>5. \A w \in ScrapedWorkers : \A r \in ActivityRows : ~InHand(w, r)
  BY <1>1 DEF InHand, Answered
<1>6. RowsProper
  BY <1>5 DEF RowsProper
<1>7. Tally(counted) = {}
  BY <1>2 DEF Tally
<1>8. KeysProper
  BY <1>1, <1>5, <1>7, FS_EmptySet DEF KeysProper
<1> QED BY <1>3, <1>4, <1>6, <1>8 DEF MetricsInv

LEMMA CountsOnce ==
  ASSUME MetricsInv
  PROVE  CountedOnce
<1>1. counted \in Seq({0, 1}) /\ history \in [ScrapedWorkers -> Seq(ActivityRows)]
  BY DEF MetricsInv, MetricsTypeOK
<1>2. \A r \in DOMAIN counted : counted[r] <= 1
  BY <1>1
<1>3. ASSUME NEW w \in ScrapedWorkers, NEW i \in DOMAIN history[w],
             <<w, history[w][i].id>> \in seen
      PROVE  counted[history[w][i].request] >= 1
  <2>1. history[w][i] \in ActivityRows /\ InHand(w, history[w][i])
    BY <1>1 DEF InHand
  <2>2. counted[history[w][i].request] = 1
    BY <1>3, <2>1 DEF MetricsInv, KeysProper
  <2> QED BY <2>2
<1> QED BY <1>2, <1>3 DEF CountedOnce, Metrics!CountedOnce, Metrics!Served, Metrics!ToSet,
                         Metrics!Key

\* As long as the gateway has served no more requests than it remembers keys,
\* every request is counted once, whatever scrapes run at the same time and in
\* whatever order the answers of a worker are handled, and a row is passed over
\* only if its own request was counted (metrics_scrape.go, PullActivity).
THEOREM RequestsCountedOnce == Metrics!Spec => [](Len(counted) <= Cap => CountedOnce)
<1> DEFINE Inv == Numbers(counted) /\ (Room => MetricsInv)
<1>1. Metrics!Init => Inv
  BY MetricsStart
<1>2. Inv /\ [Metrics!Next]_(Metrics!vars) => Inv'
  <2> SUFFICES ASSUME Inv, [Metrics!Next]_(Metrics!vars) PROVE Inv'
    OBVIOUS
  <2>1. /\ Numbers(counted')
        /\ Len(counted) \in Nat /\ Len(counted') \in Nat /\ Len(counted) <= Len(counted')
    BY NumbersKept
  <2>2. Room' => Room
    BY <2>1, MetricsAssumed DEF Room
  <2>3. ASSUME Room' PROVE MetricsInv'
    BY <2>2, <2>3, MetricsNext
  <2> QED BY <2>1, <2>3
<1>3. Inv => (Len(counted) <= Cap => CountedOnce)
  BY CountsOnce DEF Room
<1> QED BY <1>1, <1>2, <1>3, PTL DEF Metrics!Spec
=============================================================================
