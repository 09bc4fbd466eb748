------------------------ MODULE BenchServiceProofs ------------------------
(***************************************************************************)
(* What the scoring operators return, and the type invariant of            *)
(* BenchService, for any number of calls, runs, tests, categories and      *)
(* replicas, any operations, one driver for each run or many, and whatever *)
(* fails.                                                                  *)
(*                                                                         *)
(* TypeOK is not inductive: a row or an event is well typed because of     *)
(* where its call is and what it has found on the way.  TypeInv adds that. *)
(***************************************************************************)
EXTENDS BenchService, FiniteSetTheorems, TLAPS

-----------------------------------------------------------------------------
(* The scoring operators, for any catalog and any finite set of rows.      *)

(* A score's counts are natural numbers, and no more results passed than   *)
(* there are: sum(outcomes) / len(outcomes) lies in [0, 1] (scoring.py,    *)
(* compute_scores; test_models.py, Score.__post_init__).                   *)
LEMMA ValueBounds ==
  ASSUME NEW rows, IsFiniteSet(rows)
  PROVE  /\ ValueOf(rows) \in [passed : Nat, total : Nat]
         /\ ValueOf(rows).passed <= ValueOf(rows).total
         /\ rows # {} => ValueOf(rows).total > 0
<1>1. PassedIn(rows) \subseteq rows
  BY DEF PassedIn
<1>2. /\ IsFiniteSet(PassedIn(rows))
      /\ Cardinality(PassedIn(rows)) <= Cardinality(rows)
  BY <1>1, FS_Subset
<1>3. Cardinality(rows) \in Nat /\ Cardinality(PassedIn(rows)) \in Nat
  BY <1>2, FS_CardinalityType
<1>4. rows # {} => Cardinality(rows) > 0
  BY <1>3, FS_EmptySet
<1> QED
  BY <1>2, <1>3, <1>4 DEF ValueOf

(* The passed and the failed results of a set of rows are all of them.     *)
LEMMA PassedAndFailed ==
  ASSUME NEW rows, IsFiniteSet(rows)
  PROVE  /\ Cardinality(PassedIn(rows)) \in Nat
         /\ Cardinality(FailedIn(rows)) \in Nat
         /\ Cardinality(rows)
              = Cardinality(PassedIn(rows)) + Cardinality(FailedIn(rows))
<1>1. PassedIn(rows) \subseteq rows /\ FailedIn(rows) \subseteq rows
  BY DEF PassedIn, FailedIn
<1>2. IsFiniteSet(PassedIn(rows)) /\ IsFiniteSet(FailedIn(rows))
  BY <1>1, FS_Subset
<1>3. rows = PassedIn(rows) \cup FailedIn(rows)
  BY DEF PassedIn, FailedIn
<1>4. PassedIn(rows) \cap FailedIn(rows) = {}
  BY DEF PassedIn, FailedIn
<1>5. /\ Cardinality(PassedIn(rows)) \in Nat
      /\ Cardinality(FailedIn(rows)) \in Nat
      /\ Cardinality(PassedIn(rows) \cap FailedIn(rows)) = 0
  BY <1>2, <1>4, FS_CardinalityType, FS_EmptySet
<1>6. Cardinality(PassedIn(rows) \cup FailedIn(rows))
        = Cardinality(PassedIn(rows)) + Cardinality(FailedIn(rows))
            - Cardinality(PassedIn(rows) \cap FailedIn(rows))
  BY <1>2, FS_Union
<1>7. Cardinality(rows) = Cardinality(PassedIn(rows) \cup FailedIn(rows))
  BY <1>3
<1> QED
  BY <1>5, <1>6, <1>7

(* More rows, no fewer passed and no fewer failed ones.                    *)
LEMMA CountsGrow ==
  ASSUME NEW rows, NEW more, IsFiniteSet(more), rows \subseteq more
  PROVE  /\ IsFiniteSet(rows)
         /\ Cardinality(PassedIn(rows)) <= Cardinality(PassedIn(more))
         /\ Cardinality(FailedIn(rows)) <= Cardinality(FailedIn(more))
<1>1. /\ PassedIn(rows) \subseteq PassedIn(more)
      /\ FailedIn(rows) \subseteq FailedIn(more)
      /\ PassedIn(more) \subseteq more /\ FailedIn(more) \subseteq more
  BY DEF PassedIn, FailedIn
<1>2. IsFiniteSet(PassedIn(more)) /\ IsFiniteSet(FailedIn(more))
  BY <1>1, FS_Subset
<1> QED
  BY <1>1, <1>2, FS_Subset

(* Every dimension is a category of the catalog or "unknown".              *)
LEMMA DimensionsBounded ==
  ASSUME NEW tests, NEW categories, NEW rows,
         NEW cat \in [tests -> categories \cup {Absent}]
  PROVE  Dimensions(cat, rows) \subseteq categories \cup {UnknownCategory}
  BY DEF Dimensions, CategoryOf

(* A scorecard computed from finitely many results maps dimensions to      *)
(* counts.                                                                 *)
LEMMA ScoresType ==
  ASSUME NEW cat, NEW rows, IsFiniteSet(rows)
  PROVE  /\ DOMAIN ScoresOf(cat, rows) = Dimensions(cat, rows)
         /\ ScoresOf(cat, rows)
              \in [Dimensions(cat, rows) -> [passed : Nat, total : Nat]]
<1>1. ASSUME NEW d PROVE IsFiniteSet(Under(cat, rows, d))
  <2>1. Under(cat, rows, d) \subseteq rows
    BY DEF Under
  <2> QED
    BY <2>1, FS_Subset
<1>2. ASSUME NEW d
      PROVE ValueOf(Under(cat, rows, d)) \in [passed : Nat, total : Nat]
  BY <1>1, ValueBounds
<1> QED
  BY <1>2 DEF ScoresOf

(* Two catalogs that put the tests of the rows in the same categories      *)
(* score the rows alike.                                                   *)
LEMMA SameCategories ==
  ASSUME NEW old, NEW new, NEW rows,
         \A r \in rows : CategoryOf(old, r.test) = CategoryOf(new, r.test)
  PROVE  /\ Dimensions(old, rows) = Dimensions(new, rows)
         /\ \A d : Under(old, rows, d) = Under(new, rows, d)
         /\ ScoresOf(old, rows) = ScoresOf(new, rows)
<1>1. Dimensions(old, rows) = Dimensions(new, rows)
  BY DEF Dimensions
<1>2. \A d : Under(old, rows, d) = Under(new, rows, d)
  BY DEF Under
<1> QED
  BY <1>1, <1>2 DEF ScoresOf

(* A report has a remediation for each failed result (reporting.py,        *)
(* build_remediations).                                                    *)
LEMMA FailuresRemedied ==
  ASSUME NEW cat, NEW rows
  PROVE  \A row \in FailedIn(rows) :
           row.by \in {item.result : item \in Remediations(cat, rows)}
<1> SUFFICES ASSUME NEW row \in FailedIn(rows)
             PROVE  \E item \in Remediations(cat, rows) : item.result = row.by
  OBVIOUS
<1>1. PICK item \in Remediations(cat, rows) :
        item = [result |-> row.by, test |-> row.test,
                severity |-> IF /\ row.test \in DOMAIN cat
                                /\ cat[row.test] = "security"
                             THEN "high" ELSE "medium"]
  BY DEF Remediations
<1> QED
  BY <1>1

-----------------------------------------------------------------------------
(* The folds behind the score of a scorecard.  The induction theorems of   *)
(* the library take an operator, so induction is stated of sets here: a    *)
(* set of numbers, then a set of subsets of a finite set.                  *)

(* A set of numbers with 0 and the successor of each member has them all.  *)
LEMMA SetInduction ==
  ASSUME NEW G, 0 \in G, \A n \in Nat : n \in G => n + 1 \in G
  PROVE  Nat \subseteq G
<1> DEFINE T == Nat \ G
<1> DEFINE R == OpToRel(<, Nat)
<1>1. SUFFICES ASSUME T # {} PROVE FALSE
  OBVIOUS
<1>2. IsWellFoundedOn(R, Nat)
  BY NatLessThanWellFounded
<1>3. T \subseteq Nat
  OBVIOUS
<1>4. \A m, n \in Nat : m < n => <<m, n>> \in R
  BY DEF OpToRel
<1> HIDE DEF R, T
<1>5. PICK n \in T : \A m \in T : ~ (<<m, n>> \in R)
  BY <1>1, <1>2, <1>3, WFMin
<1>6. n \in Nat /\ n \notin G /\ n # 0
  BY DEF T
<1>7. n - 1 \in Nat /\ n - 1 < n /\ (n - 1) + 1 = n
  BY <1>6
<1>8. n - 1 \in T
  BY <1>6, <1>7 DEF T
<1> QED
  BY <1>4, <1>5, <1>6, <1>7, <1>8

(* What one says of the subsets of a finite set with n members, for all n. *)
LEMMA SubsetInduction ==
  ASSUME NEW D, IsFiniteSet(D), NEW G \in SUBSET (SUBSET D),
         {} \in G,
         \A S \in SUBSET D : S # {} /\ (\A x \in S : S \ {x} \in G) => S \in G
  PROVE  SUBSET D = G
<1> DEFINE N == {n \in Nat : \A S \in SUBSET D : Cardinality(S) = n => S \in G}
<1>1. \A S \in SUBSET D : IsFiniteSet(S) /\ Cardinality(S) \in Nat
  BY FS_Subset, FS_CardinalityType
<1>2. 0 \in N
  BY <1>1, FS_EmptySet
<1>3. ASSUME NEW n \in Nat, n \in N PROVE n + 1 \in N
  <2>1. SUFFICES ASSUME NEW S \in SUBSET D, Cardinality(S) = n + 1 PROVE S \in G
    OBVIOUS
  <2>2. S # {}
    <3>1. Cardinality({}) = 0
      BY FS_EmptySet
    <3> QED
      BY <2>1, <3>1
  <2>3. ASSUME NEW x \in S PROVE S \ {x} \in G
    <3>1. Cardinality(S \ {x}) = n
      BY <1>1, <2>1, FS_RemoveElement
    <3> QED
      BY <1>3, <3>1
  <2> QED
    BY <2>2, <2>3
<1>4. Nat \subseteq N
  <2> HIDE DEF N
  <2> QED
    BY <1>2, <1>3, SetInduction
<1> QED
  BY <1>1, <1>4

(* g folds the members of each subset of D with op, in the order in which  *)
(* FoldSet chooses them; such a function exists for every finite D.        *)
Chosen(S) == CHOOSE x \in S : TRUE
Folds(g, op, base, D) ==
  /\ g \in [SUBSET D -> Int]
  /\ g[{}] = base
  /\ \A S \in SUBSET D : S # {} => g[S] = op[<<Chosen(S), g[S \ {Chosen(S)}]>>]

LEMMA FoldExists ==
  ASSUME NEW D, IsFiniteSet(D), NEW base \in Int, NEW op \in [D \X Int -> Int]
  PROVE  \E g : Folds(g, op, base, D)
<1> DEFINE G == {S \in SUBSET D : \E g : Folds(g, op, base, S)}
<1> DEFINE Small(n) == {S \in SUBSET D : Cardinality(S) <= n}
<1> DEFINE FoldsTo(g, n) ==
      /\ g \in [Small(n) -> Int]
      /\ g[{}] = base
      /\ \A S \in Small(n) : S # {} => g[S] = op[<<Chosen(S), g[S \ {Chosen(S)}]>>]
<1> DEFINE N == {n \in Nat : \E g : FoldsTo(g, n)}
<1>1. \A S \in SUBSET D : IsFiniteSet(S) /\ Cardinality(S) \in Nat
  BY FS_Subset, FS_CardinalityType
<1>2. \A S \in SUBSET D : S # {} =>
        /\ Chosen(S) \in S
        /\ S \ {Chosen(S)} \in SUBSET D
        /\ Cardinality(S \ {Chosen(S)}) = Cardinality(S) - 1
  BY <1>1, FS_RemoveElement DEF Chosen
<1>3. 0 \in N
  <2> DEFINE g == [S \in Small(0) |-> base]
  <2>1. \A S \in Small(0) : S = {}
    BY <1>1, FS_EmptySet
  <2>2. {} \in Small(0)
    BY FS_EmptySet
  <2>3. FoldsTo(g, 0)
    BY <2>1, <2>2
  <2> QED
    BY <2>3
<1>4. ASSUME NEW n \in Nat, n \in N PROVE n + 1 \in N
  <2>1. PICK g : FoldsTo(g, n)
    BY <1>4
  <2> DEFINE h == [S \in Small(n + 1) |->
        IF S = {} THEN base ELSE op[<<Chosen(S), g[S \ {Chosen(S)}]>>]]
  <2>2. \A S \in Small(n + 1) : S # {} => S \ {Chosen(S)} \in Small(n)
    BY <1>1, <1>2
  <2>3. Small(n) \subseteq Small(n + 1) /\ {} \in Small(n + 1)
    BY <1>1, FS_EmptySet
  <2>4. \A S \in Small(n) : h[S] = g[S]
    BY <2>1, <2>3
  <2>5. h \in [Small(n + 1) -> Int]
    BY <1>2, <2>1, <2>2
  <2>6. \A S \in Small(n + 1) : S # {} => h[S] = op[<<Chosen(S), h[S \ {Chosen(S)}]>>]
    BY <2>2, <2>4
  <2>7. FoldsTo(h, n + 1)
    BY <2>3, <2>5, <2>6
  <2> HIDE DEF h, FoldsTo
  <2> QED
    BY <2>7
<1>5. Nat \subseteq N
  <2> HIDE DEF N
  <2> QED
    BY <1>3, <1>4, SetInduction
<1>6. PICK g : FoldsTo(g, Cardinality(D))
  BY <1>1, <1>5
<1>7. Small(Cardinality(D)) = SUBSET D
  BY <1>1, FS_Subset
<1> QED
  BY <1>6, <1>7 DEF Folds

(* When the members may be taken in any order, g may be unfolded at any of *)
(* them, not only at the one FoldSet chooses.                              *)
Commutes(op, D) ==
  \A x, y \in D, v \in Int : op[<<x, op[<<y, v>>]>>] = op[<<y, op[<<x, v>>]>>]

AnyOrder(g, op, D) ==
  \A S \in SUBSET D : \A x \in S : g[S] = op[<<x, g[S \ {x}]>>]

LEMMA FoldAnyOrder ==
  ASSUME NEW D, IsFiniteSet(D), NEW base \in Int, NEW op \in [D \X Int -> Int],
         Commutes(op, D),
         NEW g, Folds(g, op, base, D)
  PROVE  AnyOrder(g, op, D)
<1> DEFINE G == {S \in SUBSET D : \A x \in S : g[S] = op[<<x, g[S \ {x}]>>]}
<1>1. {} \in G
  OBVIOUS
<1>2. ASSUME NEW S \in SUBSET D, S # {}, \A x \in S : S \ {x} \in G
      PROVE  S \in G
  <2>1. SUFFICES ASSUME NEW x \in S PROVE g[S] = op[<<x, g[S \ {x}]>>]
    OBVIOUS
  <2> DEFINE c == Chosen(S)
  <2>2. c \in S /\ g[S] = op[<<c, g[S \ {c}]>>]
    BY <1>2 DEF Folds, Chosen
  <2> HIDE DEF c
  <2>3. CASE x = c
    BY <2>2, <2>3
  <2>4. CASE x # c
    <3>1. g[S \ {c}] = op[<<x, g[(S \ {c}) \ {x}]>>]
      BY <1>2, <2>2, <2>4
    <3>2. g[S \ {x}] = op[<<c, g[(S \ {x}) \ {c}]>>]
      BY <1>2, <2>2, <2>4
    <3> DEFINE v == g[(S \ {x}) \ {c}]
    <3>3. (S \ {c}) \ {x} = (S \ {x}) \ {c} /\ v \in Int /\ c \in D /\ x \in D
      BY <2>2 DEF Folds
    <3> HIDE DEF v
    <3>4. g[S] = op[<<c, op[<<x, v>>]>>] /\ g[S \ {x}] = op[<<c, v>>]
      BY <2>2, <3>1, <3>2, <3>3 DEF v
    <3> QED
      BY <3>3, <3>4 DEF Commutes
  <2> QED
    BY <2>3, <2>4
<1>3. SUBSET D = G
  <2>1. G \in SUBSET (SUBSET D)
    OBVIOUS
  <2> HIDE DEF G
  <2>2. \A S \in SUBSET D : S # {} /\ (\A x \in S : S \ {x} \in G) => S \in G
    BY <1>2
  <2> QED
    BY <1>1, <2>1, <2>2, SubsetInduction
<1> QED
  BY <1>3 DEF AnyOrder

-----------------------------------------------------------------------------
(* The denominator of a scorecard is a product that may be unfolded at any *)
(* dimension, and is positive.                                             *)

Multiply(card, D) == [p \in D \X Int |-> card[p[1]].total * p[2]]

(* FoldSet is such a g.                                                    *)
LEMMA DenominatorFolds ==
  ASSUME NEW D, IsFiniteSet(D), NEW card, \A d \in D : card[d].total \in Nat,
         NEW g, Folds(g, Multiply(card, D), 1, D), NEW E \in SUBSET D
  PROVE  Denominator(card, E) = g[E]
<1> DEFINE Unfolds(iter) ==
      iter = [S \in SUBSET E |-> IF S = {} THEN 1
                ELSE card[Chosen(S)].total * iter[S \ {Chosen(S)}]]
<1> DEFINE it == CHOOSE iter : Unfolds(iter)
<1>1. Denominator(card, E) = it[E]
  BY DEF Denominator, FoldSet, MapThenFoldSet, Chosen
<1>2. \A S \in SUBSET E : S # {} =>
        Chosen(S) \in S /\ g[S] = card[Chosen(S)].total * g[S \ {Chosen(S)}]
  <2>1. SUFFICES ASSUME NEW S \in SUBSET E, S # {}
                 PROVE Chosen(S) \in S /\ g[S] = card[Chosen(S)].total * g[S \ {Chosen(S)}]
    OBVIOUS
  <2>2. Chosen(S) \in S
    BY <2>1 DEF Chosen
  <2>3. S \ {Chosen(S)} \in SUBSET D
    OBVIOUS
  <2> QED
    BY <2>1, <2>2, <2>3 DEF Folds, Multiply
<1>3. Unfolds([S \in SUBSET E |-> g[S]])
  BY <1>2 DEF Folds
<1>4. Unfolds(it)
  <2> HIDE DEF Unfolds
  <2> QED
    BY <1>3
<1> HIDE DEF it
<1> DEFINE G == {S \in SUBSET E : it[S] = g[S]}
<1>5. {} \in G
  BY <1>4 DEF Folds
<1>6. ASSUME NEW S \in SUBSET E, S # {}, \A x \in S : S \ {x} \in G
      PROVE  S \in G
  BY <1>2, <1>4, <1>6
<1>7. SUBSET E = G
  <2>1. G \in SUBSET (SUBSET E) /\ IsFiniteSet(E)
    BY FS_Subset
  <2> HIDE DEF G
  <2>2. \A S \in SUBSET E : S # {} /\ (\A x \in S : S \ {x} \in G) => S \in G
    BY <1>6
  <2> QED
    BY <1>5, <2>1, <2>2, SubsetInduction
<1> QED
  BY <1>1, <1>7

LEMMA DenominatorStep ==
  ASSUME NEW D, IsFiniteSet(D), NEW card, \A d \in D : card[d].total \in Nat
  PROVE  /\ Denominator(card, {}) = 1
         /\ \A S \in SUBSET D : Denominator(card, S) \in Int
         /\ \A S \in SUBSET D, x \in D : x \in S =>
              Denominator(card, S) = card[x].total * Denominator(card, S \ {x})
<1> DEFINE op == Multiply(card, D)
<1>1. op \in [D \X Int -> Int]
  BY DEF Multiply
<1>2. \A x \in D, v \in Int : op[<<x, v>>] = card[x].total * v
  BY DEF Multiply
<1>3. Commutes(op, D)
  <2>1. SUFFICES ASSUME NEW x \in D, NEW y \in D, NEW v \in Int
                 PROVE op[<<x, op[<<y, v>>]>>] = op[<<y, op[<<x, v>>]>>]
    BY DEF Commutes
  <2> HIDE DEF op
  <2>2. card[x].total * (card[y].total * v) = card[y].total * (card[x].total * v)
    <3>1. \A a, b, w \in Int : a * (b * w) = b * (a * w)
      OBVIOUS
    <3> QED
      BY <3>1
  <2>3. card[x].total * v \in Int /\ card[y].total * v \in Int
    OBVIOUS
  <2> QED
    BY <1>2, <2>2, <2>3
<1> HIDE DEF op
<1>0. 1 \in Int
  OBVIOUS
<1>4. PICK g : Folds(g, op, 1, D)
  BY <1>0, <1>1, FoldExists
<1>5. \A S \in SUBSET D : Denominator(card, S) = g[S]
  BY <1>4, DenominatorFolds DEF op
<1>6. AnyOrder(g, op, D)
  BY <1>0, <1>1, <1>3, <1>4, FoldAnyOrder
<1>7. g \in [SUBSET D -> Int] /\ g[{}] = 1
  BY <1>4 DEF Folds
<1>8. \A S \in SUBSET D : g[S] \in Int /\ S \subseteq D /\ \A x \in D : S \ {x} \in SUBSET D
  BY <1>7
<1>9. Denominator(card, {}) = 1 /\ \A S \in SUBSET D : Denominator(card, S) \in Int
  BY <1>5, <1>7, <1>8
<1>10. ASSUME NEW S \in SUBSET D, NEW x \in D, x \in S
       PROVE  Denominator(card, S) = card[x].total * Denominator(card, S \ {x})
  <2>1. g[S] = op[<<x, g[S \ {x}]>>]
    BY <1>6, <1>10 DEF AnyOrder
  <2>2. op[<<x, g[S \ {x}]>>] = card[x].total * g[S \ {x}]
    BY <1>2, <1>8
  <2> QED
    BY <1>5, <1>8, <2>1, <2>2
<1> QED
  BY <1>9, <1>10

LEMMA DenominatorPositive ==
  ASSUME NEW D, IsFiniteSet(D), NEW card, \A d \in D : card[d].total \in Nat \ {0}
  PROVE  \A S \in SUBSET D : Denominator(card, S) \in Nat \ {0}
<1> DEFINE G == {S \in SUBSET D : Denominator(card, S) \in Nat \ {0}}
<1>1. {} \in G
  BY DenominatorStep
<1>2. ASSUME NEW S \in SUBSET D, S # {}, \A x \in S : S \ {x} \in G
      PROVE  S \in G
  <2>1. PICK x \in S : TRUE
    BY <1>2
  <2>2. Denominator(card, S) = card[x].total * Denominator(card, S \ {x})
    BY DenominatorStep
  <2>3. \A a, b \in Nat \ {0} : a * b \in Nat \ {0}
    OBVIOUS
  <2> QED
    BY <1>2, <2>2, <2>3
<1>3. SUBSET D = G
  <2>1. G \in SUBSET (SUBSET D)
    OBVIOUS
  <2> HIDE DEF G
  <2>2. \A S \in SUBSET D : S # {} /\ (\A x \in S : S \ {x} \in G) => S \in G
    BY <1>2
  <2> QED
    BY <1>1, <2>1, <2>2, SubsetInduction
<1> QED
  BY <1>3

-----------------------------------------------------------------------------
(* A sum of terms of which none is above P is at most as many times P, and *)
(* that much only if each of them is P.                                    *)

Add(t, D) == [p \in D \X Int |-> t[p[1]] + p[2]]

LEMMA SumBounded ==
  ASSUME NEW D, IsFiniteSet(D), NEW t \in [D -> Nat], NEW P \in Nat,
         \A d \in D : t[d] <= P,
         NEW g, Folds(g, Add(t, D), 0, D)
  PROVE  /\ 0 <= g[D] /\ g[D] <= Cardinality(D) * P
         /\ g[D] = Cardinality(D) * P <=> \A d \in D : t[d] = P
<1> DEFINE Bounded(S) ==
      /\ 0 <= g[S] /\ g[S] <= Cardinality(S) * P
      /\ g[S] = Cardinality(S) * P <=> \A d \in S : t[d] = P
<1> DEFINE G == {S \in SUBSET D : Bounded(S)}
<1>1. {} \in G
  <2>1. Cardinality({}) = 0
    BY FS_EmptySet
  <2> QED
    BY <2>1 DEF Folds
<1>2. ASSUME NEW S \in SUBSET D, S # {}, \A x \in S : S \ {x} \in G
      PROVE  S \in G
  <2> DEFINE c == Chosen(S)
  <2> DEFINE R == S \ {c}
  <2>1. c \in S
    BY <1>2 DEF Chosen
  <2>2. g[R] \in Int /\ g[S] = t[c] + g[R]
    BY <1>2, <2>1 DEF Folds, Add
  <2>3. Cardinality(R) \in Nat /\ Cardinality(S) = Cardinality(R) + 1
    BY <2>1, FS_Subset, FS_CardinalityType, FS_RemoveElement
  <2>4. Bounded(R)
    BY <1>2, <2>1
  <2>5. \A n \in Nat : (n + 1) * P = n * P + P /\ n * P \in Nat
    OBVIOUS
  <2>6. Cardinality(S) * P = Cardinality(R) * P + P /\ Cardinality(R) * P \in Nat
    BY <2>3, <2>5
  <2>7. t[c] \in Nat /\ t[c] <= P
    BY <2>1
  <2>8. S = R \cup {c}
    BY <2>1
  <2>9. (\A d \in S : t[d] = P) <=> (t[c] = P /\ \A d \in R : t[d] = P)
    BY <2>8
  <2> HIDE DEF c, R
  <2> QED
    BY <2>2, <2>4, <2>6, <2>7, <2>9
<1>3. SUBSET D = G
  <2>1. G \in SUBSET (SUBSET D)
    OBVIOUS
  <2> HIDE DEF G
  <2>2. \A S \in SUBSET D : S # {} /\ (\A x \in S : S \ {x} \in G) => S \in G
    BY <1>2
  <2> QED
    BY <1>1, <2>1, <2>2, SubsetInduction
<1> QED
  BY <1>3

(* What a dimension adds to the numerator, over the common denominator.    *)
Term(card, d) == card[d].passed * Denominator(card, DOMAIN card \ {d})

LEMMA NumeratorFolds ==
  ASSUME NEW card, IsFiniteSet(DOMAIN card), NEW t \in [DOMAIN card -> Int],
         \A d \in DOMAIN card : t[d] = Term(card, d), DOMAIN card # {},
         NEW g, Folds(g, Add(t, DOMAIN card), 0, DOMAIN card)
  PROVE  Overall(card).num = g[DOMAIN card]
<1> DEFINE D == DOMAIN card
<1> DEFINE Unfolds(iter) ==
      iter = [S \in SUBSET D |-> IF S = {} THEN 0
                ELSE Term(card, Chosen(S)) + iter[S \ {Chosen(S)}]]
<1> DEFINE it == CHOOSE iter : Unfolds(iter)
<1>1. Overall(card).num = it[D]
  BY DEF Overall, MapThenSumSet, MapThenFoldSet, Chosen, Term
<1>2. \A S \in SUBSET D : S # {} =>
        Chosen(S) \in S /\ g[S] = Term(card, Chosen(S)) + g[S \ {Chosen(S)}]
  <2>1. SUFFICES ASSUME NEW S \in SUBSET D, S # {}
                 PROVE Chosen(S) \in S /\ g[S] = Term(card, Chosen(S)) + g[S \ {Chosen(S)}]
    OBVIOUS
  <2>2. Chosen(S) \in S
    BY <2>1 DEF Chosen
  <2>3. S \ {Chosen(S)} \in SUBSET D
    OBVIOUS
  <2> QED
    BY <2>1, <2>2, <2>3 DEF Folds, Add
<1>3. Unfolds([S \in SUBSET D |-> g[S]])
  BY <1>2 DEF Folds
<1>4. Unfolds(it)
  <2> HIDE DEF Unfolds
  <2> QED
    BY <1>3
<1> HIDE DEF it
<1> DEFINE G == {S \in SUBSET D : it[S] = g[S]}
<1>5. {} \in G
  BY <1>4 DEF Folds
<1>6. ASSUME NEW S \in SUBSET D, S # {}, \A x \in S : S \ {x} \in G
      PROVE  S \in G
  BY <1>2, <1>4, <1>6
<1>7. SUBSET D = G
  <2>1. G \in SUBSET (SUBSET D)
    OBVIOUS
  <2> HIDE DEF G
  <2>2. \A S \in SUBSET D : S # {} /\ (\A x \in S : S \ {x} \in G) => S \in G
    BY <1>6
  <2> QED
    BY <1>5, <2>1, <2>2, SubsetInduction
<1> QED
  BY <1>1, <1>7

(* The overall score of a scorecard is a fraction in [0, 1], and it is 1   *)
(* only when every result passed in every dimension: a mean of values      *)
(* neither hides a failure nor invents one (scoring.py, build_scorecard;   *)
(* test_models.py, Score.__post_init__).                                   *)
THEOREM OverallBounded ==
  ASSUME NEW card, IsFiniteSet(DOMAIN card), DOMAIN card # {},
         \A d \in DOMAIN card : /\ card[d].total \in Nat \ {0}
                                /\ card[d].passed \in 0 .. card[d].total
  PROVE  /\ 0 < Overall(card).den
         /\ 0 <= Overall(card).num /\ Overall(card).num <= Overall(card).den
         /\ Overall(card).num = Overall(card).den
              <=> \A d \in DOMAIN card : card[d].passed = card[d].total
<1> DEFINE D == DOMAIN card
<1> DEFINE P == Denominator(card, D)
<1> DEFINE t == [d \in D |-> Term(card, d)]
<1>1. P \in Nat \ {0}
  BY DenominatorPositive
<1>2. \A d \in D : /\ Term(card, d) \in Nat /\ Term(card, d) <= P
                   /\ Term(card, d) = P <=> card[d].passed = card[d].total
  <2>1. SUFFICES ASSUME NEW d \in D
                 PROVE  /\ Term(card, d) \in Nat /\ Term(card, d) <= P
                        /\ Term(card, d) = P <=> card[d].passed = card[d].total
    OBVIOUS
  <2> DEFINE Q == Denominator(card, D \ {d})
  <2>2. Q \in Nat \ {0}
    BY DenominatorPositive
  <2>3. P = card[d].total * Q
    BY DenominatorStep
  <2>4. Term(card, d) = card[d].passed * Q
    BY DEF Term
  <2>5. \A a, b, q \in Nat : q # 0 /\ a <= b =>
          a * q \in Nat /\ a * q <= b * q /\ (a * q = b * q <=> a = b)
    OBVIOUS
  <2>6. card[d].passed \in Nat /\ card[d].total \in Nat /\ card[d].passed <= card[d].total
    OBVIOUS
  <2> DEFINE a == card[d].passed
  <2> DEFINE b == card[d].total
  <2>7. a \in Nat /\ b \in Nat /\ a <= b /\ P = b * Q /\ Term(card, d) = a * Q
    BY <2>3, <2>4, <2>6
  <2> HIDE DEF Q, P, D, a, b
  <2>8. a * Q \in Nat /\ a * Q <= b * Q /\ (a * Q = b * Q <=> a = b)
    BY <2>2, <2>5, <2>7
  <2> QED
    BY <2>7, <2>8 DEF a, b
<1>3. PICK g : Folds(g, Add(t, D), 0, D)
  <2>1. Add(t, D) \in [D \X Int -> Int]
    BY <1>2 DEF Add
  <2>2. 0 \in Int
    OBVIOUS
  <2> HIDE DEF t
  <2> QED
    BY <2>1, <2>2, FoldExists
<1>4. Overall(card).num = g[D]
  BY <1>2, <1>3, NumeratorFolds
<1>5. Overall(card).den = Cardinality(D) * P
  BY DEF Overall
<1>6. /\ 0 <= g[D] /\ g[D] <= Cardinality(D) * P
      /\ g[D] = Cardinality(D) * P <=> \A d \in D : t[d] = P
  <2>1. t \in [D -> Nat] /\ \A d \in D : t[d] <= P
    BY <1>2
  <2> HIDE DEF t, P
  <2> QED
    BY <1>1, <1>3, <2>1, SumBounded
<1>7. Cardinality(D) \in Nat \ {0}
  BY FS_EmptySet, FS_CardinalityType
<1>8. 0 < Cardinality(D) * P
  <2>1. \A a, b \in Nat \ {0} : 0 < a * b
    OBVIOUS
  <2> HIDE DEF P, D
  <2> QED
    BY <1>1, <1>7, <2>1
<1> QED
  BY <1>2, <1>4, <1>5, <1>6, <1>8

-----------------------------------------------------------------------------
(* The type invariant.                                                     *)

(* The labels an operation goes through.                                   *)
PathOf(op) ==
  CASE op = "register_test"    -> {"save_test"}
    [] op = "start_run"        -> {"save_new_run", "publish_started"}
    [] op = "submit_result"    -> {"load", "save_result"}
    [] op = "complete_run"     -> {"load", "read_results", "save_run",
                                   "announce_end", "compute", "save_score",
                                   "publish_score", "publish_results"}
    [] op = "fail_run"         -> {"load", "save_run", "announce_end"}
    [] op = "collect_evidence" -> {"save_evidence", "publish_evidence"}
    [] op = "generate_report"  -> {"load", "read_results", "read_scores",
                                   "save_report", "publish_report"}
    [] OTHER                   -> {"load", "read_scores"}

OnPath ==
  \A c \in Calls :
    pc[c] \in InFlight =>
      req[c].op \in Operations /\ pc[c] \in PathOf(req[c].op)

(* The steps after the call has saved the end of its run, and all the      *)
(* steps after it has found, or created, the run.                          *)
Saved == {"announce_end", "compute", "save_score", "publish_score",
          "publish_results"}
Found == Saved \cup {"publish_started", "save_result", "read_results",
                     "save_run", "read_scores", "save_report",
                     "publish_report"}

(* What a call in flight knows of its arguments and of its run.            *)
Arguments ==
  \A c \in Calls :
    /\ pc[c] = "save_test" => /\ req[c].test \in Tests
                              /\ req[c].category \in Categories
    /\ pc[c] = "save_new_run" => req[c].run \in Runs
    /\ pc[c] = "load" /\ req[c].run # Unknown =>
         req[c].run \in Runs /\ runs[req[c].run] \in Status
    /\ pc[c] \in Found => req[c].run \in Runs /\ runs[req[c].run] \in Status
    /\ pc[c] \in Saved => runs[req[c].run] \in Ended
    /\ pc[c] \in {"save_run"} \cup Saved => loaded[c] = EndStatus(req[c].op)
    /\ pc[c] \in {"read_results", "read_scores", "save_report"} =>
         loaded[c] \in Status

(* The uuid of a test or a run about to be stored is nobody else's.        *)
Fresh ==
  \A c \in Calls :
    /\ pc[c] = "save_test" =>
         /\ catalog[req[c].test] = Absent
         /\ \A d \in Calls \ {c} :
              pc[d] = "save_test" => req[d].test # req[c].test
    /\ pc[c] = "save_new_run" =>
         /\ runs[req[c].run] = Absent
         /\ \A d \in Calls \ {c} :
              pc[d] = "save_new_run" => req[d].run # req[c].run

Finite == IsFiniteSet(results) /\ \A c \in Calls : IsFiniteSet(seen[c])

TypeInv == TypeOK /\ OnPath /\ Arguments /\ Fresh /\ Finite

(* The labels and statuses are plain sets of strings.                      *)
USE DEF Absent, Status, Ended, RunRows, StoreSteps, PublishSteps, InFlight, Answers

-----------------------------------------------------------------------------
(* One step per action of the facade.                                      *)
LEMMA StepKeepsTypeInv ==
  ASSUME TypeInv, NEW c \in Calls, Step(c)
  PROVE  TypeInv'
<1>1. CASE SaveTest(c)
  <2>1. TypeOK'
    BY <1>1 DEF SaveTest, locals, Record, Audited, SocEvent, Goto, TypeInv,
       TypeOK, OnPath, PathOf, Requests, Arguments, Found, Saved, EndStatus,
       Operations, SocEvents, SocTypes
  <2>2. OnPath'
    BY <1>1 DEF SaveTest, locals, Record, Audited, SocEvent, Goto, TypeInv,
       TypeOK, OnPath, PathOf, Requests, Operations
  <2>3. Arguments'
    BY <1>1 DEF SaveTest, locals, Record, Audited, SocEvent, Goto, TypeInv,
       TypeOK, OnPath, PathOf, Requests, Operations, Arguments, Found, Saved,
       EndStatus
  <2>4. Finite'
    BY <1>1 DEF SaveTest, locals, Record, Audited, SocEvent, Goto, TypeInv,
       Finite
  <2>5. Fresh'
    BY <1>1 DEF SaveTest, locals, Record, Audited, SocEvent, Goto, TypeInv,
       TypeOK, Arguments, Found, Fresh, Requests
  <2> QED
    BY <2>1, <2>2, <2>3, <2>4, <2>5 DEF TypeInv
<1>2. CASE SaveNewRun(c)
  <2>1. TypeOK'
    BY <1>2 DEF SaveNewRun, Goto, TypeInv, TypeOK, OnPath, PathOf, Requests,
       Arguments, Found, Saved, EndStatus, Operations
  <2>2. OnPath'
    BY <1>2 DEF SaveNewRun, Goto, TypeInv, TypeOK, OnPath, PathOf, Requests,
       Operations
  <2>3. Arguments'
    <3>1. /\ req[c].run \in Runs
          /\ runs' = [runs EXCEPT ![req[c].run] = "started"]
          /\ loaded' = [loaded EXCEPT ![c] = "started"]
          /\ pc' = [pc EXCEPT ![c] = "publish_started"]
          /\ req' = req
      BY <1>2 DEF SaveNewRun, Goto, TypeInv, Arguments
    <3> QED
      BY <1>2, <3>1 DEF SaveNewRun, TypeInv, TypeOK, Arguments, Fresh, Found, Saved
  <2>4. Finite'
    BY <1>2 DEF SaveNewRun, Goto, TypeInv, Finite
  <2>5. Fresh'
    BY <1>2 DEF SaveNewRun, Goto, TypeInv, TypeOK, Arguments, Found, Fresh,
       Requests
  <2> QED
    BY <2>1, <2>2, <2>3, <2>4, <2>5 DEF TypeInv
<1>3. CASE PublishStarted(c)
  <2>1. TypeOK'
    BY <1>3 DEF PublishStarted, locals, store, Record, Audited, SocEvent,
       Goto, TypeInv, TypeOK, OnPath, PathOf, Requests, Arguments, Found,
       Saved, EndStatus, Operations, SocEvents, SocTypes, Events
  <2>2. OnPath'
    BY <1>3 DEF PublishStarted, locals, store, Record, Audited, SocEvent,
       Goto, TypeInv, TypeOK, OnPath, PathOf, Requests, Operations
  <2>3. Arguments'
    BY <1>3 DEF PublishStarted, locals, store, Record, Audited, SocEvent,
       Goto, TypeInv, TypeOK, OnPath, PathOf, Requests, Operations, Arguments,
       Found, Saved, EndStatus
  <2>4. Finite'
    BY <1>3 DEF PublishStarted, locals, store, Record, Audited, SocEvent,
       Goto, TypeInv, Finite
  <2>5. Fresh'
    BY <1>3 DEF PublishStarted, locals, store, Record, Audited, SocEvent,
       Goto, TypeInv, TypeOK, Arguments, Found, Fresh, Requests
  <2> QED
    BY <2>1, <2>2, <2>3, <2>4, <2>5 DEF TypeInv
<1>4. CASE LoadMissing(c)
  <2>1. TypeOK'
    BY <1>4 DEF LoadMissing, locals, store, Fail, Record, Audited, SocEvent,
       TypeInv, TypeOK, OnPath, PathOf, Requests, Arguments, Found, Saved,
       EndStatus, Operations, SocEvents, SocTypes
  <2>2. OnPath'
    BY <1>4 DEF LoadMissing, locals, store, Fail, Record, Audited, SocEvent,
       TypeInv, TypeOK, OnPath, PathOf, Requests, Operations
  <2>3. Arguments'
    BY <1>4 DEF LoadMissing, locals, store, Fail, Record, Audited, SocEvent,
       TypeInv, TypeOK, OnPath, PathOf, Requests, Operations, Arguments,
       Found, Saved, EndStatus
  <2>4. Finite'
    BY <1>4 DEF LoadMissing, locals, store, Fail, Record, Audited, SocEvent,
       TypeInv, Finite
  <2>5. Fresh'
    BY <1>4 DEF LoadMissing, locals, store, Fail, Record, Audited, SocEvent,
       TypeInv, TypeOK, Arguments, Found, Fresh, Requests
  <2> QED
    BY <2>1, <2>2, <2>3, <2>4, <2>5 DEF TypeInv
<1>5. CASE LoadRefused(c)
  <2>1. TypeOK'
    BY <1>5 DEF LoadRefused, store, Fail, Record, Audited, SocEvent,
       StillOpen, NeedsOpenRun, TypeInv, TypeOK, OnPath, PathOf, Requests,
       Arguments, Found, Saved, EndStatus, Operations, SocEvents, SocTypes
  <2>2. OnPath'
    BY <1>5 DEF LoadRefused, store, Fail, Record, Audited, SocEvent,
       StillOpen, NeedsOpenRun, TypeInv, TypeOK, OnPath, PathOf, Requests,
       Operations
  <2>3. Arguments'
    BY <1>5 DEF LoadRefused, store, Fail, Record, Audited, SocEvent,
       StillOpen, NeedsOpenRun, TypeInv, TypeOK, OnPath, PathOf, Requests,
       Operations, Arguments, Found, Saved, EndStatus
  <2>4. Finite'
    BY <1>5 DEF LoadRefused, store, Fail, Record, Audited, SocEvent,
       StillOpen, NeedsOpenRun, TypeInv, Finite
  <2>5. Fresh'
    BY <1>5 DEF LoadRefused, store, Fail, Record, Audited, SocEvent,
       StillOpen, NeedsOpenRun, TypeInv, TypeOK, Arguments, Found, Fresh,
       Requests
  <2> QED
    BY <2>1, <2>2, <2>3, <2>4, <2>5 DEF TypeInv
<1>6. CASE LoadRun(c)
  <2>1. TypeOK'
    BY <1>6 DEF LoadRun, store, AfterLoad, Goto, EndStatus, StillOpen,
       NeedsOpenRun, TypeInv, TypeOK, OnPath, PathOf, Requests, Arguments,
       Found, Saved, Operations
  <2>2. OnPath'
    BY <1>6 DEF LoadRun, store, AfterLoad, Goto, EndStatus, StillOpen,
       NeedsOpenRun, TypeInv, TypeOK, OnPath, PathOf, Requests, Operations
  <2>3. Arguments'
    BY <1>6 DEF LoadRun, store, AfterLoad, Goto, EndStatus, StillOpen,
       NeedsOpenRun, TypeInv, TypeOK, OnPath, PathOf, Requests, Operations,
       Arguments, Found, Saved
  <2>4. Finite'
    BY <1>6 DEF LoadRun, store, AfterLoad, Goto, EndStatus, StillOpen,
       NeedsOpenRun, TypeInv, Finite
  <2>5. Fresh'
    BY <1>6 DEF LoadRun, store, AfterLoad, Goto, EndStatus, StillOpen,
       NeedsOpenRun, TypeInv, TypeOK, Arguments, Found, Fresh, Requests
  <2> QED
    BY <2>1, <2>2, <2>3, <2>4, <2>5 DEF TypeInv
<1>7. CASE SaveResult(c)
  <2>1. TypeOK'
    BY <1>7 DEF SaveResult, locals, Record, Audited, SocEvent, Goto, TypeInv,
       TypeOK, OnPath, PathOf, Requests, Arguments, Found, Saved, EndStatus,
       Operations, ResultRow, SocEvents, SocTypes
  <2>2. OnPath'
    BY <1>7 DEF SaveResult, locals, Record, Audited, SocEvent, Goto, TypeInv,
       TypeOK, OnPath, PathOf, Requests, Operations
  <2>3. Arguments'
    BY <1>7 DEF SaveResult, locals, Record, Audited, SocEvent, Goto, TypeInv,
       TypeOK, OnPath, PathOf, Requests, Operations, Arguments, Found, Saved,
       EndStatus
  <2>4. Finite'
    BY <1>7, FS_AddElement DEF SaveResult, locals, Record, Audited, SocEvent,
       Goto, TypeInv, Finite
  <2>5. Fresh'
    BY <1>7 DEF SaveResult, locals, Record, Audited, SocEvent, Goto, TypeInv,
       TypeOK, Arguments, Found, Fresh, Requests
  <2> QED
    BY <2>1, <2>2, <2>3, <2>4, <2>5 DEF TypeInv
<1>8. CASE ReadResultsToEnd(c)
  <2>1. TypeOK'
    BY <1>8 DEF ReadResultsToEnd, store, Goto, EndStatus, RowsOf, StillOpen,
       TypeInv, TypeOK, OnPath, PathOf, Requests, Arguments, Found, Saved,
       Operations
  <2>2. OnPath'
    BY <1>8 DEF ReadResultsToEnd, store, Goto, EndStatus, RowsOf, StillOpen,
       TypeInv, TypeOK, OnPath, PathOf, Requests, Operations
  <2>3. Arguments'
    BY <1>8 DEF ReadResultsToEnd, store, Goto, EndStatus, RowsOf, StillOpen,
       TypeInv, TypeOK, OnPath, PathOf, Requests, Operations, Arguments,
       Found, Saved
  <2>4. Finite'
    BY <1>8, FS_Subset DEF ReadResultsToEnd, store, Goto, EndStatus, RowsOf,
       StillOpen, TypeInv, Finite
  <2>5. Fresh'
    BY <1>8 DEF ReadResultsToEnd, store, Goto, EndStatus, RowsOf, StillOpen,
       TypeInv, TypeOK, Arguments, Found, Fresh, Requests
  <2> QED
    BY <2>1, <2>2, <2>3, <2>4, <2>5 DEF TypeInv
<1>9. CASE ReadResultsRefused(c)
  <2>1. TypeOK'
    BY <1>9 DEF ReadResultsRefused, store, Fail, Record, Audited, SocEvent,
       RowsOf, StillOpen, TypeInv, TypeOK, OnPath, PathOf, Requests,
       Arguments, Found, Saved, EndStatus, Operations, SocEvents, SocTypes
  <2>2. OnPath'
    BY <1>9 DEF ReadResultsRefused, store, Fail, Record, Audited, SocEvent,
       RowsOf, StillOpen, TypeInv, TypeOK, OnPath, PathOf, Requests,
       Operations
  <2>3. Arguments'
    BY <1>9 DEF ReadResultsRefused, store, Fail, Record, Audited, SocEvent,
       RowsOf, StillOpen, TypeInv, TypeOK, OnPath, PathOf, Requests,
       Operations, Arguments, Found, Saved, EndStatus
  <2>4. Finite'
    BY <1>9, FS_Subset DEF ReadResultsRefused, store, Fail, Record, Audited,
       SocEvent, RowsOf, StillOpen, TypeInv, Finite
  <2>5. Fresh'
    BY <1>9 DEF ReadResultsRefused, store, Fail, Record, Audited, SocEvent,
       RowsOf, StillOpen, TypeInv, TypeOK, Arguments, Found, Fresh, Requests
  <2> QED
    BY <2>1, <2>2, <2>3, <2>4, <2>5 DEF TypeInv
<1>10. CASE SaveRun(c)
  <2>1. TypeOK'
    BY <1>10 DEF SaveRun, locals, Goto, StatusSaved, TypeInv, TypeOK, OnPath,
       PathOf, Requests, Arguments, Found, Saved, EndStatus, Operations
  <2>2. OnPath'
    BY <1>10 DEF SaveRun, locals, Goto, StatusSaved, TypeInv, TypeOK, OnPath,
       PathOf, Requests, Operations
  <2>3. Arguments'
    BY <1>10 DEF SaveRun, locals, Goto, StatusSaved, TypeInv, TypeOK, OnPath,
       PathOf, Requests, Operations, Arguments, Found, Saved, EndStatus
  <2>4. Finite'
    BY <1>10 DEF SaveRun, locals, Goto, StatusSaved, TypeInv, Finite
  <2>5. Fresh'
    BY <1>10 DEF SaveRun, locals, Goto, StatusSaved, TypeInv, TypeOK,
       Arguments, Found, Fresh, Requests
  <2> QED
    BY <2>1, <2>2, <2>3, <2>4, <2>5 DEF TypeInv
<1>11. CASE AnnounceCompleted(c)
  <2>1. TypeOK'
    <3>1. EndEvent(c) \in Events
      <4>1. /\ Cardinality(PassedIn(seen[c])) \in Nat
            /\ Cardinality(FailedIn(seen[c])) \in Nat
            /\ Cardinality(PassedIn({})) \in Nat
            /\ Cardinality(FailedIn({})) \in Nat
        BY PassedAndFailed, FS_EmptySet DEF TypeInv, Finite
      <4> QED
        BY <1>11, <4>1 DEF AnnounceCompleted, EndEvent, EndStatus, Events, TypeInv, TypeOK,
           Arguments, Found, Saved
    <3> QED
      BY <1>11, <3>1 DEF AnnounceCompleted, locals, store, Goto, Record, Audited, SocEvent, EndEvent, TypeInv, TypeOK, OnPath, Requests,
         Arguments, Found, Saved, SocEvents, SocTypes
  <2>2. OnPath'
    BY <1>11 DEF AnnounceCompleted, locals, store, Goto, Record, Audited,
       SocEvent, EndEvent, TypeInv, TypeOK, OnPath, PathOf, Requests,
       Operations
  <2>3. Arguments'
    BY <1>11 DEF AnnounceCompleted, locals, store, Goto, Record, Audited,
       SocEvent, EndEvent, TypeInv, TypeOK, OnPath, PathOf, Requests,
       Operations, Arguments, Found, Saved, EndStatus
  <2>4. Finite'
    BY <1>11 DEF AnnounceCompleted, locals, store, Goto, Record, Audited,
       SocEvent, EndEvent, TypeInv, Finite
  <2>5. Fresh'
    BY <1>11 DEF AnnounceCompleted, locals, store, Goto, Record, Audited,
       SocEvent, EndEvent, TypeInv, TypeOK, Arguments, Found, Fresh, Requests
  <2> QED
    BY <2>1, <2>2, <2>3, <2>4, <2>5 DEF TypeInv
<1>12. CASE AnnounceFailed(c)
  <2>1. TypeOK'
    <3>1. EndEvent(c) \in Events
      <4>1. /\ Cardinality(PassedIn(seen[c])) \in Nat
            /\ Cardinality(FailedIn(seen[c])) \in Nat
            /\ Cardinality(PassedIn({})) \in Nat
            /\ Cardinality(FailedIn({})) \in Nat
        BY PassedAndFailed, FS_EmptySet DEF TypeInv, Finite
      <4> QED
        BY <1>12, <4>1 DEF AnnounceFailed, EndEvent, EndStatus, Events, TypeInv, TypeOK,
           Arguments, Found, Saved
    <3> QED
      BY <1>12, <3>1 DEF AnnounceFailed, locals, store, Goto, Record, Audited, SocEvent, EndEvent, TypeInv, TypeOK, OnPath, Requests,
         Arguments, Found, Saved, SocEvents, SocTypes
  <2>2. OnPath'
    BY <1>12 DEF AnnounceFailed, locals, store, Goto, Record, Audited,
       SocEvent, EndEvent, TypeInv, TypeOK, OnPath, PathOf, Requests,
       Operations
  <2>3. Arguments'
    BY <1>12 DEF AnnounceFailed, locals, store, Goto, Record, Audited,
       SocEvent, EndEvent, TypeInv, TypeOK, OnPath, PathOf, Requests,
       Operations, Arguments, Found, Saved, EndStatus
  <2>4. Finite'
    BY <1>12 DEF AnnounceFailed, locals, store, Goto, Record, Audited,
       SocEvent, EndEvent, TypeInv, Finite
  <2>5. Fresh'
    BY <1>12 DEF AnnounceFailed, locals, store, Goto, Record, Audited,
       SocEvent, EndEvent, TypeInv, TypeOK, Arguments, Found, Fresh, Requests
  <2> QED
    BY <2>1, <2>2, <2>3, <2>4, <2>5 DEF TypeInv
<1>13. CASE ComputeScores(c)
  <2>1. TypeOK'
    <3>1. Dimensions(catalog, seen[c]) \subseteq DimensionSet
      BY DimensionsBounded DEF DimensionSet, TypeInv, TypeOK
    <3> QED
      BY <1>13, <3>1 DEF ComputeScores, store, NextScoreStep, Goto, TypeInv, TypeOK
  <2>2. OnPath'
    BY <1>13 DEF ComputeScores, store, NextScoreStep, Goto, TypeInv, TypeOK,
       OnPath, PathOf, Requests, Operations
  <2>3. Arguments'
    BY <1>13 DEF ComputeScores, store, NextScoreStep, Goto, TypeInv, TypeOK,
       OnPath, PathOf, Requests, Operations, Arguments, Found, Saved,
       EndStatus
  <2>4. Finite'
    BY <1>13 DEF ComputeScores, store, NextScoreStep, Goto, TypeInv, Finite
  <2>5. Fresh'
    BY <1>13 DEF ComputeScores, store, NextScoreStep, Goto, TypeInv, TypeOK,
       Arguments, Found, Fresh, Requests
  <2> QED
    BY <2>1, <2>2, <2>3, <2>4, <2>5 DEF TypeInv
<1>14. CASE SaveScore(c)
  <2>1. TypeOK'
    <3>1. ASSUME NEW d \in todo[c] PROVE ScoreOf(c, d) \in ScoreRow
      <4>1. IsFiniteSet(Under(catalog, seen[c], d))
        BY FS_Subset DEF Under, TypeInv, Finite
      <4>2. ValueOf(Under(catalog, seen[c], d)) \in Counts
        BY <4>1, ValueBounds DEF Counts
      <4> QED
        BY <1>14, <4>2 DEF SaveScore, ScoreOf, ScoreRow, TypeInv, TypeOK,
           Arguments, Found, Saved
    <3> QED
      BY <1>14, <3>1 DEF SaveScore, Goto, locals, TypeInv, TypeOK
  <2>2. OnPath'
    BY <1>14 DEF SaveScore, locals, Goto, ScoreOf, TypeInv, TypeOK, OnPath,
       PathOf, Requests, Operations
  <2>3. Arguments'
    BY <1>14 DEF SaveScore, locals, Goto, ScoreOf, TypeInv, TypeOK, OnPath,
       PathOf, Requests, Operations, Arguments, Found, Saved, EndStatus
  <2>4. Finite'
    BY <1>14 DEF SaveScore, locals, Goto, ScoreOf, TypeInv, Finite
  <2>5. Fresh'
    BY <1>14 DEF SaveScore, locals, Goto, ScoreOf, TypeInv, TypeOK, Arguments,
       Found, Fresh, Requests
  <2> QED
    BY <2>1, <2>2, <2>3, <2>4, <2>5 DEF TypeInv
<1>15. CASE PublishScore(c)
  <2>1. TypeOK'
    <3>1. PICK s \in scores :
            /\ published' = published \cup
                 {[topic |-> "score_published", by |-> c, run |-> s.run,
                   dim |-> s.dim, value |-> s.value]}
            /\ todo' = [todo EXCEPT ![c] = @ \ {s.dim}]
            /\ pc' = [pc EXCEPT ![c] = NextScoreStep(todo[c] \ {s.dim})]
            /\ UNCHANGED <<store, soc, req, loaded, seen, scoreRows>>
      BY <1>15 DEF PublishScore, Goto
    <3>2. [topic |-> "score_published", by |-> c, run |-> s.run,
           dim |-> s.dim, value |-> s.value] \in Events
      BY DEF Events, ScoreRow, TypeInv, TypeOK
    <3> QED
      BY <3>1, <3>2 DEF NextScoreStep, store, TypeInv, TypeOK
  <2>2. OnPath'
    BY <1>15 DEF PublishScore, store, NextScoreStep, Goto, TypeInv, TypeOK,
       OnPath, PathOf, Requests, Operations
  <2>3. Arguments'
    BY <1>15 DEF PublishScore, store, NextScoreStep, Goto, TypeInv, TypeOK,
       OnPath, PathOf, Requests, Operations, Arguments, Found, Saved,
       EndStatus
  <2>4. Finite'
    BY <1>15 DEF PublishScore, store, NextScoreStep, Goto, TypeInv, Finite
  <2>5. Fresh'
    BY <1>15 DEF PublishScore, store, NextScoreStep, Goto, TypeInv, TypeOK,
       Arguments, Found, Fresh, Requests
  <2> QED
    BY <2>1, <2>2, <2>3, <2>4, <2>5 DEF TypeInv
<1>16. CASE PublishResults(c)
  <2>1. TypeOK'
    <3>1. IsCard(ScoresOf(catalog, seen[c]))
      <4>1. Dimensions(catalog, seen[c]) \subseteq DimensionSet
        BY DimensionsBounded DEF DimensionSet, TypeInv, TypeOK
      <4> QED
        BY <4>1, ScoresType DEF IsCard, Counts, TypeInv, Finite
    <3>2. IsResultsEvent(ResultsEvent(c))
      BY <1>16, <3>1 DEF PublishResults, ResultsEvent, IsResultsEvent, TypeInv,
         TypeOK, Arguments, Found, Saved
    <3> QED
      BY <1>16, <3>2 DEF PublishResults, Goto, Record, Audited, SocEvent, store,
         locals, TypeInv, TypeOK, OnPath, Requests, SocEvents, SocTypes
  <2>2. OnPath'
    BY <1>16 DEF PublishResults, locals, store, Goto, Anomalous, Record,
       Audited, SocEvent, ResultsEvent, TypeInv, TypeOK, OnPath, PathOf,
       Requests, Operations
  <2>3. Arguments'
    BY <1>16 DEF PublishResults, locals, store, Goto, Anomalous, Record,
       Audited, SocEvent, ResultsEvent, TypeInv, TypeOK, OnPath, PathOf,
       Requests, Operations, Arguments, Found, Saved, EndStatus
  <2>4. Finite'
    BY <1>16 DEF PublishResults, locals, store, Goto, Anomalous, Record,
       Audited, SocEvent, ResultsEvent, TypeInv, Finite
  <2>5. Fresh'
    BY <1>16 DEF PublishResults, locals, store, Goto, Anomalous, Record,
       Audited, SocEvent, ResultsEvent, TypeInv, TypeOK, Arguments, Found,
       Fresh, Requests
  <2> QED
    BY <2>1, <2>2, <2>3, <2>4, <2>5 DEF TypeInv
<1>17. CASE SaveEvidence(c)
  <2>1. TypeOK'
    BY <1>17 DEF SaveEvidence, locals, Goto, TypeInv, TypeOK, OnPath, PathOf,
       Requests, Arguments, Found, Saved, EndStatus, Operations, EvidenceRow
  <2>2. OnPath'
    BY <1>17 DEF SaveEvidence, locals, Goto, TypeInv, TypeOK, OnPath, PathOf,
       Requests, Operations
  <2>3. Arguments'
    BY <1>17 DEF SaveEvidence, locals, Goto, TypeInv, TypeOK, OnPath, PathOf,
       Requests, Operations, Arguments, Found, Saved, EndStatus
  <2>4. Finite'
    BY <1>17 DEF SaveEvidence, locals, Goto, TypeInv, Finite
  <2>5. Fresh'
    BY <1>17 DEF SaveEvidence, locals, Goto, TypeInv, TypeOK, Arguments,
       Found, Fresh, Requests
  <2> QED
    BY <2>1, <2>2, <2>3, <2>4, <2>5 DEF TypeInv
<1>18. CASE PublishEvidence(c)
  <2>1. TypeOK'
    BY <1>18 DEF PublishEvidence, locals, store, Record, Audited, SocEvent,
       Goto, TypeInv, TypeOK, OnPath, PathOf, Requests, Arguments, Found,
       Saved, EndStatus, Operations, SocEvents, SocTypes, Events
  <2>2. OnPath'
    BY <1>18 DEF PublishEvidence, locals, store, Record, Audited, SocEvent,
       Goto, TypeInv, TypeOK, OnPath, PathOf, Requests, Operations
  <2>3. Arguments'
    BY <1>18 DEF PublishEvidence, locals, store, Record, Audited, SocEvent,
       Goto, TypeInv, TypeOK, OnPath, PathOf, Requests, Operations, Arguments,
       Found, Saved, EndStatus
  <2>4. Finite'
    BY <1>18 DEF PublishEvidence, locals, store, Record, Audited, SocEvent,
       Goto, TypeInv, Finite
  <2>5. Fresh'
    BY <1>18 DEF PublishEvidence, locals, store, Record, Audited, SocEvent,
       Goto, TypeInv, TypeOK, Arguments, Found, Fresh, Requests
  <2> QED
    BY <2>1, <2>2, <2>3, <2>4, <2>5 DEF TypeInv
<1>19. CASE ReadResultsToReport(c)
  <2>1. TypeOK'
    BY <1>19 DEF ReadResultsToReport, store, Goto, RowsOf, TypeInv, TypeOK,
       OnPath, PathOf, Requests, Arguments, Found, Saved, EndStatus,
       Operations
  <2>2. OnPath'
    BY <1>19 DEF ReadResultsToReport, store, Goto, RowsOf, TypeInv, TypeOK,
       OnPath, PathOf, Requests, Operations
  <2>3. Arguments'
    BY <1>19 DEF ReadResultsToReport, store, Goto, RowsOf, TypeInv, TypeOK,
       OnPath, PathOf, Requests, Operations, Arguments, Found, Saved,
       EndStatus
  <2>4. Finite'
    BY <1>19, FS_Subset DEF ReadResultsToReport, store, Goto, RowsOf, TypeInv,
       Finite
  <2>5. Fresh'
    BY <1>19 DEF ReadResultsToReport, store, Goto, RowsOf, TypeInv, TypeOK,
       Arguments, Found, Fresh, Requests
  <2> QED
    BY <2>1, <2>2, <2>3, <2>4, <2>5 DEF TypeInv
<1>20. CASE ReadScoresToReport(c)
  <2>1. TypeOK'
    BY <1>20 DEF ReadScoresToReport, store, Goto, ScoreRowsOf, TypeInv,
       TypeOK, OnPath, PathOf, Requests, Arguments, Found, Saved, EndStatus,
       Operations
  <2>2. OnPath'
    BY <1>20 DEF ReadScoresToReport, store, Goto, ScoreRowsOf, TypeInv,
       TypeOK, OnPath, PathOf, Requests, Operations
  <2>3. Arguments'
    BY <1>20 DEF ReadScoresToReport, store, Goto, ScoreRowsOf, TypeInv,
       TypeOK, OnPath, PathOf, Requests, Operations, Arguments, Found, Saved,
       EndStatus
  <2>4. Finite'
    BY <1>20 DEF ReadScoresToReport, store, Goto, ScoreRowsOf, TypeInv, Finite
  <2>5. Fresh'
    BY <1>20 DEF ReadScoresToReport, store, Goto, ScoreRowsOf, TypeInv,
       TypeOK, Arguments, Found, Fresh, Requests
  <2> QED
    BY <2>1, <2>2, <2>3, <2>4, <2>5 DEF TypeInv
<1>21. CASE ReadScoresToAnswer(c)
  <2>1. TypeOK'
    BY <1>21 DEF ReadScoresToAnswer, store, Goto, ScoreRowsOf, TypeInv,
       TypeOK, OnPath, PathOf, Requests, Arguments, Found, Saved, EndStatus,
       Operations
  <2>2. OnPath'
    BY <1>21 DEF ReadScoresToAnswer, store, Goto, ScoreRowsOf, TypeInv,
       TypeOK, OnPath, PathOf, Requests, Operations
  <2>3. Arguments'
    BY <1>21 DEF ReadScoresToAnswer, store, Goto, ScoreRowsOf, TypeInv,
       TypeOK, OnPath, PathOf, Requests, Operations, Arguments, Found, Saved,
       EndStatus
  <2>4. Finite'
    BY <1>21 DEF ReadScoresToAnswer, store, Goto, ScoreRowsOf, TypeInv, Finite
  <2>5. Fresh'
    BY <1>21 DEF ReadScoresToAnswer, store, Goto, ScoreRowsOf, TypeInv,
       TypeOK, Arguments, Found, Fresh, Requests
  <2> QED
    BY <2>1, <2>2, <2>3, <2>4, <2>5 DEF TypeInv
<1>22. CASE SaveReport(c)
  <2>1. TypeOK'
    <3>1. PICK card \in Scorecards(scoreRows[c]) :
            reports' = reports \cup
              {[by |-> c, run |-> req[c].run, status |-> loaded[c],
                card |-> card, remediations |-> Remediations(catalog, seen[c])]}
      BY <1>22 DEF SaveReport
    <3>2. IsCard(card)
      <4>1. scoreRows[c] \subseteq ScoreRow
        BY DEF TypeInv, TypeOK
      <4>2. /\ {s.dim : s \in scoreRows[c]} \subseteq DimensionSet
            /\ {s.value : s \in scoreRows[c]} \subseteq Counts
        BY <4>1 DEF ScoreRow
      <4>3. card \in [{s.dim : s \in scoreRows[c]} ->
                       {s.value : s \in scoreRows[c]}]
        BY DEF Scorecards
      <4> QED
        BY <4>2, <4>3 DEF IsCard
    <3>3. Remediations(catalog, seen[c]) \subseteq RemediationItem
      BY DEF Remediations, RemediationItem, FailedIn, ResultRow, TypeInv, TypeOK
    <3>4. /\ req[c].run \in Runs /\ loaded[c] \in Status
          /\ pc' = [pc EXCEPT ![c] = "publish_report"]
          /\ UNCHANGED <<catalog, runs, results, scores, evidence, published,
                         soc, locals>>
      BY <1>22 DEF SaveReport, Goto, TypeInv, Arguments, Found
    <3>5. \A row \in reports' : IsReportRow(row)
      BY <3>1, <3>2, <3>3, <3>4 DEF IsReportRow, TypeInv, TypeOK
    <3> QED
      BY <3>4, <3>5 DEF locals, TypeInv, TypeOK
  <2>2. OnPath'
    BY <1>22 DEF SaveReport, locals, Goto, TypeInv, TypeOK, OnPath, PathOf,
       Requests, Operations
  <2>3. Arguments'
    BY <1>22 DEF SaveReport, locals, Goto, TypeInv, TypeOK, OnPath, PathOf,
       Requests, Operations, Arguments, Found, Saved, EndStatus
  <2>4. Finite'
    BY <1>22 DEF SaveReport, locals, Goto, TypeInv, Finite
  <2>5. Fresh'
    BY <1>22 DEF SaveReport, locals, Goto, TypeInv, TypeOK, Arguments, Found,
       Fresh, Requests
  <2> QED
    BY <2>1, <2>2, <2>3, <2>4, <2>5 DEF TypeInv
<1>23. CASE PublishReport(c)
  <2>1. TypeOK'
    BY <1>23 DEF PublishReport, locals, store, Record, Audited, SocEvent,
       Goto, TypeInv, TypeOK, OnPath, PathOf, Requests, Arguments, Found,
       Saved, EndStatus, Operations, SocEvents, SocTypes, Events
  <2>2. OnPath'
    BY <1>23 DEF PublishReport, locals, store, Record, Audited, SocEvent,
       Goto, TypeInv, TypeOK, OnPath, PathOf, Requests, Operations
  <2>3. Arguments'
    BY <1>23 DEF PublishReport, locals, store, Record, Audited, SocEvent,
       Goto, TypeInv, TypeOK, OnPath, PathOf, Requests, Operations, Arguments,
       Found, Saved, EndStatus
  <2>4. Finite'
    BY <1>23 DEF PublishReport, locals, store, Record, Audited, SocEvent,
       Goto, TypeInv, Finite
  <2>5. Fresh'
    BY <1>23 DEF PublishReport, locals, store, Record, Audited, SocEvent,
       Goto, TypeInv, TypeOK, Arguments, Found, Fresh, Requests
  <2> QED
    BY <2>1, <2>2, <2>3, <2>4, <2>5 DEF TypeInv
<1> QED
  BY <1>1, <1>2, <1>3, <1>4, <1>5, <1>6, <1>7, <1>8, <1>9, <1>10, <1>11,
     <1>12, <1>13, <1>14, <1>15, <1>16, <1>17, <1>18, <1>19, <1>20, <1>21,
     <1>22, <1>23 DEF Step

(* A call that is accepted: its request is well formed, its first step is  *)
(* one of its operation, and what it names exists or is fresh.             *)
WellFormed(request) ==
  /\ request \in Requests
  /\ request.op \in Operations
  /\ request.op = "register_test" => /\ request.test \in Tests
                                     /\ request.category \in Categories
                                     /\ FreshTest(request.test)
  /\ request.op = "start_run" => /\ request.run \in Runs
                                 /\ FreshRun(request.run)
  /\ request.op \notin {"register_test", "start_run"} /\ request.run # Unknown
       => request.run \in Runs /\ Known(request.run)
  /\ request.op = "submit_result" /\ request.test # Unknown
       => catalog[request.test] # Absent
  /\ OneDriver /\ request.op \in Lifecycle
       => \A d \in Calls : ~Driving(d, request.run)

LEMMA AcceptKeepsTypeInv ==
  ASSUME TypeInv, NEW c \in Calls, NEW request, WellFormed(request),
         Accept(c, request)
  PROVE  TypeInv'
<1>1. TypeOK'
  BY DEF WellFormed, Accept, Goto, FirstStep, store, Requests, SocEvents,
     SocTypes, Operations, TypeInv, TypeOK
<1>2. OnPath'
  BY DEF WellFormed, Accept, Goto, FirstStep, Operations, PathOf, TypeInv,
     TypeOK, OnPath
<1>3. Arguments'
  BY DEF WellFormed, Accept, Goto, FirstStep, store, Operations, Known,
     TypeInv, TypeOK, Arguments, Found, Saved
<1>4. Finite'
  BY DEF Accept, store, TypeInv, Finite
<1>5. Fresh'
  BY DEF WellFormed, Accept, Goto, FirstStep, store, Operations, FreshTest,
     FreshRun, Known, TypeInv, TypeOK, Fresh
<1> QED
  BY <1>1, <1>2, <1>3, <1>4, <1>5 DEF TypeInv

(* A client's request is well formed, and the call takes it.               *)
LEMMA RequestIsWellFormed ==
  ASSUME NEW c \in Calls, Request(c)
  PROVE  \E request : WellFormed(request) /\ Accept(c, request)
<1>1. CASE CallRegisterTest(c)
  <2>1. PICK rep \in Replicas, t \in Tests, category \in Categories :
          /\ FreshTest(t)
          /\ Accept(c, [NoRequest(rep) EXCEPT !.op = "register_test",
                                        !.test = t, !.category = category])
    BY <1>1, Zenon DEF CallRegisterTest
  <2>2. WellFormed([NoRequest(rep) EXCEPT !.op = "register_test",
                                    !.test = t, !.category = category])
    BY <2>1 DEF WellFormed, NoRequest, Requests, DimensionSet, Operations,
       Lifecycle
  <2> QED
    BY <2>1, <2>2
<1>2. CASE CallStartRun(c)
  <2>1. PICK rep \in Replicas, r \in Runs :
          /\ FreshRun(r)
          /\ Accept(c, [NoRequest(rep) EXCEPT !.op = "start_run", !.run = r])
    BY <1>2, Zenon DEF CallStartRun
  <2>2. WellFormed([NoRequest(rep) EXCEPT !.op = "start_run", !.run = r])
    BY <2>1 DEF WellFormed, NoRequest, Requests, DimensionSet, Operations,
       Lifecycle
  <2> QED
    BY <2>1, <2>2
<1>3. CASE CallOnRun(c)
  <2>1. PICK rep \in Replicas, r \in Runs \cup {Unknown},
             op \in Ops \ {"register_test", "start_run", "submit_result"} :
          /\ r # Unknown => Known(r)
          /\ OneDriver /\ op \in Lifecycle => \A d \in Calls : ~Driving(d, r)
          /\ Accept(c, [NoRequest(rep) EXCEPT !.op = op, !.run = r])
    BY <1>3, Zenon DEF CallOnRun
  <2>2. op \in Operations
    BY ConstantsAssumption
  <2>3. WellFormed([NoRequest(rep) EXCEPT !.op = op, !.run = r])
    BY <2>1, <2>2 DEF WellFormed, NoRequest, Requests, DimensionSet
  <2> QED
    BY <2>1, <2>3
<1>4. CASE CallSubmitResult(c)
  <2>1. PICK rep \in Replicas, r \in Runs \cup {Unknown},
             t \in Tests \cup {Unknown}, passed \in BOOLEAN :
          /\ r # Unknown => Known(r)
          /\ t # Unknown => catalog[t] # Absent
          /\ OneDriver => \A d \in Calls : ~Driving(d, r)
          /\ Accept(c, [NoRequest(rep) EXCEPT !.op = "submit_result",
                           !.run = r, !.test = t, !.passed = passed])
    BY <1>4, Zenon DEF CallSubmitResult
  <2>2. WellFormed([NoRequest(rep) EXCEPT !.op = "submit_result",
                      !.run = r, !.test = t, !.passed = passed])
    BY <2>1 DEF WellFormed, NoRequest, Requests, DimensionSet, Operations
  <2> QED
    BY <2>1, <2>2
<1> QED
  BY <1>1, <1>2, <1>3, <1>4 DEF Request

LEMMA RequestKeepsTypeInv ==
  ASSUME TypeInv, NEW c \in Calls, Request(c)
  PROVE  TypeInv'
BY RequestIsWellFormed, AcceptKeepsTypeInv

(* An exception or a crash only ends calls: what is stored stays.          *)
LEMMA FaultKeepsTypeInv ==
  ASSUME TypeInv,
         \/ \E c \in Calls : Abort(c)
         \/ \E rep \in Replicas : Crash(rep)
  PROVE  TypeInv'
<1>1. ASSUME NEW c \in Calls, Abort(c) PROVE TypeInv'
  <2>1. TypeOK'
    BY <1>1 DEF Abort, Fail, Record, Audited, SocEvent, store, locals,
       SocEvents, SocTypes, Requests, TypeInv, TypeOK
  <2>2. OnPath' /\ Arguments' /\ Fresh'
    BY <1>1 DEF Abort, Fail, store, locals, TypeInv, TypeOK, OnPath,
       Arguments, Found, Saved, Fresh
  <2>3. Finite'
    BY <1>1 DEF Abort, store, locals, TypeInv, Finite
  <2> QED
    BY <2>1, <2>2, <2>3 DEF TypeInv
<1>2. ASSUME NEW rep \in Replicas, Crash(rep) PROVE TypeInv'
  <2>1. TypeOK'
    BY <1>2 DEF Crash, store, locals, TypeInv, TypeOK
  <2>2. OnPath' /\ Arguments' /\ Fresh'
    BY <1>2 DEF Crash, store, locals, TypeInv, TypeOK, OnPath, Arguments,
       Found, Saved, Fresh
  <2>3. Finite'
    BY <1>2 DEF Crash, store, locals, TypeInv, Finite
  <2> QED
    BY <2>1, <2>2, <2>3 DEF TypeInv
<1> QED
  BY <1>1, <1>2

(* The sets TypeInv speaks of have members for the calls nobody has made,  *)
(* on some replica.                                                        *)
LEMMA InitTypeInv ==
  ASSUME Init, Replicas # {} PROVE TypeInv
<1>1. (CHOOSE rep \in Replicas : TRUE) \in Replicas
  OBVIOUS
<1>2. TypeOK
  BY <1>1 DEF Init, TypeOK, Requests, NoRequest, DimensionSet
<1>3. OnPath /\ Arguments /\ Fresh
  BY DEF Init, OnPath, Arguments, Found, Saved, Fresh
<1>4. Finite
  BY FS_EmptySet DEF Init, Finite
<1> QED
  BY <1>2, <1>3, <1>4 DEF TypeInv

LEMMA NextKeepsTypeInv ==
  ASSUME TypeInv, [Next]_vars PROVE TypeInv'
<1>1. CASE UNCHANGED vars
  BY <1>1 DEF vars, TypeInv, TypeOK, OnPath, Arguments, Fresh, Finite, Found,
     Saved
<1>2. CASE Next
  BY <1>1, <1>2, StepKeepsTypeInv, RequestKeepsTypeInv, FaultKeepsTypeInv
     DEF Next, Quiet
<1> QED
  BY <1>1, <1>2

(* Every row, event, argument and label stays in its type, in every        *)
(* interleaving of the calls and whatever fails (the store's tables,       *)
(* store.py; the domain events, bench_events.py).                          *)
THEOREM TypeInvariant == Spec => []TypeInv
<1>1. Init => TypeInv
  BY InitTypeInv, ConstantsAssumption
<1>2. TypeInv /\ [Next]_vars => TypeInv'
  BY NextKeepsTypeInv
<1> QED
  BY <1>1, <1>2, PTL DEF Spec

THEOREM TypeCorrect == Spec => []TypeOK
  BY TypeInvariant, PTL DEF TypeInv
=============================================================================
