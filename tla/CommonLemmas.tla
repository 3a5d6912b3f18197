---------------------------- MODULE CommonLemmas ----------------------------
(***************************************************************************)
(* Lemmas about data that more than one component's proofs rest on: sums   *)
(* over finite sets (SUM in a guarded INSERT, the capacity that is taken)  *)
(* and the rows of a user's ledger.                                        *)
(*                                                                         *)
(* The sum is proved about by least counterexample: the strict subsets of  *)
(* a finite set are well-founded (FS_StrictSubsetOrderingWellFounded), so  *)
(* a set of bad subsets has a least one (WFMin), which is the induction    *)
(* that can be stated without an operator for its hypothesis.              *)
(***************************************************************************)
EXTENDS LedgerRows, Sums, FiniteSetTheorems, WellFoundedInduction, TLAPS

-----------------------------------------------------------------------------
(* Sums over finite sets. *)

(* Induction over a finite set: if some subsets of S are bad, one of them  *)
(* is bad and stops being so whichever element it loses.                   *)
LEMMA MinimalBadSubset ==
    ASSUME NEW S, IsFiniteSet(S), NEW Bad \in SUBSET SUBSET S, Bad # {}
    PROVE  \E s \in Bad : \A x \in s : s \ {x} \notin Bad
<1>1. Bad \subseteq FiniteSubsetsOf(S)
    BY FS_Subset DEF FiniteSubsetsOf
<1>2. PICK s \in Bad : \A t \in Bad : <<t, s>> \notin StrictSubsetOrdering(S)
    BY <1>1, FS_StrictSubsetOrderingWellFounded, WFMin
<1>3. ASSUME NEW x \in s, s \ {x} \in Bad
      PROVE  FALSE
    BY <1>2, <1>3 DEF StrictSubsetOrdering
<1>. QED
    BY <1>3

(* What a recursive definition of the sum says of one subset. *)
FirstOf(s) == CHOOSE x \in s : TRUE
SumStep(g, f, s) == IF s = {} THEN 0 ELSE f[FirstOf(s)] + g[s \ {FirstOf(s)}]
IsSum(g, f, S) == g = [s \in SUBSET S |-> SumStep(g, f, s)]

LEMMA SumOverIsChoice ==
    ASSUME NEW f, NEW S
    PROVE  SumOver(f, S) = (CHOOSE g : IsSum(g, f, S))[S]
BY DEF SumOver, MapThenSumSet, MapThenFoldSet, IsSum, SumStep, FirstOf

LEMMA FirstOfIsMember ==
    ASSUME NEW s, s # {}
    PROVE  FirstOf(s) \in s
BY DEF FirstOf

(* There is such a function: its values on the subsets of at most n        *)
(* elements determine those on the subsets of n + 1.                       *)
LEMMA SumExists ==
    ASSUME NEW f, NEW S, IsFiniteSet(S)
    PROVE  \E g : IsSum(g, f, S)
<1> DEFINE
           Small(n) == {s \in SUBSET S : Cardinality(s) <= n}
           Good(n) == \E g : /\ g = [s \in SUBSET S |-> g[s]]
                             /\ \A s \in Small(n) : g[s] = SumStep(g, f, s)
           Bad == {n \in Nat : ~Good(n)}
           LessThan == {ss \in Nat \X Nat : ss[1] < ss[2]}
<1>1. \A s \in SUBSET S : IsFiniteSet(s) /\ Cardinality(s) \in Nat
    BY FS_Subset, FS_CardinalityType
<1>2. Good(0)
    <2> DEFINE g == [s \in SUBSET S |-> 0]
    <2>1. \A s \in Small(0) : s = {}
        BY <1>1, FS_EmptySet
    <2>2. \A s \in Small(0) : g[s] = SumStep(g, f, s)
        BY <2>1 DEF SumStep
    <2>3. g = [s \in SUBSET S |-> g[s]]
        OBVIOUS
    <2> HIDE DEF g
    <2>. QED
        BY <2>2, <2>3
<1>3. ASSUME NEW n \in Nat, Good(n)
      PROVE  Good(n + 1)
    <2>1. PICK g : /\ g = [s \in SUBSET S |-> g[s]]
                   /\ \A s \in Small(n) : g[s] = SumStep(g, f, s)
        BY <1>3
    <2> DEFINE h == [s \in SUBSET S |-> IF s \in Small(n) THEN g[s] ELSE SumStep(g, f, s)]
    <2>2. \A s \in SUBSET S : h[s] = IF s \in Small(n) THEN g[s] ELSE SumStep(g, f, s)
        OBVIOUS
    <2>3. h = [s \in SUBSET S |-> h[s]]
        OBVIOUS
    <2> HIDE DEF h
    <2>4. \A s \in Small(n + 1) : s # {} => s \ {FirstOf(s)} \in Small(n)
        <3> SUFFICES ASSUME NEW s \in Small(n + 1), s # {}
                     PROVE  s \ {FirstOf(s)} \in Small(n)
            OBVIOUS
        <3>1. Cardinality(s \ {FirstOf(s)}) = Cardinality(s) - 1
            BY <1>1, FirstOfIsMember, FS_RemoveElement
        <3>. QED
            BY <1>1, <3>1
    <2>5. ASSUME NEW s \in Small(n + 1)
          PROVE  h[s] = SumStep(h, f, s)
        <3>1. h[s] = SumStep(g, f, s)
            BY <2>1, <2>2
        <3>2. CASE s = {}
            BY <3>1, <3>2 DEF SumStep
        <3>3. CASE s # {}
            <4>1. s \ {FirstOf(s)} \in Small(n)
                BY <2>4, <3>3
            <4>2. h[s \ {FirstOf(s)}] = g[s \ {FirstOf(s)}]
                BY <2>2, <4>1
            <4>. QED
                BY <3>1, <3>3, <4>2 DEF SumStep
        <3>. QED
            BY <3>2, <3>3
    <2>. QED
        BY <2>3, <2>5
<1> HIDE DEF Good
<1>4. Bad = {}
    <2> SUFFICES ASSUME Bad # {}
                 PROVE  FALSE
        OBVIOUS
    <2>1. IsWellFoundedOn(LessThan, Nat)
        BY NatLessThanWellFounded DEF OpToRel
    <2>2. PICK n \in Bad : \A m \in Bad : <<m, n>> \notin LessThan
        <3> HIDE DEF LessThan
        <3>. QED
            BY <2>1, WFMin
    <2>3. n # 0 /\ n \in Nat
        BY <1>2
    <2>4. n - 1 \in Nat /\ n - 1 \notin Bad
        <3>1. n - 1 \in Nat /\ <<n - 1, n>> \in LessThan
            BY <2>3
        <3>. QED
            BY <2>2, <3>1
    <2>5. Good((n - 1) + 1)
        BY <1>3, <2>4
    <2>. QED
        BY <2>2, <2>3, <2>5
<1>5. Cardinality(S) \in Nat /\ Good(Cardinality(S))
    BY <1>1, <1>4
<1>6. PICK g : /\ g = [s \in SUBSET S |-> g[s]]
               /\ \A s \in Small(Cardinality(S)) : g[s] = SumStep(g, f, s)
    BY <1>5 DEF Good
<1>7. \A s \in SUBSET S : s \in Small(Cardinality(S))
    BY FS_Subset
<1>8. \A s \in SUBSET S : g[s] = SumStep(g, f, s)
    BY <1>6, <1>7
<1>. QED
    BY <1>6, <1>8 DEF IsSum

(* Two such functions agree on the subsets they share. *)
LEMMA SumUnique ==
    ASSUME NEW f, NEW S, IsFiniteSet(S), NEW T \in SUBSET S, NEW g, NEW h,
           IsSum(g, f, S), IsSum(h, f, T)
    PROVE  \A s \in SUBSET T : g[s] = h[s]
<1> DEFINE Bad == {s \in SUBSET T : g[s] # h[s]}
<1> SUFFICES ASSUME Bad # {}
             PROVE  FALSE
    OBVIOUS
<1>1. IsFiniteSet(T)
    BY FS_Subset
<1>2. PICK s \in Bad : \A x \in s : s \ {x} \notin Bad
    BY <1>1, MinimalBadSubset
<1>3. g[s] = SumStep(g, f, s) /\ h[s] = SumStep(h, f, s)
    BY DEF IsSum
<1>4. s # {}
    BY <1>3 DEF SumStep
<1>5. g[s \ {FirstOf(s)}] = h[s \ {FirstOf(s)}]
    BY <1>2, <1>4, FirstOfIsMember
<1>. QED
    BY <1>3, <1>4, <1>5 DEF SumStep

(* The sum over a subset, by the function of the whole set. *)
LEMMA SumOverSubset ==
    ASSUME NEW f, NEW S, IsFiniteSet(S), NEW g, IsSum(g, f, S), NEW T \in SUBSET S
    PROVE  SumOver(f, T) = g[T]
<1> DEFINE h == CHOOSE x : IsSum(x, f, T)
<1>1. IsSum(h, f, T)
    BY FS_Subset, SumExists
<1>2. SumOver(f, T) = h[T]
    BY SumOverIsChoice
<1> HIDE DEF h
<1>. QED
    BY <1>1, <1>2, SumUnique

(* The sum over nothing is 0. *)
LEMMA SumOverEmpty ==
    ASSUME NEW f
    PROVE  SumOver(f, {}) = 0
<1>1. PICK g : IsSum(g, f, {})
    BY SumExists, FS_EmptySet
<1>2. SumOver(f, {}) = g[{}]
    BY <1>1, SumOverSubset, FS_EmptySet
<1>. QED
    BY <1>1, <1>2 DEF IsSum, SumStep

(* A sum is one of its terms plus the sum of the others. *)
LEMMA SumOverFirst ==
    ASSUME NEW f, NEW S, IsFiniteSet(S), S # {}
    PROVE  SumOver(f, S) = f[FirstOf(S)] + SumOver(f, S \ {FirstOf(S)})
<1>1. PICK g : IsSum(g, f, S)
    BY SumExists
<1>2. SumOver(f, S) = g[S] /\ SumOver(f, S \ {FirstOf(S)}) = g[S \ {FirstOf(S)}]
    BY <1>1, SumOverSubset
<1>. QED
    BY <1>1, <1>2 DEF IsSum, SumStep

(* A sum of integers is an integer. *)
LEMMA SumOverInt ==
    ASSUME NEW f, NEW S, IsFiniteSet(S), \A x \in S : f[x] \in Int
    PROVE  SumOver(f, S) \in Int
<1> DEFINE Bad == {s \in SUBSET S : SumOver(f, s) \notin Int}
<1> SUFFICES ASSUME Bad # {}
             PROVE  FALSE
    OBVIOUS
<1>1. PICK s \in Bad : \A x \in s : s \ {x} \notin Bad
    BY MinimalBadSubset
<1>2. s # {} /\ IsFiniteSet(s)
    <2>1. SumOver(f, {}) \in Int
        BY SumOverEmpty
    <2>. QED
        BY <2>1, FS_Subset
<1>3. FirstOf(s) \in s
    BY <1>2, FirstOfIsMember
<1>4. SumOver(f, s \ {FirstOf(s)}) \in Int
    BY <1>1, <1>3
<1>5. SumOver(f, s) = f[FirstOf(s)] + SumOver(f, s \ {FirstOf(s)})
    BY <1>2, SumOverFirst
<1>. QED
    BY <1>3, <1>4, <1>5

(* ... whichever term is taken out. *)
LEMMA SumOverRemove ==
    ASSUME NEW f, NEW S, IsFiniteSet(S), \A x \in S : f[x] \in Int, NEW e \in S
    PROVE  SumOver(f, S) = f[e] + SumOver(f, S \ {e})
<1> DEFINE Bad == {s \in SUBSET S : \E x \in s : SumOver(f, s) # f[x] + SumOver(f, s \ {x})}
<1> SUFFICES ASSUME Bad # {}
             PROVE  FALSE
    OBVIOUS
<1>1. PICK s \in Bad : \A x \in s : s \ {x} \notin Bad
    BY MinimalBadSubset
<1>2. PICK x \in s : SumOver(f, s) # f[x] + SumOver(f, s \ {x})
    BY <1>1
<1> DEFINE c == FirstOf(s)
           others == s \ {c, x}
<1>3. s \in SUBSET S /\ IsFiniteSet(s)
    BY FS_Subset
<1>4. c \in s /\ SumOver(f, s) = f[c] + SumOver(f, s \ {c})
    BY <1>2, <1>3, FirstOfIsMember, SumOverFirst
<1> HIDE DEF c
<1>5. c # x
    BY <1>2, <1>4
<1>6. SumOver(f, s \ {c}) = f[x] + SumOver(f, others)
    <2>1. s \ {c} \in SUBSET S /\ s \ {c} \notin Bad /\ x \in s \ {c}
        BY <1>1, <1>3, <1>4, <1>5
    <2>2. (s \ {c}) \ {x} = others
        OBVIOUS
    <2>. QED
        BY <2>1, <2>2
<1>7. SumOver(f, s \ {x}) = f[c] + SumOver(f, others)
    <2>1. s \ {x} \in SUBSET S /\ s \ {x} \notin Bad /\ c \in s \ {x}
        BY <1>1, <1>3, <1>4, <1>5
    <2>2. (s \ {x}) \ {c} = others
        OBVIOUS
    <2>. QED
        BY <2>1, <2>2
<1>8. f[c] \in Int /\ f[x] \in Int /\ SumOver(f, others) \in Int
    <2>1. others \in SUBSET S /\ IsFiniteSet(others)
        BY <1>3, FS_Subset
    <2>. QED
        BY <1>3, <1>4, <2>1, SumOverInt
<1> HIDE DEF others
<1>. QED
    BY <1>2, <1>4, <1>6, <1>7, <1>8

(* One more term. *)
LEMMA SumOverAdd ==
    ASSUME NEW f, NEW S, IsFiniteSet(S), NEW e, e \notin S, \A x \in S \union {e} : f[x] \in Int
    PROVE  SumOver(f, S \union {e}) = SumOver(f, S) + f[e]
<1>1. IsFiniteSet(S \union {e}) /\ (S \union {e}) \ {e} = S
    BY FS_AddElement
<1>2. SumOver(f, S \union {e}) = f[e] + SumOver(f, S)
    BY <1>1, SumOverRemove
<1>3. SumOver(f, S) \in Int /\ f[e] \in Int
    BY SumOverInt
<1>. QED
    BY <1>2, <1>3

(* Terms that agree sum to the same. *)
LEMMA SumOverAgree ==
    ASSUME NEW f, NEW g, NEW S, IsFiniteSet(S), \A x \in S : f[x] = g[x]
    PROVE  SumOver(f, S) = SumOver(g, S)
<1> DEFINE Bad == {s \in SUBSET S : SumOver(f, s) # SumOver(g, s)}
<1> SUFFICES ASSUME Bad # {}
             PROVE  FALSE
    OBVIOUS
<1>1. PICK s \in Bad : \A x \in s : s \ {x} \notin Bad
    BY MinimalBadSubset
<1>2. s # {} /\ IsFiniteSet(s)
    BY SumOverEmpty, FS_Subset
<1>3. FirstOf(s) \in s
    BY <1>2, FirstOfIsMember
<1>4. /\ SumOver(f, s) = f[FirstOf(s)] + SumOver(f, s \ {FirstOf(s)})
      /\ SumOver(g, s) = g[FirstOf(s)] + SumOver(g, s \ {FirstOf(s)})
    BY <1>2, SumOverFirst
<1>5. SumOver(f, s \ {FirstOf(s)}) = SumOver(g, s \ {FirstOf(s)})
    BY <1>1, <1>3
<1>. QED
    BY <1>1, <1>3, <1>4, <1>5

(* Fewer terms, none of them negative, sum to no more. *)
LEMMA SumOverMonotone ==
    ASSUME NEW f, NEW S, IsFiniteSet(S), NEW T \in SUBSET S, \A x \in S : f[x] \in Nat
    PROVE  SumOver(f, T) <= SumOver(f, S)
<1> DEFINE Bad == {s \in SUBSET S : T \subseteq s /\ ~(SumOver(f, T) <= SumOver(f, s))}
<1> SUFFICES ASSUME Bad # {}
             PROVE  FALSE
    OBVIOUS
<1>1. PICK s \in Bad : \A x \in s : s \ {x} \notin Bad
    <2>1. Bad \in SUBSET SUBSET S
        OBVIOUS
    <2> HIDE DEF Bad
    <2>. QED
        BY <2>1, MinimalBadSubset
<1>2. /\ s \in SUBSET S /\ IsFiniteSet(s) /\ T \subseteq s
      /\ SumOver(f, T) \in Int /\ SumOver(f, s) \in Int
    BY FS_Subset, SumOverInt
<1>3. PICK e \in s : e \notin T
    BY <1>1, <1>2
<1>4. SumOver(f, s) = f[e] + SumOver(f, s \ {e})
    BY <1>2, SumOverRemove
<1>5. s \ {e} \in SUBSET S /\ IsFiniteSet(s \ {e}) /\ SumOver(f, s \ {e}) \in Int
    BY <1>2, FS_Subset, SumOverInt
<1>6. SumOver(f, T) <= SumOver(f, s \ {e})
    BY <1>1, <1>2, <1>3, <1>5
<1>. QED
    BY <1>1, <1>2, <1>4, <1>5, <1>6

(* A part of the terms, with the values they had, sums to no more.         *)
LEMMA SumOverShrinks ==
    ASSUME NEW f, NEW g, NEW S, IsFiniteSet(S), NEW T \in SUBSET S,
           \A x \in S : f[x] \in Nat, \A x \in T : g[x] = f[x]
    PROVE  /\ SumOver(g, T) <= SumOver(f, S)
           /\ SumOver(g, T) \in Int
           /\ SumOver(f, S) \in Int
<1>1. IsFiniteSet(T)
    BY FS_Subset
<1>2. SumOver(g, T) = SumOver(f, T)
    BY <1>1, SumOverAgree
<1>3. SumOver(f, T) <= SumOver(f, S)
    BY SumOverMonotone
<1>4. SumOver(f, T) \in Int /\ SumOver(f, S) \in Int
    BY <1>1, SumOverInt
<1>. QED
    BY <1>2, <1>3, <1>4

(* One new term, beside terms that keep their values or are dropped, adds  *)
(* no more than its own value.                                             *)
LEMMA SumOverGrows ==
    ASSUME NEW f, NEW g, NEW S, IsFiniteSet(S), NEW e, e \notin S,
           NEW T \in SUBSET (S \union {e}),
           \A x \in S : f[x] \in Nat, \A x \in S : g[x] = f[x], g[e] \in Nat
    PROVE  /\ SumOver(g, T) <= SumOver(f, S) + g[e]
           /\ SumOver(g, T) \in Int
           /\ SumOver(f, S) \in Int
<1>1. IsFiniteSet(S \union {e}) /\ \A x \in S \union {e} : g[x] \in Nat
    BY FS_AddElement
<1>2. SumOver(g, T) <= SumOver(g, S \union {e}) /\ SumOver(g, T) \in Int
    BY <1>1, SumOverShrinks
<1>3. SumOver(g, S \union {e}) = SumOver(g, S) + g[e]
    BY <1>1, SumOverAdd
<1>4. SumOver(g, S) = SumOver(f, S) /\ SumOver(f, S) \in Int
    BY SumOverAgree, SumOverInt
<1>. QED
    BY <1>2, <1>3, <1>4

-----------------------------------------------------------------------------
(* The rows of a ledger. *)

(* One row is appended to a user's ledger: the rows found under any        *)
(* reference are the ones found before, and the new row under its own.     *)
LEMMA RowsAfterAppend ==
    ASSUME NEW ids, NEW rows \in Seq(LedgerRowOf(ids)), NEW row \in LedgerRowOf(ids),
           NEW type, NEW id
    PROVE  /\ RowsWith(Append(rows, row), type, id) =
                IF row.reference_type = type /\ row.reference_id = id
                THEN RowsWith(rows, type, id) \union {Len(rows) + 1}
                ELSE RowsWith(rows, type, id)
           /\ Len(rows) + 1 \notin RowsWith(rows, type, id)
<1> DEFINE new == Append(rows, row)
<1>1. /\ Len(new) = Len(rows) + 1
      /\ Len(rows) \in Nat
      /\ new[Len(rows) + 1] = row
      /\ \A i \in 1..Len(rows) : new[i] = rows[i]
    OBVIOUS
<1> HIDE DEF new
<1>2. RowsWith(new, type, id) =
        {i \in 1..(Len(rows) + 1) : new[i].reference_type = type /\ new[i].reference_id = id}
    BY <1>1 DEF RowsWith
<1>3. RowsWith(new, type, id) =
        IF row.reference_type = type /\ row.reference_id = id
        THEN RowsWith(rows, type, id) \union {Len(rows) + 1}
        ELSE RowsWith(rows, type, id)
    BY <1>1, <1>2 DEF RowsWith
<1>4. Len(rows) + 1 \notin RowsWith(rows, type, id)
    BY <1>1 DEF RowsWith
<1>. QED
    BY <1>3, <1>4 DEF new

(* A row that moves the balance by its signed amount keeps the chain, when *)
(* the new balance is not negative.                                        *)
LEMMA ChainedAfterAppend ==
    ASSUME NEW ids, NEW rows \in Seq(LedgerRowOf(ids)), NEW row \in LedgerRowOf(ids),
           NEW balance \in Nat, Chained(balance, rows),
           row.balance_after = balance + SignedAmount(row), row.balance_after \in Nat
    PROVE  Chained(row.balance_after, Append(rows, row))
<1> DEFINE new == Append(rows, row)
<1>1. /\ balance = LastBalance(rows)
      /\ \A i \in 1..Len(rows) :
           /\ rows[i].balance_after = BalanceBefore(rows, i) + SignedAmount(rows[i])
           /\ rows[i].balance_after >= 0
    BY DEF Chained
<1>2. /\ Len(new) = Len(rows) + 1
      /\ Len(rows) \in Nat
      /\ new[Len(rows) + 1] = row
      /\ \A i \in 1..Len(rows) : new[i] = rows[i]
    OBVIOUS
<1> HIDE DEF new
<1>3. LastBalance(new) = row.balance_after
    BY <1>2 DEF LastBalance, BalanceBefore
<1>4. BalanceBefore(new, Len(rows) + 1) = LastBalance(rows)
    BY <1>2 DEF LastBalance, BalanceBefore
<1>5. \A i \in 1..Len(rows) : BalanceBefore(new, i) = BalanceBefore(rows, i)
    BY <1>2 DEF BalanceBefore
<1>6. ASSUME NEW i \in 1..Len(new)
      PROVE  /\ new[i].balance_after = BalanceBefore(new, i) + SignedAmount(new[i])
             /\ new[i].balance_after >= 0
    <2>1. CASE i \in 1..Len(rows)
        BY <1>1, <1>2, <1>5, <2>1
    <2>2. CASE i = Len(rows) + 1
        BY <1>1, <1>2, <1>4, <2>2
    <2>. QED
        BY <1>2, <2>1, <2>2
<1>7. Chained(row.balance_after, new)
    BY <1>3, <1>6 DEF Chained
<1>. QED
    BY <1>7 DEF new

(* An opening balance is one credit, under no modelled caller's reference. *)
LEMMA OpeningRowsLemma ==
    ASSUME NEW ids, NEW id \in ids, NEW balance \in Nat
    PROVE  /\ OpeningRows(balance, id) \in Seq(LedgerRowOf(ids))
           /\ Chained(balance, OpeningRows(balance, id))
           /\ \A type \in ReferenceTypes \ {"opening"} : \A i :
                RowsWith(OpeningRows(balance, id), type, i) = {}
<1> DEFINE row == LedgerEntry("credit", balance, balance, "opening", id)
           rows == OpeningRows(balance, id)
<1>1. CASE balance = 0
    <2>1. rows = <<>>
        BY <1>1 DEF OpeningRows
    <2> HIDE DEF rows
    <2>2. Chained(balance, rows)
        BY <1>1, <2>1 DEF Chained, LastBalance, BalanceBefore
    <2>3. \A type, i : RowsWith(rows, type, i) = {}
        BY <2>1 DEF RowsWith
    <2>. QED
        BY <2>1, <2>2, <2>3 DEF rows
<1>2. CASE balance # 0
    <2>1. rows = <<row>>
        BY <1>2 DEF OpeningRows
    <2>2. /\ row.reference_type = "opening"
          /\ row.balance_after = balance
          /\ SignedAmount(row) = balance
        BY DEF LedgerEntry, SignedAmount
    <2>3. row \in LedgerRowOf(ids)
        <3>1. balance \in Nat \ {0} /\ balance \in Int
            BY <1>2
        <3>. QED
            BY <3>1 DEF LedgerEntry, LedgerRowOf, EntryTypes, ReferenceTypes
    <2> HIDE DEF row, rows
    <2>4. Len(rows) = 1 /\ rows[1] = row /\ rows \in Seq(LedgerRowOf(ids))
        BY <2>1, <2>3
    <2>5. Chained(balance, rows)
        BY <2>2, <2>4 DEF Chained, LastBalance, BalanceBefore
    <2>6. \A type \in ReferenceTypes \ {"opening"} : \A i : RowsWith(rows, type, i) = {}
        BY <2>2, <2>4 DEF RowsWith
    <2>. QED
        BY <2>4, <2>5, <2>6 DEF rows
<1>. QED
    BY <1>1, <1>2
=============================================================================
