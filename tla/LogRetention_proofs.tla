--------------------------- MODULE LogRetention_proofs ---------------------------
(***************************************************************************)
(* Theorems about LogRetention, for any number of processes, projects,     *)
(* rows, policies and crashes: sweeps follow a policy that was in force,   *)
(* and listings lose nothing.                                              *)
(***************************************************************************)
EXTENDS LogRetention, FiniteSetTheorems, NaturalsInduction, WellFoundedInduction,
        SequenceTheorems, TLAPS

-----------------------------------------------------------------------------
(* Sums of sizes *)

\* A set of numbers that is not empty has a least one.
LEMMA LeastNumber ==
    ASSUME NEW S \in SUBSET Nat, S # {}
    PROVE  \E n \in S : n - 1 \notin S /\ \A k \in S : n <= k
<1> DEFINE less == OpToRel(<, Nat)
<1>1. IsWellFoundedOn(less, Nat)
  BY NatLessThanWellFounded
<1>2. \A i, j \in Nat : i < j => <<i, j>> \in less
  BY DEF OpToRel
<1> HIDE DEF less
<1>3. PICK n \in S : \A k \in S : ~(<<k, n>> \in less)
  BY <1>1, WFMin
<1>4. ASSUME NEW k \in S PROVE n <= k
  <2>1. k \in Nat /\ n \in Nat
    OBVIOUS
  <2>2. ~(k < n)
    BY <1>2, <1>3, <2>1
  <2> QED
    BY <2>1, <2>2
<1>5. n \in Nat /\ ~(n <= n - 1)
  OBVIOUS
<1> QED
  BY <1>4, <1>5

Chosen(s) == CHOOSE x \in s : TRUE

\* What the recursive function of Bytes has to be, and the same for sets of n elements at
\* most.
Sums(g, U) ==
    g = [s \in SUBSET U |-> IF s = {} THEN 0 ELSE Chosen(s).size + g[s \ {Chosen(s)}]]

UpTo(U, n) == {s \in SUBSET U : Cardinality(s) <= n}

SumsUpTo(g, U, n) ==
    g = [s \in UpTo(U, n) |-> IF s = {} THEN 0 ELSE Chosen(s).size + g[s \ {Chosen(s)}]]

LEMMA BytesChooses ==
    ASSUME NEW S
    PROVE  Bytes(S) = (CHOOSE g : Sums(g, S))[S]
BY DEF Bytes, MapThenSumSet, MapThenFoldSet, Sums, Chosen

\* A set without the element that is chosen from it is smaller by one.
LEMMA Smaller ==
    ASSUME NEW U, IsFiniteSet(U), NEW s \in SUBSET U, s # {}
    PROVE  /\ Chosen(s) \in s
           /\ s \ {Chosen(s)} \in SUBSET U
           /\ Cardinality(s) \in Nat \ {0}
           /\ Cardinality(s \ {Chosen(s)}) = Cardinality(s) - 1
<1>1. Chosen(s) \in s
  BY DEF Chosen
<1>2. IsFiniteSet(s) /\ Cardinality(s) \in Nat /\ Cardinality(s) # 0
  BY FS_Subset, FS_CardinalityType, FS_EmptySet
<1> QED
  BY <1>1, <1>2, FS_RemoveElement

LEMMA SumsUpToExists ==
    ASSUME NEW U, IsFiniteSet(U), NEW n \in Nat
    PROVE  \E g : SumsUpTo(g, U, n)
<1> DEFINE Bad == {k \in Nat : ~\E g : SumsUpTo(g, U, k)}
<1> SUFFICES ASSUME Bad # {} PROVE FALSE
  OBVIOUS
<1>1. PICK m \in Bad : \A k \in Bad : m <= k
  BY LeastNumber
<1>2. m # 0
  <2> DEFINE zero == [s \in UpTo(U, 0) |-> 0]
  <2>1. \A s \in UpTo(U, 0) : s = {}
    <3> SUFFICES ASSUME NEW s \in UpTo(U, 0), s # {} PROVE FALSE
      OBVIOUS
    <3>1. s \in SUBSET U /\ Cardinality(s) <= 0
      BY DEF UpTo
    <3>2. Cardinality(s) \in Nat \ {0}
      BY <3>1, Smaller
    <3> QED
      BY <3>1, <3>2
  <2>2. SumsUpTo(zero, U, 0)
    BY <2>1 DEF SumsUpTo
  <2> QED
    BY <2>2
<1>3. PICK g : SumsUpTo(g, U, m - 1)
  BY <1>1, <1>2
<1> DEFINE h == [s \in UpTo(U, m) |-> IF s = {} THEN 0 ELSE Chosen(s).size + g[s \ {Chosen(s)}]]
<1>4. ASSUME NEW s \in UpTo(U, m), s # {}
      PROVE  s \ {Chosen(s)} \in UpTo(U, m - 1) /\ s \ {Chosen(s)} \in UpTo(U, m)
  <2>1. s \in SUBSET U /\ Cardinality(s) <= m
    BY DEF UpTo
  <2> QED
    BY <1>4, <2>1, Smaller DEF UpTo
<1>5. ASSUME NEW s \in UpTo(U, m - 1) PROVE s \in UpTo(U, m) /\ h[s] = g[s]
  <2>1. s \in SUBSET U /\ Cardinality(s) <= m - 1 /\ IsFiniteSet(s) /\ Cardinality(s) \in Nat
    BY FS_Subset, FS_CardinalityType DEF UpTo
  <2>2. s \in UpTo(U, m)
    BY <2>1 DEF UpTo
  <2>3. g[s] = IF s = {} THEN 0 ELSE Chosen(s).size + g[s \ {Chosen(s)}]
    BY <1>3 DEF SumsUpTo
  <2> QED
    BY <2>2, <2>3
<1>6. ASSUME NEW s \in UpTo(U, m), s # {}
      PROVE  h[s] = Chosen(s).size + h[s \ {Chosen(s)}]
  BY <1>4, <1>5, <1>6
<1>7. h = [s \in UpTo(U, m) |-> IF s = {} THEN 0 ELSE Chosen(s).size + h[s \ {Chosen(s)}]]
  <2> DEFINE f == [s \in UpTo(U, m) |-> IF s = {} THEN 0 ELSE Chosen(s).size + h[s \ {Chosen(s)}]]
  <2>1. \A s \in UpTo(U, m) : h[s] = f[s]
    BY <1>6
  <2>2. h = [s \in UpTo(U, m) |-> h[s]]
    OBVIOUS
  <2>3. f = [s \in UpTo(U, m) |-> f[s]]
    OBVIOUS
  <2> HIDE DEF f, h
  <2>4. h = f
    BY <2>1, <2>2, <2>3
  <2> QED
    BY <2>4 DEF f
<1> HIDE DEF h
<1>8. SumsUpTo(h, U, m)
  BY <1>7 DEF SumsUpTo
<1> QED
  BY <1>8

LEMMA SumsExist ==
    ASSUME NEW U, IsFiniteSet(U)
    PROVE  \E g : Sums(g, U)
<1>1. Cardinality(U) \in Nat
  BY FS_CardinalityType
<1>2. UpTo(U, Cardinality(U)) = SUBSET U
  BY FS_Subset DEF UpTo
<1>3. PICK g : SumsUpTo(g, U, Cardinality(U))
  BY <1>1, SumsUpToExists
<1> QED
  BY <1>2, <1>3 DEF Sums, SumsUpTo

\* Sums over a set and over one of its subsets agree where both are.
LEMMA SumsAgree ==
    ASSUME NEW U, IsFiniteSet(U), NEW T \in SUBSET U, NEW g, NEW h, Sums(g, U), Sums(h, T)
    PROVE  \A s \in SUBSET T : g[s] = h[s]
<1> DEFINE Bad == {k \in Nat : \E s \in SUBSET T : Cardinality(s) = k /\ g[s] # h[s]}
<1>1. \A s \in SUBSET T : s \in SUBSET U /\ IsFiniteSet(s) /\ Cardinality(s) \in Nat
  BY FS_Subset, FS_CardinalityType
<1> SUFFICES ASSUME Bad # {} PROVE FALSE
  BY <1>1
<1>2. PICK m \in Bad : \A k \in Bad : m <= k
  BY LeastNumber
<1>3. PICK s \in SUBSET T : Cardinality(s) = m /\ g[s] # h[s]
  BY <1>2
<1>4. s # {}
  BY <1>1, <1>3 DEF Sums
<1>5. PICK t : t = s \ {Chosen(s)}
  OBVIOUS
<1>6. t \in SUBSET T /\ Cardinality(t) = m - 1 /\ m \in Nat \ {0}
  BY <1>1, <1>3, <1>4, <1>5, Smaller
<1>7. g[t] = h[t]
  BY <1>2, <1>6
<1>8. g[s] = Chosen(s).size + g[t] /\ h[s] = Chosen(s).size + h[t]
  BY <1>1, <1>4, <1>5 DEF Sums
<1> QED
  BY <1>3, <1>7, <1>8

\* One function has the bytes of every subset of a finite set.
LEMMA BytesAre ==
    ASSUME NEW U, IsFiniteSet(U)
    PROVE  \E g : Sums(g, U) /\ \A s \in SUBSET U : Bytes(s) = g[s]
<1>1. PICK g : Sums(g, U)
  BY SumsExist
<1>2. ASSUME NEW s \in SUBSET U PROVE Bytes(s) = g[s]
  <2>1. IsFiniteSet(s)
    BY FS_Subset
  <2>2. PICK h : h = CHOOSE f : Sums(f, s)
    OBVIOUS
  <2>3. Sums(h, s)
    BY <2>1, <2>2, SumsExist
  <2>4. g[s] = h[s]
    BY <1>1, <2>3, SumsAgree
  <2> QED
    BY <2>2, <2>4, BytesChooses
<1> QED
  BY <1>1, <1>2

Sized(U) == \A row \in U : row.size \in Nat

LEMMA BytesNat ==
    ASSUME NEW U, IsFiniteSet(U), Sized(U)
    PROVE  Bytes({}) = 0 /\ \A s \in SUBSET U : Bytes(s) \in Nat
<1>1. PICK g : Sums(g, U) /\ \A s \in SUBSET U : Bytes(s) = g[s]
  BY BytesAre
<1> DEFINE Bad == {k \in Nat : \E s \in SUBSET U : Cardinality(s) = k /\ g[s] \notin Nat}
<1>2. \A s \in SUBSET U : IsFiniteSet(s) /\ Cardinality(s) \in Nat
  BY FS_Subset, FS_CardinalityType
<1>3. Bytes({}) = 0
  BY <1>1 DEF Sums
<1> SUFFICES ASSUME Bad # {} PROVE FALSE
  BY <1>1, <1>2, <1>3
<1>4. PICK m \in Bad : \A k \in Bad : m <= k
  BY LeastNumber
<1>5. PICK s \in SUBSET U : Cardinality(s) = m /\ g[s] \notin Nat
  BY <1>4
<1>6. s # {}
  BY <1>1, <1>5 DEF Sums
<1>7. PICK t : t = s \ {Chosen(s)}
  OBVIOUS
<1>8. t \in SUBSET U /\ Cardinality(t) = m - 1 /\ m \in Nat \ {0} /\ Chosen(s) \in U
  BY <1>5, <1>6, <1>7, Smaller
<1>9. g[t] \in Nat /\ Chosen(s).size \in Nat
  BY <1>4, <1>8 DEF Sized
<1>10. g[s] = Chosen(s).size + g[t]
  BY <1>1, <1>6, <1>7 DEF Sums
<1> QED
  BY <1>5, <1>9, <1>10

\* It does not matter in which order sizes are added up.
LEMMA BytesAddOne ==
    ASSUME NEW U, IsFiniteSet(U), Sized(U), NEW s \in SUBSET U, NEW x \in U, x \notin s
    PROVE  Bytes(s \cup {x}) = Bytes(s) + x.size
<1>1. PICK g : Sums(g, U) /\ \A t \in SUBSET U : Bytes(t) = g[t]
  BY BytesAre
<1>2. \A t \in SUBSET U : g[t] \in Nat
  BY <1>1, BytesNat
<1> DEFINE Wrong(t, y) == y \notin t /\ g[t \cup {y}] # g[t] + y.size
<1> DEFINE Bad == {k \in Nat : \E t \in SUBSET U, y \in U : Cardinality(t) = k /\ Wrong(t, y)}
<1>3. \A t \in SUBSET U : IsFiniteSet(t) /\ Cardinality(t) \in Nat
  BY FS_Subset, FS_CardinalityType
<1>4. Bad = {}
  <2> SUFFICES ASSUME Bad # {} PROVE FALSE
    OBVIOUS
  <2>1. PICK m \in Bad : m - 1 \notin Bad
    BY LeastNumber
  <2>2. PICK t \in SUBSET U, y \in U : Cardinality(t) = m /\ Wrong(t, y)
    BY <2>1
  <2>3. PICK z : z = Chosen(t \cup {y})
    OBVIOUS
  <2>4. z \in t \cup {y} /\ t \cup {y} \in SUBSET U /\ z \in U
    BY <2>3 DEF Chosen
  <2>5. g[t \cup {y}] = z.size + g[(t \cup {y}) \ {z}]
    BY <1>1, <2>3, <2>4 DEF Sums
  <2>6. \A w \in U : w.size \in Nat
    BY DEF Sized
  <2>7. CASE z = y
    <3>1. (t \cup {y}) \ {z} = t
      BY <2>2, <2>7
    <3>2. g[t \cup {y}] = y.size + g[t]
      BY <2>5, <2>7, <3>1
    <3>3. g[t] \in Nat /\ y.size \in Nat
      BY <1>2, <2>6
    <3> QED
      BY <2>2, <3>2, <3>3
  <2>8. CASE z # y
    <3>1. PICK r : r = t \ {z}
      OBVIOUS
    <3>2. /\ z \in t /\ z \notin r /\ y \notin r /\ r \in SUBSET U
          /\ (t \cup {y}) \ {z} = r \cup {y}
          /\ r \cup {z} = t
      BY <2>2, <2>4, <2>8, <3>1
    <3>3. Cardinality(r) = m - 1 /\ m \in Nat
      BY <1>3, <2>2, <3>1, <3>2, FS_RemoveElement
    <3>4. m - 1 \in Nat
      BY <1>3, <3>2, <3>3
    <3>5. \A w \in U : ~Wrong(r, w)
      BY <2>1, <3>2, <3>3, <3>4
    <3>6. g[r \cup {y}] = g[r] + y.size
      BY <3>2, <3>5
    <3>7. g[r \cup {z}] = g[r] + z.size
      BY <2>4, <3>2, <3>5
    <3>8. g[r] \in Nat /\ y.size \in Nat /\ z.size \in Nat
      BY <1>2, <2>4, <2>6, <3>2
    <3>9. g[t \cup {y}] = z.size + (g[r] + y.size)
      BY <2>5, <3>2, <3>6
    <3>10. g[t] = g[r] + z.size
      BY <3>2, <3>7
    <3>11. g[t \cup {y}] = g[t] + y.size
      BY <3>8, <3>9, <3>10
    <3> QED
      BY <2>2, <3>11
  <2> QED
    BY <2>7, <2>8
<1>5. ~Wrong(s, x)
  BY <1>3, <1>4
<1>6. s \cup {x} \in SUBSET U
  OBVIOUS
<1> QED
  BY <1>1, <1>5, <1>6

\* The bytes of two sets of rows that have none in common.
LEMMA BytesAddUp ==
    ASSUME NEW U, IsFiniteSet(U), Sized(U), NEW S \in SUBSET U, NEW T \in SUBSET U,
           S \cap T = {}
    PROVE  Bytes(S \cup T) = Bytes(S) + Bytes(T)
<1>1. \A t \in SUBSET U : IsFiniteSet(t) /\ Cardinality(t) \in Nat /\ Bytes(t) \in Nat
  BY BytesNat, FS_Subset, FS_CardinalityType
<1> DEFINE Wrong(t) == S \cap t = {} /\ Bytes(S \cup t) # Bytes(S) + Bytes(t)
<1> DEFINE Bad == {k \in Nat : \E t \in SUBSET U : Cardinality(t) = k /\ Wrong(t)}
<1> SUFFICES ASSUME Bad # {} PROVE FALSE
  BY <1>1
<1>2. PICK m \in Bad : m - 1 \notin Bad
  BY LeastNumber
<1>3. PICK t \in SUBSET U : Cardinality(t) = m /\ Wrong(t)
  BY <1>2
<1>4. t # {}
  <2> SUFFICES ASSUME t = {} PROVE FALSE
    OBVIOUS
  <2>1. S \cup t = S /\ Bytes(t) = 0
    BY BytesNat
  <2> QED
    BY <1>1, <1>3, <2>1
<1>5. PICK z \in t : TRUE
  BY <1>4
<1>6. PICK r : r = t \ {z}
  OBVIOUS
<1>7. /\ r \in SUBSET U /\ z \in U /\ z \notin r /\ z \notin S \cup r /\ S \cap r = {}
      /\ t = r \cup {z} /\ S \cup t = (S \cup r) \cup {z} /\ S \cup r \in SUBSET U
  BY <1>3, <1>5, <1>6
<1>8. Cardinality(r) = m - 1 /\ m \in Nat /\ m - 1 \in Nat
  <2>1. IsFiniteSet(t) /\ Cardinality(r) \in Nat
    BY <1>1, <1>7
  <2>2. Cardinality(r) = Cardinality(t) - 1
    BY <1>5, <1>6, <2>1, FS_RemoveElement
  <2> QED
    BY <1>3, <2>1, <2>2
<1>9. Bytes(S \cup r) = Bytes(S) + Bytes(r)
  <2>1. ~Wrong(r)
    BY <1>2, <1>7, <1>8
  <2> QED
    BY <1>7, <2>1
<1>10. Bytes(S \cup t) = Bytes(S \cup r) + z.size
  BY <1>7, BytesAddOne
<1>11. Bytes(t) = Bytes(r) + z.size
  BY <1>7, BytesAddOne
<1>12. z.size \in Nat
  BY <1>7 DEF Sized
<1> QED
  BY <1>1, <1>3, <1>7, <1>9, <1>10, <1>11, <1>12

-----------------------------------------------------------------------------
(* The order in which rows are swept *)

\* Rows that log_seq identifies, with the columns that the queries read.
Distinct(S) == \A a, b \in S : a.seq = b.seq => a = b

LevelsAndTimes(S) ==
    \A row \in S :
        row.seq \in Nat /\ row.day \in Nat /\ row.level \in Levels /\ row.size \in Nat

Row(row) == row.seq \in Nat /\ row.day \in Nat /\ row.level \in Levels

LEMMA RankNat == \A level : Rank(level) \in Nat
BY DEF Rank

LEMMA BeforeTransitive ==
    ASSUME NEW a, NEW b, NEW c, Row(a), Row(b), Row(c), Before(a, b), Before(b, c)
    PROVE  Before(a, c)
<1>1. Rank(a.level) \in Nat /\ Rank(b.level) \in Nat /\ Rank(c.level) \in Nat
  BY RankNat
<1> QED
  BY <1>1 DEF Before, Row

LEMMA BeforeIrreflexive ==
    ASSUME NEW a, Row(a)
    PROVE  ~Before(a, a)
BY RankNat DEF Before, Row

LEMMA BeforeTotal ==
    ASSUME NEW a, NEW b, Row(a), Row(b), a.seq # b.seq
    PROVE  Before(a, b) \/ Before(b, a)
<1>1. Rank(a.level) \in Nat /\ Rank(b.level) \in Nat
  BY RankNat
<1> QED
  BY <1>1 DEF Before, Row

-----------------------------------------------------------------------------
(* A sweep takes what its policy promises *)

\* The candidates before a row, in the order of the second query.
Ahead(S, row) == {other \in QuotaCandidates(S) : Before(other, row)}

\* What the sweep by quota leaves of the rows S, and what it takes.
LEMMA OverQuotaFacts ==
    ASSUME NEW S, IsFiniteSet(S), Distinct(S), LevelsAndTimes(S), NEW quota \in Nat
    PROVE  LET out == OverQuota(S, quota)
               left == S \ out
           IN  /\ \A row \in out : ~Protected(row)
               /\ Bytes(left) <= quota \/ \A row \in left : Protected(row)
               /\ \A row \in out, kept \in left : ~Protected(kept) => Before(row, kept)
               /\ \A row \in out :
                     Bytes(left) + Bytes({other \in out : ~Before(other, row)}) > quota
<1>1. PICK out : out = OverQuota(S, quota)
  OBVIOUS
<1>2. PICK left : left = S \ out
  OBVIOUS
<1>3. out \in SUBSET S /\ left \in SUBSET S /\ out \cap left = {} /\ S = left \cup out
  BY <1>1, <1>2 DEF OverQuota, QuotaCandidates
<1>4. Sized(S) /\ \A row \in S : Row(row)
  BY DEF Sized, LevelsAndTimes, Row
<1>5. \A T \in SUBSET S : Bytes(T) \in Nat /\ IsFiniteSet(T) /\ Cardinality(T) \in Nat
  BY <1>4, BytesNat, FS_Subset, FS_CardinalityType
<1>6. Bytes(S) = Bytes(left) + Bytes(out)
  <2>1. Bytes(left \cup out) = Bytes(left) + Bytes(out)
    BY <1>3, <1>4, BytesAddUp
  <2> QED
    BY <1>3, <2>1
<1>7. \A row : Ahead(S, row) \in SUBSET S
  BY DEF Ahead, QuotaCandidates
<1>8. \A row \in S : row \in out <=> ~Protected(row) /\ Bytes(S) > quota + Bytes(Ahead(S, row))
  BY <1>1 DEF OverQuota, QuotaCandidates, Needed, Ahead
<1>9. ASSUME NEW T \in SUBSET S, NEW V \in SUBSET T PROVE Bytes(V) <= Bytes(T)
  <2>1. PICK W : W = T \ V
    OBVIOUS
  <2>2. V \in SUBSET S /\ W \in SUBSET S /\ V \cap W = {} /\ T = V \cup W
    BY <2>1
  <2>3. Bytes(V \cup W) = Bytes(V) + Bytes(W)
    BY <1>4, <2>2, BytesAddUp
  <2>4. Bytes(T) = Bytes(V) + Bytes(W)
    BY <2>2, <2>3
  <2>5. Bytes(V) \in Nat /\ Bytes(W) \in Nat
    BY <1>5, <2>2
  <2> QED
    BY <2>4, <2>5
<1>10. ASSUME NEW a \in S, NEW b \in S, Before(a, b), ~Protected(a)
       PROVE  /\ Ahead(S, a) \subseteq Ahead(S, b)
              /\ a \in Ahead(S, b) /\ a \notin Ahead(S, a)
  <2>1. \A c \in S : Before(c, a) => Before(c, b)
    BY <1>4, <1>10, BeforeTransitive
  <2>2. ~Before(a, a)
    BY <1>4, BeforeIrreflexive
  <2> QED
    BY <1>10, <2>1, <2>2 DEF Ahead, QuotaCandidates
\* What comes before a row that goes, goes too.
<1>11. ASSUME NEW a \in S, NEW b \in out, Before(a, b), ~Protected(a)
       PROVE  a \in out
  <2>1. b \in S
    BY <1>3
  <2>2. Bytes(Ahead(S, a)) <= Bytes(Ahead(S, b))
    BY <1>7, <1>9, <1>10, <1>11, <2>1
  <2>3. Bytes(S) > quota + Bytes(Ahead(S, b))
    BY <1>8, <1>11, <2>1
  <2>4. Bytes(S) \in Nat /\ Bytes(Ahead(S, a)) \in Nat /\ Bytes(Ahead(S, b)) \in Nat
    BY <1>5, <1>7
  <2>5. Bytes(S) > quota + Bytes(Ahead(S, a))
    BY <2>2, <2>3, <2>4
  <2> QED
    BY <1>8, <1>11, <2>5
<1>12. \A row \in out : ~Protected(row)
  BY <1>3, <1>8
<1>13. ASSUME NEW row \in out, NEW kept \in left, ~Protected(kept) PROVE Before(row, kept)
  <2>1. row \in S /\ kept \in S /\ row # kept /\ kept \notin out
    BY <1>3
  <2>2. row.seq # kept.seq
    BY <2>1 DEF Distinct
  <2>3. Before(row, kept) \/ Before(kept, row)
    BY <1>4, <2>1, <2>2, BeforeTotal
  <2> QED
    BY <1>11, <1>13, <2>1, <2>3
<1>14. ASSUME NEW row \in out
       PROVE  Bytes(left) + Bytes({other \in out : ~Before(other, row)}) > quota
  <2>1. PICK after : after = {other \in out : ~Before(other, row)}
    OBVIOUS
  <2>2. Ahead(S, row) \subseteq out
    BY <1>11, <1>14 DEF Ahead, QuotaCandidates
  <2>3. out = Ahead(S, row) \cup after /\ Ahead(S, row) \cap after = {}
    BY <1>3, <1>12, <2>1, <2>2 DEF Ahead, QuotaCandidates
  <2>4. after \in SUBSET S
    BY <1>3, <2>1
  <2>5. Bytes(Ahead(S, row) \cup after) = Bytes(Ahead(S, row)) + Bytes(after)
    BY <1>4, <1>7, <2>3, <2>4, BytesAddUp
  <2>6. Bytes(out) = Bytes(Ahead(S, row)) + Bytes(after)
    BY <2>3, <2>5
  <2>7. Bytes(S) > quota + Bytes(Ahead(S, row))
    BY <1>3, <1>8, <1>14
  <2>8. /\ Bytes(S) \in Nat /\ Bytes(Ahead(S, row)) \in Nat /\ Bytes(after) \in Nat
        /\ Bytes(left) \in Nat /\ Bytes(out) \in Nat
    BY <1>3, <1>5, <1>7, <2>4
  <2>9. Bytes(left) + Bytes(after) > quota
    BY <1>6, <2>6, <2>7, <2>8
  <2> QED
    BY <2>1, <2>9
<1>15. Bytes(left) <= quota \/ \A row \in left : Protected(row)
  <2> DEFINE Kept == {row \in left : ~Protected(row)}
             Places == {n \in Nat : \E row \in Kept : Cardinality(Ahead(S, row)) = n}
  <2> SUFFICES ASSUME Kept # {} PROVE Bytes(left) <= quota
    OBVIOUS
  <2>1. \A row : Cardinality(Ahead(S, row)) \in Nat
    BY <1>5, <1>7
  <2>2. Places # {} /\ Places \in SUBSET Nat
    BY <2>1
  <2>3. PICK m \in Places : \A n \in Places : m <= n
    BY <2>2, LeastNumber
  <2>4. PICK k \in Kept : Cardinality(Ahead(S, k)) = m
    BY <2>3
  <2>5. k \in S /\ k \notin out /\ ~Protected(k)
    BY <1>3, <2>4
  <2>6. ASSUME NEW a \in Ahead(S, k) PROVE a \in out
    <3>1. a \in S /\ ~Protected(a) /\ Before(a, k)
      BY <2>6 DEF Ahead, QuotaCandidates
    <3>2. Ahead(S, a) \subseteq Ahead(S, k) /\ Ahead(S, a) # Ahead(S, k)
      BY <1>10, <2>5, <3>1
    <3>3. /\ Cardinality(Ahead(S, a)) <= Cardinality(Ahead(S, k))
          /\ Cardinality(Ahead(S, a)) # Cardinality(Ahead(S, k))
      BY <1>5, <1>7, <3>2, FS_Subset
    <3>4. ~(m <= Cardinality(Ahead(S, a)))
      BY <2>1, <2>4, <3>3
    <3>5. a \notin Kept
      BY <2>1, <2>3, <3>4
    <3> QED
      BY <1>2, <3>1, <3>5
  <2>7. ASSUME NEW a \in out PROVE a \in Ahead(S, k)
    <3>1. Before(a, k)
      BY <1>13, <2>4
    <3> QED
      BY <1>3, <1>12, <3>1 DEF Ahead, QuotaCandidates
  <2>8. out = Ahead(S, k)
    BY <2>6, <2>7
  <2>9. ~(Bytes(S) > quota + Bytes(out))
    BY <1>8, <2>5, <2>8
  <2>10. Bytes(S) \in Nat /\ Bytes(left) \in Nat /\ Bytes(out) \in Nat
    BY <1>3, <1>5
  <2> QED
    BY <1>6, <2>9, <2>10
<1> QED
  BY <1>1, <1>2, <1>12, <1>13, <1>14, <1>15

\* What a sweep under a policy does to the rows is what that policy permits.
LEMMA SweepIsPermitted ==
    ASSUME NEW q, NEW policy \in Policy, IsFiniteSet(logs), Distinct(logs), LevelsAndTimes(logs),
           today \in Nat, logs' = logs \ Swept(q, policy)
    PROVE  Removed \subseteq Of(q) /\ Permitted(q, policy)
<1>1. PICK old : old = Expired(q, policy)
  OBVIOUS
<1>2. PICK S : S = Of(q) \ old
  OBVIOUS
<1>3. PICK out : out = OverQuota(S, policy.quota)
  OBVIOUS
<1>4. PICK left : left = S \ out
  OBVIOUS
<1>5. old \subseteq Of(q) /\ out \subseteq S /\ S \subseteq Of(q) /\ Of(q) \subseteq logs
  BY <1>1, <1>2, <1>3 DEF Expired, OverQuota, QuotaCandidates, Of
<1>6. Swept(q, policy) = old \cup out
  BY <1>1, <1>2, <1>3 DEF Swept
<1>7. Removed = old \cup out
  BY <1>5, <1>6 DEF Removed
<1>8. Of(q) \cap logs' = left
  BY <1>2, <1>4, <1>5, <1>6
<1>9. S \in SUBSET logs /\ IsFiniteSet(S) /\ Distinct(S) /\ LevelsAndTimes(S)
  BY <1>5, FS_Subset DEF Distinct, LevelsAndTimes
<1>10. policy.quota \in Nat
  BY DEF Policy
<1>11. /\ \A row \in out : ~Protected(row)
       /\ Bytes(left) <= policy.quota \/ \A row \in left : Protected(row)
       /\ \A row \in out, kept \in left : ~Protected(kept) => Before(row, kept)
       /\ \A row \in out :
             Bytes(left) + Bytes({other \in out : ~Before(other, row)}) > policy.quota
  BY <1>3, <1>4, <1>9, <1>10, OverQuotaFacts
<1>12. \A row \in logs : ~Protected(row) => policy[row.level] \in Nat /\ row.day \in Nat
  BY DEF LevelsAndTimes, Levels, Protected, Policy
<1>13. ASSUME NEW row \in S, ~Protected(row) PROVE row.day + policy[row.level] >= today
  <2>1. row \in Of(q) /\ row \notin old /\ row \in logs
    BY <1>2, <1>5
  <2>2. ~(row.day + policy[row.level] < today)
    BY <1>1, <1>13, <2>1 DEF Expired
  <2>3. row.day \in Nat /\ policy[row.level] \in Nat
    BY <1>12, <1>13, <2>1
  <2> QED
    BY <2>2, <2>3
<1>14. ASSUME NEW row \in old
       PROVE  ~Protected(row) /\ ~(row.day + policy[row.level] >= today)
  <2>1. ~Protected(row) /\ row.day + policy[row.level] < today /\ row \in logs
    BY <1>1, <1>5 DEF Expired
  <2>2. row.day \in Nat /\ policy[row.level] \in Nat
    BY <1>12, <2>1
  <2> QED
    BY <2>1, <2>2
<1>15. {row \in Removed : row.day + policy[row.level] >= today} = out
  BY <1>5, <1>7, <1>11, <1>13, <1>14
<1>16. \A row \in Removed : ~Protected(row)
  BY <1>7, <1>11, <1>14
<1>17. \A row \in left : ~Protected(row) => row.day + policy[row.level] >= today
  BY <1>4, <1>13
<1>18. Permitted(q, policy)
  BY <1>8, <1>11, <1>15, <1>16, <1>17 DEF Permitted
<1> QED
  BY <1>5, <1>7, <1>18

-----------------------------------------------------------------------------
(* Pages *)

\* The place of a row among the rows S, in order of log_seq.
Place(S, row) == Cardinality({other \in S : other.seq <= row.seq})

\* At every place stands one row, and rows stand in order of log_seq.
LEMMA PlacesAreFilled ==
    ASSUME NEW S, IsFiniteSet(S), Distinct(S), LevelsAndTimes(S)
    PROVE  /\ Cardinality(S) \in Nat
           /\ \A row \in S : Place(S, row) \in 1..Cardinality(S)
           /\ \A i \in 1..Cardinality(S) : Nth(S, i) \in S /\ Place(S, Nth(S, i)) = i
           /\ \A a, b \in S : Place(S, a) < Place(S, b) => a.seq < b.seq
           /\ \A a, b \in S : Place(S, a) = Place(S, b) => a = b
<1> DEFINE Below(row) == {other \in S : other.seq <= row.seq}
<1>1. Cardinality(S) \in Nat
  BY FS_CardinalityType
<1>2. \A row : Below(row) \in SUBSET S /\ IsFiniteSet(Below(row))
               /\ Cardinality(Below(row)) \in Nat /\ Cardinality(Below(row)) <= Cardinality(S)
  BY FS_Subset, FS_CardinalityType
<1>3. \A row \in S : row.seq \in Nat
  BY DEF LevelsAndTimes
<1>4. ASSUME NEW a \in S PROVE Place(S, a) \in 1..Cardinality(S)
  <2>1. a \in Below(a)
    BY <1>3
  <2>2. Cardinality(Below(a)) # 0
    BY <1>2, <2>1, FS_EmptySet
  <2>3. Cardinality(Below(a)) = Place(S, a)
    BY DEF Place
  <2> HIDE DEF Below
  <2> QED
    BY <1>1, <1>2, <2>2, <2>3
<1>5. ASSUME NEW a \in S, NEW b \in S, a.seq < b.seq PROVE Place(S, a) < Place(S, b)
  <2>1. a.seq \in Nat /\ b.seq \in Nat /\ \A c \in S : c.seq <= a.seq => c.seq <= b.seq
    BY <1>3, <1>5
  <2>2. Below(a) \in SUBSET Below(b) /\ b \in Below(b) /\ b \notin Below(a)
    BY <1>5, <2>1
  <2>3. /\ Cardinality(Below(a)) <= Cardinality(Below(b))
        /\ Cardinality(Below(a)) # Cardinality(Below(b))
    BY <1>2, <2>2, FS_Subset
  <2>4. Cardinality(Below(a)) = Place(S, a) /\ Cardinality(Below(b)) = Place(S, b)
    BY DEF Place
  <2> HIDE DEF Below
  <2> QED
    BY <1>2, <2>3, <2>4
<1>6. ASSUME NEW a \in S, NEW b \in S, Place(S, a) < Place(S, b) PROVE a.seq < b.seq
  <2>1. /\ a.seq \in Nat /\ b.seq \in Nat
        /\ Place(S, a) \in Nat /\ Place(S, b) \in Nat
    BY <1>1, <1>3, <1>4
  <2>2. a.seq # b.seq
    BY <1>6, <2>1 DEF Distinct
  <2>3. ~(b.seq < a.seq)
    BY <1>5, <1>6, <2>1
  <2> QED
    BY <2>1, <2>2, <2>3
<1> DEFINE n == Cardinality(S)
           place == [row \in S |-> Place(S, row)]
<1>7. place \in [S -> 1..n]
  BY <1>4
<1>8. \A a, b \in S : place[a] = place[b] => a = b
  <2> SUFFICES ASSUME NEW a \in S, NEW b \in S, a # b PROVE place[a] # place[b]
    OBVIOUS
  <2>1. a.seq # b.seq /\ a.seq \in Nat /\ b.seq \in Nat
    BY <1>3 DEF Distinct
  <2>2. Place(S, a) < Place(S, b) \/ Place(S, b) < Place(S, a)
    BY <1>5, <2>1
  <2>3. Place(S, a) \in Nat /\ Place(S, b) \in Nat
    BY <1>1, <1>4
  <2> QED
    BY <2>2, <2>3
<1>9. IsFiniteSet(1..n) /\ Cardinality(1..n) = n
  BY <1>1, FS_Interval
<1>10. \A i \in 1..n : \E row \in S : place[row] = i
  <2>1. place \in Injection(S, 1..n)
    BY <1>7, <1>8 DEF Injection, IsInjective
  <2>2. place \in Surjection(S, 1..n)
    BY <1>9, <2>1, FS_Injection
  <2> QED
    BY <2>2 DEF Surjection
<1>11. ASSUME NEW i \in 1..n PROVE Nth(S, i) \in S /\ Place(S, Nth(S, i)) = i
  <2>1. \E row \in S : Cardinality({other \in S : other.seq <= row.seq}) = i
    BY <1>10 DEF Place
  <2> QED
    BY <2>1 DEF Nth, Place
<1> QED
  BY <1>1, <1>4, <1>6, <1>8, <1>11

\* A page has its rows in order, not more than PageSize, and what is not on it comes
\* after it.
IsPage(page, S) ==
    /\ page \in Seq(S)
    /\ Len(page) <= PageSize
    /\ \A i, k \in DOMAIN page : i < k => page[i].seq < page[k].seq
    /\ \A row \in S :
          \/ \E i \in DOMAIN page : page[i] = row
          \/ Len(page) = PageSize /\ page[Len(page)].seq < row.seq

LEMMA PageIsPage ==
    ASSUME IsFiniteSet(logs), Distinct(logs), LevelsAndTimes(logs), PageSize \in Nat \ {0},
           NEW q, NEW cursor
    PROVE  IsPage(Page(q, cursor), {row \in Of(q) : row.seq > cursor})
<1>1. PICK S : S = {row \in Of(q) : row.seq > cursor}
  OBVIOUS
<1>2. S \in SUBSET logs
  BY <1>1 DEF Of
<1>3. IsFiniteSet(S) /\ Distinct(S) /\ LevelsAndTimes(S)
  BY <1>2, FS_Subset DEF Distinct, LevelsAndTimes
<1>4. /\ Cardinality(S) \in Nat
      /\ \A row \in S : Place(S, row) \in 1..Cardinality(S)
      /\ \A i \in 1..Cardinality(S) : Nth(S, i) \in S /\ Place(S, Nth(S, i)) = i
      /\ \A a, b \in S : Place(S, a) < Place(S, b) => a.seq < b.seq
      /\ \A a, b \in S : Place(S, a) = Place(S, b) => a = b
  BY <1>3, PlacesAreFilled
<1>5. PICK n : n = Min({PageSize, Cardinality(S)})
  OBVIOUS
<1>6. n \in Nat /\ n <= PageSize /\ n <= Cardinality(S) /\ n \in {PageSize, Cardinality(S)}
  <2>1. \E x \in {PageSize, Cardinality(S)} : \A y \in {PageSize, Cardinality(S)} : x <= y
    BY <1>4
  <2> QED
    BY <1>4, <1>5, <2>1 DEF Min
<1>7. PICK page : page = [i \in 1..n |-> Nth(S, i)]
  OBVIOUS
<1>8. Page(q, cursor) = page
  BY <1>1, <1>5, <1>7 DEF Page
<1>9. page \in Seq(S) /\ Len(page) = n /\ DOMAIN page = 1..n
  BY <1>4, <1>6, <1>7
<1>10. \A i, k \in 1..n : i < k => page[i].seq < page[k].seq
  BY <1>4, <1>6, <1>7
<1>11. ASSUME NEW row \in S, \A i \in 1..n : page[i] # row
       PROVE  n = PageSize /\ page[n].seq < row.seq
  <2>1. Place(S, row) \in 1..Cardinality(S)
    BY <1>4
  <2>2. Nth(S, Place(S, row)) = row
    BY <1>4, <2>1
  <2>3. Place(S, row) \notin 1..n
    BY <1>7, <1>11, <2>2
  <2>4. n < Place(S, row) /\ n < Cardinality(S)
    BY <1>4, <1>6, <2>1, <2>3
  <2>5. n = PageSize /\ n \in 1..n
    BY <1>4, <1>6, <2>4
  <2>6. page[n] \in S /\ Place(S, page[n]) = n
    BY <1>4, <1>6, <1>7, <2>4, <2>5
  <2> QED
    BY <1>4, <2>4, <2>5, <2>6
<1>12. IsPage(page, S)
  BY <1>6, <1>9, <1>10, <1>11 DEF IsPage
<1> QED
  BY <1>1, <1>8, <1>12

-----------------------------------------------------------------------------
(* The inductive invariant *)

ProcessRows ==
    [pc : {"down", "sweep", "up"}, read : [Projects -> Policy] \cup {None}, todo : SUBSET Projects]

Listings ==
    [pc : {"idle", "paging"}, project : Projects \cup {None}, cursor : Nat,
     seen : Seq(1..MaxLogs), there : SUBSET (1..MaxLogs)]

LogsOK ==
    /\ today \in 0..MaxDay /\ written \in 0..MaxLogs /\ crashes \in 0..MaxCrashes
    /\ logs \subseteq Rows /\ IsFiniteSet(logs) /\ Distinct(logs)
    /\ \A row \in logs : row.seq <= written

PoliciesOK == policies \in [Projects -> Policy \cup {None}]

\* What a process has read for a project that it has not swept was in force since.
ReadInForce(p) ==
    processes[p].pc = "sweep" =>
        /\ processes[p].read \in [Projects -> Policy]
        /\ \A q \in processes[p].todo : processes[p].read[q] \in inForce[p][q]

ProcessesOK ==
    /\ processes \in [Processes -> ProcessRows]
    /\ inForce \in [Processes -> [Projects -> SUBSET Policy]]
    /\ \A p \in Processes : ReadInForce(p)

\* A listing has shown, in order, what it has found and what is still there, up to its
\* cursor.
Shows(l) ==
    /\ \A i, k \in DOMAIN l.seen : i < k => l.seen[i] < l.seen[k]
    /\ \A i \in DOMAIN l.seen : l.seen[i] <= l.cursor
    /\ \A row \in logs : row.seq \in l.there =>
          /\ row.project = l.project
          /\ row.seq <= l.cursor => \E i \in DOMAIN l.seen : l.seen[i] = row.seq

ListingOK ==
    /\ listing \in Listings
    /\ listing.pc = "paging" =>
          listing.project \in Projects /\ listing.there \subseteq 1..written /\ Shows(listing)

LogsInv == LogsOK /\ PoliciesOK /\ ProcessesOK /\ ListingOK

LEMMA LogsInit == ASSUME Constants PROVE Init => LogsInv
<1> SUFFICES ASSUME Init PROVE LogsInv
  OBVIOUS
<1>1. MaxLogs \in Nat /\ MaxDay \in Nat /\ MaxCrashes \in Nat
  BY DEF Constants
<1>2. LogsOK
  BY <1>1, FS_EmptySet DEF Init, LogsOK, Distinct
<1>3. PoliciesOK
  BY DEF Init, PoliciesOK
<1>4. ProcessesOK
  BY DEF Init, ProcessesOK, ProcessRows, Down, ReadInForce
<1>5. ListingOK
  <2>1. <<>> \in Seq(1..MaxLogs)
    BY EmptySeq
  <2> QED
    BY <2>1 DEF Init, ListingOK, Listings, NoListing
<1> QED
  BY <1>2, <1>3, <1>4, <1>5 DEF LogsInv

LEMMA LogRows ==
    ASSUME Constants, LogsOK
    PROVE  LevelsAndTimes(logs) /\ today \in Nat /\ \A row \in logs : row.seq \in 1..MaxLogs
BY DEF Constants, LogsOK, LevelsAndTimes, Rows

\* Rows go.
LEMMA LogsShrink ==
    ASSUME LogsInv, logs' \subseteq logs, UNCHANGED <<today, written, listing, crashes>>
    PROVE  LogsOK' /\ ListingOK'
<1>1. LogsOK'
  <2>1. IsFiniteSet(logs')
    BY FS_Subset DEF LogsInv, LogsOK
  <2> QED
    BY <2>1 DEF LogsInv, LogsOK, Distinct
<1>2. ListingOK'
  BY DEF LogsInv, ListingOK, Shows
<1> QED
  BY <1>1, <1>2

LEMMA InsertKeeps ==
    ASSUME Constants, LogsInv, NEW q \in Projects, NEW shape \in Shapes, InsertLog(q, shape)
    PROVE  LogsInv'
<1>1. MaxLogs \in Nat /\ MaxDay \in Nat
  BY DEF Constants
<1>2. PICK row : row = [seq |-> written + 1, project |-> q, day |-> today,
                        level |-> shape.level, priority |-> shape.priority,
                        size |-> shape.size]
  OBVIOUS
<1>3. /\ logs' = logs \cup {row} /\ written' = written + 1 /\ row.seq = written + 1
      /\ UNCHANGED <<today, policies, processes, inForce, listing, crashes>>
  BY <1>2 DEF InsertLog, NextLogSeq
<1>4. written \in Nat /\ written < MaxLogs
  BY <1>1 DEF InsertLog, LogsInv, LogsOK
<1>5. row \in Rows
  BY <1>1, <1>2, <1>4 DEF Rows, Constants, LogsInv, LogsOK
<1>6. \A other \in logs : other.seq \in Nat /\ other.seq <= written
  BY LogRows DEF LogsInv, LogsOK
<1>7. LogsOK'
  <2>1. IsFiniteSet(logs')
    BY <1>3, FS_AddElement DEF LogsInv, LogsOK
  <2>2. Distinct(logs')
    BY <1>3, <1>4, <1>6 DEF LogsInv, LogsOK, Distinct
  <2>3. \A other \in logs' : other.seq <= written'
    BY <1>3, <1>4, <1>6
  <2> QED
    BY <1>1, <1>3, <1>4, <1>5, <2>1, <2>2, <2>3 DEF LogsInv, LogsOK
<1>8. ListingOK'
  <2>1. ASSUME listing.pc = "paging"
        PROVE  listing.there \subseteq 1..written' /\ Shows(listing)'
    <3>1. row.seq \notin listing.there
      BY <1>3, <1>4, <2>1 DEF LogsInv, ListingOK
    <3>2. listing.there \subseteq 1..written'
      BY <1>3, <1>4, <2>1 DEF LogsInv, ListingOK
    <3> QED
      BY <1>3, <2>1, <3>1, <3>2 DEF LogsInv, ListingOK, Shows
  <2> QED
    BY <1>3, <2>1 DEF LogsInv, ListingOK
<1> QED
  BY <1>3, <1>7, <1>8 DEF LogsInv, PoliciesOK, ProcessesOK, ReadInForce

LEMMA DeleteKeeps ==
    ASSUME Constants, LogsInv, NEW q \in Projects, NEW selected, DeleteLogs(q, selected)
    PROVE  LogsInv'
BY LogsShrink DEF DeleteLogs, LogsInv, PoliciesOK, ProcessesOK, ReadInForce

LEMMA ConfigureKeeps ==
    ASSUME Constants, LogsInv, NEW q \in Projects, NEW policy \in Policies, Configure(q, policy)
    PROVE  LogsInv'
<1>1. policy \in Policy
  BY DEF Constants
<1>2. LogsOK' /\ ListingOK'
  BY LogsShrink DEF Configure
<1>3. PoliciesOK'
  BY <1>1 DEF Configure, LogsInv, PoliciesOK
<1>4. ProcessesOK'
  <2>1. UNCHANGED processes
    BY DEF Configure
  <2>2. inForce' = [p \in Processes |->
           [inForce[p] EXCEPT ![q] = IF processes[p].pc = "sweep" THEN @ \cup {policy} ELSE @]]
    BY DEF Configure
  <2>3. ASSUME NEW p \in Processes
        PROVE  /\ inForce'[p] \in [Projects -> SUBSET Policy]
               /\ \A x \in Projects : inForce[p][x] \subseteq inForce'[p][x]
    BY <1>1, <2>2 DEF LogsInv, ProcessesOK
  <2>4. ASSUME NEW p \in Processes PROVE ReadInForce(p)'
    BY <2>1, <2>3 DEF LogsInv, ProcessesOK, ReadInForce, ProcessRows
  <2> QED
    BY <2>1, <2>2, <2>3, <2>4 DEF LogsInv, ProcessesOK
<1> QED
  BY <1>2, <1>3, <1>4 DEF LogsInv

\* A process changes, and with it perhaps the policies that were in force since it read.
LEMMA OneProcess ==
    ASSUME ProcessesOK, NEW p \in Processes, NEW me \in ProcessRows,
           processes' = [processes EXCEPT ![p] = me],
           NEW force \in [Projects -> SUBSET Policy],
           inForce' = [inForce EXCEPT ![p] = force],
           me.pc = "sweep" =>
               me.read \in [Projects -> Policy] /\ \A q \in me.todo : me.read[q] \in force[q]
    PROVE  ProcessesOK'
<1>1. ASSUME NEW x \in Processes PROVE ReadInForce(x)'
  BY DEF ProcessesOK, ReadInForce
<1> QED
  BY <1>1 DEF ProcessesOK

LEMMA ReadKeeps ==
    ASSUME Constants, LogsInv, NEW p \in Processes, ReadPolicies(p)
    PROVE  LogsInv'
<1>1. \A q \in Projects : Effective(q) \in Policy
  BY DEF Constants, Effective, LogsInv, PoliciesOK
<1>2. PICK read : read = [q \in Projects |-> Effective(q)]
  OBVIOUS
<1>3. PICK force : force = [q \in Projects |-> {Effective(q)}]
  OBVIOUS
<1>4. PICK me : me = [pc |-> "sweep", read |-> read, todo |-> Projects]
  OBVIOUS
<1>5. /\ processes' = [processes EXCEPT ![p] = me] /\ inForce' = [inForce EXCEPT ![p] = force]
      /\ UNCHANGED <<today, logs, written, policies, listing, crashes>>
  BY <1>2, <1>3, <1>4 DEF ReadPolicies
<1>6. /\ read \in [Projects -> Policy] /\ force \in [Projects -> SUBSET Policy]
      /\ \A q \in Projects : read[q] \in force[q]
  BY <1>1, <1>2, <1>3
<1>7. me \in ProcessRows /\ me.read = read /\ me.todo = Projects
  BY <1>4, <1>6 DEF ProcessRows
<1>8. ProcessesOK'
  BY <1>5, <1>6, <1>7, OneProcess DEF LogsInv
<1> QED
  BY <1>5, <1>8, LogsShrink DEF LogsInv, PoliciesOK

LEMMA ToDown ==
    ASSUME LogsInv, NEW p \in Processes, processes' = [processes EXCEPT ![p] = Down],
           UNCHANGED inForce \/ inForce' = [inForce EXCEPT ![p] = [q \in Projects |-> {}]]
    PROVE  ProcessesOK'
<1>1. PICK force : force = IF UNCHANGED inForce THEN inForce[p] ELSE [q \in Projects |-> {}]
  OBVIOUS
<1>2. force \in [Projects -> SUBSET Policy] /\ inForce' = [inForce EXCEPT ![p] = force]
  BY <1>1 DEF LogsInv, ProcessesOK
<1>3. Down \in ProcessRows /\ Down.pc # "sweep"
  BY DEF Down, ProcessRows
<1> QED
  BY <1>2, <1>3, OneProcess DEF LogsInv

LEMMA SweepKeeps ==
    ASSUME Constants, LogsInv, NEW p \in Processes, NEW q \in Projects, SweepProject(p, q)
    PROVE  LogsInv'
<1>1. LogsOK' /\ ListingOK' /\ PoliciesOK'
  BY LogsShrink DEF SweepProject, LogsInv, PoliciesOK
<1>2. CASE processes' = [processes EXCEPT ![p].todo = @ \ {q}]
  <2>1. PICK me : me = [processes[p] EXCEPT !.todo = @ \ {q}]
    OBVIOUS
  <2>2. processes[p] \in ProcessRows /\ ReadInForce(p) /\ inForce[p] \in [Projects -> SUBSET Policy]
    BY DEF LogsInv, ProcessesOK
  <2>3. /\ me \in ProcessRows /\ me.pc = processes[p].pc /\ me.read = processes[p].read
        /\ me.todo \subseteq processes[p].todo
    BY <2>1, <2>2 DEF ProcessRows
  <2>4. processes' = [processes EXCEPT ![p] = me] /\ inForce' = [inForce EXCEPT ![p] = inForce[p]]
    BY <1>2, <2>1 DEF SweepProject, LogsInv, ProcessesOK
  <2>5. ProcessesOK'
    BY <2>2, <2>3, <2>4, OneProcess DEF LogsInv, ReadInForce
  <2> QED
    BY <1>1, <2>5 DEF LogsInv
<1>3. CASE processes' = [processes EXCEPT ![p] = Down]
  BY <1>1, <1>3, ToDown DEF LogsInv, SweepProject
<1> QED
  BY <1>2, <1>3 DEF SweepProject

LEMMA ServeKeeps ==
    ASSUME Constants, LogsInv, NEW p \in Processes, Serve(p)
    PROVE  LogsInv'
<1>1. PICK me : me = [Down EXCEPT !.pc = "up"]
  OBVIOUS
<1>2. PICK force : force = [q \in Projects |-> {}]
  OBVIOUS
<1>3. me \in ProcessRows /\ me.pc # "sweep" /\ force \in [Projects -> SUBSET Policy]
  BY <1>1, <1>2 DEF Down, ProcessRows
<1>4. /\ processes' = [processes EXCEPT ![p] = me] /\ inForce' = [inForce EXCEPT ![p] = force]
      /\ UNCHANGED <<today, logs, written, policies, listing, crashes>>
  BY <1>1, <1>2 DEF Serve
<1>5. ProcessesOK'
  BY <1>3, <1>4, OneProcess DEF LogsInv
<1> QED
  BY <1>4, <1>5, LogsShrink DEF LogsInv, PoliciesOK

LEMMA CrashKeeps ==
    ASSUME Constants, LogsInv, NEW p \in Processes, Crash(p)
    PROVE  LogsInv'
<1>1. ProcessesOK'
  BY ToDown DEF Crash
<1>2. crashes' \in 0..MaxCrashes
  BY DEF Crash, LogsInv, LogsOK, Constants
<1>3. LogsOK'
  BY <1>2 DEF Crash, LogsInv, LogsOK
<1>4. ListingOK' /\ PoliciesOK'
  BY DEF Crash, LogsInv, ListingOK, Shows, PoliciesOK
<1> QED
  BY <1>1, <1>3, <1>4 DEF LogsInv

LEMMA TomorrowKeeps == ASSUME Constants, LogsInv, Tomorrow PROVE LogsInv'
<1>1. today' \in 0..MaxDay
  BY DEF Tomorrow, LogsInv, LogsOK, Constants
<1>2. LogsOK'
  BY <1>1 DEF Tomorrow, LogsInv, LogsOK
<1> QED
  BY <1>2 DEF Tomorrow, LogsInv, PoliciesOK, ProcessesOK, ReadInForce, ListingOK, Shows

-----------------------------------------------------------------------------
(* Listings *)

\* The rows that a listing has not come to.
After(l) == {row \in Of(l.project) : row.seq > l.cursor}

\* What has been shown, and one page more.
More(l) == l.seen \o Seqs(Page(l.project, l.cursor))

LEMMA NextPage ==
    ASSUME Constants, LogsOK
    PROVE  IsPage(Page(listing.project, listing.cursor), After(listing))
<1>1. IsFiniteSet(logs) /\ Distinct(logs) /\ LevelsAndTimes(logs) /\ PageSize \in Nat \ {0}
  BY LogRows DEF LogsOK, Constants
<1> QED
  BY <1>1, PageIsPage DEF After

\* A page more is in order still, and shows all that is still there up to the end of a full
\* page, or all that is still there.
LEMMA MoreIsShown ==
    ASSUME Constants, LogsInv, listing.pc = "paging",
           NEW page, page = Page(listing.project, listing.cursor)
    PROVE  LET more == More(listing) IN
           /\ more \in Seq(1..MaxLogs)
           /\ \A i, k \in DOMAIN more : i < k => more[i] < more[k]
           /\ \A row \in logs : row.seq \in listing.there =>
                 \/ \E i \in DOMAIN more : more[i] = row.seq
                 \/ Len(page) = PageSize /\ page[Len(page)].seq < row.seq
           /\ Len(page) = PageSize =>
                 /\ page[Len(page)].seq \in Nat
                 /\ \A i \in DOMAIN more : more[i] <= page[Len(page)].seq
<1>1. PICK seen : seen = listing.seen
  OBVIOUS
<1>2. PICK cursor : cursor = listing.cursor
  OBVIOUS
<1>3. PICK n : n = Len(page)
  OBVIOUS
<1>4. PICK m : m = Len(seen)
  OBVIOUS
<1>5. PICK more : more = More(listing)
  OBVIOUS
<1>6. /\ listing \in Listings /\ Shows(listing) /\ seen \in Seq(1..MaxLogs) /\ cursor \in Nat
      /\ PageSize \in Nat \ {0} /\ MaxLogs \in Nat
  BY <1>1, <1>2 DEF LogsInv, ListingOK, Listings, Constants
<1>7. IsPage(page, After(listing))
  BY NextPage DEF LogsInv
<1>8. \A row \in After(listing) :
          row \in logs /\ row.seq \in 1..MaxLogs /\ row.seq \in Nat /\ row.seq > cursor
  BY <1>2, <1>6, LogRows DEF After, Of, LogsInv
<1>9. m \in Nat /\ DOMAIN seen = 1..m /\ \A i \in 1..m : seen[i] \in 1..MaxLogs /\ seen[i] <= cursor
  <2>1. \A i \in 1..Len(seen) : seen[i] \in 1..MaxLogs
    BY <1>6, ElementOfSeq
  <2> QED
    BY <1>1, <1>2, <1>4, <1>6, <2>1, LenProperties DEF Shows
<1>10. n \in Nat /\ DOMAIN page = 1..n /\ \A i \in 1..n : page[i] \in After(listing)
  <2>1. page \in Seq(After(listing))
    BY <1>7 DEF IsPage
  <2> QED
    BY <1>3, <2>1, LenProperties, ElementOfSeq
<1>11. PICK seqs : seqs = Seqs(page)
  OBVIOUS
<1>12. seqs = [i \in 1..n |-> page[i].seq] /\ \A i \in 1..n : page[i].seq \in 1..MaxLogs
  BY <1>8, <1>10, <1>11 DEF Seqs
<1>13. seqs \in Seq(1..MaxLogs) /\ Len(seqs) = n
  <2>1. n \in Nat /\ seqs \in [1..n -> 1..MaxLogs]
    BY <1>10, <1>12
  <2>2. seqs \in Seq(1..MaxLogs) /\ DOMAIN seqs = 1..n
    BY <2>1, SeqDef
  <2>3. Len(seqs) \in Nat /\ DOMAIN seqs = 1..Len(seqs)
    BY <2>2, LenProperties
  <2> QED
    BY <2>1, <2>2, <2>3
<1>14. /\ more \in Seq(1..MaxLogs)
       /\ DOMAIN more = 1..(m + n)
       /\ \A i \in 1..m : more[i] = seen[i]
       /\ \A i \in 1..n : more[m + i] = page[i].seq
  <2>1. more = seen \o seqs
    BY <1>1, <1>5, <1>11 DEF More
  <2>2. /\ more \in Seq(1..MaxLogs) /\ Len(more) = m + n
        /\ \A i \in 1..(m + n) : more[i] = IF i <= m THEN seen[i] ELSE seqs[i - m]
    BY <1>4, <1>6, <1>13, <2>1, ConcatProperties
  <2>3. DOMAIN more = 1..(m + n)
    BY <2>2, LenProperties
  <2>4. \A i \in 1..m : i \in 1..(m + n) /\ i <= m
    BY <1>9, <1>10
  <2>5. \A i \in 1..n : m + i \in 1..(m + n) /\ ~(m + i <= m) /\ (m + i) - m = i
    BY <1>9, <1>10
  <2>6. \A i \in 1..m : more[i] = seen[i]
    BY <2>2, <2>4
  <2>7. ASSUME NEW i \in 1..n PROVE more[m + i] = page[i].seq
    <3>1. more[m + i] = seqs[(m + i) - m]
      BY <2>2, <2>5
    <3>2. (m + i) - m = i
      BY <2>5
    <3>3. more[m + i] = seqs[i]
      BY <3>1, <3>2
    <3> QED
      BY <1>12, <3>3
  <2> QED
    BY <2>2, <2>3, <2>6, <2>7
<1>15. \A i \in 1..(m + n) : i \in 1..m \/ \E k \in 1..n : i = m + k
  <2> SUFFICES ASSUME NEW i \in 1..(m + n), i \notin 1..m PROVE i - m \in 1..n /\ i = m + (i - m)
    OBVIOUS
  <2> QED
    BY <1>9, <1>10
<1>16. \A i, k \in 1..n : i < k => page[i].seq < page[k].seq
  BY <1>7, <1>10 DEF IsPage
<1>17. ASSUME NEW i \in DOMAIN more, NEW k \in DOMAIN more, i < k PROVE more[i] < more[k]
  <2>1. CASE i \in 1..m /\ k \in 1..m
    BY <1>1, <1>6, <1>9, <1>14, <1>17, <2>1 DEF Shows
  <2>2. CASE i \in 1..m /\ k \notin 1..m
    <3>1. PICK l \in 1..n : k = m + l
      BY <1>14, <1>15, <2>2
    <3>2. more[k] = page[l].seq /\ page[l].seq > cursor /\ page[l].seq \in Nat
      BY <1>8, <1>10, <1>14, <3>1
    <3>3. more[i] <= cursor /\ more[i] \in Nat
      BY <1>6, <1>9, <1>14, <2>2
    <3> QED
      BY <1>6, <3>2, <3>3
  <2>3. CASE i \notin 1..m
    <3>1. PICK j \in 1..n : i = m + j
      BY <1>14, <1>15, <2>3
    <3>2. k \notin 1..m
      BY <1>9, <1>14, <1>17, <2>3
    <3>3. PICK l \in 1..n : k = m + l
      BY <1>14, <1>15, <3>2
    <3>4. j < l
      BY <1>9, <1>10, <1>17, <3>1, <3>3
    <3> QED
      BY <1>14, <1>16, <3>1, <3>3, <3>4
  <2> QED
    BY <2>1, <2>2, <2>3
<1>18. ASSUME NEW row \in logs, row.seq \in listing.there
       PROVE  \/ \E i \in DOMAIN more : more[i] = row.seq
              \/ n = PageSize /\ page[n].seq < row.seq
  <2>1. row.project = listing.project /\ row.seq \in Nat
    BY <1>6, <1>18, LogRows DEF Shows, LogsInv, Constants
  <2>2. CASE row.seq <= cursor
    <3>1. PICK i \in 1..m : seen[i] = row.seq
      BY <1>1, <1>2, <1>6, <1>9, <1>18, <2>2 DEF Shows
    <3> QED
      BY <1>9, <1>10, <1>14, <3>1
  <2>3. CASE ~(row.seq <= cursor)
    <3>1. row \in After(listing)
      BY <1>2, <1>6, <2>1, <2>3 DEF After, Of
    <3>2. CASE \E i \in DOMAIN page : page[i] = row
      <4>1. PICK i \in 1..n : page[i] = row
        BY <1>10, <3>2
      <4>2. m + i \in DOMAIN more /\ more[m + i] = row.seq
        BY <1>9, <1>10, <1>14, <4>1
      <4> QED
        BY <4>2
    <3>3. CASE Len(page) = PageSize /\ page[Len(page)].seq < row.seq
      BY <1>3, <3>3
    <3> QED
      BY <1>7, <3>1, <3>2, <3>3 DEF IsPage
  <2> QED
    BY <2>2, <2>3
<1>19. ASSUME n = PageSize
       PROVE  page[n].seq \in Nat /\ \A i \in DOMAIN more : more[i] <= page[n].seq
  <2>1. n \in 1..n
    BY <1>6, <1>19
  <2>2. page[n].seq \in Nat /\ page[n].seq > cursor
    BY <1>8, <1>10, <2>1
  <2>3. ASSUME NEW i \in DOMAIN more PROVE more[i] <= page[n].seq
    <3>1. CASE i \in 1..m
      BY <1>6, <1>9, <1>14, <2>2, <3>1
    <3>2. CASE i \notin 1..m
      <4>1. PICK k \in 1..n : i = m + k
        BY <1>14, <1>15, <3>2
      <4>2. more[i] = page[k].seq /\ page[k].seq \in Nat
        BY <1>8, <1>10, <1>14, <4>1
      <4>3. k < n \/ k = n
        BY <1>10
      <4> QED
        BY <1>16, <2>1, <2>2, <4>2, <4>3
    <3> QED
      BY <3>1, <3>2
  <2> QED
    BY <2>2, <2>3
<1> QED
  BY <1>3, <1>5, <1>14, <1>17, <1>18, <1>19

LEMMA ListKeeps ==
    ASSUME Constants, LogsInv, NEW q \in Projects, List(q)
    PROVE  LogsInv'
<1>1. PICK l : l = [pc |-> "paging", project |-> q, cursor |-> 0, seen |-> <<>>,
                    there |-> LogSeqs(Of(q))]
  OBVIOUS
<1>2. listing' = l /\ UNCHANGED <<today, logs, written, policies, processes, inForce, crashes>>
  BY <1>1 DEF List
<1>3. LogSeqs(Of(q)) \subseteq 1..written /\ LogSeqs(Of(q)) \subseteq 1..MaxLogs
  <2>1. \A row \in logs : row.seq \in 1..MaxLogs /\ row.seq <= written
    BY LogRows DEF LogsInv, LogsOK
  <2>2. written \in Nat /\ MaxLogs \in Nat
    BY DEF LogsInv, LogsOK, Constants
  <2> QED
    BY <2>1, <2>2 DEF LogSeqs, Of
<1>4. <<>> \in Seq(1..MaxLogs) /\ DOMAIN <<>> = {}
  OBVIOUS
<1>5. l \in Listings
  BY <1>1, <1>3, <1>4 DEF Listings
<1>6. ASSUME NEW row \in logs, row.seq \in LogSeqs(Of(q))
      PROVE  row.project = q /\ ~(row.seq <= 0)
  <2>1. PICK other \in Of(q) : other.seq = row.seq
    BY <1>6 DEF LogSeqs
  <2>2. other = row
    BY <2>1 DEF LogsInv, LogsOK, Distinct, Of
  <2>3. row.seq \in 1..MaxLogs
    BY LogRows DEF LogsInv
  <2>4. MaxLogs \in Nat
    BY DEF Constants
  <2> QED
    BY <2>1, <2>2, <2>3, <2>4 DEF Of
<1>7. Shows(l)
  BY <1>1, <1>4, <1>6 DEF Shows
<1>8. ListingOK'
  BY <1>1, <1>2, <1>3, <1>5, <1>7 DEF ListingOK, Shows
<1>9. LogsOK' /\ PoliciesOK' /\ ProcessesOK'
  BY <1>2 DEF LogsInv, LogsOK, PoliciesOK, ProcessesOK, ReadInForce
<1> QED
  BY <1>8, <1>9 DEF LogsInv

LEMMA ReadPageKeeps == ASSUME Constants, LogsInv, ReadPage PROVE LogsInv'
<1>1. PICK page : page = Page(listing.project, listing.cursor)
  OBVIOUS
<1>2. /\ listing.pc = "paging"
      /\ UNCHANGED <<today, logs, written, policies, processes, inForce, crashes>>
  BY DEF ReadPage
<1>3. LogsOK' /\ PoliciesOK' /\ ProcessesOK'
  BY <1>2 DEF LogsInv, LogsOK, PoliciesOK, ProcessesOK, ReadInForce
<1>4. CASE Len(page) = PageSize
  <2>1. PICK l : l = [listing EXCEPT !.seen = More(listing), !.there = listing.there \cap LogSeqs(logs),
                                     !.cursor = page[Len(page)].seq]
    OBVIOUS
  <2>2. listing' = l
    BY <1>1, <1>4, <2>1 DEF ReadPage, More, NextCursor
  <2>3. /\ More(listing) \in Seq(1..MaxLogs)
        /\ \A i, k \in DOMAIN More(listing) : i < k => More(listing)[i] < More(listing)[k]
        /\ \A row \in logs : row.seq \in listing.there =>
              \/ \E i \in DOMAIN More(listing) : More(listing)[i] = row.seq
              \/ page[Len(page)].seq < row.seq
        /\ page[Len(page)].seq \in Nat
        /\ \A i \in DOMAIN More(listing) : More(listing)[i] <= page[Len(page)].seq
    BY <1>1, <1>2, <1>4, MoreIsShown
  <2>4. /\ listing \in Listings /\ listing.project \in Projects /\ listing.there \subseteq 1..written
        /\ Shows(listing)
    BY <1>2 DEF LogsInv, ListingOK
  <2>5. /\ l \in Listings /\ l.pc = "paging" /\ l.project = listing.project
        /\ l.seen = More(listing) /\ l.there \subseteq listing.there
        /\ l.cursor = page[Len(page)].seq
    BY <1>2, <2>1, <2>3, <2>4 DEF Listings
  <2>6. \A row \in logs : row.seq \in Nat
    BY LogRows DEF LogsInv, LevelsAndTimes
  <2>7. ASSUME NEW row \in logs, row.seq \in l.there
        PROVE  /\ row.project = l.project
               /\ row.seq <= l.cursor => \E i \in DOMAIN l.seen : l.seen[i] = row.seq
    <3>1. row.seq \in listing.there
      BY <2>5, <2>7
    <3>2. row.project = listing.project
      BY <2>4, <3>1 DEF Shows
    <3>3. row.seq <= page[Len(page)].seq => ~(page[Len(page)].seq < row.seq)
      BY <2>3, <2>6
    <3> QED
      BY <2>3, <2>5, <3>1, <3>2, <3>3
  <2>8. Shows(l)
    BY <2>3, <2>5, <2>7 DEF Shows
  <2>9. ListingOK'
    BY <1>2, <2>2, <2>4, <2>5, <2>8 DEF ListingOK, Shows
  <2> QED
    BY <1>3, <2>9 DEF LogsInv
<1>5. CASE Len(page) # PageSize
  <2>1. listing' = NoListing
    BY <1>1, <1>5 DEF ReadPage
  <2>2. <<>> \in Seq(1..MaxLogs)
    OBVIOUS
  <2>3. ListingOK'
    BY <2>1, <2>2 DEF ListingOK, NoListing, Listings
  <2> QED
    BY <1>3, <2>3 DEF LogsInv
<1> QED
  BY <1>4, <1>5

LEMMA LogsNext == ASSUME Constants, LogsInv, [Next]_vars PROVE LogsInv'
<1>1. CASE UNCHANGED vars
  BY <1>1 DEF vars, LogsInv, LogsOK, PoliciesOK, ProcessesOK, ReadInForce, ListingOK, Shows
<1>2. ASSUME NEW q \in Projects, User(q) PROVE LogsInv'
  BY <1>2, DeleteKeeps, ConfigureKeeps, ListKeeps DEF User
<1>3. ASSUME NEW p \in Processes, Start(p) PROVE LogsInv'
  BY <1>3, ReadKeeps, SweepKeeps, ServeKeeps DEF Start
<1> QED
  BY <1>1, <1>2, <1>3, InsertKeeps, CrashKeeps, ReadPageKeeps, TomorrowKeeps DEF Next

LEMMA LogsHold == ASSUME Constants PROVE Spec => []LogsInv
<1>1. Init => LogsInv
  BY LogsInit
<1>2. LogsInv /\ [Next]_vars => LogsInv'
  BY LogsNext
<1> QED
  BY <1>1, <1>2, PTL DEF Spec

-----------------------------------------------------------------------------
(* The theorems *)

\* Logs, policies, processes and listings are well-typed, and log_seq identifies a row, for
\* any number of them.
THEOREM LogsTypeOK == ASSUME Constants PROVE Spec => []TypeOK
<1>1. LogsInv => TypeOK
  <2> SUFFICES ASSUME LogsInv PROVE TypeOK
    OBVIOUS
  <2>1. \A p \in Processes :
          /\ processes[p].pc \in {"down", "sweep", "up"}
          /\ processes[p].pc = "sweep" => processes[p].read \in [Projects -> Policy]
          /\ processes[p].todo \subseteq Projects
    BY DEF LogsInv, ProcessesOK, ReadInForce, ProcessRows
  <2>2. /\ listing.pc \in {"idle", "paging"}
        /\ listing.there \subseteq 1..MaxLogs /\ listing.seen \in Seq(1..MaxLogs)
    BY DEF LogsInv, ListingOK, Listings
  <2> QED
    BY <2>1, <2>2 DEF TypeOK, LogsInv, LogsOK, PoliciesOK, ProcessesOK, Distinct
<1> QED
  BY <1>1, LogsHold, PTL

\* Whoever sweeps, a user who configures or a process that opens the data root with the
\* policies it read some time ago, takes exactly what a policy in force permits.
THEOREM SweepsFollowAPolicy == ASSUME Constants PROVE Spec => SweptByAPolicy
<1> DEFINE Lawful ==
      Removed # {} =>
          \/ ByUser
          \/ \E q \in Projects :
                /\ Removed \subseteq Of(q)
                /\ \/ policies'[q] # None /\ Permitted(q, policies'[q])
                   \/ \E p \in Processes : \E policy \in inForce[p][q] : Permitted(q, policy)
<1>1. ASSUME LogsInv, [Next]_vars PROVE Lawful
  <2> SUFFICES ASSUME Removed # {} PROVE Lawful
    OBVIOUS
  <2>1. ~(logs \subseteq logs')
    BY DEF Removed
  <2>2. IsFiniteSet(logs) /\ Distinct(logs) /\ LevelsAndTimes(logs) /\ today \in Nat
    BY <1>1, LogRows DEF LogsInv, LogsOK
  <2>3. ASSUME NEW q \in Projects, NEW selected, DeleteLogs(q, selected) PROVE Lawful
    <3>1. Removed = selected
      BY <2>3 DEF DeleteLogs, Removed, Of
    <3> QED
      BY <2>3, <3>1 DEF ByUser, DeleteLogs
  <2>4. ASSUME NEW q \in Projects, NEW policy \in Policies, Configure(q, policy) PROVE Lawful
    <3>1. policy \in Policy /\ policy # None
      BY DEF Constants
    <3>2. logs' = logs \ Swept(q, policy) /\ policies'[q] = policy
      BY <1>1, <2>4 DEF Configure, LogsInv, PoliciesOK
    <3>3. Removed \subseteq Of(q) /\ Permitted(q, policy)
      BY <2>2, <3>1, <3>2, SweepIsPermitted
    <3> QED
      BY <3>1, <3>2, <3>3
  <2>5. ASSUME NEW p \in Processes, NEW q \in Projects, SweepProject(p, q) PROVE Lawful
    <3>1. PICK policy : policy = processes[p].read[q]
      OBVIOUS
    <3>2. logs' = logs \ Swept(q, policy)
      BY <2>1, <2>5, <3>1 DEF SweepProject
    <3>3. policy \in Policy /\ policy \in inForce[p][q]
      BY <1>1, <2>5, <3>1 DEF SweepProject, LogsInv, ProcessesOK, ReadInForce
    <3>4. Removed \subseteq Of(q) /\ Permitted(q, policy)
      BY <2>2, <3>2, <3>3, SweepIsPermitted
    <3> QED
      BY <3>3, <3>4
  <2>6. \/ \E q \in Projects : \E selected \in SUBSET Of(q) : DeleteLogs(q, selected)
        \/ \E q \in Projects : \E policy \in Policies : Configure(q, policy)
        \/ \E p \in Processes : \E q \in Projects : SweepProject(p, q)
    BY <1>1, <2>1
       DEF Next, User, Start, List, InsertLog, ReadPolicies, Serve, Crash, ReadPage, Tomorrow, vars
  <2> HIDE DEF Lawful
  <2> QED
    BY <2>3, <2>4, <2>5, <2>6
<1>2. LogsInv /\ [Next]_vars => [Lawful]_vars
  BY <1>1
<1> QED
  BY <1>2, LogsHold, PTL DEF Spec, SweptByAPolicy

\* A listing that has come to its end has shown in order, and once each, all that was there
\* the whole time.
THEOREM ListingsAreComplete == ASSUME Constants PROVE Spec => PagesComplete
<1> DEFINE Complete ==
      listing.pc = "paging" /\ listing'.pc = "idle" =>
          LET seen == listing.seen \o Seqs(Page(listing.project, listing.cursor)) IN
          /\ \A i, k \in DOMAIN seen : i < k => seen[i] < seen[k]
          /\ listing.there \cap LogSeqs(logs) \subseteq ToSet(seen)
<1>1. ASSUME LogsInv, [Next]_vars PROVE Complete
  <2> SUFFICES ASSUME listing.pc = "paging", listing'.pc = "idle" PROVE Complete
    OBVIOUS
  <2>1. PICK page : page = Page(listing.project, listing.cursor)
    OBVIOUS
  <2>2. ReadPage
    BY <1>1 DEF Next, User, Start, DeleteLogs, Configure, List, InsertLog, ReadPolicies, SweepProject,
                Serve, Crash, Tomorrow, vars
  <2>3. Len(page) # PageSize
    <3> SUFFICES ASSUME Len(page) = PageSize PROVE FALSE
      OBVIOUS
    <3>1. listing'.pc = listing.pc
      BY <1>1, <2>1, <2>2 DEF ReadPage, LogsInv, ListingOK, Listings
    <3> QED
      BY <3>1
  <2>4. /\ \A i, k \in DOMAIN More(listing) : i < k => More(listing)[i] < More(listing)[k]
        /\ \A row \in logs : row.seq \in listing.there =>
              \E i \in DOMAIN More(listing) : More(listing)[i] = row.seq
    BY <1>1, <2>1, <2>3, MoreIsShown
  <2>5. listing.there \cap LogSeqs(logs) \subseteq ToSet(More(listing))
    BY <2>4 DEF LogSeqs, ToSet
  <2> QED
    BY <2>4, <2>5 DEF More
<1>2. LogsInv /\ [Next]_vars => [Complete]_vars
  BY <1>1
<1> QED
  BY <1>2, LogsHold, PTL DEF Spec, PagesComplete
=============================================================================
