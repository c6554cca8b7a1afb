----------------------------- MODULE CasesProofs -----------------------------
(***************************************************************************)
(* Theorems about Cases, for every set of spawn ids, variables and records, *)
(* any arguments and any number of commands.                               *)
(*                                                                         *)
(* CasesInv: the pool and the two lists have no record twice nor in common, *)
(* every record in a list counts the cases that point to it, and           *)
(* LatestWins.  Three facts carry it through a command.  Draft: while the  *)
(* arguments are parsed, the new records and the pool are what the pool    *)
(* was.  Removal: what leaves a list goes to the pool, and what stays has  *)
(* the cases it had and no more spawn ids.  Lacks: after the new direct    *)
(* records were given, no old record has one of their spawn ids.           *)
(***************************************************************************)
EXTENDS Cases, SequenceTheorems, FiniteSetTheorems, TLAPS

(***************************************************************************)
(* Cases: sequences whose elements are distinct, and parts of them.        *)
(***************************************************************************)
Distinct(s) == \A j, k \in 1..Len(s) : s[j] = s[k] => j = k

Picked(t, e, S) == IF e \in S THEN Append(t, e) ELSE t
Picking == INSTANCE FoldProofs WITH op <- Picked, step <- Picked

LEMMA RangeIs ==
    ASSUME NEW A, NEW s \in Seq(A)
    PROVE  /\ Range(s) \in SUBSET A
           /\ \A x : x \in Range(s) <=> \E k \in 1..Len(s) : s[k] = x
BY DEF Range

\* A count which is not zero is at least one.
LEMMA PositiveIs == \A n \in Nat : n # 0 => n > 0
  OBVIOUS

LEMMA SingleIs ==
    ASSUME NEW A, NEW x \in A
    PROVE  <<x>> \in Seq(A) /\ Range(<<x>>) = {x} /\ Distinct(<<x>>)
<1>1. <<x>> \in Seq(A) /\ Len(<<x>>) = 1 /\ DOMAIN <<x>> = {1} /\ <<x>>[1] = x
  OBVIOUS
<1>2. Range(<<x>>) = {x}
  BY <1>1 DEF Range
<1>3. Distinct(<<x>>)
  BY <1>1 DEF Distinct
<1>. QED  BY <1>1, <1>2, <1>3

LEMMA RangeAppend ==
    ASSUME NEW A, NEW s \in Seq(A), NEW x \in A
    PROVE  /\ Append(s, x) \in Seq(A) /\ Range(Append(s, x)) = Range(s) \cup {x}
           /\ Distinct(Append(s, x)) <=> Distinct(s) /\ x \notin Range(s)
<1> DEFINE c == Append(s, x)
<1>1. c \in Seq(A) /\ Len(c) = Len(s) + 1 /\ Len(s) \in Nat /\ c[Len(s) + 1] = x /\ \A k \in 1..Len(s) : c[k] = s[k]
  OBVIOUS
<1> HIDE DEF c
<1>2. \A y : y \in Range(c) <=> y \in Range(s) \cup {x}
  <2>1. \A y : y \in Range(c) <=> \E k \in 1..Len(c) : c[k] = y
    BY <1>1, RangeIs
  <2>2. \A y : y \in Range(s) <=> \E k \in 1..Len(s) : s[k] = y
    BY RangeIs
  <2>3. \A k \in 1..Len(c) : k \in 1..Len(s) \/ k = Len(s) + 1
    BY <1>1
  <2>4. \A k \in 1..Len(s) : k \in 1..Len(c)
    BY <1>1
  <2>5. Len(s) + 1 \in 1..Len(c)
    BY <1>1
  <2>. QED  BY <1>1, <2>1, <2>2, <2>3, <2>4, <2>5
<1>3. Distinct(c) <=> Distinct(s) /\ x \notin Range(s)
  <2>1. \A y : y \in Range(s) <=> \E k \in 1..Len(s) : s[k] = y
    BY RangeIs
  <2>2. ASSUME Distinct(c) PROVE Distinct(s) /\ x \notin Range(s)
    <3>1. \A j \in 1..Len(s) : j \in 1..Len(c) /\ j # Len(s) + 1 /\ Len(s) + 1 \in 1..Len(c)
      BY <1>1
    <3>. QED  BY <1>1, <2>1, <2>2, <3>1 DEF Distinct
  <2>3. ASSUME Distinct(s), x \notin Range(s) PROVE Distinct(c)
    <3>1. \A k \in 1..Len(c) : k \in 1..Len(s) \/ k = Len(s) + 1
      BY <1>1
    <3>. QED  BY <1>1, <2>1, <2>3, <3>1 DEF Distinct
  <2>. QED  BY <2>2, <2>3
<1>. QED  BY <1>1, <1>2, <1>3 DEF c

LEMMA RangeConcat ==
    ASSUME NEW A, NEW s \in Seq(A), NEW t \in Seq(A)
    PROVE  /\ s \o t \in Seq(A) /\ Range(s \o t) = Range(s) \cup Range(t)
           /\ Distinct(s \o t) <=> Distinct(s) /\ Distinct(t) /\ Range(s) \cap Range(t) = {}
<1> DEFINE c == s \o t
           n == Len(s)
           m == Len(t)
<1>1. c \in Seq(A) /\ Len(c) = n + m /\ n \in Nat /\ m \in Nat
      /\ (\A k \in 1..n : c[k] = s[k]) /\ (\A k \in 1..m : c[n + k] = t[k])
  OBVIOUS
<1>2. \A k \in 1..(n + m) : k \in 1..n \/ (k - n \in 1..m /\ n + (k - n) = k)
  BY <1>1
<1>3. /\ \A y : y \in Range(c) <=> \E k \in 1..Len(c) : c[k] = y
      /\ \A y : y \in Range(s) <=> \E k \in 1..n : s[k] = y
      /\ \A y : y \in Range(t) <=> \E k \in 1..m : t[k] = y
  BY <1>1, RangeIs
<1>4. (\A k \in 1..n : k \in 1..Len(c)) /\ (\A k \in 1..m : n + k \in 1..Len(c))
  BY <1>1
<1> HIDE DEF c, n, m
<1>5. Range(c) = Range(s) \cup Range(t)
  <2>1. ASSUME NEW y \in Range(c) PROVE y \in Range(s) \cup Range(t)
    <3>1. PICK k \in 1..(n + m) : c[k] = y
      BY <1>1, <1>3, <2>1
    <3>2. k \in 1..n => s[k] = y
      BY <1>1, <3>1
    <3>3. k - n \in 1..m /\ n + (k - n) = k => t[k - n] = y
      BY <1>1, <3>1
    <3>. QED  BY <1>2, <1>3, <3>2, <3>3
  <2>2. ASSUME NEW y \in Range(s) PROVE y \in Range(c)
    BY <1>1, <1>3, <1>4, <2>2
  <2>3. ASSUME NEW y \in Range(t) PROVE y \in Range(c)
    <3>1. PICK k \in 1..m : t[k] = y
      BY <1>3, <2>3
    <3>2. n + k \in 1..Len(c) /\ c[n + k] = y
      BY <1>1, <1>4, <3>1
    <3>. QED  BY <1>3, <3>2
  <2>. QED  BY <2>1, <2>2, <2>3
<1>6. ASSUME Distinct(c) PROVE Distinct(s) /\ Distinct(t) /\ Range(s) \cap Range(t) = {}
  <2>1. \A j, k \in 1..Len(c) : c[j] = c[k] => j = k
    BY <1>6 DEF Distinct
  <2>2. Distinct(s)
    BY <1>1, <1>4, <2>1 DEF Distinct, n
  <2>3. Distinct(t)
    <3>1. SUFFICES ASSUME NEW j \in 1..m, NEW k \in 1..m, t[j] = t[k] PROVE j = k
      BY DEF Distinct, m
    <3>2. n + j = n + k
      BY <1>1, <1>4, <2>1, <3>1
    <3>. QED  BY <1>1, <3>2
  <2>4. \A j \in 1..n, k \in 1..m : s[j] # t[k]
    <3>1. \A j \in 1..n, k \in 1..m : j # n + k
      BY <1>1
    <3>. QED  BY <1>1, <1>4, <2>1, <3>1
  <2>. QED  BY <1>3, <2>2, <2>3, <2>4
<1>7. ASSUME Distinct(s), Distinct(t), Range(s) \cap Range(t) = {} PROVE Distinct(c)
  <2>1. \A j, k \in 1..n : s[j] = s[k] => j = k
    BY <1>7 DEF Distinct, n
  <2>2. \A j, k \in 1..m : t[j] = t[k] => j = k
    BY <1>7 DEF Distinct, m
  <2>3. \A j \in 1..n, k \in 1..m : s[j] # t[k]
    BY <1>3, <1>7
  <2>4. SUFFICES ASSUME NEW j \in 1..Len(c), NEW k \in 1..Len(c), c[j] = c[k] PROVE j = k
    BY DEF Distinct
  <2>a. \A i \in 1..Len(c) : i - n \in 1..m /\ n + (i - n) = i => c[i] = t[i - n]
    BY <1>1
  <2>5. CASE j \in 1..n
    <3>1. CASE k \in 1..n
      BY <1>1, <2>1, <2>4, <2>5, <3>1
    <3>2. CASE k - n \in 1..m /\ n + (k - n) = k
      <4>1. c[k] = t[k - n] /\ c[j] = s[j]
        BY <1>1, <2>a, <2>5, <3>2
      <4>. QED  BY <2>3, <2>4, <2>5, <3>2, <4>1
    <3>. QED  BY <1>1, <1>2, <3>1, <3>2
  <2>6. CASE j - n \in 1..m /\ n + (j - n) = j
    <3>0. c[j] = t[j - n]
      BY <2>a, <2>6
    <3>1. CASE k \in 1..n
      BY <1>1, <2>3, <2>4, <2>6, <3>0, <3>1
    <3>2. CASE k - n \in 1..m /\ n + (k - n) = k
      <4>1. t[j - n] = t[k - n]
        BY <2>a, <2>4, <3>0, <3>2
      <4>2. j - n = k - n
        BY <2>2, <2>6, <3>2, <4>1
      <4>. QED  BY <2>6, <3>2, <4>2
    <3>. QED  BY <1>1, <1>2, <3>1, <3>2
  <2>. QED  BY <1>1, <1>2, <2>5, <2>6
<1>. QED  BY <1>1, <1>5, <1>6, <1>7 DEF c

LEMMA ReverseIs ==
    ASSUME NEW A, NEW s \in Seq(A)
    PROVE  /\ Reverse(s) \in Seq(A) /\ Range(Reverse(s)) = Range(s)
           /\ Distinct(s) => Distinct(Reverse(s))
<1> DEFINE r == Reverse(s)
           n == Len(s)
<1>1. n \in Nat /\ r = [k \in 1..n |-> s[(n - k) + 1]]
  BY DEF Reverse
<1>2. \A k \in 1..n : (n - k) + 1 \in 1..n /\ (n - ((n - k) + 1)) + 1 = k
  BY <1>1
<1> HIDE DEF r
<1>3. r \in Seq(A) /\ Len(r) = n /\ \A k \in 1..n : r[k] = s[(n - k) + 1]
  <2>1. r \in [1..n -> A]
    BY <1>1, <1>2
  <2>. QED  BY <1>1, <2>1
<1> HIDE DEF n
<1>4. /\ \A y : y \in Range(r) <=> \E k \in 1..n : r[k] = y
      /\ \A y : y \in Range(s) <=> \E k \in 1..n : s[k] = y
  BY <1>3, RangeIs DEF n
<1>5. Range(r) = Range(s)
  <2>1. ASSUME NEW y \in Range(r) PROVE y \in Range(s)
    BY <1>2, <1>3, <1>4, <2>1
  <2>2. ASSUME NEW y \in Range(s) PROVE y \in Range(r)
    <3>1. PICK k \in 1..n : s[k] = y
      BY <1>4, <2>2
    <3>2. (n - k) + 1 \in 1..n /\ r[(n - k) + 1] = y
      BY <1>2, <1>3, <3>1
    <3>. QED  BY <1>4, <3>2
  <2>. QED  BY <2>1, <2>2
<1>6. ASSUME Distinct(s) PROVE Distinct(r)
  <2>1. \A j, k \in 1..n : s[j] = s[k] => j = k
    BY <1>6 DEF Distinct, n
  <2>2. SUFFICES ASSUME NEW j \in 1..n, NEW k \in 1..n, r[j] = r[k] PROVE j = k
    BY <1>3 DEF Distinct
  <2>3. (n - j) + 1 = (n - k) + 1
    <3> DEFINE a == (n - j) + 1
               b == (n - k) + 1
    <3>1. a \in 1..n /\ b \in 1..n /\ s[a] = s[b]
      BY <1>2, <1>3, <2>2
    <3>. HIDE DEF a, b
    <3>2. a = b
      BY <2>1, <3>1
    <3>. QED  BY <3>2 DEF a, b
  <2>. QED  BY <1>1, <2>3 DEF n
<1>. QED  BY <1>3, <1>5, <1>6 DEF r

\* What is true of the empty sequence, and of a sequence with one more element if
\* it is of the sequence, is true of all.
LEMMA AllSequences ==
    ASSUME NEW A, NEW T, <<>> \in T, \A s \in Seq(A), x \in A : s \in T => Append(s, x) \in T
    PROVE  \A s \in Seq(A) : s \in T
<1> DEFINE Wrong == {n \in Nat : \E s \in Seq(A) : Len(s) = n /\ s \notin T}
<1>1. SUFFICES ASSUME Wrong # {} PROVE FALSE
  <2>1. Wrong = {}
    BY <1>1
  <2>. QED  BY <2>1
<1>2. PICK n \in Wrong : \A m \in Wrong : n <= m
  BY <1>1, Picking!Least
<1>3. PICK s \in Seq(A) : Len(s) = n /\ s \notin T
  BY <1>2
<1>4. s # <<>>
  BY <1>3
<1>5. PICK v \in Seq(A), x \in A : s = Append(v, x)
  BY <1>4, SequenceEmptyOrAppend
<1>6. Len(v) \in Nat /\ Len(v) = n - 1
  BY <1>3, <1>5
<1>7. v \in T
  BY <1>2, <1>6
<1>. QED  BY <1>3, <1>5, <1>7

LEMMA WithinAppend ==
    ASSUME NEW A, NEW s \in Seq(A), NEW x \in A, NEW S
    PROVE  /\ Within(Append(s, x), S) = IF x \in S THEN Append(Within(s, S), x) ELSE Within(s, S)
           /\ Within(<<>>, S) = <<>>
<1>1. \A q : Within(q, S) = Picking!Fold(<<>>, q, S)
  BY DEF Within, Picking!Fold, Picked, FoldLeft, MapThenFoldSet, Picking!FoldLeft, Picking!MapThenFoldSet,
         Max, Picking!Max
<1>2. /\ Picking!Fold(<<>>, Append(s, x), S) = Picked(Picking!Fold(<<>>, s, S), x, S)
      /\ Picking!Fold(<<>>, <<>>, S) = <<>>
  BY ONLY Picking!FoldAppend
<1>. QED  BY <1>1, <1>2 DEF Picked

LEMMA WithinIs ==
    ASSUME NEW A, NEW s \in Seq(A), NEW S
    PROVE  /\ Within(s, S) \in Seq(A) /\ Range(Within(s, S)) = Range(s) \cap S
           /\ Distinct(s) => Distinct(Within(s, S))
<1> DEFINE T == {q \in Seq(A) : /\ Within(q, S) \in Seq(A) /\ Range(Within(q, S)) = Range(q) \cap S
                                /\ Distinct(q) => Distinct(Within(q, S))}
<1>1. <<>> \in T
  <2>1. <<>> \in Seq(A) /\ Range(<<>>) = {} /\ Distinct(<<>>)
    BY DEF Range, Distinct
  <2>2. Within(<<>>, S) = <<>>
    <3>1. Within(<<>>, S) = Picking!Fold(<<>>, <<>>, S)
      BY DEF Within, Picking!Fold, Picked, FoldLeft, MapThenFoldSet, Picking!FoldLeft, Picking!MapThenFoldSet,
             Max, Picking!Max
    <3>2. 1 \in {1} /\ <<>> \in Seq({1})
      OBVIOUS
    <3>3. Picking!Fold(<<>>, <<>>, S) = <<>>
      BY ONLY <3>2, Picking!FoldAppend
    <3>. QED  BY <3>1, <3>3
  <2>. QED  BY <2>1, <2>2
<1>2. ASSUME NEW q \in Seq(A), NEW x \in A, q \in T PROVE Append(q, x) \in T
  <2>1. /\ Within(q, S) \in Seq(A) /\ Range(Within(q, S)) = Range(q) \cap S
        /\ Distinct(q) => Distinct(Within(q, S))
    BY <1>2
  <2>2. /\ Append(q, x) \in Seq(A) /\ Range(Append(q, x)) = Range(q) \cup {x}
        /\ Distinct(Append(q, x)) <=> Distinct(q) /\ x \notin Range(q)
    BY ONLY <1>2, RangeAppend
  <2>3. Within(Append(q, x), S) = IF x \in S THEN Append(Within(q, S), x) ELSE Within(q, S)
    BY ONLY <1>2, WithinAppend
  <2>4. CASE x \in S
    <3>1. LET w == Within(q, S) IN
          /\ Append(w, x) \in Seq(A) /\ Range(Append(w, x)) = Range(w) \cup {x}
          /\ Distinct(Append(w, x)) <=> Distinct(w) /\ x \notin Range(w)
      BY ONLY <1>2, <2>1, RangeAppend
    <3>. QED  BY <2>1, <2>2, <2>3, <2>4, <3>1
  <2>5. CASE x \notin S
    BY <2>1, <2>2, <2>3, <2>5
  <2>. QED  BY <2>4, <2>5
<1> HIDE DEF T
<1>3. s \in T
  BY ONLY <1>1, <1>2, AllSequences
<1>. QED  BY <1>3 DEF T

(***************************************************************************)
(* How many cases a record has.                                            *)
(***************************************************************************)
Count(cases, r) == Cardinality({k \in DOMAIN cases : cases[k].i_list = r})
Owners(cases) == {cases[k].i_list : k \in DOMAIN cases}

LEMMA CountAppend ==
    ASSUME NEW A, NEW s \in Seq(A), NEW x \in A, NEW r
    PROVE  /\ Count(s, r) \in Nat
           /\ Count(Append(s, x), r) = Count(s, r) + (IF x.i_list = r THEN 1 ELSE 0)
           /\ Owners(Append(s, x)) = Owners(s) \cup {x.i_list}
           /\ Count(s, r) = 0 <=> r \notin Owners(s)
<1> DEFINE c == Append(s, x)
           n == Len(s)
           P == {k \in 1..n : s[k].i_list = r}
           Q == {k \in 1..(n + 1) : c[k].i_list = r}
<1>1. n \in Nat /\ DOMAIN s = 1..n /\ DOMAIN c = 1..(n + 1) /\ c[n + 1] = x /\ \A k \in 1..n : c[k] = s[k]
  OBVIOUS
<1>2. IsFiniteSet(P) /\ Cardinality(P) \in Nat /\ (Cardinality(P) = 0 <=> P = {})
  <2>1. IsFiniteSet(1..n) /\ P \in SUBSET (1..n)
    BY <1>1, FS_Interval
  <2>2. IsFiniteSet(P)
    BY <2>1, FS_Subset
  <2>. QED  BY <2>2, FS_CardinalityType, FS_EmptySet
<1>3. Count(s, r) = Cardinality(P) /\ Count(c, r) = Cardinality(Q)
  BY <1>1 DEF Count
<1>4. n + 1 \notin P /\ Q = (IF x.i_list = r THEN P \cup {n + 1} ELSE P)
  BY <1>1
<1>5. Cardinality(P \cup {n + 1}) = Cardinality(P) + 1
  BY <1>2, <1>4, FS_AddElement
<1>6. Owners(c) = Owners(s) \cup {x.i_list}
  <2>1. \A k \in 1..(n + 1) : k \in 1..n \/ k = n + 1
    BY <1>1
  <2>2. \A k \in 1..n : k \in 1..(n + 1)
    BY <1>1
  <2>3. n + 1 \in 1..(n + 1)
    BY <1>1
  <2>. QED  BY <1>1, <2>1, <2>2, <2>3 DEF Owners
<1>7. P = {} <=> r \notin Owners(s)
  BY <1>1 DEF Owners
<1> HIDE DEF P, Q, c
<1>. QED  BY <1>2, <1>3, <1>4, <1>5, <1>6, <1>7 DEF c

LEMMA CountNone ==
    ASSUME NEW r
    PROVE  Count(<<>>, r) = 0 /\ Owners(<<>>) = {}
<1>1. {k \in DOMAIN <<>> : <<>>[k].i_list = r} = {}
  OBVIOUS
<1>2. Cardinality({}) = 0
  BY FS_EmptySet
<1>. QED  BY <1>1, <1>2 DEF Count, Owners

LEMMA CountConcat ==
    ASSUME NEW A, NEW s \in Seq(A), NEW t \in Seq(A), NEW r
    PROVE  /\ Count(s \o t, r) = Count(s, r) + Count(t, r)
           /\ Owners(s \o t) = Owners(s) \cup Owners(t)
<1> DEFINE T == {q \in Seq(A) : /\ Count(s \o q, r) = Count(s, r) + Count(q, r)
                                /\ Owners(s \o q) = Owners(s) \cup Owners(q)}
<1>1. <<>> \in T
  <2>1. s \o <<>> = s /\ <<>> \in Seq(A)
    OBVIOUS
  <2>2. Count(s, r) \in Nat
    <3>1. CASE s = <<>>
      BY <3>1, CountNone
    <3>2. CASE s # <<>>
      <4>1. PICK v \in Seq(A), x \in A : s = Append(v, x)
        BY <3>2, SequenceEmptyOrAppend
      <4>. QED  BY ONLY <4>1, CountAppend
    <3>. QED  BY <3>1, <3>2
  <2>. QED  BY <2>1, <2>2, CountNone
<1>2. ASSUME NEW q \in Seq(A), NEW x \in A, q \in T PROVE Append(q, x) \in T
  <2>1. /\ Count(s \o q, r) = Count(s, r) + Count(q, r)
        /\ Owners(s \o q) = Owners(s) \cup Owners(q)
    BY <1>2
  <2>2. /\ Count(q, r) \in Nat
        /\ Count(Append(q, x), r) = Count(q, r) + (IF x.i_list = r THEN 1 ELSE 0)
        /\ Owners(Append(q, x)) = Owners(q) \cup {x.i_list}
    BY ONLY <1>2, CountAppend
  <2>3. s \o q \in Seq(A) /\ s \o Append(q, x) = Append(s \o q, x) /\ Append(q, x) \in Seq(A)
    OBVIOUS
  <2>4. /\ Count(s \o q, r) \in Nat
        /\ Count(Append(s \o q, x), r) = Count(s \o q, r) + (IF x.i_list = r THEN 1 ELSE 0)
        /\ Owners(Append(s \o q, x)) = Owners(s \o q) \cup {x.i_list}
    <3> DEFINE w == s \o q
    <3>1. w \in Seq(A) /\ x \in A
      BY ONLY <1>2, <2>3
    <3>. HIDE DEF w
    <3>2. /\ Count(w, r) \in Nat
          /\ Count(Append(w, x), r) = Count(w, r) + (IF x.i_list = r THEN 1 ELSE 0)
          /\ Owners(Append(w, x)) = Owners(w) \cup {x.i_list}
      BY ONLY <3>1, CountAppend
    <3>. QED  BY ONLY <3>2 DEF w
  <2>5. Count(s, r) \in Nat
    BY ONLY <1>2, CountAppend
  <2>6. Count(s \o Append(q, x), r) = Count(s, r) + Count(Append(q, x), r)
    BY ONLY <2>1, <2>2, <2>3, <2>4, <2>5
  <2>7. Owners(s \o Append(q, x)) = Owners(s) \cup Owners(Append(q, x))
    BY ONLY <2>1, <2>2, <2>3, <2>4
  <2>. QED  BY <2>3, <2>6, <2>7
<1> HIDE DEF T
<1>3. t \in T
  BY ONLY <1>1, <1>2, AllSequences
<1>. QED  BY <1>3 DEF T

\* A part of the cases that has all of a record counts as many for it.
LEMMA CountWithin ==
    ASSUME NEW A, NEW s \in Seq(A), NEW S, NEW r, \A x \in A : x.i_list = r => x \in S
    PROVE  /\ Count(Within(s, S), r) = Count(s, r)
           /\ r \in Owners(s) => r \in Owners(Within(s, S))
<1> DEFINE T == {q \in Seq(A) : /\ Count(Within(q, S), r) = Count(q, r)
                                /\ r \in Owners(q) => r \in Owners(Within(q, S))}
<1>1. <<>> \in T
  <2>1. <<>> \in Seq(A) /\ 1 \in {1} /\ <<>> \in Seq({1})
    OBVIOUS
  <2>2. Within(<<>>, S) = <<>>
    BY ONLY <2>1, WithinAppend
  <2>. QED  BY <2>1, <2>2, CountNone
<1>2. ASSUME NEW q \in Seq(A), NEW x \in A, q \in T PROVE Append(q, x) \in T
  <2> DEFINE w == Within(q, S)
  <2>1. Count(w, r) = Count(q, r) /\ (r \in Owners(q) => r \in Owners(w))
    BY <1>2
  <2>2. /\ Count(q, r) \in Nat
        /\ Count(Append(q, x), r) = Count(q, r) + (IF x.i_list = r THEN 1 ELSE 0)
        /\ Owners(Append(q, x)) = Owners(q) \cup {x.i_list}
    BY ONLY <1>2, CountAppend
  <2>3. Within(Append(q, x), S) = IF x \in S THEN Append(w, x) ELSE w
    BY ONLY <1>2, WithinAppend
  <2>4. w \in Seq(A) /\ Append(q, x) \in Seq(A)
    BY <1>2, WithinIs
  <2> HIDE DEF w
  <2>5. /\ Count(Append(w, x), r) = Count(w, r) + (IF x.i_list = r THEN 1 ELSE 0)
        /\ Owners(Append(w, x)) = Owners(w) \cup {x.i_list}
    BY ONLY <1>2, <2>4, CountAppend
  <2>6. x.i_list = r => x \in S
    BY <1>2
  <2>7. Count(Within(Append(q, x), S), r) = Count(Append(q, x), r)
    BY ONLY <2>1, <2>2, <2>3, <2>5, <2>6
  <2>8. r \in Owners(Append(q, x)) => r \in Owners(Within(Append(q, x), S))
    BY ONLY <2>1, <2>2, <2>3, <2>5, <2>6
  <2>. QED  BY <2>4, <2>7, <2>8
<1> HIDE DEF T
<1>3. s \in T
  BY ONLY <1>1, <1>2, AllSequences
<1>. QED  BY <1>3 DEF T

(***************************************************************************)
(* The memory of a command, and what the operations on records make of it. *)
(***************************************************************************)
Names == Ids \cup {AnyId}
Rec == [variable : Vars \cup {None}, value : Seq(Names), state_list : Seq(Names), ecount : Nat, born : Nat]
Mem == [i : [Recs -> Rec], pool : Seq(Recs), traced : SUBSET Recs]
Group == [i_list : Seq(Recs), cases : Seq(Case)]

\* N is M after the records S went back to the pool.
Freed(M, N, S) ==
    /\ N \in Mem /\ Distinct(N.pool)
    /\ Range(N.pool) = Range(M.pool) \cup S
    /\ N.traced = M.traced \ S
    /\ \A r \in Recs \ S : N.i[r] = M.i[r]

LEMMA HeadIs ==
    ASSUME NEW A, NEW s \in Seq(A), s # <<>>
    PROVE  /\ Head(s) \in A /\ Tail(s) \in Seq(A) /\ Range(s) = Range(Tail(s)) \cup {Head(s)}
           /\ Distinct(s) => Distinct(Tail(s)) /\ Head(s) \notin Range(Tail(s))
<1> DEFINE t == Tail(s)
           n == Len(s)
<1>1. /\ n \in Nat /\ n >= 1 /\ t \in Seq(A) /\ Len(t) = n - 1 /\ Head(s) = s[1] /\ Head(s) \in A
      /\ \A k \in 1..(n - 1) : t[k] = s[k + 1]
  OBVIOUS
<1> HIDE DEF t
<1>2. (\A k \in 1..n : k = 1 \/ (k - 1 \in 1..(n - 1) /\ (k - 1) + 1 = k)) /\ (\A k \in 1..(n - 1) : k + 1 \in 1..n) /\ 1 \in 1..n
  BY <1>1
<1>3. /\ \A y : y \in Range(t) <=> \E k \in 1..(n - 1) : t[k] = y
      /\ \A y : y \in Range(s) <=> \E k \in 1..n : s[k] = y
  BY <1>1, RangeIs
<1> HIDE DEF n
<1>4. Range(s) = Range(t) \cup {Head(s)}
  <2>1. ASSUME NEW y \in Range(s) PROVE y \in Range(t) \cup {Head(s)}
    <3>1. PICK k \in 1..n : s[k] = y
      BY <1>3, <2>1
    <3>2. CASE k = 1
      BY <1>1, <3>1, <3>2
    <3>3. CASE k - 1 \in 1..(n - 1) /\ (k - 1) + 1 = k
      <4>1. t[k - 1] = s[(k - 1) + 1]
        BY <1>1, <3>3
      <4>2. t[k - 1] = y
        BY <3>1, <3>3, <4>1
      <4>. QED  BY <1>3, <3>3, <4>2
    <3>. QED  BY <1>2, <3>2, <3>3
  <2>2. ASSUME NEW y \in Range(t) PROVE y \in Range(s)
    BY <1>1, <1>2, <1>3, <2>2
  <2>. QED  BY <1>1, <1>2, <1>3, <2>1, <2>2
<1>5. ASSUME Distinct(s) PROVE Distinct(t) /\ Head(s) \notin Range(t)
  <2>1. \A j, k \in 1..n : s[j] = s[k] => j = k
    BY <1>5 DEF Distinct, n
  <2>2. \A k \in 1..(n - 1) : t[k] # Head(s)
    <3>1. \A k \in 1..(n - 1) : k + 1 # 1
      BY <1>1
    <3>. QED  BY <1>1, <1>2, <2>1, <3>1
  <2>3. SUFFICES ASSUME NEW j \in 1..(n - 1), NEW k \in 1..(n - 1), t[j] = t[k] PROVE j = k
    BY <1>1, <1>3, <2>2 DEF Distinct
  <2>4. j + 1 = k + 1
    <3>1. t[j] = s[j + 1] /\ t[k] = s[k + 1] /\ j + 1 \in 1..n /\ k + 1 \in 1..n
      BY <1>1, <1>2
    <3> DEFINE a == j + 1
               b == k + 1
    <3>2. a \in 1..n /\ b \in 1..n /\ s[a] = s[b]
      BY <2>3, <3>1
    <3>. HIDE DEF a, b
    <3>3. a = b
      BY <2>1, <3>2
    <3>. QED  BY <3>3 DEF a, b
  <2>. QED  BY <1>1, <2>4
<1>. QED  BY <1>1, <1>4, <1>5 DEF t

LEMMA MemoryIs ==
    ASSUME NEW M \in Mem, NEW a, NEW b, NEW c
    PROVE  /\ [M EXCEPT !.i = a, !.pool = b, !.traced = c] = [i |-> a, pool |-> b, traced |-> c]
           /\ [M EXCEPT !.i = a, !.pool = b] = [i |-> a, pool |-> b, traced |-> M.traced]
           /\ [M EXCEPT !.i = a] = [i |-> a, pool |-> M.pool, traced |-> M.traced]
<1>1. PICK p, q, t : M = [i |-> p, pool |-> q, traced |-> t]
  <2>1. M = [i |-> M.i, pool |-> M.pool, traced |-> M.traced]
    BY DEF Mem
  <2>. QED  BY <2>1
<1>4. [M EXCEPT !.i = a] = [i |-> a, pool |-> M.pool, traced |-> M.traced]
  BY <1>1
<1>3. [M EXCEPT !.i = a, !.pool = b] = [i |-> a, pool |-> b, traced |-> M.traced]
  <2> DEFINE N == [i |-> a, pool |-> M.pool, traced |-> M.traced]
  <2>1. [M EXCEPT !.i = a, !.pool = b] = [N EXCEPT !.pool = b]
    BY <1>4
  <2>. QED  BY <2>1
<1>2. [M EXCEPT !.i = a, !.pool = b, !.traced = c] = [i |-> a, pool |-> b, traced |-> c]
  <2> DEFINE N == [i |-> a, pool |-> b, traced |-> M.traced]
  <2>1. [M EXCEPT !.i = a, !.pool = b, !.traced = c] = [N EXCEPT !.traced = c]
    BY <1>3
  <2>. QED  BY <2>1
<1>. QED  BY <1>2, <1>3, <1>4

LEMMA FreeIs ==
    ASSUME NEW M \in Mem, NEW chain \in Seq(Recs), Distinct(M.pool), Distinct(chain),
           Range(M.pool) \cap Range(chain) = {}
    PROVE  Freed(M, FreeI(M, chain), Range(chain))
<1> DEFINE N == FreeI(M, chain)
           S == Range(chain)
<1>1. /\ N = [i |-> [r \in Recs |-> IF r \in S THEN Unused ELSE M.i[r]],
              pool |-> chain \o M.pool, traced |-> M.traced \ S]
  <2> DEFINE a == [r \in Recs |-> IF r \in S THEN Unused ELSE M.i[r]]
             b == chain \o M.pool
             c == M.traced \ S
  <2>1. N = [M EXCEPT !.i = a, !.pool = b, !.traced = c]
    BY DEF FreeI
  <2>. HIDE DEF a, b, c, N
  <2>2. N = [i |-> a, pool |-> b, traced |-> c]
    BY <2>1, MemoryIs
  <2>. QED  BY <2>2 DEF a, b, c
<1>2. Unused \in Rec
  <2>1. <<>> \in Seq(Names)
    OBVIOUS
  <2>. QED  BY <2>1 DEF Unused, Rec
<1>3. M.pool \in Seq(Recs) /\ M.i \in [Recs -> Rec] /\ M.traced \in SUBSET Recs
  BY DEF Mem
<1>4. /\ chain \o M.pool \in Seq(Recs) /\ Range(chain \o M.pool) = Range(chain) \cup Range(M.pool)
      /\ Distinct(chain \o M.pool) <=> Distinct(chain) /\ Distinct(M.pool) /\ Range(chain) \cap Range(M.pool) = {}
  BY ONLY <1>3, RangeConcat
<1>5. N \in Mem
  BY <1>1, <1>2, <1>3, <1>4 DEF Mem
<1> HIDE DEF N
<1>. QED  BY <1>1, <1>3, <1>4, <1>5 DEF Freed, N

\* N is M after the record r was taken from the pool.
Taken(M, N, r) ==
    /\ N \in Mem /\ Distinct(N.pool)
    /\ r \in Recs /\ r \notin Range(N.pool)
    /\ Range(M.pool) = Range(N.pool) \cup {r}
    /\ N.traced = M.traced
    /\ \A q \in Recs \ {r} : N.i[q] = M.i[q]

LEMMA NewIs ==
    ASSUME NEW M \in Mem, Distinct(M.pool), M.pool # <<>>, NEW variable \in Vars \cup {None},
           NEW list \in Seq(Names), NEW states \in Seq(Names), calls \in Nat
    PROVE  /\ Taken(M, NewI(M, variable, list, states), Head(M.pool))
           /\ NewI(M, variable, list, states).i[Head(M.pool)] =
                [variable |-> variable, value |-> list, state_list |-> states, ecount |-> 0, born |-> calls + 1]
<1> DEFINE N == NewI(M, variable, list, states)
           r == Head(M.pool)
           new == [variable |-> variable, value |-> list, state_list |-> states, ecount |-> 0, born |-> calls + 1]
<1>1. M.pool \in Seq(Recs) /\ M.i \in [Recs -> Rec] /\ M.traced \in SUBSET Recs
  BY DEF Mem
<1>2. N = [i |-> [M.i EXCEPT ![r] = new], pool |-> Tail(M.pool), traced |-> M.traced]
  <2> DEFINE a == [M.i EXCEPT ![r] = new]
             b == Tail(M.pool)
  <2>1. N = [M EXCEPT !.i = a, !.pool = b]
    BY DEF NewI
  <2>. HIDE DEF a, b, N
  <2>2. N = [i |-> a, pool |-> b, traced |-> M.traced]
    BY <2>1, MemoryIs
  <2>. QED  BY <2>2 DEF a, b
<1>3. /\ r \in Recs /\ Tail(M.pool) \in Seq(Recs) /\ Range(M.pool) = Range(Tail(M.pool)) \cup {r}
      /\ Distinct(M.pool) => Distinct(Tail(M.pool)) /\ r \notin Range(Tail(M.pool))
  BY ONLY <1>1, M.pool # <<>>, HeadIs
<1>4. new \in Rec
  BY DEF Rec
<1> HIDE DEF r, new
<1>5. [M.i EXCEPT ![r] = new] \in [Recs -> Rec]
  BY <1>1, <1>3, <1>4
<1>6. N \in Mem
  BY <1>1, <1>2, <1>3, <1>5 DEF Mem
<1>7. N.i[r] = new /\ \A q \in Recs \ {r} : N.i[q] = M.i[q]
  BY <1>1, <1>2, <1>3
<1>. QED  BY <1>2, <1>3, <1>6, <1>7 DEF Taken, r, new

(***************************************************************************)
(* Lists of records and their cases: a record is in the list once, is not  *)
(* in the pool, and counts its cases.                                      *)
(***************************************************************************)
Sound(M, g) ==
    /\ M \in Mem /\ g \in Group
    /\ Distinct(M.pool) /\ Distinct(g.i_list) /\ Range(M.pool) \cap Range(g.i_list) = {}
    /\ M.traced \cap Range(M.pool) = {}
    /\ Owners(g.cases) \subseteq Range(g.i_list)
    /\ \A r \in Range(g.i_list) : M.i[r].ecount = Count(g.cases, r)

Full(g) == Owners(g.cases) = Range(g.i_list)

\* b is what a is, with fewer spawn ids.
Lesser(a, b) ==
    /\ b.variable = a.variable /\ b.ecount = a.ecount /\ b.born = a.born
    /\ Range(b.state_list) \subseteq Range(a.state_list)

\* U is T after records were taken out of its list.
Removal(T, U) ==
    /\ Sound(U.M, U.list)
    /\ Range(U.list.i_list) \subseteq Range(T.list.i_list)
    /\ Range(U.M.pool) = Range(T.M.pool) \cup (Range(T.list.i_list) \ Range(U.list.i_list))
    /\ U.M.traced = T.M.traced \ (Range(T.list.i_list) \ Range(U.list.i_list))
    /\ \A r \in Recs \ Range(T.list.i_list) : U.M.i[r] = T.M.i[r]
    /\ \A r \in Range(U.list.i_list) : Lesser(T.M.i[r], U.M.i[r])
    /\ Full(T.list) => Full(U.list)

LEMMA RemovalTrivial ==
    ASSUME NEW T, Sound(T.M, T.list)
    PROVE  Removal(T, T)
BY DEF Removal, Lesser

LEMMA RemovalTwice ==
    ASSUME NEW T, NEW U, NEW V, Sound(T.M, T.list), Removal(T, U), Removal(U, V)
    PROVE  Removal(T, V)
<1>1. /\ Range(V.list.i_list) \subseteq Range(U.list.i_list) /\ Range(U.list.i_list) \subseteq Range(T.list.i_list)
      /\ Range(U.M.pool) = Range(T.M.pool) \cup (Range(T.list.i_list) \ Range(U.list.i_list))
      /\ Range(V.M.pool) = Range(U.M.pool) \cup (Range(U.list.i_list) \ Range(V.list.i_list))
      /\ U.M.traced = T.M.traced \ (Range(T.list.i_list) \ Range(U.list.i_list))
      /\ V.M.traced = U.M.traced \ (Range(U.list.i_list) \ Range(V.list.i_list))
  BY DEF Removal
<1>2. /\ \A r \in Recs \ Range(T.list.i_list) : U.M.i[r] = T.M.i[r]
      /\ \A r \in Recs \ Range(U.list.i_list) : V.M.i[r] = U.M.i[r]
      /\ \A r \in Range(U.list.i_list) : Lesser(T.M.i[r], U.M.i[r])
      /\ \A r \in Range(V.list.i_list) : Lesser(U.M.i[r], V.M.i[r])
      /\ Sound(V.M, V.list) /\ (Full(T.list) => Full(V.list))
  BY DEF Removal
<1>3. \A r \in Recs \ Range(T.list.i_list) : V.M.i[r] = T.M.i[r]
  BY <1>1, <1>2
<1>4. \A r \in Range(V.list.i_list) : Lesser(T.M.i[r], V.M.i[r])
  BY <1>1, <1>2 DEF Lesser
<1>5. Range(V.M.pool) = Range(T.M.pool) \cup (Range(T.list.i_list) \ Range(V.list.i_list))
  BY <1>1
<1>6. V.M.traced = T.M.traced \ (Range(T.list.i_list) \ Range(V.list.i_list))
  BY <1>1
<1>. QED  BY <1>1, <1>2, <1>3, <1>4, <1>5, <1>6 DEF Removal

LEMMA OwnersIs ==
    ASSUME NEW A, NEW s \in Seq(A)
    PROVE  Owners(s) = {e.i_list : e \in Range(s)}
BY DEF Owners, Range

LEMMA WithoutIs ==
    ASSUME NEW T, Sound(T.M, T.list), NEW gone \in SUBSET Recs
    PROVE  /\ Removal(T, Without(T, gone))
           /\ Range(Without(T, gone).list.i_list) = Range(T.list.i_list) \ gone
           /\ \A r \in Recs \ gone : Without(T, gone).M.i[r] = T.M.i[r]
<1> DEFINE l == T.list.i_list
           cs == T.list.cases
           out == Within(l, gone)
           in == Within(l, Recs \ gone)
           S == {e \in Case : e.i_list \notin gone}
           left == Within(cs, S)
           chain == Reverse(out)
           N == FreeI(T.M, chain)
           U == Without(T, gone)
<1>0. U = [M |-> N, list |-> [i_list |-> in, cases |-> left]]
  BY DEF Without
<1>1. /\ T.M \in Mem /\ l \in Seq(Recs) /\ cs \in Seq(Case) /\ Distinct(T.M.pool) /\ Distinct(l)
      /\ Range(T.M.pool) \cap Range(l) = {} /\ T.M.traced \cap Range(T.M.pool) = {}
      /\ Owners(cs) \subseteq Range(l) /\ \A r \in Range(l) : T.M.i[r].ecount = Count(cs, r)
  BY DEF Sound, Group
<1>2. /\ out \in Seq(Recs) /\ Range(out) = Range(l) \cap gone /\ Distinct(out)
      /\ in \in Seq(Recs) /\ Range(in) = Range(l) \cap (Recs \ gone) /\ Distinct(in)
      /\ left \in Seq(Case) /\ Range(left) = Range(cs) \cap S
  BY <1>1, WithinIs
<1>3. chain \in Seq(Recs) /\ Range(chain) = Range(out) /\ Distinct(chain)
  BY <1>2, ReverseIs
<1>4. Range(l) \in SUBSET Recs
  BY <1>1, RangeIs
<1>5. \A r \in Recs \ gone : Count(left, r) = Count(cs, r) /\ (r \in Owners(cs) => r \in Owners(left))
  <2>. TAKE r \in Recs \ gone
  <2>1. \A x \in Case : x.i_list = r => x \in S
    OBVIOUS
  <2>. QED  BY <1>1, <2>1, CountWithin
<1>6. Owners(left) = Owners(cs) \ gone
  <2>1. Owners(left) = {e.i_list : e \in Range(left)} /\ Owners(cs) = {e.i_list : e \in Range(cs)}
    BY <1>1, <1>2, OwnersIs
  <2>2. Range(cs) \in SUBSET Case
    BY <1>1, RangeIs
  <2>. QED  BY <1>2, <2>1, <2>2
<1> HIDE DEF S, out, in, left, chain
<1>7. Freed(T.M, N, Range(chain))
  <2>1. /\ T.M \in Mem /\ chain \in Seq(Recs) /\ Distinct(T.M.pool) /\ Distinct(chain)
        /\ Range(T.M.pool) \cap Range(chain) = {}
    BY <1>1, <1>2, <1>3
  <2>. QED  BY ONLY <2>1, FreeIs
<1> HIDE DEF N, U, l, cs
<1>8. /\ N \in Mem /\ Distinct(N.pool) /\ Range(N.pool) = Range(T.M.pool) \cup (Range(l) \cap gone)
      /\ N.traced = T.M.traced \ (Range(l) \cap gone) /\ \A r \in Recs \ (Range(l) \cap gone) : N.i[r] = T.M.i[r]
  BY <1>2, <1>3, <1>7 DEF Freed
<1>9. U.M = N /\ U.list \in Group /\ U.list.i_list = in /\ U.list.cases = left
  BY <1>0, <1>2 DEF Group
<1>10. Range(in) = Range(l) \ gone
  BY <1>2, <1>4
<1>11. Sound(N, U.list)
  <2>1. \A r \in Range(in) : N.i[r].ecount = Count(left, r)
    BY <1>1, <1>4, <1>5, <1>8, <1>10
  <2>2. Owners(left) \subseteq Range(in)
    BY <1>1, <1>6, <1>10
  <2>3. Range(N.pool) \cap Range(in) = {} /\ N.traced \cap Range(N.pool) = {}
    BY <1>1, <1>8, <1>10
  <2>. QED  BY <1>2, <1>8, <1>9, <2>1, <2>2, <2>3 DEF Sound
<1>12. \A r \in Recs \ gone : N.i[r] = T.M.i[r]
  BY <1>8
<1>13. Removal(T, U)
  <2>1. \A r \in Range(in) : Lesser(T.M.i[r], N.i[r])
    BY <1>4, <1>10, <1>12 DEF Lesser
  <2>2. Full(T.list) => Full(U.list)
    BY <1>6, <1>9, <1>10 DEF Full, cs, l
  <2>3. Range(l) \ Range(in) = Range(l) \cap gone
    BY <1>10
  <2>4. \A r \in Recs \ Range(l) : N.i[r] = T.M.i[r]
    BY <1>8
  <2>. QED  BY <1>8, <1>9, <1>10, <1>11, <2>1, <2>2, <2>3, <2>4 DEF Removal, l
<1>. QED  BY <1>9, <1>10, <1>12, <1>13 DEF U, l

\* A list and the memory it is in.
Trial == [M : Mem, list : Group]

LEMMA EcmdRemoveStateIs ==
    ASSUME NEW T \in Trial, Sound(T.M, T.list), NEW esPtr, NEW indirect \in BOOLEAN
    PROVE  LET U == EcmdRemoveState(T, esPtr, indirect) IN
           /\ U \in Trial /\ Removal(T, U)
           /\ \A r \in Range(U.list.i_list) : U.M.i[r].variable = None => esPtr \notin Range(U.M.i[r].state_list)
<1> DEFINE l == Range(T.list.i_list)
           hit == {r \in l : indirect \/ T.M.i[r].variable = None}
           Less(a) == [a EXCEPT !.state_list = Within(a.state_list, (Ids \cup {AnyId}) \ {esPtr})]
           i == [r \in Recs |-> IF r \in hit THEN Less(T.M.i[r]) ELSE T.M.i[r]]
           M == [T.M EXCEPT !.i = i]
           V == [T EXCEPT !.M = M]
           gone == {r \in hit : M.i[r].variable = None /\ M.i[r].state_list = <<>>}
           U == EcmdRemoveState(T, esPtr, indirect)
<1>1. U = Without(V, gone)
  BY DEF EcmdRemoveState
<1>2. /\ T.M \in Mem /\ T.list \in Group /\ T.M.i \in [Recs -> Rec] /\ l \in SUBSET Recs
      /\ Distinct(T.M.pool) /\ Distinct(T.list.i_list) /\ Range(T.M.pool) \cap l = {}
      /\ T.M.traced \cap Range(T.M.pool) = {} /\ Owners(T.list.cases) \subseteq l
      /\ \A r \in l : T.M.i[r].ecount = Count(T.list.cases, r)
  <2>1. T.list.i_list \in Seq(Recs)
    BY DEF Sound, Group
  <2>2. l \in SUBSET Recs
    BY <2>1, RangeIs
  <2>. QED  BY <2>2 DEF Sound, Mem
<1>3. \A a \in Rec : /\ Less(a) \in Rec /\ Lesser(a, Less(a)) /\ esPtr \notin Range(Less(a).state_list)
  <2>. TAKE a \in Rec
  <2> DEFINE w == Within(a.state_list, (Ids \cup {AnyId}) \ {esPtr})
  <2>1. w \in Seq(Names) /\ Range(w) = Range(a.state_list) \cap ((Ids \cup {AnyId}) \ {esPtr})
    BY WithinIs DEF Rec
  <2>. HIDE DEF w
  <2>2. Less(a) = [a EXCEPT !.state_list = w]
    BY DEF w
  <2>3. /\ Less(a).variable = a.variable /\ Less(a).ecount = a.ecount /\ Less(a).born = a.born
        /\ Less(a).state_list = w /\ Less(a) \in Rec
    BY <2>1, <2>2 DEF Rec
  <2>. HIDE DEF Less
  <2>. QED  BY <2>1, <2>3 DEF Lesser
<1> HIDE DEF Less
<1>4. i \in [Recs -> Rec] /\ \A r \in Recs : i[r] = IF r \in hit THEN Less(T.M.i[r]) ELSE T.M.i[r]
  BY <1>2, <1>3
<1> HIDE DEF i
<1>5. M = [i |-> i, pool |-> T.M.pool, traced |-> T.M.traced]
  BY <1>2, MemoryIs
<1>6. M \in Mem /\ M.i = i /\ M.pool = T.M.pool /\ M.traced = T.M.traced
  BY <1>2, <1>4, <1>5 DEF Mem
<1> HIDE DEF M
<1>7. V.M = M /\ V.list = T.list
  BY DEF Trial
<1> HIDE DEF V
<1>8. \A r \in l : Lesser(T.M.i[r], i[r])
  <2>. TAKE r \in l
  <2>1. CASE r \in hit
    BY <1>2, <1>3, <1>4, <2>1
  <2>2. CASE r \notin hit
    BY <1>2, <1>4, <2>2 DEF Lesser
  <2>. QED  BY <2>1, <2>2
<1>9. Sound(V.M, V.list)
  BY <1>2, <1>6, <1>7, <1>8 DEF Sound, Lesser
<1>10. Removal(T, V)
  <2>1. \A r \in Recs \ l : i[r] = T.M.i[r]
    BY <1>4
  <2>. QED  BY <1>6, <1>7, <1>8, <1>9, <2>1 DEF Removal
<1>11. gone \in SUBSET Recs
  BY <1>2
<1>12. \A r \in l : r \notin gone /\ i[r].variable = None => esPtr \notin Range(i[r].state_list)
  <2>. TAKE r \in l
  <2>1. CASE r \in hit
    BY <1>2, <1>3, <1>4, <2>1
  <2>2. CASE r \notin hit
    <3>1. i[r] = T.M.i[r] /\ T.M.i[r].variable # None
      BY <1>2, <1>4, <2>2
    <3>. QED  BY <3>1
  <2>. QED  BY <2>1, <2>2
<1> HIDE DEF hit, gone
<1>13. /\ Removal(V, Without(V, gone))
       /\ Range(Without(V, gone).list.i_list) = Range(V.list.i_list) \ gone
       /\ \A r \in Recs \ gone : Without(V, gone).M.i[r] = V.M.i[r]
  BY ONLY <1>9, <1>11, WithoutIs
<1>14. Removal(T, U)
  <2>1. Removal(V, U)
    BY <1>1, <1>13
  <2>. QED  BY ONLY Sound(T.M, T.list), <1>10, <2>1, RemovalTwice
<1>15. U \in Trial
  <2>1. U.M \in Mem /\ U.list \in Group
    BY <1>14 DEF Removal, Sound
  <2>2. U = [M |-> U.M, list |-> U.list]
    BY <1>1 DEF Without
  <2>. HIDE DEF U
  <2>. QED  BY <2>1, <2>2 DEF Trial
<1>16. \A r \in Range(U.list.i_list) : r \in l /\ r \notin gone /\ U.M.i[r] = i[r]
  BY <1>1, <1>2, <1>6, <1>7, <1>13
<1> HIDE DEF U
<1>17. /\ U \in Trial /\ Removal(T, U)
       /\ \A r \in Range(U.list.i_list) : U.M.i[r].variable = None => esPtr \notin Range(U.M.i[r].state_list)
  BY <1>12, <1>14, <1>15, <1>16
<1>. QED  BY <1>17 DEF U

(***************************************************************************)
(* The cases of one list make room for new ones.                           *)
(***************************************************************************)
LEMMA EvictVariableIs ==
    ASSUME NEW T \in Trial, Sound(T.M, T.list), NEW v
    PROVE  EvictVariable(T, v) \in Trial /\ Removal(T, EvictVariable(T, v))
<1> DEFINE gone == {r \in Range(T.list.i_list) : T.M.i[r].variable = v}
           U == Without(T, gone)
<1>1. gone \in SUBSET Recs
  <2>1. T.list.i_list \in Seq(Recs)
    BY DEF Sound, Group
  <2>. QED  BY <2>1, RangeIs
<1>2. EvictVariable(T, v) = U
  BY DEF EvictVariable
<1> HIDE DEF gone
<1>3. Removal(T, U)
  BY <1>1, WithoutIs
<1>4. U \in Trial
  <2>1. U.M \in Mem /\ U.list \in Group
    BY <1>3 DEF Removal, Sound
  <2>2. U = [M |-> U.M, list |-> U.list]
    BY DEF Without
  <2>. HIDE DEF U
  <2>. QED  BY <2>1, <2>2 DEF Trial
<1>. QED  BY <1>2, <1>3, <1>4

EvictNext(U, r, T) == IF T.M.i[r].variable = None THEN U ELSE EvictVariable(U, T.M.i[r].variable)
Evicting == INSTANCE FoldProofs WITH op <- EvictNext, step <- EvictNext

LEMMA EvictIndirectIs ==
    ASSUME NEW T \in Trial, Sound(T.M, T.list), NEW news \in Seq(Recs)
    PROVE  EvictIndirect(T, news) \in Trial /\ Removal(T, EvictIndirect(T, news))
<1> DEFINE S == {U \in Trial : Removal(T, U)}
<1>1. EvictIndirect(T, news) = Evicting!Fold(T, news, T)
  BY DEF EvictIndirect, Evicting!Fold, EvictNext, FoldLeft, MapThenFoldSet, Evicting!FoldLeft,
         Evicting!MapThenFoldSet, Max, Evicting!Max
<1>2. T \in S
  BY RemovalTrivial
<1>3. ASSUME NEW U \in S, NEW k \in 1..Len(news) PROVE EvictNext(U, news[k], T) \in S
  <2>1. U \in Trial /\ Sound(U.M, U.list) /\ Removal(T, U)
    BY DEF Removal
  <2>2. CASE T.M.i[news[k]].variable = None
    BY <2>2 DEF EvictNext
  <2>3. CASE T.M.i[news[k]].variable # None
    <3> DEFINE v == T.M.i[news[k]].variable
    <3>1. EvictNext(U, news[k], T) = EvictVariable(U, v)
      BY <2>3 DEF EvictNext
    <3>. HIDE DEF v
    <3>2. EvictVariable(U, v) \in Trial /\ Removal(U, EvictVariable(U, v))
      BY <2>1, EvictVariableIs
    <3>3. Removal(T, EvictVariable(U, v))
      BY ONLY Sound(T.M, T.list), <2>1, <3>2, RemovalTwice
    <3>. QED  BY <3>1, <3>2, <3>3
  <2>. QED  BY <2>2, <2>3
<1>4. Len(news) \in Nat /\ DOMAIN news = 1..Len(news)
  OBVIOUS
<1> HIDE DEF S
<1>5. Evicting!Fold(T, news, T) \in S
  BY ONLY <1>2, <1>3, <1>4, Evicting!FoldStays
<1>. QED  BY <1>1, <1>5 DEF S

\* No record of the list that was given for spawn ids has em.
Lacks(T, em) ==
    \A r \in Range(T.list.i_list) : T.M.i[r].variable = None => em \notin Range(T.M.i[r].state_list)

LEMMA LacksStays ==
    ASSUME NEW T, NEW U, NEW em, Lacks(T, em), Removal(T, U)
    PROVE  Lacks(U, em)
BY DEF Lacks, Removal, Lesser

Evicted == [ok : BOOLEAN, T : Trial]

EvictOne(V, em, d) ==
    IF V.ok /\ em \in open \cup {AnyId} THEN [ok |-> TRUE, T |-> EcmdRemoveState(V.T, em, FALSE)]
    ELSE [V EXCEPT !.ok = FALSE]
Leaving == INSTANCE FoldProofs WITH op <- EvictOne, step <- EvictOne

\* The list has made room for the spawn ids of s.
Leaves(U, W, s) ==
    /\ W \in Evicted /\ Removal(U.T, W.T)
    /\ W.ok => U.ok /\ \A em \in Range(s) : Lacks(W.T, em)

LEMMA LeavesAll ==
    ASSUME NEW U \in Evicted, Sound(U.T.M, U.T.list), NEW s \in Seq(Names)
    PROVE  Leaves(U, Leaving!Fold(U, s, 0), s)
<1> DEFINE F(q) == Leaving!Fold(U, q, 0)
           T == {q \in Seq(Names) : Leaves(U, F(q), q)}
<1>1. <<>> \in T
  <2>1. 1 \in {1} /\ <<>> \in Seq({1}) /\ <<>> \in Seq(Names) /\ Range(<<>>) = {}
    BY DEF Range
  <2>2. F(<<>>) = U
    BY ONLY <2>1, Leaving!FoldAppend
  <2>3. Removal(U.T, U.T)
    BY RemovalTrivial
  <2>. HIDE DEF F
  <2>. QED  BY <2>1, <2>2, <2>3 DEF Leaves
<1>2. ASSUME NEW q \in Seq(Names), NEW em \in Names, q \in T PROVE Append(q, em) \in T
  <2>1. F(Append(q, em)) = EvictOne(F(q), em, 0)
    BY ONLY <1>2, Leaving!FoldAppend
  <2>2. Append(q, em) \in Seq(Names) /\ Range(Append(q, em)) = Range(q) \cup {em}
    BY <1>2, RangeAppend
  <2>3. Leaves(U, F(q), q)
    BY <1>2
  <2> DEFINE V == F(q)
             W == F(Append(q, em))
  <2>. HIDE DEF F
  <2>4. V \in Evicted /\ Removal(U.T, V.T) /\ Sound(V.T.M, V.T.list) /\ V.T \in Trial
    BY <2>3 DEF Leaves, Removal, Evicted
  <2>5. CASE V.ok /\ em \in open \cup {AnyId}
    <3> DEFINE X == EcmdRemoveState(V.T, em, FALSE)
    <3>1. W = [ok |-> TRUE, T |-> X]
      BY <2>1, <2>5 DEF EvictOne
    <3>2. /\ X \in Trial /\ Removal(V.T, X)
          /\ \A r \in Range(X.list.i_list) : X.M.i[r].variable = None => em \notin Range(X.M.i[r].state_list)
      BY <2>4, EcmdRemoveStateIs
    <3>. HIDE DEF X
    <3>3. Lacks(X, em)
      BY <3>2 DEF Lacks
    <3>4. Removal(U.T, X)
      BY ONLY Sound(U.T.M, U.T.list), <2>4, <3>2, RemovalTwice
    <3>5. \A a \in Range(q) : Lacks(X, a)
      BY <2>3, <2>5, <3>2, LacksStays DEF Leaves
    <3>6. Leaves(U, W, Append(q, em))
      BY <2>2, <2>3, <2>5, <3>1, <3>2, <3>3, <3>4, <3>5 DEF Leaves, Evicted
    <3>. QED  BY <2>2, <3>6
  <2>6. CASE ~(V.ok /\ em \in open \cup {AnyId})
    <3>1. W = [V EXCEPT !.ok = FALSE]
      BY <2>1, <2>6 DEF EvictOne
    <3>2. W \in Evicted /\ W.T = V.T /\ ~W.ok
      BY <2>4, <3>1 DEF Evicted
    <3>3. Leaves(U, W, Append(q, em))
      BY <2>4, <3>2 DEF Leaves
    <3>. QED  BY <2>2, <3>3
  <2>. QED  BY <2>5, <2>6
<1> HIDE DEF T
<1>3. s \in T
  BY ONLY <1>1, <1>2, AllSequences
<1>. QED  BY <1>3 DEF T

RoomFor(U, r, T) ==
    FoldLeft(LAMBDA V, em :
            IF V.ok /\ em \in open \cup {AnyId}
            THEN [ok |-> TRUE, T |-> EcmdRemoveState(V.T, em, FALSE)]
            ELSE [V EXCEPT !.ok = FALSE],
        U, IF T.M.i[r].variable = None THEN T.M.i[r].state_list ELSE <<>>)
Rooming == INSTANCE FoldProofs WITH op <- RoomFor, step <- RoomFor

\* The list has made room for the records of news that are given for spawn ids.
Roomy(T, D, news) ==
    /\ D \in Evicted /\ Removal(T, D.T)
    /\ D.ok => \A r \in Range(news) : T.M.i[r].variable = None =>
                   \A em \in Range(T.M.i[r].state_list) : Lacks(D.T, em)

LEMMA EvictDirectIs ==
    ASSUME NEW T \in Trial, Sound(T.M, T.list), NEW news \in Seq(Recs)
    PROVE  Roomy(T, EvictDirect(T, news), news)
<1> DEFINE base == [ok |-> TRUE, T |-> T]
           F(q) == Rooming!Fold(base, q, T)
           S == {q \in Seq(Recs) : Roomy(T, F(q), q)}
<1>1. EvictDirect(T, news) = F(news)
  BY DEF EvictDirect, Rooming!Fold, RoomFor, FoldLeft, MapThenFoldSet, Rooming!FoldLeft,
         Rooming!MapThenFoldSet, Max, Rooming!Max
<1>2. base \in Evicted /\ base.T = T /\ Removal(T, base.T)
  BY RemovalTrivial DEF Evicted
<1> HIDE DEF base
<1>3. <<>> \in S
  <2>1. 1 \in {1} /\ <<>> \in Seq({1}) /\ <<>> \in Seq(Recs) /\ Range(<<>>) = {}
    BY DEF Range
  <2>2. F(<<>>) = base
    BY ONLY <2>1, Rooming!FoldAppend
  <2>. HIDE DEF F
  <2>. QED  BY <1>2, <2>1, <2>2 DEF Roomy
<1>4. ASSUME NEW q \in Seq(Recs), NEW r \in Recs, q \in S PROVE Append(q, r) \in S
  <2> DEFINE U == F(q)
             W == F(Append(q, r))
             s == IF T.M.i[r].variable = None THEN T.M.i[r].state_list ELSE <<>>
  <2>1. W = RoomFor(U, r, T)
    BY ONLY <1>4, Rooming!FoldAppend
  <2>2. Append(q, r) \in Seq(Recs) /\ Range(Append(q, r)) = Range(q) \cup {r}
    BY <1>4, RangeAppend
  <2>3. Roomy(T, U, q)
    BY <1>4
  <2>. HIDE DEF F
  <2>4. RoomFor(U, r, T) = Leaving!Fold(U, s, 0)
    BY DEF RoomFor, Leaving!Fold, EvictOne, FoldLeft, MapThenFoldSet, Leaving!FoldLeft,
           Leaving!MapThenFoldSet, Max, Leaving!Max
  <2>5. U \in Evicted /\ Removal(T, U.T) /\ Sound(U.T.M, U.T.list)
    BY <2>3 DEF Roomy, Removal
  <2>6. T.M.i[r] \in Rec /\ T.M.i[r].state_list \in Seq(Names)
    BY DEF Trial, Mem, Rec
  <2>7. s \in Seq(Names)
    BY <2>6
  <2> HIDE DEF s
  <2>8. Leaves(U, W, s)
    <3>1. Leaves(U, Leaving!Fold(U, s, 0), s)
      BY <2>5, <2>7, LeavesAll
    <3>. QED  BY <2>1, <2>4, <3>1
  <2> HIDE DEF U, W
  <2>9. W \in Evicted /\ Removal(U.T, W.T)
    BY <2>8 DEF Leaves
  <2>10. Removal(T, W.T)
    BY ONLY Sound(T.M, T.list), <2>5, <2>9, RemovalTwice
  <2>11. ASSUME W.ok, NEW p \in Range(Append(q, r)), T.M.i[p].variable = None, NEW em \in Range(T.M.i[p].state_list)
         PROVE  Lacks(W.T, em)
    <3>1. CASE p \in Range(q)
      <4>1. Lacks(U.T, em)
        BY <2>3, <2>8, <2>11, <3>1 DEF Leaves, Roomy
      <4>. QED  BY <2>9, <4>1, LacksStays
    <3>2. CASE p = r
      BY <2>8, <2>11, <3>2 DEF Leaves, s
    <3>. QED  BY <2>2, <3>1, <3>2
  <2>12. Roomy(T, W, Append(q, r))
    BY <2>9, <2>10, <2>11 DEF Roomy
  <2>. QED  BY <2>2, <2>12 DEF W
<1> HIDE DEF S
<1>5. news \in S
  BY ONLY <1>3, <1>4, AllSequences
<1>. QED  BY <1>1, <1>5 DEF S

(***************************************************************************)
(* Parsing.                                                                *)
(***************************************************************************)
LEMMA StatesIs ==
    ASSUME NEW names \in Seq(Names)
    PROVE  States(names) \in Seq(Names)
<1> DEFINE bad == {k \in DOMAIN names : names[k] \notin open \cup {AnyId}}
           m == IF bad = {} THEN Len(names) ELSE Min(bad) - 1
<1>1. Len(names) \in Nat /\ DOMAIN names = 1..Len(names)
  OBVIOUS
<1>2. m \in 0..Len(names)
  <2>1. CASE bad # {}
    <3>1. bad \in SUBSET Nat /\ bad \in SUBSET (1..Len(names))
      BY <1>1
    <3>2. m = Min(bad) - 1
      BY <2>1
    <3>. HIDE DEF bad, m
    <3>3. PICK x \in bad : \A y \in bad : x <= y
      BY <2>1, <3>1, Picking!Least
    <3>4. Min(bad) \in bad
      BY <3>3 DEF Min
    <3>5. Min(bad) \in 1..Len(names)
      BY <3>1, <3>4
    <3>. QED  BY <1>1, <3>2, <3>5
  <2>2. CASE bad = {}
    BY <1>1, <2>2
  <2>. QED  BY <2>1, <2>2
<1>3. States(names) = Reverse(SubSeq(names, 1, m))
  BY DEF States
<1> HIDE DEF m
<1>4. SubSeq(names, 1, m) \in Seq(Names)
  BY <1>1, <1>2
<1>. QED  BY <1>3, <1>4, ReverseIs

Drafts == [M : Mem, eg : Group, status : {"ok", "error", "return", "bound"}]

\* What is there while a command is parsed: its records come from the pool, and
\* those before it are what they were.
Draft(S) ==
    /\ S \in Drafts /\ Sound(S.M, S.eg)
    /\ Range(S.M.pool) \cup Range(S.eg.i_list) = Range(pool)
    /\ \A r \in Recs \ Range(pool) : S.M.i[r] = exp_i[r]
    /\ S.M.traced = traced \cup {r \in Range(S.eg.i_list) : S.M.i[r].variable # None}
    /\ \A r \in Range(S.eg.i_list) : S.M.i[r].born = calls + 1

\* What a command that failed leaves.
Undone(M) ==
    /\ M \in Mem /\ Distinct(M.pool) /\ Range(M.pool) = Range(pool)
    /\ M.traced = traced
    /\ \A r \in Recs \ Range(pool) : M.i[r] = exp_i[r]

\* The state the commands are given in.
Ready ==
    /\ Memory \in Mem /\ Distinct(pool) /\ traced \cap Range(pool) = {}
    /\ calls \in Nat /\ value \in [Vars -> Seq(Names)]

LEMMA Given ==
    ASSUME NEW M \in Mem, Distinct(M.pool), NEW g \in Group, Sound(M, g), M.pool # <<>>,
           NEW variable \in Vars \cup {None}, NEW list \in Seq(Names), NEW states \in Seq(Names), calls \in Nat
    PROVE  LET N == NewI(M, variable, list, states)
               r == Head(M.pool)
           IN  /\ Taken(M, N, r) /\ r \notin Range(g.i_list) /\ r \notin M.traced
               /\ N.i[r].variable = variable /\ N.i[r].ecount = 0 /\ N.i[r].born = calls + 1
               /\ <<r>> \o g.i_list \in Seq(Recs) /\ Range(<<r>> \o g.i_list) = Range(g.i_list) \cup {r}
               /\ Distinct(<<r>> \o g.i_list)
               /\ Count(g.cases, r) = 0
<1> DEFINE N == NewI(M, variable, list, states)
           r == Head(M.pool)
<1>1. /\ Taken(M, N, r)
      /\ N.i[r] = [variable |-> variable, value |-> list, state_list |-> states, ecount |-> 0, born |-> calls + 1]
  BY NewIs
<1> HIDE DEF N
<1>2. r \in Recs /\ r \in Range(M.pool)
  BY <1>1 DEF Taken
<1> HIDE DEF r
<1>3. /\ g.i_list \in Seq(Recs) /\ Distinct(g.i_list) /\ r \notin Range(g.i_list) /\ r \notin M.traced
      /\ Owners(g.cases) \subseteq Range(g.i_list) /\ g.cases \in Seq(Case)
  BY <1>2 DEF Sound, Group
<1>4. <<r>> \in Seq(Recs) /\ Range(<<r>>) = {r} /\ Distinct(<<r>>)
  BY <1>2 DEF Range, Distinct
<1>5. /\ <<r>> \o g.i_list \in Seq(Recs) /\ Range(<<r>> \o g.i_list) = Range(<<r>>) \cup Range(g.i_list)
      /\ Distinct(<<r>> \o g.i_list) <=> Distinct(<<r>>) /\ Distinct(g.i_list) /\ Range(<<r>>) \cap Range(g.i_list) = {}
  BY ONLY <1>3, <1>4, RangeConcat
<1>6. Count(g.cases, r) = 0
  <2>1. r \notin Owners(g.cases)
    BY <1>3
  <2>2. CASE g.cases = <<>>
    BY <2>2, CountNone
  <2>3. CASE g.cases # <<>>
    <3>1. PICK e \in Case : TRUE
      BY <1>3, <2>3, HeadIs
    <3>2. Count(g.cases, r) = 0 <=> r \notin Owners(g.cases)
      BY ONLY <1>3, <3>1, CountAppend
    <3>. QED  BY <2>1, <3>2
  <2>. QED  BY <2>2, <2>3
<1>7. /\ N.i[r].variable = variable /\ N.i[r].ecount = 0 /\ N.i[r].born = calls + 1
  BY <1>1
<1>. QED  BY <1>1, <1>3, <1>4, <1>5, <1>6, <1>7 DEF N, r

\* A draft with one field changed, and with two.
LEMMA DraftStatus ==
    ASSUME NEW S \in Drafts, NEW c
    PROVE  [S EXCEPT !.status = c] = [M |-> S.M, eg |-> S.eg, status |-> c]
<1>1. PICK M, l, cs, st : S = [M |-> M, eg |-> [i_list |-> l, cases |-> cs], status |-> st]
  <2>1. S.eg = [i_list |-> S.eg.i_list, cases |-> S.eg.cases]
    BY DEF Drafts, Group
  <2> DEFINE e == [i_list |-> S.eg.i_list, cases |-> S.eg.cases]
  <2>2. S = [M |-> S.M, eg |-> e, status |-> S.status]
    BY <2>1 DEF Drafts
  <2>. QED  BY <2>2
<1>. QED  BY <1>1

LEMMA DraftMemory ==
    ASSUME NEW S \in Drafts, NEW a
    PROVE  [S EXCEPT !.M = a] = [M |-> a, eg |-> S.eg, status |-> S.status]
<1>1. PICK M, l, cs, st : S = [M |-> M, eg |-> [i_list |-> l, cases |-> cs], status |-> st]
  <2>1. S.eg = [i_list |-> S.eg.i_list, cases |-> S.eg.cases]
    BY DEF Drafts, Group
  <2> DEFINE e == [i_list |-> S.eg.i_list, cases |-> S.eg.cases]
  <2>2. S = [M |-> S.M, eg |-> e, status |-> S.status]
    BY <2>1 DEF Drafts
  <2>. QED  BY <2>2
<1>. QED  BY <1>1

LEMMA DraftBoth ==
    ASSUME NEW S \in Drafts, NEW a, NEW c
    PROVE  [S EXCEPT !.M = a, !.status = c] = [M |-> a, eg |-> S.eg, status |-> c]
<1> DEFINE U == [M |-> a, eg |-> S.eg, status |-> S.status]
<1>1. [S EXCEPT !.M = a] = U
  BY DraftMemory
<1>2. [S EXCEPT !.M = a, !.status = c] = [U EXCEPT !.status = c]
  BY <1>1
<1>. QED  BY <1>2

LEMMA DraftList ==
    ASSUME NEW S \in Drafts, NEW a, NEW b
    PROVE  [S EXCEPT !.M = a, !.eg.i_list = b] =
                [M |-> a, eg |-> [i_list |-> b, cases |-> S.eg.cases], status |-> S.status]
<1> DEFINE U == [M |-> a, eg |-> S.eg, status |-> S.status]
<1>1. [S EXCEPT !.M = a] = U
  BY DraftMemory
<1>2. [S EXCEPT !.M = a, !.eg.i_list = b] = [U EXCEPT !.eg.i_list = b]
  BY <1>1
<1>3. S.eg = [i_list |-> S.eg.i_list, cases |-> S.eg.cases]
  BY DEF Drafts, Group
<1>4. [S.eg EXCEPT !.i_list = b] = [i_list |-> b, cases |-> S.eg.cases]
  BY <1>3
<1>. QED  BY <1>2, <1>4

LEMMA DraftLonger ==
    ASSUME NEW S \in Drafts, NEW a, NEW b
    PROVE  [S EXCEPT !.M = a, !.eg.i_list = b \o @] =
                [M |-> a, eg |-> [i_list |-> b \o S.eg.i_list, cases |-> S.eg.cases], status |-> S.status]
<1> DEFINE U == [M |-> a, eg |-> S.eg, status |-> S.status]
           d == b \o S.eg.i_list
<1>1. [S EXCEPT !.M = a] = U
  BY DraftMemory
<1>2. [S EXCEPT !.M = a, !.eg.i_list = b \o @] = [U EXCEPT !.eg.i_list = d]
  BY <1>1
<1>. HIDE DEF d
<1>3. S.eg = [i_list |-> S.eg.i_list, cases |-> S.eg.cases]
  BY DEF Drafts, Group
<1>4. [S.eg EXCEPT !.i_list = d] = [i_list |-> d, cases |-> S.eg.cases]
  BY <1>3
<1>5. [U EXCEPT !.eg.i_list = d] =
        [M |-> a, eg |-> [i_list |-> d, cases |-> S.eg.cases], status |-> S.status]
  BY <1>4
<1>. QED  BY <1>2, <1>5 DEF d

LEMMA CaseAdded ==
    ASSUME NEW S \in Drafts, NEW r \in Recs, NEW e
    PROVE  [S EXCEPT !.M.i[r].ecount = @ + 1, !.eg.cases = Append(@, e)] =
                [M |-> [i |-> [S.M.i EXCEPT ![r] = [S.M.i[r] EXCEPT !.ecount = S.M.i[r].ecount + 1]],
                        pool |-> S.M.pool, traced |-> S.M.traced],
                 eg |-> [i_list |-> S.eg.i_list, cases |-> Append(S.eg.cases, e)],
                 status |-> S.status]
<1> DEFINE j == [S.M.i EXCEPT ![r] = [S.M.i[r] EXCEPT !.ecount = S.M.i[r].ecount + 1]]
           N == [i |-> j, pool |-> S.M.pool, traced |-> S.M.traced]
           U == [M |-> N, eg |-> S.eg, status |-> S.status]
<1>0. S.M \in Mem /\ S.eg \in Group
  BY DEF Drafts
<1>1. S.M = [i |-> S.M.i, pool |-> S.M.pool, traced |-> S.M.traced]
  BY <1>0 DEF Mem
<1>2. S.eg = [i_list |-> S.eg.i_list, cases |-> S.eg.cases]
  BY <1>0 DEF Group
<1>3. [S.M EXCEPT !.i[r].ecount = @ + 1] = N
  <2>1. [S.M.i EXCEPT ![r].ecount = @ + 1] = j
    OBVIOUS
  <2>2. [S.M EXCEPT !.i[r].ecount = @ + 1] = [S.M EXCEPT !.i = j]
    BY <2>1
  <2>. HIDE DEF j
  <2>3. [S.M EXCEPT !.i = j] = N
    BY <1>0, MemoryIs
  <2>. QED  BY <2>2, <2>3
<1>4. [S EXCEPT !.M.i[r].ecount = @ + 1] = U
  <2>1. [S EXCEPT !.M.i[r].ecount = @ + 1] = [S EXCEPT !.M = N]
    BY <1>3
  <2>. HIDE DEF N
  <2>2. [S EXCEPT !.M = N] = U
    BY DraftMemory
  <2>. QED  BY <2>1, <2>2
<1>5. [U EXCEPT !.eg.cases = Append(@, e)] =
         [M |-> N, eg |-> [i_list |-> S.eg.i_list, cases |-> Append(S.eg.cases, e)], status |-> S.status]
  <2> DEFINE d == Append(S.eg.cases, e)
  <2>. HIDE DEF N
  <2>1. [U EXCEPT !.eg.cases = Append(@, e)] = [U EXCEPT !.eg.cases = d]
    OBVIOUS
  <2>. HIDE DEF d
  <2>2. [S.eg EXCEPT !.cases = d] = [i_list |-> S.eg.i_list, cases |-> d]
    BY <1>2
  <2>3. [U EXCEPT !.eg.cases = d] =
          [M |-> N, eg |-> [i_list |-> S.eg.i_list, cases |-> d], status |-> S.status]
    BY <2>2
  <2>. QED  BY <2>1, <2>3 DEF d
<1>6. [S EXCEPT !.M.i[r].ecount = @ + 1, !.eg.cases = Append(@, e)] = [U EXCEPT !.eg.cases = Append(@, e)]
  BY <1>4
<1>. QED  BY <1>5, <1>6

\* N is the memory of S after the record r, for the variable v or for spawn ids,
\* was taken from the pool for its list.
Longer(S, r) == [i_list |-> <<r>> \o S.eg.i_list, cases |-> S.eg.cases]
Grown(S, N, r, v) ==
    /\ N \in Mem /\ r \in Recs /\ Sound(N, Longer(S, r)) /\ Longer(S, r) \in Group
    /\ Range(Longer(S, r).i_list) = Range(S.eg.i_list) \cup {r} /\ r \notin Range(S.eg.i_list)
    /\ Range(S.M.pool) = Range(N.pool) \cup {r} /\ r \notin Range(N.pool)
    /\ N.traced = S.M.traced /\ r \notin S.M.traced
    /\ \A q \in Recs \ {r} : N.i[q] = S.M.i[q]
    /\ N.i[r].variable = v /\ N.i[r].born = calls + 1

LEMMA Drafted ==
    ASSUME NEW S, Draft(S), calls \in Nat, S.M.pool # <<>>, NEW variable \in Vars \cup {None},
           NEW list \in Seq(Names), NEW states \in Seq(Names)
    PROVE  Grown(S, NewI(S.M, variable, list, states), Head(S.M.pool), variable)
<1> DEFINE N == NewI(S.M, variable, list, states)
           r == Head(S.M.pool)
           g == Longer(S, r)
<1>1. S.M \in Mem /\ Distinct(S.M.pool) /\ S.eg \in Group /\ Sound(S.M, S.eg)
  BY DEF Draft, Sound
<1>2. /\ Taken(S.M, N, r) /\ r \notin Range(S.eg.i_list) /\ r \notin S.M.traced
      /\ N.i[r].variable = variable /\ N.i[r].ecount = 0 /\ N.i[r].born = calls + 1
      /\ <<r>> \o S.eg.i_list \in Seq(Recs) /\ Range(<<r>> \o S.eg.i_list) = Range(S.eg.i_list) \cup {r}
      /\ Distinct(<<r>> \o S.eg.i_list)
      /\ Count(S.eg.cases, r) = 0
  BY <1>1, Given
<1> HIDE DEF N, r
<1>3. g \in Group /\ g.i_list = <<r>> \o S.eg.i_list /\ g.cases = S.eg.cases
  BY <1>1, <1>2 DEF Group, Longer
<1> HIDE DEF g
<1>4. Range(S.eg.i_list) \in SUBSET Recs
  BY <1>1, RangeIs DEF Group
<1>5. Sound(N, g)
  <2>1. /\ S.M.traced \cap Range(S.M.pool) = {} /\ Range(S.M.pool) \cap Range(S.eg.i_list) = {}
        /\ Owners(S.eg.cases) \subseteq Range(S.eg.i_list)
        /\ \A q \in Range(S.eg.i_list) : S.M.i[q].ecount = Count(S.eg.cases, q)
    BY ONLY <1>1 DEF Sound
  <2>2. /\ N \in Mem /\ Distinct(N.pool) /\ r \notin Range(N.pool) /\ N.traced = S.M.traced
        /\ Range(S.M.pool) = Range(N.pool) \cup {r}
        /\ \A q \in Recs \ {r} : N.i[q] = S.M.i[q]
    BY ONLY <1>2 DEF Taken
  <2>3. Range(g.i_list) = Range(S.eg.i_list) \cup {r} /\ Distinct(g.i_list) /\ r \notin Range(S.eg.i_list)
    BY ONLY <1>2, <1>3
  <2>4. Range(N.pool) \cap Range(g.i_list) = {} /\ N.traced \cap Range(N.pool) = {}
    BY ONLY <2>1, <2>2, <2>3
  <2>5. Owners(g.cases) \subseteq Range(g.i_list)
    BY ONLY <1>3, <2>1, <2>3
  <2>6. \A q \in Range(g.i_list) : N.i[q].ecount = Count(g.cases, q)
    BY ONLY <1>2, <1>3, <1>4, <2>1, <2>2, <2>3
  <2>. QED  BY ONLY <1>3, <2>2, <2>3, <2>4, <2>5, <2>6 DEF Sound
<1>. QED  BY <1>2, <1>3, <1>5 DEF Taken, Grown, N, r, g

LEMMA FlaggedIs ==
    ASSUME NEW S, Draft(S), Ready, NEW i \in Ids \cup {AnyId, None} \cup Vars
    PROVE  Draft(Flagged(S, i))
<1> DEFINE names == IF i \in Vars THEN value[i] ELSE <<i>>
           v == IF i \in Vars THEN i ELSE None
           r == Head(S.M.pool)
           N == NewI(S.M, v, names, States(names))
           g == Longer(S, r)
           F == Flagged(S, i)
<1>0. S \in Drafts /\ S.M \in Mem /\ Sound(S.M, S.eg)
  BY DEF Draft, Drafts
<1>1. CASE i = None
  BY <1>1 DEF Flagged
<1>2. CASE i # None /\ S.M.pool = <<>>
  <2>1. F = [S EXCEPT !.status = "bound"]
    BY <1>2 DEF Flagged
  <2>2. F = [M |-> S.M, eg |-> S.eg, status |-> "bound"]
    BY <1>0, <2>1, DraftStatus
  <2>. HIDE DEF F
  <2>3. F \in Drafts /\ F.M = S.M /\ F.eg = S.eg
    BY <1>0, <2>2 DEF Drafts
  <2>4. Draft(F)
    BY <2>3 DEF Draft
  <2>. QED  BY <2>4 DEF F
<1>3. CASE i # None /\ S.M.pool # <<>>
  <2>1. names \in Seq(Names) /\ v \in Vars \cup {None} /\ calls \in Nat
    <3>1. i \in Vars => value[i] \in Seq(Names)
      BY DEF Ready
    <3>2. i \notin Vars => i \in Names
      BY <1>3 DEF Names
    <3>. QED  BY <3>1, <3>2 DEF Ready
  <2>2. States(names) \in Seq(Names)
    BY <2>1, StatesIs
  <2>3. /\ N \in Mem /\ r \in Recs /\ Sound(N, g) /\ g \in Group
        /\ Range(g.i_list) = Range(S.eg.i_list) \cup {r} /\ r \notin Range(S.eg.i_list)
        /\ Range(S.M.pool) = Range(N.pool) \cup {r} /\ r \notin Range(N.pool)
        /\ N.traced = S.M.traced /\ r \notin S.M.traced
        /\ \A q \in Recs \ {r} : N.i[q] = S.M.i[q]
        /\ N.i[r].variable = v /\ N.i[r].born = calls + 1
    <3> DEFINE st == States(names)
    <3>. HIDE DEF names, v, st
    <3>1. Draft(S) /\ calls \in Nat /\ S.M.pool # <<>> /\ v \in Vars \cup {None} /\ names \in Seq(Names) /\ st \in Seq(Names)
      BY <1>3, <2>1, <2>2 DEF st
    <3>2. Grown(S, NewI(S.M, v, names, st), Head(S.M.pool), v)
      BY ONLY <3>1, Drafted
    <3>. QED  BY <3>2 DEF st, Grown
  <2>a. /\ Range(S.M.pool) \cup Range(S.eg.i_list) = Range(pool)
        /\ \A q \in Recs \ Range(pool) : S.M.i[q] = exp_i[q]
        /\ S.M.traced = traced \cup {q \in Range(S.eg.i_list) : S.M.i[q].variable # None}
        /\ \A q \in Range(S.eg.i_list) : S.M.i[q].born = calls + 1
        /\ Range(S.eg.i_list) \in SUBSET Recs /\ S.status \in {"ok", "error", "return", "bound"}
    <3>1. S.eg.i_list \in Seq(Recs)
      BY <1>0 DEF Sound, Group
    <3>2. Range(S.eg.i_list) \in SUBSET Recs
      BY <3>1, RangeIs
    <3>. QED  BY <3>2 DEF Draft, Drafts
  <2>b. F = IF ~Valid(names) THEN [S EXCEPT !.M = FreeI(N, <<r>>), !.status = "error"]
            ELSE [S EXCEPT !.M = IF i \in Vars THEN [N EXCEPT !.traced = N.traced \cup {r}] ELSE N,
                           !.eg.i_list = <<r>> \o @]
    BY <1>3 DEF Flagged
  <2> HIDE DEF N
  <2>4. CASE ~Valid(names)
    <3> DEFINE K == FreeI(N, <<r>>)
    <3>1. F = [M |-> K, eg |-> S.eg, status |-> "error"]
      <4>1. F = [S EXCEPT !.M = K, !.status = "error"]
        BY <2>4, <2>b
      <4>. HIDE DEF K, F
      <4>2. [S EXCEPT !.M = K, !.status = "error"] = [M |-> K, eg |-> S.eg, status |-> "error"]
        BY ONLY <1>0, DraftBoth
      <4>. QED  BY <4>1, <4>2
    <3>a. r \in Recs
      BY <2>3
    <3>2. <<r>> \in Seq(Recs) /\ Range(<<r>>) = {r} /\ Distinct(<<r>>)
      BY ONLY <3>a, SingleIs
    <3>3. N \in Mem /\ Distinct(N.pool) /\ Range(N.pool) \cap Range(<<r>>) = {}
      BY <2>3, <3>2 DEF Sound
    <3> HIDE DEF r
    <3>4. Freed(N, K, Range(<<r>>))
      BY ONLY <3>2, <3>3, FreeIs
    <3> HIDE DEF K, F, g
    <3>5. /\ K \in Mem /\ Distinct(K.pool) /\ Range(K.pool) = Range(S.M.pool) /\ K.traced = S.M.traced
          /\ \A q \in Recs \ {r} : K.i[q] = S.M.i[q]
      BY <2>3, <3>2, <3>4 DEF Freed
    <3>6. r \in Range(pool)
      BY <2>3, <2>a
    <3>7. F \in Drafts /\ F.M = K /\ F.eg = S.eg
      BY <1>0, <3>1, <3>5 DEF Drafts
    <3>8. Sound(K, S.eg)
      BY <1>0, <2>3, <2>a, <3>5 DEF Sound
    <3>9. Draft(F)
      BY <2>3, <2>a, <3>5, <3>6, <3>7, <3>8 DEF Draft
    <3>. QED  BY <3>9 DEF F
  <2>5. CASE Valid(names)
    <3> DEFINE t == IF i \in Vars THEN N.traced \cup {r} ELSE N.traced
               K == [i |-> N.i, pool |-> N.pool, traced |-> t]
               L == IF i \in Vars THEN [N EXCEPT !.traced = N.traced \cup {r}] ELSE N
    <3>1. N = [i |-> N.i, pool |-> N.pool, traced |-> N.traced]
      BY <2>3 DEF Mem
    <3>2. L = K
      BY <3>1
    <3>3. F = [S EXCEPT !.M = L, !.eg.i_list = <<r>> \o @]
      BY <2>5, <2>b
    <3> HIDE DEF L, F
    <3>4. F = [M |-> L, eg |-> g, status |-> S.status]
      <4>1. [S EXCEPT !.M = L, !.eg.i_list = <<r>> \o @] =
              [M |-> L, eg |-> [i_list |-> <<r>> \o S.eg.i_list, cases |-> S.eg.cases], status |-> S.status]
        BY ONLY <1>0, DraftLonger
      <4>. QED  BY <3>3, <4>1 DEF Longer
    <3>5. K \in Mem /\ K.i = N.i /\ K.pool = N.pool /\ K.traced = t
      BY <2>3 DEF Mem
    <3> HIDE DEF r, K, F, g, names
    <3>6. F \in Drafts /\ F.M = K /\ F.eg = g
      BY <2>3, <2>a, <3>2, <3>4, <3>5 DEF Drafts
    <3>7. Sound(K, g)
      BY <2>3, <3>5 DEF Sound
    <3>8. Range(K.pool) \cup Range(g.i_list) = Range(pool)
      BY <2>3, <2>a, <3>5
    <3>9. \A q \in Recs \ Range(pool) : K.i[q] = exp_i[q]
      BY <2>3, <2>a, <3>5
    <3>10. K.traced = traced \cup {q \in Range(g.i_list) : K.i[q].variable # None}
      <4>1. t = S.M.traced \cup (IF v # None THEN {r} ELSE {})
        BY <2>3, CasesAssumption
      <4>2. \A q \in Range(S.eg.i_list) : K.i[q] = S.M.i[q]
        BY <2>3, <2>a, <3>5
      <4>3. K.i[r].variable = v
        BY <2>3, <3>5
      <4> HIDE DEF t, v
      <4>. QED  BY <2>3, <2>a, <3>5, <4>1, <4>2, <4>3
    <3>11. \A q \in Range(g.i_list) : K.i[q].born = calls + 1
      BY <2>3, <2>a, <3>5
    <3>12. Draft(F)
      BY <3>6, <3>7, <3>8, <3>9, <3>10, <3>11 DEF Draft
    <3>. QED  BY <3>12 DEF F
  <2>. QED  BY <2>4, <2>5
<1>. QED  BY <1>1, <1>2, <1>3

LEMMA DefaultedIs ==
    ASSUME NEW S, Draft(S), Ready, NEW cur \in Ids \cup {None}
    PROVE  /\ Draft(Defaulted(S, cur))
           /\ Defaulted(S, cur).status = "ok" => Defaulted(S, cur).eg.i_list # <<>>
<1> DEFINE r == Head(S.M.pool)
           N == NewI(S.M, None, <<>>, <<cur>>)
           F == Defaulted(S, cur)
<1>0. S \in Drafts /\ S.M \in Mem /\ Sound(S.M, S.eg)
  BY DEF Draft, Drafts
<1>1. CASE S.eg.i_list # <<>> \/ S.status # "ok"
  BY <1>1 DEF Defaulted
<1>2. ASSUME NEW c \in {"error", "bound"}, F = [S EXCEPT !.status = c]
      PROVE  Draft(F) /\ F.status # "ok"
  <2>1. F = [M |-> S.M, eg |-> S.eg, status |-> c]
    BY ONLY <1>0, <1>2, DraftStatus
  <2>. HIDE DEF F
  <2>2. F \in Drafts /\ F.M = S.M /\ F.eg = S.eg /\ F.status # "ok"
    BY <1>0, <1>2, <2>1 DEF Drafts
  <2>. QED  BY <2>2 DEF Draft
<1>3. CASE ~(S.eg.i_list # <<>> \/ S.status # "ok") /\ (cur = None \/ S.M.pool = <<>>)
  <2>1. \E c \in {"error", "bound"} : F = [S EXCEPT !.status = c]
    BY <1>3 DEF Defaulted
  <2>. QED  BY <1>2, <2>1
<1>4. CASE ~(S.eg.i_list # <<>> \/ S.status # "ok") /\ cur # None /\ S.M.pool # <<>>
  <2>1. <<>> \in Seq(Names) /\ <<cur>> \in Seq(Names)
    BY <1>4 DEF Names
  <2>2. Grown(S, N, r, None)
    <3>1. Draft(S) /\ calls \in Nat /\ S.M.pool # <<>> /\ None \in Vars \cup {None} /\ <<>> \in Seq(Names) /\ <<cur>> \in Seq(Names)
      BY <1>4, <2>1 DEF Ready
    <3>. QED  BY ONLY <3>1, Drafted
  <2>3. F = [S EXCEPT !.M = N, !.eg.i_list = <<r>>]
    BY <1>4 DEF Defaulted
  <2>4. S.eg.cases \in Seq(Case) /\ S.eg.i_list = <<>> /\ S.status = "ok"
    BY <1>0, <1>4 DEF Sound, Group
  <2>5. r \in Recs /\ <<r>> \o S.eg.i_list = <<r>>
    BY <2>2, <2>4 DEF Grown
  <2> DEFINE g == Longer(S, r)
  <2> HIDE DEF N, r, F
  <2>6. F = [M |-> N, eg |-> g, status |-> "ok"]
    <3>1. [S EXCEPT !.M = N, !.eg.i_list = <<r>>] =
            [M |-> N, eg |-> [i_list |-> <<r>>, cases |-> S.eg.cases], status |-> S.status]
      BY ONLY <1>0, DraftList
    <3>. QED  BY <2>3, <2>4, <2>5, <3>1 DEF Longer
  <2> HIDE DEF g
  <2>7. /\ N \in Mem /\ Sound(N, g) /\ g \in Group
        /\ Range(g.i_list) = Range(S.eg.i_list) \cup {r}
        /\ Range(S.M.pool) = Range(N.pool) \cup {r}
        /\ N.traced = S.M.traced
        /\ \A q \in Recs \ {r} : N.i[q] = S.M.i[q]
        /\ N.i[r].variable = None /\ N.i[r].born = calls + 1
    BY <2>2 DEF Grown, g
  <2>8. F \in Drafts /\ F.M = N /\ F.eg = g /\ F.status = "ok"
    BY <2>6, <2>7 DEF Drafts
  <2>9. Range(S.eg.i_list) = {}
    BY <2>4 DEF Range
  <2>10. /\ Range(S.M.pool) = Range(pool)
         /\ \A q \in Recs \ Range(pool) : S.M.i[q] = exp_i[q]
         /\ S.M.traced = traced
    BY <2>9 DEF Draft
  <2>11. /\ Range(N.pool) \cup Range(g.i_list) = Range(pool)
         /\ \A q \in Recs \ Range(pool) : N.i[q] = exp_i[q]
         /\ N.traced = traced \cup {q \in Range(g.i_list) : N.i[q].variable # None}
         /\ \A q \in Range(g.i_list) : N.i[q].born = calls + 1
    BY <2>5, <2>7, <2>9, <2>10
  <2>12. Draft(F)
    BY <2>7, <2>8, <2>11 DEF Draft
  <2>13. F.eg.i_list = <<r>>
    BY <2>4, <2>5, <2>8 DEF g, Longer
  <2>14. F.eg.i_list # <<>>
    BY <2>5, <2>13
  <2>. QED  BY <2>12, <2>14 DEF F
<1>. QED  BY <1>1, <1>3, <1>4

LEMMA CasedIs ==
    ASSUME NEW S, Draft(S), S.status = "ok" => S.eg.i_list # <<>>, NEW use \in Uses
    PROVE  Draft(Cased(S, use))
<1> DEFINE r == Head(S.eg.i_list)
           e == [i_list |-> r, use |-> use]
           new == [S.M.i[r] EXCEPT !.ecount = S.M.i[r].ecount + 1]
           N == [i |-> [S.M.i EXCEPT ![r] = new], pool |-> S.M.pool, traced |-> S.M.traced]
           g == [i_list |-> S.eg.i_list, cases |-> Append(S.eg.cases, e)]
           F == Cased(S, use)
<1>0. /\ S \in Drafts /\ S.M \in Mem /\ S.eg \in Group /\ Sound(S.M, S.eg)
      /\ S.eg.i_list \in Seq(Recs) /\ S.eg.cases \in Seq(Case) /\ S.M.i \in [Recs -> Rec]
  BY DEF Draft, Drafts, Mem, Group
<1>a. /\ Range(S.M.pool) \cup Range(S.eg.i_list) = Range(pool)
      /\ \A q \in Recs \ Range(pool) : S.M.i[q] = exp_i[q]
      /\ S.M.traced = traced \cup {q \in Range(S.eg.i_list) : S.M.i[q].variable # None}
      /\ \A q \in Range(S.eg.i_list) : S.M.i[q].born = calls + 1
      /\ Range(S.eg.i_list) \in SUBSET Recs
  BY <1>0, RangeIs DEF Draft
<1>1. CASE use = None \/ S.status # "ok"
  BY <1>1 DEF Cased
<1>2. CASE ~(use = None \/ S.status # "ok")
  <2>0. S.eg.i_list # <<>>
    BY <1>2
  <2>1. r \in Recs /\ r \in Range(S.eg.i_list)
    BY <1>0, <2>0, HeadIs
  <2>2. F = [S EXCEPT !.M.i[r].ecount = @ + 1, !.eg.cases = Append(@, e)]
    BY <1>2 DEF Cased
  <2>3. F = [M |-> N, eg |-> g, status |-> S.status]
    <3> HIDE DEF r, e, F
    <3>. QED  BY <1>0, <2>1, <2>2, CaseAdded
  <2>4. e \in Case
    BY <2>1 DEF Case
  <2>5. /\ new \in Rec /\ new.variable = S.M.i[r].variable /\ new.ecount = S.M.i[r].ecount + 1
        /\ new.born = S.M.i[r].born
    <3> DEFINE a == S.M.i[r]
    <3>1. a \in Rec
      BY <1>0, <2>1
    <3>2. new = [a EXCEPT !.ecount = a.ecount + 1]
      OBVIOUS
    <3> HIDE DEF a, new
    <3>3. new \in Rec /\ new.variable = a.variable /\ new.ecount = a.ecount + 1 /\ new.born = a.born
      BY <3>1, <3>2 DEF Rec
    <3>. QED  BY <3>3 DEF a
  <2> HIDE DEF new, r, F
  <2>6. N.i[r] = new /\ (\A q \in Recs \ {r} : N.i[q] = S.M.i[q]) /\ N \in Mem
        /\ N.pool = S.M.pool /\ N.traced = S.M.traced
    BY <1>0, <2>1, <2>5 DEF Mem
  <2>7. \A q \in Recs : Count(Append(S.eg.cases, e), q) = Count(S.eg.cases, q) + (IF e.i_list = q THEN 1 ELSE 0)
                        /\ Count(S.eg.cases, q) \in Nat
    BY <1>0, <2>4, CountAppend
  <2>8. Owners(Append(S.eg.cases, e)) = Owners(S.eg.cases) \cup {r}
    BY <1>0, <2>4, CountAppend
  <2>9. g \in Group /\ g.i_list = S.eg.i_list /\ g.cases = Append(S.eg.cases, e)
    BY <1>0, <2>4 DEF Group
  <2> HIDE DEF g, N
  <2>10. \A q \in Range(g.i_list) : N.i[q].ecount = Count(g.cases, q)
    <3>. TAKE q \in Range(g.i_list)
    <3>1. q \in Recs /\ S.M.i[q].ecount = Count(S.eg.cases, q)
      BY <1>0, <1>a, <2>9 DEF Sound
    <3>2. CASE q = r
      BY <2>5, <2>6, <2>7, <2>9, <3>1, <3>2
    <3>3. CASE q # r
      BY <2>6, <2>7, <2>9, <3>1, <3>3
    <3>. QED  BY <3>2, <3>3
  <2> HIDE DEF e
  <2>11. Sound(N, g)
    BY <1>0, <2>1, <2>6, <2>8, <2>9, <2>10 DEF Sound
  <2>12. F \in Drafts /\ F.M = N /\ F.eg = g
    BY <1>0, <2>3, <2>6, <2>9 DEF Drafts
  <2>13. \A q \in Range(g.i_list) : N.i[q].variable = S.M.i[q].variable /\ N.i[q].born = S.M.i[q].born
    BY <1>a, <2>5, <2>6, <2>9
  <2>14. \A q \in Recs \ Range(pool) : N.i[q] = exp_i[q]
    BY <1>a, <2>1, <2>6
  <2>15. Draft(F)
    BY <1>a, <2>6, <2>9, <2>11, <2>12, <2>13, <2>14 DEF Draft
  <2>. QED  BY <2>15 DEF F
<1>. QED  BY <1>1, <1>2

ParseOne(S, a, cur) ==
    IF S.status # "ok" THEN S
    ELSE LET F == Flagged(S, a.i)
         IN  Cased(IF a.use = None THEN F ELSE Defaulted(F, cur), a.use)
Parsing == INSTANCE FoldProofs WITH op <- ParseOne, step <- ParseOne

Argument == [i : Ids \cup {AnyId, None} \cup Vars, use : Uses \cup {None}]

\* What a command got of its arguments.
Parsed(P) ==
    /\ P.status # "error" => Draft(P)
    /\ P.status = "error" => Undone(P.M)

LEMMA ParseIs ==
    ASSUME Ready, NEW args \in Seq(Argument), NEW cur \in Ids \cup {None}, NEW bad \in {"no", "error", "return"}
    PROVE  Parsed(Parse(args, cur, bad))
<1> DEFINE base == [M |-> Memory, eg |-> Nothing, status |-> "ok"]
           all == Parsing!Fold(base, args, cur)
           end == IF all.status = "ok" /\ bad # "no" THEN [all EXCEPT !.status = bad]
                  ELSE Defaulted(all, cur)
           T == {S \in Drafts : Draft(S)}
           P == Parse(args, cur, bad)
<1>1. P = IF end.status = "error" THEN [end EXCEPT !.M = FreeI(end.M, end.eg.i_list)] ELSE end
  BY DEF Parse, Parsing!Fold, ParseOne, FoldLeft, MapThenFoldSet, Parsing!FoldLeft,
         Parsing!MapThenFoldSet, Max, Parsing!Max
<1>2. base \in T
  <2>1. <<>> \in Seq(Recs) /\ <<>> \in Seq(Case) /\ Range(<<>>) = {} /\ Distinct(<<>>)
    BY DEF Range, Distinct
  <2>2. Memory.pool = pool /\ Memory.traced = traced /\ Memory.i = exp_i
    BY DEF Memory
  <2>3. Nothing \in Group /\ Nothing.i_list = <<>> /\ Nothing.cases = <<>>
    BY <2>1 DEF Nothing, Group
  <2>4. Sound(Memory, Nothing)
    BY <2>1, <2>2, <2>3, CountNone DEF Sound, Ready
  <2>5. base \in Drafts
    BY <2>3 DEF Drafts, Ready
  <2>6. Draft(base)
    BY <2>1, <2>2, <2>3, <2>4, <2>5 DEF Draft
  <2>. QED  BY <2>5, <2>6
<1>3. ASSUME NEW S \in T, NEW k \in 1..Len(args) PROVE ParseOne(S, args[k], cur) \in T
  <2>1. args[k] \in Argument
    OBVIOUS
  <2> DEFINE a == args[k]
  <2>2. a.i \in Ids \cup {AnyId, None} \cup Vars /\ a.use \in Uses \cup {None}
    BY <2>1 DEF Argument
  <2> HIDE DEF a
  <2>3. CASE S.status # "ok"
    BY <2>3 DEF ParseOne
  <2>4. CASE S.status = "ok"
    <3> DEFINE F == Flagged(S, a.i)
               G == IF a.use = None THEN F ELSE Defaulted(F, cur)
    <3>1. Draft(F)
      BY <2>2, FlaggedIs
    <3>2. ParseOne(S, a, cur) = Cased(G, a.use)
      BY <2>4 DEF ParseOne
    <3>. HIDE DEF F
    <3>3. CASE a.use = None
      <4>1. Cased(G, a.use) = F
        BY <3>3 DEF Cased
      <4>. QED  BY <3>1, <3>2, <4>1 DEF Draft, a
    <3>4. CASE a.use # None
      <4>1. Draft(G) /\ (G.status = "ok" => G.eg.i_list # <<>>)
        BY <3>1, <3>4, DefaultedIs
      <4>. HIDE DEF G
      <4>2. Draft(Cased(G, a.use))
        BY <2>2, <3>4, <4>1, CasedIs
      <4>. QED  BY <3>2, <4>2 DEF Draft, a
    <3>. QED  BY <3>3, <3>4
  <2>. QED  BY <2>3, <2>4
<1>4. Len(args) \in Nat /\ DOMAIN args = 1..Len(args)
  OBVIOUS
<1> HIDE DEF base, T
<1>5. Parsing!Fold(base, args, cur) \in T
  BY ONLY <1>2, <1>3, <1>4, Parsing!FoldStays
<1>6. all \in Drafts /\ Draft(all)
  BY <1>5 DEF T
<1> HIDE DEF all
<1>7. Draft(end)
  <2>1. CASE all.status = "ok" /\ bad # "no"
    <3>1. [all EXCEPT !.status = bad] = [M |-> all.M, eg |-> all.eg, status |-> bad]
      BY ONLY <1>6, DraftStatus
    <3>2. end = [M |-> all.M, eg |-> all.eg, status |-> bad]
      BY <2>1, <3>1
    <3>. HIDE DEF end
    <3>3. end \in Drafts /\ end.M = all.M /\ end.eg = all.eg
      BY <1>6, <2>1, <3>2 DEF Drafts
    <3>. QED  BY <1>6, <3>3 DEF Draft
  <2>2. CASE ~(all.status = "ok" /\ bad # "no")
    BY <1>6, <2>2, DefaultedIs
  <2>. QED  BY <2>1, <2>2
<1> HIDE DEF end
<1>8. CASE end.status # "error"
  BY <1>1, <1>7, <1>8 DEF Parsed
<1>9. CASE end.status = "error"
  <2> DEFINE N == FreeI(end.M, end.eg.i_list)
  <2>0. end \in Drafts
    BY <1>7 DEF Draft
  <2>1. [end EXCEPT !.M = N] = [M |-> N, eg |-> end.eg, status |-> end.status]
    <3>. HIDE DEF N
    <3>. QED  BY ONLY <2>0, DraftMemory
  <2>2. P = [M |-> N, eg |-> end.eg, status |-> "error"]
    BY <1>1, <1>9, <2>1
  <2>3. /\ end.M \in Mem /\ end.eg.i_list \in Seq(Recs) /\ Distinct(end.M.pool) /\ Distinct(end.eg.i_list)
        /\ Range(end.M.pool) \cap Range(end.eg.i_list) = {}
    BY <1>7 DEF Draft, Sound, Group
  <2>4. Freed(end.M, N, Range(end.eg.i_list))
    BY ONLY <2>3, FreeIs
  <2>5. Range(end.eg.i_list) \in SUBSET Recs
    BY <2>3, RangeIs
  <2>. HIDE DEF N, P
  <2>6. Undone(N)
    BY <1>7, <2>4, <2>5 DEF Undone, Freed, Draft, Ready
  <2>. QED  BY <2>2, <2>6 DEF Parsed, P
<1>. QED  BY <1>8, <1>9

(***************************************************************************)
(* The inductive invariant.                                                *)
(***************************************************************************)
Listed(e) == UNION {Range(e[c].i_list) : c \in Permanent}

\* The memory M and the lists e; left: a command failed and left records behind.
Whole(M, e, left) ==
    /\ e \in [Permanent -> Group]
    /\ \A c \in Permanent : Sound(M, e[c]) /\ Full(e[c])
    /\ \A c, d \in Permanent : c # d => Range(e[c].i_list) \cap Range(e[d].i_list) = {}
    /\ ~left => /\ Range(M.pool) \cup Listed(e) = Recs
                /\ M.traced = {r \in Listed(e) : M.i[r].variable # None}

\* LatestWins of a memory and lists.
Latest(M, e, n) ==
    \A c \in Permanent : \A r \in Range(e[c].i_list) :
        M.i[r].variable = None => \A i \in Range(M.i[r].state_list) \cap Ids : M.i[r].born = n[c][i]

CasesInv ==
    /\ Whole(Memory, ecmd, spilt) /\ Latest(Memory, ecmd, named)
    /\ value \in [Vars -> Seq(Names)] /\ calls \in Nat /\ spilt \in BOOLEAN
    /\ named \in [Permanent -> [Ids -> Nat]]

LEMMA WholeIs ==
    ASSUME NEW M, NEW e, NEW left, Whole(M, e, left)
    PROVE  /\ M \in Mem /\ Distinct(M.pool) /\ M.traced \cap Range(M.pool) = {}
           /\ Listed(e) \in SUBSET Recs /\ Listed(e) \cap Range(M.pool) = {}
           /\ \A c \in Permanent : Range(e[c].i_list) \subseteq Listed(e) /\ Range(e[c].i_list) \in SUBSET Recs
<1>1. "before" \in Permanent
  BY DEF Permanent
<1>2. M \in Mem /\ Distinct(M.pool) /\ M.traced \cap Range(M.pool) = {}
  BY <1>1 DEF Whole, Sound
<1>3. \A c \in Permanent : e[c].i_list \in Seq(Recs) /\ Range(M.pool) \cap Range(e[c].i_list) = {}
  BY DEF Whole, Sound, Group
<1>4. \A c \in Permanent : Range(e[c].i_list) \in SUBSET Recs
  BY <1>3, RangeIs
<1>. QED  BY <1>2, <1>3, <1>4 DEF Listed

LEMMA ReadyIs ==
    ASSUME CasesInv
    PROVE  Ready /\ Memory.i = exp_i /\ Memory.pool = pool /\ Memory.traced = traced
<1>1. Memory.i = exp_i /\ Memory.pool = pool /\ Memory.traced = traced
  BY DEF Memory
<1>2. Memory \in Mem /\ Distinct(Memory.pool) /\ Memory.traced \cap Range(Memory.pool) = {}
  BY WholeIs DEF CasesInv
<1>. QED  BY <1>1, <1>2 DEF CasesInv, Ready

\* The lists are what they were, and so are their records.
LEMMA WholeStays ==
    ASSUME CasesInv, NEW M \in Mem, Distinct(M.pool), NEW left, M.traced \cap Range(M.pool) = {},
           Range(M.pool) \subseteq Range(pool), \A r \in Recs \ Range(pool) : M.i[r] = exp_i[r],
           ~left => ~spilt /\ Range(M.pool) = Range(pool) /\ M.traced = traced
    PROVE  Whole(M, ecmd, left) /\ Latest(M, ecmd, named)
<1>1. /\ Memory.i = exp_i /\ Memory.pool = pool /\ Memory.traced = traced
      /\ Whole(Memory, ecmd, spilt) /\ Latest(Memory, ecmd, named)
  BY ReadyIs DEF CasesInv
<1>2. /\ Listed(ecmd) \in SUBSET Recs /\ Listed(ecmd) \cap Range(pool) = {}
      /\ \A c \in Permanent : Range(ecmd[c].i_list) \subseteq Listed(ecmd) /\ Range(ecmd[c].i_list) \in SUBSET Recs
  BY <1>1, WholeIs
<1>3. \A r \in Listed(ecmd) : M.i[r] = exp_i[r]
  BY <1>2
<1>4. ASSUME NEW c \in Permanent PROVE Sound(M, ecmd[c])
  <2>1. Sound(Memory, ecmd[c])
    BY <1>1 DEF Whole
  <2>2. \A r \in Range(ecmd[c].i_list) : M.i[r] = exp_i[r]
    BY <1>2, <1>3
  <2>. QED  BY <1>1, <1>2, <2>1, <2>2 DEF Sound
<1>5. ~left => Range(M.pool) \cup Listed(ecmd) = Recs /\ M.traced = {r \in Listed(ecmd) : M.i[r].variable # None}
  BY <1>1, <1>3 DEF Whole
<1>6. Whole(M, ecmd, left)
  BY <1>1, <1>4, <1>5 DEF Whole
<1>7. Latest(M, ecmd, named)
  BY <1>1, <1>2, <1>3 DEF Latest
<1>. QED  BY <1>6, <1>7

\* A command that does not come to its end.
LEMMA ParseEnds ==
    ASSUME CasesInv, NEW P, Parsed(P), P.status # "ok" \/ P.eg.i_list = <<>>
    PROVE  /\ Whole(P.M, ecmd, spilt \/ (P.status # "error" /\ P.eg.i_list # <<>>))
           /\ Latest(P.M, ecmd, named)
<1> DEFINE left == spilt \/ (P.status # "error" /\ P.eg.i_list # <<>>)
<1>1. spilt \in BOOLEAN
  BY DEF CasesInv
<1>2. traced \cap Range(pool) = {}
  BY ReadyIs DEF Ready
<1>3. CASE P.status = "error"
  <2>1. Undone(P.M)
    BY <1>3 DEF Parsed
  <2>. QED  BY <1>1, <1>2, <1>3, <2>1, WholeStays DEF Undone
<1>4. CASE P.status # "error"
  <2>1. Draft(P)
    BY <1>4 DEF Parsed
  <2>2. /\ P.M \in Mem /\ Distinct(P.M.pool) /\ P.M.traced \cap Range(P.M.pool) = {}
        /\ Range(P.M.pool) \subseteq Range(pool) /\ \A r \in Recs \ Range(pool) : P.M.i[r] = exp_i[r]
    BY <2>1 DEF Draft, Sound
  <2>3. P.eg.i_list = <<>> => Range(P.M.pool) = Range(pool) /\ P.M.traced = traced
    <3>1. Range(<<>>) = {}
      BY DEF Range
    <3>. QED  BY <2>1, <3>1 DEF Draft
  <2>4. ~left => ~spilt /\ Range(P.M.pool) = Range(pool) /\ P.M.traced = traced
    BY <1>4, <2>3
  <2> HIDE DEF left
  <2>5. Whole(P.M, ecmd, left) /\ Latest(P.M, ecmd, named)
    BY <2>2, <2>4, WholeStays
  <2>. QED  BY <2>5 DEF left
<1>. QED  BY <1>3, <1>4

LEMMA CountZero ==
    ASSUME NEW s \in Seq(Case), NEW r
    PROVE  Count(s, r) \in Nat /\ (Count(s, r) = 0 <=> r \notin Owners(s))
<1>1. CASE s = <<>>
  BY <1>1, CountNone
<1>2. CASE s # <<>>
  <2>1. PICK e \in Case : TRUE
    BY <1>2, HeadIs
  <2>2. Count(s, r) \in Nat /\ (Count(s, r) = 0 <=> r \notin Owners(s))
    BY ONLY <2>1, CountAppend
  <2>. QED  BY <2>2
<1>. QED  BY <1>1, <1>2

\* V is what the new cases P for the list c left of the memory and the list.
Half(P, c, V) ==
    LET R == Range(ecmd[c].i_list) \ Range(V.list.i_list)
        E == Range(P.eg.i_list)
    IN  /\ Sound(V.M, V.list) /\ Full(V.list) /\ E \in SUBSET Recs /\ Sound(P.M, P.eg)
        /\ Range(V.list.i_list) \subseteq Range(ecmd[c].i_list)
        /\ Range(V.M.pool) \cup E = Range(pool) \cup R
        /\ Range(V.M.pool) \cap E = {} /\ E \subseteq Range(pool)
        /\ \A r \in E : V.M.i[r] = P.M.i[r] /\ V.M.i[r].born = calls + 1
        /\ \A d \in Permanent \ {c} : \A r \in Range(ecmd[d].i_list) : V.M.i[r] = exp_i[r]
        /\ \A r \in Range(V.list.i_list) : Lesser(exp_i[r], V.M.i[r])
        /\ V.M.traced = (traced \ R) \cup {r \in E : V.M.i[r].variable # None}

LEMMA HalfIs ==
    ASSUME CasesInv, NEW P, Draft(P), NEW c \in Permanent, NEW V \in Trial,
           Removal([M |-> P.M, list |-> ecmd[c]], V)
    PROVE  Half(P, c, V)
<1> DEFINE T == [M |-> P.M, list |-> ecmd[c]]
           R == Range(ecmd[c].i_list) \ Range(V.list.i_list)
           E == Range(P.eg.i_list)
<1>1. /\ Memory.i = exp_i /\ Memory.pool = pool /\ Memory.traced = traced
      /\ Whole(Memory, ecmd, spilt) /\ traced \cap Range(pool) = {}
  BY ReadyIs DEF CasesInv, Ready
<1>2. /\ Listed(ecmd) \in SUBSET Recs /\ Listed(ecmd) \cap Range(pool) = {}
      /\ \A d \in Permanent : Range(ecmd[d].i_list) \subseteq Listed(ecmd) /\ Range(ecmd[d].i_list) \in SUBSET Recs
  BY <1>1, WholeIs
<1>3. /\ Sound(P.M, P.eg) /\ Range(P.M.pool) \cup E = Range(pool) /\ Range(P.M.pool) \cap E = {}
      /\ \A r \in Recs \ Range(pool) : P.M.i[r] = exp_i[r]
      /\ P.M.traced = traced \cup {r \in E : P.M.i[r].variable # None}
      /\ \A r \in E : P.M.i[r].born = calls + 1
  BY DEF Draft, Sound
<1>4. E \in SUBSET Recs
  <2>1. P.eg.i_list \in Seq(Recs)
    BY <1>3 DEF Sound, Group
  <2>. QED  BY <2>1, RangeIs
<1>5. Full(ecmd[c])
  BY <1>1 DEF Whole
<1>6. /\ Sound(V.M, V.list) /\ Full(V.list)
      /\ Range(V.list.i_list) \subseteq Range(ecmd[c].i_list)
      /\ Range(V.M.pool) = Range(P.M.pool) \cup R
      /\ V.M.traced = P.M.traced \ R
      /\ \A r \in Recs \ Range(ecmd[c].i_list) : V.M.i[r] = P.M.i[r]
      /\ \A r \in Range(V.list.i_list) : Lesser(P.M.i[r], V.M.i[r])
  BY <1>5 DEF Removal
<1> HIDE DEF T
<1>7. E \cap Range(ecmd[c].i_list) = {}
  BY <1>2, <1>3
<1>8. \A r \in E : V.M.i[r] = P.M.i[r]
  BY <1>4, <1>6, <1>7
<1>9. \A d \in Permanent \ {c} : \A r \in Range(ecmd[d].i_list) : V.M.i[r] = exp_i[r]
  <2>. TAKE d \in Permanent \ {c}
  <2>. TAKE r \in Range(ecmd[d].i_list)
  <2>1. r \notin Range(ecmd[c].i_list) /\ r \notin Range(pool) /\ r \in Recs
    BY <1>1, <1>2 DEF Whole
  <2>. QED  BY <1>3, <1>6, <2>1
<1>10. \A r \in Range(V.list.i_list) : Lesser(exp_i[r], V.M.i[r])
  <2>. TAKE r \in Range(V.list.i_list)
  <2>1. r \in Recs \ Range(pool)
    BY <1>2, <1>6
  <2>. QED  BY <1>3, <1>6, <2>1
<1>11. Range(V.M.pool) \cup E = Range(pool) \cup R /\ Range(V.M.pool) \cap E = {} /\ E \subseteq Range(pool)
  BY <1>3, <1>6, <1>7
<1>12. V.M.traced = (traced \ R) \cup {r \in E : V.M.i[r].variable # None}
  BY <1>3, <1>6, <1>7, <1>8
<1>13. \A r \in E : V.M.i[r].born = calls + 1
  BY <1>3, <1>8
<1>. QED  BY <1>3, <1>4, <1>6, <1>8, <1>9, <1>10, <1>11, <1>12, <1>13 DEF Half

\* Some records of the new cases go back to the pool; all if there is nothing left behind.
LEMMA HalfFreed ==
    ASSUME CasesInv, NEW P, NEW c \in Permanent, NEW V, Half(P, c, V),
           NEW chain \in Seq(Recs), Distinct(chain), Range(chain) \subseteq Range(P.eg.i_list),
           NEW left, ~left => ~spilt /\ Range(chain) = Range(P.eg.i_list)
    PROVE  /\ Whole(FreeI(V.M, chain), [ecmd EXCEPT ![c] = V.list], left)
           /\ Latest(FreeI(V.M, chain), [ecmd EXCEPT ![c] = V.list], named)
<1> DEFINE F == FreeI(V.M, chain)
           e == [ecmd EXCEPT ![c] = V.list]
           R == Range(ecmd[c].i_list) \ Range(V.list.i_list)
           E == Range(P.eg.i_list)
           S == Range(chain)
<1>1. /\ Memory.i = exp_i /\ Memory.pool = pool /\ Memory.traced = traced
      /\ Whole(Memory, ecmd, spilt) /\ Latest(Memory, ecmd, named) /\ traced \cap Range(pool) = {}
  BY ReadyIs DEF CasesInv, Ready
<1>2. /\ Listed(ecmd) \in SUBSET Recs /\ Listed(ecmd) \cap Range(pool) = {}
      /\ \A d \in Permanent : Range(ecmd[d].i_list) \subseteq Listed(ecmd) /\ Range(ecmd[d].i_list) \in SUBSET Recs
  BY <1>1, WholeIs
<1>3. /\ Sound(V.M, V.list) /\ Full(V.list) /\ E \in SUBSET Recs
      /\ Range(V.list.i_list) \subseteq Range(ecmd[c].i_list)
      /\ Range(V.M.pool) \cup E = Range(pool) \cup R
      /\ Range(V.M.pool) \cap E = {} /\ E \subseteq Range(pool)
      /\ \A d \in Permanent \ {c} : \A r \in Range(ecmd[d].i_list) : V.M.i[r] = exp_i[r]
      /\ \A r \in Range(V.list.i_list) : Lesser(exp_i[r], V.M.i[r])
      /\ V.M.traced = (traced \ R) \cup {r \in E : V.M.i[r].variable # None}
  BY DEF Half
<1>4. V.M \in Mem /\ V.list \in Group /\ Distinct(V.M.pool)
  BY <1>3 DEF Sound
<1>5. Freed(V.M, F, S)
  <2>1. V.M \in Mem /\ chain \in Seq(Recs) /\ Distinct(V.M.pool) /\ Distinct(chain)
        /\ Range(V.M.pool) \cap Range(chain) = {}
    BY <1>3, <1>4
  <2>. QED  BY ONLY <2>1, FreeIs
<1> HIDE DEF F
<1>6. /\ F \in Mem /\ Distinct(F.pool) /\ Range(F.pool) = Range(V.M.pool) \cup S /\ F.traced = V.M.traced \ S
      /\ \A r \in Recs \ S : F.i[r] = V.M.i[r]
  BY <1>5 DEF Freed
<1>7. /\ e \in [Permanent -> Group] /\ e[c] = V.list /\ \A d \in Permanent \ {c} : e[d] = ecmd[d]
  BY <1>1, <1>4 DEF Whole
<1> HIDE DEF e
<1>8. /\ \A r \in Range(V.list.i_list) : r \in Recs /\ r \notin E /\ F.i[r] = V.M.i[r]
      /\ \A d \in Permanent \ {c} : \A r \in Range(ecmd[d].i_list) : r \in Recs /\ r \notin E /\ F.i[r] = exp_i[r]
  <2>1. \A d \in Permanent : \A r \in Range(ecmd[d].i_list) : r \in Recs /\ r \notin E
    BY <1>2, <1>3
  <2>. QED  BY <1>3, <1>6, <2>1
<1>9. Sound(F, V.list)
  <2>1. /\ Distinct(V.list.i_list) /\ Range(V.M.pool) \cap Range(V.list.i_list) = {}
        /\ V.M.traced \cap Range(V.M.pool) = {} /\ Owners(V.list.cases) \subseteq Range(V.list.i_list)
        /\ \A r \in Range(V.list.i_list) : V.M.i[r].ecount = Count(V.list.cases, r)
    BY <1>3 DEF Sound
  <2>2. Range(F.pool) \cap Range(V.list.i_list) = {} /\ F.traced \cap Range(F.pool) = {}
    BY <1>6, <1>8, <2>1
  <2>. QED  BY <1>4, <1>6, <1>8, <2>1, <2>2 DEF Sound
<1>10. ASSUME NEW d \in Permanent, d # c PROVE Sound(F, ecmd[d])
  <2>1. Sound(Memory, ecmd[d]) /\ Range(ecmd[d].i_list) \cap Range(ecmd[c].i_list) = {}
    BY <1>1, <1>10 DEF Whole
  <2>2. /\ ecmd[d] \in Group /\ Distinct(ecmd[d].i_list) /\ Owners(ecmd[d].cases) \subseteq Range(ecmd[d].i_list)
        /\ \A r \in Range(ecmd[d].i_list) : exp_i[r].ecount = Count(ecmd[d].cases, r)
    BY <1>1, <2>1 DEF Sound
  <2>3. Range(F.pool) \cap Range(ecmd[d].i_list) = {}
    BY <1>2, <1>3, <1>6, <2>1
  <2>4. F.traced \cap Range(F.pool) = {}
    BY <1>9 DEF Sound
  <2>. QED  BY <1>6, <1>8, <1>10, <2>2, <2>3, <2>4 DEF Sound
<1>11. \A d \in Permanent : Full(e[d])
  BY <1>1, <1>3, <1>7 DEF Whole
<1>12. \A d, b \in Permanent : d # b => Range(e[d].i_list) \cap Range(e[b].i_list) = {}
  <2>1. \A d \in Permanent : Range(e[d].i_list) \subseteq Range(ecmd[d].i_list)
    BY <1>3, <1>7
  <2>. QED  BY <1>1, <2>1 DEF Whole
<1>13. Listed(e) = Listed(ecmd) \ R
  <2>1. \A r : r \in Listed(e) <=> \E d \in Permanent : r \in Range(e[d].i_list)
    BY DEF Listed
  <2>2. \A r : r \in Listed(ecmd) <=> \E d \in Permanent : r \in Range(ecmd[d].i_list)
    BY DEF Listed
  <2>3. \A d \in Permanent \ {c} : Range(ecmd[d].i_list) \cap Range(ecmd[c].i_list) = {}
    BY <1>1 DEF Whole
  <2>. QED  BY <1>3, <1>7, <2>1, <2>2, <2>3
<1>14. \A r \in Listed(e) : F.i[r].variable = exp_i[r].variable /\ r \notin E
  <2>1. \A r : r \in Listed(e) <=> \E d \in Permanent : r \in Range(e[d].i_list)
    BY DEF Listed
  <2>. QED  BY <1>3, <1>7, <1>8, <2>1 DEF Lesser
<1>15. ASSUME ~left PROVE Range(F.pool) \cup Listed(e) = Recs /\ F.traced = {r \in Listed(e) : F.i[r].variable # None}
  <2>1. S = E /\ Range(pool) \cup Listed(ecmd) = Recs /\ traced = {r \in Listed(ecmd) : exp_i[r].variable # None}
    BY <1>1, <1>15 DEF Whole
  <2>2. R \subseteq Listed(ecmd)
    BY <1>2
  <2>3. Range(F.pool) = Range(pool) \cup R
    BY <1>3, <1>6, <2>1
  <2>4. F.traced = traced \ R
    BY <1>2, <1>3, <1>6, <2>1
  <2> HIDE DEF R, E, S
  <2>. QED  BY <1>13, <1>14, <2>1, <2>2, <2>3, <2>4
<1>16. Whole(F, e, left)
  BY <1>7, <1>9, <1>10, <1>11, <1>12, <1>15 DEF Whole
<1>17. Latest(F, e, named)
  <2>. SUFFICES ASSUME NEW d \in Permanent, NEW r \in Range(e[d].i_list), F.i[r].variable = None,
                       NEW i \in Range(F.i[r].state_list) \cap Ids
                PROVE  F.i[r].born = named[d][i]
    BY DEF Latest
  <2>1. r \in Range(ecmd[d].i_list) /\ Lesser(exp_i[r], F.i[r])
    <3>1. CASE d = c
      <4>1. e[d] = V.list
        BY <1>7, <3>1
      <4>2. r \in Range(V.list.i_list)
        BY <4>1
      <4>3. F.i[r] = V.M.i[r] /\ Lesser(exp_i[r], V.M.i[r])
        BY <1>3, <1>8, <4>2
      <4>. QED  BY <1>3, <3>1, <4>2, <4>3
    <3>2. CASE d # c
      <4>1. e[d] = ecmd[d]
        BY <1>7, <3>2
      <4>2. r \in Range(ecmd[d].i_list)
        BY <4>1
      <4>3. F.i[r] = exp_i[r]
        BY <1>8, <3>2, <4>2
      <4>. QED  BY <4>2, <4>3 DEF Lesser
    <3>. QED  BY <3>1, <3>2
  <2>. QED  BY <1>1, <2>1 DEF Latest, Lesser
<1>. QED  BY <1>16, <1>17 DEF F, e

\* The new cases are put after what is left of the list c.
Joined(P, c, V) ==
    [ecmd EXCEPT ![c] = [i_list |-> V.list.i_list \o Within(P.eg.i_list, {r \in Recs : V.M.i[r].ecount > 0}),
                         cases |-> V.list.cases \o P.eg.cases]]
Unneeded(P, V) == Reverse(Within(P.eg.i_list, {r \in Recs : V.M.i[r].ecount = 0}))

LEMMA JoinedIs ==
    ASSUME CasesInv, NEW P, NEW c \in Permanent, NEW V, Half(P, c, V)
    PROVE  LET F == FreeI(V.M, Unneeded(P, V))
               e == Joined(P, c, V)
               S == {r \in Range(P.eg.i_list) : V.M.i[r].ecount = 0}
           IN  /\ F \in Mem /\ Distinct(F.pool) /\ Range(F.pool) = Range(V.M.pool) \cup S
               /\ F.traced = V.M.traced \ S /\ \A r \in Recs \ S : F.i[r] = V.M.i[r]
               /\ e \in [Permanent -> Group] /\ \A d \in Permanent \ {c} : e[d] = ecmd[d]
               /\ Sound(F, e[c]) /\ Full(e[c])
               /\ Range(e[c].i_list) = Range(V.list.i_list) \cup (Range(P.eg.i_list) \ S)
<1> DEFINE few == Within(P.eg.i_list, {r \in Recs : V.M.i[r].ecount = 0})
           kept == Within(P.eg.i_list, {r \in Recs : V.M.i[r].ecount > 0})
           chain == Unneeded(P, V)
           F == FreeI(V.M, chain)
           S == {r \in Range(P.eg.i_list) : V.M.i[r].ecount = 0}
           E == Range(P.eg.i_list)
           g == [i_list |-> V.list.i_list \o kept, cases |-> V.list.cases \o P.eg.cases]
           e == Joined(P, c, V)
<1>1. /\ Sound(V.M, V.list) /\ Full(V.list) /\ E \in SUBSET Recs /\ Sound(P.M, P.eg)
      /\ Range(V.M.pool) \cap E = {} /\ E \subseteq Range(pool)
      /\ Range(V.list.i_list) \subseteq Range(ecmd[c].i_list)
      /\ \A r \in E : V.M.i[r] = P.M.i[r]
  BY DEF Half
<1>2. /\ V.M \in Mem /\ V.list.i_list \in Seq(Recs) /\ V.list.cases \in Seq(Case) /\ Distinct(V.M.pool)
      /\ Distinct(V.list.i_list) /\ P.eg.i_list \in Seq(Recs) /\ P.eg.cases \in Seq(Case) /\ Distinct(P.eg.i_list)
      /\ Owners(P.eg.cases) \subseteq E /\ Owners(V.list.cases) = Range(V.list.i_list)
      /\ (\A r \in E : P.M.i[r].ecount = Count(P.eg.cases, r))
      /\ (\A r \in Range(V.list.i_list) : V.M.i[r].ecount = Count(V.list.cases, r))
      /\ Range(V.M.pool) \cap Range(V.list.i_list) = {} /\ V.M.traced \cap Range(V.M.pool) = {}
  BY <1>1 DEF Sound, Group, Full
<1>3. E \cap Range(V.list.i_list) = {}
  <2>1. Whole(Memory, ecmd, spilt) /\ Memory.pool = pool
    BY ReadyIs DEF CasesInv
  <2>2. Listed(ecmd) \cap Range(pool) = {} /\ Range(ecmd[c].i_list) \subseteq Listed(ecmd)
    BY <2>1, WholeIs
  <2>. QED  BY <1>1, <2>2
<1>4. \A r \in E : V.M.i[r].ecount \in Nat /\ (V.M.i[r].ecount = 0 <=> r \notin Owners(P.eg.cases))
  BY <1>1, <1>2, CountZero
<1>5. /\ few \in Seq(Recs) /\ Range(few) = S /\ Distinct(few)
      /\ kept \in Seq(Recs) /\ Range(kept) = E \ S /\ Distinct(kept)
  <2>1. /\ few \in Seq(Recs) /\ Range(few) = E \cap {r \in Recs : V.M.i[r].ecount = 0} /\ Distinct(few)
        /\ kept \in Seq(Recs) /\ Range(kept) = E \cap {r \in Recs : V.M.i[r].ecount > 0} /\ Distinct(kept)
    BY <1>2, WithinIs
  <2>2. \A r \in E : V.M.i[r].ecount > 0 <=> V.M.i[r].ecount # 0
    BY <1>4
  <2>. HIDE DEF few, kept
  <2>. QED  BY <1>1, <2>1, <2>2
<1>6. chain \in Seq(Recs) /\ Range(chain) = S /\ Distinct(chain)
  <2>1. chain = Reverse(few)
    BY DEF Unneeded
  <2>. HIDE DEF few, chain
  <2>. QED  BY <1>5, <2>1, ReverseIs
<1>7. Freed(V.M, F, S)
  <2>1. V.M \in Mem /\ chain \in Seq(Recs) /\ Distinct(V.M.pool) /\ Distinct(chain)
        /\ Range(V.M.pool) \cap Range(chain) = {}
    BY <1>1, <1>2, <1>6
  <2>2. Freed(V.M, F, Range(chain))
    BY ONLY <2>1, FreeIs
  <2>. QED  BY <1>6, <2>2
<1>8. /\ V.list.i_list \o kept \in Seq(Recs)
      /\ Range(V.list.i_list \o kept) = Range(V.list.i_list) \cup (E \ S)
      /\ Distinct(V.list.i_list \o kept)
  <2> HIDE DEF kept
  <2>1. V.list.i_list \in Seq(Recs) /\ kept \in Seq(Recs)
    BY <1>2, <1>5
  <2>2. /\ V.list.i_list \o kept \in Seq(Recs)
        /\ Range(V.list.i_list \o kept) = Range(V.list.i_list) \cup Range(kept)
        /\ Distinct(V.list.i_list \o kept) <=>
              Distinct(V.list.i_list) /\ Distinct(kept) /\ Range(V.list.i_list) \cap Range(kept) = {}
    BY ONLY <2>1, RangeConcat
  <2>. QED  BY <1>2, <1>3, <1>5, <2>2
<1>9. /\ V.list.cases \o P.eg.cases \in Seq(Case)
      /\ Owners(V.list.cases \o P.eg.cases) = Owners(V.list.cases) \cup Owners(P.eg.cases)
      /\ \A r : Count(V.list.cases \o P.eg.cases, r) = Count(V.list.cases, r) + Count(P.eg.cases, r)
  <2>1. V.list.cases \in Seq(Case) /\ P.eg.cases \in Seq(Case)
    BY <1>2
  <2>2. V.list.cases \o P.eg.cases \in Seq(Case)
    BY <2>1
  <2>3. ASSUME NEW r
        PROVE  /\ Count(V.list.cases \o P.eg.cases, r) = Count(V.list.cases, r) + Count(P.eg.cases, r)
               /\ Owners(V.list.cases \o P.eg.cases) = Owners(V.list.cases) \cup Owners(P.eg.cases)
    <3> DEFINE vs == V.list.cases
               ps == P.eg.cases
    <3>1. vs \in Seq(Case) /\ ps \in Seq(Case)
      BY <2>1
    <3> HIDE DEF vs, ps
    <3>2. Count(vs \o ps, r) = Count(vs, r) + Count(ps, r) /\ Owners(vs \o ps) = Owners(vs) \cup Owners(ps)
      BY ONLY <3>1, CountConcat
    <3>. QED  BY <3>2 DEF vs, ps
  <2>. QED  BY <2>2, <2>3
<1>10. g \in Group /\ g.i_list = V.list.i_list \o kept /\ g.cases = V.list.cases \o P.eg.cases
  BY <1>8, <1>9 DEF Group
<1>11. ecmd \in [Permanent -> Group]
  BY DEF CasesInv, Whole
<1>12. e \in [Permanent -> Group] /\ e[c] = g /\ \A d \in Permanent \ {c} : e[d] = ecmd[d]
  BY <1>10, <1>11 DEF Joined
<1> HIDE DEF F, e, g, kept, few, chain
<1>13. /\ F \in Mem /\ Distinct(F.pool) /\ Range(F.pool) = Range(V.M.pool) \cup S
       /\ F.traced = V.M.traced \ S /\ \A r \in Recs \ S : F.i[r] = V.M.i[r]
  BY <1>7 DEF Freed
<1>14. Owners(g.cases) = Range(g.i_list)
  BY <1>2, <1>4, <1>8, <1>9, <1>10
<1>15. \A r \in Range(g.i_list) : F.i[r].ecount = Count(g.cases, r)
  <2>. TAKE r \in Range(g.i_list)
  <2>0. Count(g.cases, r) = Count(V.list.cases, r) + Count(P.eg.cases, r)
    BY <1>9, <1>10
  <2>a. /\ Count(V.list.cases, r) \in Nat /\ (Count(V.list.cases, r) = 0 <=> r \notin Owners(V.list.cases))
        /\ Count(P.eg.cases, r) \in Nat /\ (Count(P.eg.cases, r) = 0 <=> r \notin Owners(P.eg.cases))
    BY <1>2, CountZero
  <2>b. Range(V.list.i_list) \in SUBSET Recs
    BY <1>2, RangeIs
  <2>1. CASE r \in Range(V.list.i_list)
    <3>1. F.i[r] = V.M.i[r] /\ V.M.i[r].ecount = Count(V.list.cases, r)
      BY <1>2, <1>3, <1>13, <2>1, <2>b
    <3>2. Count(P.eg.cases, r) = 0
      BY <1>2, <1>3, <2>1, <2>a
    <3>. QED  BY <2>0, <2>a, <3>1, <3>2
  <2>2. CASE r \in E \ S
    <3>1. F.i[r] = V.M.i[r] /\ V.M.i[r].ecount = Count(P.eg.cases, r)
      BY <1>1, <1>2, <1>13, <2>2
    <3>2. Count(V.list.cases, r) = 0
      BY <1>2, <1>3, <2>2, <2>a
    <3>. QED  BY <2>0, <2>a, <3>1, <3>2
  <2>. QED  BY <1>8, <1>10, <2>1, <2>2
<1>16. Sound(F, g)
  <2>1. Range(F.pool) \cap Range(g.i_list) = {}
    BY <1>1, <1>2, <1>3, <1>8, <1>10, <1>13
  <2>2. F.traced \cap Range(F.pool) = {}
    BY <1>2, <1>13
  <2>. QED  BY <1>8, <1>10, <1>13, <1>14, <1>15, <2>1, <2>2 DEF Sound
<1>17. Range(g.i_list) = Range(V.list.i_list) \cup (E \ S)
  BY <1>8, <1>10
<1>. QED  BY <1>12, <1>13, <1>14, <1>16, <1>17 DEF Full, F, e, chain

LEMMA JoinedWhole ==
    ASSUME CasesInv, NEW P, NEW c \in Permanent, NEW V, Half(P, c, V)
    PROVE  Whole(FreeI(V.M, Unneeded(P, V)), Joined(P, c, V), spilt)
<1> DEFINE F == FreeI(V.M, Unneeded(P, V))
           e == Joined(P, c, V)
           R == Range(ecmd[c].i_list) \ Range(V.list.i_list)
           E == Range(P.eg.i_list)
           S == {r \in E : V.M.i[r].ecount = 0}
<1>1. /\ Memory.i = exp_i /\ Memory.pool = pool /\ Memory.traced = traced
      /\ Whole(Memory, ecmd, spilt) /\ traced \cap Range(pool) = {}
  BY ReadyIs DEF CasesInv, Ready
<1>2. /\ Listed(ecmd) \in SUBSET Recs /\ Listed(ecmd) \cap Range(pool) = {}
      /\ \A d \in Permanent : Range(ecmd[d].i_list) \subseteq Listed(ecmd) /\ Range(ecmd[d].i_list) \in SUBSET Recs
  BY <1>1, WholeIs
<1>3. /\ E \in SUBSET Recs
      /\ Range(V.list.i_list) \subseteq Range(ecmd[c].i_list)
      /\ Range(V.M.pool) \cup E = Range(pool) \cup R
      /\ Range(V.M.pool) \cap E = {} /\ E \subseteq Range(pool)
      /\ \A d \in Permanent \ {c} : \A r \in Range(ecmd[d].i_list) : V.M.i[r] = exp_i[r]
      /\ \A r \in Range(V.list.i_list) : Lesser(exp_i[r], V.M.i[r])
      /\ V.M.traced = (traced \ R) \cup {r \in E : V.M.i[r].variable # None}
  BY DEF Half
<1>4. /\ F \in Mem /\ Distinct(F.pool) /\ Range(F.pool) = Range(V.M.pool) \cup S
      /\ F.traced = V.M.traced \ S /\ \A r \in Recs \ S : F.i[r] = V.M.i[r]
      /\ e \in [Permanent -> Group] /\ \A d \in Permanent \ {c} : e[d] = ecmd[d]
      /\ Sound(F, e[c]) /\ Full(e[c])
      /\ Range(e[c].i_list) = Range(V.list.i_list) \cup (E \ S)
  BY JoinedIs
<1> HIDE DEF F, e
<1>5. \A d \in Permanent \ {c} : Range(ecmd[d].i_list) \cap Range(ecmd[c].i_list) = {}
  BY <1>1 DEF Whole
<1>6. \A d \in Permanent \ {c} : \A r \in Range(ecmd[d].i_list) : r \in Recs /\ r \notin E /\ F.i[r] = exp_i[r]
  BY <1>2, <1>3, <1>4
<1>7. ASSUME NEW d \in Permanent, d # c PROVE Sound(F, ecmd[d]) /\ Full(ecmd[d])
  <2>1. Sound(Memory, ecmd[d]) /\ Full(ecmd[d]) /\ Range(ecmd[d].i_list) \cap Range(ecmd[c].i_list) = {}
    BY <1>1, <1>5, <1>7 DEF Whole
  <2>2. /\ ecmd[d] \in Group /\ Distinct(ecmd[d].i_list) /\ Owners(ecmd[d].cases) \subseteq Range(ecmd[d].i_list)
        /\ \A r \in Range(ecmd[d].i_list) : exp_i[r].ecount = Count(ecmd[d].cases, r)
    BY <1>1, <2>1 DEF Sound
  <2>3. Range(F.pool) \cap Range(ecmd[d].i_list) = {}
    BY <1>2, <1>3, <1>4, <2>1
  <2>4. F.traced \cap Range(F.pool) = {}
    BY <1>4 DEF Sound
  <2>. QED  BY <1>4, <1>6, <1>7, <2>1, <2>2, <2>3, <2>4 DEF Sound
<1>8. \A d \in Permanent : Sound(F, e[d]) /\ Full(e[d])
  BY <1>4, <1>7
<1>9. \A d, b \in Permanent : d # b => Range(e[d].i_list) \cap Range(e[b].i_list) = {}
  <2>1. ASSUME NEW d \in Permanent, d # c PROVE Range(e[d].i_list) \cap Range(e[c].i_list) = {}
    <3>1. Range(ecmd[d].i_list) \cap Range(ecmd[c].i_list) = {} /\ Range(ecmd[d].i_list) \cap E = {} /\ e[d] = ecmd[d]
      BY <1>4, <1>5, <1>6, <2>1
    <3>. QED  BY <1>3, <1>4, <3>1
  <2>2. ASSUME NEW d \in Permanent, NEW b \in Permanent, d # b, d # c, b # c
        PROVE  Range(e[d].i_list) \cap Range(e[b].i_list) = {}
    <3>1. Range(ecmd[d].i_list) \cap Range(ecmd[b].i_list) = {}
      BY <1>1, <2>2 DEF Whole
    <3>. QED  BY <1>4, <2>2, <3>1
  <2>. QED  BY <2>1, <2>2
<1>10. Listed(e) = (Listed(ecmd) \ R) \cup (E \ S)
  <2>1. \A r : r \in Listed(e) <=> \E d \in Permanent : r \in Range(e[d].i_list)
    BY DEF Listed
  <2>2. \A r : r \in Listed(ecmd) <=> \E d \in Permanent : r \in Range(ecmd[d].i_list)
    BY DEF Listed
  <2>3. ASSUME NEW r PROVE r \in Listed(e) => r \in (Listed(ecmd) \ R) \cup (E \ S)
    BY <1>3, <1>4, <1>5, <2>1, <2>2
  <2>4. ASSUME NEW r PROVE r \in (Listed(ecmd) \ R) \cup (E \ S) => r \in Listed(e)
    BY <1>3, <1>4, <1>5, <2>1, <2>2
  <2>. QED  BY <2>3, <2>4
<1>11. \A r \in Listed(ecmd) \ R : F.i[r].variable = exp_i[r].variable /\ r \notin E
  <2>. SUFFICES ASSUME NEW r \in Listed(ecmd) \ R PROVE F.i[r].variable = exp_i[r].variable /\ r \notin E
    OBVIOUS
  <2>1. PICK d \in Permanent : r \in Range(ecmd[d].i_list)
    BY DEF Listed
  <2>2. r \notin E /\ r \in Recs
    BY <1>2, <1>3
  <2>3. CASE d = c
    <3>1. r \in Range(V.list.i_list)
      BY <2>1, <2>3
    <3>2. F.i[r] = V.M.i[r]
      BY <1>4, <2>2
    <3>. QED  BY <1>3, <2>2, <3>1, <3>2 DEF Lesser
  <2>4. CASE d # c
    BY <1>6, <2>1, <2>2, <2>4
  <2>. QED  BY <2>3, <2>4
<1>12. ASSUME ~spilt PROVE Range(F.pool) \cup Listed(e) = Recs /\ F.traced = {r \in Listed(e) : F.i[r].variable # None}
  <2>1. Range(pool) \cup Listed(ecmd) = Recs /\ traced = {r \in Listed(ecmd) : exp_i[r].variable # None}
    BY <1>1, <1>12 DEF Whole
  <2>2. R \subseteq Listed(ecmd) /\ S \subseteq E
    BY <1>2
  <2>3. \A r \in E \ S : F.i[r] = V.M.i[r]
    BY <1>3, <1>4
  <2>4. Range(F.pool) \cup E = Range(pool) \cup R
    BY <1>3, <1>4
  <2>5. F.traced = ((traced \ R) \cup {r \in E : V.M.i[r].variable # None}) \ S
    BY <1>3, <1>4
  <2>6. traced \cap E = {} /\ Range(F.pool) \cap (E \ S) = {} /\ S \subseteq Range(F.pool)
    BY <1>1, <1>3, <1>4
  <2> HIDE DEF R, E, S
  <2>7. Range(F.pool) \cup Listed(e) = Recs
    BY <1>2, <1>3, <1>10, <2>1, <2>2, <2>4, <2>6
  <2>8. F.traced = {r \in Listed(e) : F.i[r].variable # None}
    BY <1>10, <1>11, <2>1, <2>2, <2>3, <2>5, <2>6
  <2>. QED  BY <2>7, <2>8
<1>13. Whole(F, e, spilt)
  BY <1>4, <1>8, <1>9, <1>12 DEF Whole
<1>. QED  BY <1>13 DEF F, e

\* The command that gave it cases, for each spawn id.
Named(P, c, V) ==
    [named EXCEPT ![c] = [i \in Ids |->
        IF \E k \in DOMAIN P.eg.i_list : LET r == P.eg.i_list[k] IN
              V.M.i[r].variable = None /\ i \in Range(V.M.i[r].state_list)
        THEN calls + 1 ELSE named[c][i]]]

LEMMA JoinedLatest ==
    ASSUME CasesInv, NEW P, NEW c \in Permanent, NEW V, Half(P, c, V),
           \A r \in Range(P.eg.i_list) : V.M.i[r].variable = None =>
               \A em \in Range(V.M.i[r].state_list) : Lacks(V, em)
    PROVE  /\ Latest(FreeI(V.M, Unneeded(P, V)), Joined(P, c, V), Named(P, c, V))
           /\ Named(P, c, V) \in [Permanent -> [Ids -> Nat]]
<1> DEFINE F == FreeI(V.M, Unneeded(P, V))
           e == Joined(P, c, V)
           n == Named(P, c, V)
           E == Range(P.eg.i_list)
           S == {r \in E : V.M.i[r].ecount = 0}
           Given1(i) == \E k \in DOMAIN P.eg.i_list : LET r == P.eg.i_list[k] IN
              V.M.i[r].variable = None /\ i \in Range(V.M.i[r].state_list)
           f == [i \in Ids |-> IF Given1(i) THEN calls + 1 ELSE named[c][i]]
<1>1. /\ Memory.i = exp_i /\ Memory.pool = pool /\ Whole(Memory, ecmd, spilt) /\ Latest(Memory, ecmd, named)
      /\ named \in [Permanent -> [Ids -> Nat]] /\ calls \in Nat
  BY ReadyIs DEF CasesInv
<1>2. /\ Listed(ecmd) \in SUBSET Recs /\ Listed(ecmd) \cap Range(pool) = {}
      /\ \A d \in Permanent : Range(ecmd[d].i_list) \subseteq Listed(ecmd) /\ Range(ecmd[d].i_list) \in SUBSET Recs
  BY <1>1, WholeIs
<1>3. /\ E \in SUBSET Recs /\ E \subseteq Range(pool)
      /\ Range(V.list.i_list) \subseteq Range(ecmd[c].i_list)
      /\ \A r \in E : V.M.i[r].born = calls + 1
      /\ \A d \in Permanent \ {c} : \A r \in Range(ecmd[d].i_list) : V.M.i[r] = exp_i[r]
      /\ \A r \in Range(V.list.i_list) : Lesser(exp_i[r], V.M.i[r])
      /\ P.eg.i_list \in Seq(Recs)
  BY DEF Half, Sound, Group
<1>4. /\ \A r \in Recs \ S : F.i[r] = V.M.i[r]
      /\ \A d \in Permanent \ {c} : e[d] = ecmd[d]
      /\ Range(e[c].i_list) = Range(V.list.i_list) \cup (E \ S)
  BY JoinedIs
<1>5. n = [named EXCEPT ![c] = f]
  BY DEF Named
<1>6. \A i : Given1(i) <=> \E r \in E : V.M.i[r].variable = None /\ i \in Range(V.M.i[r].state_list)
  <2>1. \A x : x \in Range(P.eg.i_list) <=> \E k \in DOMAIN P.eg.i_list : P.eg.i_list[k] = x
    BY DEF Range
  <2>. QED  BY <2>1
<1> HIDE DEF Given1
<1>7. f \in [Ids -> Nat] /\ \A i \in Ids : f[i] = IF Given1(i) THEN calls + 1 ELSE named[c][i]
  BY <1>1
<1> HIDE DEF f, n, F, e
<1>8. n \in [Permanent -> [Ids -> Nat]] /\ n[c] = f /\ \A d \in Permanent \ {c} : n[d] = named[d]
  BY <1>1, <1>5, <1>7
<1>9. Latest(F, e, n)
  <2>. SUFFICES ASSUME NEW d \in Permanent, NEW r \in Range(e[d].i_list), F.i[r].variable = None,
                       NEW i \in Range(F.i[r].state_list) \cap Ids
                PROVE  F.i[r].born = n[d][i]
    BY DEF Latest
  <2>1. CASE d # c
    <3>1. e[d] = ecmd[d] /\ n[d] = named[d]
      BY <1>4, <1>8, <2>1
    <3>2. r \in Range(ecmd[d].i_list)
      BY <3>1
    <3>3. r \in Recs /\ r \notin E
      BY <1>2, <1>3, <3>2
    <3>4. F.i[r] = exp_i[r]
      BY <1>3, <1>4, <2>1, <3>2, <3>3
    <3>. QED  BY <1>1, <3>1, <3>2, <3>4 DEF Latest
  <2>2. CASE d = c /\ r \in E \ S
    <3>1. F.i[r] = V.M.i[r]
      BY <1>3, <1>4, <2>2
    <3>2. Given1(i)
      BY <1>6, <2>2, <3>1
    <3>. QED  BY <1>3, <1>7, <1>8, <2>2, <3>1, <3>2
  <2>3. CASE d = c /\ r \in Range(V.list.i_list)
    <3>1. r \in Recs /\ r \notin E /\ r \in Range(ecmd[c].i_list)
      BY <1>2, <1>3, <2>3
    <3>2. F.i[r] = V.M.i[r]
      BY <1>4, <3>1
    <3>3. ~Given1(i)
      <4>1. SUFFICES ASSUME NEW q \in E, V.M.i[q].variable = None, i \in Range(V.M.i[q].state_list) PROVE FALSE
        BY <1>6
      <4>2. Lacks(V, i)
        BY <4>1
      <4>. QED  BY <2>3, <3>2, <4>2 DEF Lacks
    <3>4. Lesser(exp_i[r], V.M.i[r])
      BY <1>3, <2>3
    <3>5. exp_i[r].variable = None /\ i \in Range(exp_i[r].state_list) /\ F.i[r].born = exp_i[r].born
      BY <3>2, <3>4 DEF Lesser
    <3>6. exp_i[r].born = named[c][i]
      BY <1>1, <3>1, <3>5 DEF Latest
    <3>. QED  BY <1>7, <1>8, <2>3, <3>3, <3>5, <3>6
  <2>. QED  BY <1>4, <2>1, <2>2, <2>3
<1>. QED  BY <1>8, <1>9 DEF F, e, n

\* The step of expect_before and expect_after.
LEMMA GlobalIs ==
    ASSUME CasesInv, NEW P, Draft(P), NEW c \in Permanent
    PROVE  LET D == EvictDirect([M |-> P.M, list |-> ecmd[c]], P.eg.i_list)
               N == EvictIndirect(D.T, P.eg.i_list)
           IN  /\ Half(P, c, D.T)
               /\ D.ok => /\ Half(P, c, N)
                          /\ \A r \in Range(P.eg.i_list) : N.M.i[r].variable = None =>
                                \A em \in Range(N.M.i[r].state_list) : Lacks(N, em)
<1> DEFINE T == [M |-> P.M, list |-> ecmd[c]]
           news == P.eg.i_list
           D == EvictDirect(T, news)
           N == EvictIndirect(D.T, news)
<1>1. P.M \in Mem /\ ecmd[c] \in Group /\ news \in Seq(Recs)
  BY DEF Draft, Drafts, Group, CasesInv, Whole
<1>2. T \in Trial /\ T.M = P.M /\ T.list = ecmd[c]
  BY <1>1 DEF Trial
<1>3. Sound(T.M, T.list)
  <2>1. /\ Memory.i = exp_i /\ Memory.pool = pool /\ Memory.traced = traced
        /\ Whole(Memory, ecmd, spilt)
    BY ReadyIs DEF CasesInv
  <2>2. Listed(ecmd) \cap Range(pool) = {} /\ Range(ecmd[c].i_list) \subseteq Listed(ecmd) /\ Range(ecmd[c].i_list) \in SUBSET Recs
    BY <2>1, WholeIs
  <2>3. Sound(Memory, ecmd[c])
    BY <2>1 DEF Whole
  <2>4. /\ P.M \in Mem /\ Distinct(P.M.pool) /\ P.M.traced \cap Range(P.M.pool) = {}
        /\ Range(P.M.pool) \subseteq Range(pool) /\ \A r \in Recs \ Range(pool) : P.M.i[r] = exp_i[r]
    BY DEF Draft, Sound
  <2>5. \A r \in Range(ecmd[c].i_list) : P.M.i[r] = exp_i[r]
    BY <2>2, <2>4
  <2>. HIDE DEF T
  <2>. QED  BY <1>2, <2>1, <2>2, <2>3, <2>4, <2>5 DEF Sound
<1>a. Roomy(T, D, news)
  <2>. HIDE DEF T, news
  <2>. QED  BY <1>1, <1>2, <1>3, EvictDirectIs
<1>4. D.T \in Trial /\ Removal(T, D.T)
  BY <1>a DEF Roomy, Evicted
<1> HIDE DEF D
<1>5. Sound(D.T.M, D.T.list)
  BY <1>4 DEF Removal
<1>6. N \in Trial /\ Removal(D.T, N)
  BY <1>1, <1>4, <1>5, EvictIndirectIs
<1> HIDE DEF N
<1>7. Removal(T, N)
  BY ONLY <1>3, <1>4, <1>6, RemovalTwice
<1>8. Half(P, c, D.T)
  BY <1>4, HalfIs
<1>9. Half(P, c, N)
  BY <1>6, <1>7, HalfIs
<1>10. ASSUME D.ok, NEW r \in Range(news), N.M.i[r].variable = None, NEW em \in Range(N.M.i[r].state_list)
       PROVE  Lacks(N, em)
  <2>1. N.M.i[r] = T.M.i[r]
    BY <1>2, <1>9 DEF Half
  <2>2. Lacks(D.T, em)
    BY <1>a, <1>10, <2>1 DEF Roomy
  <2>. QED  BY <1>6, <2>2, LacksStays
<1>. QED  BY <1>8, <1>9, <1>10 DEF D, N

LEMMA BecomesIs ==
    ASSUME NEW M \in Mem, Becomes(M)
    PROVE  Memory' = M
<1>1. M = [i |-> M.i, pool |-> M.pool, traced |-> M.traced]
  BY DEF Mem
<1>2. Memory' = [i |-> exp_i', pool |-> pool', traced |-> traced']
  BY DEF Memory
<1>. QED  BY <1>1, <1>2 DEF Becomes

GlobalEnds(c, P, D, N) ==
    /\ P.status # "bound"
    /\ IF P.status # "ok"
       THEN /\ Becomes(P.M)
            /\ spilt' = (spilt \/ (P.status = "return" /\ P.eg.i_list # <<>>))
            /\ UNCHANGED <<ecmd, named>>
       ELSE IF ~D.ok
       THEN /\ Becomes(FreeI(D.T.M, Within(P.eg.i_list, {r \in Recs : D.T.M.i[r].ecount > 0})))
            /\ ecmd' = [ecmd EXCEPT ![c] = D.T.list]
            /\ spilt' = (spilt \/ \E k \in DOMAIN P.eg.i_list :
                                     D.T.M.i[P.eg.i_list[k]].ecount = 0)
            /\ UNCHANGED named
       ELSE /\ Becomes(FreeI(N.M, Unneeded(P, N)))
            /\ ecmd' = Joined(P, c, N)
            /\ named' = Named(P, c, N)
            /\ UNCHANGED spilt

LEMMA ExpectGlobalKeeps ==
    ASSUME CasesInv, NEW c \in Permanent, NEW args \in Seq(Argument), NEW cur \in Ids \cup {None},
           NEW bad \in {"no", "error", "return"}, ExpectGlobal(c, args, cur, bad)
    PROVE  CasesInv'
<1> DEFINE P == Parse(args, cur, bad)
           T == [M |-> P.M, list |-> ecmd[c]]
           D == EvictDirect(T, P.eg.i_list)
           N == EvictIndirect(D.T, P.eg.i_list)
<1>1. /\ value' = value /\ calls' = calls + 1
      /\ GlobalEnds(c, P, D, N)
  <2>1. /\ value' = value /\ calls' = calls + 1
        /\ \E Q \in {Parse(args, cur, bad)} :
           \E A \in {EvictDirect([M |-> Q.M, list |-> ecmd[c]], Q.eg.i_list)} :
           \E B \in {EvictIndirect(A.T, Q.eg.i_list)} : GlobalEnds(c, Q, A, B)
    BY DEF ExpectGlobal, Call, GlobalEnds, Unneeded, Joined, Named
  <2>2. PICK Q \in {Parse(args, cur, bad)} :
           \E A \in {EvictDirect([M |-> Q.M, list |-> ecmd[c]], Q.eg.i_list)} :
           \E B \in {EvictIndirect(A.T, Q.eg.i_list)} : GlobalEnds(c, Q, A, B)
    BY <2>1
  <2>3. Q = P
    OBVIOUS
  <2>. HIDE DEF P
  <2>4. \E A \in {D} : \E B \in {EvictIndirect(A.T, P.eg.i_list)} : GlobalEnds(c, P, A, B)
    BY <2>2, <2>3
  <2>. HIDE DEF D
  <2>5. \E B \in {N} : GlobalEnds(c, P, D, B)
    BY <2>4
  <2>. QED  BY <2>1, <2>5
<1>2. Parsed(P)
  <2>1. Ready
    BY ReadyIs
  <2>. QED  BY <2>1, ParseIs
<1> HIDE DEF P
<1>3. Draft(P) => /\ Half(P, c, D.T)
                  /\ D.ok => /\ Half(P, c, N)
                             /\ \A r \in Range(P.eg.i_list) : N.M.i[r].variable = None =>
                                   \A em \in Range(N.M.i[r].state_list) : Lacks(N, em)
  BY GlobalIs
<1> HIDE DEF D, N
<1>4. /\ value \in [Vars -> Seq(Names)] /\ calls \in Nat /\ spilt \in BOOLEAN
      /\ named \in [Permanent -> [Ids -> Nat]]
  BY DEF CasesInv
<1>5. SUFFICES /\ Whole(Memory', ecmd', spilt') /\ Latest(Memory', ecmd', named')
               /\ spilt' \in BOOLEAN /\ named' \in [Permanent -> [Ids -> Nat]]
  <2>1. value' \in [Vars -> Seq(Names)] /\ calls' \in Nat
    BY <1>1, <1>4
  <2>. QED  BY <2>1 DEF CasesInv
<1>6. CASE P.status # "ok"
  <2> DEFINE left == spilt \/ (P.status # "error" /\ P.eg.i_list # <<>>)
  <2>1. Whole(P.M, ecmd, left) /\ Latest(P.M, ecmd, named)
    BY <1>2, <1>6, ParseEnds
  <2>2. P.status \in {"error", "return"}
    <3>1. P.status # "error" => P.status \in {"ok", "error", "return", "bound"}
      BY <1>2 DEF Parsed, Draft, Drafts
    <3>2. P.status # "bound"
      BY <1>1 DEF GlobalEnds
    <3>. QED  BY <1>6, <3>1, <3>2
  <2>3. spilt' = left
    BY <1>1, <1>6, <2>2 DEF GlobalEnds
  <2>. HIDE DEF left
  <2>4. P.M \in Mem
    BY <2>1, WholeIs
  <2>5. Memory' = P.M
    BY <1>1, <1>6, <2>4, BecomesIs DEF GlobalEnds
  <2>6. ecmd' = ecmd /\ named' = named
    BY <1>1, <1>6 DEF GlobalEnds
  <2>7. left \in BOOLEAN
    BY <1>4 DEF left
  <2>. QED  BY <1>4, <2>1, <2>3, <2>5, <2>6, <2>7
<1>7. CASE P.status = "ok" /\ ~D.ok
  <2> DEFINE chain == Within(P.eg.i_list, {r \in Recs : D.T.M.i[r].ecount > 0})
             F == FreeI(D.T.M, chain)
             left == spilt \/ \E k \in DOMAIN P.eg.i_list : D.T.M.i[P.eg.i_list[k]].ecount = 0
             e == [ecmd EXCEPT ![c] = D.T.list]
  <2>1. Draft(P)
    BY <1>2, <1>7 DEF Parsed
  <2>2. Half(P, c, D.T)
    BY <1>3, <2>1
  <2>3. P.eg.i_list \in Seq(Recs) /\ Distinct(P.eg.i_list) /\ P.eg.cases \in Seq(Case)
    BY <2>1 DEF Draft, Sound, Group
  <2>4. /\ chain \in Seq(Recs) /\ Range(chain) = Range(P.eg.i_list) \cap {r \in Recs : D.T.M.i[r].ecount > 0}
        /\ Distinct(chain)
    BY <2>3, WithinIs
  <2>5. ~left => ~spilt /\ Range(chain) = Range(P.eg.i_list)
    <3>. SUFFICES ASSUME ~left PROVE Range(chain) = Range(P.eg.i_list)
      OBVIOUS
    <3>1. \A r \in Range(P.eg.i_list) : D.T.M.i[r].ecount # 0
      BY DEF Range
    <3>2. \A r \in Range(P.eg.i_list) : r \in Recs /\ D.T.M.i[r].ecount = Count(P.eg.cases, r)
      BY <2>2 DEF Half, Sound
    <3>3. \A r \in Range(P.eg.i_list) : D.T.M.i[r].ecount \in Nat
      BY <2>3, <3>2, CountZero
    <3>4. \A r \in Range(P.eg.i_list) : D.T.M.i[r].ecount > 0
      BY ONLY <3>1, <3>3, PositiveIs
    <3>. HIDE DEF chain
    <3>. QED  BY <2>4, <3>2, <3>4
  <2>6. spilt' = left /\ Becomes(F) /\ ecmd' = e /\ named' = named
    BY <1>1, <1>7 DEF GlobalEnds
  <2>7. left \in BOOLEAN
    BY <1>4
  <2>. HIDE DEF chain, left
  <2>8. Whole(F, e, left) /\ Latest(F, e, named)
    BY <2>2, <2>4, <2>5, HalfFreed
  <2>. HIDE DEF F, e
  <2>9. F \in Mem
    BY <2>8, WholeIs
  <2>10. Memory' = F
    BY <2>6, <2>9, BecomesIs
  <2>. QED  BY <1>4, <2>6, <2>7, <2>8, <2>10
<1>8. CASE P.status = "ok" /\ D.ok
  <2> DEFINE F == FreeI(N.M, Unneeded(P, N))
             e == Joined(P, c, N)
             n == Named(P, c, N)
  <2>1. Draft(P)
    BY <1>2, <1>8 DEF Parsed
  <2>2. /\ Half(P, c, N)
        /\ \A r \in Range(P.eg.i_list) : N.M.i[r].variable = None =>
              \A em \in Range(N.M.i[r].state_list) : Lacks(N, em)
    BY <1>3, <1>8, <2>1
  <2>3. Whole(F, e, spilt)
    BY <2>2, JoinedWhole
  <2>4. Latest(F, e, n) /\ n \in [Permanent -> [Ids -> Nat]]
    BY <2>2, JoinedLatest
  <2>5. Becomes(F) /\ ecmd' = e /\ named' = n /\ spilt' = spilt
    BY <1>1, <1>8 DEF GlobalEnds
  <2>. HIDE DEF F, e, n
  <2>6. F \in Mem
    BY <2>3, WholeIs
  <2>7. Memory' = F
    BY <2>5, <2>6, BecomesIs
  <2>. QED  BY <1>4, <2>3, <2>4, <2>5, <2>7
<1>. QED  BY <1>6, <1>7, <1>8

\* A write to a variable changes only what records of variables list.
Updated(M, N) ==
    /\ N \in Mem /\ N.pool = M.pool /\ N.traced = M.traced
    /\ \A r \in Recs : /\ N.i[r].variable = M.i[r].variable /\ N.i[r].ecount = M.i[r].ecount
                       /\ M.i[r].variable = None => N.i[r] = M.i[r]

UpdateNext(M, r, v) == IF M.i[r].variable = v THEN UpdateI(M, r) ELSE M
Updating == INSTANCE FoldProofs WITH op <- UpdateNext, step <- UpdateNext

LEMMA UpdateIs ==
    ASSUME NEW M \in Mem, NEW r \in Recs, NEW v \in Vars, value'[v] \in Seq(Names)
    PROVE  Updated(M, UpdateNext(M, r, v))
<1> DEFINE now == value'[v]
           a == M.i[r]
           b == [a EXCEPT !.value = now, !.state_list = States(now)]
           N == UpdateNext(M, r, v)
<1>1. CASE a.variable # v
  BY <1>1 DEF UpdateNext, Updated
<1>2. CASE a.variable = v
  <2>1. a \in Rec
    BY DEF Mem
  <2>2. States(now) \in Seq(Names)
    BY StatesIs
  <2>3. b \in Rec /\ b.variable = a.variable /\ b.ecount = a.ecount
    <3> DEFINE s == States(now)
               c == [a EXCEPT !.value = now]
    <3>1. b = [c EXCEPT !.state_list = s]
      OBVIOUS
    <3>. HIDE DEF a, b, s, now, c
    <3>2. c \in Rec /\ c.variable = a.variable /\ c.ecount = a.ecount
      BY <2>1 DEF Rec, c, now
    <3>3. s \in Seq(Names)
      BY <2>2 DEF s, now
    <3>. QED  BY <3>1, <3>2, <3>3 DEF Rec
  <2>4. N = M \/ N = [M EXCEPT !.i[r].value = now, !.i[r].state_list = States(now)]
    BY <1>2 DEF UpdateNext, UpdateI
  <2>5. [M EXCEPT !.i[r].value = now, !.i[r].state_list = States(now)] =
           [i |-> [M.i EXCEPT ![r] = b], pool |-> M.pool, traced |-> M.traced]
    <3> DEFINE s == States(now)
               c == [a EXCEPT !.value = now]
               K == [i |-> [M.i EXCEPT ![r] = c], pool |-> M.pool, traced |-> M.traced]
    <3>1. M = [i |-> M.i, pool |-> M.pool, traced |-> M.traced] /\ M.i \in [Recs -> Rec]
      BY DEF Mem
    <3>. HIDE DEF s, now
    <3>2. [M EXCEPT !.i[r].value = now] = K
      BY <3>1
    <3>3. [M EXCEPT !.i[r].value = now, !.i[r].state_list = s] = [K EXCEPT !.i[r].state_list = s]
      BY <3>2
    <3>4. K.i[r] = c
      BY <3>1
    <3>5. [K.i EXCEPT ![r] = [c EXCEPT !.state_list = s]] = [M.i EXCEPT ![r] = [c EXCEPT !.state_list = s]]
      BY <3>1
    <3>6. [K EXCEPT !.i[r].state_list = s] =
             [i |-> [M.i EXCEPT ![r] = [c EXCEPT !.state_list = s]], pool |-> M.pool, traced |-> M.traced]
      <4> DEFINE x == [M.i EXCEPT ![r] = c]
                 y == [M.i EXCEPT ![r] = [c EXCEPT !.state_list = s]]
      <4>1. [K EXCEPT !.i[r].state_list = s] =
               [i |-> [x EXCEPT ![r].state_list = s], pool |-> M.pool, traced |-> M.traced]
        <5>1. K = [i |-> x, pool |-> M.pool, traced |-> M.traced]
          OBVIOUS
        <5>. HIDE DEF x, K
        <5>2. [K EXCEPT !.i[r].state_list = s] = [K EXCEPT !.i = [x EXCEPT ![r].state_list = s]]
          BY <5>1
        <5> DEFINE z == [x EXCEPT ![r].state_list = s]
        <5>. HIDE DEF z
        <5>3. [K EXCEPT !.i = z] = [i |-> z, pool |-> M.pool, traced |-> M.traced]
          BY <5>1
        <5>. QED  BY <5>2, <5>3 DEF z
      <4>2. [x EXCEPT ![r].state_list = s] = [x EXCEPT ![r] = [c EXCEPT !.state_list = s]]
        BY <3>4
      <4>3. [x EXCEPT ![r] = [c EXCEPT !.state_list = s]] = y
        BY <3>5
      <4>. QED  BY <4>1, <4>2, <4>3
    <3>7. b = [c EXCEPT !.state_list = s]
      BY DEF s, now
    <3>. QED  BY <3>3, <3>6, <3>7 DEF s
  <2>. HIDE DEF b
  <2>6. CASE N = M
    BY <2>6 DEF Updated
  <2>7. CASE N = [i |-> [M.i EXCEPT ![r] = b], pool |-> M.pool, traced |-> M.traced]
    <3>1. M.i \in [Recs -> Rec] /\ M.pool \in Seq(Recs) /\ M.traced \in SUBSET Recs
      BY DEF Mem
    <3>2. N.i \in [Recs -> Rec] /\ N.i[r] = b /\ \A q \in Recs : q # r => N.i[q] = M.i[q]
      BY <2>3, <2>7, <3>1
    <3>3. N \in Mem /\ N.pool = M.pool /\ N.traced = M.traced
      BY <2>7, <3>1, <3>2 DEF Mem
    <3>4. v # None
      BY CasesAssumption
    <3>5. \A q \in Recs : /\ N.i[q].variable = M.i[q].variable /\ N.i[q].ecount = M.i[q].ecount
                          /\ M.i[q].variable = None => N.i[q] = M.i[q]
      <4>. HIDE DEF N
      <4>. TAKE q \in Recs
      <4>1. CASE q = r
        BY <1>2, <2>3, <3>2, <3>4, <4>1
      <4>2. CASE q # r
        BY <3>2, <4>2
      <4>. QED  BY <4>1, <4>2
    <3>. HIDE DEF N
    <3>6. Updated(M, N)
      BY ONLY <3>3, <3>5 DEF Updated
    <3>. QED  BY <3>6 DEF N
  <2>. QED  BY <2>4, <2>5, <2>6, <2>7
<1>. QED  BY <1>1, <1>2

LEMMA UpdatedTwice ==
    ASSUME NEW M, NEW N, NEW K, Updated(M, N), Updated(N, K)
    PROVE  Updated(M, K)
BY DEF Updated

\* Every element of the set once.
LEMMA SetSeqIs ==
    ASSUME NEW S, IsFiniteSet(S)
    PROVE  SetToSeq(S) \in Seq(S) /\ Range(SetToSeq(S)) = S /\ Distinct(SetToSeq(S))
<1> DEFINE n == Cardinality(S)
           Right(f) == f \in [1 .. n -> S] /\ IsInjective(f)
           q == SetToSeq(S)
<1>1. n \in Nat
  BY FS_CardinalityType
<1>2. ExistsBijection(1 .. n, S)
  BY FS_CardinalityType
<1>3. \E f : Right(f)
  <2>1. PICK f \in Bijection(1 .. n, S) : TRUE
    BY <1>2 DEF ExistsBijection
  <2>2. f \in [1 .. n -> S] /\ \A a, b \in 1 .. n : f[a] = f[b] => a = b
    BY <2>1 DEF Bijection, Injection, IsInjective
  <2>. QED  BY <2>2 DEF IsInjective
<1>4. q = CHOOSE f : Right(f)
  BY DEF SetToSeq
<1>5. Right(q)
  <2>. HIDE DEF Right
  <2>. QED  BY <1>3, <1>4
<1> HIDE DEF q
<1>6. q \in [1 .. n -> S] /\ \A a, b \in 1 .. n : q[a] = q[b] => a = b
  BY <1>5 DEF IsInjective
<1> HIDE DEF n
<1>7. q \in Seq(S) /\ Len(q) = n
  BY <1>1, <1>6
<1>8. q \in Injection(1 .. n, S)
  BY <1>6 DEF Injection, IsInjective
<1>9. Cardinality(1 .. n) = n /\ IsFiniteSet(1 .. n)
  <2>1. 1 \in Int /\ n \in Int
    BY <1>1
  <2>. QED  BY <1>1, <2>1, FS_Interval
<1>10. q \in Surjection(1 .. n, S)
  BY <1>8, <1>9, FS_Injection DEF n
<1>11. \A x \in S : \E k \in 1 .. n : q[k] = x
  BY <1>10 DEF Surjection
<1>12. Range(q) = S
  BY <1>6, <1>11 DEF Range
<1>13. Distinct(q)
  BY <1>6, <1>7 DEF Distinct
<1>. QED  BY <1>7, <1>12, <1>13 DEF q

\* A sequence without repetitions is as long as it has elements.
LEMMA DistinctIs ==
    ASSUME NEW A, NEW s \in Seq(A), Distinct(s)
    PROVE  Len(s) = Cardinality(Range(s))
<1> DEFINE n == Len(s)
           S == Range(s)
<1>1. n \in Nat /\ DOMAIN s = 1 .. n
  OBVIOUS
<1>2. s \in [1 .. n -> S]
  BY <1>1 DEF Range
<1>3. \A x \in S : \E k \in 1 .. n : s[k] = x
  BY <1>1 DEF Range
<1>4. s \in Surjection(1 .. n, S)
  BY <1>2, <1>3 DEF Surjection
<1>5. s \in Injection(1 .. n, S)
  <2>1. \A a, b \in 1 .. n : s[a] = s[b] => a = b
    BY DEF Distinct
  <2>. QED  BY <1>1, <1>2, <2>1 DEF Injection, IsInjective
<1> HIDE DEF n, S
<1>6. Cardinality(1 .. n) = n /\ IsFiniteSet(1 .. n)
  <2>1. 1 \in Int /\ n \in Int
    BY <1>1
  <2>. QED  BY <1>1, <2>1, FS_Interval
<1>7. Cardinality(S) = Cardinality(1 .. n)
  BY <1>4, <1>5, <1>6, FS_Surjection
<1>. QED  BY <1>6, <1>7 DEF n, S

LEMMA SetVarKeeps ==
    ASSUME CasesInv, NEW v \in Vars, NEW names \in Seq(Names), SetVar(v, names)
    PROVE  CasesInv'
<1> DEFINE s == SetToSeq(traced)
           N == Updating!Fold(Memory, s, v)
           T == {M \in Mem : Updated(Memory, M)}
<1>1. /\ Memory.i = exp_i /\ Memory.pool = pool /\ Memory.traced = traced
      /\ Whole(Memory, ecmd, spilt) /\ Latest(Memory, ecmd, named) /\ Memory \in Mem
  BY ReadyIs DEF CasesInv, Ready
<1>2. /\ value \in [Vars -> Seq(Names)] /\ calls \in Nat /\ spilt \in BOOLEAN
      /\ named \in [Permanent -> [Ids -> Nat]]
  BY DEF CasesInv
<1>3. value' = [value EXCEPT ![v] = names] /\ calls' = calls + 1 /\ UNCHANGED <<ecmd, named, spilt>>
  BY DEF SetVar, Call
<1>4. Becomes(N)
  BY DEF SetVar, Updating!Fold, UpdateNext, FoldLeft, MapThenFoldSet, Updating!FoldLeft,
         Updating!MapThenFoldSet, Max, Updating!Max
<1>5. value'[v] \in Seq(Names) /\ value' \in [Vars -> Seq(Names)] /\ calls' \in Nat
  BY <1>2, <1>3
<1>6. s \in Seq(Recs)
  <2>1. traced \in SUBSET Recs
    BY <1>1 DEF Mem
  <2>2. IsFiniteSet(traced)
    BY <2>1, CasesAssumption, FS_Subset
  <2>3. s \in Seq(traced)
    BY <2>2, SetSeqIs
  <2>. HIDE DEF s
  <2>. QED  BY <2>1, <2>3
<1>7. Len(s) \in Nat /\ DOMAIN s = 1..Len(s)
  BY <1>6
<1>8. Memory \in T
  BY <1>1 DEF Updated
<1>9. ASSUME NEW M \in T, NEW k \in 1..Len(s) PROVE UpdateNext(M, s[k], v) \in T
  <2>1. s[k] \in Recs
    BY <1>6
  <2>2. Updated(M, UpdateNext(M, s[k], v))
    BY <1>5, <2>1, UpdateIs
  <2>3. Updated(Memory, UpdateNext(M, s[k], v))
    <3>1. Updated(Memory, M)
      OBVIOUS
    <3>. QED  BY ONLY <2>2, <3>1, UpdatedTwice
  <2>. QED  BY <2>3 DEF Updated
<1> HIDE DEF T, s
<1>10. Updating!Fold(Memory, s, v) \in T
  BY ONLY <1>7, <1>8, <1>9, Updating!FoldStays
<1>11. N \in Mem /\ Updated(Memory, N)
  BY <1>10 DEF T
<1> HIDE DEF N
<1>12. Memory' = N
  BY <1>4, <1>11, BecomesIs
<1>13. \A c \in Permanent : Range(ecmd[c].i_list) \in SUBSET Recs /\ Range(ecmd[c].i_list) \subseteq Listed(ecmd)
  BY <1>1, WholeIs
<1>14. Listed(ecmd) \in SUBSET Recs
  BY <1>1, WholeIs
<1>15. Whole(N, ecmd, spilt)
  <2>1. \A c \in Permanent : Sound(N, ecmd[c])
    BY <1>1, <1>11, <1>13 DEF Whole, Sound, Updated
  <2>2. ~spilt => Range(N.pool) \cup Listed(ecmd) = Recs /\ N.traced = {r \in Listed(ecmd) : N.i[r].variable # None}
    BY <1>1, <1>11, <1>14 DEF Whole, Updated
  <2>. QED  BY <1>1, <2>1, <2>2 DEF Whole
<1>16. Latest(N, ecmd, named)
  BY <1>1, <1>11, <1>13 DEF Latest, Updated
<1>17. ecmd' = ecmd /\ named' = named /\ spilt' = spilt
  BY <1>3
<1>. QED  BY <1>2, <1>5, <1>12, <1>15, <1>16, <1>17 DEF CasesInv

\* A closed spawn id leaves the list c.
LEMMA RemovedIs ==
    ASSUME NEW M, NEW e, NEW left, NEW n, Whole(M, e, left), Latest(M, e, n), NEW c \in Permanent, NEW i
    PROVE  LET U == EcmdRemoveState([M |-> M, list |-> e[c]], i, TRUE)
               g == [e EXCEPT ![c] = U.list]
           IN  Whole(U.M, g, left) /\ Latest(U.M, g, n)
<1> DEFINE T == [M |-> M, list |-> e[c]]
           U == EcmdRemoveState(T, i, TRUE)
           g == [e EXCEPT ![c] = U.list]
           R == Range(e[c].i_list) \ Range(U.list.i_list)
<1>1. /\ M \in Mem /\ Distinct(M.pool) /\ M.traced \cap Range(M.pool) = {}
      /\ Listed(e) \in SUBSET Recs /\ Listed(e) \cap Range(M.pool) = {}
      /\ \A d \in Permanent : Range(e[d].i_list) \subseteq Listed(e) /\ Range(e[d].i_list) \in SUBSET Recs
  BY WholeIs
<1>2. T \in Trial /\ T.M = M /\ T.list = e[c] /\ Sound(T.M, T.list)
  BY <1>1 DEF Trial, Whole
<1>3. U \in Trial /\ Removal(T, U)
  <2>. HIDE DEF T
  <2>1. TRUE \in BOOLEAN
    OBVIOUS
  <2>. QED  BY <1>2, <2>1, EcmdRemoveStateIs
<1> HIDE DEF U
<1>4. /\ Sound(U.M, U.list) /\ Full(U.list) /\ U.list \in Group
      /\ Range(U.list.i_list) \subseteq Range(e[c].i_list)
      /\ Range(U.M.pool) = Range(M.pool) \cup R
      /\ U.M.traced = M.traced \ R
      /\ \A r \in Recs \ Range(e[c].i_list) : U.M.i[r] = M.i[r]
      /\ \A r \in Range(U.list.i_list) : Lesser(M.i[r], U.M.i[r])
      /\ U.M \in Mem /\ Distinct(U.M.pool) /\ U.M.traced \cap Range(U.M.pool) = {}
  <2>1. Full(e[c])
    BY DEF Whole
  <2>. QED  BY <1>2, <1>3, <2>1 DEF Removal, Sound
<1> HIDE DEF T
<1>5. e \in [Permanent -> Group] /\ (\A d \in Permanent : Sound(M, e[d]) /\ Full(e[d]))
      /\ \A d, b \in Permanent : d # b => Range(e[d].i_list) \cap Range(e[b].i_list) = {}
  BY DEF Whole
<1>6. g \in [Permanent -> Group] /\ g[c] = U.list /\ \A d \in Permanent \ {c} : g[d] = e[d]
  BY <1>4, <1>5
<1> HIDE DEF g
<1>7. \A d \in Permanent \ {c} : \A r \in Range(e[d].i_list) : r \in Recs /\ U.M.i[r] = M.i[r] /\ r \notin Range(e[c].i_list)
  BY <1>1, <1>4, <1>5
<1>8. ASSUME NEW d \in Permanent PROVE Sound(U.M, g[d]) /\ Full(g[d])
  <2>1. CASE d = c
    BY <1>4, <1>6, <2>1
  <2>2. CASE d # c
    <3>1. g[d] = e[d] /\ Full(e[d]) /\ Sound(M, e[d])
      BY <1>5, <1>6, <2>2
    <3>2. Range(U.M.pool) \cap Range(e[d].i_list) = {}
      BY <1>1, <1>4, <1>7, <2>2
    <3>3. \A r \in Range(e[d].i_list) : U.M.i[r] = M.i[r]
      BY <1>7, <2>2
    <3>. QED  BY <1>4, <3>1, <3>2, <3>3 DEF Sound
  <2>. QED  BY <2>1, <2>2
<1>9. \A d, b \in Permanent : d # b => Range(g[d].i_list) \cap Range(g[b].i_list) = {}
  <2>1. \A d \in Permanent : Range(g[d].i_list) \subseteq Range(e[d].i_list)
    BY <1>4, <1>6
  <2>. QED  BY <1>5, <2>1
<1>10. Listed(g) = Listed(e) \ R
  <2>1. \A r : r \in Listed(g) <=> \E d \in Permanent : r \in Range(g[d].i_list)
    BY DEF Listed
  <2>2. \A r : r \in Listed(e) <=> \E d \in Permanent : r \in Range(e[d].i_list)
    BY DEF Listed
  <2>3. \A d \in Permanent \ {c} : Range(e[d].i_list) \cap Range(e[c].i_list) = {}
    BY <1>5
  <2>. QED  BY <1>4, <1>6, <2>1, <2>2, <2>3
<1>11. ASSUME NEW d \in Permanent, NEW r \in Range(g[d].i_list)
       PROVE  r \in Range(e[d].i_list) /\ Lesser(M.i[r], U.M.i[r])
  <2>1. CASE d = c
    BY <1>4, <1>6, <1>11, <2>1
  <2>2. CASE d # c
    <3>1. r \in Range(e[d].i_list)
      BY <1>6, <1>11, <2>2
    <3>2. U.M.i[r] = M.i[r]
      BY <1>7, <2>2, <3>1
    <3>. QED  BY <3>1, <3>2 DEF Lesser
  <2>. QED  BY <2>1, <2>2
<1>12. \A r \in Listed(g) : U.M.i[r].variable = M.i[r].variable
  BY <1>11 DEF Lesser, Listed
<1>13. ~left => Range(U.M.pool) \cup Listed(g) = Recs /\ U.M.traced = {r \in Listed(g) : U.M.i[r].variable # None}
  <2>. SUFFICES ASSUME ~left
                PROVE  Range(U.M.pool) \cup Listed(g) = Recs /\ U.M.traced = {r \in Listed(g) : U.M.i[r].variable # None}
    OBVIOUS
  <2>1. Range(M.pool) \cup Listed(e) = Recs /\ M.traced = {r \in Listed(e) : M.i[r].variable # None}
    BY DEF Whole
  <2>2. R \subseteq Listed(e)
    BY <1>1
  <2> HIDE DEF R
  <2>. QED  BY <1>4, <1>10, <1>12, <2>1, <2>2
<1>14. Whole(U.M, g, left)
  BY <1>6, <1>8, <1>9, <1>13 DEF Whole
<1>15. Latest(U.M, g, n)
  <2>. SUFFICES ASSUME NEW d \in Permanent, NEW r \in Range(g[d].i_list), U.M.i[r].variable = None,
                       NEW j \in Range(U.M.i[r].state_list) \cap Ids
                PROVE  U.M.i[r].born = n[d][j]
    BY DEF Latest
  <2>1. r \in Range(e[d].i_list) /\ Lesser(M.i[r], U.M.i[r])
    BY <1>11
  <2>. QED  BY <2>1 DEF Latest, Lesser
<1>. QED  BY <1>14, <1>15 DEF U, g, T

LEMMA CloseKeeps ==
    ASSUME CasesInv, NEW i \in Ids, Close(i)
    PROVE  CasesInv'
<1> DEFINE B == EcmdRemoveState([M |-> Memory, list |-> ecmd["before"]], i, TRUE)
           A == EcmdRemoveState([M |-> B.M, list |-> ecmd["after"]], i, TRUE)
           f == [ecmd EXCEPT !["before"] = B.list]
           g == [f EXCEPT !["after"] = A.list]
<1>1. /\ Whole(Memory, ecmd, spilt) /\ Latest(Memory, ecmd, named)
      /\ value \in [Vars -> Seq(Names)] /\ calls \in Nat /\ spilt \in BOOLEAN
      /\ named \in [Permanent -> [Ids -> Nat]]
  BY DEF CasesInv
<1>2. calls' = calls + 1 /\ value' = value /\ named' = named /\ spilt' = spilt
  BY DEF Close, Call
<1>3. \E b \in {B} : \E a \in {EcmdRemoveState([M |-> b.M, list |-> ecmd["after"]], i, TRUE)} :
          Becomes(a.M) /\ ecmd' = [before |-> b.list, after |-> a.list]
  BY DEF Close
<1>4. Becomes(A.M) /\ ecmd' = [before |-> B.list, after |-> A.list]
  <2>. HIDE DEF B
  <2>1. \E a \in {A} : Becomes(a.M) /\ ecmd' = [before |-> B.list, after |-> a.list]
    BY <1>3
  <2>. HIDE DEF A
  <2>. QED  BY <2>1
<1>5. "before" \in Permanent /\ "after" \in Permanent /\ "before" # "after" /\ \A d \in Permanent : d = "before" \/ d = "after"
  BY DEF Permanent
<1>6. Whole(B.M, f, spilt) /\ Latest(B.M, f, named)
  BY <1>1, <1>5, RemovedIs
<1> HIDE DEF B
<1>7. ecmd \in [Permanent -> Group]
  BY <1>1 DEF Whole
<1>8. f \in [Permanent -> Group] /\ f["after"] = ecmd["after"] /\ f["before"] = B.list
  <2>1. f \in [Permanent -> Group]
    BY <1>6 DEF Whole
  <2>. QED  BY <1>5, <1>7, <2>1
<1> HIDE DEF f
<1>9. Whole(A.M, g, spilt) /\ Latest(A.M, g, named)
  <2>1. A = EcmdRemoveState([M |-> B.M, list |-> f["after"]], i, TRUE)
    BY <1>8
  <2>. HIDE DEF A
  <2>. QED  BY <1>5, <1>6, <2>1, RemovedIs
<1> HIDE DEF A
<1>10. g = [before |-> B.list, after |-> A.list]
  <2>1. DOMAIN f = Permanent
    BY <1>8
  <2>2. g = [d \in Permanent |-> IF d = "after" THEN A.list ELSE f[d]]
    BY <1>8, <2>1
  <2> DEFINE b == B.list
             a == A.list
             h == [d \in Permanent |-> IF d = "after" THEN a ELSE b]
  <2>3. g = h
    BY <1>5, <1>8, <2>2
  <2>. HIDE DEF a, b
  <2>4. h = [before |-> b, after |-> a]
    BY DEF Permanent
  <2>. QED  BY <2>3, <2>4 DEF a, b
<1> HIDE DEF g
<1>11. A.M \in Mem
  BY <1>9, WholeIs
<1>12. Memory' = A.M
  BY <1>4, <1>11, BecomesIs
<1>13. ecmd' = g
  BY <1>4, <1>10
<1>. QED  BY <1>1, <1>2, <1>9, <1>12, <1>13 DEF CasesInv

Glued(t, d, k) == t \o d[k]
Gluing == INSTANCE FoldProofs WITH op <- Glued, step <- Glued

LEMMA FlattenIs ==
    ASSUME NEW A, NEW s \in Seq(Seq(A))
    PROVE  FlattenSeq(s) \in Seq(A)
<1>1. Gluing!Joins
  BY DEF Gluing!Joins, Glued
<1>2. <<>> \in Seq(A)
  OBVIOUS
<1>3. Gluing!FlattenSeq(s) \in Seq(A)
  BY ONLY <1>1, <1>2, s \in Seq(Seq(A)), Gluing!FlattenAppend
<1>. QED  BY <1>3 DEF FlattenSeq, Gluing!FlattenSeq

LEMMA WordsIs ==
    ASSUME NEW block \in Blocks, ~Fails(block)
    PROVE  Words(block) \in Seq(Argument)
<1> DEFINE any == Argument \cup {None}
           s == block.commands
<1>1. s \in Seq(Seq(any)) /\ "pattern" \in Uses
  BY CasesAssumption DEF Argument
<1>2. CASE exp_one_arg_braced(block) \/ block.switch
  <2>1. \A k \in DOMAIN s : None \notin Range(s[k])
    BY <1>2 DEF Fails, Broken
  <2>2. Len(s) \in Nat /\ DOMAIN s = 1..Len(s) /\ \A k \in 1..Len(s) : s[k] \in Seq(any)
    BY <1>1
  <2>3. ASSUME NEW k \in 1..Len(s) PROVE s[k] \in Seq(Argument)
    <3> DEFINE c == s[k]
    <3>1. c \in Seq(any) /\ None \notin Range(c)
      BY <2>1, <2>2
    <3>. HIDE DEF c
    <3>2. Len(c) \in Nat /\ DOMAIN c = 1..Len(c) /\ \A j \in 1..Len(c) : c[j] \in any
      BY <3>1
    <3>3. \A j \in 1..Len(c) : c[j] # None
      BY <3>1, <3>2 DEF Range
    <3>4. \A j \in 1..Len(c) : c[j] \in Argument
      BY <3>2, <3>3
    <3>5. c = [j \in 1..Len(c) |-> c[j]]
      BY <3>1
    <3>6. c \in [1..Len(c) -> Argument]
      BY <3>4, <3>5
    <3>7. c \in Seq(Argument)
      BY <3>2, <3>6
    <3>. QED  BY <3>7 DEF c
  <2> HIDE DEF s
  <2>4. s = [k \in 1..Len(s) |-> s[k]]
    BY <1>1
  <2>5. s \in [1..Len(s) -> Seq(Argument)]
    BY <2>3, <2>4
  <2>6. s \in Seq(Seq(Argument))
    BY <2>2, <2>5
  <2>7. FlattenSeq(s) \in Seq(Argument)
    BY <2>6, FlattenIs
  <2>. QED  BY <1>2, <2>7 DEF Words, exp_eval_with_one_arg, s
<1>3. CASE ~(exp_one_arg_braced(block) \/ block.switch)
  <2>1. [i |-> None, use |-> "pattern"] \in Argument
    BY <1>1 DEF Argument
  <2>. QED  BY <1>3, <2>1 DEF Words
<1>. QED  BY <1>2, <1>3

LEMMA ExpectKeeps ==
    ASSUME CasesInv, NEW args \in Seq(Argument), NEW cur \in Ids \cup {None},
           NEW bad \in {"no", "error", "return"}, Expect(args, cur, bad)
    PROVE  CasesInv'
<1> DEFINE P == Parse(args, cur, bad)
           F == FreeI(P.M, P.eg.i_list)
<1>1. /\ value' = value /\ calls' = calls + 1 /\ ecmd' = ecmd /\ named' = named
      /\ P.status # "bound"
      /\ IF P.status # "ok"
         THEN /\ Becomes(P.M)
              /\ spilt' = (spilt \/ (P.status = "return" /\ P.eg.i_list # <<>>))
         ELSE Becomes(F) /\ spilt' = spilt
  <2>. HIDE DEF P
  <2>1. /\ value' = value /\ calls' = calls + 1 /\ ecmd' = ecmd /\ named' = named
    BY DEF Expect, Call
  <2>2. \E Q \in {P} : /\ Q.status # "bound"
                       /\ IF Q.status # "ok"
                          THEN /\ Becomes(Q.M)
                               /\ spilt' = (spilt \/ (Q.status = "return" /\ Q.eg.i_list # <<>>))
                          ELSE Becomes(FreeI(Q.M, Q.eg.i_list)) /\ spilt' = spilt
    BY DEF Expect, P
  <2>. QED  BY <2>1, <2>2
<1>2. Parsed(P)
  <2>1. Ready
    BY ReadyIs
  <2>. QED  BY <2>1, ParseIs
<1> HIDE DEF P
<1>3. /\ value \in [Vars -> Seq(Names)] /\ calls \in Nat /\ spilt \in BOOLEAN
      /\ named \in [Permanent -> [Ids -> Nat]] /\ traced \cap Range(pool) = {}
  BY ReadyIs DEF CasesInv, Ready
<1>4. SUFFICES /\ Whole(Memory', ecmd, spilt') /\ Latest(Memory', ecmd, named)
               /\ spilt' \in BOOLEAN
  <2>1. value' \in [Vars -> Seq(Names)] /\ calls' \in Nat
    BY <1>1, <1>3
  <2>. QED  BY <1>1, <1>3, <2>1 DEF CasesInv
<1>5. CASE P.status # "ok"
  <2> DEFINE left == spilt \/ (P.status # "error" /\ P.eg.i_list # <<>>)
  <2>1. Whole(P.M, ecmd, left) /\ Latest(P.M, ecmd, named)
    BY <1>2, <1>5, ParseEnds
  <2>2. P.status \in {"error", "return"}
    <3>1. P.status # "error" => P.status \in {"ok", "error", "return", "bound"}
      BY <1>2 DEF Parsed, Draft, Drafts
    <3>2. P.status # "bound"
      BY <1>1
    <3>. QED  BY <1>5, <3>1, <3>2
  <2>3. spilt' = left
    BY <1>1, <1>5, <2>2
  <2>4. left \in BOOLEAN
    BY <1>3
  <2>. HIDE DEF left
  <2>5. P.M \in Mem
    BY <2>1, WholeIs
  <2>6. Memory' = P.M
    BY <1>1, <1>5, <2>5, BecomesIs
  <2>. QED  BY <2>1, <2>3, <2>4, <2>6
<1>6. CASE P.status = "ok"
  <2>1. Draft(P)
    BY <1>2, <1>6 DEF Parsed
  <2>2. /\ P.M \in Mem /\ P.eg.i_list \in Seq(Recs) /\ Distinct(P.M.pool) /\ Distinct(P.eg.i_list)
        /\ Range(P.M.pool) \cap Range(P.eg.i_list) = {}
    BY <2>1 DEF Draft, Sound, Group
  <2>3. Freed(P.M, F, Range(P.eg.i_list))
    BY ONLY <2>2, FreeIs
  <2>4. Range(P.eg.i_list) \in SUBSET Recs
    BY <2>2, RangeIs
  <2>5. Becomes(F) /\ spilt' = spilt
    BY <1>1, <1>6
  <2>. HIDE DEF F
  <2>6. /\ F \in Mem /\ Distinct(F.pool) /\ Range(F.pool) = Range(pool) /\ F.traced = traced
        /\ \A r \in Recs \ Range(pool) : F.i[r] = exp_i[r]
    BY <1>3, <2>1, <2>3, <2>4 DEF Freed, Draft
  <2>7. Whole(F, ecmd, spilt) /\ Latest(F, ecmd, named)
    <3>1. F.traced \cap Range(F.pool) = {}
      BY <1>3, <2>6
    <3>. QED  BY <2>6, <3>1, WholeStays
  <2>8. Memory' = F
    BY <2>5, <2>6, BecomesIs
  <2>. QED  BY <1>3, <2>5, <2>7, <2>8
<1>. QED  BY <1>5, <1>6

(***************************************************************************)
(* The first case that is for the event.                                   *)
(***************************************************************************)
Found(e, d) == <<[e |-> e, on |-> Range(d.M.i[e.i_list].state_list)]>>
EvalOne(found, e, d) == IF found = <<>> /\ Tried(e, d.M, d.ev) THEN Found(e, d) ELSE found
Evaluating == INSTANCE FoldProofs WITH op <- EvalOne, step <- EvalOne

LEMMA EvalAppend ==
    ASSUME NEW d, NEW o, NEW s \in Seq(Case), NEW e \in Case
    PROVE  /\ EvalCases(o, d.M, Append(s, e), d.ev) = EvalOne(EvalCases(o, d.M, s, d.ev), e, d)
           /\ EvalCases(o, d.M, <<>>, d.ev) = o
<1>1. \A q : EvalCases(o, d.M, q, d.ev) = Evaluating!Fold(o, q, d)
  BY DEF EvalCases, Evaluating!Fold, EvalOne, Found, FoldLeft, MapThenFoldSet, Evaluating!FoldLeft,
         Evaluating!MapThenFoldSet, Max, Evaluating!Max
<1>2. /\ Evaluating!Fold(o, Append(s, e), d) = EvalOne(Evaluating!Fold(o, s, d), e, d)
      /\ Evaluating!Fold(o, <<>>, d) = o
  BY ONLY s \in Seq(Case), e \in Case, Evaluating!FoldAppend
<1>. QED  BY <1>1, <1>2

LEMMA EvalNone ==
    ASSUME NEW d, NEW o
    PROVE  EvalCases(o, d.M, <<>>, d.ev) = o
<1>1. EvalCases(o, d.M, <<>>, d.ev) = Evaluating!Fold(o, <<>>, d)
  BY DEF EvalCases, Evaluating!Fold, EvalOne, Found, FoldLeft, MapThenFoldSet, Evaluating!FoldLeft,
         Evaluating!MapThenFoldSet, Max, Evaluating!Max
<1>2. 1 \in {1} /\ <<>> \in Seq({1})
  OBVIOUS
<1>3. Evaluating!Fold(o, <<>>, d) = o
  BY ONLY <1>2, Evaluating!FoldAppend
<1>. QED  BY <1>1, <1>3

\* What one list leaves is what the next begins with.
LEMMA EvalConcat ==
    ASSUME NEW d, NEW o, NEW s \in Seq(Case), NEW t \in Seq(Case)
    PROVE  EvalCases(o, d.M, s \o t, d.ev) = EvalCases(EvalCases(o, d.M, s, d.ev), d.M, t, d.ev)
<1> DEFINE b == EvalCases(o, d.M, s, d.ev)
           T == {q \in Seq(Case) : EvalCases(o, d.M, s \o q, d.ev) = EvalCases(b, d.M, q, d.ev)}
<1> HIDE DEF b
<1>1. <<>> \in T
  <2>1. s \o <<>> = s /\ <<>> \in Seq(Case)
    OBVIOUS
  <2>2. EvalCases(b, d.M, <<>>, d.ev) = b
    BY EvalNone
  <2>. QED  BY <2>1, <2>2 DEF b
<1>2. ASSUME NEW q \in Seq(Case), NEW e \in Case, q \in T PROVE Append(q, e) \in T
  <2>1. s \o q \in Seq(Case) /\ s \o Append(q, e) = Append(s \o q, e) /\ Append(q, e) \in Seq(Case)
    OBVIOUS
  <2>2. EvalCases(b, d.M, Append(q, e), d.ev) = EvalOne(EvalCases(b, d.M, q, d.ev), e, d)
    BY EvalAppend
  <2>3. EvalCases(o, d.M, Append(s \o q, e), d.ev) = EvalOne(EvalCases(o, d.M, s \o q, d.ev), e, d)
    BY <2>1, EvalAppend
  <2>. QED  BY <1>2, <2>1, <2>2, <2>3
<1> HIDE DEF T
<1>3. t \in T
  BY ONLY <1>1, <1>2, AllSequences
<1>. QED  BY <1>3 DEF T, b

\* Nothing is found if no case is tried; otherwise the first.
FindsFirst(s, d) ==
    LET found == EvalCases(<<>>, d.M, s, d.ev)
    IN  \/ found = <<>> /\ \A k \in 1..Len(s) : ~Tried(s[k], d.M, d.ev)
        \/ \E k \in 1..Len(s) : /\ Tried(s[k], d.M, d.ev) /\ found = Found(s[k], d)
                                /\ \A j \in 1..Len(s) : Tried(s[j], d.M, d.ev) => k <= j

LEMMA EvalIs ==
    ASSUME NEW d, NEW s \in Seq(Case)
    PROVE  FindsFirst(s, d)
<1> DEFINE T == {q \in Seq(Case) : FindsFirst(q, d)}
<1>1. <<>> \in T
  <2>1. <<>> \in Seq(Case) /\ 1..Len(<<>>) = {}
    OBVIOUS
  <2>2. EvalCases(<<>>, d.M, <<>>, d.ev) = <<>>
    BY EvalNone
  <2>. QED  BY <2>1, <2>2 DEF FindsFirst
<1>2. ASSUME NEW q \in Seq(Case), NEW e \in Case, q \in T PROVE Append(q, e) \in T
  <2> DEFINE n == Len(q)
             c == Append(q, e)
             f == EvalCases(<<>>, d.M, q, d.ev)
             g == EvalCases(<<>>, d.M, c, d.ev)
  <2>1. /\ n \in Nat /\ c \in Seq(Case) /\ Len(c) = n + 1 /\ c[n + 1] = e
        /\ \A k \in 1..n : c[k] = q[k] /\ k \in 1..(n + 1) /\ k <= n + 1
    OBVIOUS
  <2>2. g = EvalOne(f, e, d)
    BY EvalAppend
  <2>3. (\A k \in 1..(n + 1) : k \in 1..n \/ k = n + 1) /\ n + 1 \in 1..(n + 1) /\ n + 1 <= n + 1
    BY <2>1
  <2>4. Found(e, d) # <<>> /\ \A k \in 1..n : Found(q[k], d) # <<>>
    BY DEF Found
  <2>5. \/ f = <<>> /\ \A k \in 1..n : ~Tried(q[k], d.M, d.ev)
        \/ \E k \in 1..n : /\ Tried(q[k], d.M, d.ev) /\ f = Found(q[k], d)
                           /\ \A j \in 1..n : Tried(q[j], d.M, d.ev) => k <= j
    BY <1>2 DEF FindsFirst
  <2> HIDE DEF n, c, f, g
  <2>6. \/ g = <<>> /\ \A k \in 1..(n + 1) : ~Tried(c[k], d.M, d.ev)
        \/ \E k \in 1..(n + 1) : /\ Tried(c[k], d.M, d.ev) /\ g = Found(c[k], d)
                                 /\ \A j \in 1..(n + 1) : Tried(c[j], d.M, d.ev) => k <= j
    <3>1. CASE f = <<>> /\ (\A k \in 1..n : ~Tried(q[k], d.M, d.ev)) /\ ~Tried(e, d.M, d.ev)
      BY <2>1, <2>2, <2>3, <3>1 DEF EvalOne
    <3>2. CASE f = <<>> /\ (\A k \in 1..n : ~Tried(q[k], d.M, d.ev)) /\ Tried(e, d.M, d.ev)
      <4>1. g = Found(e, d) /\ c[n + 1] = e
        BY <2>1, <2>2, <3>2 DEF EvalOne
      <4>2. \A j \in 1..(n + 1) : Tried(c[j], d.M, d.ev) => n + 1 <= j
        BY <2>1, <2>3, <3>2
      <4> DEFINE m == n + 1
      <4>3. m \in 1..(n + 1) /\ c[m] = e /\ \A j \in 1..(n + 1) : Tried(c[j], d.M, d.ev) => m <= j
        BY <2>3, <4>1, <4>2
      <4>. HIDE DEF m
      <4>. QED  BY <3>2, <4>1, <4>3
    <3>3. ASSUME NEW k \in 1..n, Tried(q[k], d.M, d.ev), f = Found(q[k], d),
                 \A j \in 1..n : Tried(q[j], d.M, d.ev) => k <= j
          PROVE  \E i \in 1..(n + 1) : /\ Tried(c[i], d.M, d.ev) /\ g = Found(c[i], d)
                                       /\ \A j \in 1..(n + 1) : Tried(c[j], d.M, d.ev) => i <= j
      <4>1. g = f
        BY <2>2, <2>4, <3>3 DEF EvalOne
      <4>2. \A j \in 1..(n + 1) : Tried(c[j], d.M, d.ev) => k <= j
        BY <2>1, <2>3, <3>3
      <4>. QED  BY <2>1, <3>3, <4>1, <4>2
    <3>. QED  BY <2>5, <3>1, <3>2, <3>3
  <2>7. FindsFirst(c, d)
    BY <2>1, <2>6 DEF FindsFirst, g
  <2>. QED  BY <2>1, <2>7 DEF c
<1> HIDE DEF T
<1>3. s \in T
  BY ONLY <1>1, <1>2, AllSequences
<1>. QED  BY <1>3 DEF T

\* What FirstFits is about of the cases, and what makes one of them right.
Shape(M, s) == [k \in DOMAIN s |-> [use |-> s[k].use, on |-> Range(M.i[s[k].i_list].state_list)]]
Right(x, ev) ==
    CASE ev.kind = "timeout" -> x.use \in {"timeout", "default"}
      [] ev.kind = "eof" -> x.use \in {"eof", "default"} /\ {ev.id, AnyId} \cap x.on # {}
      [] OTHER -> x.use = "pattern"
                  /\ \/ AnyId \in x.on /\ ev.matching # {}
                     \/ ev.id \in x.on \cap ev.matching

LEMMA TriedIs ==
    ASSUME NEW e, NEW M, NEW ev, ev.kind = "data" => ev.id # AnyId,
           ev.kind \in {"timeout", "eof", "data"}
    PROVE  Tried(e, M, ev) <=>
             Right([use |-> e.use, on |-> Range(M.i[e.i_list].state_list)], ev)
<1> DEFINE s == M.i[e.i_list].state_list
           x == [use |-> e.use, on |-> Range(s)]
<1>1. Tried(e, M, ev) <=>
        /\ e.use \in For(ev.kind)
        /\ \/ ev.kind = "timeout"
           \/ \E em \in Range(s) :
                /\ Fits(em, ev)
                /\ ev.kind = "eof" \/ (IF em = AnyId THEN ev.matching # {} ELSE em \in ev.matching)
  BY DEF Tried, Range
<1> HIDE DEF s
<1>2. x.use = e.use /\ x.on = Range(s)
  OBVIOUS
<1> HIDE DEF x
<1>3. CASE ev.kind = "timeout"
  BY <1>1, <1>2, <1>3 DEF Right, For, x, s
<1>4. CASE ev.kind = "eof"
  BY <1>1, <1>2, <1>4 DEF Right, For, Fits, x, s
<1>5. CASE ev.kind = "data"
  <2>1. Right(x, ev) <=> e.use = "pattern" /\ (\/ AnyId \in Range(s) /\ ev.matching # {}
                                               \/ ev.id \in Range(s) \cap ev.matching)
    BY <1>2, <1>5 DEF Right
  <2>2. For(ev.kind) = {"pattern"}
    BY <1>5 DEF For
  <2>3. ev.kind # "timeout" /\ ev.kind # "eof" /\ ev.id # AnyId
    BY <1>5
  <2>4. Tried(e, M, ev) <=> Right(x, ev)
    BY <1>1, <2>1, <2>2, <2>3 DEF Fits
  <2>. QED  BY <2>4 DEF x, s
<1>. QED  BY <1>3, <1>4, <1>5

Fitting(all, ev, choice) ==
    LET right == {k \in DOMAIN all : Right(all[k], ev)}
    IN  IF right = {} THEN choice = <<>>
        ELSE /\ choice # <<>>
             /\ LET e == all[Min(right)]
                IN  choice[1].e.use = e.use /\ choice[1].on = e.on

LEMMA ShapeConcat ==
    ASSUME NEW M, NEW s \in Seq(Case), NEW t \in Seq(Case)
    PROVE  Shape(M, s \o t) = Shape(M, s) \o Shape(M, t)
<1> DEFINE F(e) == [use |-> e.use, on |-> Range(M.i[e.i_list].state_list)]
           n == Len(s)
           m == Len(t)
           a == [k \in 1..n |-> F(s[k])]
           b == [k \in 1..m |-> F(t[k])]
           c == s \o t
           A == {F(e) : e \in Case}
<1> HIDE DEF F
<1>1. n \in Nat /\ m \in Nat /\ DOMAIN s = 1..n /\ DOMAIN t = 1..m
  OBVIOUS
<1>2. c \in Seq(Case) /\ DOMAIN c = 1..(n + m) /\ (\A k \in 1..n : c[k] = s[k]) /\ (\A k \in 1..m : c[n + k] = t[k])
  OBVIOUS
<1>3. Shape(M, s) = a /\ Shape(M, t) = b /\ Shape(M, c) = [k \in 1..(n + m) |-> F(c[k])]
  BY <1>1, <1>2 DEF Shape, F
<1>4. a \in Seq(A) /\ b \in Seq(A) /\ Len(a) = n /\ Len(b) = m
  <2>1. a \in [1..n -> A] /\ b \in [1..m -> A]
    OBVIOUS
  <2>. QED  BY <1>1, <2>1
<1>5. a \o b = [k \in 1..(n + m) |-> F(c[k])]
  <2>a. (\A k \in 1..n : a[k] = F(s[k])) /\ (\A k \in 1..m : b[k] = F(t[k]))
    OBVIOUS
  <2> HIDE DEF a, b, c
  <2>1. a \o b \in Seq(A) /\ DOMAIN (a \o b) = 1..(n + m) /\ Len(a \o b) = n + m
        /\ (\A k \in 1..n : (a \o b)[k] = a[k]) /\ (\A k \in 1..m : (a \o b)[n + k] = b[k])
    <3>. HIDE DEF A, n, m
    <3>1. a \o b \in Seq(A)
      BY ONLY <1>4
    <3>a. Len(a \o b) = Len(a) + Len(b)
      <4>. a \in Seq(A) /\ b \in Seq(A)
        BY ONLY <1>4
      <4>. QED  OBVIOUS
    <3>2. Len(a \o b) = n + m
      BY ONLY <1>4, <3>a
    <3>b. \A s1 \in Seq(A) : DOMAIN s1 = 1..Len(s1)
      OBVIOUS
    <3>3. DOMAIN (a \o b) = 1..(n + m)
      BY ONLY <3>1, <3>2, <3>b
    <3>4. (\A k \in 1..n : (a \o b)[k] = a[k]) /\ (\A k \in 1..m : (a \o b)[n + k] = b[k])
      BY ONLY <1>4
    <3>. QED  BY <3>1, <3>2, <3>3, <3>4
  <2> DEFINE x == a \o b
  <2>2. x = [k \in 1..(n + m) |-> x[k]]
    <3>1. x \in Seq(A) /\ Len(x) = n + m
      BY <2>1
    <3>. HIDE DEF x
    <3>2. x = [k \in 1..Len(x) |-> x[k]]
      BY <3>1
    <3>. QED  BY <3>1, <3>2
  <2>3. ASSUME NEW k \in 1..(n + m) PROVE x[k] = F(c[k])
    <3>1. CASE k \in 1..n
      BY <1>2, <2>a, <2>1, <3>1
    <3>2. CASE k \notin 1..n
      <4> DEFINE j == k - n
      <4>1. j \in 1..m /\ k = n + j
        BY <1>1, <3>2
      <4>. HIDE DEF j
      <4>2. x[n + j] = b[j] /\ c[n + j] = t[j]
        BY <1>2, <2>1, <4>1
      <4>. QED  BY <2>a, <4>1, <4>2
    <3>. QED  BY <3>1, <3>2
  <2> HIDE DEF x
  <2>4. x = [k \in 1..(n + m) |-> F(c[k])]
    BY <2>2, <2>3
  <2>. QED  BY <2>4 DEF x
<1>. QED  BY <1>3, <1>5

LEMMA FittingIs ==
    ASSUME NEW d, NEW s \in Seq(Case), d.ev.kind = "data" => d.ev.id # AnyId,
           d.ev.kind \in {"timeout", "eof", "data"}
    PROVE  Fitting(Shape(d.M, s), d.ev, EvalCases(<<>>, d.M, s, d.ev))
<1> DEFINE all == Shape(d.M, s)
           ev == d.ev
           choice == EvalCases(<<>>, d.M, s, d.ev)
           right == {k \in DOMAIN all : Right(all[k], ev)}
           n == Len(s)
<1>1. n \in Nat /\ DOMAIN s = 1..n /\ DOMAIN all = 1..n
  BY DEF Shape
<1>2. \A k \in 1..n : all[k] = [use |-> s[k].use, on |-> Range(d.M.i[s[k].i_list].state_list)]
  BY <1>1 DEF Shape
<1>3. \A k \in 1..n : Tried(s[k], d.M, ev) <=> Right(all[k], ev)
  <2>. TAKE k \in 1..n
  <2>1. Tried(s[k], d.M, ev) <=> Right([use |-> s[k].use, on |-> Range(d.M.i[s[k].i_list].state_list)], ev)
    BY TriedIs
  <2>. QED  BY <1>2, <2>1
<1>4. \A k \in 1..n : k \in right <=> Tried(s[k], d.M, ev)
  BY <1>1, <1>3
<1>5. right \in SUBSET (1..n)
  BY <1>1
<1>6. \/ choice = <<>> /\ \A k \in 1..n : ~Tried(s[k], d.M, ev)
      \/ \E k \in 1..n : /\ Tried(s[k], d.M, ev) /\ choice = Found(s[k], d)
                         /\ \A j \in 1..n : Tried(s[j], d.M, ev) => k <= j
  BY EvalIs DEF FindsFirst
<1> HIDE DEF all, choice, right, n
<1>7. CASE choice = <<>> /\ \A k \in 1..n : ~Tried(s[k], d.M, ev)
  <2>1. right = {}
    BY <1>4, <1>5, <1>7
  <2>. QED  BY <1>7, <2>1 DEF Fitting, all, choice, right
<1>8. ASSUME NEW k \in 1..n, Tried(s[k], d.M, ev), choice = Found(s[k], d),
             \A j \in 1..n : Tried(s[j], d.M, ev) => k <= j
      PROVE  Fitting(all, ev, choice)
  <2>1. k \in right /\ \A j \in right : k <= j
    BY <1>4, <1>5, <1>8
  <2>2. Min(right) = k
    <3>1. \A x \in right : (\A j \in right : x <= j) => x = k
      <4>. TAKE x \in right
      <4>1. x \in Nat /\ k \in Nat
        BY <1>1, <1>5
      <4>. QED  BY <2>1, <4>1
    <3>2. Min(right) \in right /\ \A j \in right : Min(right) <= j
      BY <2>1 DEF Min
    <3>. QED  BY <3>1, <3>2
  <2>3. choice # <<>> /\ choice[1].e = s[k] /\ choice[1].on = Range(d.M.i[s[k].i_list].state_list)
    BY <1>8 DEF Found
  <2>4. choice[1].e.use = all[k].use /\ choice[1].on = all[k].on
    <3> DEFINE R == Range(d.M.i[s[k].i_list].state_list)
               u == s[k]
    <3>1. all[k] = [use |-> u.use, on |-> R] /\ choice[1].e = u /\ choice[1].on = R
      BY <1>2, <2>3
    <3>. HIDE DEF R, u
    <3>. QED  BY <3>1
  <2>5. right # {}
    BY <2>1
  <2>. QED  BY <2>2, <2>3, <2>4, <2>5 DEF Fitting, right
<1>. QED  BY <1>6, <1>7, <1>8 DEF all, choice

\* The records of a list are in memory what they were.
LEMMA ShapeStays ==
    ASSUME NEW M, NEW N, NEW s \in Seq(Case), \A r \in Owners(s) : M.i[r] = N.i[r]
    PROVE  Shape(M, s) = Shape(N, s)
<1>1. DOMAIN s = 1..Len(s)
  OBVIOUS
<1>2. \A k \in 1..Len(s) : M.i[s[k].i_list] = N.i[s[k].i_list]
  BY <1>1 DEF Owners
<1>. QED  BY <1>1, <1>2 DEF Shape

LEMMA FirstFitsIs ==
    FirstFits <=> (taken.event.kind # "none" =>
                     Fitting(Shape(Memory, ecmd["before"].cases) \o taken.among
                               \o Shape(Memory, ecmd["after"].cases), taken.event, taken.choice))
<1>1. Memory.i = exp_i
  BY DEF Memory
<1>. QED  BY <1>1 DEF FirstFits, Fitting, Shape, Right

\* Nothing was taken.
LEMMA NoneFits ==
    ASSUME taken' = Untaken
    PROVE  FirstFits'
<1>1. taken'.event.kind = "none"
  BY DEF Untaken
<1>. QED  BY <1>1 DEF FirstFits

Fit(M, e, t) ==
    t.event.kind # "none" =>
        Fitting(Shape(M, e["before"].cases) \o t.among \o Shape(M, e["after"].cases), t.event, t.choice)

LEMMA FirstFitsNext ==
    FirstFits' <=> Fit(Memory', ecmd', taken')
<1>1. Memory'.i = exp_i'
  BY DEF Memory
<1>. QED  BY <1>1 DEF FirstFits, Fit, Fitting, Shape, Right

\* The choice among the cases of all three lists.
Choice(d, s, t, u) ==
    [event |-> d.ev, among |-> Shape(d.M, t),
     choice |-> EvalCases(EvalCases(EvalCases(<<>>, d.M, s, d.ev), d.M, t, d.ev), d.M, u, d.ev)]

LEMMA ChoiceFits ==
    ASSUME NEW d, NEW s \in Seq(Case), NEW t \in Seq(Case), NEW u \in Seq(Case),
           d.ev.kind = "data" => d.ev.id # AnyId, d.ev.kind \in {"timeout", "eof", "data"}
    PROVE  Fitting(Shape(d.M, s) \o Shape(d.M, t) \o Shape(d.M, u), d.ev, Choice(d, s, t, u).choice)
<1> DEFINE st == s \o t
           all == st \o u
<1>1. st \in Seq(Case) /\ all \in Seq(Case)
  OBVIOUS
<1> HIDE DEF st, all
<1>2. EvalCases(<<>>, d.M, st, d.ev) = EvalCases(EvalCases(<<>>, d.M, s, d.ev), d.M, t, d.ev)
  BY EvalConcat DEF st
<1>3. EvalCases(<<>>, d.M, all, d.ev) = EvalCases(EvalCases(<<>>, d.M, st, d.ev), d.M, u, d.ev)
  BY <1>1, EvalConcat DEF all
<1>4. Shape(d.M, st) = Shape(d.M, s) \o Shape(d.M, t)
  BY ShapeConcat DEF st
<1>5. Shape(d.M, all) = Shape(d.M, st) \o Shape(d.M, u)
  BY <1>1, ShapeConcat DEF all
<1>6. Fitting(Shape(d.M, all), d.ev, EvalCases(<<>>, d.M, all, d.ev))
  BY <1>1, FittingIs
<1>7. Choice(d, s, t, u).choice = EvalCases(<<>>, d.M, all, d.ev)
  BY <1>2, <1>3 DEF Choice
<1>. QED  BY <1>4, <1>5, <1>6, <1>7

LEMMA EventIs ==
    ASSUME NEW states, AnyId \notin states, NEW ev \in Events(states)
    PROVE  /\ ev.kind = "data" => ev.id # AnyId
           /\ ev.kind \in {"timeout", "eof", "data"}
BY DEF Events

\* What expect took, if it took anything.
ExpectTakes(P, s, u) ==
    \/ taken' = Untaken
    \/ /\ P.status = "ok"
       /\ \E ev \in Events(update_expect_states(P.M, ecmd["before"].i_list \o ecmd["after"].i_list \o P.eg.i_list)) :
             taken' = Choice([M |-> P.M, ev |-> ev], s, P.eg.cases, u)

LEMMA ExpectTakesIs ==
    ASSUME NEW args, NEW cur, NEW bad, Expect(args, cur, bad)
    PROVE  LET P == Parse(args, cur, bad)
           IN  /\ ExpectTakes(P, ecmd["before"].cases, ecmd["after"].cases)
               /\ P.status = "ok" => Becomes(FreeI(P.M, P.eg.i_list))
               /\ ecmd' = ecmd
<1> DEFINE P == Parse(args, cur, bad)
           states(Q) == update_expect_states(Q.M, ecmd["before"].i_list \o ecmd["after"].i_list \o Q.eg.i_list)
           Tries(Q, ev) ==
               \E b \in {EvalCases(<<>>, Q.M, ecmd["before"].cases, ev)} :
               \E f \in {EvalCases(b, Q.M, Q.eg.cases, ev)} :
               \E a \in {EvalCases(f, Q.M, ecmd["after"].cases, ev)} :
                   taken' = [event |-> ev, choice |-> a, among |-> Shape(Q.M, Q.eg.cases)]
<1>1. \E Q \in {P} : \E x \in {states(Q)} :
         /\ Q.status # "ok" => taken' = Untaken
         /\ Q.status = "ok" => /\ Becomes(FreeI(Q.M, Q.eg.i_list))
                               /\ taken' = Untaken \/ \E ev \in Events(x) : Tries(Q, ev)
  BY DEF Expect, Shape
<1>2. ecmd' = ecmd
  BY DEF Expect
<1> HIDE DEF P, states, Tries
<1>3. /\ P.status # "ok" => taken' = Untaken
      /\ P.status = "ok" => /\ Becomes(FreeI(P.M, P.eg.i_list))
                            /\ taken' = Untaken \/ \E ev \in Events(states(P)) : Tries(P, ev)
  BY <1>1
<1>4. ASSUME NEW ev, Tries(P, ev)
      PROVE  taken' = Choice([M |-> P.M, ev |-> ev], ecmd["before"].cases, P.eg.cases, ecmd["after"].cases)
  <2>1. PICK b \in {EvalCases(<<>>, P.M, ecmd["before"].cases, ev)} :
             \E f \in {EvalCases(b, P.M, P.eg.cases, ev)} :
             \E a \in {EvalCases(f, P.M, ecmd["after"].cases, ev)} :
                 taken' = [event |-> ev, choice |-> a, among |-> Shape(P.M, P.eg.cases)]
    BY <1>4 DEF Tries
  <2>2. PICK f \in {EvalCases(b, P.M, P.eg.cases, ev)} :
             \E a \in {EvalCases(f, P.M, ecmd["after"].cases, ev)} :
                 taken' = [event |-> ev, choice |-> a, among |-> Shape(P.M, P.eg.cases)]
    BY <2>1
  <2>3. PICK a \in {EvalCases(f, P.M, ecmd["after"].cases, ev)} :
                 taken' = [event |-> ev, choice |-> a, among |-> Shape(P.M, P.eg.cases)]
    BY <2>2
  <2>. QED  BY <2>1, <2>2, <2>3 DEF Choice
<1>. QED  BY <1>2, <1>3, <1>4 DEF ExpectTakes, P, states

LEMMA ExpectFits ==
    ASSUME CasesInv, NEW args \in Seq(Argument), NEW cur \in Ids \cup {None},
           NEW bad \in {"no", "error", "return"}, Expect(args, cur, bad)
    PROVE  FirstFits'
<1> DEFINE P == Parse(args, cur, bad)
           F == FreeI(P.M, P.eg.i_list)
           s == ecmd["before"].cases
           u == ecmd["after"].cases
<1>1. Parsed(P)
  <2>1. Ready
    BY ReadyIs
  <2>. QED  BY <2>1, ParseIs
<1>2. /\ ExpectTakes(P, s, u) /\ ecmd' = ecmd
      /\ P.status = "ok" => Becomes(F)
  BY ExpectTakesIs
<1> HIDE DEF P
<1>3. CASE taken' = Untaken
  BY <1>3, NoneFits
<1>4. ASSUME P.status = "ok",
             NEW ev \in Events(update_expect_states(P.M, ecmd["before"].i_list \o ecmd["after"].i_list \o P.eg.i_list)),
             taken' = Choice([M |-> P.M, ev |-> ev], s, P.eg.cases, u)
      PROVE  FirstFits'
  <2>1. Draft(P)
    BY <1>1, <1>4 DEF Parsed
  <2>2. /\ P.M \in Mem /\ P.eg \in Group /\ P.eg.i_list \in Seq(Recs) /\ Distinct(P.M.pool) /\ Distinct(P.eg.i_list)
        /\ Range(P.M.pool) \cap Range(P.eg.i_list) = {}
    BY <2>1 DEF Draft, Sound, Group
  <2>3. Freed(P.M, F, Range(P.eg.i_list))
    BY ONLY <2>2, FreeIs
  <2>4. Range(P.eg.i_list) \subseteq Range(pool)
    BY <2>1 DEF Draft
  <2>5. Becomes(F)
    BY <1>2, <1>4
  <2>. HIDE DEF F
  <2>6. F \in Mem /\ \A r \in Recs \ Range(pool) : F.i[r] = P.M.i[r]
    BY <2>3, <2>4 DEF Freed
  <2>7. Memory' = F
    BY <2>5, <2>6, BecomesIs
  <2>8. /\ Memory.i = exp_i /\ Memory.pool = pool /\ Whole(Memory, ecmd, spilt)
    BY ReadyIs DEF CasesInv
  <2>9. Listed(ecmd) \in SUBSET Recs /\ Listed(ecmd) \cap Range(pool) = {}
        /\ \A c \in Permanent : Range(ecmd[c].i_list) \subseteq Listed(ecmd)
    BY <2>8, WholeIs
  <2>10. ASSUME NEW c \in Permanent
         PROVE  ecmd[c].cases \in Seq(Case) /\ Shape(F, ecmd[c].cases) = Shape(P.M, ecmd[c].cases)
    <3>1. ecmd[c].cases \in Seq(Case) /\ Owners(ecmd[c].cases) = Range(ecmd[c].i_list)
      BY <2>8 DEF Whole, Sound, Group, Full
    <3>2. \A r \in Owners(ecmd[c].cases) : F.i[r] = P.M.i[r]
      BY <2>6, <2>9, <3>1
    <3>. QED  BY <3>1, <3>2, ShapeStays
  <2>11. s \in Seq(Case) /\ u \in Seq(Case) /\ Shape(F, s) = Shape(P.M, s) /\ Shape(F, u) = Shape(P.M, u)
    BY <2>10 DEF Permanent
  <2>12. P.eg.cases \in Seq(Case)
    BY <2>2 DEF Group
  <2>13. ev.kind = "data" => ev.id # AnyId
    <3>1. AnyId \notin update_expect_states(P.M, ecmd["before"].i_list \o ecmd["after"].i_list \o P.eg.i_list)
      BY DEF update_expect_states
    <3>. QED  BY <1>4, <3>1, EventIs
  <2>14. ev.kind \in {"timeout", "eof", "data"}
    BY <1>4 DEF Events
  <2> DEFINE d == [M |-> P.M, ev |-> ev]
             t == P.eg.cases
  <2>15. d.M = P.M /\ d.ev = ev
    OBVIOUS
  <2>. HIDE DEF d, t, s, u
  <2>16. Fitting(Shape(d.M, s) \o Shape(d.M, t) \o Shape(d.M, u), d.ev, Choice(d, s, t, u).choice)
    BY <2>11, <2>12, <2>13, <2>14, <2>15, ChoiceFits DEF t
  <2>17. taken' = Choice(d, s, t, u)
    BY <1>4 DEF d, t
  <2>18. Choice(d, s, t, u).event = ev /\ Choice(d, s, t, u).among = Shape(P.M, t)
    BY <2>15 DEF Choice
  <2>19. Fit(F, ecmd, Choice(d, s, t, u))
    BY <2>11, <2>15, <2>16, <2>18 DEF Fit, s, u
  <2>20. Fit(Memory', ecmd', taken')
    BY <1>2, <2>7, <2>17, <2>19
  <2>. QED  BY <2>20, FirstFitsNext
<1>. QED  BY <1>2, <1>3, <1>4 DEF ExpectTakes

LEMMA SameKeeps ==
    ASSUME CasesInv, UNCHANGED <<exp_i, pool, traced, ecmd, value, named, spilt>>, calls' \in Nat
    PROVE  CasesInv'
<1>1. Memory' = Memory
  BY DEF Memory
<1>. QED  BY <1>1 DEF CasesInv

LEMMA CurrentIs ==
    ASSUME NEW args, NEW cur \in Current(args)
    PROVE  cur \in Ids \cup {None}
BY DEF Current

LEMMA ListsIs ==
    ASSUME NEW names \in Lists
    PROVE  names \in Seq(Names)
<1>1. CASE names = <<>>
  BY <1>1
<1>2. ASSUME NEW i \in Ids, names = <<i>> PROVE names \in Seq(Names)
  BY <1>2 DEF Names
<1>3. ASSUME NEW i \in Ids, NEW j \in Ids, names = <<i, j>> PROVE names \in Seq(Names)
  BY <1>3 DEF Names
<1>. QED  BY <1>1, <1>2, <1>3 DEF Lists

LEMMA NextKeeps ==
    ASSUME CasesInv, CasesNext
    PROVE  CasesInv' /\ FirstFits'
<1>1. ASSUME NEW c \in Permanent, NEW args \in Seq(Argument), NEW cur \in Ids \cup {None},
             NEW bad \in {"no", "error", "return"}, ExpectGlobal(c, args, cur, bad)
      PROVE  CasesInv' /\ FirstFits'
  <2>1. taken' = Untaken
    BY <1>1 DEF ExpectGlobal
  <2>. QED  BY <1>1, <2>1, ExpectGlobalKeeps, NoneFits
<1>2. ASSUME NEW v \in Vars, NEW names \in Lists, SetVar(v, names)
      PROVE  CasesInv' /\ FirstFits'
  <2>1. taken' = Untaken
    BY <1>2 DEF SetVar
  <2>2. names \in Seq(Names)
    BY ListsIs
  <2>. QED  BY <1>2, <2>1, <2>2, SetVarKeeps, NoneFits
<1>3. ASSUME NEW i \in Ids, Close(i)
      PROVE  CasesInv' /\ FirstFits'
  <2>1. taken' = Untaken
    BY <1>3 DEF Close
  <2>. QED  BY <1>3, <2>1, CloseKeeps, NoneFits
<1>4. ASSUME NEW args \in Seq(Argument), NEW cur \in Ids \cup {None},
             NEW bad \in {"no", "error", "return"}, Expect(args, cur, bad)
      PROVE  CasesInv' /\ FirstFits'
  BY <1>4, ExpectKeeps, ExpectFits
<1>5. ASSUME NEW block \in Blocks, Braced(block)
      PROVE  CasesInv' /\ FirstFits'
  <2>1. CASE /\ Fails(block)
             /\ Call
             /\ taken' = Untaken
             /\ UNCHANGED <<exp_i, pool, traced, ecmd, value, open, named, spilt>>
    <3>1. calls' \in Nat
      BY <2>1 DEF Call, CasesInv
    <3>2. UNCHANGED <<exp_i, pool, traced, ecmd, value, named, spilt>>
      BY <2>1
    <3>. QED  BY <2>1, <3>1, <3>2, SameKeeps, NoneFits
  <2>2. ASSUME ~Fails(block), NEW cur \in Current(Words(block)),
               \/ \E c \in Permanent : ExpectGlobal(c, Words(block), cur, "no")
               \/ Expect(Words(block), cur, "no")
        PROVE  CasesInv' /\ FirstFits'
    <3>1. cur \in Ids \cup {None} /\ Words(block) \in Seq(Argument)
      BY <2>2, CurrentIs, WordsIs
    <3>. QED  BY <1>1, <1>4, <2>2, <3>1
  <2>. QED  BY <1>5, <2>1, <2>2 DEF Braced
<1>6. \A args \in Args : args \in Seq(Argument) /\ \A cur \in Current(args) : cur \in Ids \cup {None}
  BY CasesAssumption, CurrentIs DEF Argument
<1>. QED  BY <1>1, <1>2, <1>3, <1>4, <1>5, <1>6 DEF CasesNext

LEMMA StepKeeps ==
    ASSUME CasesInv, FirstFits, [CasesNext]_casesVars
    PROVE  CasesInv' /\ FirstFits'
<1>1. CASE CasesNext
  BY <1>1, NextKeeps
<1>2. CASE UNCHANGED casesVars
  <2>1. UNCHANGED <<exp_i, pool, traced, ecmd, value, named, spilt>> /\ calls' = calls /\ taken' = taken
    BY <1>2 DEF casesVars
  <2>2. CasesInv'
    BY <2>1, SameKeeps DEF CasesInv
  <2>3. FirstFits'
    <3>1. Memory' = Memory /\ ecmd' = ecmd /\ taken' = taken
      BY <2>1 DEF Memory
    <3>2. Fit(Memory, ecmd, taken)
      BY FirstFitsIs DEF Fit
    <3>3. Fit(Memory', ecmd', taken')
      BY <3>1, <3>2
    <3>. QED  BY <3>3, FirstFitsNext
  <2>. QED  BY <2>2, <2>3
<1>. QED  BY <1>1, <1>2

LEMMA InitKeeps ==
    ASSUME CasesInit
    PROVE  CasesInv /\ FirstFits
<1>1. /\ pool \in Seq(Recs) /\ Range(pool) = Recs /\ Distinct(pool) /\ traced = {}
      /\ exp_i = [r \in Recs |-> Unused] /\ ecmd = [c \in Permanent |-> Nothing]
  BY CasesAssumption, SetSeqIs DEF CasesInit
<1>2. Unused \in Rec
  <2>1. <<>> \in Seq(Names) /\ None \in Vars \cup {None} /\ 0 \in Nat
    OBVIOUS
  <2>. QED  BY <2>1 DEF Unused, Rec
<1>3. Memory \in Mem /\ Memory.i = exp_i /\ Memory.pool = pool /\ Memory.traced = traced
  <2>1. exp_i \in [Recs -> Rec]
    BY <1>1, <1>2
  <2>. QED  BY <1>1, <2>1 DEF Memory, Mem
<1>4. /\ Nothing \in Group /\ Nothing.i_list = <<>> /\ Nothing.cases = <<>>
      /\ Range(Nothing.i_list) = {} /\ Owners(Nothing.cases) = {} /\ Distinct(Nothing.i_list)
  BY DEF Nothing, Group, Range, Owners, Distinct
<1>5. \A c \in Permanent : ecmd[c] = Nothing
  BY <1>1
<1>6. ecmd \in [Permanent -> Group]
  BY <1>1, <1>4
<1>7. Listed(ecmd) = {}
  BY <1>4, <1>5 DEF Listed
<1>8. Whole(Memory, ecmd, spilt)
  <2>1. \A c \in Permanent : Sound(Memory, ecmd[c]) /\ Full(ecmd[c])
    BY <1>1, <1>3, <1>4, <1>5 DEF Sound, Full
  <2>2. \A c, d \in Permanent : c # d => Range(ecmd[c].i_list) \cap Range(ecmd[d].i_list) = {}
    BY <1>4, <1>5
  <2>3. Range(Memory.pool) \cup Listed(ecmd) = Recs /\ Memory.traced = {r \in Listed(ecmd) : Memory.i[r].variable # None}
    BY <1>1, <1>3, <1>7
  <2>. QED  BY <1>6, <2>1, <2>2, <2>3 DEF Whole
<1>9. Latest(Memory, ecmd, named)
  BY <1>4, <1>5 DEF Latest
<1>10. /\ value \in [Vars -> Seq(Names)] /\ calls \in Nat /\ spilt \in BOOLEAN
       /\ named \in [Permanent -> [Ids -> Nat]]
  <2>1. <<>> \in Seq(Names) /\ 0 \in Nat /\ FALSE \in BOOLEAN
    OBVIOUS
  <2>2. value \in [Vars -> Seq(Names)]
    BY <2>1 DEF CasesInit
  <2>3. calls \in Nat /\ spilt \in BOOLEAN
    BY <2>1 DEF CasesInit
  <2>4. [i \in Ids |-> 0] \in [Ids -> Nat]
    OBVIOUS
  <2>5. named \in [Permanent -> [Ids -> Nat]]
    BY <2>4 DEF CasesInit
  <2>. QED  BY <2>2, <2>3, <2>5
<1>11. CasesInv
  BY <1>8, <1>9, <1>10 DEF CasesInv
<1>12. taken.event.kind = "none"
  BY DEF CasesInit, Untaken
<1>. QED  BY <1>11, <1>12 DEF FirstFits

LEMMA AccountedIs ==
    ASSUME CasesInv
    PROVE  Accounted
<1>1. /\ Memory.i = exp_i /\ Memory.pool = pool /\ Memory.traced = traced /\ Whole(Memory, ecmd, spilt)
  BY ReadyIs DEF CasesInv
<1>2. "before" \in Permanent /\ "after" \in Permanent /\ \A c \in Permanent : c = "before" \/ c = "after"
  BY DEF Permanent
<1> DEFINE b == ecmd["before"].i_list
           a == ecmd["after"].i_list
           l == b \o a
           all == pool \o l
<1>3. \A c \in Permanent : ecmd[c].i_list \in Seq(Recs) /\ Distinct(ecmd[c].i_list)
                           /\ Range(pool) \cap Range(ecmd[c].i_list) = {}
  BY <1>1 DEF Whole, Sound, Group
<1>4. /\ b \in Seq(Recs) /\ Distinct(b) /\ a \in Seq(Recs) /\ Distinct(a) /\ pool \in Seq(Recs) /\ Distinct(pool)
      /\ Range(b) \cap Range(a) = {} /\ Range(pool) \cap Range(b) = {} /\ Range(pool) \cap Range(a) = {}
  BY <1>1, <1>2, <1>3 DEF Whole, Sound, Mem
<1> HIDE DEF a, b
<1>5. l \in Seq(Recs) /\ Range(l) = Range(b) \cup Range(a) /\ Distinct(l)
  <2>1. b \in Seq(Recs) /\ a \in Seq(Recs)
    BY <1>4
  <2>2. l \in Seq(Recs)
        /\ Range(l) = Range(b) \cup Range(a)
        /\ Distinct(l) <=> Distinct(b) /\ Distinct(a) /\ Range(b) \cap Range(a) = {}
    BY ONLY <2>1, RangeConcat
  <2>. QED  BY <1>4, <2>2
<1> HIDE DEF l
<1>6. all \in Seq(Recs) /\ Range(all) = Range(pool) \cup Range(l) /\ Distinct(all)
  <2>1. pool \in Seq(Recs) /\ l \in Seq(Recs)
    BY <1>4, <1>5
  <2>2. all \in Seq(Recs)
        /\ Range(all) = Range(pool) \cup Range(l)
        /\ Distinct(all) <=> Distinct(pool) /\ Distinct(l) /\ Range(pool) \cap Range(l) = {}
    BY ONLY <2>1, RangeConcat
  <2>. QED  BY <1>4, <1>5, <2>2
<1> HIDE DEF all
<1>7. Range(l) = Listed(ecmd)
  <2>1. \A r : r \in Listed(ecmd) <=> \E c \in Permanent : r \in Range(ecmd[c].i_list)
    BY DEF Listed
  <2>. QED  BY <1>2, <1>5, <2>1 DEF a, b
<1>8. Live = l /\ pool \o Live = all
  BY DEF Live, l, all, a, b
<1>9. ASSUME ~spilt
      PROVE  /\ Len(pool \o Live) = Cardinality(Recs)
             /\ Range(pool \o Live) = Recs
             /\ traced = {r \in Range(Live) : ~Direct(r)}
  <2>1. Range(all) = Recs
    BY <1>1, <1>6, <1>7, <1>9 DEF Whole
  <2>2. Len(all) = Cardinality(Recs)
    BY <1>6, <2>1, DistinctIs
  <2>3. traced = {r \in Range(l) : ~Direct(r)}
    BY <1>1, <1>7, <1>9 DEF Whole, Direct
  <2>. QED  BY <1>8, <2>1, <2>2, <2>3
<1>10. ASSUME NEW c \in Permanent
       PROVE  /\ {ecmd[c].cases[k].i_list : k \in DOMAIN ecmd[c].cases} = Range(ecmd[c].i_list)
              /\ \A r \in Range(ecmd[c].i_list) :
                    exp_i[r].ecount = Cardinality({k \in DOMAIN ecmd[c].cases : ecmd[c].cases[k].i_list = r})
  <2>1. Full(ecmd[c]) /\ Sound(Memory, ecmd[c])
    BY <1>1 DEF Whole
  <2>. QED  BY <1>1, <2>1 DEF Full, Owners, Sound, Count
<1>. QED  BY <1>9, <1>10 DEF Accounted

LEMMA LatestIs ==
    ASSUME CasesInv
    PROVE  LatestWins
<1>1. Memory.i = exp_i /\ Latest(Memory, ecmd, named)
  BY ReadyIs DEF CasesInv
<1>. QED  BY <1>1 DEF LatestWins, Latest, Direct

LEMMA TypeIs ==
    ASSUME CasesInv
    PROVE  CasesType
<1>1. /\ Memory.i = exp_i /\ Memory.pool = pool /\ Memory.traced = traced
      /\ Whole(Memory, ecmd, spilt) /\ Memory \in Mem
  BY ReadyIs DEF CasesInv, Ready
<1>2. exp_i \in [Recs -> Rec] /\ pool \in Seq(Recs) /\ traced \subseteq Recs
  BY <1>1 DEF Mem
<1>3. ecmd \in [Permanent -> Group]
  BY <1>1 DEF Whole
<1>4. \A c \in Permanent : ecmd[c].i_list \in Seq(Recs) /\ ecmd[c].cases \in Seq(Case)
  BY <1>3 DEF Group
<1>. QED  BY <1>2, <1>4 DEF CasesType, Rec, Names

-----------------------------------------------------------------------------
\* The invariant, and that expect took the right case, hold always.
THEOREM CasesInvAlways == CasesSpec => [](CasesInv /\ FirstFits)
<1>1. CasesInit => CasesInv /\ FirstFits
  BY InitKeeps
<1>2. CasesInv /\ FirstFits /\ [CasesNext]_casesVars => CasesInv' /\ FirstFits'
  BY StepKeeps
<1>. QED  BY <1>1, <1>2, PTL DEF CasesSpec

\* The records, the pool and the lists are of the types the code gives them.
THEOREM CasesTypeAlways == CasesSpec => []CasesType
<1>1. CasesInv => CasesType
  BY TypeIs
<1>. QED  BY <1>1, CasesInvAlways, PTL

\* Whatever commands are given, closed or written to, and however they fail but for
\* the two ways that leave records behind: a record is in the pool or in one list,
\* once; the traces have the indirect records in a list for their client data; and
\* a record counts the cases that point to it, so it is freed with the last of them.
THEOREM AccountedAlways == CasesSpec => []Accounted
<1>1. CasesInv => Accounted
  BY AccountedIs
<1>. QED  BY <1>1, CasesInvAlways, PTL

\* The cases that expect_before or expect_after has for a spawn id by name are those
\* of the last of these commands that named it.
THEOREM LatestWinsAlways == CasesSpec => []LatestWins
<1>1. CasesInv => LatestWins
  BY LatestIs
<1>. QED  BY <1>1, CasesInvAlways, PTL

\* expect takes the first case that is for what happened, in the order of
\* expect_before, its own and expect_after.
THEOREM FirstFitsAlways == CasesSpec => []FirstFits
BY CasesInvAlways, PTL
=============================================================================
