----------------------------- MODULE FoldProofs -----------------------------
(***************************************************************************)
(* Folds and iterated functions for any operator: a module that folds with *)
(* an operator of its own instantiates this one with it.  At the end, what *)
(* is left of a queue (QueueOps).  Induction is replaced by the least      *)
(* element of a set of natural numbers.                                    *)
(***************************************************************************)
EXTENDS Integers, SequencesExt, QueueOps, FiniteSetTheorems, SequenceTheorems,
        WellFoundedInduction, TLAPS

CONSTANTS
    op(_, _, _),    \* what is folded with: from the value so far, an element and some data
    step(_, _, _)   \* the next value from the last one, some data and the number of it

Fold(base, seq, data) == FoldLeft(LAMBDA t, e : op(t, e, data), base, seq)

\* What FoldLeft chooses.
Folds(g, base, seq, data, n) ==
    g = [s \in SUBSET (1..n) |-> IF s = {} THEN base ELSE op(g[s \ {Max(s)}], seq[Max(s)], data)]

\* A set of natural numbers that is not empty has a least element.
LEMMA Least ==
    ASSUME NEW T \in SUBSET Nat, T # {}
    PROVE  \E m \in T : \A n \in T : m <= n
<1>1. PICK m \in T : \A n \in T : ~ (<<n, m>> \in OpToRel(<, Nat))
  BY WFMin, NatLessThanWellFounded
<1>2. \A n \in T : m <= n
  <2>. TAKE n \in T
  <2>1. <<n, m>> \in Nat \X Nat /\ ~(<<n, m>> \in OpToRel(<, Nat))
    BY <1>1
  <2>2. ~(n < m)
    BY <2>1 DEF OpToRel
  <2>. QED  BY <2>2
<1>. QED  BY <1>2

LEMMA MaxIs ==
    ASSUME NEW m \in Nat, NEW s \in SUBSET (1..m), m \in s
    PROVE  Max(s) = m
<1>1. \A x \in s : (\A y \in s : x >= y) => x = m
  OBVIOUS
<1>2. \A y \in s : m >= y
  OBVIOUS
<1>3. \E x \in s : \A y \in s : x >= y
  BY <1>2
<1> DEFINE c == CHOOSE x \in s : \A y \in s : x >= y
<1>4. c \in s /\ \A y \in s : c >= y
  BY <1>3
<1>. QED  BY <1>1, <1>4 DEF Max

LEMMA FoldsExists ==
    ASSUME NEW base, NEW seq, NEW data
    PROVE  \A n \in Nat : \E g : Folds(g, base, seq, data, n)
<1> DEFINE T == {n \in Nat : ~ \E g : Folds(g, base, seq, data, n)}
<1>1. SUFFICES ASSUME T # {} PROVE FALSE
  BY <1>1
<1>2. PICK m \in T : \A k \in T : m <= k
  BY <1>1, Least
<1>3. m \in Nat /\ ~ \E g : Folds(g, base, seq, data, m)
  OBVIOUS
<1>4. m # 0
  <2> DEFINE g == [s \in SUBSET (1..0) |-> base]
  <2>1. 1..0 = {}
    OBVIOUS
  <2>2. \A s \in SUBSET (1..0) : s = {}
    BY <2>1
  <2>3. Folds(g, base, seq, data, 0)
    BY <2>2 DEF Folds
  <2>. QED  BY <1>3, <2>3
<1>5. m - 1 \in Nat /\ m - 1 \notin T
  BY <1>2, <1>3, <1>4
<1>6. PICK g : Folds(g, base, seq, data, m - 1)
  BY <1>5
<1> DEFINE h == [s \in SUBSET (1..m) |-> IF m \in s THEN op(g[s \ {m}], seq[m], data) ELSE g[s]]
<1>7. \A s \in SUBSET (1..m) : m \notin s => s \in SUBSET (1..(m - 1))
  BY <1>3
<1>8. \A s \in SUBSET (1..m) : h[s] = IF s = {} THEN base ELSE op(h[s \ {Max(s)}], seq[Max(s)], data)
  <2>. TAKE s \in SUBSET (1..m)
  <2>1. CASE m \in s
    <3>1. Max(s) = m
      BY <1>3, <2>1, MaxIs
    <3>2. s \ {m} \in SUBSET (1..m) /\ m \notin s \ {m} /\ s # {}
      BY <2>1
    <3>3. h[s] = op(g[s \ {m}], seq[m], data) /\ h[s \ {m}] = g[s \ {m}]
      BY <2>1, <3>2
    <3>. HIDE DEF h
    <3>. QED  BY <3>1, <3>2, <3>3
  <2>2. CASE m \notin s
    <3>1. s \in SUBSET (1..(m - 1))
      BY <1>7, <2>2
    <3>2. h[s] = g[s]
      BY <2>2
    <3>3. g[s] = IF s = {} THEN base ELSE op(g[s \ {Max(s)}], seq[Max(s)], data)
      BY <1>6, <3>1 DEF Folds
    <3>4. s \ {Max(s)} \in SUBSET (1..m) /\ m \notin s \ {Max(s)}
      BY <2>2
    <3>5. h[s \ {Max(s)}] = g[s \ {Max(s)}]
      BY <3>4
    <3>. HIDE DEF h
    <3>. QED  BY <3>2, <3>3, <3>5
  <2>. QED  BY <2>1, <2>2
<1>9. Folds(h, base, seq, data, m)
  <2>1. h = [s \in SUBSET (1..m) |-> h[s]]
    OBVIOUS
  <2>. HIDE DEF h
  <2>. QED  BY <1>8, <2>1 DEF Folds
<1>. QED  BY <1>3, <1>9

\* What has been folded after each of n elements of the sequence.
Trace(h, base, seq, data, n) ==
    h[0] = base /\ \A k \in 1..n : h[k] = op(h[k - 1], seq[k], data)

\* A fold has a value after each element of the sequence.
THEOREM FoldTrace ==
    ASSUME NEW base, NEW seq, NEW data, NEW n \in Nat, DOMAIN seq = 1..n
    PROVE  \E h : Trace(h, base, seq, data, n) /\ Fold(base, seq, data) = h[n]
<1> DEFINE g == CHOOSE g : Folds(g, base, seq, data, n)
<1>1. Fold(base, seq, data) = g[1..n]
  BY DEF Fold, FoldLeft, MapThenFoldSet, Folds
<1>2. Folds(g, base, seq, data, n)
  BY FoldsExists
<1> HIDE DEF g
<1> DEFINE h == [k \in 0..n |-> g[1..k]]
<1>3. \A s \in SUBSET (1..n) : g[s] = IF s = {} THEN base ELSE op(g[s \ {Max(s)}], seq[Max(s)], data)
  BY <1>2 DEF Folds
<1>4. h[0] = base
  <2>1. 1..0 = {} /\ {} \in SUBSET (1..n) /\ 0 \in 0..n
    OBVIOUS
  <2>2. g[{}] = base
    BY <1>3, <2>1
  <2>3. h[0] = g[1..0]
    BY <2>1
  <2>. QED  BY <2>1, <2>2, <2>3
<1>5. h[n] = Fold(base, seq, data)
  BY <1>1
<1>6. \A k \in 1..n : h[k] = op(h[k - 1], seq[k], data)
  <2>. TAKE k \in 1..n
  <2>1. 1..k \in SUBSET (1..n) /\ k \in 1..k /\ (1..k) \ {k} = 1..(k - 1) /\ k \in Nat /\ 1..k \in SUBSET (1..k)
    OBVIOUS
  <2>2. Max(1..k) = k
    BY <2>1, MaxIs
  <2>3. g[1..k] = op(g[1..(k - 1)], seq[k], data)
    BY <1>3, <2>1, <2>2
  <2>4. k \in 0..n /\ k - 1 \in 0..n
    OBVIOUS
  <2>. QED  BY <2>3, <2>4
<1> HIDE DEF h
<1>7. Trace(h, base, seq, data, n)
  BY <1>4, <1>6 DEF Trace
<1>. QED  BY <1>5, <1>7

\* A fold stays in a set that the operator stays in.
THEOREM FoldStays ==
    ASSUME NEW S, NEW base \in S, NEW seq, NEW data, NEW n \in Nat, DOMAIN seq = 1..n,
           \A t \in S : \A k \in 1..n : op(t, seq[k], data) \in S
    PROVE  Fold(base, seq, data) \in S
<1>1. PICK h : Trace(h, base, seq, data, n) /\ Fold(base, seq, data) = h[n]
  BY FoldTrace
<1>2. h[0] = base /\ \A k \in 1..n : h[k] = op(h[k - 1], seq[k], data)
  BY <1>1 DEF Trace
<1> DEFINE T == {k \in Nat : k <= n /\ h[k] \notin S}
<1>3. SUFFICES ASSUME T # {} PROVE FALSE
  BY <1>1
<1>4. PICK m \in T : \A k \in T : m <= k
  BY <1>3, Least
<1>5. m # 0
  BY <1>2
<1>6. m - 1 \in Nat /\ m - 1 <= n /\ m \in 1..n /\ m - 1 \notin T
  BY <1>4, <1>5
<1>7. h[m - 1] \in S
  BY <1>6
<1>. QED  BY <1>2, <1>6, <1>7

\* A fold over a sequence with one more element.
THEOREM FoldAppend ==
    ASSUME NEW base, NEW data, NEW A, NEW s \in Seq(A), NEW x \in A
    PROVE  /\ Fold(base, Append(s, x), data) = op(Fold(base, s, data), x, data)
           /\ Fold(base, <<>>, data) = base
<1> DEFINE c == Append(s, x)
           n == Len(s)
<1>1. n \in Nat /\ DOMAIN s = 1..n /\ DOMAIN c = 1..(n + 1) /\ n + 1 \in Nat /\ c[n + 1] = x
      /\ \A k \in 1..n : c[k] = s[k]
  OBVIOUS
<1> HIDE DEF c, n
<1>2. PICK h : Trace(h, base, s, data, n) /\ Fold(base, s, data) = h[n]
  <2>1. n \in Nat /\ DOMAIN s = 1..n
    BY <1>1
  <2>. QED  BY ONLY <2>1, FoldTrace
<1>3. PICK g : Trace(g, base, c, data, n + 1) /\ Fold(base, c, data) = g[n + 1]
  <2>1. n + 1 \in Nat /\ DOMAIN c = 1..(n + 1)
    BY <1>1
  <2>. QED  BY ONLY <2>1, FoldTrace
<1>4. h[0] = base /\ \A k \in 1..n : h[k] = op(h[k - 1], s[k], data)
  BY <1>2 DEF Trace
<1>5. g[0] = base /\ \A k \in 1..(n + 1) : g[k] = op(g[k - 1], c[k], data)
  BY <1>3 DEF Trace
<1> DEFINE T == {k \in Nat : k <= n /\ h[k] # g[k]}
<1>6. T = {}
  <2>1. SUFFICES ASSUME T # {} PROVE FALSE
    OBVIOUS
  <2>2. PICK m \in T : \A k \in T : m <= k
    BY <2>1, Least
  <2>3. m # 0
    BY <1>4, <1>5
  <2>4. m - 1 \in Nat /\ m - 1 <= n /\ m \in 1..n /\ m \in 1..(n + 1) /\ m - 1 \notin T
    BY <1>1, <2>2, <2>3
  <2>5. h[m - 1] = g[m - 1]
    BY <2>4
  <2>. QED  BY <1>1, <1>4, <1>5, <2>4, <2>5
<1>7. h[n] = g[n]
  BY <1>1, <1>6
<1>8. g[n + 1] = op(g[n], x, data)
  <2>1. n + 1 \in 1..(n + 1) /\ (n + 1) - 1 = n
    BY <1>1
  <2>. QED  BY <1>1, <1>5, <2>1
<1>9. Fold(base, <<>>, data) = base
  <2>1. DOMAIN <<>> = 1..0 /\ 0 \in Nat
    OBVIOUS
  <2>2. PICK f : Trace(f, base, <<>>, data, 0) /\ Fold(base, <<>>, data) = f[0]
    BY ONLY <2>1, FoldTrace
  <2>. QED  BY <2>2 DEF Trace
<1>. QED  BY <1>2, <1>3, <1>7, <1>8, <1>9 DEF c

\* A fold over two sequences goes on with the second from what the first gave.
THEOREM FoldConcat ==
    ASSUME NEW base, NEW data, NEW A, NEW u \in Seq(A), NEW v \in Seq(A)
    PROVE  Fold(base, u \o v, data) = Fold(Fold(base, u, data), v, data)
<1> DEFINE c == u \o v
           n == Len(u)
           m == Len(v)
<1>1. /\ n \in Nat /\ DOMAIN u = 1..n /\ m \in Nat /\ DOMAIN v = 1..m
      /\ DOMAIN c = 1..(n + m) /\ n + m \in Nat
      /\ \A k \in 1..n : c[k] = u[k]
      /\ \A k \in 1..m : c[n + k] = v[k]
  OBVIOUS
<1> HIDE DEF c, n, m
<1>2. PICK f : Trace(f, base, u, data, n) /\ Fold(base, u, data) = f[n]
  <2>1. n \in Nat /\ DOMAIN u = 1..n
    BY <1>1
  <2>. QED  BY ONLY <2>1, FoldTrace
<1>3. PICK g : Trace(g, f[n], v, data, m) /\ Fold(f[n], v, data) = g[m]
  <2>1. m \in Nat /\ DOMAIN v = 1..m
    BY <1>1
  <2>. QED  BY ONLY <2>1, FoldTrace
<1>4. PICK h : Trace(h, base, c, data, n + m) /\ Fold(base, c, data) = h[n + m]
  <2>1. n + m \in Nat /\ DOMAIN c = 1..(n + m)
    BY <1>1
  <2>. QED  BY ONLY <2>1, FoldTrace
<1>5. f[0] = base /\ \A k \in 1..n : f[k] = op(f[k - 1], u[k], data)
  BY <1>2 DEF Trace
<1>6. g[0] = f[n] /\ \A k \in 1..m : g[k] = op(g[k - 1], v[k], data)
  BY <1>3 DEF Trace
<1>7. h[0] = base /\ \A k \in 1..(n + m) : h[k] = op(h[k - 1], c[k], data)
  BY <1>4 DEF Trace
<1> DEFINE T == {k \in Nat : k <= n /\ h[k] # f[k]}
           U == {k \in Nat : k <= m /\ h[n + k] # g[k]}
<1>8. T = {}
  <2>1. SUFFICES ASSUME T # {} PROVE FALSE
    OBVIOUS
  <2>2. PICK k \in T : \A j \in T : k <= j
    BY <2>1, Least
  <2>3. k # 0
    BY <1>5, <1>7
  <2>4. k - 1 \in Nat /\ k - 1 <= n /\ k \in 1..n /\ k \in 1..(n + m) /\ k - 1 \notin T
    BY <1>1, <2>2, <2>3
  <2>5. h[k - 1] = f[k - 1]
    BY <2>4
  <2>. QED  BY <1>1, <1>5, <1>7, <2>4, <2>5
<1>9. h[n] = f[n]
  BY <1>1, <1>8
<1>10. U = {}
  <2>1. SUFFICES ASSUME U # {} PROVE FALSE
    OBVIOUS
  <2>2. PICK k \in U : \A j \in U : k <= j
    BY <2>1, Least
  <2>3. k # 0
    BY <1>1, <1>6, <1>9
  <2>4. k - 1 \in Nat /\ k - 1 <= m /\ k \in 1..m /\ n + k \in 1..(n + m) /\ k - 1 \notin U
        /\ (n + k) - 1 = n + (k - 1)
    BY <1>1, <2>2, <2>3
  <2>5. h[n + (k - 1)] = g[k - 1]
    BY <2>4
  <2>6. h[n + k] = op(g[k - 1], v[k], data)
    <3>1. h[n + k] = op(h[(n + k) - 1], c[n + k], data)
      BY <1>7, <2>4
    <3>. QED  BY <1>1, <2>4, <2>5, <3>1
  <2>. QED  BY <1>6, <2>4, <2>6
<1>11. h[n + m] = g[m]
  BY <1>1, <1>10
<1>. QED  BY <1>2, <1>3, <1>4, <1>11 DEF c

\* A function that is defined from its last value.
Iterates(f, first, data, n) ==
    f = [k \in 1..n |-> IF k = 1 THEN first ELSE step(f[k - 1], data, k)]

THEOREM Iterated ==
    ASSUME NEW first, NEW data, NEW n \in Nat
    PROVE  \E f : Iterates(f, first, data, n)
<1> DEFINE Is(f, m) == Iterates(f, first, data, m)
           T == {m \in Nat : ~ \E f : Is(f, m)}
<1>1. SUFFICES ASSUME T # {} PROVE FALSE
  <2>1. n \notin T
    BY <1>1
  <2>. QED  BY <2>1 DEF Iterates
<1>2. PICK m \in T : \A k \in T : m <= k
  BY <1>1, Least
<1>3. m # 0
  <2> DEFINE f == [k \in 1..0 |-> first]
  <2>1. Is(f, 0)
    BY DEF Iterates
  <2>. QED  BY <2>1
<1>4. m \in Nat /\ m - 1 \in Nat /\ m - 1 \notin T
  <2>. HIDE DEF Is
  <2>. QED  BY <1>2, <1>3
<1>5. PICK f : Is(f, m - 1)
  BY <1>4
<1> DEFINE h == [k \in 1..m |-> IF k = m THEN IF m = 1 THEN first ELSE step(f[m - 1], data, m) ELSE f[k]]
<1>6. \A k \in 1..m : h[k] = IF k = 1 THEN first ELSE step(h[k - 1], data, k)
  <2>. TAKE k \in 1..m
  <2>1. CASE k = m
    BY <2>1
  <2>2. CASE k # m
    <3>1. k \in 1..(m - 1) /\ h[k] = f[k]
      BY <2>2
    <3>2. f[k] = IF k = 1 THEN first ELSE step(f[k - 1], data, k)
      BY <1>5, <3>1 DEF Iterates
    <3>3. k # 1 => k - 1 \in 1..m /\ k - 1 # m
      BY <3>1
    <3>4. k # 1 => h[k - 1] = f[k - 1]
      BY <3>3
    <3>. HIDE DEF h
    <3>. QED  BY <3>1, <3>2, <3>4
  <2>. QED  BY <2>1, <2>2
<1>7. Is(h, m)
  <2>1. h = [k \in 1..m |-> h[k]]
    OBVIOUS
  <2>. HIDE DEF h
  <2>. QED  BY <1>6, <2>1 DEF Iterates
<1>. QED  BY <1>2, <1>7

(***************************************************************************)
(* The concatenation of all sequences of a sequence.                       *)
(***************************************************************************)
Joins == \A t, d, k : step(t, d, k) = t \o d[k]

\* What FlattenSeq has of the first sequences.
LEMMA Flattened ==
    ASSUME Joins, NEW A, NEW s \in Seq(Seq(A)), s # <<>>
    PROVE  \E f : /\ f[1] = s[1] /\ FlattenSeq(s) = f[Len(s)]
                  /\ \A k \in 2..Len(s) : f[k] = f[k - 1] \o s[k]
<1> DEFINE Is(f) == f = [i \in 1..Len(s) |-> IF i = 1 THEN s[i] ELSE f[i - 1] \o s[i]]
           f == CHOOSE f : Is(f)
<1>1. Len(s) \in Nat \ {0}
  OBVIOUS
<1>2. FlattenSeq(s) = f[Len(s)]
  BY <1>1 DEF FlattenSeq
<1>3. Is(f)
  <2>1. PICK g : Iterates(g, s[1], s, Len(s))
    BY <1>1, Iterated
  <2>2. \A k \in 1..Len(s) : g[k] = IF k = 1 THEN s[k] ELSE g[k - 1] \o s[k]
    BY <2>1 DEF Joins, Iterates
  <2>3. g = [k \in 1..Len(s) |-> g[k]]
    BY <2>1 DEF Iterates
  <2>4. Is(g)
    BY <2>2, <2>3
  <2>. HIDE DEF Is
  <2>. QED  BY <2>4
<1>. HIDE DEF f
<1>4. \A k \in 1..Len(s) : f[k] = IF k = 1 THEN s[k] ELSE f[k - 1] \o s[k]
  BY <1>3
<1>5. 1 \in 1..Len(s) /\ \A k \in 2..Len(s) : k \in 1..Len(s) /\ k # 1
  BY <1>1
<1>6. f[1] = s[1] /\ \A k \in 2..Len(s) : f[k] = f[k - 1] \o s[k]
  <2>. HIDE DEF Is
  <2>. QED  BY <1>4, <1>5
<1>. QED  BY <1>2, <1>6

\* One more sequence comes after the others.
THEOREM FlattenAppend ==
    ASSUME Joins, NEW A, NEW s \in Seq(Seq(A)), NEW x \in Seq(A)
    PROVE  /\ FlattenSeq(s) \in Seq(A)
           /\ FlattenSeq(Append(s, x)) = FlattenSeq(s) \o x
           /\ FlattenSeq(<<>>) = <<>>
<1> DEFINE c == Append(s, x)
           B == Seq(A)
<1>0. s \in Seq(B) /\ x \in B
  OBVIOUS
<1>1. c \in Seq(Seq(A)) /\ Len(c) = Len(s) + 1 /\ c # <<>> /\ Len(s) \in Nat /\ c[Len(s) + 1] = x
      /\ \A k \in 1..Len(s) : c[k] = s[k] /\ s[k] \in Seq(A)
  <2>1. c \in Seq(B) /\ Len(c) = Len(s) + 1 /\ c # <<>> /\ Len(s) \in Nat /\ c[Len(s) + 1] = x
        /\ \A k \in 1..Len(s) : c[k] = s[k] /\ s[k] \in B
    <3>. HIDE DEF B
    <3>1. c \in Seq(B) /\ c # <<>> /\ Len(c) = Len(s) + 1 /\ c[Len(s) + 1] = x
          /\ \A k \in 1..Len(s) : c[k] = s[k]
      BY <1>0, AppendProperties
    <3>. QED  BY <1>0, <3>1
  <2>. QED  BY <2>1
<1> HIDE DEF c
<1>2. PICK g : /\ g[1] = c[1] /\ FlattenSeq(c) = g[Len(c)]
               /\ \A k \in 2..Len(c) : g[k] = g[k - 1] \o c[k]
  BY <1>1, Flattened
<1>3. FlattenSeq(<<>>) = <<>>
  BY DEF FlattenSeq
<1>4. CASE s = <<>>
  <2>1. Len(s) = 0 /\ Len(c) = 1
    BY <1>1, <1>4
  <2>2. FlattenSeq(c) = x
    BY <1>1, <1>2, <1>4, <2>1
  <2>3. <<>> \o x = x /\ <<>> \in Seq(A)
    OBVIOUS
  <2>. QED  BY <1>3, <1>4, <2>2, <2>3 DEF c
<1>5. CASE s # <<>>
  <2>1. PICK f : /\ f[1] = s[1] /\ FlattenSeq(s) = f[Len(s)]
                 /\ \A k \in 2..Len(s) : f[k] = f[k - 1] \o s[k]
    BY <1>5, Flattened
  <2>2. Len(s) >= 1
    BY <1>1, <1>5
  <2> DEFINE T == {k \in Nat : k \in 1..Len(s) /\ ~(f[k] = g[k] /\ f[k] \in Seq(A))}
  <2>3. T = {}
    <3>1. SUFFICES ASSUME T # {} PROVE FALSE
      OBVIOUS
    <3>2. PICK m \in T : \A k \in T : m <= k
      BY <3>1, Least
    <3>3. \A k \in 1..Len(s) : s[k] \in Seq(A)
      BY <1>1
    <3>4. m # 1
      BY <1>1, <1>2, <2>1, <2>2, <3>3
    <3>5. m \in 2..Len(s) /\ m - 1 \in Nat /\ m - 1 \in 1..Len(s) /\ m \in 2..Len(c) /\ m - 1 \notin T
      BY <1>1, <3>2, <3>4
    <3>6. f[m - 1] = g[m - 1] /\ f[m - 1] \in Seq(A)
      BY <3>5
    <3>7. f[m] = g[m] /\ f[m] \in Seq(A)
      <4>1. f[m] = f[m - 1] \o s[m] /\ g[m] = g[m - 1] \o c[m] /\ c[m] = s[m] /\ s[m] \in Seq(A)
        BY <1>1, <1>2, <2>1, <3>3, <3>5
      <4>. QED  BY <3>6, <4>1
    <3>. QED  BY <3>7
  <2>4. f[Len(s)] = g[Len(s)] /\ f[Len(s)] \in Seq(A)
    <3>1. Len(s) \in Nat /\ Len(s) \in 1..Len(s) /\ Len(s) \notin T
      BY <1>1, <2>2, <2>3
    <3>. QED  BY <3>1
  <2>5. g[Len(c)] = g[Len(s)] \o x
    <3>1. Len(c) \in 2..Len(c) /\ Len(c) - 1 = Len(s)
      BY <1>1, <2>2
    <3>. QED  BY <1>1, <1>2, <3>1
  <2>. QED  BY <1>2, <1>3, <2>1, <2>4, <2>5 DEF c
<1>. QED  BY <1>4, <1>5

\* If only the last one has elements, they are all there are.
THEOREM FlattenLast ==
    ASSUME Joins, NEW A, NEW s \in Seq(Seq(A)), s # <<>>,
           \A k \in 1..Len(s) : s[k] # <<>> => k = Len(s)
    PROVE  FlattenSeq(s) = s[Len(s)]
<1>1. PICK f : /\ f[1] = s[1] /\ FlattenSeq(s) = f[Len(s)]
               /\ \A k \in 2..Len(s) : f[k] = f[k - 1] \o s[k]
  BY Flattened
<1>2. Len(s) \in Nat \ {0} /\ \A k \in 1..Len(s) : s[k] \in Seq(A)
  OBVIOUS
<1> DEFINE T == {k \in Nat : k \in 1..Len(s) /\ f[k] # s[k]}
<1>3. SUFFICES ASSUME T # {} PROVE FALSE
  <2>1. Len(s) \notin T
    BY <1>3
  <2>. QED  BY <1>1, <1>2, <2>1
<1>4. PICK m \in T : \A k \in T : m <= k
  BY <1>3, Least
<1>5. m # 1
  BY <1>1
<1>6. m \in 2..Len(s) /\ m - 1 \in Nat /\ m - 1 \in 1..Len(s) /\ m - 1 # Len(s) /\ m - 1 \notin T
  BY <1>2, <1>4, <1>5
<1>7. f[m - 1] = <<>>
  BY <1>6
<1>8. <<>> \o s[m] = s[m]
  BY <1>2, <1>6
<1>. QED  BY <1>1, <1>6, <1>7, <1>8

LEMMA Associates ==
    ASSUME NEW S, NEW a \in Seq(S), NEW b \in Seq(S), NEW c \in Seq(S)
    PROVE  (a \o b) \o c = a \o (b \o c)
BY ConcatAssociative

\* Two lists of sequences one after the other.
THEOREM FlattenConcat ==
    ASSUME Joins, NEW A, NEW s \in Seq(Seq(A)), NEW t \in Seq(Seq(A))
    PROVE  FlattenSeq(s \o t) = FlattenSeq(s) \o FlattenSeq(t)
<1> DEFINE B == Seq(A)
           Parts(u) == FlattenSeq(s \o u) = FlattenSeq(s) \o FlattenSeq(u)
           T == {n \in Nat : \E u \in Seq(B) : Len(u) = n /\ ~Parts(u)}
<1>1. \A u \in Seq(B), x \in B : /\ FlattenSeq(u) \in Seq(A)
                                 /\ FlattenSeq(Append(u, x)) = FlattenSeq(u) \o x
                                 /\ FlattenSeq(<<>>) = <<>>
  BY FlattenAppend
<1>2. s \in Seq(B) /\ t \in Seq(B) /\ (\A x \in B : x \in Seq(A))
  OBVIOUS
<1>. HIDE DEF B
<1>3. T = {}
  <2>1. SUFFICES ASSUME T # {} PROVE FALSE
    OBVIOUS
  <2>2. PICK m \in T : \A n \in T : m <= n
    BY <2>1, Least
  <2>3. PICK u \in Seq(B) : Len(u) = m /\ ~Parts(u)
    BY <2>2
  <2>. HIDE DEF Parts
  <2>4. u # <<>>
    <3>1. s \o <<>> = s /\ FlattenSeq(s) \in Seq(A) /\ FlattenSeq(<<>>) = <<>>
      <4>1. <<>> \in B
        BY DEF B
      <4>2. s \o <<>> = s
        BY <1>2, ConcatEmptySeq
      <4>. QED  BY <1>1, <1>2, <4>1, <4>2
    <3>2. FlattenSeq(s) \o <<>> = FlattenSeq(s)
      BY <3>1, ConcatEmptySeq
    <3>3. Parts(<<>>)
      BY <3>1, <3>2 DEF Parts
    <3>. QED  BY <2>3, <3>3
  <2>5. PICK v \in Seq(B), x \in B : u = Append(v, x)
    BY <2>4, SequenceEmptyOrAppend
  <2>6. Len(v) \in Nat /\ Len(v) = m - 1
    <3>1. Len(Append(v, x)) = Len(v) + 1 /\ Len(v) \in Nat
      BY AppendProperties
    <3>. QED  BY <2>3, <2>5, <3>1
  <2>7. Parts(v)
    BY <2>2, <2>6
  <2>8. s \o u = Append(s \o v, x) /\ s \o v \in Seq(B)
    <3>1. s \in Seq(B) /\ v \in Seq(B) /\ x \in B
      BY <1>2, <2>5
    <3>. QED  BY ONLY <2>5, <3>1
  <2>9. FlattenSeq(s \o u) = FlattenSeq(s \o v) \o x /\ FlattenSeq(u) = FlattenSeq(v) \o x
    BY <1>1, <2>5, <2>8
  <2>10. /\ FlattenSeq(s) \in Seq(A) /\ FlattenSeq(v) \in Seq(A) /\ x \in Seq(A)
         /\ FlattenSeq(s \o v) = FlattenSeq(s) \o FlattenSeq(v)
    BY <1>1, <1>2, <2>7 DEF Parts
  <2>11. (FlattenSeq(s) \o FlattenSeq(v)) \o x = FlattenSeq(s) \o (FlattenSeq(v) \o x)
    <3> DEFINE a == FlattenSeq(s)
               b == FlattenSeq(v)
    <3>1. a \in Seq(A) /\ b \in Seq(A) /\ x \in Seq(A)
      BY <2>10
    <3>. HIDE DEF a, b
    <3>2. (a \o b) \o x = a \o (b \o x)
      BY ONLY <3>1, Associates, SMTT(60)
    <3>. QED  BY <3>2 DEF a, b
  <2>. QED  BY <2>3, <2>9, <2>10, <2>11 DEF Parts
<1>4. Len(t) \in Nat /\ Len(t) \notin T
  BY <1>2, <1>3, LenProperties
<1>. QED  BY <1>2, <1>4
-----------------------------------------------------------------------------
(* QueueOps.                                                               *)

\* Every number below the size of K is the place of an element of K.
LEMMA PlaceExists ==
    ASSUME NEW n \in Nat, NEW K, IsFiniteSet(K),
           \A k \in K : k \in Nat /\ 1 <= k /\ k <= n,
           NEW j \in 1..Cardinality(K)
    PROVE  \E i \in K : Place(K, i) = j - 1
<1> DEFINE T == {t \in Nat : Place(K, t) >= j}
<1>1. Cardinality(K) \in Nat
  BY FS_CardinalityType
<1>2. \A t \in Int : IsFiniteSet({k \in K : k < t}) /\ Place(K, t) \in Nat
  <2>. TAKE t \in Int
  <2>1. {k \in K : k < t} \in SUBSET K
    OBVIOUS
  <2>. QED  BY <2>1, FS_Subset, FS_CardinalityType DEF Place
<1>3. n + 1 \in T
  <2>1. {k \in K : k < n + 1} = K
    OBVIOUS
  <2>. QED  BY <2>1, <1>1 DEF Place
<1>4. PICK m \in T : \A t \in T : m <= t
  <2>1. T \in SUBSET Nat
    OBVIOUS
  <2>. HIDE DEF T
  <2>. QED  BY <1>3, <2>1, Least
<1>5. m # 0
  <2>1. {k \in K : k < 0} = {}
    OBVIOUS
  <2>2. Place(K, 0) = 0
    BY <2>1, FS_EmptySet DEF Place
  <2>. QED  BY <2>2
<1>6. m \in Nat /\ m - 1 \in Nat /\ m \in Int /\ m - 1 \in Int /\ j \in Nat /\ Place(K, m) >= j
  BY <1>1, <1>5
<1>7. Place(K, m) \in Nat /\ Place(K, m - 1) \in Nat
  BY <1>2, <1>6
<1>8. Place(K, m - 1) < j
  <2>1. m - 1 \notin T
    BY <1>4, <1>6
  <2>. QED  BY <1>6, <1>7, <2>1
<1>9. CASE m - 1 \in K
  <2>1. {k \in K : k < m} = {k \in K : k < m - 1} \cup {m - 1}
    BY <1>6, <1>9
  <2>2. Place(K, m) = Place(K, m - 1) + 1
    <3>1. IsFiniteSet({k \in K : k < m - 1}) /\ m - 1 \notin {k \in K : k < m - 1}
      BY <1>2, <1>6
    <3>. QED  BY <2>1, <3>1, FS_AddElement DEF Place
  <2>3. Place(K, m - 1) = j - 1
    BY <1>6, <1>8, <1>7, <2>2
  <2>. QED  BY <1>9, <2>3
<1>10. CASE m - 1 \notin K
  <2>1. {k \in K : k < m} = {k \in K : k < m - 1}
    BY <1>6, <1>10
  <2>2. Place(K, m) = Place(K, m - 1)
    BY <2>1 DEF Place
  <2>. QED  BY <1>6, <1>8, <1>7, <2>2
<1>. QED  BY <1>9, <1>10

\* What is selected is a queue of the same kind, made of entries of the places.
LEMMA SelectedProperties ==
    ASSUME NEW S, NEW q \in Seq(S), NEW K \in SUBSET (1..Len(q))
    PROVE  /\ IsFiniteSet(K) /\ Cardinality(K) \in Nat
           /\ Selected(q, K) \in Seq(S)
           /\ Len(Selected(q, K)) = Cardinality(K)
           /\ \A j \in 1..Cardinality(K) : \E i \in K : Selected(q, K)[j] = q[i]
<1> DEFINE n == Cardinality(K)
           at(j) == CHOOSE i \in K : Place(K, i) = j - 1
<1>1. Len(q) \in Nat
  OBVIOUS
<1>2. IsFiniteSet(K) /\ n \in Nat
  <2>1. IsFiniteSet(1..Len(q))
    BY <1>1, FS_Interval
  <2>. QED  BY <2>1, FS_Subset, FS_CardinalityType
<1>3. \A j \in 1..n : at(j) \in K
  <2>0. \A k \in K : k \in Nat /\ 1 <= k /\ k <= Len(q)
    BY <1>1
  <2>1. \A j \in 1..n : \E i \in K : Place(K, i) = j - 1
    BY <1>1, <1>2, <2>0, PlaceExists
  <2>. QED  BY <2>1
<1>4. Selected(q, K) = [j \in 1..n |-> q[at(j)]]
  BY DEF Selected
<1>. HIDE DEF n, at
<1>5. \A j \in 1..n : q[at(j)] \in S
  <2>1. \A i \in 1..Len(q) : q[i] \in S
    OBVIOUS
  <2>. QED  BY <1>3, <2>1
<1>6. [j \in 1..n |-> q[at(j)]] \in Seq(S) /\ Len([j \in 1..n |-> q[at(j)]]) = n
  BY <1>2, <1>5, IsASeq
<1>7. \A j \in 1..n : Selected(q, K)[j] = q[at(j)]
  BY <1>4
<1>8. Selected(q, K) \in Seq(S) /\ Len(Selected(q, K)) = n
  BY <1>4, <1>6
<1>9. \A j \in 1..n : \E i \in K : Selected(q, K)[j] = q[i]
  BY <1>3, <1>7
<1>. QED  BY <1>2, <1>8, <1>9 DEF n

\* Between two elements of K there are no more places than numbers.
LEMMA PlaceGap ==
    ASSUME NEW n \in Nat, NEW K \in SUBSET (1..n), NEW a \in K, NEW b \in K, a <= b
    PROVE  /\ Place(K, a) \in Nat /\ Place(K, b) \in Nat
           /\ Place(K, a) < Cardinality(K)
           /\ Place(K, b) - Place(K, a) <= b - a
           /\ a < b => Place(K, a) < Place(K, b)
<1> DEFINE A == {k \in K : k < a}
           B == {k \in K : k < b}
           M == {k \in K : a <= k /\ k < b}
<1>1. a \in Int /\ b \in Int /\ \A k \in K : k \in Int
  OBVIOUS
<1>2. IsFiniteSet(K) /\ Cardinality(K) \in Nat
  <2>1. IsFiniteSet(1..n)
    BY FS_Interval
  <2>. QED  BY <2>1, FS_Subset, FS_CardinalityType
<1>3. IsFiniteSet(A) /\ IsFiniteSet(M) /\ IsFiniteSet(B)
  <2>1. A \in SUBSET K /\ M \in SUBSET K /\ B \in SUBSET K
    OBVIOUS
  <2>. QED  BY <1>2, <2>1, FS_Subset
<1>4. Cardinality(A) \in Nat /\ Cardinality(M) \in Nat /\ Cardinality(B) \in Nat
  BY <1>3, FS_CardinalityType
<1>5. Cardinality(B) = Cardinality(A) + Cardinality(M)
  <2>1. B = A \cup M /\ A \cap M = {}
    <3>1. \A k \in K : (k < b) <=> ((k < a) \/ (a <= k /\ k < b))
      BY <1>1
    <3>2. \A k \in K : ~((k < a) /\ (a <= k /\ k < b))
      BY <1>1
    <3>. QED  BY <3>1, <3>2, Zenon
  <2>2. Cardinality(A \cap M) = 0
    BY <2>1, FS_EmptySet
  <2>. HIDE DEF A, B, M
  <2>3. Cardinality(A \cup M) = Cardinality(A) + Cardinality(M) - Cardinality(A \cap M)
    BY <1>3, FS_Union
  <2>. QED  BY <1>4, <2>1, <2>2, <2>3
<1>6. Cardinality(M) <= b - a
  <2> DEFINE e == b - 1
             I == a..e
  <2>1. \A k \in M : k \in I
    BY <1>1
  <2>2. e \in Int /\ e = b - 1
    BY <1>1
  <2>. HIDE DEF M, e
  <2>3. IsFiniteSet(I) /\ Cardinality(I) = IF a > e THEN 0 ELSE e - a + 1
    BY <1>1, <2>2, FS_Interval
  <2>. HIDE DEF I
  <2>4. M \in SUBSET I
    BY <2>1
  <2>5. Cardinality(M) <= Cardinality(I)
    BY <2>3, <2>4, FS_Subset
  <2>. QED  BY <1>1, <1>4, <2>2, <2>3, <2>5
<1>7. a < b => Cardinality(M) # 0
  <2>. SUFFICES ASSUME a < b PROVE Cardinality(M) # 0
    OBVIOUS
  <2>1. a \in M
    BY <1>1
  <2>. HIDE DEF M
  <2>. QED  BY <1>3, <2>1, FS_EmptySet
<1>8. Cardinality(A) < Cardinality(K)
  <2>1. A \in SUBSET K /\ a \notin A
    BY <1>1
  <2>. HIDE DEF A
  <2>2. A # K
    BY <2>1
  <2>3. Cardinality(A) <= Cardinality(K) /\ (Cardinality(K) = Cardinality(A) => K = A)
    BY <1>2, <2>1, FS_Subset
  <2>. QED  BY <1>2, <1>4, <2>2, <2>3
<1>9. Place(K, a) = Cardinality(A) /\ Place(K, b) = Cardinality(B)
  BY DEF Place
<1>. HIDE DEF A, B, M
<1>. QED  BY <1>4, <1>5, <1>6, <1>7, <1>8, <1>9, <1>1

\* Selected entries keep their order and come no further apart; none is lost.
LEMMA SelectedOrder ==
    ASSUME NEW S, NEW q \in Seq(S), NEW K \in SUBSET (1..Len(q))
    PROVE  /\ \A j, k \in 1..Cardinality(K) : j <= k =>
                 \E a, b \in K : /\ a <= b /\ k - j <= b - a
                                 /\ Selected(q, K)[j] = q[a] /\ Selected(q, K)[k] = q[b]
           /\ \A i \in K : \E j \in 1..Cardinality(K) : Selected(q, K)[j] = q[i]
<1> DEFINE n == Cardinality(K)
           at(j) == CHOOSE i \in K : Place(K, i) = j - 1
<1>1. Len(q) \in Nat
  OBVIOUS
<1>2. IsFiniteSet(K) /\ n \in Nat
  BY SelectedProperties
<1>3. \A k \in K : k \in Nat /\ 1 <= k /\ k <= Len(q)
  BY <1>1
<1>4. \A j \in 1..n : at(j) \in K /\ Place(K, at(j)) = j - 1
  <2>1. \A j \in 1..n : \E i \in K : Place(K, i) = j - 1
    BY <1>1, <1>2, <1>3, PlaceExists
  <2>. QED  BY <2>1
<1>5. \A j \in 1..n : Selected(q, K)[j] = q[at(j)]
  BY DEF Selected
<1>6. \A a, b \in K : a <= b =>
         /\ Place(K, a) \in Nat /\ Place(K, b) \in Nat /\ Place(K, a) < n
         /\ Place(K, b) - Place(K, a) <= b - a
         /\ a < b => Place(K, a) < Place(K, b)
  BY <1>1, PlaceGap
<1>. HIDE DEF n, at
<1>7. ASSUME NEW j \in 1..n, NEW k \in 1..n, j <= k
      PROVE  at(j) <= at(k) /\ k - j <= at(k) - at(j)
  <2>1. at(j) \in K /\ at(k) \in K /\ at(j) \in Nat /\ at(k) \in Nat
    BY <1>3, <1>4
  <2>2. Place(K, at(j)) = j - 1 /\ Place(K, at(k)) = k - 1
    BY <1>4
  <2>3. j \in Nat /\ k \in Nat
    BY <1>2
  <2>4. at(j) <= at(k)
    <3>1. ~(at(k) < at(j))
      BY <1>6, <1>7, <2>1, <2>2, <2>3
    <3>. QED  BY <2>1, <3>1
  <2>. QED  BY <1>6, <2>1, <2>2, <2>3, <2>4
<1>8. ASSUME NEW i \in K
      PROVE  \E j \in 1..n : Selected(q, K)[j] = q[i]
  <2> DEFINE j == Place(K, i) + 1
  <2>1. i \in Nat /\ i <= i
    BY <1>3
  <2>2. Place(K, i) \in Nat /\ Place(K, i) < n
    BY <1>6, <2>1
  <2>3. j \in 1..n /\ j - 1 = Place(K, i)
    BY <1>2, <2>2
  <2>. HIDE DEF j
  <2>4. at(j) \in K /\ Place(K, at(j)) = Place(K, i) /\ at(j) \in Nat
    BY <1>3, <1>4, <2>3
  <2>5. at(j) = i
    <3>1. ~(at(j) < i) /\ ~(i < at(j))
      BY <1>6, <2>1, <2>2, <2>4
    <3>. QED  BY <2>1, <2>4, <3>1
  <2>. QED  BY <1>5, <2>3, <2>5
<1>9. \A j, k \in 1..n : j <= k =>
         \E a, b \in K : /\ a <= b /\ k - j <= b - a
                         /\ Selected(q, K)[j] = q[a] /\ Selected(q, K)[k] = q[b]
  BY <1>4, <1>5, <1>7
<1>. QED  BY <1>8, <1>9 DEF n

\* What is left without x is a queue of the same kind that does not hold x.
LEMMA WithoutProperties ==
    ASSUME NEW S, NEW q \in Seq(S), NEW x
    PROVE  /\ Without(q, x) \in Seq(S)
           /\ \A j \in 1..Len(Without(q, x)) : Without(q, x)[j] # x
<1> DEFINE K == Kept(q, x)
<1>1. K \in SUBSET (1..Len(q)) /\ \A i \in K : q[i] # x
  BY DEF Kept
<1>2. Without(q, x) = Selected(q, K)
  BY DEF Without
<1>. HIDE DEF K
<1>. QED  BY <1>1, <1>2, SelectedProperties
=============================================================================
