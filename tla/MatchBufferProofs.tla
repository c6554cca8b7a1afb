-------------------------- MODULE MatchBufferProofs --------------------------
(***************************************************************************)
(* Theorems about MatchBuffer, for every match_max, number of characters   *)
(* and depth of nesting.                                                   *)
(*                                                                         *)
(* Data: nothing that was shown lies behind printed, all was shown unless  *)
(* expAdjust dropped some, and the characters of the buffer rise, which is *)
(* what the bound on a match that straddles two bufferfuls rests on.       *)
(* AllThere: what was taken, what is buffered and what was stripped are    *)
(* all that was read.  Attentive: who has looked at the buffer, for        *)
(* scripts that keep to the manual.                                        *)
(***************************************************************************)
EXTENDS MatchBuffer, FiniteSetTheorems, SequenceTheorems, WellFoundedInduction, TLAPS

-----------------------------------------------------------------------------
(* What is left of a queue: the lemmas of FoldProofs, which folds nothing here. *)

Added(t, e, d) == Append(t, e)
Queue == INSTANCE FoldProofs WITH op <- Added, step <- Added

\* Its own operators are the ones meant here.
LEMMA SameQueue ==
    ASSUME NEW q, NEW K, NEW x
    PROVE  /\ Queue!Cardinality(K) = Cardinality(K) /\ (Queue!IsFiniteSet(K) <=> IsFiniteSet(K))
           /\ \A i : Queue!Place(K, i) = Place(K, i)
           /\ Queue!Selected(q, K) = Selected(q, K) /\ Queue!Without(q, x) = Without(q, x)
<1>1. ASSUME NEW S PROVE Queue!Cardinality(S) = Cardinality(S)
  BY DEF Queue!Cardinality, Cardinality
<1>2. Queue!IsFiniteSet(K) <=> IsFiniteSet(K)
  BY DEF Queue!IsFiniteSet, IsFiniteSet
<1>3. ASSUME NEW S, NEW i PROVE Queue!Place(S, i) = Place(S, i)
  BY <1>1 DEF Queue!Place, Place
<1>4. ASSUME NEW S PROVE Queue!Selected(q, S) = Selected(q, S)
  BY DEF Queue!Selected, Queue!Place, Queue!Cardinality, Selected, Place, Cardinality
<1>5. Queue!Without(q, x) = Without(q, x)
  BY <1>4 DEF Queue!Without, Queue!Kept, Without, Kept
<1>. QED  BY <1>1, <1>2, <1>3, <1>4, <1>5

\* What is selected is a queue of the same kind, made of entries of the places.
LEMMA SelectedProperties ==
    ASSUME NEW S, NEW q \in Seq(S), NEW K \in SUBSET (1..Len(q))
    PROVE  /\ IsFiniteSet(K) /\ Cardinality(K) \in Nat
           /\ Selected(q, K) \in Seq(S)
           /\ Len(Selected(q, K)) = Cardinality(K)
           /\ \A j \in 1..Cardinality(K) : \E i \in K : Selected(q, K)[j] = q[i]
BY SameQueue, Queue!SelectedProperties

\* Between two elements of K there are no more places than numbers.
LEMMA PlaceGap ==
    ASSUME NEW n \in Nat, NEW K \in SUBSET (1..n), NEW a \in K, NEW b \in K, a <= b
    PROVE  /\ Place(K, a) \in Nat /\ Place(K, b) \in Nat
           /\ Place(K, a) < Cardinality(K)
           /\ Place(K, b) - Place(K, a) <= b - a
           /\ a < b => Place(K, a) < Place(K, b)
BY SameQueue, Queue!PlaceGap

\* Selected entries keep their order and come no further apart.
LEMMA SelectedOrder ==
    ASSUME NEW S, NEW q \in Seq(S), NEW K \in SUBSET (1..Len(q))
    PROVE  \A j, k \in 1..Cardinality(K) : j <= k =>
              \E a, b \in K : /\ a <= b /\ k - j <= b - a
                              /\ Selected(q, K)[j] = q[a] /\ Selected(q, K)[k] = q[b]
<1> DEFINE w == Queue!Selected(q, K)
           n == Queue!Cardinality(K)
<1>1. w = Selected(q, K) /\ n = Cardinality(K)
  BY SameQueue
<1>2. \A j, k \in 1..n : j <= k => \E a, b \in K : a <= b /\ k - j <= b - a /\ w[j] = q[a] /\ w[k] = q[b]
  BY Queue!SelectedOrder
<1> HIDE DEF w, n
<1>. QED  BY ONLY <1>1, <1>2

\* None of them is lost.
LEMMA SelectedAll ==
    ASSUME NEW S, NEW q \in Seq(S), NEW K \in SUBSET (1..Len(q))
    PROVE  \A i \in K : \E j \in 1..Cardinality(K) : Selected(q, K)[j] = q[i]
<1> DEFINE w == Queue!Selected(q, K)
           n == Queue!Cardinality(K)
<1>1. w = Selected(q, K) /\ n = Cardinality(K)
  BY SameQueue
<1>2. \A i \in K : \E j \in 1..n : w[j] = q[i]
  BY Queue!SelectedOrder
<1> HIDE DEF w, n
<1>. QED  BY ONLY <1>1, <1>2

\* What is left without x is a queue of the same kind that does not hold x.
LEMMA WithoutProperties ==
    ASSUME NEW S, NEW q \in Seq(S), NEW x
    PROVE  /\ Without(q, x) \in Seq(S)
           /\ \A j \in 1..Len(Without(q, x)) : Without(q, x)[j] # x
BY SameQueue, Queue!WithoutProperties
-----------------------------------------------------------------------------

\* From one character of the buffer to a later one it is at least as far as
\* in the buffer: some of those between may be gone.
Rises(b) == \A i, j \in 1..Len(b) : i <= j => j - i <= b[j] - b[i]

\* A buffer of characters read so far, all of them before p.
Holds(n, b) == b \in Seq(1..n) /\ Rises(b)

Data ==
    /\ arrived \in 0..MaxChars
    /\ Holds(arrived, buffer)
    /\ printed \in Nat /\ Len(buffer) <= printed
    /\ shown \in Chars /\ taken \in Chars
    /\ stripped \subseteq 1..MaxChars
    /\ {cut, wild, surprised} \subseteq BOOLEAN
    /\ ~cut => printed = Len(buffer) /\ shown = Upto(arrived)

Control ==
    /\ umsize \in Sizes /\ msize \in {Msize(u) : u \in Sizes}
    /\ {rm_nulls, force_read, noted, open, lowered} \subseteq BOOLEAN
    /\ handlers \in Seq({"fg", "bg"})
    /\ bg \in [status : {"unarmed", "armed", "blocked"}, full : BOOLEAN, seen : Chars]
    /\ stack \in Seq(Activation)

IInv == Data /\ Control
-----------------------------------------------------------------------------
(* Parts of buffers.                                                       *)

LEMMA CharsAre == ASSUME NEW n \in 0..MaxChars, NEW b \in Seq(1..n) PROVE b \in Chars
<1>1. 1..n \subseteq 1..MaxChars
  BY MatchBufferAssumption
<1>. QED  BY <1>1, SeqMonotonic DEF Chars

\* What is behind the first k - 1 characters.
LEMMA FromHolds ==
    ASSUME NEW n \in Nat, NEW b, Holds(n, b), NEW k \in 1..(Len(b) + 1)
    PROVE  /\ Holds(n, From(b, k))
           /\ Len(From(b, k)) = Len(b) - k + 1
           /\ \A i \in 1..(Len(b) - k + 1) : From(b, k)[i] = b[k + i - 1]
<1> DEFINE f == From(b, k)
           m == Len(b)
<1>1. b \in Seq(1..n) /\ m \in Nat /\ k \in Nat /\ k <= m + 1 /\ 1 <= k
  BY DEF Holds
<1>2. \A i \in k..m : b[i] \in 1..n
  BY <1>1
<1>3. /\ f \in Seq(1..n) /\ Len(f) = IF k <= m THEN m - k + 1 ELSE 0
      /\ \A i \in 1..(m - k + 1) : f[i] = b[k + i - 1]
  BY <1>1, <1>2, SubSeqProperties DEF From
<1>4. Len(f) = m - k + 1
  BY <1>1, <1>3
<1>5. Rises(f)
  <2>. HIDE DEF f, m
  <2>. SUFFICES ASSUME NEW i \in 1..Len(f), NEW j \in 1..Len(f), i <= j
                PROVE  j - i <= f[j] - f[i]
    BY DEF Rises
  <2> DEFINE a == k + i - 1
             c == k + j - 1
  <2>1. a \in 1..m /\ c \in 1..m /\ a <= c /\ c - a = j - i
    BY <1>1, <1>4
  <2>2. f[i] = b[a] /\ f[j] = b[c]
    BY <1>3, <1>4
  <2>. HIDE DEF a, c
  <2>3. c - a <= b[c] - b[a]
    BY <2>1 DEF Holds, Rises, m
  <2>. QED  BY <2>1, <2>2, <2>3
<1>. QED  BY <1>3, <1>4, <1>5 DEF Holds

\* The first k characters.
LEMMA FirstType ==
    ASSUME NEW n \in Nat, NEW b \in Seq(1..n), NEW k \in 0..Len(b)
    PROVE  SubSeq(b, 1, k) \in Seq(1..n) /\ Len(SubSeq(b, 1, k)) = k
<1>1. \A i \in 1..k : b[i] \in 1..n
  OBVIOUS
<1>. QED  BY <1>1, SubSeqProperties

\* What is read goes behind what was there.
LEMMA AddedHolds ==
    ASSUME NEW n \in Nat, NEW b, Holds(n, b), NEW m \in Nat, NEW new,
           new = [k \in 1..m |-> n + k]
    PROVE  /\ new \in Seq(1..(n + m)) /\ Len(new) = m
           /\ Holds(n + m, b \o new) /\ Len(b \o new) = Len(b) + m
           /\ \A i \in 1..(Len(b) + m) : (b \o new)[i] = IF i <= Len(b) THEN b[i] ELSE new[i - Len(b)]
<1> DEFINE S == 1..(n + m)
           c == b \o new
<1>1. b \in Seq(1..n) /\ Len(b) \in Nat
  BY DEF Holds
<1>2. b \in Seq(S)
  <2>1. 1..n \subseteq S
    OBVIOUS
  <2>. QED  BY <1>1, <2>1, SeqMonotonic
<1>3. new \in Seq(S) /\ Len(new) = m
  <2>1. \A k \in 1..m : n + k \in S
    OBVIOUS
  <2>. HIDE DEF S
  <2>. QED  BY <2>1, IsASeq
<1>. HIDE DEF S
<1>4. /\ c \in Seq(S) /\ Len(c) = Len(b) + Len(new)
      /\ \A i \in 1..(Len(b) + Len(new)) : c[i] = IF i <= Len(b) THEN b[i] ELSE new[i - Len(b)]
  BY <1>2, <1>3, ConcatProperties
<1>5. Rises(c)
  <2>. HIDE DEF c
  <2>. SUFFICES ASSUME NEW i \in 1..Len(c), NEW j \in 1..Len(c), i <= j
                PROVE  j - i <= c[j] - c[i]
    BY DEF Rises
  <2>1. i \in Nat /\ j \in Nat /\ 1 <= i /\ j <= Len(b) + m /\ Len(c) = Len(b) + m
    BY <1>1, <1>3, <1>4
  <2>2. \A k \in 1..Len(b) : b[k] \in Nat /\ b[k] <= n
    BY <1>1
  <2>3. \A k \in 1..m : new[k] = n + k
    OBVIOUS
  <2>4. CASE j <= Len(b)
    <3>1. c[i] = b[i] /\ c[j] = b[j]
      BY <1>3, <1>4, <2>1, <2>4
    <3>2. i \in 1..Len(b) /\ j \in 1..Len(b)
      BY <1>1, <2>1, <2>4
    <3>3. j - i <= b[j] - b[i]
      BY <3>2 DEF Holds, Rises
    <3>. QED  BY <3>1, <3>3
  <2>5. CASE j > Len(b) /\ i > Len(b)
    <3> DEFINE x == i - Len(b)
               y == j - Len(b)
    <3>1. c[i] = new[x] /\ c[j] = new[y] /\ x \in 1..m /\ y \in 1..m /\ y - x = j - i
      BY <1>1, <1>3, <1>4, <2>1, <2>5
    <3>. HIDE DEF x, y
    <3>. QED  BY <2>1, <2>3, <3>1
  <2>6. CASE j > Len(b) /\ i <= Len(b)
    <3> DEFINE y == j - Len(b)
               l == Len(b)
    <3>1. c[i] = b[i] /\ c[j] = new[y] /\ y \in 1..m /\ l + y = j /\ l \in Nat /\ i <= l
      BY <1>1, <1>3, <1>4, <2>1, <2>6
    <3>2. l - i <= b[l] - b[i] /\ b[l] <= n /\ b[l] \in Nat /\ b[i] \in Nat
      <4>1. \A u, v \in 1..Len(b) : u <= v => v - u <= b[v] - b[u]
        BY DEF Holds, Rises
      <4>2. i \in 1..Len(b) /\ l \in 1..Len(b) /\ i <= l
        BY <1>1, <2>1, <2>6
      <4>. HIDE DEF l
      <4>. QED  BY <2>2, <4>1, <4>2
    <3>3. new[y] = n + y
      BY <2>3, <3>1
    <3> DEFINE lo == b[i]
               hi == b[l]
               up == new[y]
    <3>4. l - i <= hi - lo /\ hi <= n /\ hi \in Nat /\ lo \in Nat /\ up = n + y
      BY <3>2, <3>3
    <3>. HIDE DEF y, l, lo, hi, up
    <3>5. j - i <= up - lo
      BY <2>1, <3>1, <3>4
    <3>. QED  BY <3>1, <3>5 DEF lo, up
  <2>. QED  BY <1>1, <2>1, <2>4, <2>5, <2>6
<1>6. Holds(n + m, c)
  BY <1>4, <1>5 DEF Holds, S
<1>. QED  BY <1>3, <1>4, <1>6 DEF S

\* What expNullStrip leaves.
LEMMA StripHolds ==
    ASSUME NEW n \in Nat, NEW b, Holds(n, b), NEW p \in Nat
    PROVE  /\ Holds(n, NullStrip(b, p))
           /\ \A i \in 1..Len(b) : i <= p => b[i] \in Elements(NullStrip(b, p))
<1> DEFINE K == {i \in DOMAIN b : i <= p \/ b[i] \notin Nulls}
           s == Selected(b, K)
<1>1. b \in Seq(1..n) /\ DOMAIN b = 1..Len(b) /\ Len(b) \in Nat
  BY DEF Holds
<1>2. K \in SUBSET (1..Len(b)) /\ \A i \in 1..Len(b) : i <= p => i \in K
  BY <1>1
<1>3. NullStrip(b, p) = s
  BY DEF NullStrip
<1>. HIDE DEF K
<1>4. s \in Seq(1..n) /\ Len(s) = Cardinality(K) /\ DOMAIN s = 1..Len(s)
  BY <1>1, <1>2, SelectedProperties
<1>5. /\ \A j, k \in 1..Len(s) : j <= k =>
           \E a, c \in K : a <= c /\ k - j <= c - a /\ s[j] = b[a] /\ s[k] = b[c]
      /\ \A i \in K : \E j \in 1..Len(s) : s[j] = b[i]
  <2> DEFINE l == Cardinality(K)
  <2>1. /\ \A j, k \in 1..l : j <= k =>
             \E a, c \in K : a <= c /\ k - j <= c - a /\ s[j] = b[a] /\ s[k] = b[c]
        /\ \A i \in K : \E j \in 1..l : s[j] = b[i]
    <3> DEFINE S == 1..n
    <3>1. b \in Seq(S) /\ K \in SUBSET (1..Len(b))
      BY <1>1, <1>2
    <3>. HIDE DEF S
    <3>2. /\ \A j, k \in 1..Cardinality(K) : j <= k =>
               \E a, c \in K : /\ a <= c /\ k - j <= c - a
                               /\ Selected(b, K)[j] = b[a] /\ Selected(b, K)[k] = b[c]
          /\ \A i \in K : \E j \in 1..Cardinality(K) : Selected(b, K)[j] = b[i]
      BY <3>1, SelectedOrder, SelectedAll
    <3>. QED  BY <3>2
  <2>2. Len(s) = l
    BY <1>4
  <2>. HIDE DEF s, l
  <2>. QED  BY <2>1, <2>2
<1>. HIDE DEF s
<1>6. Rises(s)
  <2>. SUFFICES ASSUME NEW i \in 1..Len(s), NEW j \in 1..Len(s), i <= j
                PROVE  j - i <= s[j] - s[i]
    BY DEF Rises
  <2>1. PICK a \in K, c \in K : a <= c /\ j - i <= c - a /\ s[i] = b[a] /\ s[j] = b[c]
    BY <1>5
  <2>2. a \in 1..Len(b) /\ c \in 1..Len(b)
    BY <1>2
  <2>3. c - a <= b[c] - b[a]
    <3>1. \A u, v \in 1..Len(b) : u <= v => v - u <= b[v] - b[u]
      BY DEF Holds, Rises
    <3>. QED  BY <2>1, <2>2, <3>1
  <2>4. b[a] \in Int /\ b[c] \in Int
    <3>1. \A u \in 1..Len(b) : b[u] \in Int
      BY <1>1
    <3>. QED  BY <2>2, <3>1
  <2> DEFINE lo == b[a]
             hi == b[c]
  <2>5. lo \in Int /\ hi \in Int /\ c - a <= hi - lo /\ s[i] = lo /\ s[j] = hi /\ j - i <= c - a
    BY <2>1, <2>3, <2>4
  <2>6. a \in Int /\ c \in Int /\ i \in Int /\ j \in Int
    BY <1>1, <1>4, <2>2
  <2>. HIDE DEF lo, hi
  <2>7. j - i <= hi - lo
    BY <2>5, <2>6
  <2>. QED  BY <2>5, <2>7
<1>7. \A i \in 1..Len(b) : i <= p => b[i] \in Elements(s)
  BY <1>2, <1>4, <1>5 DEF Elements
<1>. QED  BY <1>3, <1>4, <1>6, <1>7 DEF Holds
-----------------------------------------------------------------------------
(* What the operations do to the data.                                     *)

\* exp_buffer_shuffle: printed is never set to 0 because it would be negative.
LEMMA ShuffleFacts ==
    ASSUME Data, Control
    PROVE  /\ Len(Forgotten(buffer)) \in 0..Len(buffer)
           /\ Forgotten(buffer) \in Seq(1..arrived)
           /\ Shuffled(buffer) = From(buffer, Len(Forgotten(buffer)) + 1)
           /\ Holds(arrived, Shuffled(buffer))
           /\ Len(Shuffled(buffer)) = Len(buffer) - Len(Forgotten(buffer))
           /\ Unshuffled(buffer) = printed - Len(Forgotten(buffer))
           /\ Unshuffled(buffer) \in Nat
           /\ Len(Shuffled(buffer)) <= Unshuffled(buffer)
<1> DEFINE F == Forgotten(buffer)
           f == Len(F)
<1>1. arrived \in Nat /\ buffer \in Seq(1..arrived) /\ Holds(arrived, buffer) /\ Len(buffer) \in Nat
  BY MatchBufferAssumption DEF Data, Holds
<1>2. F \in Seq(1..arrived) /\ f \in 0..Len(buffer) /\ Shuffled(buffer) = From(buffer, f + 1)
  <2>1. CASE Full(buffer)
    <3> DEFINE h == Half(buffer)
    <3>1. h \in 0..Len(buffer)
      <4>1. CASE buffer = <<>>
        BY <4>1 DEF Half
      <4>2. CASE buffer # <<>>
        <5>1. Len(buffer) # 0
          BY <1>1, <4>2, EmptySeq
        <5>. QED  BY <1>1, <4>2, <5>1 DEF Half
      <4>. QED  BY <4>1, <4>2
    <3>2. F = SubSeq(buffer, 1, h) /\ Shuffled(buffer) = From(buffer, h + 1)
      BY <2>1 DEF Forgotten, Shuffled
    <3>. HIDE DEF h, F
    <3>3. F \in Seq(1..arrived) /\ f = h
      BY <1>1, <3>1, <3>2, FirstType
    <3>. QED  BY <3>1, <3>2, <3>3
  <2>2. CASE ~Full(buffer)
    <3>1. F = <<>> /\ Shuffled(buffer) = buffer
      BY <2>2 DEF Forgotten, Shuffled
    <3>2. From(buffer, 1) = buffer
      BY <1>1, SubSeqFull DEF From
    <3>3. f = 0
      BY <3>1
    <3>. QED  BY <1>1, <3>1, <3>2, <3>3
  <2>. QED  BY <2>1, <2>2
<1>. HIDE DEF F
<1>3. Holds(arrived, From(buffer, f + 1)) /\ Len(From(buffer, f + 1)) = Len(buffer) - f
  <2> DEFINE k == f + 1
  <2>1. k \in 1..(Len(buffer) + 1) /\ k - 1 = f
    BY <1>1, <1>2
  <2>. HIDE DEF k
  <2>2. Holds(arrived, From(buffer, k)) /\ Len(From(buffer, k)) = Len(buffer) - k + 1
    BY <1>1, <2>1, FromHolds
  <2>. QED  BY <1>1, <2>1, <2>2 DEF k
<1>4. printed \in Nat /\ Len(buffer) <= printed
  BY DEF Data
<1>5. Unshuffled(buffer) = printed - f
  BY <1>1, <1>2, <1>4 DEF Unshuffled, F
<1>. QED  BY <1>1, <1>2, <1>3, <1>4, <1>5 DEF F

\* "update display": what is kept is still behind printed, and nothing that was
\* printed before is taken away.
LEMMA DisplayGood ==
    ASSUME NEW n \in 0..MaxChars, NEW b, Holds(n, b), NEW p \in Nat,
           shown \in Chars, stripped \subseteq 1..MaxChars, Display(b, p)
    PROVE  /\ Holds(n, buffer')
           /\ printed' \in Nat /\ Len(buffer') <= printed'
           /\ shown' \in Chars /\ shown' = shown \o From(b, p + 1)
           /\ stripped' \subseteq 1..MaxChars
           /\ wild' \in BOOLEAN
           /\ \A i \in 1..Len(b) : i <= p => b[i] \in Elements(buffer')
           /\ From(b, p + 1) = <<>> => buffer' = b /\ printed' = p
           /\ From(b, p + 1) # <<>> => printed' = Len(buffer')
<1> DEFINE new == From(b, p + 1)
           kept == IF new # <<>> /\ rm_nulls THEN NullStrip(b, p) ELSE b
<1>1. n \in Nat /\ b \in Seq(1..n) /\ Len(b) \in Nat
  BY MatchBufferAssumption DEF Holds
<1>2. /\ shown' = shown \o new /\ buffer' = kept
      /\ printed' = IF new # <<>> THEN Len(kept) ELSE p
      /\ stripped' = stripped \cup (Elements(b) \ Elements(kept))
      /\ wild' = (b # <<>> /\ p > Len(b))
  BY DEF Display
<1>3. new \in Seq(1..n) /\ (new = <<>> => Len(b) <= p)
  <2>1. CASE p + 1 <= Len(b)
    <3> DEFINE k == p + 1
    <3>1. k \in 1..(Len(b) + 1)
      BY <1>1, <2>1
    <3>. HIDE DEF k
    <3>2. Holds(n, From(b, k)) /\ Len(From(b, k)) = Len(b) - k + 1
      BY <1>1, <3>1, FromHolds
    <3>3. From(b, k) # <<>>
      <4>1. Len(From(b, k)) # 0
        BY <1>1, <2>1, <3>2 DEF k
      <4>. QED  BY <4>1, EmptySeq
    <3>. QED  BY <3>2, <3>3 DEF Holds, k
  <2>2. CASE p + 1 > Len(b)
    <3>1. new = <<>>
      BY <1>1, <2>2, SubSeqEmpty DEF From
    <3>2. <<>> \in Seq(1..n)
      BY EmptySeq
    <3>3. Len(b) <= p
      BY <1>1, <2>2
    <3>. QED  BY <3>1, <3>2, <3>3
  <2>. QED  BY <1>1, <2>1, <2>2
<1>. HIDE DEF new
<1>4. Holds(n, kept) /\ \A i \in 1..Len(b) : i <= p => b[i] \in Elements(kept)
  <2>1. CASE new # <<>> /\ rm_nulls
    BY <1>1, <2>1, StripHolds
  <2>2. CASE ~(new # <<>> /\ rm_nulls)
    <3>1. kept = b
      BY <2>2
    <3>2. \A i \in 1..Len(b) : b[i] \in Elements(b)
      BY <1>1 DEF Elements
    <3>. QED  BY <3>1, <3>2
  <2>. QED  BY <2>1, <2>2
<1>5. new = <<>> => kept = b
  OBVIOUS
<1>. HIDE DEF kept
<1>6. Len(kept) \in Nat
  BY <1>4 DEF Holds
<1>7. shown' \in Chars
  <2>1. new \in Chars
    BY <1>3, CharsAre
  <2>. QED  BY <1>2, <2>1, ConcatProperties DEF Chars
<1>8. stripped' \subseteq 1..MaxChars
  <2>1. \A i \in DOMAIN b : b[i] \in 1..MaxChars
    BY <1>1, MatchBufferAssumption
  <2>2. Elements(b) \subseteq 1..MaxChars
    BY <2>1 DEF Elements
  <2>. QED  BY <1>2, <2>2
<1>. QED  BY <1>1, <1>2, <1>3, <1>4, <1>5, <1>6, <1>7, <1>8 DEF new

LEMMA UptoGrows ==
    ASSUME NEW n \in Nat, NEW m \in Nat, NEW new, new = [k \in 1..m |-> n + k]
    PROVE  Upto(n) \o new = Upto(n + m)
<1> DEFINE S == 1..(n + m)
           u == Upto(n)
           w == Upto(n + m)
           c == u \o new
<1>1. u \in Seq(S) /\ Len(u) = n /\ \A k \in 1..n : u[k] = k
  BY DEF Upto
<1>2. w \in Seq(S) /\ Len(w) = n + m /\ \A k \in 1..(n + m) : w[k] = k
  BY DEF Upto
<1>3. new \in Seq(S) /\ Len(new) = m /\ \A k \in 1..m : new[k] = n + k
  OBVIOUS
<1>. HIDE DEF S, u, w
<1>4. c \in Seq(S) /\ Len(c) = n + m
      /\ \A i \in 1..(n + m) : c[i] = IF i <= n THEN u[i] ELSE new[i - n]
  <2>1. /\ c \in Seq(S) /\ Len(c) = Len(u) + Len(new)
        /\ \A i \in 1..(Len(u) + Len(new)) : c[i] = IF i <= Len(u) THEN u[i] ELSE new[i - Len(u)]
    <3>1. u \in Seq(S) /\ new \in Seq(S)
      BY <1>1, <1>3
    <3>. HIDE DEF c
    <3>2. c = u \o new
      BY DEF c
    <3>. QED  BY <3>1, <3>2, ConcatProperties
  <2>2. Len(u) = n /\ Len(new) = m
    BY <1>1, <1>3
  <2>. HIDE DEF c
  <2>. QED  BY <2>1, <2>2
<1>. HIDE DEF c
<1>5. ASSUME NEW i \in 1..(n + m) PROVE c[i] = w[i]
  <2>1. CASE i <= n
    BY <1>1, <1>2, <1>4, <2>1
  <2>2. CASE i > n
    <3> DEFINE j == i - n
    <3>1. j \in 1..m /\ n + j = i
      BY <2>2
    <3>. HIDE DEF j
    <3>2. c[i] = new[j]
      BY <1>4, <2>2 DEF j
    <3>. QED  BY <1>2, <1>3, <3>1, <3>2
  <2>. QED  BY <2>1, <2>2
<1>6. c = w
  BY <1>2, <1>4, <1>5, SeqEqual
<1>. QED  BY <1>6 DEF c, u, w

\* expIRead and expRead with data.
LEMMA ReadDataGood ==
    ASSUME Data, Control, NEW full \in BOOLEAN, ReadData(full), cut' = cut
    PROVE  /\ Data'
           /\ \A i \in 1..Len(Shuffled(buffer)) : Shuffled(buffer)[i] \in Elements(buffer')
<1> DEFINE s == Shuffled(buffer)
           p == Unshuffled(buffer)
           F == Forgotten(buffer)
<1>1. arrived \in Nat /\ arrived \in 0..MaxChars /\ MaxChars \in Nat
  BY MatchBufferAssumption DEF Data
<1>2. /\ F \in Seq(1..arrived) /\ Holds(arrived, s) /\ p \in Nat /\ Len(s) <= p
      /\ Len(s) = Len(buffer) - Len(F) /\ p = printed - Len(F)
  BY ShuffleFacts
<1>3. PICK m \in 0..Asked(s) : /\ arrived + m <= MaxChars /\ arrived' = arrived + m
                               /\ Display(s \o [k \in 1..m |-> arrived + k], p)
  BY DEF ReadData
<1>4. taken' = taken \o F /\ surprised' = (surprised \/ (full /\ F # <<>>))
  BY DEF ReadData
<1>. HIDE DEF s, p, F
<1> DEFINE n == arrived + m
           new == [k \in 1..m |-> arrived + k]
           b == s \o new
<1>5. m \in Nat /\ n \in Nat /\ n \in 0..MaxChars /\ arrived' = n
  <2>1. m \in Int /\ 0 <= m
    OBVIOUS
  <2>. QED  BY <1>1, <1>3, <2>1
<1>6. /\ new \in Seq(1..n) /\ Len(new) = m /\ Holds(n, b) /\ Len(b) = Len(s) + m
      /\ \A i \in 1..(Len(s) + m) : b[i] = IF i <= Len(s) THEN s[i] ELSE new[i - Len(s)]
  <2>1. m \in Nat /\ arrived \in Nat /\ Holds(arrived, s) /\ new = [k \in 1..m |-> arrived + k]
    BY <1>1, <1>2, <1>5
  <2>. HIDE DEF new
  <2>2. /\ new \in Seq(1..(arrived + m)) /\ Len(new) = m
        /\ Holds(arrived + m, s \o new) /\ Len(s \o new) = Len(s) + m
        /\ \A i \in 1..(Len(s) + m) : (s \o new)[i] = IF i <= Len(s) THEN s[i] ELSE new[i - Len(s)]
    BY <2>1, AddedHolds
  <2>. QED  BY <2>2
<1>7. Display(b, p)
  BY <1>3
<1>8. Upto(arrived) \o new = Upto(n)
  BY <1>1, <1>5, UptoGrows
<1>. HIDE DEF n, new
<1>9. Len(s) \in Nat /\ s \in Seq(1..arrived)
  BY <1>2 DEF Holds
<1>10. shown \in Chars /\ taken \in Chars /\ stripped \subseteq 1..MaxChars
       /\ {cut, wild, surprised} \subseteq BOOLEAN
       /\ (~cut => printed = Len(buffer) /\ shown = Upto(arrived))
  BY DEF Data
<1>11. /\ Holds(n, buffer')
       /\ printed' \in Nat /\ Len(buffer') <= printed'
       /\ shown' \in Chars /\ shown' = shown \o From(b, p + 1)
       /\ stripped' \subseteq 1..MaxChars
       /\ wild' \in BOOLEAN
       /\ \A i \in 1..Len(b) : i <= p => b[i] \in Elements(buffer')
       /\ From(b, p + 1) = <<>> => buffer' = b /\ printed' = p
       /\ From(b, p + 1) # <<>> => printed' = Len(buffer')
  <2>. HIDE DEF b
  <2>. QED  BY <1>2, <1>5, <1>6, <1>7, <1>10, DisplayGood
<1>12. taken' \in Chars
  <2>1. F \in Chars
    BY <1>1, <1>2, CharsAre
  <2>. QED  BY <1>4, <1>10, <2>1, ConcatProperties DEF Chars
<1>13. ASSUME ~cut PROVE printed' = Len(buffer') /\ shown' = Upto(n)
  <2>1. p = Len(s)
    BY <1>2, <1>10, <1>13
  <2>2. From(b, p + 1) = new
    <3> DEFINE k == p + 1
               g == From(b, k)
    <3>0. k \in 1..(Len(b) + 1)
      BY <1>5, <1>6, <1>9, <2>1
    <3>1. k = Len(s) + 1
      BY <2>1
    <3>. HIDE DEF k, b
    <3>2. /\ Holds(n, g) /\ Len(g) = Len(b) - k + 1
          /\ \A i \in 1..(Len(b) - k + 1) : g[i] = b[k + i - 1]
      <4>1. n \in Nat /\ Holds(n, b)
        BY <1>5, <1>6
      <4>. QED  BY <3>0, <4>1, FromHolds
    <3>. HIDE DEF g
    <3>3. Len(g) = m
      BY <1>5, <1>6, <1>9, <3>1, <3>2
    <3>4. ASSUME NEW i \in 1..m PROVE g[i] = new[i]
      <4> DEFINE j == k + i - 1
      <4>1. j \in 1..(Len(s) + m) /\ ~(j <= Len(s)) /\ j - Len(s) = i /\ i \in 1..(Len(b) - k + 1)
        BY <1>5, <1>6, <1>9, <3>1
      <4>2. g[i] = b[j]
        BY <3>2, <4>1
      <4>. HIDE DEF j
      <4>. QED  BY <1>6, <4>1, <4>2
    <3>5. g \in Seq(1..n)
      BY <3>2 DEF Holds
    <3>6. g = new
      BY <1>6, <3>3, <3>4, <3>5, SeqEqual
    <3>. QED  BY <3>6 DEF g, k
  <2>3. shown' = Upto(n)
    BY <1>8, <1>10, <1>11, <1>13, <2>2
  <2>4. CASE new = <<>>
    <3>1. m = 0
      BY <1>6, <2>4, EmptySeq
    <3>2. buffer' = b /\ printed' = p
      BY <1>11, <2>2, <2>4
    <3>. HIDE DEF b
    <3>. QED  BY <1>6, <1>9, <2>1, <2>3, <3>1, <3>2
  <2>5. CASE new # <<>>
    BY <1>11, <2>2, <2>3, <2>5
  <2>. QED  BY <2>4, <2>5
<1>14. \A i \in 1..Len(s) : s[i] \in Elements(buffer')
  <2>. TAKE i \in 1..Len(s)
  <2>1. i \in 1..Len(b) /\ i <= p /\ i \in 1..(Len(s) + m) /\ i <= Len(s)
    BY <1>2, <1>5, <1>6, <1>9
  <2>2. b[i] = s[i]
    BY <1>6, <2>1
  <2>. QED  BY <1>11, <2>1, <2>2
<1>15. surprised' \in BOOLEAN /\ cut' \in BOOLEAN
  BY <1>4, <1>10
<1>16. Data'
  BY <1>5, <1>10, <1>11, <1>12, <1>13, <1>15 DEF Data
<1>. QED  BY <1>14, <1>16 DEF s

LEMMA EmptyHolds == ASSUME NEW n \in Nat PROVE Holds(n, <<>>) /\ Len(<<>>) = 0
<1>1. <<>> \in Seq(1..n) /\ Len(<<>>) = 0
  OBVIOUS
<1>. QED  BY <1>1 DEF Holds, Rises

\* The read that finds the end of file.
LEMMA ReadEofGood ==
    ASSUME Data, Control, NEW full \in BOOLEAN, ReadEof(full), cut' = cut
    PROVE  Data'
<1> DEFINE s == Shuffled(buffer)
           p == Unshuffled(buffer)
           F == Forgotten(buffer)
<1>1. arrived \in Nat /\ arrived \in 0..MaxChars /\ buffer \in Seq(1..arrived)
  BY MatchBufferAssumption DEF Data, Holds
<1>2. /\ F \in Seq(1..arrived) /\ Holds(arrived, s) /\ p \in Nat /\ Len(s) <= p
      /\ Len(s) = Len(buffer) - Len(F) /\ p = printed - Len(F)
  BY ShuffleFacts
<1>3. PICK transfer \in BOOLEAN :
         /\ taken' = taken \o IF transfer THEN buffer ELSE F
         /\ buffer' = IF transfer THEN <<>> ELSE s
         /\ printed' = p - IF transfer THEN Len(s) ELSE 0
  BY DEF ReadEof
<1>4. /\ surprised' = (surprised \/ (full /\ F # <<>>))
      /\ arrived' = arrived /\ shown' = shown /\ stripped' = stripped /\ wild' = wild
  BY DEF ReadEof
<1>. HIDE DEF s, p, F
<1>5. shown \in Chars /\ taken \in Chars /\ stripped \subseteq 1..MaxChars
      /\ {cut, wild, surprised} \subseteq BOOLEAN
      /\ (~cut => printed = Len(buffer) /\ shown = Upto(arrived))
  BY DEF Data
<1>6. Len(s) \in Nat
  BY <1>2 DEF Holds
<1>7. taken' \in Chars
  <2> DEFINE t == IF transfer THEN buffer ELSE F
  <2>1. t \in Chars
    BY <1>1, <1>2, CharsAre
  <2>2. taken' = taken \o t
    BY <1>3
  <2>. HIDE DEF t
  <2>. QED  BY <1>5, <2>1, <2>2, ConcatProperties DEF Chars
<1>8. Holds(arrived, buffer') /\ Len(buffer') \in Nat
  BY <1>1, <1>2, <1>3, <1>6, EmptyHolds
<1>9. printed' \in Nat /\ Len(buffer') <= printed'
  BY <1>2, <1>3, <1>6
<1>10. ~cut => printed' = Len(buffer')
  BY <1>2, <1>3, <1>5, <1>6
<1>11. surprised' \in BOOLEAN
  BY <1>4, <1>5
<1>. QED  BY <1>1, <1>4, <1>5, <1>7, <1>8, <1>9, <1>10, <1>11 DEF Data

\* expMatchProcess.
LEMMA ProcessGood ==
    ASSUME Data, NEW n \in 0..Len(buffer), NEW transfer \in BOOLEAN,
           Process(n, transfer), cut' = cut
    PROVE  Data'
<1>1. arrived \in Nat /\ arrived \in 0..MaxChars /\ buffer \in Seq(1..arrived) /\ Holds(arrived, buffer)
      /\ Len(buffer) \in Nat
  BY MatchBufferAssumption DEF Data, Holds
<1>2. /\ taken' = IF transfer THEN taken \o SubSeq(buffer, 1, n) ELSE taken
      /\ buffer' = IF transfer THEN From(buffer, n + 1) ELSE buffer
      /\ printed' = IF transfer THEN printed - n ELSE printed
      /\ arrived' = arrived /\ shown' = shown /\ stripped' = stripped
      /\ wild' = wild /\ surprised' = surprised
  BY DEF Process
<1>3. /\ shown \in Chars /\ taken \in Chars /\ stripped \subseteq 1..MaxChars
      /\ {cut, wild, surprised} \subseteq BOOLEAN
      /\ printed \in Nat /\ Len(buffer) <= printed
      /\ (~cut => printed = Len(buffer) /\ shown = Upto(arrived))
  BY DEF Data
<1>4. SubSeq(buffer, 1, n) \in Chars
  BY <1>1, FirstType, CharsAre
<1>5. Holds(arrived, From(buffer, n + 1)) /\ Len(From(buffer, n + 1)) = Len(buffer) - n
  <2> DEFINE k == n + 1
  <2>1. k \in 1..(Len(buffer) + 1) /\ n \in Nat
    BY <1>1
  <2>. HIDE DEF k
  <2>2. Holds(arrived, From(buffer, k)) /\ Len(From(buffer, k)) = Len(buffer) - k + 1
    BY <1>1, <2>1, FromHolds
  <2>. QED  BY <1>1, <2>1, <2>2 DEF k
<1>6. taken' \in Chars
  BY <1>2, <1>3, <1>4, ConcatProperties DEF Chars
<1>7. Holds(arrived, buffer') /\ printed' \in Nat /\ Len(buffer') <= printed'
      /\ (~cut => printed' = Len(buffer'))
  BY <1>1, <1>2, <1>3, <1>5
<1>. QED  BY <1>1, <1>2, <1>3, <1>6, <1>7 DEF Data

\* expAdjust, which alone may make printed too large.
LEMMA AdjustGood ==
    ASSUME Data, Control, Adjusted, UNCHANGED rest_of_data
    PROVE  Data' /\ msize' \in {Msize(u) : u \in Sizes}
<1>1. arrived \in Nat /\ buffer \in Seq(1..arrived) /\ Holds(arrived, buffer) /\ Len(buffer) \in Nat
  BY MatchBufferAssumption DEF Data, Holds
<1>2. /\ buffer' = From(buffer, Excess + 1)
      /\ msize' = Msize(umsize)
      /\ cut' = (cut \/ Excess > 0)
  BY DEF Adjusted
<1>3. umsize \in Nat \ {0} /\ umsize \in Sizes
  BY MatchBufferAssumption DEF Control
<1>4. Msize(umsize) \in Nat
  BY <1>3 DEF Msize
<1>5. Excess \in 0..Len(buffer)
  BY <1>1, <1>4 DEF Excess
<1> DEFINE k == Excess + 1
           b == From(buffer, k)
<1>6. k \in 1..(Len(buffer) + 1)
  BY <1>1, <1>5
<1>7. Excess = 0 => b = buffer
  BY <1>1, SubSeqFull DEF From
<1>. HIDE DEF k
<1>8. Holds(arrived, b) /\ Len(b) = Len(buffer) - k + 1
  BY <1>1, <1>6, FromHolds
<1>9. buffer' = b
  BY <1>2 DEF k
<1>. HIDE DEF b
<1>10. /\ arrived' = arrived /\ printed' = printed /\ shown' = shown /\ taken' = taken
       /\ stripped' = stripped /\ wild' = wild /\ surprised' = surprised
  BY DEF rest_of_data
<1>11. Len(b) <= Len(buffer)
  BY <1>1, <1>6, <1>8
<1>12. ~cut' => ~cut /\ buffer' = buffer
  <2>1. ~cut' => ~cut /\ ~(Excess > 0)
    BY <1>2, Zenon
  <2>2. ~(Excess > 0) => Excess = 0
    BY <1>1, <1>5
  <2>. QED  BY <1>7, <1>9, <2>1, <2>2
<1>13. Len(buffer') <= printed
  BY <1>1, <1>8, <1>6, <1>9, <1>11 DEF Data
<1>14. cut' \in BOOLEAN
  BY <1>2 DEF Data
<1>15. Data'
  BY <1>8, <1>9, <1>10, <1>12, <1>13, <1>14 DEF Data
<1>. QED  BY <1>2, <1>3, <1>15

\* expRead, when old data is looked at again.
LEMMA PollOldGood ==
    ASSUME Data, Display(buffer, printed), UNCHANGED <<arrived, taken, surprised, cut>>
    PROVE  Data'
<1>1. /\ arrived \in 0..MaxChars /\ Holds(arrived, buffer) /\ printed \in Nat
      /\ shown \in Chars /\ stripped \subseteq 1..MaxChars
      /\ Len(buffer) <= printed
  BY DEF Data
<1>2. /\ Holds(arrived, buffer')
      /\ printed' \in Nat /\ Len(buffer') <= printed'
      /\ shown' \in Chars /\ shown' = shown \o From(buffer, printed + 1)
      /\ stripped' \subseteq 1..MaxChars
      /\ wild' \in BOOLEAN
      /\ From(buffer, printed + 1) = <<>> => buffer' = buffer /\ printed' = printed
  BY <1>1, DisplayGood
<1>3. From(buffer, printed + 1) = <<>>
  <2>1. Len(buffer) \in Nat
    BY <1>1 DEF Holds
  <2>. QED  BY <1>1, <2>1, SubSeqEmpty DEF From
<1>4. buffer' = buffer /\ printed' = printed /\ shown' = shown
  BY <1>1, <1>2, <1>3 DEF Chars
<1>. QED  BY <1>2, <1>4 DEF Data
-----------------------------------------------------------------------------
(* What the operations do to the activations and the handlers.             *)

Pcs == {"begin", "poll", "eval", "body"}

LEMMA NewActType ==
    ASSUME NEW kind \in {"expect", "handler", "script"}, NEW full \in BOOLEAN,
           NEW pc \in Pcs, NEW walk \in BOOLEAN
    PROVE  NewAct(kind, full, pc) \in Activation
           /\ [NewAct(kind, full, pc) EXCEPT !.rest = walk] \in Activation
<1>1. <<>> \in Chars
  BY EmptySeq DEF Chars
<1>. QED  BY <1>1 DEF NewAct, Activation, Pcs

\* An activation that goes on.
LEMMA ActMoves ==
    ASSUME NEW f \in Activation, NEW pc \in Pcs, NEW seen \in Chars, NEW mine \in BOOLEAN
    PROVE  /\ [f EXCEPT !.pc = pc] \in Activation
           /\ [f EXCEPT !.pc = pc, !.seen = seen] \in Activation
           /\ [f EXCEPT !.pc = pc, !.seen = seen, !.mine = mine] \in Activation
           /\ [f EXCEPT !.pc = pc, !.mine = mine, !.seen = seen] \in Activation
           /\ [f EXCEPT !.mine = mine] \in Activation
           /\ [f EXCEPT !.rest = mine] \in Activation
BY DEF Activation, Pcs

LEMMA Pushed ==
    ASSUME NEW f \in Activation, NEW s \in Seq(Activation)
    PROVE  <<f>> \o s \in Seq(Activation)
<1>1. <<f>> \in Seq(Activation)
  OBVIOUS
<1>. QED  BY <1>1, ConcatProperties

LEMMA Popped ==
    ASSUME stack \in Seq(Activation), stack # <<>>
    PROVE  Head(stack) \in Activation /\ Below \in Seq(Activation)
BY HeadTailProperties DEF Below

LEMMA EachMoves ==
    ASSUME NEW s \in Seq(Activation)
    PROVE  NewKey(s) \in Seq(Activation) /\ Noted(s) \in Seq(Activation)
           /\ AfterAdjust(s) \in Seq(Activation)
<1> DEFINE key(k) == [s[k] EXCEPT !.mine = FALSE]
           note(k) == [s[k] EXCEPT !.rest = FALSE]
<1>1. Len(s) \in Nat /\ DOMAIN s = 1..Len(s)
  OBVIOUS
<1>2. \A k \in 1..Len(s) : key(k) \in Activation /\ note(k) \in Activation
  <2>. TAKE k \in 1..Len(s)
  <2>1. s[k] \in Activation
    OBVIOUS
  <2>. QED  BY <2>1 DEF Activation
<1>3. NewKey(s) = [k \in 1..Len(s) |-> key(k)] /\ Noted(s) = [k \in 1..Len(s) |-> note(k)]
  BY <1>1 DEF NewKey, Noted
<1>. HIDE DEF key, note
<1>4. /\ [k \in 1..Len(s) |-> key(k)] \in Seq(Activation)
      /\ [k \in 1..Len(s) |-> note(k)] \in Seq(Activation)
  BY <1>1, <1>2, IsASeq
<1>. QED  BY <1>3, <1>4 DEF AfterAdjust

LEMMA HandlersMove ==
    ASSUME NEW h \in Seq({"fg", "bg"}), NEW x \in {"fg", "bg"}
    PROVE  Without(h, x) \in Seq({"fg", "bg"}) /\ <<x>> \o h \in Seq({"fg", "bg"})
<1> DEFINE S == {"fg", "bg"}
<1>1. <<x>> \in Seq(S)
  OBVIOUS
<1>. HIDE DEF S
<1>2. h \in Seq(S)
  BY DEF S
<1>3. Without(h, x) \in Seq(S)
  BY <1>2, WithoutProperties
<1>4. <<x>> \o h \in Seq(S)
  BY <1>1, <1>2, ConcatProperties
<1>. QED  BY <1>3, <1>4 DEF S

\* The activations of commands that go on, return or begin.
LEMMA GoesOn ==
    ASSUME stack \in Seq(Activation), stack # <<>>, NEW pc \in Pcs
    PROVE  Afresh(pc) \o Below \in Seq(Activation)
<1>1. Head(stack) \in Activation /\ Below \in Seq(Activation) /\ <<>> \in Chars
  BY Popped, EmptySeq DEF Chars
<1>. QED  BY <1>1, ActMoves, Pushed DEF Afresh
-----------------------------------------------------------------------------
(* The steps.                                                              *)

LEMMA DataFrame == ASSUME Data, UNCHANGED <<data, cut>> PROVE Data'
BY DEF Data, data, rest_of_data

LEMMA InitGood == BufferInit => IInv
<1>. SUFFICES ASSUME BufferInit PROVE IInv
  OBVIOUS
<1>1. <<>> \in Chars /\ <<>> \in Seq({"fg", "bg"}) /\ <<>> \in Seq(Activation) /\ MaxChars \in Nat
  BY EmptySeq, MatchBufferAssumption DEF Chars
<1>2. Holds(0, <<>>) /\ Len(<<>>) = 0
  BY EmptyHolds
<1>3. Upto(0) = <<>>
  <2>1. Upto(0) \in Seq(Nat) /\ Len(Upto(0)) = 0
    BY DEF Upto
  <2>. QED  BY <2>1, EmptySeq
<1>4. Data
  <2>1. /\ arrived = 0 /\ buffer = <<>> /\ printed = 0 /\ shown = <<>> /\ taken = <<>>
        /\ stripped = {} /\ cut = FALSE /\ wild = FALSE /\ surprised = FALSE
    BY DEF BufferInit
  <2>2. {cut, wild, surprised} \subseteq BOOLEAN
    BY <2>1
  <2>. QED  BY <1>1, <1>2, <1>3, <2>1, <2>2 DEF Data
<1>5. Control
  BY <1>1 DEF BufferInit, Control
<1>. QED  BY <1>4, <1>5 DEF IInv

\* Commands that set a number, or validate a spawn id.
LEMMA CommandGood ==
    ASSUME IInv,
           \/ \E u \in Sizes : MatchMax(u)
           \/ \E on \in BOOLEAN : RemoveNulls(on)
           \/ Validate \/ Undeclare
    PROVE  IInv'
<1>0. Data /\ Control
  BY DEF IInv
<1>1. ASSUME NEW u \in Sizes, MatchMax(u) PROVE IInv'
  <2>1. Data'
    BY <1>0, <1>1, DataFrame DEF MatchMax
  <2>2. Control'
    BY <1>0, <1>1 DEF MatchMax, Control, data, rest_of_data
  <2>. QED  BY <2>1, <2>2 DEF IInv
<1>2. ASSUME NEW on \in BOOLEAN, RemoveNulls(on) PROVE IInv'
  <2>1. Data'
    BY <1>0, <1>2, DataFrame DEF RemoveNulls
  <2>2. Control'
    BY <1>0, <1>2 DEF RemoveNulls, Control, data, rest_of_data
  <2>. QED  BY <2>1, <2>2 DEF IInv
<1>3. CASE Validate
  <2>1. Data' /\ msize' \in {Msize(u) : u \in Sizes}
    BY <1>0, <1>3, AdjustGood DEF Validate
  <2>2. stack' \in Seq(Activation)
    BY <1>0, <1>3, EachMoves DEF Validate, Control
  <2>3. lowered' \in BOOLEAN
    BY <1>0, <1>3 DEF Validate, Adjusted, Control
  <2>4. Control'
    BY <1>0, <1>3, <2>1, <2>2, <2>3 DEF Validate, Control, rest_of_data
  <2>. QED  BY <2>1, <2>4 DEF IInv
<1>4. CASE Undeclare
  <2>1. Data' /\ msize' \in {Msize(u) : u \in Sizes}
    BY <1>0, <1>4, AdjustGood DEF Undeclare
  <2>2. stack' \in Seq(Activation)
    BY <1>0, <1>4, EachMoves DEF Undeclare, Control
  <2>3. lowered' \in BOOLEAN
    BY <1>0, <1>4 DEF Undeclare, Adjusted, Control
  <2>4. handlers' \in Seq({"fg", "bg"})
    BY <1>0, <1>4, HandlersMove DEF Undeclare, Control
  <2>5. <<>> \in Chars
    BY EmptySeq DEF Chars
  <2>6. Control'
    BY <1>0, <1>4, <2>1, <2>2, <2>3, <2>4, <2>5 DEF Undeclare, Control, rest_of_data
  <2>. QED  BY <2>1, <2>6 DEF IInv
<1>. QED  BY <1>1, <1>2, <1>3, <1>4

LEMMA ExpectGood == ASSUME IInv, NEW full \in BOOLEAN, Expect(full) PROVE IInv'
<1>0. Data /\ Control
  BY DEF IInv
<1>1. Data' /\ msize' \in {Msize(u) : u \in Sizes}
  BY <1>0, AdjustGood DEF Expect
<1>2. stack' \in Seq(Activation)
  <2> DEFINE f == NewAct("expect", full, "begin")
  <2>1. f \in Activation
    BY NewActType DEF Pcs
  <2>2. AfterAdjust(stack) \in Seq(Activation)
    BY <1>0, EachMoves DEF Control
  <2>3. stack' = <<f>> \o AfterAdjust(stack)
    BY DEF Expect
  <2>. HIDE DEF f
  <2>. QED  BY <2>1, <2>2, <2>3, Pushed
<1>3. lowered' \in BOOLEAN
  BY <1>0 DEF Expect, Adjusted, Control
<1>4. Control'
  BY <1>0, <1>1, <1>2, <1>3 DEF Expect, Control, rest_of_data
<1>. QED  BY <1>1, <1>4 DEF IInv

LEMMA DeclareGood == ASSUME IInv, NEW full \in BOOLEAN, Declare(full) PROVE IInv'
<1>0. Data /\ Control
  BY DEF IInv
<1>1. Data' /\ msize' \in {Msize(u) : u \in Sizes}
  BY <1>0, AdjustGood DEF Declare
<1>2. AfterAdjust(stack) \in Seq(Activation)
  BY <1>0, EachMoves DEF Control
<1>3. stack' \in Seq(Activation)
  <2> DEFINE f == NewAct("handler", full, "eval")
  <2>1. f \in Activation
    BY NewActType DEF Pcs
  <2>2. stack' \in {AfterAdjust(stack), <<f>> \o AfterAdjust(stack)}
    BY DEF Declare
  <2>. HIDE DEF f
  <2>. QED  BY <1>2, <2>1, <2>2, Pushed
<1>4. handlers' \in Seq({"fg", "bg"})
  <2>1. handlers' \in {handlers, <<"bg">> \o handlers}
    BY DEF Declare
  <2>. QED  BY <1>0, <2>1, HandlersMove DEF Control
<1>5. bg' \in [status : {"unarmed", "armed", "blocked"}, full : BOOLEAN, seen : Chars]
  BY <1>0 DEF Declare, Control
<1>6. lowered' \in BOOLEAN
  BY <1>0 DEF Declare, Adjusted, Control
<1>7. Control'
  BY <1>0, <1>1, <1>3, <1>4, <1>5, <1>6 DEF Declare, Control, rest_of_data
<1>. QED  BY <1>1, <1>7 DEF IInv

LEMMA HeadFields ==
    ASSUME IInv, stack # <<>>
    PROVE  Head(stack).full \in BOOLEAN /\ Head(stack).rest \in BOOLEAN
<1>1. Head(stack) \in Activation
  BY Popped DEF IInv, Control
<1>. QED  BY <1>1 DEF Activation

\* The background handler begins.
LEMMA EnterGood ==
    ASSUME IInv, NEW s \in Seq(Activation), NEW walk \in BOOLEAN,
           NEW armed \in Seq({"fg", "bg"}), Enter(s, walk, armed), UNCHANGED <<size, force_read>>
    PROVE  IInv'
<1>0. Data /\ Control /\ bg.full \in BOOLEAN
  BY DEF IInv, Control
<1>1. cut' = cut
  BY DEF size
<1>2. Data'
  BY <1>0, <1>1, ReadDataGood, ReadEofGood DEF Enter
<1>3. stack' \in Seq(Activation)
  <2> DEFINE f == [NewAct("handler", bg.full, "eval") EXCEPT !.rest = walk]
             g == NewAct("handler", bg.full, "body")
  <2>1. f \in Activation /\ g \in Activation
    BY <1>0, NewActType DEF Pcs
  <2>2. stack' \in {<<f>> \o s, <<g>> \o s}
    BY DEF Enter
  <2>. HIDE DEF f, g
  <2>. QED  BY <2>1, <2>2, Pushed
<1>4. handlers' \in Seq({"fg", "bg"})
  BY HandlersMove DEF Enter
<1>5. bg' \in [status : {"unarmed", "armed", "blocked"}, full : BOOLEAN, seen : Chars]
  <2>1. <<>> \in Chars
    BY EmptySeq DEF Chars
  <2>. QED  BY <1>0, <2>1 DEF Enter, Control
<1>6. open' \in BOOLEAN /\ noted' \in BOOLEAN
  BY <1>0 DEF Enter, Control
<1>7. Control'
  BY <1>0, <1>3, <1>4, <1>5, <1>6 DEF Control, size
<1>. QED  BY <1>2, <1>7 DEF IInv

LEMMA ReadableGood ==
    ASSUME IInv, NEW s \in Seq(Activation), NEW armed \in Seq({"fg", "bg"}),
           Notify(s, armed), UNCHANGED <<size, force_read>>
    PROVE  IInv'
<1> DEFINE rest == Without(armed, "fg")
           walk == "fg" \in Elements(armed)
<1>1. rest \in Seq({"fg", "bg"}) /\ Noted(s) \in Seq(Activation) /\ walk \in BOOLEAN
  BY HandlersMove, EachMoves
<1>2. \/ Enter(s, walk, armed)
      \/ Enter(Noted(s), FALSE, rest)
      \/ /\ noted' = TRUE
         /\ handlers' = rest
         /\ stack' = Noted(s)
         /\ UNCHANGED <<arrived, buffer, printed, shown, taken, stripped, wild, surprised, open, bg>>
  BY DEF Notify
<1>. HIDE DEF rest, walk
<1>3. CASE Enter(s, walk, armed) \/ Enter(Noted(s), FALSE, rest)
  BY <1>1, <1>3, EnterGood
<1>4. CASE /\ noted' = TRUE
           /\ handlers' = rest
           /\ stack' = Noted(s)
           /\ UNCHANGED <<arrived, buffer, printed, shown, taken, stripped, wild, surprised, open, bg>>
  <2>1. Data'
    BY <1>4 DEF IInv, Data, size
  <2>2. Control'
    BY <1>1, <1>4 DEF IInv, Control, size
  <2>. QED  BY <2>1, <2>2 DEF IInv
<1>. QED  BY <1>2, <1>3, <1>4

LEMMA ArmedType == ASSUME Control PROVE Armed \in Seq({"fg", "bg"})
BY HandlersMove DEF Armed, Control

LEMMA EventGood == ASSUME IInv, Event \/ OtherEvent \/ OtherEventEnds PROVE IInv'
<1>0. Data /\ Control /\ Armed \in Seq({"fg", "bg"})
  BY ArmedType DEF IInv
<1>1. CASE Event
  <2>1. stack \in Seq(Activation) /\ handlers \in Seq({"fg", "bg"})
    BY <1>0 DEF Control
  <2>2. Notify(stack, Armed) \/ Notify(stack, handlers)
    BY <1>1 DEF Event
  <2>3. UNCHANGED <<size, force_read>>
    BY <1>1 DEF Event
  <2>. QED  BY <1>0, <2>1, <2>2, <2>3, ReadableGood
<1>2. CASE OtherEvent
  <2>1. Data'
    BY <1>0, <1>2, DataFrame DEF OtherEvent, size
  <2>2. stack' \in Seq(Activation)
    <3> DEFINE f == NewAct("script", FALSE, "body")
    <3>1. f \in Activation
      BY NewActType DEF Pcs
    <3>2. stack' = <<f>> \o stack
      BY <1>2 DEF OtherEvent
    <3>. HIDE DEF f
    <3>. QED  BY <1>0, <3>1, <3>2, Pushed DEF Control
  <2>3. Control'
    BY <1>0, <1>2, <2>2 DEF OtherEvent, Control, data, rest_of_data, size
  <2>. QED  BY <2>1, <2>3 DEF IInv
<1>3. CASE OtherEventEnds
  <2>1. Data'
    BY <1>0, <1>3, DataFrame DEF OtherEventEnds, size
  <2>2. stack' \in Seq(Activation)
    BY <1>0, <1>3, Popped DEF OtherEventEnds, Top, Control
  <2>3. Control'
    BY <1>0, <1>3, <2>2 DEF OtherEventEnds, Control, data, rest_of_data, size
  <2>. QED  BY <2>1, <2>3 DEF IInv
<1>. QED  BY <1>1, <1>2, <1>3

LEMMA PollOldIsGood == ASSUME IInv, PollOld PROVE IInv'
<1>0. Data /\ Control /\ stack # <<>>
  BY DEF IInv, PollOld, Polling
<1>1. Data'
  BY <1>0, PollOldGood DEF PollOld, size
<1>2. stack' \in Seq(Activation)
  <2> DEFINE f == [Head(stack) EXCEPT !.pc = "eval", !.seen = <<>>, !.mine = TRUE]
  <2>1. Head(stack) \in Activation /\ Below \in Seq(Activation) /\ <<>> \in Chars
    BY <1>0, Popped, EmptySeq DEF Control, Chars
  <2>2. f \in Activation
    BY <2>1, ActMoves DEF Pcs
  <2>3. NewKey(Below) \in Seq(Activation)
    BY <2>1, EachMoves
  <2>4. stack' = <<f>> \o NewKey(Below)
    BY DEF PollOld
  <2>. HIDE DEF f
  <2>. QED  BY <2>2, <2>3, <2>4, Pushed
<1>3. force_read' \in BOOLEAN
  BY DEF PollOld
<1>4. Control'
  BY <1>0, <1>2, <1>3 DEF PollOld, Control, size
<1>. QED  BY <1>1, <1>4 DEF IInv

LEMMA PollNewGood == ASSUME IInv, PollNew PROVE IInv'
<1>0. Data /\ Control /\ stack # <<>> /\ Head(stack).full \in BOOLEAN
  BY HeadFields DEF IInv, PollNew, Polling
<1>1. Data'
  BY <1>0, ReadDataGood, ReadEofGood DEF PollNew, size
<1>2. stack' \in Seq(Activation)
  BY <1>0, GoesOn DEF PollNew, Control, Pcs
<1>3. open' \in BOOLEAN /\ noted' \in BOOLEAN
  BY <1>0 DEF PollNew, Control
<1>4. handlers' \in Seq({"fg", "bg"})
  <2>1. handlers' \in {handlers, <<>>}
    BY DEF PollNew
  <2>2. <<>> \in Seq({"fg", "bg"})
    BY EmptySeq
  <2>. QED  BY <1>0, <2>1, <2>2 DEF Control
<1>5. Control'
  BY <1>0, <1>2, <1>3, <1>4 DEF PollNew, Control, size
<1>. QED  BY <1>1, <1>5 DEF IInv

LEMMA BufferType == ASSUME Data PROVE buffer \in Chars /\ Len(buffer) \in Nat
<1>1. arrived \in 0..MaxChars /\ buffer \in Seq(1..arrived)
  BY DEF Data, Holds
<1>. QED  BY <1>1, CharsAre

\* What an expect does between its reads leaves the data alone.
LEMMA TurnGood ==
    ASSUME IInv, PollClosed \/ Timeout \/ NoMatch \/ BodyEnds
    PROVE  IInv'
<1>0. Data /\ Control /\ stack # <<>>
  BY DEF IInv, PollClosed, Timeout, NoMatch, BodyEnds, Top
<1>1. UNCHANGED <<data, size, open, bg>>
  BY DEF PollClosed, Timeout, NoMatch, BodyEnds
<1>2. Data'
  BY <1>0, <1>1, DataFrame DEF size
<1>3. Head(stack) \in Activation /\ Below \in Seq(Activation) /\ <<>> \in Chars
  BY <1>0, Popped, EmptySeq DEF Control, Chars
<1>4. stack' \in Seq(Activation)
  <2> DEFINE f == [Head(stack) EXCEPT !.pc = "poll", !.seen = buffer]
             g == [Head(stack) EXCEPT !.pc = "begin", !.mine = FALSE, !.seen = <<>>]
  <2>1. f \in Activation /\ g \in Activation
    BY <1>0, <1>3, ActMoves, BufferType DEF Pcs
  <2>2. Afresh("body") \o Below \in Seq(Activation)
    BY <1>0, GoesOn DEF Control, Pcs
  <2>3. stack' \in {Below, Afresh("body") \o Below, <<f>> \o Below, <<g>> \o Below}
    BY DEF PollClosed, Timeout, NoMatch, BodyEnds
  <2>. HIDE DEF f, g
  <2>. QED  BY <1>3, <2>1, <2>2, <2>3, Pushed
<1>5. handlers' \in Seq({"fg", "bg"})
  <2>1. handlers' \in {handlers, Armed}
    BY DEF PollClosed, Timeout, NoMatch, BodyEnds
  <2>. QED  BY <1>0, <2>1, ArmedType DEF Control
<1>6. force_read' \in BOOLEAN
  BY <1>0 DEF PollClosed, Timeout, NoMatch, BodyEnds, Control
<1>7. Control'
  BY <1>0, <1>1, <1>4, <1>5, <1>6 DEF Control, data, rest_of_data, size
<1>. QED  BY <1>2, <1>7 DEF IInv

LEMMA MatchesGood == ASSUME IInv, Matches PROVE IInv'
<1>0. Data /\ Control /\ stack # <<>>
  BY DEF IInv, Matches, Top
<1>1. PICK n \in 0..Len(buffer), transfer \in BOOLEAN : Process(n, transfer)
  BY DEF Matches
<1>2. Data'
  BY <1>0, <1>1, ProcessGood DEF Matches, size
<1>3. stack' \in Seq(Activation)
  BY <1>0, GoesOn DEF Matches, Control, Pcs
<1>4. noted' = noted
  BY <1>1 DEF Process
<1>5. Control'
  BY <1>0, <1>3, <1>4 DEF Matches, Control, size
<1>. QED  BY <1>2, <1>5 DEF IInv

LEMMA ReturnGood ==
    ASSUME IInv, stack # <<>>, HandlerReturn
    PROVE  /\ stack' \in Seq(Activation)
           /\ handlers' \in Seq({"fg", "bg"})
           /\ noted' \in BOOLEAN
           /\ bg' \in [status : {"unarmed", "armed", "blocked"}, full : BOOLEAN, seen : Chars]
<1>0. Data /\ Control /\ Head(stack).rest \in BOOLEAN /\ Below \in Seq(Activation)
  BY HeadFields, Popped DEF IInv, Control
<1>1. stack' \in Seq(Activation)
  BY <1>0, EachMoves DEF HandlerReturn
<1>2. handlers' \in Seq({"fg", "bg"})
  <2> DEFINE h == IF Head(stack).rest THEN Without(handlers, "fg") ELSE handlers
  <2>1. h \in Seq({"fg", "bg"})
    BY <1>0, HandlersMove DEF Control
  <2>2. handlers' = <<"bg">> \o h
    BY DEF HandlerReturn
  <2>. HIDE DEF h
  <2>. QED  BY <2>1, <2>2, HandlersMove
<1>3. noted' \in BOOLEAN
  BY <1>0 DEF HandlerReturn, Control
<1>4. bg' \in [status : {"unarmed", "armed", "blocked"}, full : BOOLEAN, seen : Chars]
  BY <1>0, BufferType DEF HandlerReturn, Control
<1>. QED  BY <1>1, <1>2, <1>3, <1>4

LEMMA BackgroundGood ==
    ASSUME IInv, NoMatchInBackground \/ BodyEndsInBackground
    PROVE  IInv'
<1>0. Data /\ Control /\ stack # <<>>
  BY DEF IInv, NoMatchInBackground, BodyEndsInBackground, Top
<1>1. UNCHANGED <<arrived, buffer, printed, shown, taken, stripped, wild, surprised,
                  size, force_read, open>>
  BY DEF NoMatchInBackground, BodyEndsInBackground
<1>2. Data'
  BY <1>0, <1>1 DEF Data, size
<1>3. \/ HandlerReturn
      \/ UNCHANGED <<noted, handlers, bg>> /\ stack' \in {Below, Afresh("eval") \o Below}
  BY DEF NoMatchInBackground, BodyEndsInBackground
<1>4. Below \in Seq(Activation) /\ Afresh("eval") \o Below \in Seq(Activation)
  BY <1>0, Popped, GoesOn DEF Control, Pcs
<1>5. Control'
  <2>1. CASE HandlerReturn
    <3>1. /\ stack' \in Seq(Activation)
          /\ handlers' \in Seq({"fg", "bg"})
          /\ noted' \in BOOLEAN
          /\ bg' \in [status : {"unarmed", "armed", "blocked"}, full : BOOLEAN, seen : Chars]
      BY <1>0, <2>1, ReturnGood
    <3>. QED  BY <1>0, <1>1, <3>1 DEF Control, size
  <2>2. CASE UNCHANGED <<noted, handlers, bg>> /\ stack' \in {Below, Afresh("eval") \o Below}
    BY <1>0, <1>1, <1>4, <2>2 DEF Control, size
  <2>. QED  BY <1>3, <2>1, <2>2
<1>. QED  BY <1>2, <1>5 DEF IInv

\* IInv is an inductive invariant.
LEMMA NextGood == IInv /\ [BufferNext]_bufferVars => IInv'
<1>. SUFFICES ASSUME IInv, [BufferNext]_bufferVars PROVE IInv'
  OBVIOUS
<1>1. CASE UNCHANGED bufferVars
  BY <1>1 DEF IInv, Data, Control, bufferVars, data, rest_of_data, size
<1>2. CASE BufferNext
  <2>1. ASSUME NEW full \in BOOLEAN, Expect(full) \/ Declare(full) PROVE IInv'
    BY <2>1, ExpectGood, DeclareGood
  <2>2. CASE (\E u \in Sizes : MatchMax(u)) \/ (\E on \in BOOLEAN : RemoveNulls(on))
             \/ Validate \/ Undeclare
    BY <2>2, CommandGood
  <2>3. CASE Event \/ OtherEvent \/ OtherEventEnds
    BY <2>3, EventGood
  <2>4. CASE PollOld \/ PollNew
    BY <2>4, PollOldIsGood, PollNewGood
  <2>5. CASE PollClosed \/ Timeout \/ NoMatch \/ BodyEnds
    BY <2>5, TurnGood
  <2>6. CASE Matches \/ NoMatchInBackground \/ BodyEndsInBackground
    BY <2>6, MatchesGood, BackgroundGood
  <2>. QED  BY <1>2, <2>1, <2>2, <2>3, <2>4, <2>5, <2>6 DEF BufferNext, Moves
<1>. QED  BY <1>1, <1>2

LEMMA Invariance == BufferSpec => []IInv
<1>. QED  BY InitGood, NextGood, PTL DEF BufferSpec

\* Every variable always has its type; printed, from which the shuffle, a match
\* and the end of file subtract, is never negative.
THEOREM TypeCorrect == BufferSpec => []BufferTypeOK
<1>1. IInv => BufferTypeOK
  <2>. SUFFICES ASSUME IInv PROVE BufferTypeOK
    OBVIOUS
  <2>1. Data /\ Control /\ buffer \in Chars
    BY BufferType DEF IInv
  <2>. QED  BY <2>1 DEF Data, Control, BufferTypeOK
<1>. QED  BY <1>1, Invariance, PTL

\* Whatever is nested, shuffled, matched and stripped: the user and the log get
\* each character once, until expAdjust has dropped some.
THEOREM ShownCorrect == BufferSpec => []ShownOnce
<1>1. IInv => ShownOnce
  BY DEF IInv, Data, ShownOnce
<1>. QED  BY <1>1, Invariance, PTL
-----------------------------------------------------------------------------
(* A match that straddles two bufferfuls.                                  *)

\* Only expRead with data makes arrived larger.
LEMMA OnlyReadsRead ==
    ASSUME IInv, [BufferNext]_bufferVars, arrived' > arrived
    PROVE  (\E full \in BOOLEAN : ReadData(full)) /\ cut' = cut
<1>0. Data /\ Control /\ arrived \in Nat
  BY MatchBufferAssumption DEF IInv, Data
<1>1. arrived' # arrived
  BY <1>0
<1>2. CASE UNCHANGED bufferVars
  BY <1>1, <1>2 DEF bufferVars, data, rest_of_data
<1>3. CASE Event
  <2>1. \E s, walk, armed : Enter(s, walk, armed)
    BY <1>1, <1>3 DEF Event, Notify
  <2>2. bg.full \in BOOLEAN
    BY <1>0 DEF Control
  <2>3. ReadData(bg.full)
    BY <1>1, <2>1 DEF Enter, ReadEof
  <2>. QED  BY <1>3, <2>2, <2>3 DEF Event, size
<1>4. CASE PollNew
  <2>1. Head(stack).full \in BOOLEAN
    BY <1>4, HeadFields DEF PollNew, Polling
  <2>2. ReadData(Head(stack).full)
    BY <1>1, <1>4 DEF PollNew, ReadEof
  <2>. QED  BY <1>4, <2>1, <2>2 DEF PollNew, size
<1>5. CASE BufferNext /\ ~Event /\ ~PollNew
  <2>1. CASE \E full \in BOOLEAN : Expect(full) \/ Declare(full)
    BY <1>1, <2>1 DEF Expect, Declare, rest_of_data
  <2>2. CASE (\E u \in Sizes : MatchMax(u)) \/ (\E on \in BOOLEAN : RemoveNulls(on))
             \/ Validate \/ Undeclare
    BY <1>1, <2>2 DEF MatchMax, RemoveNulls, Validate, Undeclare, data, rest_of_data
  <2>3. CASE OtherEvent \/ OtherEventEnds
    BY <1>1, <2>3 DEF OtherEvent, OtherEventEnds, data, rest_of_data
  <2>4. CASE PollOld \/ PollClosed \/ Timeout \/ NoMatch \/ BodyEnds
    BY <1>1, <2>4 DEF PollOld, PollClosed, Timeout, NoMatch, BodyEnds, data, rest_of_data
  <2>5. CASE Matches \/ NoMatchInBackground \/ BodyEndsInBackground
    BY <1>1, <2>5 DEF Matches, Process, NoMatchInBackground, BodyEndsInBackground
  <2>. QED  BY <1>5, <2>1, <2>2, <2>3, <2>4, <2>5 DEF BufferNext, Moves
<1>. QED  BY <1>2, <1>3, <1>4, <1>5

\* The first half of a full buffer and what came behind it: a character of the
\* first half has at least the characters of the second half behind it.
LEMMA HalfBound ==
    ASSUME Data, Control, UtfMax <= 3, Full(buffer), NEW i \in 1..Half(buffer), i <= Len(buffer)
    PROVE  buffer[i] + (msize - 1) \div 2 - 2 <= arrived
<1> DEFINE l == Len(buffer)
           h == (msize - 1) \div 2
<1>1. buffer \in Seq(1..arrived) /\ Rises(buffer) /\ l \in Nat /\ arrived \in Nat
  BY MatchBufferAssumption DEF Data, Holds
<1>2. PICK u \in Sizes : msize = 2 * u + 1
  BY DEF Control, Msize
<1>3. u \in Nat /\ UtfMax \in Nat
  BY <1>2, MatchBufferAssumption
<1>4. h = u
  BY <1>2, <1>3
<1>5. l + 3 >= 2 * u + 1
  BY <1>1, <1>2, <1>3 DEF Full
<1>6. i \in Nat /\ i >= 1 /\ i <= l /\ Half(buffer) = l \div 2 + 1
  BY <1>1 DEF Half
<1>7. 2 * i <= l + 2
  BY <1>1, <1>6
<1>8. i \in 1..Len(buffer) /\ l \in 1..Len(buffer)
  BY <1>1, <1>6
<1>9. l - i <= buffer[l] - buffer[i] /\ buffer[l] <= arrived /\ buffer[l] \in Nat /\ buffer[i] \in Nat
  <2>1. \A k \in 1..Len(buffer) : buffer[k] \in Nat /\ buffer[k] <= arrived
    BY <1>1
  <2>2. \A j, k \in 1..Len(buffer) : j <= k => k - j <= buffer[k] - buffer[j]
    BY <1>1 DEF Rises
  <2>. HIDE DEF l
  <2>. QED  BY <1>6, <1>8, <2>1, <2>2
<1>10. l - i >= u - 2
  BY <1>1, <1>3, <1>5, <1>6, <1>7
<1> DEFINE a == buffer[i]
           z == buffer[l]
<1>11. a \in Nat /\ z \in Nat /\ l - i <= z - a /\ z <= arrived
  BY <1>9
<1>. HIDE DEF a, z, h, l
<1>12. a + h - 2 <= arrived
  BY <1>1, <1>3, <1>4, <1>6, <1>10, <1>11
<1>. QED  BY <1>12 DEF a, h

LEMMA ReadLoses ==
    ASSUME IInv, UtfMax <= 3, NEW full \in BOOLEAN, ReadData(full), cut' = cut,
           NEW c \in Elements(buffer) \ Elements(buffer')
    PROVE  c + (msize - 1) \div 2 - 2 <= arrived
<1> DEFINE s == Shuffled(buffer)
           f == Len(Forgotten(buffer))
<1>0. Data /\ Control
  BY DEF IInv
<1>1. buffer \in Seq(1..arrived) /\ Len(buffer) \in Nat /\ Holds(arrived, buffer) /\ arrived \in Nat
  BY <1>0, MatchBufferAssumption DEF Data, Holds
<1>2. PICK i \in 1..Len(buffer) : c = buffer[i]
  BY <1>1 DEF Elements
<1>3. /\ f \in 0..Len(buffer) /\ s = From(buffer, f + 1) /\ Len(s) = Len(buffer) - f
  BY <1>0, ShuffleFacts
<1>4. \A k \in 1..Len(s) : s[k] \in Elements(buffer')
  BY <1>0, ReadDataGood
<1>. HIDE DEF s, f
<1>5. i <= f
  <2>. SUFFICES ASSUME i > f PROVE FALSE
    BY <1>1, <1>3
  <2> DEFINE k == f + 1
             j == i - f
  <2>1. k \in 1..(Len(buffer) + 1) /\ j \in 1..(Len(buffer) - k + 1) /\ j \in 1..Len(s) /\ k + j - 1 = i
    BY <1>1, <1>3
  <2>2. s = From(buffer, k)
    BY <1>3
  <2>. HIDE DEF k, j
  <2>3. \A x \in 1..(Len(buffer) - k + 1) : From(buffer, k)[x] = buffer[k + x - 1]
    BY <1>1, <2>1, FromHolds
  <2>4. s[j] = buffer[i]
    BY <2>1, <2>2, <2>3
  <2>. QED  BY <1>2, <1>4, <2>1, <2>4
<1>6. Full(buffer) /\ f = Half(buffer)
  <2>1. Full(buffer)
    <3>. SUFFICES ASSUME ~Full(buffer) PROVE FALSE
      OBVIOUS
    <3>1. f = 0
      BY DEF f, Forgotten
    <3>. QED  BY <1>1, <1>5, <3>1
  <2> DEFINE h == Half(buffer)
  <2>2. Forgotten(buffer) = SubSeq(buffer, 1, h)
    BY <2>1 DEF Forgotten
  <2>3. h \in 0..Len(buffer)
    <3>1. Len(buffer) # 0
      BY <1>1
    <3>2. buffer # <<>>
      BY <3>1
    <3>. QED  BY <1>1, <3>1, <3>2 DEF Half
  <2>. HIDE DEF h
  <2>4. Len(SubSeq(buffer, 1, h)) = h
    BY <1>1, <2>3, FirstType
  <2>. QED  BY <2>1, <2>2, <2>4 DEF f, h
<1>7. i \in 1..Half(buffer) /\ i <= Len(buffer)
  BY <1>1, <1>3, <1>5, <1>6
<1>. QED  BY <1>0, <1>2, <1>6, <1>7, HalfBound

\* With the three bytes of the program's TCL_UTF_MAX, whatever match_max is and
\* whatever was removed in between: exp_buffer_shuffle forgets no character
\* before umsize - 1 of those that begin with it have been there together.
THEOREM StraddlingCorrect == UtfMax <= 3 /\ BufferSpec => StraddlingMatch
<1>. SUFFICES ASSUME UtfMax <= 3 PROVE BufferSpec => StraddlingMatch
  OBVIOUS
<1>1. IInv /\ [BufferNext]_bufferVars => [\A c \in Lost : c + (msize - 1) \div 2 - 2 <= arrived]_bufferVars
  <2>. SUFFICES ASSUME IInv, [BufferNext]_bufferVars, NEW c \in Lost
                PROVE  c + (msize - 1) \div 2 - 2 <= arrived
    OBVIOUS
  <2>1. arrived' > arrived /\ c \in Elements(buffer) \ Elements(buffer')
    BY DEF Lost
  <2>2. PICK full \in BOOLEAN : ReadData(full)
    BY <2>1, OnlyReadsRead
  <2>3. cut' = cut
    BY <2>1, OnlyReadsRead
  <2>. QED  BY <2>1, <2>2, <2>3, ReadLoses
<1>. QED  BY <1>1, Invariance, PTL DEF BufferSpec, StraddlingMatch
-----------------------------------------------------------------------------
(* What leaves the buffer.                                                 *)

Increasing(s) == \A i, j \in 1..Len(s) : i < j => s[i] < s[j]
Before(a, b) == \A x \in Elements(a), y \in Elements(b) : x < y

\* Character by character: what was taken came before what is buffered, and the
\* two are all that was read but the nulls that were stripped.
AllThere == /\ Increasing(taken) /\ Before(taken, buffer)
         /\ Elements(taken) \cup Elements(buffer) = (1..arrived) \ stripped
         /\ stripped \subseteq Nulls \cap (1..arrived)

LEMMA ElementsAre ==
    ASSUME NEW S, NEW s \in Seq(S)
    PROVE  /\ Elements(s) \subseteq S
           /\ \A x : x \in Elements(s) <=> \E i \in 1..Len(s) : s[i] = x
BY DEF Elements

LEMMA ElementsJoined ==
    ASSUME NEW S, NEW a \in Seq(S), NEW b \in Seq(S)
    PROVE  Elements(a \o b) = Elements(a) \cup Elements(b)
<1> DEFINE c == a \o b
           m == Len(a)
           n == Len(b)
<1>1. /\ c \in Seq(S) /\ Len(c) = m + n /\ m \in Nat /\ n \in Nat
      /\ \A i \in 1..(m + n) : c[i] = IF i <= m THEN a[i] ELSE b[i - m]
  BY ConcatProperties
<1>. HIDE DEF c, m, n
<1>2. \A x : x \in Elements(c) <=> \E i \in 1..(m + n) : c[i] = x
  BY <1>1, ElementsAre
<1>3. \A x : (x \in Elements(a) <=> \E i \in 1..m : a[i] = x)
             /\ (x \in Elements(b) <=> \E i \in 1..n : b[i] = x)
  BY ElementsAre DEF m, n
<1>4. ASSUME NEW x \in Elements(c) PROVE x \in Elements(a) \cup Elements(b)
  <2>1. PICK i \in 1..(m + n) : c[i] = x
    BY <1>2
  <2>2. CASE i <= m
    <3>1. i \in 1..m /\ a[i] = x
      BY <1>1, <2>1, <2>2
    <3>. QED  BY <1>3, <3>1
  <2>3. CASE ~(i <= m)
    <3>1. i - m \in 1..n /\ b[i - m] = x
      BY <1>1, <2>1, <2>3
    <3>. QED  BY <1>3, <3>1
  <2>. QED  BY <2>2, <2>3
<1>5. ASSUME NEW x \in Elements(a) PROVE x \in Elements(c)
  <2>1. PICK i \in 1..m : a[i] = x
    BY <1>3
  <2>2. i \in 1..(m + n) /\ c[i] = x
    BY <1>1, <2>1
  <2>. QED  BY <1>2, <2>2
<1>6. ASSUME NEW x \in Elements(b) PROVE x \in Elements(c)
  <2>1. PICK i \in 1..n : b[i] = x
    BY <1>3
  <2> DEFINE j == i + m
  <2>2. j \in 1..(m + n) /\ ~(j <= m) /\ j - m = i
    BY <1>1
  <2>. HIDE DEF j
  <2>3. c[j] = x
    BY <1>1, <2>1, <2>2
  <2>. QED  BY <1>2, <2>2, <2>3
<1>7. Elements(c) = Elements(a) \cup Elements(b)
  BY <1>4, <1>5, <1>6
<1>. QED  BY <1>7 DEF c

\* One behind the other.
LEMMA JoinedIncreases ==
    ASSUME NEW n \in Nat, NEW a \in Seq(1..n), NEW b \in Seq(1..n),
           Increasing(a), Increasing(b), Before(a, b)
    PROVE  Increasing(a \o b)
<1> DEFINE c == a \o b
           m == Len(a)
<1>1. /\ c \in Seq(1..n) /\ Len(c) = m + Len(b) /\ m \in Nat /\ Len(b) \in Nat
      /\ \A i \in 1..(m + Len(b)) : c[i] = IF i <= m THEN a[i] ELSE b[i - m]
  BY ConcatProperties
<1>. HIDE DEF c, m
<1>. SUFFICES ASSUME NEW i \in 1..Len(c), NEW j \in 1..Len(c), i < j PROVE c[i] < c[j]
  BY DEF Increasing, c
<1>2. i \in Nat /\ j \in Nat /\ 1 <= i /\ j <= m + Len(b) /\ i \in 1..(m + Len(b)) /\ j \in 1..(m + Len(b))
  BY <1>1
<1>3. CASE j <= m
  <2>1. i \in 1..Len(a) /\ j \in 1..Len(a)
    BY <1>1, <1>2, <1>3 DEF m
  <2>2. c[i] = a[i] /\ c[j] = a[j]
    BY <1>1, <1>2, <1>3
  <2>. QED  BY <2>1, <2>2 DEF Increasing
<1>4. CASE i <= m /\ ~(j <= m)
  <2>1. i \in 1..Len(a) /\ j - m \in 1..Len(b)
    BY <1>1, <1>2, <1>4 DEF m
  <2>2. c[i] = a[i] /\ c[j] = b[j - m]
    BY <1>1, <1>2, <1>4
  <2>3. a[i] \in Elements(a) /\ b[j - m] \in Elements(b)
    BY <2>1, ElementsAre
  <2>. QED  BY <2>2, <2>3 DEF Before
<1>5. CASE ~(i <= m)
  <2> DEFINE x == i - m
             y == j - m
  <2>1. x \in 1..Len(b) /\ y \in 1..Len(b) /\ x < y
    BY <1>1, <1>2, <1>5
  <2>2. ~(j <= m)
    BY ONLY <1>1, <1>2, <1>5, i < j
  <2>3. c[i] = b[x]
    BY ONLY <1>1, <1>2, <1>5
  <2>4. c[j] = b[y]
    BY ONLY <1>1, <1>2, <2>2
  <2>. HIDE DEF x, y
  <2>. QED  BY <2>1, <2>3, <2>4 DEF Increasing
<1>. QED  BY <1>2, <1>3, <1>4, <1>5

LEMMA HoldsIncreasing ==
    ASSUME NEW n \in Nat, NEW b, Holds(n, b)
    PROVE  Increasing(b)
<1>. SUFFICES ASSUME NEW i \in 1..Len(b), NEW j \in 1..Len(b), i < j PROVE b[i] < b[j]
  BY DEF Increasing
<1>1. b \in Seq(1..n) /\ b[i] \in Nat /\ b[j] \in Nat /\ i \in Nat /\ j \in Nat
  BY DEF Holds
<1>2. j - i <= b[j] - b[i]
  BY <1>1 DEF Holds, Rises
<1>. QED  BY <1>1, <1>2

\* The first characters of the buffer are taken.
LEMMA MovesOver ==
    ASSUME NEW n \in Nat, NEW t \in Seq(1..n), NEW b, Holds(n, b), NEW k \in 0..Len(b),
           Increasing(t), Before(t, b)
    PROVE  LET u == t \o SubSeq(b, 1, k)
               c == From(b, k + 1)
           IN  /\ u \in Seq(1..n) /\ Increasing(u) /\ Before(u, c)
               /\ Elements(u) \cup Elements(c) = Elements(t) \cup Elements(b)
<1> DEFINE f == SubSeq(b, 1, k)
           u == t \o f
           c == From(b, k + 1)
<1>1. b \in Seq(1..n) /\ Len(b) \in Nat /\ k \in Nat /\ k <= Len(b) /\ Increasing(b)
  BY HoldsIncreasing DEF Holds
<1>2. f \in Seq(1..n) /\ Len(f) = k /\ \A i \in 1..k : f[i] = b[i]
  <2>1. \A i \in 1..k : b[i] \in 1..n
    BY <1>1
  <2>. QED  BY <1>1, <2>1, SubSeqProperties
<1>3. /\ c \in Seq(1..n) /\ Len(c) = Len(b) - k
      /\ \A i \in 1..(Len(b) - k) : c[i] = b[k + i]
  <2> DEFINE j == k + 1
  <2>1. j \in 1..(Len(b) + 1) /\ Len(b) - j + 1 = Len(b) - k
    BY <1>1
  <2>2. \A i \in 1..(Len(b) - k) : j + i - 1 = k + i
    BY <1>1
  <2>. HIDE DEF j
  <2>3. /\ Holds(n, From(b, j)) /\ Len(From(b, j)) = Len(b) - j + 1
        /\ \A i \in 1..(Len(b) - j + 1) : From(b, j)[i] = b[j + i - 1]
    BY <2>1, FromHolds
  <2>4. \A i \in 1..(Len(b) - k) : From(b, j)[i] = b[k + i]
    BY <2>1, <2>2, <2>3
  <2>. QED  BY <2>1, <2>3, <2>4 DEF Holds, j
<1>. HIDE DEF f, c
<1>4. Elements(u) = Elements(t) \cup Elements(f) /\ u \in Seq(1..n)
  BY <1>2, ElementsJoined, ConcatProperties
<1>5. /\ \A x : x \in Elements(f) <=> \E i \in 1..k : b[i] = x
      /\ \A x : x \in Elements(c) <=> \E i \in 1..(Len(b) - k) : b[k + i] = x
      /\ \A x : x \in Elements(b) <=> \E i \in 1..Len(b) : b[i] = x
  <2>1. /\ \A x : x \in Elements(f) <=> \E i \in 1..k : f[i] = x
        /\ \A x : x \in Elements(b) <=> \E i \in 1..Len(b) : b[i] = x
    BY ONLY <1>1, <1>2, ElementsAre
  <2>2. \A x : x \in Elements(c) <=> \E i \in 1..(Len(b) - k) : c[i] = x
    BY ONLY <1>3, ElementsAre
  <2>3. (\A i \in 1..k : f[i] = b[i]) /\ \A i \in 1..(Len(b) - k) : c[i] = b[k + i]
    BY ONLY <1>2, <1>3
  <2>4. \A x : x \in Elements(f) <=> \E i \in 1..k : b[i] = x
    BY ONLY <2>1, <2>3
  <2>5. \A x : x \in Elements(c) <=> \E i \in 1..(Len(b) - k) : b[k + i] = x
    BY ONLY <2>2, <2>3
  <2>. QED  BY ONLY <2>1, <2>4, <2>5
<1>6. Elements(f) \cup Elements(c) = Elements(b)
  <2>1. \A i \in 1..k : i \in 1..Len(b)
    BY <1>1
  <2>2. \A i \in 1..(Len(b) - k) : k + i \in 1..Len(b)
    BY <1>1
  <2>3. \A i \in 1..Len(b) : i \in 1..k \/ (i - k \in 1..(Len(b) - k) /\ k + (i - k) = i)
    BY <1>1
  <2>4. ASSUME NEW x \in Elements(b) PROVE x \in Elements(f) \cup Elements(c)
    <3>1. PICK i \in 1..Len(b) : b[i] = x
      BY <1>5
    <3>2. CASE i \in 1..k
      BY <1>5, <3>1, <3>2
    <3>3. CASE i \notin 1..k
      <4>1. i - k \in 1..(Len(b) - k) /\ b[k + (i - k)] = x
        BY <2>3, <3>1, <3>3
      <4>. QED  BY <1>5, <4>1
    <3>. QED  BY <3>2, <3>3
  <2>. QED  BY <1>5, <2>1, <2>2, <2>4
<1>7. Before(f, c)
  <2>. SUFFICES ASSUME NEW x \in Elements(f), NEW y \in Elements(c) PROVE x < y
    BY DEF Before
  <2>1. PICK i \in 1..k : b[i] = x
    BY <1>5
  <2>2. PICK j \in 1..(Len(b) - k) : b[k + j] = y
    BY <1>5
  <2>3. i \in 1..Len(b) /\ k + j \in 1..Len(b) /\ i < k + j
    BY <1>1
  <2>. QED  BY <1>1, <2>1, <2>2, <2>3 DEF Increasing
<1>8. Before(t, f) /\ Before(u, c)
  BY <1>4, <1>6, <1>7 DEF Before
<1>9. Increasing(f)
  <2>1. \A i \in 1..k : i \in 1..Len(b)
    BY <1>1
  <2>. QED  BY <1>1, <1>2, <2>1 DEF Increasing
<1>10. Increasing(u)
  BY <1>2, <1>8, <1>9, JoinedIncreases
<1>. HIDE DEF u
<1>11. Elements(u) \cup Elements(c) = Elements(t) \cup Elements(b)
  BY <1>4, <1>6
<1>. QED  BY <1>4, <1>8, <1>10, <1>11 DEF u, f, c

\* What is read comes behind all that.
LEMMA ReadJoins ==
    ASSUME NEW n \in Nat, NEW s, Holds(n, s), NEW m \in Nat, NEW new,
           new = [k \in 1..m |-> n + k]
    PROVE  Elements(s \o new) = Elements(s) \cup ((n + 1)..(n + m))
<1> DEFINE S == 1..(n + m)
<1>1. new \in Seq(S) /\ Len(new) = m /\ s \in Seq(S)
  <2>1. s \in Seq(1..n) /\ 1..n \subseteq S
    BY DEF Holds
  <2>2. s \in Seq(S)
    BY <2>1, SeqMonotonic
  <2>. QED  BY <2>2, AddedHolds
<1>2. Elements(new) = (n + 1)..(n + m)
  <2>1. \A k \in 1..m : new[k] \in (n + 1)..(n + m)
    OBVIOUS
  <2>2. \A x \in (n + 1)..(n + m) : x - n \in 1..m /\ new[x - n] = x
    OBVIOUS
  <2>3. \A x : x \in Elements(new) <=> \E i \in 1..m : new[i] = x
    BY ONLY <1>1, ElementsAre
  <2>4. \A x \in (n + 1)..(n + m) : x \in Elements(new)
    BY <2>2, <2>3
  <2>5. \A x \in Elements(new) : x \in (n + 1)..(n + m)
    BY <2>1, <2>3
  <2>. QED  BY <2>4, <2>5
<1>. HIDE DEF S
<1>3. Elements(s \o new) = Elements(s) \cup Elements(new)
  BY ONLY <1>1, ElementsJoined
<1>. QED  BY <1>2, <1>3

\* Only nulls are stripped.
LEMMA StripsNulls ==
    ASSUME NEW n \in Nat, NEW b, Holds(n, b), NEW p \in Nat
    PROVE  /\ Elements(NullStrip(b, p)) \subseteq Elements(b)
           /\ Elements(b) \ Elements(NullStrip(b, p)) \subseteq Nulls
<1> DEFINE K == {i \in DOMAIN b : i <= p \/ b[i] \notin Nulls}
           s == Selected(b, K)
<1>1. b \in Seq(1..n) /\ DOMAIN b = 1..Len(b) /\ Len(b) \in Nat
  BY DEF Holds
<1>2. K \in SUBSET (1..Len(b)) /\ \A i \in 1..Len(b) : i \notin K => b[i] \in Nulls
  BY <1>1
<1>3. NullStrip(b, p) = s
  BY DEF NullStrip
<1>. HIDE DEF K
<1>4. /\ s \in Seq(1..n) /\ Len(s) = Cardinality(K)
      /\ \A j \in 1..Cardinality(K) : \E i \in K : s[j] = b[i]
  BY ONLY <1>1, <1>2, SelectedProperties
<1>5. \A i \in K : \E j \in 1..Cardinality(K) : s[j] = b[i]
  BY <1>1, <1>2, SelectedAll
<1>. HIDE DEF s
<1>6. /\ \A x : x \in Elements(s) <=> \E j \in 1..Cardinality(K) : s[j] = x
      /\ \A x : x \in Elements(b) <=> \E i \in 1..Len(b) : b[i] = x
  BY <1>1, <1>4, ElementsAre
<1>7. \A x \in Elements(s) : x \in Elements(b)
  BY <1>2, <1>4, <1>6
<1>8. \A x \in Elements(b) : x \notin Elements(s) => x \in Nulls
  BY <1>2, <1>5, <1>6
<1>. QED  BY <1>3, <1>7, <1>8

\* An increasing sequence is what is selected by the set of its elements.
LEMMA CountedElements ==
    ASSUME NEW n \in Nat, NEW s \in Seq(1..n), Increasing(s), NEW m \in 0..Len(s)
    PROVE  Cardinality({s[i] : i \in 1..m}) = m
<1> DEFINE D == 1..m
           T == {s[i] : i \in D}
           f == [i \in D |-> s[i]]
<1>1. Len(s) \in Nat /\ m \in Nat /\ m <= Len(s) /\ \A i \in 1..Len(s) : s[i] \in Nat
  OBVIOUS
<1>2. \A i, j \in D : s[i] = s[j] => i = j
  <2>. TAKE i, j \in D
  <2>1. HAVE s[i] = s[j]
  <2>2. i \in 1..Len(s) /\ j \in 1..Len(s) /\ i \in Nat /\ j \in Nat
    BY <1>1
  <2>3. ~(i < j) /\ ~(j < i)
    BY <1>1, <2>1, <2>2 DEF Increasing
  <2>. QED  BY <2>2, <2>3
<1>3. IsFiniteSet(D) /\ Cardinality(D) = m
  BY <1>1, FS_Interval
<1>4. f \in Bijection(D, T)
  <2>. HIDE DEF D
  <2>1. f \in [D -> T]
    OBVIOUS
  <2>. QED  BY <1>2, <2>1 DEF Bijection, Injection, Surjection, IsInjective
<1>5. Cardinality(T) = Cardinality(D)
  <2>1. ExistsBijection(D, T)
    BY <1>4 DEF ExistsBijection
  <2>. HIDE DEF D, T
  <2>. QED  BY <1>3, <2>1, FS_Bijection
<1>. QED  BY <1>3, <1>5

LEMMA OneIncreasing ==
    ASSUME NEW n \in Nat, NEW s \in Seq(1..n), Increasing(s), NEW K, K = Elements(s)
    PROVE  s = Selected(Upto(n), K)
<1> DEFINE l == Len(s)
           u == Upto(n)
<1>1. /\ l \in Nat /\ (\A i \in 1..l : s[i] \in 1..n) /\ K \in SUBSET (1..n)
      /\ \A x : x \in K <=> \E i \in 1..l : s[i] = x
  BY ElementsAre
<1>2. u \in Seq(1..n) /\ Len(u) = n /\ \A k \in 1..n : u[k] = k
  BY DEF Upto
<1>3. K = {s[i] : i \in 1..l} /\ Cardinality(K) = l
  <2>1. K = {s[i] : i \in 1..l}
    BY <1>1
  <2>2. l \in 0..Len(s)
    BY <1>1
  <2>. QED  BY <2>1, <2>2, CountedElements
<1>4. ASSUME NEW j \in 1..l PROVE s[j] \in K /\ Place(K, s[j]) = j - 1
  <2>1. j \in Nat /\ j <= l /\ 1 <= j /\ j - 1 \in 0..Len(s)
    BY <1>1
  <2>2. {k \in K : k < s[j]} = {s[i] : i \in 1..(j - 1)}
    <3>1. ASSUME NEW i \in 1..(j - 1) PROVE s[i] \in K /\ s[i] < s[j]
      <4>1. i \in 1..l /\ i < j
        BY <2>1
      <4>. QED  BY <1>1, <4>1 DEF Increasing
    <3>2. ASSUME NEW k \in K, k < s[j] PROVE \E i \in 1..(j - 1) : k = s[i]
      <4>1. PICK i \in 1..l : s[i] = k
        BY <1>1
      <4>2. i \in Nat /\ s[i] \in Nat /\ s[j] \in Nat
        BY <1>1
      <4>3. ~(j < i) /\ i # j
        BY <1>1, <3>2, <4>1, <4>2 DEF Increasing
      <4>4. i \in 1..(j - 1)
        BY <2>1, <4>2, <4>3
      <4>. QED  BY <4>1, <4>4
    <3>. QED  BY <3>1, <3>2
  <2>3. Cardinality({s[i] : i \in 1..(j - 1)}) = j - 1
    BY <2>1, CountedElements
  <2>. QED  BY <1>1, <2>2, <2>3 DEF Place
<1>5. ASSUME NEW j \in 1..l PROVE (CHOOSE i \in K : Place(K, i) = j - 1) = s[j]
  <2> DEFINE c == CHOOSE i \in K : Place(K, i) = j - 1
  <2>1. c \in K /\ Place(K, c) = j - 1 /\ s[j] \in K /\ Place(K, s[j]) = j - 1
    BY <1>4
  <2>2. c \in Nat /\ s[j] \in Nat /\ j \in Nat
    BY <1>1, <2>1
  <2>. HIDE DEF c
  <2>3. \A a, b \in K : a < b => Place(K, a) < Place(K, b)
    <3>. TAKE a, b \in K
    <3>1. HAVE a < b
    <3>2. a <= b
      BY <1>1, <3>1
    <3>. QED  BY <1>1, <3>1, <3>2, PlaceGap
  <2>4. ~(j - 1 < j - 1)
    BY <2>2
  <2>5. ~(c < s[j]) /\ ~(s[j] < c)
    BY ONLY <2>1, <2>3, <2>4
  <2>. QED  BY <2>2, <2>5 DEF c
<1>. HIDE DEF u
<1> DEFINE q == Selected(u, K)
<1>6. /\ q \in Seq(1..n) /\ Len(q) = l
      /\ \A j \in 1..l : q[j] = u[CHOOSE i \in K : Place(K, i) = j - 1]
  <2>1. q \in Seq(1..n) /\ Len(q) = Cardinality(K)
    BY <1>1, <1>2, SelectedProperties
  <2>2. \A j \in 1..l : q[j] = u[CHOOSE i \in K : Place(K, i) = j - 1]
    BY <1>3 DEF Selected
  <2>. QED  BY <1>3, <2>1, <2>2
<1>7. \A j \in 1..l : q[j] = s[j]
  <2>. TAKE j \in 1..l
  <2>1. q[j] = u[s[j]]
    BY <1>5, <1>6
  <2>. QED  BY <1>1, <1>2, <2>1
<1>. HIDE DEF q
<1>8. q = s
  BY <1>6, <1>7, SeqEqual
<1>. QED  BY <1>8 DEF q, u

\* What a step does to the characters.
DataStep ==
    \/ \E full \in BOOLEAN : (ReadData(full) \/ ReadEof(full)) /\ cut' = cut
    \/ \E n \in 0..Len(buffer), transfer \in BOOLEAN : Process(n, transfer) /\ cut' = cut
    \/ Adjusted /\ UNCHANGED rest_of_data
    \/ Display(buffer, printed) /\ UNCHANGED <<arrived, taken, surprised, cut>>
    \/ UNCHANGED <<arrived, buffer, taken, stripped, cut>>

LEMMA EachDataStep == ASSUME IInv, [BufferNext]_bufferVars PROVE DataStep
<1>0. Control /\ bg.full \in BOOLEAN /\ (stack # <<>> => Head(stack).full \in BOOLEAN)
  BY HeadFields DEF IInv, Control
<1>1. CASE UNCHANGED bufferVars
  BY <1>1 DEF DataStep, bufferVars, data, rest_of_data, size
<1>2. CASE Event
  <2>1. (\E s, walk, armed : Enter(s, walk, armed))
        \/ UNCHANGED <<arrived, buffer, printed, shown, taken, stripped, wild, surprised, open, bg>>
    BY <1>2 DEF Event, Notify
  <2>2. cut' = cut
    BY <1>2 DEF Event, size
  <2>. QED  BY <1>0, <2>1, <2>2 DEF Enter, DataStep
<1>3. CASE PollNew
  BY <1>0, <1>3 DEF PollNew, Polling, DataStep, size
<1>4. CASE BufferNext /\ ~Event /\ ~PollNew
  <2>1. CASE (\E full \in BOOLEAN : Expect(full) \/ Declare(full)) \/ Validate \/ Undeclare
    BY <2>1 DEF Expect, Declare, Validate, Undeclare, DataStep
  <2>2. CASE (\E u \in Sizes : MatchMax(u)) \/ (\E on \in BOOLEAN : RemoveNulls(on))
    BY <2>2 DEF MatchMax, RemoveNulls, data, rest_of_data, DataStep
  <2>3. CASE OtherEvent \/ OtherEventEnds \/ PollClosed \/ Timeout \/ NoMatch \/ BodyEnds
    BY <2>3 DEF OtherEvent, OtherEventEnds, PollClosed, Timeout, NoMatch, BodyEnds,
                data, rest_of_data, size, DataStep
  <2>4. CASE PollOld
    BY <2>4 DEF PollOld, DataStep, size
  <2>5. CASE Matches
    BY <2>5 DEF Matches, DataStep, size
  <2>6. CASE NoMatchInBackground \/ BodyEndsInBackground
    BY <2>6 DEF NoMatchInBackground, BodyEndsInBackground, DataStep, size
  <2>. QED  BY <1>4, <2>1, <2>2, <2>3, <2>4, <2>5, <2>6 DEF BufferNext, Moves
<1>. QED  BY <1>1, <1>2, <1>3, <1>4

\* taken holds characters read so far.
LEMMA TakenType ==
    ASSUME Data, AllThere
    PROVE  /\ taken \in Seq(1..arrived) /\ arrived \in Nat /\ Holds(arrived, buffer)
           /\ Elements(taken) \subseteq 1..arrived /\ Elements(buffer) \subseteq 1..arrived
<1>1. Elements(taken) \subseteq 1..arrived
  BY DEF AllThere
<1>2. taken \in Seq(1..MaxChars)
  BY DEF Data, Chars
<1>3. \A i \in 1..Len(taken) : taken[i] \in 1..arrived
  BY <1>1, <1>2, ElementsAre
<1>4. taken \in Seq(1..arrived)
  <2> DEFINE S == 1..arrived
             l == Len(taken)
             e(i) == taken[i]
  <2>1. l \in Nat /\ taken = [i \in 1..l |-> e(i)]
    BY ONLY <1>2
  <2>2. \A i \in 1..l : e(i) \in S
    BY ONLY <1>3
  <2>. HIDE DEF S, l, e
  <2>3. [i \in 1..l |-> e(i)] \in Seq(S)
    BY ONLY <2>1, <2>2, IsASeq
  <2>. QED  BY ONLY <2>1, <2>3 DEF S
<1>5. arrived \in Nat /\ Holds(arrived, buffer)
  BY MatchBufferAssumption DEF Data
<1>6. Elements(buffer) \subseteq 1..arrived
  BY <1>5, ElementsAre DEF Holds
<1>. QED  BY <1>1, <1>4, <1>5, <1>6

\* What the shuffle forgets comes first.
LEMMA ForgetsFirst ==
    ASSUME Data, AllThere
    PROVE  Forgotten(buffer) = SubSeq(buffer, 1, Len(Forgotten(buffer)))
<1> DEFINE F == Forgotten(buffer)
           k == Len(F)
<1>1. buffer \in Seq(1..arrived) /\ arrived \in Nat /\ Len(buffer) \in Nat
  BY TakenType DEF Holds
<1>2. CASE Full(buffer)
  <2> DEFINE h == Half(buffer)
  <2>1. F = SubSeq(buffer, 1, h) /\ h \in 0..Len(buffer)
    <3>1. buffer # <<>> => Len(buffer) # 0
      BY <1>1, EmptySeq
    <3>. QED  BY <1>1, <1>2, <3>1 DEF Forgotten, Half
  <2>. HIDE DEF h
  <2>2. h = k
    BY <1>1, <2>1, FirstType
  <2>. QED  BY <2>1, <2>2
<1>3. CASE ~Full(buffer)
  <2>1. F = <<>> /\ k = 0
    BY <1>3 DEF Forgotten
  <2>2. SubSeq(buffer, 1, 0) = <<>>
    BY <1>1, SubSeqEmpty
  <2>. QED  BY <2>1, <2>2
<1>. QED  BY <1>2, <1>3

LEMMA ReadThere ==
    ASSUME Data, Control, AllThere, NEW full \in BOOLEAN, ReadData(full)
    PROVE  AllThere'
<1> DEFINE s == Shuffled(buffer)
           p == Unshuffled(buffer)
           F == Forgotten(buffer)
           u == taken \o F
<1>1. /\ Holds(arrived, s) /\ p \in Nat
      /\ u \in Seq(1..arrived) /\ Increasing(u) /\ Before(u, s)
      /\ Elements(u) \cup Elements(s) = (1..arrived) \ stripped
  <2> DEFINE k == Len(F)
  <2>1. k \in 0..Len(buffer) /\ s = From(buffer, k + 1) /\ Holds(arrived, s) /\ p \in Nat
    BY ShuffleFacts
  <2>2. F = SubSeq(buffer, 1, k)
    BY ForgetsFirst
  <2>. HIDE DEF k, s, F
  <2>3. /\ taken \o SubSeq(buffer, 1, k) \in Seq(1..arrived)
        /\ Increasing(taken \o SubSeq(buffer, 1, k))
        /\ Before(taken \o SubSeq(buffer, 1, k), From(buffer, k + 1))
        /\ Elements(taken \o SubSeq(buffer, 1, k)) \cup Elements(From(buffer, k + 1))
             = Elements(taken) \cup Elements(buffer)
    <3>1. /\ taken \in Seq(1..arrived) /\ arrived \in Nat /\ Holds(arrived, buffer)
          /\ Increasing(taken) /\ Before(taken, buffer)
      BY TakenType DEF AllThere
    <3>. QED  BY <2>1, <3>1, MovesOver
  <2>. QED  BY <2>1, <2>2, <2>3 DEF AllThere
<1>2. PICK m \in 0..Asked(s) : /\ arrived + m <= MaxChars /\ arrived' = arrived + m
                               /\ Display(s \o [k \in 1..m |-> arrived + k], p)
  BY DEF ReadData
<1>3. taken' = u
  BY DEF ReadData
<1>. HIDE DEF s, p, u
<1> DEFINE new == [k \in 1..m |-> arrived + k]
           b == s \o new
           n == arrived + m
<1>4. arrived \in Nat /\ m \in Nat /\ n \in Nat
  BY MatchBufferAssumption DEF Data
<1>5. Holds(n, b) /\ Elements(b) = Elements(s) \cup ((arrived + 1)..n)
  <2>1. arrived \in Nat /\ m \in Nat /\ Holds(arrived, s) /\ new = [k \in 1..m |-> arrived + k]
    BY <1>1, <1>4
  <2>. HIDE DEF new
  <2>2. Holds(arrived + m, s \o new)
    BY ONLY <2>1, AddedHolds
  <2>3. Elements(s \o new) = Elements(s) \cup ((arrived + 1)..(arrived + m))
    BY ONLY <2>1, ReadJoins
  <2>. QED  BY <2>2, <2>3
<1>6. /\ buffer' \in {b, NullStrip(b, p)}
      /\ stripped' = stripped \cup (Elements(b) \ Elements(buffer'))
  BY <1>2 DEF Display
<1>. HIDE DEF b, n, new
<1>7. Elements(buffer') \subseteq Elements(b) /\ Elements(b) \ Elements(buffer') \subseteq Nulls
  BY <1>1, <1>4, <1>5, <1>6, StripsNulls
<1>8. arrived' = n /\ 1..n = (1..arrived) \cup ((arrived + 1)..n) /\ 1..arrived \subseteq 1..n
      /\ (1..arrived) \cap ((arrived + 1)..n) = {}
  BY <1>2, <1>4 DEF n
<1>9. Elements(u) \subseteq 1..arrived /\ stripped \subseteq Nulls \cap (1..arrived)
  BY <1>1, ElementsAre DEF AllThere
<1>10. Before(u, b)
  <2>. SUFFICES ASSUME NEW x \in Elements(u), NEW y \in Elements(b) PROVE x < y
    BY DEF Before
  <2>1. CASE y \in Elements(s)
    BY <1>1, <2>1 DEF Before
  <2>2. CASE y \in (arrived + 1)..n
    <3>1. x \in 1..arrived
      BY <1>9
    <3>. QED  BY <1>4, <2>2, <3>1
  <2>. QED  BY <1>5, <2>1, <2>2
<1>11. Before(u, buffer')
  BY <1>7, <1>10 DEF Before
<1>12. \A x \in Elements(u) : x \notin Elements(b)
  <2>. SUFFICES ASSUME NEW x \in Elements(u), x \in Elements(b) PROVE FALSE
    OBVIOUS
  <2>1. x \in 1..arrived /\ x < x
    BY <1>9, <1>10 DEF Before
  <2>. QED  BY <1>4, <2>1
<1>13. Elements(u) \cup Elements(b) = (1..n) \ stripped
  BY <1>1, <1>5, <1>8, <1>9
<1>14. Elements(u) \cup Elements(buffer') = (1..n) \ stripped'
  BY <1>6, <1>7, <1>12, <1>13
<1>15. stripped' \subseteq Nulls \cap (1..n)
  BY <1>6, <1>7, <1>8, <1>9, <1>13
<1>. QED  BY <1>1, <1>3, <1>8, <1>11, <1>14, <1>15 DEF AllThere

\* What is taken from the buffer without a read.
LEMMA TakesFirst ==
    ASSUME Data, AllThere, NEW k \in 0..Len(buffer), arrived' = arrived, stripped' = stripped,
           taken' = taken \o SubSeq(buffer, 1, k), buffer' = From(buffer, k + 1)
    PROVE  AllThere'
<1>1. /\ taken \in Seq(1..arrived) /\ arrived \in Nat /\ Holds(arrived, buffer)
      /\ Increasing(taken) /\ Before(taken, buffer)
      /\ Elements(taken) \cup Elements(buffer) = (1..arrived) \ stripped
      /\ stripped \subseteq Nulls \cap (1..arrived)
  BY TakenType DEF AllThere
<1>2. LET u == taken \o SubSeq(buffer, 1, k)
          c == From(buffer, k + 1)
      IN  /\ u \in Seq(1..arrived) /\ Increasing(u) /\ Before(u, c)
          /\ Elements(u) \cup Elements(c) = Elements(taken) \cup Elements(buffer)
  BY <1>1, MovesOver
<1>. QED  BY <1>1, <1>2 DEF AllThere

\* Nothing is taken.
LEMMA LeavesAlone ==
    ASSUME AllThere, UNCHANGED <<arrived, buffer, taken, stripped>>
    PROVE  AllThere'
BY DEF AllThere, Before, Increasing, Elements

LEMMA EofThere ==
    ASSUME Data, Control, AllThere, NEW full \in BOOLEAN, ReadEof(full)
    PROVE  AllThere'
<1>1. /\ taken \in Seq(1..arrived) /\ arrived \in Nat /\ Holds(arrived, buffer)
      /\ buffer \in Seq(1..arrived) /\ Len(buffer) \in Nat
  BY TakenType DEF Holds
<1>2. PICK transfer \in BOOLEAN :
        /\ taken' = taken \o IF transfer THEN buffer ELSE Forgotten(buffer)
        /\ buffer' = IF transfer THEN <<>> ELSE Shuffled(buffer)
  BY DEF ReadEof
<1>3. arrived' = arrived /\ stripped' = stripped
  BY DEF ReadEof
<1>4. CASE transfer
  <2> DEFINE k == Len(buffer)
  <2>1. SubSeq(buffer, 1, k) = buffer /\ k \in 0..Len(buffer)
    BY <1>1, SubSeqFull
  <2>2. From(buffer, k + 1) = <<>>
    BY <1>1, SubSeqEmpty DEF From
  <2>3. taken' = taken \o SubSeq(buffer, 1, k) /\ buffer' = From(buffer, k + 1)
    BY <1>2, <1>4, <2>1, <2>2
  <2>. HIDE DEF k
  <2>. QED  BY <1>3, <2>1, <2>3, TakesFirst
<1>5. CASE ~transfer
  <2> DEFINE k == Len(Forgotten(buffer))
  <2>1. k \in 0..Len(buffer) /\ Shuffled(buffer) = From(buffer, k + 1)
    BY ShuffleFacts
  <2>2. Forgotten(buffer) = SubSeq(buffer, 1, k)
    BY ForgetsFirst
  <2>3. taken' = taken \o SubSeq(buffer, 1, k) /\ buffer' = From(buffer, k + 1)
    BY <1>2, <1>5, <2>1, <2>2
  <2>. HIDE DEF k
  <2>. QED  BY <1>3, <2>1, <2>3, TakesFirst
<1>. QED  BY <1>4, <1>5

LEMMA ProcessThere ==
    ASSUME Data, AllThere, NEW n \in 0..Len(buffer), NEW transfer \in BOOLEAN, Process(n, transfer)
    PROVE  AllThere'
<1>1. arrived' = arrived /\ stripped' = stripped
  BY DEF Process
<1>2. CASE transfer
  <2>1. taken' = taken \o SubSeq(buffer, 1, n) /\ buffer' = From(buffer, n + 1)
    BY <1>2 DEF Process
  <2>. QED  BY <1>1, <2>1, TakesFirst
<1>3. CASE ~transfer
  BY <1>1, <1>3, LeavesAlone DEF Process
<1>. QED  BY <1>2, <1>3

\* expAdjust: what it drops it does not put anywhere.
LEMMA AdjustThere ==
    ASSUME Data, Control, Adjusted, UNCHANGED rest_of_data, ~cut => AllThere
    PROVE  ~cut' => AllThere'
<1>1. arrived \in Nat /\ buffer \in Seq(1..arrived) /\ Len(buffer) \in Nat
  BY MatchBufferAssumption DEF Data, Holds
<1>2. buffer' = From(buffer, Excess + 1) /\ cut' = (cut \/ Excess > 0)
  BY DEF Adjusted
<1>3. Excess \in 0..Len(buffer)
  <2>1. Msize(umsize) \in Nat
    BY MatchBufferAssumption DEF Control, Msize
  <2>. QED  BY <1>1, <2>1 DEF Excess
<1>4. Excess = 0 => From(buffer, Excess + 1) = buffer
  BY <1>1, SubSeqFull DEF From
<1>5. ~cut' => ~cut /\ buffer' = buffer
  <2>1. ~cut' => ~cut /\ ~(Excess > 0)
    BY <1>2, Zenon
  <2>2. ~(Excess > 0) => Excess = 0
    BY <1>3
  <2>. QED  BY <1>2, <1>4, <2>1, <2>2
<1>. QED  BY <1>5, LeavesAlone DEF rest_of_data

\* Old data looked at again has all been printed.
LEMMA PollOldThere ==
    ASSUME Data, AllThere, Display(buffer, printed), UNCHANGED <<arrived, taken>>
    PROVE  AllThere'
<1>1. /\ Holds(arrived, buffer) /\ printed \in Nat /\ Len(buffer) <= printed /\ Len(buffer) \in Nat
  BY DEF Data, Holds
<1>2. From(buffer, printed + 1) = <<>>
  BY <1>1, SubSeqEmpty DEF From
<1>3. buffer' = buffer /\ stripped' = stripped
  BY <1>2 DEF Display
<1>. QED  BY <1>3, LeavesAlone

LEMMA StepThere ==
    ASSUME IInv, ~cut => AllThere, [BufferNext]_bufferVars
    PROVE  ~cut' => AllThere'
<1>0. Data /\ Control /\ DataStep
  BY EachDataStep DEF IInv
<1>1. CASE \E full \in BOOLEAN : (ReadData(full) \/ ReadEof(full)) /\ cut' = cut
  BY <1>0, <1>1, ReadThere, EofThere
<1>2. CASE \E n \in 0..Len(buffer), transfer \in BOOLEAN : Process(n, transfer) /\ cut' = cut
  BY <1>0, <1>2, ProcessThere
<1>3. CASE Adjusted /\ UNCHANGED rest_of_data
  BY <1>0, <1>3, AdjustThere
<1>4. CASE Display(buffer, printed) /\ UNCHANGED <<arrived, taken, surprised, cut>>
  BY <1>0, <1>4, PollOldThere
<1>5. CASE UNCHANGED <<arrived, buffer, taken, stripped, cut>>
  BY <1>5, LeavesAlone
<1>. QED  BY <1>0, <1>1, <1>2, <1>3, <1>4, <1>5 DEF DataStep

LEMMA NoneForgotten == ASSUME Data, ~cut => AllThere PROVE NothingForgotten
<1>. SUFFICES ASSUME ~cut
              PROVE  /\ taken \o buffer = Selected(Upto(arrived), (1..arrived) \ stripped)
                     /\ stripped \subseteq Nulls
  BY DEF NothingForgotten
<1>1. /\ taken \in Seq(1..arrived) /\ arrived \in Nat /\ buffer \in Seq(1..arrived)
      /\ Increasing(taken) /\ Increasing(buffer) /\ Before(taken, buffer)
      /\ Elements(taken) \cup Elements(buffer) = (1..arrived) \ stripped
      /\ stripped \subseteq Nulls
  BY TakenType, HoldsIncreasing DEF AllThere, Holds
<1> DEFINE s == taken \o buffer
           K == (1..arrived) \ stripped
           n == arrived
<1>2. s \in Seq(1..n) /\ Increasing(s)
  BY <1>1, JoinedIncreases, ConcatProperties
<1>3. K = Elements(s)
  <2> DEFINE S == 1..n
  <2>1. taken \in Seq(S) /\ buffer \in Seq(S)
    BY <1>1
  <2>. HIDE DEF S
  <2>2. Elements(taken \o buffer) = Elements(taken) \cup Elements(buffer)
    BY <2>1, ElementsJoined
  <2>. QED  BY <1>1, <2>2
<1>4. n \in Nat
  BY <1>1
<1>. HIDE DEF s, K, n
<1>5. s = Selected(Upto(n), K)
  BY <1>2, <1>3, <1>4, OneIncreasing
<1>. QED  BY <1>1, <1>5 DEF s, K, n

\* Unless expAdjust has dropped characters, what left the buffer by way of
\* expect_out(buffer) and what is still in it are, in order, everything that was
\* read but nulls: exp_buffer_shuffle, the transfer of a match and that of the end
\* of file each move the characters they take out (expect.c:1819-1904, 2230-2262).
THEOREM ForgetsNothing == BufferSpec => []NothingForgotten
<1>1. BufferInit => (IInv /\ (~cut => AllThere))
  <2>. SUFFICES ASSUME BufferInit PROVE AllThere
    BY InitGood
  <2>1. taken = <<>> /\ buffer = <<>> /\ arrived = 0 /\ stripped = {}
    BY DEF BufferInit
  <2>2. Elements(<<>>) = {} /\ Len(<<>>) = 0
    BY DEF Elements
  <2>3. 1..0 = {}
    OBVIOUS
  <2>. QED  BY <2>1, <2>2, <2>3 DEF AllThere, Increasing, Before
<1>2. IInv /\ (~cut => AllThere) /\ [BufferNext]_bufferVars => IInv' /\ (~cut' => AllThere')
  BY NextGood, StepThere
<1>3. IInv /\ (~cut => AllThere) => NothingForgotten
  BY NoneForgotten DEF IInv
<1>. QED  BY <1>1, <1>2, <1>3, PTL DEF BufferSpec
-----------------------------------------------------------------------------
(* Who looks at the buffer, in scripts that keep to the manual.            *)

FullAt(b, m) == Len(b) + UtfMax >= m /\ b # <<>>

Scripts(s) == \A k \in 1..Len(s) : s[k].kind = "script"
NoHandler(s) == \A k \in 1..Len(s) : s[k].kind # "handler"
NoKeys(s) == \A k \in 1..Len(s) : ~s[k].mine

\* Below the handler of the background there are scripts only.
OneHandler(s, full) == \A k \in 1..Len(s) : s[k].kind = "handler" =>
    s[k].full = full /\ \A j \in 1..Len(s) : k < j => s[j].kind = "script"

\* What may lie above the command that has the key: it does not touch the buffer.
Idle(f) == ~f.mine /\ (f.kind = "script" \/ (f.kind = "expect" /\ f.pc = "begin"))

\* A command that waits has seen the buffer b, and was asked if it is full.
Seen(f, b, m) == f.pc = "poll" => f.seen = b /\ ~(f.full /\ FullAt(b, m))

Keyed(s, b, m) == \A k \in 1..Len(s) : s[k].mine =>
    /\ s[k].kind = "expect" /\ s[k].pc # "begin"
    /\ \A j \in 1..Len(s) : j < k => Idle(s[j])
    /\ Seen(s[k], b, m)

Order ==
    /\ bg.status = "armed" => Scripts(stack)
    /\ bg.status # "blocked" => NoHandler(stack)
    /\ OneHandler(stack, bg.full)
    /\ "bg" \in Elements(handlers) => bg.status = "armed"

Tried ==
    /\ (bg.status = "armed" /\ buffer # <<>>) => (cut \/ bg.seen = buffer)
    /\ (bg.status = "armed" /\ bg.full /\ FullAt(buffer, msize)) => lowered
    /\ ~lowered => ~surprised

Attentive == Order /\ Keyed(stack, buffer, msize) /\ Tried

LEMMA PushIs ==
    ASSUME NEW f \in Activation, NEW s \in Seq(Activation), NEW c, c = <<f>> \o s
    PROVE  /\ c \in Seq(Activation) /\ Len(c) = Len(s) + 1 /\ Len(s) \in Nat /\ c[1] = f
           /\ \A k \in 1..Len(c) : k = 1 \/ (k - 1 \in 1..Len(s) /\ c[k] = s[k - 1])
<1>1. <<f>> \in Seq(Activation) /\ Len(<<f>>) = 1 /\ <<f>>[1] = f /\ Len(s) \in Nat
  OBVIOUS
<1>2. /\ c \in Seq(Activation) /\ Len(c) = 1 + Len(s)
      /\ \A i \in 1..(1 + Len(s)) : c[i] = IF i <= 1 THEN <<f>>[i] ELSE s[i - 1]
  BY ONLY <1>1, c = <<f>> \o s, s \in Seq(Activation), ConcatProperties
<1>. QED  BY <1>1, <1>2

LEMMA PopIs ==
    ASSUME NEW s \in Seq(Activation), s # <<>>
    PROVE  /\ Tail(s) \in Seq(Activation) /\ Len(s) \in Nat /\ 1 <= Len(s) /\ Len(Tail(s)) = Len(s) - 1
           /\ Head(s) = s[1] /\ Head(s) \in Activation
           /\ \A k \in 1..Len(Tail(s)) : k + 1 \in 1..Len(s) /\ Tail(s)[k] = s[k + 1]
<1>1. Len(s) \in Nat /\ Len(s) # 0
  BY EmptySeq
<1>. QED  BY <1>1, HeadTailProperties

LEMMA PushKeeps ==
    ASSUME NEW f \in Activation, NEW s \in Seq(Activation), NEW full, NEW b, NEW m
    PROVE  LET c == <<f>> \o s
           IN  /\ Scripts(s) /\ f.kind = "script" => Scripts(c)
               /\ NoHandler(s) /\ f.kind # "handler" => NoHandler(c)
               /\ OneHandler(s, full) /\ f.kind # "handler" => OneHandler(c, full)
               /\ Scripts(s) /\ f.full = full => OneHandler(c, full)
               /\ NoKeys(s) /\ ~f.mine => NoKeys(c)
               /\ Keyed(s, b, m) /\ Idle(f) => Keyed(c, b, m)
               /\ NoKeys(s) /\ f.kind = "expect" /\ f.pc # "begin" /\ Seen(f, b, m) => Keyed(c, b, m)
<1> DEFINE c == <<f>> \o s
<1>1. /\ Len(c) = Len(s) + 1 /\ Len(s) \in Nat /\ c[1] = f
      /\ \A k \in 1..Len(c) : k = 1 \/ (k - 1 \in 1..Len(s) /\ c[k] = s[k - 1])
  BY PushIs
<1>2. \A j, k \in 1..Len(c) : j < k => k # 1 /\ (j # 1 => j - 1 < k - 1)
  BY <1>1
<1>. HIDE DEF c
<1>3. Scripts(s) /\ f.kind = "script" => Scripts(c)
  BY <1>1 DEF Scripts
<1>4. NoHandler(s) /\ f.kind # "handler" => NoHandler(c)
  BY <1>1 DEF NoHandler
<1>5. OneHandler(s, full) /\ f.kind # "handler" => OneHandler(c, full)
  <2>. SUFFICES ASSUME OneHandler(s, full), f.kind # "handler",
                       NEW k \in 1..Len(c), c[k].kind = "handler"
                PROVE  c[k].full = full /\ \A j \in 1..Len(c) : k < j => c[j].kind = "script"
    BY DEF OneHandler
  <2>1. k - 1 \in 1..Len(s) /\ c[k] = s[k - 1]
    BY <1>1
  <2>2. c[k].full = full /\ \A i \in 1..Len(s) : k - 1 < i => s[i].kind = "script"
    BY <2>1 DEF OneHandler
  <2>3. ASSUME NEW j \in 1..Len(c), k < j PROVE c[j].kind = "script"
    <3>1. j - 1 \in 1..Len(s) /\ c[j] = s[j - 1] /\ k - 1 < j - 1
      BY <1>1, <2>3
    <3>. QED  BY <2>2, <3>1
  <2>. QED  BY <2>2, <2>3
<1>6. Scripts(s) /\ f.full = full => OneHandler(c, full)
  <2>. SUFFICES ASSUME Scripts(s), f.full = full,
                       NEW k \in 1..Len(c), c[k].kind = "handler"
                PROVE  c[k].full = full /\ \A j \in 1..Len(c) : k < j => c[j].kind = "script"
    BY DEF OneHandler
  <2>1. \A j \in 1..Len(c) : j = 1 \/ c[j].kind = "script"
    BY <1>1 DEF Scripts
  <2>. QED  BY <1>1, <1>2, <2>1
<1>7. NoKeys(s) /\ ~f.mine => NoKeys(c)
  BY <1>1 DEF NoKeys
<1>8. Keyed(s, b, m) /\ Idle(f) => Keyed(c, b, m)
  <2>. SUFFICES ASSUME Keyed(s, b, m), Idle(f), NEW k \in 1..Len(c), c[k].mine
                PROVE  /\ c[k].kind = "expect" /\ c[k].pc # "begin"
                       /\ \A j \in 1..Len(c) : j < k => Idle(c[j])
                       /\ Seen(c[k], b, m)
    BY DEF Keyed
  <2>1. k - 1 \in 1..Len(s) /\ c[k] = s[k - 1]
    BY <1>1 DEF Idle
  <2>2. /\ c[k].kind = "expect" /\ c[k].pc # "begin" /\ Seen(c[k], b, m)
        /\ \A i \in 1..Len(s) : i < k - 1 => Idle(s[i])
    BY <2>1 DEF Keyed
  <2>3. ASSUME NEW j \in 1..Len(c), j < k PROVE Idle(c[j])
    <3>1. CASE j = 1
      BY <1>1, <3>1
    <3>2. CASE j # 1
      <4>1. j - 1 \in 1..Len(s) /\ c[j] = s[j - 1] /\ j - 1 < k - 1
        BY <1>1, <2>3, <3>2
      <4>. QED  BY <2>2, <4>1
    <3>. QED  BY <3>1, <3>2
  <2>. QED  BY <2>2, <2>3
<1>9. NoKeys(s) /\ f.kind = "expect" /\ f.pc # "begin" /\ Seen(f, b, m) => Keyed(c, b, m)
  <2>. SUFFICES ASSUME NoKeys(s), f.kind = "expect", f.pc # "begin", Seen(f, b, m),
                       NEW k \in 1..Len(c), c[k].mine
                PROVE  /\ c[k].kind = "expect" /\ c[k].pc # "begin"
                       /\ \A j \in 1..Len(c) : j < k => Idle(c[j])
                       /\ Seen(c[k], b, m)
    BY DEF Keyed
  <2>1. k = 1
    BY <1>1 DEF NoKeys
  <2>. QED  BY <1>1, <1>2, <2>1
<1>. QED  BY <1>3, <1>4, <1>5, <1>6, <1>7, <1>8, <1>9 DEF c

LEMMA PopKeeps ==
    ASSUME NEW s \in Seq(Activation), s # <<>>, NEW full, NEW b, NEW m
    PROVE  /\ Scripts(s) => Scripts(Tail(s)) /\ Head(s).kind = "script"
           /\ NoHandler(s) => NoHandler(Tail(s)) /\ Head(s).kind # "handler"
           /\ OneHandler(s, full) => OneHandler(Tail(s), full)
           /\ OneHandler(s, full) /\ Head(s).kind = "handler" => Scripts(Tail(s)) /\ Head(s).full = full
           /\ Keyed(s, b, m) => Keyed(Tail(s), b, m)
           /\ Keyed(s, b, m) /\ ~Idle(Head(s)) => NoKeys(Tail(s))
           /\ Keyed(s, b, m) /\ Head(s).mine => Head(s).kind = "expect" /\ Head(s).pc # "begin" /\ Seen(Head(s), b, m)
<1> DEFINE t == Tail(s)
<1>1. /\ Len(s) \in Nat /\ 1 \in 1..Len(s) /\ Len(t) = Len(s) - 1 /\ Head(s) = s[1]
      /\ \A k \in 1..Len(t) : k + 1 \in 1..Len(s) /\ t[k] = s[k + 1]
  BY PopIs
<1>2. \A j, k \in 1..Len(t) : j < k => j + 1 < k + 1
  BY <1>1
<1>2a. \A k \in 1..Len(t) : 1 < k + 1
  BY <1>1
<1>. HIDE DEF t
<1>3. Scripts(s) => Scripts(t) /\ Head(s).kind = "script"
  BY <1>1 DEF Scripts
<1>4. NoHandler(s) => NoHandler(t) /\ Head(s).kind # "handler"
  BY <1>1 DEF NoHandler
<1>5. OneHandler(s, full) => OneHandler(t, full)
  BY <1>1, <1>2 DEF OneHandler
<1>6. OneHandler(s, full) /\ Head(s).kind = "handler" => Scripts(t) /\ Head(s).full = full
  BY <1>1, <1>2a DEF OneHandler, Scripts
<1>7. Keyed(s, b, m) => Keyed(t, b, m)
  BY <1>1, <1>2 DEF Keyed
<1>8. Keyed(s, b, m) /\ ~Idle(Head(s)) => NoKeys(t)
  BY <1>1, <1>2a DEF Keyed, NoKeys
<1>9. Keyed(s, b, m) /\ Head(s).mine => Head(s).kind = "expect" /\ Head(s).pc # "begin" /\ Seen(Head(s), b, m)
  BY <1>1 DEF Keyed
<1>. QED  BY <1>3, <1>4, <1>5, <1>6, <1>7, <1>8, <1>9 DEF t

LEMMA NoKeysKeyed == ASSUME NEW s, NoKeys(s), NEW b, NEW m PROVE Keyed(s, b, m)
BY DEF NoKeys, Keyed

\* What Noted and NewKey leave as it was.
LEMMA EachKeeps ==
    ASSUME NEW s \in Seq(Activation), NEW c \in {NewKey(s), Noted(s)}, NEW full, NEW b, NEW m
    PROVE  /\ Scripts(s) => Scripts(c)
           /\ NoHandler(s) => NoHandler(c)
           /\ OneHandler(s, full) => OneHandler(c, full)
           /\ NoKeys(NewKey(s))
           /\ Keyed(s, b, m) => Keyed(Noted(s), b, m)
<1>1. Len(s) \in Nat /\ DOMAIN s = 1..Len(s) /\ \A k \in 1..Len(s) : s[k] \in Activation
  OBVIOUS
<1>2. /\ DOMAIN c = 1..Len(s) /\ Len(c) = Len(s)
      /\ \A k \in 1..Len(s) : c[k].kind = s[k].kind /\ c[k].full = s[k].full
  <2>1. c \in Seq(Activation)
    BY EachMoves
  <2>2. DOMAIN c = DOMAIN s
    BY DEF NewKey, Noted
  <2>3. Len(c) = Len(s)
    BY <1>1, <2>1, <2>2
  <2>4. \A k \in 1..Len(s) : c[k] = [s[k] EXCEPT !.mine = FALSE] \/ c[k] = [s[k] EXCEPT !.rest = FALSE]
    BY <1>1 DEF NewKey, Noted
  <2>5. \A f \in Activation : /\ [f EXCEPT !.mine = FALSE].kind = f.kind
                              /\ [f EXCEPT !.mine = FALSE].full = f.full
                              /\ [f EXCEPT !.rest = FALSE].kind = f.kind
                              /\ [f EXCEPT !.rest = FALSE].full = f.full
    BY DEF Activation
  <2>. QED  BY <1>1, <2>2, <2>3, <2>4, <2>5
<1>3. Scripts(s) => Scripts(c)
  BY <1>2 DEF Scripts
<1>4. NoHandler(s) => NoHandler(c)
  BY <1>2 DEF NoHandler
<1>5. OneHandler(s, full) => OneHandler(c, full)
  BY <1>2 DEF OneHandler
<1>6. NoKeys(NewKey(s))
  <2> DEFINE q == NewKey(s)
  <2>1. q \in Seq(Activation) /\ DOMAIN q = DOMAIN s
    BY EachMoves DEF NewKey
  <2>2. Len(q) = Len(s)
    BY <1>1, <2>1
  <2>3. \A k \in 1..Len(s) : q[k] = [s[k] EXCEPT !.mine = FALSE]
    BY <1>1 DEF NewKey
  <2>4. \A f \in Activation : [f EXCEPT !.mine = FALSE].mine = FALSE
    BY DEF Activation
  <2>. HIDE DEF q
  <2>5. NoKeys(q)
    BY <1>1, <2>2, <2>3, <2>4 DEF NoKeys
  <2>. QED  BY <2>5 DEF q
<1>7. Keyed(s, b, m) => Keyed(Noted(s), b, m)
  <2> DEFINE q == Noted(s)
  <2>1. q \in Seq(Activation) /\ DOMAIN q = DOMAIN s
    BY EachMoves DEF Noted
  <2>2. Len(q) = Len(s)
    BY <1>1, <2>1
  <2>3. \A k \in 1..Len(s) : q[k] = [s[k] EXCEPT !.rest = FALSE]
    BY <1>1 DEF Noted
  <2>4. \A f \in Activation :
           LET g == [f EXCEPT !.rest = FALSE]
           IN  g.mine = f.mine /\ g.kind = f.kind /\ g.pc = f.pc /\ g.seen = f.seen /\ g.full = f.full
    BY DEF Activation
  <2>. HIDE DEF q
  <2>5. \A k \in 1..Len(s) : /\ q[k].mine = s[k].mine /\ q[k].kind = s[k].kind /\ q[k].pc = s[k].pc
                             /\ q[k].seen = s[k].seen /\ q[k].full = s[k].full
    BY <1>1, <2>3, <2>4
  <2>6. \A k \in 1..Len(s) : (Idle(s[k]) => Idle(q[k])) /\ (Seen(s[k], b, m) => Seen(q[k], b, m))
    BY <2>5 DEF Idle, Seen
  <2>7. Keyed(s, b, m) => Keyed(q, b, m)
    BY <2>2, <2>5, <2>6 DEF Keyed
  <2>. QED  BY <2>7 DEF q
<1>. QED  BY <1>3, <1>4, <1>5, <1>6, <1>7

LEMMA HandlersAre ==
    ASSUME NEW h \in Seq({"fg", "bg"})
    PROVE  /\ \A x : "bg" \in Elements(Without(h, x)) => "bg" \in Elements(h)
           /\ "bg" \notin Elements(Without(h, "bg"))
           /\ "bg" \in Elements(<<"fg">> \o h) => "bg" \in Elements(h)
           /\ "bg" \notin Elements(h) => Without(h, "fg") = <<>>
           /\ h # <<>> /\ Head(h) = "bg" => "bg" \in Elements(h)
<1> DEFINE S == {"fg", "bg"}
<1>1. h \in Seq(S) /\ Len(h) \in Nat /\ \A i \in 1..Len(h) : h[i] \in S
  OBVIOUS
<1>2. \A y : y \in Elements(h) <=> \E i \in 1..Len(h) : h[i] = y
  BY <1>1, ElementsAre
<1>. HIDE DEF S
<1>3. ASSUME NEW x
      PROVE  /\ Without(h, x) \in Seq(S) /\ x \notin Elements(Without(h, x))
             /\ \A y \in Elements(Without(h, x)) : y \in Elements(h)
             /\ Len(Without(h, x)) \in Nat
             /\ \A j \in 1..Len(Without(h, x)) : Without(h, x)[j] \in Elements(Without(h, x))
  <2> DEFINE K == Kept(h, x)
             w == Without(h, x)
  <2>1. K \in SUBSET (1..Len(h)) /\ w = Selected(h, K)
    BY DEF Kept, Without
  <2>2. \A j \in 1..Len(w) : w[j] # x
    BY <1>1, WithoutProperties
  <2>. HIDE DEF K, w
  <2>3. w \in Seq(S) /\ Len(w) = Cardinality(K) /\ \A j \in 1..Cardinality(K) : \E i \in K : w[j] = h[i]
    BY <1>1, <2>1, SelectedProperties
  <2>4. \A y : y \in Elements(w) <=> \E i \in 1..Len(w) : w[i] = y
    BY <2>3, ElementsAre
  <2>5. Len(w) \in Nat
    BY <2>3
  <2>6. \A y \in Elements(w) : y \in Elements(h)
    BY <1>2, <2>1, <2>3, <2>4
  <2>7. x \notin Elements(w)
    BY <2>2, <2>4
  <2>8. \A j \in 1..Len(w) : w[j] \in Elements(w)
    BY <2>4
  <2>. QED  BY <2>3, <2>5, <2>6, <2>7, <2>8 DEF w
<1>4. "bg" \in Elements(<<"fg">> \o h) => "bg" \in Elements(h)
  <2>1. <<"fg">> \in Seq(S) /\ Elements(<<"fg">>) = {"fg"}
    BY DEF S, Elements
  <2> DEFINE a == <<"fg">>
  <2>2. a \in Seq(S) /\ h \in Seq(S)
    BY <1>1, <2>1
  <2>. HIDE DEF a
  <2>3. Elements(a \o h) = Elements(a) \cup Elements(h)
    BY ONLY <2>2, ElementsJoined
  <2>. QED  BY <2>1, <2>3 DEF a
<1>5. "bg" \notin Elements(h) => Without(h, "fg") = <<>>
  <2> DEFINE w == Without(h, "fg")
  <2>1. /\ w \in Seq(S) /\ "fg" \notin Elements(w) /\ (\A y \in Elements(w) : y \in Elements(h))
        /\ Len(w) \in Nat /\ \A j \in 1..Len(w) : w[j] \in Elements(w)
    BY <1>3
  <2>2. \A y \in Elements(h) : y \in {"fg", "bg"}
    BY <1>1, <1>2 DEF S
  <2>. HIDE DEF w
  <2>3. "bg" \notin Elements(h) => Len(w) = 0
    <3>. SUFFICES ASSUME "bg" \notin Elements(h), Len(w) # 0 PROVE FALSE
      BY <2>1
    <3>1. 1 \in 1..Len(w)
      BY <2>1
    <3>. QED  BY <2>1, <2>2, <3>1
  <2>4. Len(w) = 0 => w = <<>>
    BY <2>1, EmptySeq
  <2>. QED  BY <2>3, <2>4 DEF w
<1>6. h # <<>> /\ Head(h) = "bg" => "bg" \in Elements(h)
  <2>. SUFFICES ASSUME h # <<>>, Head(h) = "bg" PROVE "bg" \in Elements(h)
    OBVIOUS
  <2>1. Len(h) # 0 /\ Head(h) = h[1]
    BY <1>1, EmptySeq
  <2>2. 1 \in 1..Len(h)
    BY <1>1, <2>1
  <2>. QED  BY <1>2, <2>1, <2>2
<1>. QED  BY <1>3, <1>4, <1>5, <1>6

\* expAdjust: the key stays only where the buffer did.
LEMMA AdjustFacts ==
    ASSUME IInv, Adjusted
    PROVE  /\ Resized \/ (buffer' = buffer /\ msize' = msize)
           /\ ~cut' => buffer' = buffer
           /\ cut => cut'
           /\ lowered => lowered'
           /\ buffer' # <<>> => buffer # <<>>
           /\ ~lowered' => (FullAt(buffer', msize') => FullAt(buffer, msize))
<1>1. arrived \in Nat /\ buffer \in Seq(1..arrived) /\ Holds(arrived, buffer) /\ Len(buffer) \in Nat
      /\ UtfMax \in Nat
  BY MatchBufferAssumption DEF IInv, Data, Holds
<1>2. /\ buffer' = From(buffer, Excess + 1) /\ msize' = Msize(umsize)
      /\ cut' = (cut \/ Excess > 0) /\ lowered' = (lowered \/ Msize(umsize) < msize)
  BY DEF Adjusted
<1>3. msize \in Nat /\ Msize(umsize) \in Nat
  BY MatchBufferAssumption DEF IInv, Control, Msize
<1>4. Excess \in 0..Len(buffer) /\ (~Resized => Excess = 0)
  BY <1>1, <1>3 DEF Excess
<1>5. Excess = 0 => buffer' = buffer
  BY <1>1, <1>2, SubSeqFull DEF From
<1>6. ~Resized => msize' = msize
  BY <1>2 DEF Resized
<1>7. ~cut' => buffer' = buffer
  <2>1. ~cut' => ~(Excess > 0)
    BY <1>2, Zenon
  <2>2. ~(Excess > 0) => Excess = 0
    BY <1>4
  <2>. QED  BY <1>5, <2>1, <2>2
<1>8. (cut => cut') /\ (lowered => lowered')
  BY <1>2, Zenon
<1>9. Len(buffer') \in Nat /\ Len(buffer') <= Len(buffer)
  <2> DEFINE k == Excess + 1
  <2>1. k \in 1..(Len(buffer) + 1)
    BY <1>1, <1>4
  <2>2. buffer' = From(buffer, k)
    BY <1>2
  <2>. HIDE DEF k
  <2>3. Len(From(buffer, k)) = Len(buffer) - k + 1
    BY <1>1, <2>1, FromHolds
  <2>. QED  BY <1>1, <2>1, <2>2, <2>3
<1>10. buffer' # <<>> => buffer # <<>>
  <2>. SUFFICES ASSUME buffer = <<>> PROVE buffer' = <<>>
    OBVIOUS
  <2>1. Len(buffer) = 0
    OBVIOUS
  <2>2. Excess = 0
    BY <1>4, <2>1
  <2>. QED  BY <1>5, <2>2
<1>11. ~lowered' => ~(Msize(umsize) < msize)
  BY <1>2, Zenon
<1>12. ~lowered' => (FullAt(buffer', msize') => FullAt(buffer, msize))
  <2>. SUFFICES ASSUME ~(Msize(umsize) < msize), FullAt(buffer', msize')
                PROVE  FullAt(buffer, msize)
    BY <1>11
  <2>1. Len(buffer') + UtfMax >= Msize(umsize) /\ buffer # <<>>
    BY <1>2, <1>10 DEF FullAt
  <2>. QED  BY <1>1, <1>3, <1>9, <2>1 DEF FullAt
<1>. QED  BY <1>5, <1>4, <1>6, <1>7, <1>8, <1>10, <1>12

\* A read forgets characters of a full buffer only.
LEMMA ReadFacts ==
    ASSUME Data, NEW full \in BOOLEAN, ReadData(full) \/ ReadEof(full), surprised', ~surprised
    PROVE  full /\ FullAt(buffer, msize)
<1>1. full /\ Forgotten(buffer) # <<>>
  BY DEF ReadData, ReadEof
<1>2. SubSeq(<<>>, 1, 0) = <<>>
  <2>1. <<>> \in Seq(Nat)
    OBVIOUS
  <2>. QED  BY <2>1, SubSeqEmpty
<1>3. Full(buffer) /\ buffer # <<>>
  BY <1>1, <1>2 DEF Forgotten, Half
<1>. QED  BY <1>1, <1>3 DEF Full, FullAt

\* The activations after expAdjust.
LEMMA AdjustKeeps ==
    ASSUME IInv, Adjusted, Keyed(stack, buffer, msize), NEW full
    PROVE  LET s == AfterAdjust(stack)
           IN  /\ s \in Seq(Activation)
               /\ Keyed(s, buffer', msize')
               /\ Scripts(stack) => Scripts(s)
               /\ NoHandler(stack) => NoHandler(s)
               /\ OneHandler(stack, full) => OneHandler(s, full)
<1> DEFINE s == AfterAdjust(stack)
<1>1. stack \in Seq(Activation)
  BY DEF IInv, Control
<1>2. CASE Resized
  <2>1. s = NewKey(stack)
    BY <1>2 DEF AfterAdjust
  <2>2. s \in Seq(Activation) /\ NoKeys(s)
        /\ (Scripts(stack) => Scripts(s)) /\ (NoHandler(stack) => NoHandler(s))
        /\ (OneHandler(stack, full) => OneHandler(s, full))
    BY <1>1, <2>1, EachMoves, EachKeeps
  <2>. HIDE DEF s
  <2>3. Keyed(s, buffer', msize')
    BY <2>2, NoKeysKeyed
  <2>. QED  BY <2>2, <2>3 DEF s
<1>3. CASE ~Resized
  <2>1. s = stack /\ buffer' = buffer /\ msize' = msize
    BY <1>3, AdjustFacts DEF AfterAdjust
  <2>. QED  BY <1>1, <2>1
<1>. QED  BY <1>2, <1>3

-----------------------------------------------------------------------------
\* Commands that set a number.
LEMMA SetAttends ==
    ASSUME Attentive, UNCHANGED <<stack, handlers, bg, buffer, msize, cut, lowered, surprised>>
    PROVE  Attentive'
BY DEF Attentive, Order, Tried, Scripts, NoHandler, OneHandler, Keyed, Idle, Seen, FullAt, Elements

LEMMA ScriptsNoHandler == ASSUME NEW s, Scripts(s) PROVE NoHandler(s)
BY DEF Scripts, NoHandler

\* Validate, Expect, Declare, Undeclare.
LEMMA AdjustTried ==
    ASSUME IInv, Tried, Adjusted, surprised' = surprised,
           \/ bg'.status # "armed" \/ buffer' = <<>>
           \/ bg' = bg
    PROVE  Tried'
<1>1. /\ ~cut' => buffer' = buffer
      /\ cut => cut'
      /\ lowered => lowered'
      /\ buffer' # <<>> => buffer # <<>>
      /\ ~lowered' => (FullAt(buffer', msize') => FullAt(buffer, msize))
  BY AdjustFacts
<1>2. {cut, lowered, cut', lowered'} \subseteq BOOLEAN
  BY DEF Adjusted, IInv, Data, Control
<1>3. FullAt(buffer', msize') => buffer' # <<>>
  BY DEF FullAt
<1>4. (bg'.status = "armed" /\ buffer' # <<>>) => (cut' \/ bg'.seen = buffer')
  BY <1>1, <1>2 DEF Tried
<1>5. (bg'.status = "armed" /\ bg'.full /\ FullAt(buffer', msize')) => lowered'
  BY <1>1, <1>2, <1>3 DEF Tried
<1>6. ~lowered' => ~surprised'
  BY <1>1, <1>2 DEF Tried
<1>. QED  BY <1>4, <1>5, <1>6 DEF Tried

LEMMA ValidateAttends ==
    ASSUME IInv, Attentive, Validate \/ Undeclare
    PROVE  Attentive'
<1>0. Adjusted /\ stack' = AfterAdjust(stack) /\ surprised' = surprised
      /\ handlers \in Seq({"fg", "bg"})
  BY DEF Validate, Undeclare, rest_of_data, IInv, Control
<1>1. /\ Keyed(stack', buffer', msize')
      /\ Scripts(stack) => Scripts(stack')
      /\ NoHandler(stack) => NoHandler(stack')
      /\ \A full \in {bg.full, bg'.full} : OneHandler(stack, full) => OneHandler(stack', full)
  BY <1>0, AdjustKeeps DEF Attentive
<1>2. CASE Validate
  <2>1. bg' = bg /\ handlers' = handlers
    BY <1>2 DEF Validate
  <2>2. Tried'
    BY <1>0, <2>1, AdjustTried DEF Attentive
  <2>3. Order'
    BY <1>1, <2>1 DEF Attentive, Order, Elements
  <2>. QED  BY <1>1, <2>2, <2>3 DEF Attentive
<1>3. CASE Undeclare
  <2>1. bg'.status = "unarmed" /\ bg.status = "armed" /\ handlers' = Without(handlers, "bg")
    BY <1>3 DEF Undeclare
  <2>2. Tried'
    BY <1>0, <2>1, AdjustTried DEF Attentive
  <2>3. "bg" \notin Elements(handlers')
    BY <1>0, <2>1, HandlersAre
  <2>4. Scripts(stack')
    BY <1>1, <2>1 DEF Attentive, Order
  <2>5. NoHandler(stack') /\ OneHandler(stack', bg'.full)
    BY <2>4 DEF Scripts, NoHandler, OneHandler
  <2>6. Order'
    BY <2>1, <2>3, <2>4, <2>5 DEF Order
  <2>. QED  BY <1>1, <2>2, <2>6 DEF Attentive
<1>. QED  BY <1>2, <1>3

LEMMA ExpectAttends ==
    ASSUME Manual, IInv, Attentive, NEW full \in BOOLEAN, Expect(full)
    PROVE  Attentive'
<1> DEFINE f == NewAct("expect", full, "begin")
           s == AfterAdjust(stack)
<1>0. Adjusted /\ stack' = <<f>> \o s /\ surprised' = surprised /\ bg' = bg /\ handlers' = handlers
      /\ bg.status # "armed"
  BY DEF Expect, rest_of_data
<1>1. /\ s \in Seq(Activation) /\ Keyed(s, buffer', msize')
      /\ NoHandler(stack) => NoHandler(s)
      /\ OneHandler(stack, bg.full) => OneHandler(s, bg.full)
  BY <1>0, AdjustKeeps DEF Attentive
<1>2. f \in Activation /\ Idle(f) /\ f.kind # "handler"
  <2>1. f \in Activation
    BY NewActType DEF Pcs
  <2>2. f.kind = "expect" /\ f.pc = "begin" /\ f.mine = FALSE
    BY DEF NewAct
  <2>. QED  BY <2>1, <2>2 DEF Idle
<1>. HIDE DEF f, s
<1>3. /\ Keyed(stack', buffer', msize')
      /\ NoHandler(s) => NoHandler(stack')
      /\ OneHandler(s, bg.full) => OneHandler(stack', bg.full)
  BY <1>0, <1>1, <1>2, PushKeeps
<1>4. Tried'
  BY <1>0, AdjustTried DEF Attentive
<1>5. Order'
  BY <1>0, <1>1, <1>3 DEF Attentive, Order, Elements
<1>. QED  BY <1>3, <1>4, <1>5 DEF Attentive

LEMMA DeclareAttends ==
    ASSUME Manual, IInv, Attentive, NEW full \in BOOLEAN, Declare(full)
    PROVE  Attentive'
<1> DEFINE f == NewAct("handler", full, "eval")
           s == AfterAdjust(stack)
<1>0. /\ Adjusted /\ surprised' = surprised /\ stack \in Seq(Activation)
      /\ bg.status = "unarmed" /\ \A k \in DOMAIN stack : stack[k].kind # "expect"
      /\ bg \in [status : {"unarmed", "armed", "blocked"}, full : BOOLEAN, seen : Chars]
  BY DEF Declare, rest_of_data, IInv, Control
<1>1. Scripts(stack)
  <2>1. \A k \in 1..Len(stack) : stack[k].kind \in {"expect", "handler", "script"}
    <3>1. \A k \in 1..Len(stack) : stack[k] \in Activation
      BY <1>0
    <3>. QED  BY <3>1 DEF Activation
  <2>. QED  BY <1>0, <2>1 DEF Attentive, Order, NoHandler, Scripts
<1>2. s \in Seq(Activation) /\ Keyed(s, buffer', msize') /\ Scripts(s)
  BY <1>0, <1>1, AdjustKeeps DEF Attentive
<1>3. NoKeys(s)
  BY <1>2 DEF Keyed, Scripts, NoKeys
<1>4. CASE buffer' = <<>>
  <2>1. stack' = s /\ bg'.status = "armed"
    BY <1>0, <1>4 DEF Declare
  <2>2. Tried'
    BY <1>0, <1>4, AdjustTried DEF Attentive
  <2>3. Order'
    <3>1. Scripts(stack')
      BY <1>2, <2>1
    <3>. QED  BY <2>1, <3>1 DEF Order, Scripts, NoHandler, OneHandler
  <2>. QED  BY <1>2, <2>1, <2>2, <2>3 DEF Attentive
<1>5. CASE buffer' # <<>>
  <2>1. /\ stack' = <<f>> \o s /\ handlers' = handlers
        /\ bg'.status = "blocked" /\ bg'.full = full
    BY <1>0, <1>5 DEF Declare
  <2>2. f \in Activation /\ f.full = full /\ ~f.mine
    <3>1. f \in Activation
      BY NewActType DEF Pcs
    <3>. QED  BY <3>1 DEF NewAct
  <2>. HIDE DEF f, s
  <2>3. NoKeys(stack') /\ OneHandler(stack', full)
    BY <1>2, <1>3, <2>1, <2>2, PushKeeps
  <2>4. Tried'
    BY <1>0, <2>1, AdjustTried DEF Attentive
  <2>5. "bg" \notin Elements(handlers')
    BY <1>0, <2>1 DEF Attentive, Order, Elements
  <2>6. Order'
    BY <2>1, <2>3, <2>5 DEF Order
  <2>. QED  BY <2>3, <2>4, <2>6, NoKeysKeyed DEF Attentive
<1>. QED  BY <1>4, <1>5
-----------------------------------------------------------------------------
LEMMA TriedFrame ==
    ASSUME Tried, UNCHANGED <<buffer, msize, cut, lowered, surprised>>,
           bg' = bg \/ bg'.status # "armed"
    PROVE  Tried'
BY DEF Tried, FullAt

\* The background handler begins: nobody else has looked at the buffer.
LEMMA EnterAttends ==
    ASSUME IInv, Attentive, bg.status = "armed", NEW s \in Seq(Activation), Scripts(s), NoKeys(s),
           NEW walk \in BOOLEAN, NEW armed \in Seq({"fg", "bg"}), Enter(s, walk, armed),
           UNCHANGED <<size, force_read>>
    PROVE  Attentive'
<1>0. bg \in [status : {"unarmed", "armed", "blocked"}, full : BOOLEAN, seen : Chars]
  BY DEF IInv, Control
<1>1. bg'.status = "blocked" /\ bg'.full = bg.full /\ handlers' = Without(armed, "bg")
  BY <1>0 DEF Enter
<1> DEFINE f == [NewAct("handler", bg.full, "eval") EXCEPT !.rest = walk]
           g == NewAct("handler", bg.full, "body")
<1>2. f \in Activation /\ g \in Activation
  BY <1>0, NewActType DEF Pcs
<1>3. f.full = bg.full /\ ~f.mine /\ g.full = bg.full /\ ~g.mine
  BY DEF NewAct
<1>4. stack' \in {<<f>> \o s, <<g>> \o s}
  BY DEF Enter
<1>. HIDE DEF f, g
<1>5. NoKeys(stack') /\ OneHandler(stack', bg.full)
  <2>1. ASSUME NEW a \in {f, g}, stack' = <<a>> \o s PROVE NoKeys(stack') /\ OneHandler(stack', bg.full)
    <3>1. a \in Activation /\ a.full = bg.full /\ ~a.mine
      BY <1>2, <1>3
    <3>2. NoKeys(<<a>> \o s) /\ OneHandler(<<a>> \o s, bg.full)
      BY <3>1, PushKeeps
    <3>. QED  BY <2>1, <3>2
  <2>. QED  BY <1>4, <2>1
<1>6. "bg" \notin Elements(handlers')
  BY <1>1, HandlersAre
<1>7. Order'
  BY <1>1, <1>5, <1>6 DEF Order
<1>8. ~lowered' => ~surprised'
  <2>1. lowered' = lowered
    BY DEF size
  <2>2. ReadData(bg.full) \/ ReadEof(bg.full)
    BY DEF Enter
  <2>3. surprised' /\ ~surprised => bg.full /\ FullAt(buffer, msize)
    BY <1>0, <2>2, ReadFacts DEF IInv
  <2>. QED  BY <2>1, <2>3 DEF Attentive, Tried
<1>9. Tried'
  BY <1>1, <1>8 DEF Tried
<1>. QED  BY <1>5, <1>7, <1>9, NoKeysKeyed DEF Attentive

LEMMA NotifyAttends ==
    ASSUME IInv, Attentive, NEW armed \in Seq({"fg", "bg"}),
           "bg" \in Elements(armed) => "bg" \in Elements(handlers),
           Notify(stack, armed), UNCHANGED <<size, force_read>>
    PROVE  Attentive'
<1> DEFINE rest == Without(armed, "fg")
           walk == "fg" \in Elements(armed)
<1>1. stack \in Seq(Activation) /\ rest \in Seq({"fg", "bg"}) /\ Noted(stack) \in Seq(Activation)
      /\ walk \in BOOLEAN
  BY HandlersMove, EachMoves DEF IInv, Control
<1>2. \/ armed # <<>> /\ Head(armed) = "bg" /\ Enter(stack, walk, armed)
      \/ rest # <<>> /\ Enter(Noted(stack), FALSE, rest)
      \/ /\ rest = <<>> /\ handlers' = rest
         /\ stack' = Noted(stack)
         /\ UNCHANGED <<buffer, surprised, bg>>
  BY DEF Notify
<1>3. /\ armed # <<>> /\ Head(armed) = "bg" => "bg" \in Elements(armed)
      /\ rest # <<>> => "bg" \in Elements(armed)
  BY HandlersAre
<1>. HIDE DEF rest, walk
<1>4. ASSUME "bg" \in Elements(armed)
      PROVE  bg.status = "armed" /\ Scripts(stack) /\ NoKeys(stack)
             /\ Scripts(Noted(stack)) /\ NoKeys(Noted(stack))
  <2>1. bg.status = "armed" /\ Scripts(stack) /\ Keyed(stack, buffer, msize)
    BY <1>4 DEF Attentive, Order
  <2>2. Scripts(Noted(stack)) /\ Keyed(Noted(stack), buffer, msize)
    BY <1>1, <2>1, EachKeeps
  <2>3. \A t : Scripts(t) /\ Keyed(t, buffer, msize) => NoKeys(t)
    BY DEF Scripts, Keyed, NoKeys
  <2>. QED  BY <2>1, <2>2, <2>3
<1>5. CASE armed # <<>> /\ Head(armed) = "bg" /\ Enter(stack, walk, armed)
  BY <1>1, <1>3, <1>4, <1>5, EnterAttends
<1>6. CASE rest # <<>> /\ Enter(Noted(stack), FALSE, rest)
  BY <1>1, <1>3, <1>4, <1>6, EnterAttends
<1>7. CASE /\ rest = <<>> /\ handlers' = rest
           /\ stack' = Noted(stack)
           /\ UNCHANGED <<buffer, surprised, bg>>
  <2>1. UNCHANGED <<msize, cut, lowered>>
    BY DEF size
  <2>2. Tried'
    BY <1>7, <2>1, TriedFrame DEF Attentive
  <2>3. Keyed(stack', buffer', msize')
    BY <1>1, <1>7, <2>1, EachKeeps DEF Attentive
  <2>4. "bg" \notin Elements(handlers')
    BY <1>7 DEF Elements
  <2>5. Order'
    BY <1>1, <1>7, <2>4, EachKeeps DEF Attentive, Order
  <2>. QED  BY <2>2, <2>3, <2>5 DEF Attentive
<1>. QED  BY <1>2, <1>5, <1>6, <1>7

\* A step of what is on top: what is below is as it was, and so is the buffer.
LEMMA TopAttends ==
    ASSUME IInv, Attentive, stack # <<>>, Head(stack).kind # "handler", bg' = bg,
           "bg" \in Elements(handlers') => "bg" \in Elements(handlers),
           NEW below \in {Below, NewKey(Below)}, NEW f \in Activation,
           stack' = below \/ (stack' = <<f>> \o below /\ f.kind = Head(stack).kind)
    PROVE  Order'
<1>1. stack \in Seq(Activation) /\ Below \in Seq(Activation) /\ below \in Seq(Activation)
  <2>1. stack \in Seq(Activation) /\ Below \in Seq(Activation)
    BY Popped DEF IInv, Control
  <2>. QED  BY <2>1, EachMoves
<1>2. /\ Scripts(stack) => Scripts(Below) /\ Head(stack).kind = "script"
      /\ NoHandler(stack) => NoHandler(Below)
      /\ OneHandler(stack, bg.full) => OneHandler(Below, bg.full)
  BY <1>1, PopKeeps DEF Below
<1>3. /\ Scripts(Below) => Scripts(below)
      /\ NoHandler(Below) => NoHandler(below)
      /\ OneHandler(Below, bg.full) => OneHandler(below, bg.full)
  BY <1>1, EachKeeps
<1>4. /\ Scripts(below) /\ f.kind = "script" => Scripts(<<f>> \o below)
      /\ NoHandler(below) /\ f.kind # "handler" => NoHandler(<<f>> \o below)
      /\ OneHandler(below, bg.full) /\ f.kind # "handler" => OneHandler(<<f>> \o below, bg.full)
  BY <1>1, PushKeeps
<1>5. /\ Scripts(stack) => Scripts(stack')
      /\ NoHandler(stack) => NoHandler(stack')
      /\ OneHandler(stack, bg.full) => OneHandler(stack', bg.full)
  BY <1>2, <1>3, <1>4
<1>. QED  BY <1>5 DEF Attentive, Order

LEMMA EventAttends == ASSUME IInv, Attentive, Event \/ OtherEvent \/ OtherEventEnds PROVE Attentive'
<1>0. /\ stack \in Seq(Activation) /\ handlers \in Seq({"fg", "bg"})
      /\ Armed \in Seq({"fg", "bg"})
      /\ "bg" \in Elements(Armed) => "bg" \in Elements(handlers)
  <2>1. stack \in Seq(Activation) /\ handlers \in Seq({"fg", "bg"}) /\ Control
    BY DEF IInv, Control
  <2>2. "bg" \in Elements(<<"fg">> \o handlers) => "bg" \in Elements(handlers)
    BY <2>1, HandlersAre
  <2>. QED  BY <2>1, <2>2, ArmedType DEF Armed
<1>1. CASE Event
  <2>1. Notify(stack, Armed) \/ Notify(stack, handlers)
    BY <1>1 DEF Event
  <2>2. UNCHANGED <<size, force_read>>
    BY <1>1 DEF Event
  <2>. QED  BY <1>0, <2>1, <2>2, NotifyAttends
<1>2. CASE OtherEvent
  <2> DEFINE f == NewAct("script", FALSE, "body")
  <2>1. f \in Activation /\ f.kind = "script" /\ Idle(f)
    <3>1. f \in Activation
      BY NewActType DEF Pcs
    <3>2. f.kind = "script" /\ f.mine = FALSE
      BY DEF NewAct
    <3>. QED  BY <3>1, <3>2 DEF Idle
  <2>2. stack' = <<f>> \o stack /\ handlers' = Armed
        /\ UNCHANGED <<buffer, msize, cut, lowered, surprised, bg>>
    BY <1>2 DEF OtherEvent, data, rest_of_data, size
  <2>. HIDE DEF f
  <2>3. Keyed(stack', buffer', msize')
    BY <1>0, <2>1, <2>2, PushKeeps DEF Attentive
  <2>4. Order'
    BY <1>0, <2>1, <2>2, PushKeeps DEF Attentive, Order
  <2>5. Tried'
    BY <2>2, TriedFrame DEF Attentive
  <2>. QED  BY <2>3, <2>4, <2>5 DEF Attentive
<1>3. CASE OtherEventEnds
  <2>1. /\ stack # <<>> /\ Head(stack).kind = "script" /\ stack' = Below
        /\ UNCHANGED <<buffer, msize, cut, lowered, surprised, bg, handlers>>
    BY <1>3 DEF OtherEventEnds, Top, data, rest_of_data, size
  <2>2. Keyed(stack', buffer', msize')
    BY <1>0, <2>1, PopKeeps DEF Attentive, Below
  <2>3. Head(stack) \in Activation /\ (Elements(handlers))' = Elements(handlers)
    BY <1>0, <2>1, Popped DEF Elements
  <2>4. Order'
    BY <2>1, <2>3, TopAttends
  <2>5. Tried'
    BY <2>1, TriedFrame DEF Attentive
  <2>. QED  BY <2>2, <2>4, <2>5 DEF Attentive
<1>. QED  BY <1>1, <1>2, <1>3

\* Nobody is waiting for the background handler while an expect goes on.
LEMMA TriedInExpect ==
    ASSUME IInv, Attentive, stack # <<>>, Head(stack).kind = "expect", bg' = bg,
           lowered' = lowered, surprised' => surprised \/ lowered
    PROVE  Tried'
<1>1. Scripts(stack) => Head(stack).kind = "script"
  BY PopKeeps DEF IInv, Control
<1>2. bg'.status # "armed"
  BY <1>1 DEF Attentive, Order
<1>. QED  BY <1>2 DEF Attentive, Tried

\* exp_get_next_event, and the read.
LEMMA PollAttends ==
    ASSUME IInv, Attentive, PollOld \/ PollNew
    PROVE  Attentive'
<1>0. /\ stack # <<>> /\ Head(stack).kind = "expect" /\ Head(stack).pc \in {"begin", "poll"}
      /\ stack \in Seq(Activation) /\ Head(stack) \in Activation /\ Below \in Seq(Activation)
      /\ <<>> \in Chars
  BY Popped, EmptySeq DEF PollOld, PollNew, Polling, IInv, Control, Chars
<1>1. CASE PollOld
  <2> DEFINE f == [Head(stack) EXCEPT !.pc = "eval", !.seen = <<>>, !.mine = TRUE]
  <2>1. f \in Activation
    BY <1>0, ActMoves DEF Pcs
  <2>2. f.kind = "expect" /\ f.pc = "eval"
    BY <1>0 DEF Activation
  <2>3. stack' = <<f>> \o NewKey(Below) /\ UNCHANGED <<bg, handlers, size, surprised>>
    BY <1>1 DEF PollOld
  <2>. HIDE DEF f
  <2>4. NewKey(Below) \in Seq(Activation) /\ NoKeys(NewKey(Below))
    BY <1>0, EachMoves, EachKeeps
  <2>5. Seen(f, buffer', msize')
    BY <2>2 DEF Seen
  <2>6. Keyed(stack', buffer', msize')
    BY <2>1, <2>2, <2>3, <2>4, <2>5, PushKeeps
  <2>7. (Elements(handlers))' = Elements(handlers)
    BY <2>3 DEF Elements
  <2>8. Order'
    BY <1>0, <2>1, <2>2, <2>3, <2>7, TopAttends
  <2>9. Tried'
    BY <1>0, <2>3, TriedInExpect DEF size
  <2>. QED  BY <2>6, <2>8, <2>9 DEF Attentive
<1>2. CASE PollNew
  <2>1. Head(stack).mine /\ UNCHANGED <<size, bg>>
    BY <1>2 DEF PollNew, Touched
  <2>2. Head(stack).pc = "poll" /\ ~(Head(stack).full /\ FullAt(buffer, msize)) /\ NoKeys(Below)
    <3>1. Head(stack).pc # "begin" /\ Seen(Head(stack), buffer, msize)
      BY <1>0, <2>1, PopKeeps DEF Attentive
    <3>2. ~Idle(Head(stack))
      BY <2>1 DEF Idle
    <3>3. NoKeys(Below)
      BY <1>0, <3>2, PopKeeps DEF Attentive, Below
    <3>. QED  BY <1>0, <3>1, <3>3 DEF Seen
  <2>3. PICK pc \in {"eval", "body"} : stack' = Afresh(pc) \o Below
    BY <1>2 DEF PollNew
  <2> DEFINE f == [Head(stack) EXCEPT !.pc = pc, !.seen = <<>>]
  <2>4. f \in Activation
    BY <1>0, ActMoves DEF Pcs
  <2>5. f.kind = "expect" /\ f.pc = pc /\ stack' = <<f>> \o Below
    BY <1>0, <2>3 DEF Activation, Afresh
  <2>. HIDE DEF f
  <2>6. Seen(f, buffer', msize')
    BY <2>5 DEF Seen
  <2>7. Keyed(stack', buffer', msize')
    BY <1>0, <2>2, <2>4, <2>5, <2>6, PushKeeps
  <2>8. "bg" \in Elements(handlers') => "bg" \in Elements(handlers)
    BY <1>2 DEF PollNew, Elements
  <2>9. Order'
    BY <1>0, <2>1, <2>4, <2>5, <2>8, TopAttends
  <2>10. surprised' => surprised
    <3>1. ReadData(Head(stack).full) \/ ReadEof(Head(stack).full)
      BY <1>2 DEF PollNew
    <3>2. Head(stack).full \in BOOLEAN /\ Data
      BY <1>0 DEF Activation, IInv
    <3>. QED  BY <2>2, <3>1, <3>2, ReadFacts
  <2>11. Tried'
    BY <1>0, <2>1, <2>10, TriedInExpect DEF size
  <2>. QED  BY <2>7, <2>9, <2>11 DEF Attentive
<1>. QED  BY <1>1, <1>2

\* What an expect that has the key does next, or no longer has it.
LEMMA ExpectTurns ==
    ASSUME IInv, Attentive, stack # <<>>, Head(stack).kind = "expect", Head(stack).pc # "begin",
           bg' = bg, lowered' = lowered, surprised' = surprised,
           "bg" \in Elements(handlers') => "bg" \in Elements(handlers),
           NEW f \in Activation, f.kind = "expect",
           ~f.mine \/ (f.pc # "begin" /\ Seen(f, buffer', msize')),
           stack' = Below \/ stack' = <<f>> \o Below
    PROVE  Attentive'
<1>1. stack \in Seq(Activation) /\ Below \in Seq(Activation)
  BY Popped DEF IInv, Control
<1>2. NoKeys(Below)
  <2>1. ~Idle(Head(stack))
    BY DEF Idle
  <2>. QED  BY <1>1, <2>1, PopKeeps DEF Attentive, Below
<1>3. Keyed(stack', buffer', msize')
  <2>1. CASE stack' = Below
    BY <1>2, <2>1, NoKeysKeyed
  <2>2. CASE stack' = <<f>> \o Below /\ ~f.mine
    <3>1. NoKeys(stack')
      BY <1>1, <1>2, <2>2, PushKeeps
    <3>. QED  BY <3>1, NoKeysKeyed
  <2>3. CASE stack' = <<f>> \o Below /\ f.pc # "begin" /\ Seen(f, buffer', msize')
    BY <1>1, <1>2, <2>3, PushKeeps
  <2>. QED  BY <2>1, <2>2, <2>3
<1>4. Order'
  BY TopAttends
<1>5. Tried'
  BY TriedInExpect
<1>. QED  BY <1>3, <1>4, <1>5 DEF Attentive

LEMMA BodyFields ==
    ASSUME IInv, stack # <<>>, NEW pc \in Pcs
    PROVE  LET f == [Head(stack) EXCEPT !.pc = pc, !.seen = <<>>]
           IN  /\ f \in Activation /\ f.kind = Head(stack).kind /\ f.pc = pc
               /\ f.full = Head(stack).full /\ f.mine = Head(stack).mine
               /\ Afresh(pc) \o Below = <<f>> \o Below
<1>1. Head(stack) \in Activation /\ <<>> \in Chars
  BY Popped, EmptySeq DEF IInv, Control, Chars
<1> DEFINE f == [Head(stack) EXCEPT !.pc = pc, !.seen = <<>>]
<1>2. f \in Activation
  BY <1>1, ActMoves
<1>3. /\ f.kind = Head(stack).kind /\ f.pc = pc
      /\ f.full = Head(stack).full /\ f.mine = Head(stack).mine
  BY <1>1 DEF Activation
<1>4. Afresh(pc) \o Below = <<f>> \o Below
  BY DEF Afresh
<1>. QED  BY <1>2, <1>3, <1>4

LEMMA TurnAttends ==
    ASSUME IInv, Attentive,
           PollClosed \/ Timeout \/ NoMatch \/ BodyEnds \/ (Matches /\ Top("expect", "eval"))
    PROVE  Attentive'
<1>0. /\ stack # <<>> /\ Head(stack).kind = "expect" /\ Head(stack).pc # "begin"
      /\ stack \in Seq(Activation) /\ Head(stack) \in Activation
      /\ buffer \in Chars /\ <<>> \in Chars /\ handlers \in Seq({"fg", "bg"})
  BY Popped, BufferType, EmptySeq
     DEF PollClosed, Timeout, NoMatch, BodyEnds, Top, IInv, Control, Chars
<1>1. bg' = bg /\ UNCHANGED size /\ surprised' = surprised
  BY DEF PollClosed, Timeout, NoMatch, BodyEnds, Matches, Process, data, rest_of_data
<1>2. "bg" \in Elements(handlers') => "bg" \in Elements(handlers)
  <2>1. handlers' \in {handlers, Armed}
    BY DEF PollClosed, Timeout, NoMatch, BodyEnds, Matches
  <2>2. "bg" \in Elements(<<"fg">> \o handlers) => "bg" \in Elements(handlers)
    BY <1>0, HandlersAre
  <2>. QED  BY <2>1, <2>2 DEF Armed
<1> DEFINE f == [Head(stack) EXCEPT !.pc = "body", !.seen = <<>>]
           g == [Head(stack) EXCEPT !.pc = "poll", !.seen = buffer]
           h == [Head(stack) EXCEPT !.pc = "begin", !.mine = FALSE, !.seen = <<>>]
<1>3. f \in Activation /\ g \in Activation /\ h \in Activation
  BY <1>0, ActMoves DEF Pcs
<1>4. /\ f.kind = "expect" /\ f.pc = "body"
      /\ g.kind = "expect" /\ g.pc = "poll" /\ g.seen = buffer /\ g.full = Head(stack).full
      /\ h.kind = "expect" /\ h.mine = FALSE
  BY <1>0 DEF Activation
<1>5. \/ stack' = Below \/ stack' = <<f>> \o Below
      \/ stack' = <<h>> \o Below
      \/ /\ stack' = <<g>> \o Below /\ buffer' = buffer /\ msize' = msize
         /\ ~(Head(stack).full /\ FullAt(buffer, msize))
  BY DEF PollClosed, Timeout, NoMatch, BodyEnds, Matches, Afresh, FullCase, Full, FullAt,
         data, size
<1>. HIDE DEF f, g, h
<1>6. lowered' = lowered
  BY <1>1 DEF size
<1>7. Seen(f, buffer', msize')
  BY <1>4 DEF Seen
<1>8. CASE stack' = Below \/ stack' = <<f>> \o Below
  BY <1>0, <1>1, <1>2, <1>3, <1>4, <1>6, <1>7, <1>8, ExpectTurns
<1>9. CASE stack' = <<h>> \o Below
  BY <1>0, <1>1, <1>2, <1>3, <1>4, <1>6, <1>9, ExpectTurns
<1>10. CASE /\ stack' = <<g>> \o Below /\ buffer' = buffer /\ msize' = msize
            /\ ~(Head(stack).full /\ FullAt(buffer, msize))
  <2>1. Seen(g, buffer', msize')
    BY <1>4, <1>10 DEF Seen
  <2>. QED  BY <1>0, <1>1, <1>2, <1>3, <1>4, <1>6, <1>10, <2>1, ExpectTurns
<1>. QED  BY <1>5, <1>8, <1>9, <1>10

\* The background handler is by itself.
LEMMA HandlerAlone ==
    ASSUME IInv, Attentive, stack # <<>>, Head(stack).kind = "handler"
    PROVE  /\ bg.status = "blocked" /\ Head(stack).full = bg.full /\ ~Head(stack).mine
           /\ Below \in Seq(Activation) /\ Scripts(Below) /\ NoKeys(Below)
           /\ "bg" \notin Elements(handlers)
<1>1. stack \in Seq(Activation) /\ Below \in Seq(Activation)
  BY Popped DEF IInv, Control
<1>2. ~NoHandler(stack)
  BY <1>1, PopKeeps
<1>3. bg.status = "blocked" /\ OneHandler(stack, bg.full) /\ "bg" \notin Elements(handlers)
  BY <1>2 DEF Attentive, Order
<1>4. /\ Head(stack).full = bg.full /\ Scripts(Below)
      /\ Keyed(Below, buffer, msize) /\ ~Head(stack).mine
  BY <1>1, <1>3, PopKeeps DEF Attentive, Below
<1>5. NoKeys(Below)
  BY <1>4 DEF Scripts, Keyed, NoKeys
<1>. QED  BY <1>1, <1>3, <1>4, <1>5

LEMMA HandlerGoesOn ==
    ASSUME IInv, Attentive, stack # <<>>, Head(stack).kind = "handler",
           UNCHANGED <<bg, handlers, lowered, surprised>>, NEW pc \in Pcs,
           stack' = Below \/ stack' = Afresh(pc) \o Below
    PROVE  Attentive'
<1> DEFINE f == [Head(stack) EXCEPT !.pc = pc, !.seen = <<>>]
<1>1. /\ bg.status = "blocked" /\ Head(stack).full = bg.full /\ ~Head(stack).mine
      /\ Below \in Seq(Activation) /\ Scripts(Below) /\ NoKeys(Below)
      /\ "bg" \notin Elements(handlers)
  BY HandlerAlone
<1>2. f \in Activation /\ f.full = bg.full /\ ~f.mine /\ Afresh(pc) \o Below = <<f>> \o Below
  BY <1>1, BodyFields
<1>. HIDE DEF f
<1>3. OneHandler(Below, bg.full)
  BY <1>1 DEF Scripts, OneHandler
<1>4. NoKeys(stack') /\ OneHandler(stack', bg.full)
  <2>1. NoKeys(<<f>> \o Below) /\ OneHandler(<<f>> \o Below, bg.full)
    BY <1>1, <1>2, PushKeeps
  <2>. QED  BY <1>1, <1>2, <1>3, <2>1
<1>5. Order'
  BY <1>1, <1>4 DEF Order, Elements
<1>6. Tried'
  BY <1>1 DEF Attentive, Tried
<1>. QED  BY <1>4, <1>5, <1>6, NoKeysKeyed DEF Attentive

\* It returns when no case is left to be tried.
LEMMA ReturnAttends ==
    ASSUME IInv, Attentive, stack # <<>>, Head(stack).kind = "handler", HandlerReturn,
           UNCHANGED <<buffer, size, surprised>>,
           ~(Head(stack).full /\ FullAt(buffer, msize))
    PROVE  Attentive'
<1>1. /\ bg.status = "blocked" /\ Head(stack).full = bg.full
      /\ Below \in Seq(Activation) /\ Scripts(Below) /\ NoKeys(Below)
  BY HandlerAlone
<1>2. bg \in [status : {"unarmed", "armed", "blocked"}, full : BOOLEAN, seen : Chars]
  BY DEF IInv, Control
<1>3. bg'.status = "armed" /\ bg'.seen = buffer /\ bg'.full = bg.full
  BY <1>2 DEF HandlerReturn
<1>4. stack' \in {Below, Noted(Below)}
  BY DEF HandlerReturn
<1>5. Scripts(stack')
  BY <1>1, <1>4, EachKeeps
<1>6. NoKeys(stack')
  <2>1. Keyed(Below, buffer, msize)
    BY <1>1, NoKeysKeyed
  <2>2. Keyed(stack', buffer, msize)
    BY <1>1, <1>4, <2>1, EachKeeps
  <2>. QED  BY <1>5, <2>2 DEF Scripts, Keyed, NoKeys
<1>7. Order'
  BY <1>3, <1>5 DEF Order, Scripts, NoHandler, OneHandler
<1>8. Tried'
  BY <1>1, <1>3 DEF Attentive, Tried, size
<1>. QED  BY <1>6, <1>7, <1>8, NoKeysKeyed DEF Attentive

LEMMA BackgroundAttends ==
    ASSUME IInv, Attentive,
           \/ NoMatchInBackground \/ BodyEndsInBackground
           \/ Matches /\ Top("handler", "eval")
    PROVE  Attentive'
<1>1. CASE NoMatchInBackground
  <2>1. /\ stack # <<>> /\ Head(stack).kind = "handler" /\ HandlerReturn
        /\ UNCHANGED <<buffer, size, surprised>>
        /\ ~(Head(stack).full /\ FullAt(buffer, msize))
    BY <1>1 DEF NoMatchInBackground, Top, FullCase, Full, FullAt
  <2>. QED  BY <2>1, ReturnAttends
<1>2. CASE BodyEndsInBackground
  <2>0. stack # <<>> /\ Head(stack).kind = "handler" /\ UNCHANGED <<buffer, size, surprised>>
    BY <1>2 DEF BodyEndsInBackground, Top
  <2>1. CASE UNCHANGED <<handlers, bg>> /\ (stack' = Below \/ stack' = Afresh("eval") \o Below)
    BY <2>0, <2>1, HandlerGoesOn DEF Pcs, size
  <2>2. CASE HandlerReturn /\ buffer = <<>>
    <3>1. ~FullAt(buffer, msize)
      BY <2>2 DEF FullAt
    <3>. QED  BY <2>0, <2>2, <3>1, ReturnAttends
  <2>. QED  BY <1>2, <2>1, <2>2 DEF BodyEndsInBackground, MoreData
<1>3. CASE Matches /\ Top("handler", "eval")
  <2>1. /\ stack # <<>> /\ Head(stack).kind = "handler"
        /\ UNCHANGED <<bg, handlers, lowered, surprised>> /\ stack' = Afresh("body") \o Below
    BY <1>3 DEF Matches, Top, Process, size
  <2>. QED  BY <2>1, HandlerGoesOn DEF Pcs
<1>. QED  BY <1>1, <1>2, <1>3

LEMMA StepAttends ==
    ASSUME Manual, IInv, Attentive, [BufferNext]_bufferVars
    PROVE  Attentive'
<1>1. CASE UNCHANGED bufferVars
  BY <1>1, SetAttends DEF bufferVars, data, rest_of_data, size
<1>2. CASE \E u \in Sizes : MatchMax(u)
  BY <1>2, SetAttends DEF MatchMax, data, rest_of_data
<1>3. CASE \E on \in BOOLEAN : RemoveNulls(on)
  BY <1>3, SetAttends DEF RemoveNulls, data, rest_of_data
<1>4. CASE \E full \in BOOLEAN : Expect(full) \/ Declare(full)
  BY <1>4, ExpectAttends, DeclareAttends
<1>5. CASE Matches
  BY <1>5, TurnAttends, BackgroundAttends DEF Matches
<1>6. CASE BufferNext /\ ~Matches
  BY <1>2, <1>3, <1>4, <1>6, ValidateAttends, EventAttends, PollAttends, TurnAttends,
     BackgroundAttends DEF BufferNext, Moves
<1>. QED  BY <1>1, <1>5, <1>6

LEMMA NoneOverlooked == ASSUME IInv, Attentive PROVE NothingOverlooked
<1>1. ASSUME Waiting PROVE Head(stack).seen = buffer
  <2>1. stack # <<>> /\ Head(stack).pc \in {"begin", "poll"} /\ Head(stack).mine
    BY <1>1 DEF Waiting, Polling, Touched
  <2>2. Head(stack).pc # "begin" /\ Seen(Head(stack), buffer, msize)
    BY <2>1, PopKeeps DEF IInv, Control, Attentive
  <2>. QED  BY <2>1, <2>2 DEF Seen
<1>. QED  BY <1>1 DEF Attentive, Tried, NothingOverlooked

\* In scripts that keep to the manual no command waits with characters its cases
\* have not been tried on, whatever was nested in it: the key tells expect that
\* others looked at the buffer, and while expect_background may be called nobody
\* else reads (exp_event.c:190-207, expect.c:2397-2401); a full_buffer case is
\* asked first unless match_max was lowered (expect.c:861-875, 1639).
THEOREM OverlooksNothing == ASSUME Manual PROVE BufferSpec => []NothingOverlooked
<1>1. BufferInit => IInv /\ Attentive
  <2>. SUFFICES ASSUME BufferInit PROVE Attentive
    BY InitGood
  <2>1. stack = <<>> /\ handlers = <<>> /\ bg.status = "unarmed" /\ surprised = FALSE
    BY DEF BufferInit
  <2>2. Scripts(<<>>) /\ NoHandler(<<>>) /\ OneHandler(<<>>, bg.full) /\ Keyed(<<>>, buffer, msize)
    BY DEF Scripts, NoHandler, OneHandler, Keyed
  <2>3. Elements(<<>>) = {}
    BY DEF Elements
  <2>. QED  BY <2>1, <2>2, <2>3 DEF Attentive, Order, Tried
<1>2. IInv /\ Attentive /\ [BufferNext]_bufferVars => IInv' /\ Attentive'
  BY NextGood, StepAttends
<1>3. IInv /\ Attentive => NothingOverlooked
  BY NoneOverlooked
<1>. QED  BY <1>1, <1>2, <1>3, PTL DEF BufferSpec
=============================================================================
