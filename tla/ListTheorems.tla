---------------------------- MODULE ListTheorems ----------------------------
(***************************************************************************)
(* What the operators of Lists do, for every sequence and every set.       *)
(*                                                                         *)
(* The community modules define a fold as a recursive function over sets   *)
(* of indices, which it empties from the largest down. FoldExists says     *)
(* that there is such a function; the lemmas -Upwards turn it into a       *)
(* recurrence over the prefixes of a sequence, and what follows is proved  *)
(* from how a result changes when one element is appended. Induction is    *)
(* over a set that is shown to hold every number, or every sequence.       *)
(***************************************************************************)
EXTENDS Lists, FiniteSetTheorems, SequenceTheorems, NaturalsInduction, WellFoundedInduction, TLAPS

-----------------------------------------------------------------------------
(* Induction. The library's theorems take the property as an operator,     *)
(* which cannot be instantiated; here it is a set.                         *)

(* A set of naturals has a least one.                                      *)
LEMMA LeastOf ==
    ASSUME NEW P, P \subseteq Nat, P # {}
    PROVE  \E k \in P : \A l \in P : k <= l
<1> DEFINE R == OpToRel(<, Nat)
<1>1. \A x, y \in Nat : x < y => <<x, y>> \in R
  BY DEF OpToRel
<1> HIDE DEF R
<1>2. IsWellFoundedOn(R, Nat)
  BY NatLessThanWellFounded DEF R
<1>3. PICK k \in P : \A l \in P : ~ (<<l, k>> \in R)
  BY <1>2, WFMin
<1>4. ASSUME NEW l \in P PROVE k <= l
  <2>1. k \in Nat /\ l \in Nat
    OBVIOUS
  <2>2. ~ (l < k)
    BY <1>1, <1>3, <2>1
  <2> QED
    BY <2>1, <2>2
<1> QED
  BY <1>4

(* From 0 and from each number to the next: every number.                  *)
LEMMA Induct ==
    ASSUME NEW P, 0 \in P, \A k \in Nat : k \in P => k + 1 \in P
    PROVE  Nat \subseteq P
<1> DEFINE rest == Nat \ P
<1>1. SUFFICES ASSUME rest # {} PROVE FALSE
  OBVIOUS
<1>2. PICK k \in rest : \A l \in rest : k <= l
  <2>1. rest \subseteq Nat
    OBVIOUS
  <2> HIDE DEF rest
  <2> QED
    BY <1>1, <2>1, LeastOf
<1>3. k # 0 /\ k - 1 \in Nat /\ k - 1 \notin rest
  BY <1>2
<1> QED
  BY <1>2, <1>3

(* The same, up to a bound.                                                *)
LEMMA InductTo ==
    ASSUME NEW n \in Nat, NEW P, 0 \in P, \A k \in 0 .. n - 1 : k \in P => k + 1 \in P
    PROVE  0 .. n \subseteq P
<1> DEFINE Q == {k \in Nat : k <= n => k \in P}
<1>1. 0 \in Q
  OBVIOUS
<1>2. ASSUME NEW k \in Nat, k \in Q PROVE k + 1 \in Q
  BY <1>2
<1>3. Nat \subseteq Q
  <2> HIDE DEF Q
  <2> QED
    BY <1>1, <1>2, Induct
<1> QED
  BY <1>3

(* A set that has the empty sequence over T, and with each sequence those  *)
(* that are one element longer, has all of them.                           *)
LEMMA SeqInduct ==
    ASSUME NEW T, NEW G, <<>> \in G,
           \A s \in Seq(T) : s \in G => \A x \in T : Append(s, x) \in G
    PROVE  Seq(T) \subseteq G
<1> DEFINE P == {k \in Nat : \A s \in Seq(T) : Len(s) = k => s \in G}
<1>1. 0 \in P
  <2>1. ASSUME NEW s \in Seq(T), Len(s) = 0 PROVE s = <<>>
    BY <2>1, EmptySeq
  <2> QED
    BY <2>1
<1>2. ASSUME NEW k \in Nat, k \in P PROVE k + 1 \in P
  <2>1. SUFFICES ASSUME NEW s \in Seq(T), Len(s) = k + 1 PROVE s \in G
    OBVIOUS
  <2>2. s # <<>>
    BY <2>1
  <2>3. PICK r \in Seq(T), x \in T : s = Append(r, x)
    BY <2>2, SequenceEmptyOrAppend
  <2>4. Len(r) = k
    BY <2>1, <2>3, AppendProperties, LenProperties
  <2> QED
    BY <1>2, <2>3, <2>4
<1>3. Nat \subseteq P
  <2> HIDE DEF P
  <2> QED
    BY <1>1, <1>2, Induct
<1>4. ASSUME NEW s \in Seq(T) PROVE s \in G
  BY <1>3, LenProperties
<1> QED
  BY <1>4

-----------------------------------------------------------------------------
(* Folds                                                                   *)

(* Max of FiniteSetsExt is the largest of a set of indices.                *)
LEMMA LargestIs ==
    ASSUME NEW n \in Nat, NEW s, s \subseteq 1 .. n, s # {}
    PROVE  Max(s) \in s /\ \A y \in s : y <= Max(s)
<1> DEFINE P == {k \in Nat : \E y \in s : y + k = n}
<1>1. P # {}
  <2>1. PICK y \in s : TRUE
    OBVIOUS
  <2>2. n - y \in P
    BY <2>1
  <2> QED
    BY <2>2
<1>2. P \subseteq Nat
  OBVIOUS
<1>3. PICK k \in P : \A l \in P : k <= l
  <2> HIDE DEF P
  <2> QED
    BY <1>1, <1>2, LeastOf
<1>4. PICK y \in s : y + k = n
  BY <1>3
<1>5. ASSUME NEW z \in s PROVE y >= z
  <2>1. n - z \in P
    OBVIOUS
  <2> QED
    BY <1>3, <1>4, <2>1
<1>6. \E x \in s : \A z \in s : x >= z
  BY <1>5
<1> QED
  BY <1>6 DEF Max

(* The largest of 1..k is k, and without it 1..k-1 is left.                *)
LEMMA LargestOfRange ==
    ASSUME NEW k \in Nat \ {0}
    PROVE  Max(1 .. k) = k /\ (1 .. k) \ {k} = 1 .. k - 1
<1>1. Max(1 .. k) \in 1 .. k /\ \A y \in 1 .. k : y <= Max(1 .. k)
  <2>1. k \in Nat /\ 1 .. k \subseteq 1 .. k /\ 1 .. k # {}
    OBVIOUS
  <2> QED
    BY <2>1, LargestIs
<1> QED
  BY <1>1

(* What a fold from the left goes by: f is base for the empty set, and for *)
(* another it is one step further than for the set without its largest.    *)
FoldsTo(f, n, base, step) ==
    \A s \in SUBSET (1 .. n) :
       f[s] = IF s = {} THEN base ELSE step[<<f[s \ {Max(s)}], Max(s)>>]

(* A function on the subsets of 1..n can be defined by what it is for the  *)
(* empty set, and for another from the set without its largest element:    *)
(* the equation by which MapThenFoldSet folds a sequence from the left.    *)
LEMMA FoldExists ==
    ASSUME NEW n \in Nat, NEW S, NEW base \in S, NEW step \in [S \X Nat -> S]
    PROVE  \E f \in [SUBSET (1 .. n) -> S] : FoldsTo(f, n, base, step)
<1> USE DEF FoldsTo
<1> DEFINE Folds(f, m) == FoldsTo(f, m, base, step)
           P == {m \in Nat : \E f \in [SUBSET (1 .. m) -> S] : Folds(f, m)}
<1>1. 0 \in P
  <2> DEFINE f == [s \in SUBSET (1 .. 0) |-> base]
  <2>1. \A s \in SUBSET (1 .. 0) : s = {}
    OBVIOUS
  <2>2. f \in [SUBSET (1 .. 0) -> S]
    OBVIOUS
  <2>3. Folds(f, 0)
    BY <2>1
  <2> QED
    BY <2>2, <2>3
<1>2. ASSUME NEW m \in Nat, m \in P PROVE m + 1 \in P
  <2>1. PICK f \in [SUBSET (1 .. m) -> S] : Folds(f, m)
    BY <1>2
  <2> DEFINE new(s) == IF m + 1 \in s THEN step[<<f[s \ {m + 1}], m + 1>>] ELSE f[s]
             h == [s \in SUBSET (1 .. m + 1) |-> new(s)]
  <2>2. \A s \in SUBSET (1 .. m + 1) : s \ {m + 1} \in SUBSET (1 .. m)
    OBVIOUS
  <2>3. \A s \in SUBSET (1 .. m + 1) : m + 1 \notin s => s \in SUBSET (1 .. m)
    OBVIOUS
  <2>4. ASSUME NEW s \in SUBSET (1 .. m + 1) PROVE new(s) \in S
    BY <2>2, <2>3
  <2>5. h \in [SUBSET (1 .. m + 1) -> S]
    BY <2>4
  <2>6. ASSUME NEW s \in SUBSET (1 .. m + 1), s # {}
        PROVE  h[s] = step[<<h[s \ {Max(s)}], Max(s)>>]
    <3>1. Max(s) \in s /\ \A y \in s : y <= Max(s)
      <4>1. m + 1 \in Nat /\ s \subseteq 1 .. m + 1
        OBVIOUS
      <4> QED
        BY ONLY <2>6, <4>1, LargestIs
    <3> DEFINE top == Max(s)
    <3>2. s \ {top} \in SUBSET (1 .. m)
      <4> HIDE DEF top
      <4>1. top \in s /\ (\A y \in s : y <= top) /\ s \subseteq 1 .. m + 1
        BY <3>1 DEF top
      <4>2. ASSUME NEW y \in s, y # top PROVE y \in 1 .. m
        BY <4>1, <4>2
      <4> QED
        BY <4>2
    <3>3. m + 1 \notin s \ {Max(s)} /\ s \ {Max(s)} \in SUBSET (1 .. m + 1)
      BY <3>2
    <3>4. h[s \ {Max(s)}] = f[s \ {Max(s)}]
      BY <3>3
    <3>5. CASE m + 1 \in s
      <4>1. top = m + 1
        <5> HIDE DEF top
        <5>1. top \in s /\ (\A y \in s : y <= top) /\ s \subseteq 1 .. m + 1
          BY <3>1 DEF top
        <5> QED
          BY <3>5, <5>1
      <4> QED
        BY <3>4, <3>5, <4>1
    <3>6. CASE m + 1 \notin s
      <4>1. s \in SUBSET (1 .. m)
        BY <2>3, <3>6
      <4>2. f[s] = step[<<f[s \ {Max(s)}], Max(s)>>]
        BY <2>1, <2>6, <4>1
      <4> QED
        BY <3>4, <3>6, <4>2
    <3> QED
      BY <3>5, <3>6
  <2>7. h[{}] = base
    <3>1. {} \in SUBSET (1 .. m) /\ {} \in SUBSET (1 .. m + 1)
      OBVIOUS
    <3> QED
      BY <2>1, <3>1
  <2>8. Folds(h, m + 1)
    BY <2>6, <2>7
  <2>9. \E g \in [SUBSET (1 .. m + 1) -> S] : Folds(g, m + 1)
    <3> HIDE DEF Folds, FoldsTo, h
    <3> QED
      BY <2>5, <2>8
  <2> HIDE DEF Folds, FoldsTo
  <2> QED
    BY <2>9
<1>3. Nat \subseteq P
  <2> HIDE DEF P
  <2> QED
    BY <1>1, <1>2, Induct
<1> QED
  BY <1>3

(* The sets 1..k are the ones a fold from the left goes through.           *)
LEMMA PrefixIs ==
    ASSUME NEW n \in Nat, NEW k \in 1 .. n
    PROVE  /\ 1 .. k # {} /\ 1 .. k \in SUBSET (1 .. n)
           /\ Max(1 .. k) = k /\ (1 .. k) \ {k} = 1 .. k - 1
<1>1. k \in Nat \ {0} /\ k <= n
  OBVIOUS
<1>2. 1 .. k # {} /\ 1 .. k \in SUBSET (1 .. n)
  BY <1>1
<1> QED
  BY <1>1, <1>2, LargestOfRange

-----------------------------------------------------------------------------
(* Those                                                                   *)

(* g[k] is what is kept of the first k elements.                           *)
KeptSoFar(g, T, seq, good) ==
    /\ g \in [0 .. Len(seq) -> Seq(T)]
    /\ g[0] = <<>>
    /\ \A k \in 1 .. Len(seq) :
         g[k] = IF seq[k] \in good THEN Append(g[k - 1], seq[k]) ELSE g[k - 1]
    /\ Those(seq, good) = g[Len(seq)]

(* Those is what is kept of the whole, one element at a time.              *)
LEMMA ThoseUpwards ==
    ASSUME NEW T, NEW seq \in Seq(T), NEW good
    PROVE  \E g : KeptSoFar(g, T, seq, good)
<1> DEFINE n == Len(seq)
           S == Seq(T)
           step == [w \in S \X Nat |->
                      IF w[2] \in 1 .. n /\ seq[w[2]] \in good THEN Append(w[1], seq[w[2]]) ELSE w[1]]
           Eqn(f) == f = [s \in SUBSET (DOMAIN seq) |->
                           IF s = {} THEN <<>>
                           ELSE IF seq[Max(s)] \in good
                                THEN Append(f[s \ {Max(s)}], seq[Max(s)]) ELSE f[s \ {Max(s)}]]
           iter == CHOOSE f : Eqn(f)
<1>1. n \in Nat /\ DOMAIN seq = 1 .. n /\ \A k \in 1 .. n : seq[k] \in T
  BY LenProperties, ElementOfSeq
<1>2. Those(seq, good) = iter[DOMAIN seq]
  BY DEF Those, FoldLeft, MapThenFoldSet
<1>3. step \in [S \X Nat -> S] /\ <<>> \in S
  <2>1. ASSUME NEW w \in S \X Nat PROVE step[w] \in S
    <3>1. w[1] \in S /\ w[2] \in Nat
      OBVIOUS
    <3> QED
      BY <1>1, <3>1, AppendProperties
  <2> QED
    BY <2>1
<1>4. \E f : Eqn(f)
  <2>1. PICK f \in [SUBSET (1 .. n) -> S] :
           \A s \in SUBSET (1 .. n) :
              f[s] = IF s = {} THEN <<>> ELSE step[<<f[s \ {Max(s)}], Max(s)>>]
    <3> DEFINE base == <<>>
    <3>1. n \in Nat /\ base \in S /\ step \in [S \X Nat -> S]
      BY <1>1, <1>3
    <3> HIDE DEF step, S, n, base
    <3>2. \E f \in [SUBSET (1 .. n) -> S] : FoldsTo(f, n, base, step)
      BY <3>1, FoldExists
    <3> QED
      BY <3>2 DEF base, FoldsTo
  <2>2. ASSUME NEW s \in SUBSET (1 .. n), s # {}
        PROVE  f[s] = IF seq[Max(s)] \in good
                      THEN Append(f[s \ {Max(s)}], seq[Max(s)]) ELSE f[s \ {Max(s)}]
    <3>1. Max(s) \in 1 .. n
      <4>1. s \subseteq 1 .. n
        OBVIOUS
      <4> HIDE DEF n
      <4> QED
        BY <1>1, <2>2, <4>1, LargestIs
    <3>2. f[s \ {Max(s)}] \in S
      BY <2>1
    <3> DEFINE m == Max(s)
               r == f[s \ {m}]
    <3>3. f[s] = step[<<r, m>>]
      BY <2>1, <2>2
    <3>4. m \in 1 .. n /\ r \in S
      BY <3>1, <3>2
    <3> HIDE DEF m, r, n, S
    <3>5. <<r, m>> \in S \X Nat
      BY <1>1, <3>4
    <3>6. f[s] = IF seq[m] \in good THEN Append(r, seq[m]) ELSE r
      BY <3>3, <3>4, <3>5
    <3> QED
      BY <3>6 DEF m, r
  <2>3. Eqn(f)
    BY <1>1, <2>1, <2>2
  <2> QED
    BY <2>3
<1>5. Eqn(iter)
  <2> HIDE DEF Eqn
  <2> QED
    BY <1>4
<1> HIDE DEF iter, n, S
<1>6. ASSUME NEW k \in 1 .. n
      PROVE  /\ 1 .. k # {} /\ 1 .. k \in SUBSET (DOMAIN seq)
             /\ Max(1 .. k) = k /\ (1 .. k) \ {k} = 1 .. k - 1
  BY <1>1, PrefixIs
<1>7. iter[{}] = <<>>
  BY <1>5
<1>8. ASSUME NEW k \in 1 .. n
      PROVE  iter[1 .. k] = IF seq[k] \in good
                            THEN Append(iter[1 .. k - 1], seq[k]) ELSE iter[1 .. k - 1]
  <2>1. \A s \in SUBSET (DOMAIN seq) : s # {} =>
          iter[s] = IF seq[Max(s)] \in good
                    THEN Append(iter[s \ {Max(s)}], seq[Max(s)]) ELSE iter[s \ {Max(s)}]
    BY <1>5
  <2> QED
    BY ONLY <1>6, <2>1
<1> DEFINE g == [k \in 0 .. n |-> iter[1 .. k]]
<1>9. g[0] = <<>>
  <2>1. 1 .. 0 = {} /\ 0 \in 0 .. n
    BY <1>1
  <2> QED
    BY <1>7, <2>1
<1>10. ASSUME NEW k \in 1 .. n
       PROVE  g[k] = IF seq[k] \in good THEN Append(g[k - 1], seq[k]) ELSE g[k - 1]
  <2>1. k \in 0 .. n /\ k - 1 \in 0 .. n
    BY <1>1
  <2> QED
    BY <1>8, <2>1
<1>11. \A k \in 0 .. n : g[k] \in S
  <2> DEFINE P == {k \in 0 .. n : g[k] \in S}
  <2>1. 0 \in P
    BY <1>1, <1>3, <1>9
  <2>2. ASSUME NEW k \in 0 .. n - 1, k \in P PROVE k + 1 \in P
    <3>1. k + 1 \in 1 .. n /\ k + 1 \in 0 .. n /\ (k + 1) - 1 = k
      BY <1>1
    <3> HIDE DEF g
    <3>2. g[k] \in S /\ seq[k + 1] \in T
      <4>1. g[k] \in S
        BY <2>2
      <4>2. \A j \in 1 .. n : seq[j] \in T
        BY <1>1
      <4> QED
        BY ONLY <3>1, <4>1, <4>2
    <3>3. g[k + 1] = IF seq[k + 1] \in good THEN Append(g[k], seq[k + 1]) ELSE g[k]
      BY <1>10, <3>1
    <3>4. g[k + 1] \in S
      BY <3>2, <3>3, AppendProperties DEF S
    <3> QED
      BY <3>1, <3>4
  <2>3. 0 .. n \subseteq P
    <3> HIDE DEF P
    <3> QED
      BY <1>1, <2>1, <2>2, InductTo
  <2> QED
    BY <2>3
<1>12. g \in [0 .. n -> S]
  BY <1>11
<1>13. Those(seq, good) = g[n]
  BY <1>1, <1>2
<1> HIDE DEF g
<1> QED
  BY <1>9, <1>10, <1>12, <1>13 DEF n, S, KeptSoFar

(* Nothing is kept of nothing.                                             *)
LEMMA ThoseEmpty ==
    ASSUME NEW good
    PROVE  Those(<<>>, good) = <<>>
<1>1. <<>> \in Seq({}) /\ Len(<<>>) = 0
  BY EmptySeq
<1> QED
  <2>1. PICK g : KeptSoFar(g, {}, <<>>, good)
    BY <1>1, ThoseUpwards
  <2> QED
    BY <1>1, <2>1 DEF KeptSoFar

(* Of one element more, that element is kept if it is good.                *)
LEMMA ThoseAppend ==
    ASSUME NEW T, NEW seq \in Seq(T), NEW x \in T, NEW good
    PROVE  Those(Append(seq, x), good) =
             IF x \in good THEN Append(Those(seq, good), x) ELSE Those(seq, good)
<1> DEFINE n == Len(seq)
           longer == Append(seq, x)
<1>1. /\ n \in Nat /\ longer \in Seq(T) /\ Len(longer) = n + 1
      /\ longer[n + 1] = x /\ \A k \in 1 .. n : longer[k] = seq[k]
  BY AppendProperties, LenProperties
<1>2. PICK g : KeptSoFar(g, T, seq, good)
  BY ThoseUpwards
<1>3. PICK h : KeptSoFar(h, T, longer, good)
  BY <1>1, ThoseUpwards
<1> USE DEF KeptSoFar
<1> HIDE DEF longer
<1>4. ASSUME NEW k \in 1 .. n
      PROVE  /\ h[k] = IF longer[k] \in good THEN Append(h[k - 1], longer[k]) ELSE h[k - 1]
             /\ g[k] = IF seq[k] \in good THEN Append(g[k - 1], seq[k]) ELSE g[k - 1]
             /\ longer[k] = seq[k]
  BY <1>1, <1>2, <1>3
<1>5. h[n] = g[n]
  <2> DEFINE P == {k \in 0 .. n : h[k] = g[k]}
  <2>1. 0 \in P
    BY <1>1, <1>2, <1>3
  <2>2. ASSUME NEW k \in 0 .. n - 1, k \in P PROVE k + 1 \in P
    <3>1. k + 1 \in 1 .. n /\ k + 1 \in 1 .. n + 1 /\ (k + 1) - 1 = k /\ k + 1 \in 0 .. n
      BY <1>1
    <3>2. /\ h[k + 1] = IF longer[k + 1] \in good THEN Append(h[k], longer[k + 1]) ELSE h[k]
          /\ g[k + 1] = IF seq[k + 1] \in good THEN Append(g[k], seq[k + 1]) ELSE g[k]
      BY <1>4, <3>1
    <3>3. longer[k + 1] = seq[k + 1] /\ h[k] = g[k]
      BY <1>4, <2>2, <3>1
    <3> QED
      BY <3>1, <3>2, <3>3
  <2>3. 0 .. n \subseteq P
    <3> HIDE DEF P
    <3> QED
      BY <1>1, <2>1, <2>2, InductTo
  <2> QED
    BY <1>1, <2>3
<1>6. h[n + 1] = IF x \in good THEN Append(h[n], x) ELSE h[n]
  BY <1>1, <1>3
<1> QED
  BY <1>1, <1>2, <1>3, <1>5, <1>6 DEF longer

(* What is kept is a sequence of the same elements.                        *)
LEMMA ThoseType ==
    ASSUME NEW T, NEW seq \in Seq(T), NEW good
    PROVE  Those(seq, good) \in Seq(T)
<1>1. PICK g : KeptSoFar(g, T, seq, good)
  BY ThoseUpwards
<1> QED
  BY <1>1, LenProperties DEF KeptSoFar

(* Where the good elements are, and how many of them come up to one.       *)
Places(seq, good) == {i \in DOMAIN seq : seq[i] \in good}

UpTo(P, i) == {j \in P : j <= i}

(* One element more is one good place more, if it is good.                 *)
LEMMA PlacesAppend ==
    ASSUME NEW T, NEW seq \in Seq(T), NEW x \in T, NEW good
    PROVE  /\ Places(Append(seq, x), good) =
                IF x \in good THEN Places(seq, good) \cup {Len(seq) + 1} ELSE Places(seq, good)
           /\ Places(seq, good) \subseteq 1 .. Len(seq)
           /\ IsFiniteSet(Places(seq, good))
<1> DEFINE n == Len(seq)
           longer == Append(seq, x)
<1>1. /\ n \in Nat /\ DOMAIN seq = 1 .. n
      /\ longer \in Seq(T) /\ Len(longer) = n + 1
      /\ longer[n + 1] = x /\ \A k \in 1 .. n : longer[k] = seq[k]
  BY AppendProperties, LenProperties
<1>2. DOMAIN longer = 1 .. n + 1
  BY <1>1, LenProperties
<1> HIDE DEF n, longer
<1>3. Places(longer, good) = {i \in 1 .. n + 1 : longer[i] \in good}
  BY <1>2 DEF Places
<1>4. Places(seq, good) = {i \in 1 .. n : seq[i] \in good}
  BY <1>1 DEF Places
<1>5. 1 .. n + 1 = (1 .. n) \cup {n + 1}
  BY <1>1
<1>6. {i \in 1 .. n : longer[i] \in good} = {i \in 1 .. n : seq[i] \in good}
  BY <1>1
<1>7. Places(longer, good) =
        IF x \in good THEN Places(seq, good) \cup {n + 1} ELSE Places(seq, good)
  BY <1>1, <1>3, <1>4, <1>5, <1>6
<1>8. IsFiniteSet(1 .. n) /\ Places(seq, good) \subseteq 1 .. n
  BY <1>1, <1>4, FS_Interval
<1> QED
  BY <1>7, <1>8, FS_Subset DEF n, longer

(* out is the elements of seq at the places P, in their order: as many, and *)
(* each where the places up to its own put it.                             *)
Placed(seq, P, out) ==
    /\ Len(out) = Cardinality(P)
    /\ \A i \in P : out[Cardinality(UpTo(P, i))] = seq[i]

(* An element that is not taken changes nothing.                           *)
LEMMA PlacedSame ==
    ASSUME NEW T, NEW seq \in Seq(T), NEW x \in T, NEW P, P \subseteq 1 .. Len(seq), NEW out,
           Placed(seq, P, out)
    PROVE  Placed(Append(seq, x), P, out)
<1>1. \A k \in 1 .. Len(seq) : Append(seq, x)[k] = seq[k]
  BY AppendProperties
<1> QED
  BY <1>1 DEF Placed

(* One that is taken comes after the others.                               *)
LEMMA PlacedMore ==
    ASSUME NEW T, NEW seq \in Seq(T), NEW x \in T, NEW P, P \subseteq 1 .. Len(seq),
           NEW out \in Seq(T), Placed(seq, P, out)
    PROVE  Placed(Append(seq, x), P \cup {Len(seq) + 1}, Append(out, x))
<1> DEFINE n == Len(seq)
           longer == Append(seq, x)
           Q == P \cup {n + 1}
           all == Append(out, x)
<1>1. /\ n \in Nat /\ longer[n + 1] = x /\ \A k \in 1 .. n : longer[k] = seq[k]
  BY AppendProperties, LenProperties
<1>2. /\ Len(out) \in Nat /\ Len(all) = Len(out) + 1 /\ all[Len(out) + 1] = x
      /\ \A k \in 1 .. Len(out) : all[k] = out[k]
  BY AppendProperties, LenProperties
<1>3. /\ Len(out) = Cardinality(P)
      /\ \A i \in P : out[Cardinality(UpTo(P, i))] = seq[i]
  BY DEF Placed
<1>4. IsFiniteSet(P)
  <2>1. IsFiniteSet(1 .. n)
    BY <1>1, FS_Interval
  <2> QED
    BY <2>1, FS_Subset
<1> HIDE DEF longer, all, n
<1>5. n + 1 \notin P /\ P \subseteq 1 .. n
  BY <1>1 DEF n
<1>6. Cardinality(Q) = Cardinality(P) + 1
  BY <1>4, <1>5, FS_AddElement
<1>7. Len(all) = Cardinality(Q)
  BY <1>2, <1>3, <1>6
<1>8. ASSUME NEW i \in P PROVE all[Cardinality(UpTo(Q, i))] = longer[i]
  <2>1. i \in 1 .. n /\ UpTo(Q, i) = UpTo(P, i)
    BY <1>1, <1>5 DEF UpTo
  <2>2. UpTo(P, i) \in SUBSET P /\ UpTo(P, i) # {}
    BY <1>1, <1>5, <2>1 DEF UpTo
  <2>3. IsFiniteSet(UpTo(P, i)) /\ Cardinality(UpTo(P, i)) <= Cardinality(P)
    BY <1>4, <2>2, FS_Subset
  <2>4. Cardinality(UpTo(P, i)) \in Nat /\ Cardinality(UpTo(P, i)) # 0
    BY <2>2, <2>3, FS_EmptySet, FS_CardinalityType
  <2>5. Cardinality(UpTo(P, i)) \in 1 .. Len(out)
    BY <1>2, <1>3, <2>3, <2>4
  <2>6. all[Cardinality(UpTo(P, i))] = seq[i]
    BY <1>2, <1>3, <2>5
  <2> QED
    BY <1>1, <2>1, <2>6
<1>9. all[Cardinality(UpTo(Q, n + 1))] = longer[n + 1]
  <2>1. \A j \in Q : j <= n + 1
    BY <1>1, <1>5
  <2>2. UpTo(Q, n + 1) = Q
    <3> HIDE DEF Q
    <3> QED
      BY <2>1 DEF UpTo
  <2> QED
    BY <1>1, <1>2, <1>7, <2>2
<1>10. Placed(longer, Q, all)
  BY <1>7, <1>8, <1>9 DEF Placed
<1> QED
  BY <1>10 DEF longer, all, n

(* What is kept is the good elements, in place.                            *)
LEMMA ThosePlaces ==
    ASSUME NEW T, NEW seq \in Seq(T), NEW good
    PROVE  Placed(seq, Places(seq, good), Those(seq, good))
<1> DEFINE G == {s \in Seq(T) : Placed(s, Places(s, good), Those(s, good))}
<1>1. <<>> \in G
  <2>1. Places(<<>>, good) = {} /\ Len(<<>>) = 0 /\ <<>> \in Seq(T)
    BY EmptySeq DEF Places
  <2>2. Cardinality({}) = 0
    BY FS_EmptySet
  <2> QED
    BY <2>1, <2>2, ThoseEmpty DEF Placed
<1>2. ASSUME NEW s \in Seq(T), s \in G, NEW x \in T PROVE Append(s, x) \in G
  <2> DEFINE P == Places(s, good)
             out == Those(s, good)
  <2>1. /\ Places(Append(s, x), good) = IF x \in good THEN P \cup {Len(s) + 1} ELSE P
        /\ P \subseteq 1 .. Len(s)
    BY PlacesAppend
  <2>2. out \in Seq(T) /\ Placed(s, P, out) /\ Append(s, x) \in Seq(T)
    BY <1>2, ThoseType, AppendProperties
  <2>3. Those(Append(s, x), good) = IF x \in good THEN Append(out, x) ELSE out
    BY ThoseAppend
  <2> HIDE DEF P, out
  <2>4. Placed(Append(s, x), P, out)
    BY <2>1, <2>2, PlacedSame
  <2>5. Placed(Append(s, x), P \cup {Len(s) + 1}, Append(out, x))
    BY <2>1, <2>2, PlacedMore
  <2> QED
    BY <2>1, <2>2, <2>3, <2>4, <2>5
<1>3. Seq(T) \subseteq G
  <2> HIDE DEF G
  <2> QED
    BY <1>1, <1>2, SeqInduct
<1> QED
  BY <1>3

(* The elements of a sequence that is one longer.                          *)
LEMMA RangeAppend ==
    ASSUME NEW T, NEW seq \in Seq(T), NEW x \in T
    PROVE  Range(Append(seq, x)) = Range(seq) \cup {x}
<1> DEFINE n == Len(seq)
           longer == Append(seq, x)
<1>1. /\ n \in Nat /\ DOMAIN seq = 1 .. n
      /\ longer \in Seq(T) /\ Len(longer) = n + 1
      /\ longer[n + 1] = x /\ \A k \in 1 .. n : longer[k] = seq[k]
  BY AppendProperties, LenProperties
<1>2. DOMAIN longer = 1 .. n + 1
  BY <1>1, LenProperties
<1> HIDE DEF n, longer
<1>3. 1 .. n + 1 = (1 .. n) \cup {n + 1}
  BY <1>1
<1>4. Range(longer) = {longer[k] : k \in 1 .. n} \cup {longer[n + 1]}
  BY <1>2, <1>3 DEF Range
<1>5. {longer[k] : k \in 1 .. n} = Range(seq)
  BY <1>1 DEF Range
<1> QED
  BY <1>1, <1>4, <1>5 DEF longer

(* The elements that are kept are the good ones.                           *)
LEMMA ThoseRange ==
    ASSUME NEW T, NEW seq \in Seq(T), NEW good
    PROVE  Range(Those(seq, good)) = Range(seq) \cap good
<1> DEFINE G == {s \in Seq(T) : Range(Those(s, good)) = Range(s) \cap good}
<1>1. <<>> \in G
  <2>1. <<>> \in Seq(T) /\ Range(<<>>) = {}
    BY EmptySeq DEF Range
  <2> QED
    BY <2>1, ThoseEmpty
<1>2. ASSUME NEW s \in Seq(T), s \in G, NEW x \in T PROVE Append(s, x) \in G
  <2> DEFINE out == Those(s, good)
  <2>1. out \in Seq(T) /\ Append(s, x) \in Seq(T)
    BY ThoseType, AppendProperties
  <2>2. Those(Append(s, x), good) = IF x \in good THEN Append(out, x) ELSE out
    BY ThoseAppend
  <2>3. Range(Append(s, x)) = Range(s) \cup {x} /\ Range(Append(out, x)) = Range(out) \cup {x}
    BY <2>1, RangeAppend
  <2>4. Range(out) = Range(s) \cap good
    BY <1>2
  <2> HIDE DEF out
  <2>5. CASE x \in good
    BY <2>1, <2>2, <2>3, <2>4, <2>5
  <2>6. CASE x \notin good
    BY <2>1, <2>2, <2>3, <2>4, <2>6
  <2> QED
    BY <2>5, <2>6
<1>3. Seq(T) \subseteq G
  <2> HIDE DEF G
  <2> QED
    BY <1>1, <1>2, SeqInduct
<1> QED
  BY <1>3

(* Keeping in two steps is keeping what is good for both.                  *)
LEMMA ThoseThose ==
    ASSUME NEW T, NEW seq \in Seq(T), NEW A, NEW B
    PROVE  Those(Those(seq, A), B) = Those(seq, A \cap B)
<1> DEFINE G == {s \in Seq(T) : Those(Those(s, A), B) = Those(s, A \cap B)}
<1>1. <<>> \in G
  BY ThoseEmpty, EmptySeq
<1>2. ASSUME NEW s \in Seq(T), s \in G, NEW x \in T PROVE Append(s, x) \in G
  <2> DEFINE out == Those(s, A)
             both == Those(s, A \cap B)
  <2>1. out \in Seq(T) /\ both \in Seq(T) /\ Append(s, x) \in Seq(T)
    BY ThoseType, AppendProperties
  <2>2. Those(Append(s, x), A) = IF x \in A THEN Append(out, x) ELSE out
    BY ThoseAppend
  <2>3. Those(Append(s, x), A \cap B) = IF x \in A \cap B THEN Append(both, x) ELSE both
    BY ThoseAppend
  <2>4. Those(out, B) = both
    BY <1>2
  <2> HIDE DEF out, both
  <2>5. Those(Append(out, x), B) = IF x \in B THEN Append(both, x) ELSE both
    BY <2>1, <2>4, ThoseAppend
  <2>6. CASE x \in A
    BY <2>1, <2>2, <2>3, <2>5, <2>6
  <2>7. CASE x \notin A
    BY <2>1, <2>2, <2>3, <2>4, <2>7
  <2> QED
    BY <2>6, <2>7
<1>3. Seq(T) \subseteq G
  <2> HIDE DEF G
  <2> QED
    BY <1>1, <1>2, SeqInduct
<1> QED
  BY <1>3

(* Only what is good among the elements matters.                           *)
LEMMA ThoseAlike ==
    ASSUME NEW T, NEW seq \in Seq(T), NEW A, NEW B, \A x \in Range(seq) : x \in A <=> x \in B
    PROVE  Those(seq, A) = Those(seq, B)
<1> DEFINE R == Range(seq)
           G == {s \in Seq(R) : Those(s, A) = Those(s, B)}
<1>1. <<>> \in G
  BY ThoseEmpty, EmptySeq
<1>2. ASSUME NEW s \in Seq(R), s \in G, NEW x \in R PROVE Append(s, x) \in G
  <2> DEFINE one == Those(s, A)
             other == Those(s, B)
  <2>1. Those(Append(s, x), A) = IF x \in A THEN Append(one, x) ELSE one
    BY ThoseAppend
  <2>2. Those(Append(s, x), B) = IF x \in B THEN Append(other, x) ELSE other
    BY ThoseAppend
  <2>3. Append(s, x) \in Seq(R) /\ one = other
    BY <1>2, AppendProperties
  <2>4. x \in A <=> x \in B
    OBVIOUS
  <2> HIDE DEF one, other, R
  <2> QED
    BY <2>1, <2>2, <2>3, <2>4
<1>3. Seq(R) \subseteq G
  <2> HIDE DEF G, R
  <2> QED
    BY <1>1, <1>2, SeqInduct
<1>4. seq \in Seq(R)
  BY SeqOfRange
<1> QED
  BY <1>3, <1>4

(* Whatever holds between every two elements in their order holds still    *)
(* between what is kept.                                                   *)
SortedBy(seq, before) ==
    \A i, j \in 1 .. Len(seq) : i < j => <<seq[i], seq[j]>> \in before

(* A comprehension of a sorted list is sorted.                             *)
LEMMA ThoseSorted ==
    ASSUME NEW T, NEW seq \in Seq(T), NEW good, NEW before, SortedBy(seq, before)
    PROVE  SortedBy(Those(seq, good), before)
<1> DEFINE G == {s \in Seq(T) : SortedBy(s, before) => SortedBy(Those(s, good), before)}
<1>1. <<>> \in G
  BY ThoseEmpty, EmptySeq
<1>2. ASSUME NEW s \in Seq(T), s \in G, NEW x \in T PROVE Append(s, x) \in G
  <2> DEFINE n == Len(s)
             longer == Append(s, x)
             out == Those(s, good)
             m == Len(out)
  <2>1. /\ n \in Nat /\ longer \in Seq(T) /\ Len(longer) = n + 1 /\ DOMAIN s = 1 .. n
        /\ longer[n + 1] = x /\ \A k \in 1 .. n : longer[k] = s[k]
    BY AppendProperties, LenProperties
  <2>2. /\ out \in Seq(T) /\ m \in Nat /\ DOMAIN out = 1 .. m
        /\ Range(out) = Range(s) \cap good
    <3>1. out \in Seq(T) /\ Range(out) = Range(s) \cap good
      BY ThoseType, ThoseRange
    <3> HIDE DEF out
    <3> QED
      BY <3>1, LenProperties
  <2>3. Those(longer, good) = IF x \in good THEN Append(out, x) ELSE out
    BY ThoseAppend
  <2>4. SUFFICES ASSUME SortedBy(longer, before) PROVE SortedBy(Those(longer, good), before)
    BY <2>1
  <2> HIDE DEF longer, out, n, m
  <2>5. SortedBy(s, before)
    <3> SUFFICES ASSUME NEW i \in 1 .. n, NEW j \in 1 .. n, i < j
                 PROVE  <<s[i], s[j]>> \in before
      BY DEF SortedBy, n
    <3>1. i \in 1 .. n + 1 /\ j \in 1 .. n + 1
      BY <2>1
    <3>2. <<longer[i], longer[j]>> \in before
      BY <2>1, <2>4, <3>1 DEF SortedBy
    <3> QED
      BY <2>1, <3>2
  <2>6. SortedBy(out, before)
    BY <1>2, <2>5 DEF out
  <2>7. \A i \in 1 .. m : <<out[i], x>> \in before
    <3> SUFFICES ASSUME NEW i \in 1 .. m PROVE <<out[i], x>> \in before
      OBVIOUS
    <3>1. out[i] \in Range(s)
      BY <2>2 DEF Range
    <3>2. PICK k \in 1 .. n : s[k] = out[i]
      BY <2>1, <3>1 DEF Range
    <3>3. k \in 1 .. n + 1 /\ n + 1 \in 1 .. n + 1 /\ k < n + 1
      BY <2>1
    <3>4. <<longer[k], longer[n + 1]>> \in before
      BY <2>1, <2>4, <3>3 DEF SortedBy
    <3> QED
      BY <2>1, <3>2, <3>4
  <2>8. CASE x \in good
    <3> DEFINE all == Append(out, x)
    <3>1. Len(all) = m + 1 /\ all[m + 1] = x /\ \A k \in 1 .. m : all[k] = out[k]
      BY <2>2, AppendProperties DEF m
    <3> HIDE DEF all
    <3>2. ASSUME NEW i \in 1 .. m + 1, NEW j \in 1 .. m + 1, i < j
          PROVE  <<all[i], all[j]>> \in before
      <4>1. i \in 1 .. m /\ (j \in 1 .. m \/ j = m + 1)
        BY <2>2, <3>2
      <4>2. CASE j \in 1 .. m
        <5>1. <<out[i], out[j]>> \in before
          BY <2>6, <3>2, <4>1, <4>2 DEF SortedBy, m
        <5> QED
          BY <3>1, <4>1, <4>2, <5>1
      <4>3. CASE j = m + 1
        BY <2>7, <3>1, <4>1, <4>3
      <4> QED
        BY <4>1, <4>2, <4>3
    <3> QED
      BY <2>3, <2>8, <3>1, <3>2 DEF SortedBy, all
  <2>9. CASE x \notin good
    BY <2>3, <2>6, <2>9
  <2> QED
    BY <2>8, <2>9
<1>3. Seq(T) \subseteq G
  <2> HIDE DEF G
  <2> QED
    BY <1>1, <1>2, SeqInduct
<1> QED
  BY <1>3

(* What is kept starts with the first good element.                        *)
LEMMA ThoseFirst ==
    ASSUME NEW T, NEW seq \in Seq(T), NEW good
    PROVE  /\ Those(seq, good) = <<>> <=> \A i \in DOMAIN seq : seq[i] \notin good
           /\ \A i \in DOMAIN seq :
                seq[i] \in good /\ (\A j \in 1 .. i - 1 : seq[j] \notin good)
                => Head(Those(seq, good)) = seq[i]
<1> DEFINE out == Those(seq, good)
           P == Places(seq, good)
<1>1. out \in Seq(T) /\ Placed(seq, P, out) /\ Len(seq) \in Nat /\ DOMAIN seq = 1 .. Len(seq)
  BY ThoseType, ThosePlaces, LenProperties
<1>2. P \subseteq 1 .. Len(seq) /\ IsFiniteSet(P)
  <2>1. P \subseteq 1 .. Len(seq) /\ IsFiniteSet(1 .. Len(seq))
    BY <1>1, FS_Interval DEF Places
  <2> QED
    BY <2>1, FS_Subset
<1>3. out = <<>> <=> P = {}
  <2>1. Len(out) = Cardinality(P)
    BY <1>1 DEF Placed
  <2>2. Cardinality(P) = 0 <=> P = {}
    BY <1>2, FS_EmptySet
  <2>3. out = <<>> <=> Len(out) = 0
    BY <1>1, EmptySeq
  <2> QED
    BY <2>1, <2>2, <2>3
<1>4. ASSUME NEW i \in DOMAIN seq, seq[i] \in good, \A j \in 1 .. i - 1 : seq[j] \notin good
      PROVE  Head(out) = seq[i]
  <2>1. UpTo(P, i) = {i}
    BY <1>1, <1>4 DEF UpTo, Places
  <2>2. Cardinality({i}) = 1
    BY FS_Singleton
  <2>3. i \in P /\ out[1] = seq[i]
    BY <1>1, <1>4, <2>1, <2>2 DEF Placed, Places
  <2>4. out # <<>>
    BY <1>3, <2>3
  <2> HIDE DEF out
  <2> QED
    BY <1>1, <2>3, <2>4
<1>5. P = {} <=> \A i \in DOMAIN seq : seq[i] \notin good
  BY DEF Places
<1> QED
  BY <1>3, <1>4, <1>5

-----------------------------------------------------------------------------
(* First                                                                   *)

(* The first n elements: n of them, or all.                                *)
LEMMA FirstIs ==
    ASSUME NEW T, NEW seq \in Seq(T), NEW n \in Nat
    PROVE  /\ First(seq, n) \in Seq(T)
           /\ Len(First(seq, n)) = IF Len(seq) < n THEN Len(seq) ELSE n
           /\ \A i \in 1 .. Len(First(seq, n)) : First(seq, n)[i] = seq[i]
<1> DEFINE m == IF Len(seq) < n THEN Len(seq) ELSE n
<1>1. Len(seq) \in Nat /\ m \in 0 .. Len(seq)
  BY LenProperties
<1> HIDE DEF m
<1>2. /\ SubSeq(seq, 1, m) \in Seq(T) /\ Len(SubSeq(seq, 1, m)) = m
      /\ \A i \in 1 .. m : SubSeq(seq, 1, m)[i] = seq[i]
  BY <1>1, SubSeqProperties
<1> QED
  BY <1>2 DEF First, m

-----------------------------------------------------------------------------
(* SumOf                                                                   *)

(* g[k] is the sum of the first k elements.                                *)
SummedSoFar(g, seq) ==
    /\ g \in [0 .. Len(seq) -> Int]
    /\ g[0] = 0
    /\ \A k \in 1 .. Len(seq) : g[k] = g[k - 1] + seq[k]
    /\ SumOf(seq) = g[Len(seq)]

(* SumOf is the running sum of the whole.                                  *)
LEMMA SumUpwards ==
    ASSUME NEW seq \in Seq(Int)
    PROVE  \E g : SummedSoFar(g, seq)
<1> DEFINE n == Len(seq)
           S == Int
           step == [w \in S \X Nat |->
                      IF w[2] \in 1 .. n THEN w[1] + seq[w[2]] ELSE w[1]]
           Eqn(f) == f = [s \in SUBSET (DOMAIN seq) |->
                           IF s = {} THEN 0
                           ELSE f[s \ {Max(s)}] + seq[Max(s)]]
           iter == CHOOSE f : Eqn(f)
<1>1. n \in Nat /\ DOMAIN seq = 1 .. n /\ \A k \in 1 .. n : seq[k] \in Int
  BY LenProperties, ElementOfSeq
<1>2. SumOf(seq) = iter[DOMAIN seq]
  BY DEF SumOf, FoldLeft, MapThenFoldSet
<1>3. step \in [S \X Nat -> S] /\ 0 \in S
  <2>1. ASSUME NEW w \in S \X Nat PROVE step[w] \in S
    <3>1. w[1] \in S /\ w[2] \in Nat
      OBVIOUS
    <3> QED
      BY <1>1, <3>1
  <2> QED
    BY <2>1
<1>4. \E f : Eqn(f)
  <2>1. PICK f \in [SUBSET (1 .. n) -> S] :
           \A s \in SUBSET (1 .. n) :
              f[s] = IF s = {} THEN 0 ELSE step[<<f[s \ {Max(s)}], Max(s)>>]
    <3> DEFINE base == 0
    <3>1. n \in Nat /\ base \in S /\ step \in [S \X Nat -> S]
      BY <1>1, <1>3
    <3> HIDE DEF step, S, n, base
    <3>2. \E f \in [SUBSET (1 .. n) -> S] : FoldsTo(f, n, base, step)
      BY <3>1, FoldExists
    <3> QED
      BY <3>2 DEF base, FoldsTo
  <2>2. ASSUME NEW s \in SUBSET (1 .. n), s # {}
        PROVE  f[s] = f[s \ {Max(s)}] + seq[Max(s)]
    <3>1. Max(s) \in 1 .. n
      <4>1. s \subseteq 1 .. n
        OBVIOUS
      <4> HIDE DEF n
      <4> QED
        BY <1>1, <2>2, <4>1, LargestIs
    <3>2. f[s \ {Max(s)}] \in S
      BY <2>1
    <3> DEFINE m == Max(s)
               r == f[s \ {m}]
    <3>3. f[s] = step[<<r, m>>]
      BY <2>1, <2>2
    <3>4. m \in 1 .. n /\ r \in S
      BY <3>1, <3>2
    <3> HIDE DEF m, r, n, S
    <3>5. <<r, m>> \in S \X Nat
      BY <1>1, <3>4
    <3>6. f[s] = r + seq[m]
      BY <3>3, <3>4, <3>5
    <3> QED
      BY <3>6 DEF m, r
  <2>3. Eqn(f)
    BY <1>1, <2>1, <2>2
  <2> QED
    BY <2>3
<1>5. Eqn(iter)
  <2> HIDE DEF Eqn
  <2> QED
    BY <1>4
<1> HIDE DEF iter, n, S
<1>6. ASSUME NEW k \in 1 .. n
      PROVE  /\ 1 .. k # {} /\ 1 .. k \in SUBSET (DOMAIN seq)
             /\ Max(1 .. k) = k /\ (1 .. k) \ {k} = 1 .. k - 1
  BY <1>1, PrefixIs
<1>7. iter[{}] = 0
  BY <1>5
<1>8. ASSUME NEW k \in 1 .. n
      PROVE  iter[1 .. k] = iter[1 .. k - 1] + seq[k]
  <2>1. \A s \in SUBSET (DOMAIN seq) : s # {} =>
          iter[s] = iter[s \ {Max(s)}] + seq[Max(s)]
    BY <1>5
  <2> QED
    BY ONLY <1>6, <2>1
<1> DEFINE g == [k \in 0 .. n |-> iter[1 .. k]]
<1>9. g[0] = 0
  <2>1. 1 .. 0 = {} /\ 0 \in 0 .. n
    BY <1>1
  <2> QED
    BY <1>7, <2>1
<1>10. ASSUME NEW k \in 1 .. n
       PROVE  g[k] = g[k - 1] + seq[k]
  <2>1. k \in 0 .. n /\ k - 1 \in 0 .. n
    BY <1>1
  <2> QED
    BY <1>8, <2>1
<1>11. \A k \in 0 .. n : g[k] \in S
  <2> DEFINE P == {k \in 0 .. n : g[k] \in S}
  <2>1. 0 \in P
    BY <1>1, <1>3, <1>9
  <2>2. ASSUME NEW k \in 0 .. n - 1, k \in P PROVE k + 1 \in P
    <3>1. k + 1 \in 1 .. n /\ k + 1 \in 0 .. n /\ (k + 1) - 1 = k
      BY <1>1
    <3> HIDE DEF g
    <3>2. g[k] \in S /\ seq[k + 1] \in Int
      BY <1>1, <2>2, <3>1
    <3>3. g[k + 1] = g[k] + seq[k + 1]
      BY <1>10, <3>1
    <3>4. g[k + 1] \in S
      BY <3>2, <3>3 DEF S
    <3> QED
      BY <3>1, <3>4
  <2>3. 0 .. n \subseteq P
    <3> HIDE DEF P
    <3> QED
      BY <1>1, <2>1, <2>2, InductTo
  <2> QED
    BY <2>3
<1>12. g \in [0 .. n -> S]
  BY <1>11
<1>13. SumOf(seq) = g[n]
  BY <1>1, <1>2
<1> HIDE DEF g
<1> QED
  BY <1>9, <1>10, <1>12, <1>13 DEF n, S, SummedSoFar

(* Nothing adds up to 0.                                                   *)
LEMMA SumEmpty == SumOf(<<>>) = 0
<1>1. <<>> \in Seq(Int) /\ Len(<<>>) = 0
  BY EmptySeq
<1> QED
  BY <1>1, SumUpwards DEF SummedSoFar

(* Integers add up to an integer.                                          *)
LEMMA SumType ==
    ASSUME NEW seq \in Seq(Int)
    PROVE  SumOf(seq) \in Int
<1>1. PICK g : SummedSoFar(g, seq)
  BY SumUpwards
<1> QED
  BY <1>1, LenProperties DEF SummedSoFar

(* One number more is that much more.                                      *)
LEMMA SumAppend ==
    ASSUME NEW seq \in Seq(Int), NEW x \in Int
    PROVE  SumOf(Append(seq, x)) = SumOf(seq) + x
<1> DEFINE n == Len(seq)
           longer == Append(seq, x)
<1>1. /\ n \in Nat /\ longer \in Seq(Int) /\ Len(longer) = n + 1
      /\ longer[n + 1] = x /\ \A k \in 1 .. n : longer[k] = seq[k]
  BY AppendProperties, LenProperties
<1>2. PICK g : SummedSoFar(g, seq)
  BY SumUpwards
<1>3. PICK h : SummedSoFar(h, longer)
  BY <1>1, SumUpwards
<1> USE DEF SummedSoFar
<1> HIDE DEF longer
<1>4. ASSUME NEW k \in 1 .. n
      PROVE  /\ h[k] = h[k - 1] + longer[k] /\ g[k] = g[k - 1] + seq[k]
             /\ longer[k] = seq[k]
  BY <1>1, <1>2, <1>3
<1>5. h[n] = g[n]
  <2> DEFINE P == {k \in 0 .. n : h[k] = g[k]}
  <2>1. 0 \in P
    BY <1>1, <1>2, <1>3
  <2>2. ASSUME NEW k \in 0 .. n - 1, k \in P PROVE k + 1 \in P
    <3>1. k + 1 \in 1 .. n /\ k + 1 \in 1 .. n + 1 /\ (k + 1) - 1 = k /\ k + 1 \in 0 .. n
      BY <1>1
    <3>2. h[k + 1] = h[k] + longer[k + 1] /\ g[k + 1] = g[k] + seq[k + 1]
      BY <1>4, <3>1
    <3>3. longer[k + 1] = seq[k + 1] /\ h[k] = g[k]
      BY <1>4, <2>2, <3>1
    <3> QED
      BY <3>1, <3>2, <3>3
  <2>3. 0 .. n \subseteq P
    <3> HIDE DEF P
    <3> QED
      BY <1>1, <2>1, <2>2, InductTo
  <2> QED
    BY <1>1, <2>3
<1>6. h[n + 1] = h[n] + x
  BY <1>1, <1>3
<1> QED
  BY <1>1, <1>2, <1>3, <1>5, <1>6 DEF longer

(* The running sum, one step, with the types of its parts.                 *)
LEMMA SummedStep ==
    ASSUME NEW seq \in Seq(Int), NEW g, SummedSoFar(g, seq), NEW k \in 1 .. Len(seq)
    PROVE  g[k] = g[k - 1] + seq[k] /\ g[k - 1] \in Int /\ seq[k] \in Int
<1>1. Len(seq) \in Nat /\ seq[k] \in Int
  BY LenProperties, ElementOfSeq
<1>2. k - 1 \in 0 .. Len(seq)
  BY <1>1
<1> QED
  BY <1>1, <1>2 DEF SummedSoFar

(* A function on 1..n is a sequence.                                       *)
LEMMA FunctionIsSeq ==
    ASSUME NEW n \in Nat, NEW S, NEW f \in [1 .. n -> S]
    PROVE  f \in Seq(S) /\ Len(f) = n
OBVIOUS

(* Place by place at most: at most in sum.                                 *)
LEMMA SumLe ==
    ASSUME NEW s \in Seq(Int), NEW t \in Seq(Int), Len(s) = Len(t),
           \A k \in 1 .. Len(s) : s[k] <= t[k]
    PROVE  SumOf(s) <= SumOf(t)
<1> DEFINE n == Len(s)
<1>1. n \in Nat /\ \A k \in 1 .. n : s[k] \in Int /\ t[k] \in Int
  BY LenProperties, ElementOfSeq
<1>2. PICK g : SummedSoFar(g, s)
  BY SumUpwards
<1>3. PICK h : SummedSoFar(h, t)
  BY SumUpwards
<1>4. ASSUME NEW k \in 1 .. n
      PROVE  /\ g[k] = g[k - 1] + s[k] /\ h[k] = h[k - 1] + t[k] /\ s[k] <= t[k]
             /\ g[k - 1] \in Int /\ h[k - 1] \in Int
  BY <1>1, <1>2, <1>3, SummedStep
<1> DEFINE P == {k \in 0 .. n : g[k] <= h[k]}
<1>5. 0 \in P
  BY <1>1, <1>2, <1>3 DEF SummedSoFar
<1>6. ASSUME NEW k \in 0 .. n - 1, k \in P PROVE k + 1 \in P
  <2>1. k + 1 \in 1 .. n /\ (k + 1) - 1 = k /\ k + 1 \in 0 .. n
    BY <1>1
  <2>2. /\ g[k + 1] = g[k] + s[k + 1] /\ h[k + 1] = h[k] + t[k + 1] /\ s[k + 1] <= t[k + 1]
        /\ g[k] \in Int /\ h[k] \in Int
    BY <1>4, <2>1
  <2>3. g[k] <= h[k] /\ s[k + 1] \in Int /\ t[k + 1] \in Int
    BY <1>1, <1>6, <2>1
  <2> QED
    BY <2>1, <2>2, <2>3
<1>7. 0 .. n \subseteq P
  <2> HIDE DEF P
  <2> QED
    BY <1>1, <1>5, <1>6, InductTo
<1> QED
  BY <1>1, <1>2, <1>3, <1>7 DEF SummedSoFar

(* The sum of sums.                                                        *)
LEMMA SumPlus ==
    ASSUME NEW s \in Seq(Int), NEW t \in Seq(Int), NEW u \in Seq(Int),
           Len(s) = Len(t), Len(s) = Len(u),
           \A k \in 1 .. Len(s) : u[k] = s[k] + t[k]
    PROVE  SumOf(u) = SumOf(s) + SumOf(t)
<1> DEFINE n == Len(s)
<1>1. n \in Nat /\ \A k \in 1 .. n : s[k] \in Int /\ t[k] \in Int /\ u[k] = s[k] + t[k]
  BY LenProperties, ElementOfSeq
<1>2. PICK g : SummedSoFar(g, s)
  BY SumUpwards
<1>3. PICK h : SummedSoFar(h, t)
  BY SumUpwards
<1>4. PICK l : SummedSoFar(l, u)
  BY SumUpwards
<1>5. ASSUME NEW k \in 1 .. n
      PROVE  /\ g[k] = g[k - 1] + s[k] /\ h[k] = h[k - 1] + t[k] /\ l[k] = l[k - 1] + u[k]
             /\ g[k - 1] \in Int /\ h[k - 1] \in Int
  BY <1>1, <1>2, <1>3, <1>4, SummedStep
<1> DEFINE P == {k \in 0 .. n : l[k] = g[k] + h[k]}
<1>6. 0 \in P
  BY <1>1, <1>2, <1>3, <1>4 DEF SummedSoFar
<1>7. ASSUME NEW k \in 0 .. n - 1, k \in P PROVE k + 1 \in P
  <2>1. k + 1 \in 1 .. n /\ (k + 1) - 1 = k /\ k + 1 \in 0 .. n
    BY <1>1
  <2>2. /\ g[k + 1] = g[k] + s[k + 1] /\ h[k + 1] = h[k] + t[k + 1] /\ l[k + 1] = l[k] + u[k + 1]
        /\ g[k] \in Int /\ h[k] \in Int
    BY <1>5, <2>1
  <2>3. s[k + 1] \in Int /\ t[k + 1] \in Int /\ u[k + 1] = s[k + 1] + t[k + 1]
    BY <1>1, <2>1
  <2>4. l[k] = g[k] + h[k]
    BY <1>7
  <2> QED
    BY <2>1, <2>2, <2>3, <2>4
<1>8. 0 .. n \subseteq P
  <2> HIDE DEF P
  <2> QED
    BY <1>1, <1>6, <1>7, InductTo
<1>9. l[n] = g[n] + h[n]
  BY <1>1, <1>8
<1>10. g[n] = SumOf(s) /\ h[n] = SumOf(t) /\ l[n] = SumOf(u)
  BY <1>2, <1>3, <1>4 DEF SummedSoFar
<1> QED
  BY <1>9, <1>10

(* A common factor.                                                        *)
LEMMA SumTimes ==
    ASSUME NEW s \in Seq(Int), NEW u \in Seq(Int), NEW c \in Int, Len(s) = Len(u),
           \A k \in 1 .. Len(s) : u[k] = c * s[k]
    PROVE  SumOf(u) = c * SumOf(s)
<1> DEFINE n == Len(s)
<1>1. n \in Nat /\ \A k \in 1 .. n : s[k] \in Int /\ u[k] = c * s[k]
  BY LenProperties, ElementOfSeq
<1>2. PICK g : SummedSoFar(g, s)
  BY SumUpwards
<1>3. PICK l : SummedSoFar(l, u)
  BY SumUpwards
<1>4. ASSUME NEW k \in 1 .. n
      PROVE  g[k] = g[k - 1] + s[k] /\ l[k] = l[k - 1] + u[k] /\ g[k - 1] \in Int
  BY <1>1, <1>2, <1>3, SummedStep
<1> DEFINE P == {k \in 0 .. n : l[k] = c * g[k]}
<1>5. 0 \in P
  BY <1>1, <1>2, <1>3 DEF SummedSoFar
<1>6. ASSUME NEW k \in 0 .. n - 1, k \in P PROVE k + 1 \in P
  <2>1. k + 1 \in 1 .. n /\ (k + 1) - 1 = k /\ k + 1 \in 0 .. n
    BY <1>1
  <2>2. g[k + 1] = g[k] + s[k + 1] /\ l[k + 1] = l[k] + u[k + 1] /\ g[k] \in Int
    BY <1>4, <2>1
  <2>3. s[k + 1] \in Int /\ u[k + 1] = c * s[k + 1]
    BY <1>1, <2>1
  <2>4. l[k] = c * g[k]
    BY <1>6
  <2>5. \A a, b \in Int : c * a + c * b = c * (a + b)
    OBVIOUS
  <2>6. l[k + 1] = c * g[k + 1]
    BY ONLY <2>2, <2>3, <2>4, <2>5
  <2> QED
    BY <2>1, <2>6
<1>7. 0 .. n \subseteq P
  <2> HIDE DEF P
  <2> QED
    BY <1>1, <1>5, <1>6, InductTo
<1> QED
  BY <1>1, <1>2, <1>3, <1>7 DEF SummedSoFar

(* The same number over and over.                                          *)
LEMMA SumConst ==
    ASSUME NEW u \in Seq(Int), NEW c \in Int, \A k \in 1 .. Len(u) : u[k] = c
    PROVE  SumOf(u) = c * Len(u)
<1> DEFINE n == Len(u)
<1>1. n \in Nat
  BY LenProperties
<1>2. PICK l : SummedSoFar(l, u)
  BY SumUpwards
<1>3. ASSUME NEW k \in 1 .. n PROVE l[k] = l[k - 1] + c
  BY <1>2, <1>3, SummedStep
<1> DEFINE P == {k \in 0 .. n : l[k] = c * k}
<1>4. 0 \in P
  BY <1>1, <1>2 DEF SummedSoFar
<1>5. ASSUME NEW k \in 0 .. n - 1, k \in P PROVE k + 1 \in P
  <2>1. k + 1 \in 1 .. n /\ (k + 1) - 1 = k /\ k + 1 \in 0 .. n /\ k \in Int
    BY <1>1
  <2>2. l[k + 1] = l[k] + c
    BY <1>3, <2>1
  <2>3. l[k] = c * k
    BY <1>5
  <2>4. \A a \in Int : c * a + c = c * (a + 1)
    OBVIOUS
  <2>5. l[k + 1] = c * (k + 1)
    BY ONLY <2>1, <2>2, <2>3, <2>4
  <2> QED
    BY <2>1, <2>5
<1>6. 0 .. n \subseteq P
  <2> HIDE DEF P
  <2> QED
    BY <1>1, <1>4, <1>5, InductTo
<1> QED
  BY <1>1, <1>2, <1>6 DEF SummedSoFar

(* All zeros but one.                                                      *)
LEMMA SumSingle ==
    ASSUME NEW s \in Seq(Int), NEW j \in 1 .. Len(s),
           \A k \in 1 .. Len(s) : k # j => s[k] = 0
    PROVE  SumOf(s) = s[j]
<1> DEFINE n == Len(s)
<1>1. n \in Nat /\ s[j] \in Int
  BY LenProperties, ElementOfSeq
<1>2. PICK g : SummedSoFar(g, s)
  BY SumUpwards
<1>3. ASSUME NEW k \in 1 .. n PROVE g[k] = g[k - 1] + s[k]
  BY <1>2, <1>3, SummedStep
<1> DEFINE P == {k \in 0 .. n : g[k] = IF k < j THEN 0 ELSE s[j]}
<1>4. 0 \in P
  BY <1>1, <1>2 DEF SummedSoFar
<1>5. ASSUME NEW k \in 0 .. n - 1, k \in P PROVE k + 1 \in P
  <2>1. k + 1 \in 1 .. n /\ (k + 1) - 1 = k /\ k + 1 \in 0 .. n
    BY <1>1
  <2>2. g[k + 1] = g[k] + s[k + 1]
    BY <1>3, <2>1
  <2>3. g[k] = IF k < j THEN 0 ELSE s[j]
    BY <1>5
  <2>4. k + 1 # j => s[k + 1] = 0
    BY <2>1
  <2>5. CASE k + 1 = j
    BY <1>1, <2>1, <2>2, <2>3, <2>5
  <2>6. CASE k + 1 # j
    BY <1>1, <2>1, <2>2, <2>3, <2>4, <2>6
  <2> QED
    BY <2>5, <2>6
<1>6. 0 .. n \subseteq P
  <2> HIDE DEF P
  <2> QED
    BY <1>1, <1>4, <1>5, InductTo
<1>7. g[n] = s[j]
  BY <1>1, <1>6
<1> QED
  BY <1>2, <1>7 DEF SummedSoFar

(* Naturals add up to no less than any of them, and zeros to zero.         *)
LEMMA SumAtLeast ==
    ASSUME NEW s \in Seq(Nat)
    PROVE  /\ SumOf(s) \in Nat
           /\ \A j \in 1 .. Len(s) : s[j] <= SumOf(s)
           /\ (\A j \in 1 .. Len(s) : s[j] = 0) => SumOf(s) = 0
<1>1. s \in Seq(Int) /\ Len(s) \in Nat /\ \A k \in 1 .. Len(s) : s[k] \in Nat
  BY SeqMonotonic, LenProperties, ElementOfSeq
<1>2. SumOf(s) \in Nat
  <2> DEFINE z == [k \in 1 .. Len(s) |-> 0]
  <2>1. z \in Seq(Int) /\ Len(z) = Len(s)
    BY <1>1, FunctionIsSeq
  <2>2. \A k \in 1 .. Len(s) : z[k] = 0 /\ z[k] <= s[k]
    BY <1>1
  <2> HIDE DEF z
  <2>3. SumOf(z) = 0 * Len(z)
    BY <2>1, <2>2, SumConst
  <2>4. SumOf(z) <= SumOf(s)
    BY <1>1, <2>1, <2>2, SumLe
  <2>5. SumOf(s) \in Int
    BY <1>1, SumType
  <2> QED
    BY <1>1, <2>1, <2>3, <2>4, <2>5
<1>3. ASSUME NEW j \in 1 .. Len(s) PROVE s[j] <= SumOf(s)
  <2> DEFINE z == [k \in 1 .. Len(s) |-> IF k = j THEN s[j] ELSE 0]
  <2>1. z \in [1 .. Len(s) -> Int]
    BY <1>1
  <2>2. z \in Seq(Int) /\ Len(z) = Len(s)
    <3> HIDE DEF z
    <3> QED
      BY <1>1, <2>1, FunctionIsSeq
  <2>3. \A k \in 1 .. Len(s) : z[k] <= s[k] /\ (k # j => z[k] = 0)
    BY <1>1
  <2>4. z[j] = s[j]
    OBVIOUS
  <2> HIDE DEF z
  <2>5. SumOf(z) = z[j]
    BY <2>2, <2>3, SumSingle
  <2>6. SumOf(z) <= SumOf(s)
    BY <1>1, <2>2, <2>3, SumLe
  <2> QED
    BY <2>4, <2>5, <2>6
<1>4. ASSUME \A j \in 1 .. Len(s) : s[j] = 0 PROVE SumOf(s) = 0
  <2>1. SumOf(s) = 0 * Len(s)
    BY <1>1, <1>4, SumConst
  <2> QED
    BY <1>1, <2>1
<1> QED
  BY <1>2, <1>3, <1>4

(* A linear combination, place by place.                                   *)
Combined(n, x, t, a, b, c) == [k \in 1 .. n |-> a * x[k] + b * t[k] + c]

CombinesTo(n, x, t, a, b, c) ==
    SumOf(Combined(n, x, t, a, b, c)) = a * SumOf(x) + b * SumOf(t) + c * n

(* The sum of a linear combination is that of the sums.                    *)
LEMMA SumCombine ==
    ASSUME NEW n \in Nat, NEW x \in [1 .. n -> Int], NEW t \in [1 .. n -> Int],
           NEW a \in Int, NEW b \in Int, NEW c \in Int
    PROVE  CombinesTo(n, x, t, a, b, c)
<1> DEFINE y == [k \in 1 .. n |-> a * x[k]]
           z == [k \in 1 .. n |-> b * t[k]]
           p == [k \in 1 .. n |-> a * x[k] + b * t[k]]
           q == [k \in 1 .. n |-> c]
           u == [k \in 1 .. n |-> a * x[k] + b * t[k] + c]
<1>1. \A k \in 1 .. n : x[k] \in Int /\ t[k] \in Int
  OBVIOUS
<1>2. \A k \in 1 .. n : /\ a * x[k] \in Int /\ b * t[k] \in Int
                       /\ a * x[k] + b * t[k] \in Int /\ a * x[k] + b * t[k] + c \in Int
  BY <1>1
<1>3. /\ y \in [1 .. n -> Int] /\ z \in [1 .. n -> Int] /\ p \in [1 .. n -> Int]
      /\ q \in [1 .. n -> Int] /\ u \in [1 .. n -> Int]
  <2>1. y \in [1 .. n -> Int]
    BY ONLY <1>2
  <2>2. z \in [1 .. n -> Int]
    BY ONLY <1>2
  <2>3. p \in [1 .. n -> Int]
    BY ONLY <1>2
  <2>4. q \in [1 .. n -> Int]
    OBVIOUS
  <2>5. u \in [1 .. n -> Int]
    BY ONLY <1>2
  <2> QED
    BY <2>1, <2>2, <2>3, <2>4, <2>5
<1>4. /\ \A k \in 1 .. n : y[k] = a * x[k]
      /\ \A k \in 1 .. n : z[k] = b * t[k]
      /\ \A k \in 1 .. n : p[k] = y[k] + z[k]
      /\ \A k \in 1 .. n : q[k] = c
      /\ \A k \in 1 .. n : u[k] = p[k] + q[k]
  OBVIOUS
<1> HIDE DEF y, z, p, q, u
<1>5. /\ x \in Seq(Int) /\ Len(x) = n /\ t \in Seq(Int) /\ Len(t) = n
      /\ y \in Seq(Int) /\ Len(y) = n /\ z \in Seq(Int) /\ Len(z) = n
      /\ p \in Seq(Int) /\ Len(p) = n /\ q \in Seq(Int) /\ Len(q) = n
      /\ u \in Seq(Int) /\ Len(u) = n
  BY <1>3, FunctionIsSeq
<1>6. SumOf(y) = a * SumOf(x)
  <2>1. Len(x) = Len(y) /\ \A k \in 1 .. Len(x) : y[k] = a * x[k]
    BY ONLY <1>4, <1>5
  <2>2. x \in Seq(Int) /\ y \in Seq(Int) /\ a \in Int
    BY <1>5
  <2> QED
    BY ONLY <2>1, <2>2, SumTimes
<1>7. SumOf(z) = b * SumOf(t)
  <2>1. Len(t) = Len(z) /\ \A k \in 1 .. Len(t) : z[k] = b * t[k]
    BY ONLY <1>4, <1>5
  <2>2. t \in Seq(Int) /\ z \in Seq(Int) /\ b \in Int
    BY <1>5
  <2> QED
    BY ONLY <2>1, <2>2, SumTimes
<1>8. SumOf(p) = SumOf(y) + SumOf(z)
  <2>1. Len(y) = Len(z) /\ Len(y) = Len(p) /\ \A k \in 1 .. Len(y) : p[k] = y[k] + z[k]
    BY ONLY <1>4, <1>5
  <2> QED
    BY ONLY <1>5, <2>1, SumPlus
<1>9. SumOf(q) = c * n
  BY <1>4, <1>5, SumConst
<1>10. SumOf(u) = SumOf(p) + SumOf(q)
  <2>1. Len(p) = Len(q) /\ Len(p) = Len(u) /\ \A k \in 1 .. Len(p) : u[k] = p[k] + q[k]
    BY ONLY <1>4, <1>5
  <2> QED
    BY ONLY <1>5, <2>1, SumPlus
<1>11. SumOf(u) = a * SumOf(x) + b * SumOf(t) + c * n
  BY <1>6, <1>7, <1>8, <1>9, <1>10
<1> QED
  BY <1>11 DEF u, Combined, CombinesTo

(* A linear bound, place by place and in sum.                              *)
EachBounded(n, u, x, t, e, a, b, c) ==
    \A k \in 1 .. n : e * u[k] <= a * x[k] + b * t[k] + c

AllBounded(n, u, x, t, e, a, b, c) ==
    e * SumOf(u) <= a * SumOf(x) + b * SumOf(t) + c * n

(* What bounds each term bounds the sum.                                   *)
LEMMA SumBounded ==
    ASSUME NEW n \in Nat, NEW u \in [1 .. n -> Int],
           NEW x \in [1 .. n -> Int], NEW t \in [1 .. n -> Int],
           NEW e \in Int, NEW a \in Int, NEW b \in Int, NEW c \in Int,
           EachBounded(n, u, x, t, e, a, b, c)
    PROVE  AllBounded(n, u, x, t, e, a, b, c)
<1> DEFINE y == [k \in 1 .. n |-> e * u[k]]
           v == Combined(n, x, t, a, b, c)
<1>1. \A k \in 1 .. n : u[k] \in Int /\ x[k] \in Int /\ t[k] \in Int
  OBVIOUS
<1>2. \A k \in 1 .. n : e * u[k] \in Int /\ a * x[k] + b * t[k] + c \in Int
  BY <1>1
<1>3. y \in [1 .. n -> Int] /\ v \in [1 .. n -> Int]
  BY <1>2 DEF Combined
<1>4. /\ \A k \in 1 .. n : y[k] = e * u[k]
      /\ \A k \in 1 .. n : y[k] <= v[k]
  BY DEF Combined, EachBounded
<1>5. SumOf(v) = a * SumOf(x) + b * SumOf(t) + c * n
  <2>1. /\ n \in Nat /\ x \in [1 .. n -> Int] /\ t \in [1 .. n -> Int]
        /\ a \in Int /\ b \in Int /\ c \in Int
    OBVIOUS
  <2>2. CombinesTo(n, x, t, a, b, c)
    BY ONLY <2>1, SumCombine
  <2> QED
    BY <2>2 DEF CombinesTo
<1> HIDE DEF y, v
<1>6. /\ u \in Seq(Int) /\ Len(u) = n /\ y \in Seq(Int) /\ Len(y) = n
      /\ v \in Seq(Int) /\ Len(v) = n
  BY <1>3, FunctionIsSeq
<1>7. SumOf(y) = e * SumOf(u)
  BY <1>4, <1>6, SumTimes
<1>8. SumOf(y) <= SumOf(v)
  BY <1>4, <1>6, SumLe
<1> QED
  BY <1>5, <1>7, <1>8 DEF AllBounded

(* The sum of the rows of a matrix is the sum of its columns.              *)
LEMMA SumSwap ==
    ASSUME NEW m \in Nat, NEW n \in Nat, NEW a \in [1 .. m -> [1 .. n -> Int]]
    PROVE  SumOf([i \in 1 .. m |-> SumOf(a[i])])
             = SumOf([j \in 1 .. n |-> SumOf([i \in 1 .. m |-> a[i][j]])])
<1> DEFINE rows == [i \in 1 .. m |-> SumOf(a[i])]
           top(k, j) == [i \in 1 .. k |-> a[i][j]]
           cols(k) == [j \in 1 .. n |-> SumOf(top(k, j))]
<1>1. \A i \in 1 .. m : a[i] \in Seq(Int) /\ Len(a[i]) = n
  BY FunctionIsSeq
<1>2. rows \in Seq(Int) /\ Len(rows) = m
  <2>1. rows \in [1 .. m -> Int]
    BY <1>1, SumType
  <2> HIDE DEF rows
  <2> QED
    BY <2>1, FunctionIsSeq
<1>3. ASSUME NEW k \in 0 .. m, NEW j \in 1 .. n
      PROVE  top(k, j) \in Seq(Int) /\ Len(top(k, j)) = k
  <2>1. k \in Nat /\ \A i \in 1 .. k : i \in 1 .. m
    OBVIOUS
  <2>2. top(k, j) \in [1 .. k -> Int]
    BY <2>1
  <2> HIDE DEF top
  <2> QED
    BY <2>1, <2>2, FunctionIsSeq
<1>4. ASSUME NEW k \in 0 .. m PROVE cols(k) \in Seq(Int) /\ Len(cols(k)) = n
  <2>1. cols(k) \in [1 .. n -> Int]
    <3> HIDE DEF top
    <3> QED
      BY <1>3, SumType
  <2> HIDE DEF cols
  <2> QED
    BY <2>1, FunctionIsSeq
<1>5. PICK g : SummedSoFar(g, rows)
  BY <1>2, SumUpwards
<1>6. ASSUME NEW k \in 1 .. m PROVE g[k] = g[k - 1] + SumOf(a[k])
  <2>1. g[k] = g[k - 1] + rows[k]
    <3> HIDE DEF rows
    <3> QED
      BY <1>2, <1>5, SummedStep
  <2> QED
    BY <2>1
<1>7. ASSUME NEW k \in 1 .. m PROVE SumOf(cols(k)) = SumOf(cols(k - 1)) + SumOf(a[k])
  <2>1. k - 1 \in 0 .. m /\ k \in 0 .. m /\ (k - 1) + 1 = k /\ k - 1 \in Nat
    OBVIOUS
  <2>2. ASSUME NEW j \in 1 .. n PROVE cols(k)[j] = cols(k - 1)[j] + a[k][j]
    <3>1. a[k][j] \in Int
      OBVIOUS
    <3>2. top(k, j) = Append(top(k - 1, j), a[k][j])
      <4>1. top(k - 1, j) \in Seq(Int) /\ Len(top(k - 1, j)) = k - 1
        BY <1>3, <2>1
      <4> DEFINE longer == Append(top(k - 1, j), a[k][j])
      <4>2. /\ longer \in Seq(Int) /\ Len(longer) = k /\ longer[k] = a[k][j]
            /\ \A i \in 1 .. k - 1 : longer[i] = top(k - 1, j)[i]
        <5> HIDE DEF top
        <5> QED
          BY <2>1, <3>1, <4>1, AppendProperties
      <4>3. \A i \in 1 .. k - 1 : longer[i] = a[i][j]
        BY <4>2
      <4>4. top(k, j) \in Seq(Int) /\ Len(top(k, j)) = k /\ \A i \in 1 .. k : top(k, j)[i] = a[i][j]
        BY <1>3, <2>1
      <4> HIDE DEF longer, top
      <4>5. ASSUME NEW i \in 1 .. k PROVE top(k, j)[i] = longer[i]
        <5>1. i = k \/ i \in 1 .. k - 1
          BY <2>1
        <5> QED
          BY <4>2, <4>3, <4>4, <5>1
      <4> QED
        BY <4>2, <4>4, <4>5, SeqEqual DEF longer
    <3>3. top(k - 1, j) \in Seq(Int)
      BY <1>3, <2>1
    <3> HIDE DEF top
    <3>4. SumOf(top(k, j)) = SumOf(top(k - 1, j)) + a[k][j]
      BY <3>1, <3>2, <3>3, SumAppend
    <3> QED
      BY <3>4
  <2>3. /\ cols(k) \in Seq(Int) /\ Len(cols(k)) = n
        /\ cols(k - 1) \in Seq(Int) /\ Len(cols(k - 1)) = n
    BY <1>4, <2>1
  <2> DEFINE s == cols(k - 1)
             u == cols(k)
             r == a[k]
  <2>4. /\ s \in Seq(Int) /\ u \in Seq(Int) /\ r \in Seq(Int)
        /\ Len(s) = n /\ Len(u) = n /\ Len(r) = n
        /\ \A j \in 1 .. n : u[j] = s[j] + r[j]
    <3> HIDE DEF cols
    <3> QED
      BY <1>1, <2>2, <2>3
  <2> HIDE DEF s, u, r, cols
  <2>5. /\ s \in Seq(Int) /\ r \in Seq(Int) /\ u \in Seq(Int)
        /\ Len(s) = Len(r) /\ Len(s) = Len(u)
        /\ \A j \in 1 .. Len(s) : u[j] = s[j] + r[j]
    BY <2>4
  <2>6. SumOf(u) = SumOf(s) + SumOf(r)
    BY ONLY <2>5, SumPlus
  <2> QED
    BY <2>6 DEF s, u, r
<1>8. SumOf(cols(0)) = 0
  <2>1. ASSUME NEW j \in 1 .. n PROVE cols(0)[j] = 0
    <3>1. top(0, j) \in Seq(Int) /\ Len(top(0, j)) = 0
      BY <1>3
    <3> HIDE DEF top
    <3>2. top(0, j) = <<>>
      BY <3>1, EmptySeq
    <3> QED
      BY <3>2, SumEmpty
  <2> DEFINE u == cols(0)
  <2>2. 0 \in 0 .. m
    OBVIOUS
  <2>3. u \in Seq(Int) /\ Len(u) = n /\ \A j \in 1 .. n : u[j] = 0
    <3> HIDE DEF cols
    <3> QED
      BY <1>4, <2>1, <2>2
  <2> HIDE DEF u
  <2>4. SumOf(u) = 0 * Len(u)
    BY <2>3, SumConst
  <2> QED
    BY <2>3, <2>4 DEF u
<1> DEFINE P == {k \in 0 .. m : g[k] = SumOf(cols(k))}
<1>9. 0 \in P
  <2> HIDE DEF cols
  <2> QED
    BY <1>5, <1>8 DEF SummedSoFar
<1>10. ASSUME NEW k \in 0 .. m - 1, k \in P PROVE k + 1 \in P
  <2> HIDE DEF cols
  <2>1. k + 1 \in 1 .. m /\ (k + 1) - 1 = k /\ k + 1 \in 0 .. m
    OBVIOUS
  <2>2. g[k + 1] = g[k] + SumOf(a[k + 1]) /\ SumOf(cols(k + 1)) = SumOf(cols(k)) + SumOf(a[k + 1])
    BY <1>6, <1>7, <2>1
  <2> QED
    BY <1>10, <2>1, <2>2
<1>11. 0 .. m \subseteq P
  <2> HIDE DEF P
  <2> QED
    BY <1>9, <1>10, InductTo
<1>12. SumOf(rows) = g[m]
  BY <1>2, <1>5 DEF SummedSoFar
<1>13. g[m] = SumOf(cols(m))
  <2> HIDE DEF cols
  <2> QED
    BY <1>11
<1> QED
  BY <1>12, <1>13

-----------------------------------------------------------------------------
(* A value of each element, added up                                       *)

Vals(val, seq) == [k \in DOMAIN seq |-> val[seq[k]]]

(* The values of a sequence are as many as its elements.                   *)
LEMMA ValsType ==
    ASSUME NEW T, NEW seq \in Seq(T), NEW val \in [T -> Int]
    PROVE  Vals(val, seq) \in Seq(Int) /\ Len(Vals(val, seq)) = Len(seq)
<1>1. Len(seq) \in Nat /\ DOMAIN seq = 1 .. Len(seq) /\ \A k \in 1 .. Len(seq) : seq[k] \in T
  BY LenProperties, ElementOfSeq
<1>2. Vals(val, seq) \in [1 .. Len(seq) -> Int]
  BY <1>1 DEF Vals
<1> QED
  BY <1>1, <1>2, FunctionIsSeq

(* One element more adds its value.                                        *)
LEMMA ValsAppend ==
    ASSUME NEW T, NEW seq \in Seq(T), NEW x \in T, NEW val \in [T -> Int]
    PROVE  SumOf(Vals(val, Append(seq, x))) = SumOf(Vals(val, seq)) + val[x]
<1> DEFINE n == Len(seq)
           longer == Append(seq, x)
<1>1. /\ n \in Nat /\ DOMAIN seq = 1 .. n
      /\ longer \in Seq(T) /\ Len(longer) = n + 1
      /\ longer[n + 1] = x /\ \A k \in 1 .. n : longer[k] = seq[k]
  BY AppendProperties, LenProperties
<1>2. DOMAIN longer = 1 .. n + 1
  BY <1>1, LenProperties
<1>3. /\ Vals(val, seq) \in Seq(Int) /\ Len(Vals(val, seq)) = n
      /\ Vals(val, longer) \in Seq(Int) /\ Len(Vals(val, longer)) = n + 1
  BY <1>1, ValsType
<1> HIDE DEF n, longer
<1> DEFINE shorter == Append(Vals(val, seq), val[x])
<1>4. val[x] \in Int
  OBVIOUS
<1>5. /\ shorter \in Seq(Int) /\ Len(shorter) = n + 1 /\ shorter[n + 1] = val[x]
      /\ \A k \in 1 .. n : shorter[k] = Vals(val, seq)[k]
  BY <1>3, <1>4, AppendProperties
<1>6. \A k \in 1 .. n : Vals(val, seq)[k] = val[seq[k]]
  BY <1>1 DEF Vals
<1>7. \A k \in 1 .. n + 1 : Vals(val, longer)[k] = val[longer[k]]
  BY <1>2 DEF Vals
<1>8. ASSUME NEW k \in 1 .. n + 1 PROVE Vals(val, longer)[k] = shorter[k]
  <2> HIDE DEF shorter
  <2>1. k = n + 1 \/ k \in 1 .. n
    BY <1>1
  <2>2. CASE k = n + 1
    BY <1>1, <1>5, <1>7, <2>2
  <2>3. CASE k \in 1 .. n
    <3>1. Vals(val, longer)[k] = val[longer[k]]
      BY <1>7
    <3> QED
      BY <1>1, <1>5, <1>6, <2>3, <3>1
  <2> QED
    BY <2>1, <2>2, <2>3
<1>9. Vals(val, longer) = shorter
  <2> HIDE DEF shorter
  <2> QED
    BY <1>3, <1>5, <1>8, SeqEqual
<1> QED
  BY <1>3, <1>4, <1>9, SumAppend DEF longer

(* Adding up what is kept is adding up with nothing for the rest.          *)
LEMMA SumThose ==
    ASSUME NEW T, NEW seq \in Seq(T), NEW val \in [T -> Int], NEW good
    PROVE  SumOf(Vals(val, Those(seq, good)))
             = SumOf(Vals([x \in T |-> IF x \in good THEN val[x] ELSE 0], seq))
<1> DEFINE only == [x \in T |-> IF x \in good THEN val[x] ELSE 0]
           G == {s \in Seq(T) : SumOf(Vals(val, Those(s, good))) = SumOf(Vals(only, s))}
<1>1. only \in [T -> Int]
  OBVIOUS
<1>2. <<>> \in G
  <2>1. Vals(val, <<>>) = <<>> /\ Vals(only, <<>>) = <<>>
    BY DEF Vals
  <2> HIDE DEF only
  <2> QED
    BY <2>1, ThoseEmpty, EmptySeq
<1>3. ASSUME NEW s \in Seq(T), s \in G, NEW x \in T PROVE Append(s, x) \in G
  <2> DEFINE out == Those(s, good)
  <2>1. out \in Seq(T) /\ Append(s, x) \in Seq(T)
    BY ThoseType, AppendProperties
  <2>2. Those(Append(s, x), good) = IF x \in good THEN Append(out, x) ELSE out
    BY ThoseAppend
  <2>3. SumOf(Vals(val, out)) = SumOf(Vals(only, s))
    BY <1>3
  <2>4. only[x] = IF x \in good THEN val[x] ELSE 0
    OBVIOUS
  <2> HIDE DEF out, only
  <2>5. SumOf(Vals(val, Append(out, x))) = SumOf(Vals(val, out)) + val[x]
    BY <2>1, ValsAppend
  <2>6. SumOf(Vals(only, Append(s, x))) = SumOf(Vals(only, s)) + only[x]
    BY <1>1, ValsAppend
  <2>7. SumOf(Vals(only, s)) \in Int
    BY <1>1, ValsType, SumType
  <2>8. CASE x \in good
    BY <2>1, <2>2, <2>3, <2>4, <2>5, <2>6, <2>8
  <2>9. CASE x \notin good
    BY <2>1, <2>2, <2>3, <2>4, <2>6, <2>7, <2>9
  <2> QED
    BY <2>8, <2>9
<1>4. Seq(T) \subseteq G
  <2> HIDE DEF G
  <2> QED
    BY <1>2, <1>3, SeqInduct
<1> QED
  BY <1>4

(* Every element is in exactly one of the parts; what they then add up to. *)
Splits(m, part, seq) ==
    \A x \in Range(seq) : \E i \in 1 .. m :
       x \in part[i] /\ \A j \in 1 .. m : j # i => x \notin part[j]

SplitSum(m, part, seq, val) ==
    SumOf([i \in 1 .. m |-> SumOf(Vals(val, Those(seq, part[i])))]) = SumOf(Vals(val, seq))

(* The sums of the parts are the sum of the whole.                         *)
LEMMA SumOfParts ==
    ASSUME NEW T, NEW seq \in Seq(T), NEW val \in [T -> Int],
           NEW m \in Nat, NEW part \in [1 .. m -> SUBSET T], Splits(m, part, seq)
    PROVE  SplitSum(m, part, seq, val)
<1> DEFINE n == Len(seq)
           a == [i \in 1 .. m |-> [k \in 1 .. n |-> IF seq[k] \in part[i] THEN val[seq[k]] ELSE 0]]
           col(k) == [i \in 1 .. m |-> a[i][k]]
<1>1. n \in Nat /\ DOMAIN seq = 1 .. n /\ \A k \in 1 .. n : seq[k] \in T /\ seq[k] \in Range(seq)
  BY LenProperties, ElementOfSeq DEF Range
<1>2. a \in [1 .. m -> [1 .. n -> Int]]
  BY <1>1
<1>3. ASSUME NEW i \in 1 .. m PROVE SumOf(Vals(val, Those(seq, part[i]))) = SumOf(a[i])
  <2> DEFINE only == [x \in T |-> IF x \in part[i] THEN val[x] ELSE 0]
  <2>1. SumOf(Vals(val, Those(seq, part[i]))) = SumOf(Vals(only, seq))
    <3> HIDE DEF a
    <3> QED
      BY SumThose
  <2>2. Vals(only, seq) = a[i]
    BY <1>1 DEF Vals
  <2> QED
    BY <2>1, <2>2
<1>4. ASSUME NEW k \in 1 .. n PROVE SumOf(col(k)) = val[seq[k]]
  <2>1. PICK i \in 1 .. m : seq[k] \in part[i] /\ \A j \in 1 .. m : j # i => seq[k] \notin part[j]
    BY <1>1 DEF Splits
  <2>2. col(k) \in [1 .. m -> Int]
    <3> HIDE DEF a
    <3> QED
      BY <1>2
  <2>3. col(k)[i] = val[seq[k]] /\ \A j \in 1 .. m : j # i => col(k)[j] = 0
    BY <2>1
  <2> HIDE DEF col
  <2>4. col(k) \in Seq(Int) /\ Len(col(k)) = m
    BY <2>2, FunctionIsSeq
  <2> QED
    BY <2>3, <2>4, SumSingle
<1> HIDE DEF a
<1>5. SumOf([i \in 1 .. m |-> SumOf(a[i])]) = SumOf([k \in 1 .. n |-> SumOf(col(k))])
  BY <1>1, <1>2, SumSwap
<1>6. [i \in 1 .. m |-> SumOf(Vals(val, Those(seq, part[i])))] = [i \in 1 .. m |-> SumOf(a[i])]
  BY <1>3
<1>7. [k \in 1 .. n |-> SumOf(col(k))] = Vals(val, seq)
  <2> HIDE DEF col
  <2> QED
    BY <1>1, <1>4 DEF Vals
<1> QED
  BY <1>5, <1>6, <1>7 DEF SplitSum

-----------------------------------------------------------------------------
(* InOrder                                                                 *)

(* before, a set of pairs, is a strict total order of S.                   *)
Orders(before, S) ==
    /\ \A x \in S : <<x, x>> \notin before
    /\ \A x, y, z \in S : <<x, y>> \in before /\ <<y, z>> \in before => <<x, z>> \in before
    /\ \A x, y \in S : x = y \/ <<x, y>> \in before \/ <<y, x>> \in before

Below(S, before, x) == {y \in S : <<y, x>> \in before}

(* The number of elements below one grows along the order.                 *)
LEMMA RanksAre ==
    ASSUME NEW S, IsFiniteSet(S), NEW before, Orders(before, S)
    PROVE  /\ \A x \in S : Cardinality(Below(S, before, x)) \in 0 .. Cardinality(S) - 1
           /\ \A x, y \in S : <<x, y>> \in before =>
                Cardinality(Below(S, before, x)) < Cardinality(Below(S, before, y))
<1>1. Cardinality(S) \in Nat
  BY FS_CardinalityType
<1>2. ASSUME NEW x \in S
      PROVE  /\ Below(S, before, x) \subseteq S /\ IsFiniteSet(Below(S, before, x))
             /\ Cardinality(Below(S, before, x)) \in Nat
  <2>1. Below(S, before, x) \in SUBSET S
    BY DEF Below
  <2> QED
    BY <2>1, FS_Subset, FS_CardinalityType
<1>3. ASSUME NEW x \in S PROVE Cardinality(Below(S, before, x)) \in 0 .. Cardinality(S) - 1
  <2>1. Below(S, before, x) \in SUBSET S /\ Below(S, before, x) # S
    BY DEF Below, Orders
  <2>2. /\ Cardinality(Below(S, before, x)) <= Cardinality(S)
        /\ Cardinality(Below(S, before, x)) # Cardinality(S)
    BY <2>1, FS_Subset
  <2> QED
    BY <1>1, <1>2, <2>2
<1>4. ASSUME NEW x \in S, NEW y \in S, <<x, y>> \in before
      PROVE  Cardinality(Below(S, before, x)) < Cardinality(Below(S, before, y))
  <2>1. Below(S, before, x) \subseteq Below(S, before, y)
    BY <1>4 DEF Below, Orders
  <2>2. x \in Below(S, before, y) /\ x \notin Below(S, before, x)
    BY <1>4 DEF Below, Orders
  <2>3. /\ Cardinality(Below(S, before, x)) <= Cardinality(Below(S, before, y))
        /\ Cardinality(Below(S, before, x)) # Cardinality(Below(S, before, y))
    BY <1>2, <2>1, <2>2, FS_Subset
  <2> QED
    BY <1>2, <2>3
<1> QED
  BY <1>3, <1>4

(* Every element once, and in order.                                       *)
LEMMA InOrderIs ==
    ASSUME NEW S, IsFiniteSet(S), NEW before, Orders(before, S)
    PROVE  LET out == InOrder(S, before)
           IN  /\ out \in Seq(S) /\ Len(out) = Cardinality(S) /\ Range(out) = S
               /\ \A i, j \in 1 .. Len(out) : i < j => <<out[i], out[j]>> \in before
               /\ \A i, j \in 1 .. Len(out) : out[i] = out[j] => i = j
<1> DEFINE out == InOrder(S, before)
           n == Cardinality(S)
           rank(x) == Cardinality(Below(S, before, x))
           spot == [x \in S |-> rank(x) + 1]
<1>1. n \in Nat /\ IsFiniteSet(1 .. n) /\ Cardinality(1 .. n) = n
  BY FS_CardinalityType, FS_Interval
<1>2. /\ \A x \in S : rank(x) \in 0 .. n - 1
      /\ \A x, y \in S : <<x, y>> \in before => rank(x) < rank(y)
  BY RanksAre
<1> HIDE DEF rank, n
<1>3. \A x, y \in S : rank(x) = rank(y) => x = y
  <2>1. SUFFICES ASSUME NEW x \in S, NEW y \in S, rank(x) = rank(y), x # y PROVE FALSE
    OBVIOUS
  <2>2. <<x, y>> \in before \/ <<y, x>> \in before
    BY <2>1 DEF Orders
  <2>3. rank(x) \in Int /\ rank(y) \in Int
    BY <1>1, <1>2
  <2>4. rank(x) < rank(y) \/ rank(y) < rank(x)
    BY <1>2, <2>2
  <2> QED
    BY <2>1, <2>3, <2>4
<1>4. spot \in Injection(S, 1 .. n)
  <2>1. spot \in [S -> 1 .. n]
    BY <1>1, <1>2
  <2>2. \A x, y \in S : spot[x] = spot[y] => x = y
    BY <1>1, <1>2, <1>3
  <2> HIDE DEF spot
  <2> QED
    BY <2>1, <2>2 DEF Injection, IsInjective
<1>5. spot \in Surjection(S, 1 .. n)
  BY <1>1, <1>4, FS_Injection DEF n
<1>6. \A k \in 1 .. n : \E x \in S : rank(x) = k - 1
  <2>1. ASSUME NEW k \in 1 .. n PROVE \E x \in S : rank(x) = k - 1
    <3>1. PICK x \in S : spot[x] = k
      <4> HIDE DEF spot
      <4> QED
        BY <1>5 DEF Surjection
    <3> QED
      BY <1>1, <1>2, <3>1
  <2> QED
    BY <2>1
<1>7. out = [k \in 1 .. n |-> CHOOSE x \in S : rank(x) = k - 1]
  BY DEF InOrder, Below, rank, n
<1>8. \A k \in 1 .. n : out[k] \in S /\ rank(out[k]) = k - 1
  <2> HIDE DEF out
  <2> QED
    BY <1>6, <1>7
<1>9. out \in Seq(S) /\ Len(out) = n
  <2>1. out \in [1 .. n -> S]
    <3> HIDE DEF out
    <3> QED
      BY <1>7, <1>8
  <2> HIDE DEF out
  <2> QED
    BY <1>1, <2>1, FunctionIsSeq
<1> HIDE DEF out
<1>10. ASSUME NEW x \in S PROVE x \in Range(out)
  <2>1. rank(x) + 1 \in 1 .. n
    BY <1>1, <1>2
  <2>2. out[rank(x) + 1] = x
    <3>1. rank(out[rank(x) + 1]) = (rank(x) + 1) - 1 /\ out[rank(x) + 1] \in S
      BY <1>8, <2>1
    <3>2. (rank(x) + 1) - 1 = rank(x)
      BY <1>2
    <3> QED
      BY <1>3, <3>1, <3>2
  <2>3. DOMAIN out = 1 .. n
    BY <1>9, LenProperties
  <2> QED
    BY <2>1, <2>2, <2>3 DEF Range
<1>11. Range(out) \subseteq S
  BY <1>9, RangeOfSeq
<1>12. ASSUME NEW i \in 1 .. n, NEW j \in 1 .. n, i < j PROVE <<out[i], out[j]>> \in before
  <2>1. /\ out[i] \in S /\ out[j] \in S
        /\ rank(out[i]) = i - 1 /\ rank(out[j]) = j - 1
    BY <1>8
  <2>2. rank(out[i]) < rank(out[j])
    BY <1>1, <1>12, <2>1
  <2>3. ~ (<<out[j], out[i]>> \in before) /\ out[i] # out[j]
    BY <1>1, <1>2, <2>1, <2>2
  <2> QED
    BY <2>1, <2>3 DEF Orders
<1>13. \A i, j \in 1 .. n : out[i] = out[j] => i = j
  BY <1>1, <1>8
<1> QED
  BY <1>9, <1>10, <1>11, <1>12, <1>13 DEF out, n
=============================================================================
