---------------------------- MODULE ReportsProofs ----------------------------
(***************************************************************************)
(* Theorems of Reports, for any words, fields, rows and thresholds.        *)
(*                                                                         *)
(* The state is only an input, so the invariants are its type and what     *)
(* follows from it: everything here is about what the operators of         *)
(* Recipients and RiskSummary return. DedupeEmails is a fold of its own,   *)
(* which is unrolled as Those is in ListTheorems; the summaries are Those, *)
(* SumOf and InOrder, and need no more than the lemmas there.              *)
(***************************************************************************)
EXTENDS Reports, ListTheorems

(* Fields are fields and tables are made of rows.                          *)
THEOREM TypeCorrect == Spec => []TypeOK
<1>1. Init => TypeOK
  BY EmptySeq DEF Init, TypeOK
<1>2. TypeOK /\ [Next]_vars => TypeOK'
  <2> SUFFICES ASSUME TypeOK, [Next]_vars PROVE TypeOK'
    OBVIOUS
  <2>1. CASE UNCHANGED vars
    BY <2>1 DEF TypeOK, vars
  <2>2. CASE Retype
    BY <2>2 DEF TypeOK, Retype
  <2>3. CASE Grow
    <3>1. PICK row \in RowKinds :
            table' = IF Len(table) < MaxRows THEN Append(table, row) ELSE <<row>>
      BY <2>3 DEF Grow
    <3>2. Append(table, row) \in Seq(RowKinds) /\ <<row>> \in Seq(RowKinds)
      BY AppendProperties DEF TypeOK
    <3>3. UNCHANGED <<field, retyped>>
      BY <2>3 DEF Grow
    <3> QED
      BY <3>1, <3>2, <3>3 DEF TypeOK
  <2> QED
    BY <2>1, <2>2, <2>3 DEF Next
<1> QED
  BY <1>1, <1>2, PTL DEF Spec

-----------------------------------------------------------------------------
(* Recipients                                                              *)

(* A word that does not get in: no address, or one that is in.             *)
Skipped(kept, w) == w.address = Null \/ w.address \in {k.address : k \in Range(kept)}

(* g[k] is what the first k words leave.                                   *)
DedupedSoFar(g, T, seq) ==
    /\ g \in [0 .. Len(seq) -> Seq(T)]
    /\ g[0] = <<>>
    /\ \A k \in 1 .. Len(seq) :
         g[k] = IF Skipped(g[k - 1], seq[k]) THEN g[k - 1] ELSE Append(g[k - 1], seq[k])
    /\ DedupeEmails(seq) = g[Len(seq)]

(* DedupeEmails is what the whole field leaves, one word at a time.        *)
LEMMA DedupeUpwards ==
    ASSUME NEW T, NEW seq \in Seq(T)
    PROVE  \E g : DedupedSoFar(g, T, seq)
<1> DEFINE n == Len(seq)
           S == Seq(T)
           step == [w \in S \X Nat |->
                      IF w[2] \in 1 .. n /\ ~Skipped(w[1], seq[w[2]])
                      THEN Append(w[1], seq[w[2]]) ELSE w[1]]
           Eqn(f) == f = [s \in SUBSET (DOMAIN seq) |->
                           IF s = {} THEN <<>>
                           ELSE IF Skipped(f[s \ {Max(s)}], seq[Max(s)])
                                THEN f[s \ {Max(s)}] ELSE Append(f[s \ {Max(s)}], seq[Max(s)])]
           iter == CHOOSE f : Eqn(f)
<1>1. n \in Nat /\ DOMAIN seq = 1 .. n /\ \A k \in 1 .. n : seq[k] \in T
  BY LenProperties, ElementOfSeq
<1>2. DedupeEmails(seq) = iter[DOMAIN seq]
  BY DEF DedupeEmails, FoldLeft, MapThenFoldSet, Skipped
<1>3. step \in [S \X Nat -> S] /\ <<>> \in S
  <2>1. ASSUME NEW w \in S \X Nat PROVE step[w] \in S
    <3>1. w[1] \in S /\ w[2] \in Nat
      OBVIOUS
    <3> QED
      BY <1>1, <3>1, AppendProperties
  <2> QED
    BY <2>1
<1>4. \E f : Eqn(f)
  <2>1. PICK f \in [SUBSET (1 .. n) -> S] :
           \A s \in SUBSET (1 .. n) :
              f[s] = IF s = {} THEN <<>> ELSE step[<<f[s \ {Max(s)}], Max(s)>>]
    <3> DEFINE base == <<>>
    <3>1. n \in Nat /\ base \in S /\ step \in [S \X Nat -> S]
      BY <1>1, <1>3
    <3> HIDE DEF step, S, n, base
    <3>2. \E f \in [SUBSET (1 .. n) -> S] : FoldsTo(f, n, base, step)
      BY <3>1, FoldExists
    <3> QED
      BY <3>2 DEF base, FoldsTo
  <2>2. ASSUME NEW s \in SUBSET (1 .. n), s # {}
        PROVE  f[s] = IF Skipped(f[s \ {Max(s)}], seq[Max(s)])
                      THEN f[s \ {Max(s)}] ELSE Append(f[s \ {Max(s)}], seq[Max(s)])
    <3>1. Max(s) \in 1 .. n
      <4>1. s \subseteq 1 .. n
        OBVIOUS
      <4> HIDE DEF n
      <4> QED
        BY <1>1, <2>2, <4>1, LargestIs
    <3>2. f[s \ {Max(s)}] \in S
      BY <2>1
    <3> DEFINE m == Max(s)
               r == f[s \ {m}]
    <3>3. f[s] = step[<<r, m>>]
      BY <2>1, <2>2
    <3>4. m \in 1 .. n /\ r \in S
      BY <3>1, <3>2
    <3> HIDE DEF m, r, n, S
    <3>5. <<r, m>> \in S \X Nat
      BY <1>1, <3>4
    <3>6. f[s] = IF Skipped(r, seq[m]) THEN r ELSE Append(r, seq[m])
      BY <3>3, <3>4, <3>5
    <3> QED
      BY <3>6 DEF m, r
  <2>3. Eqn(f)
    BY <1>1, <2>1, <2>2
  <2> QED
    BY <2>3
<1>5. Eqn(iter)
  <2> HIDE DEF Eqn
  <2> QED
    BY <1>4
<1> HIDE DEF iter, n, S
<1>6. ASSUME NEW k \in 1 .. n
      PROVE  /\ 1 .. k # {} /\ 1 .. k \in SUBSET (DOMAIN seq)
             /\ Max(1 .. k) = k /\ (1 .. k) \ {k} = 1 .. k - 1
  BY <1>1, PrefixIs
<1>7. iter[{}] = <<>>
  BY <1>5
<1>8. ASSUME NEW k \in 1 .. n
      PROVE  iter[1 .. k] = IF Skipped(iter[1 .. k - 1], seq[k])
                            THEN iter[1 .. k - 1] ELSE Append(iter[1 .. k - 1], seq[k])
  <2>1. \A s \in SUBSET (DOMAIN seq) : s # {} =>
          iter[s] = IF Skipped(iter[s \ {Max(s)}], seq[Max(s)])
                    THEN iter[s \ {Max(s)}] ELSE Append(iter[s \ {Max(s)}], seq[Max(s)])
    BY <1>5
  <2> QED
    BY ONLY <1>6, <2>1
<1> DEFINE g == [k \in 0 .. n |-> iter[1 .. k]]
<1>9. g[0] = <<>>
  <2>1. 1 .. 0 = {} /\ 0 \in 0 .. n
    BY <1>1
  <2> QED
    BY <1>7, <2>1
<1>10. ASSUME NEW k \in 1 .. n
       PROVE  g[k] = IF Skipped(g[k - 1], seq[k]) THEN g[k - 1] ELSE Append(g[k - 1], seq[k])
  <2>1. k \in 0 .. n /\ k - 1 \in 0 .. n
    BY <1>1
  <2>2. g[k] = iter[1 .. k] /\ g[k - 1] = iter[1 .. k - 1]
    BY <2>1
  <2> HIDE DEF g
  <2> QED
    BY <1>8, <2>2
<1>11. \A k \in 0 .. n : g[k] \in S
  <2> DEFINE P == {k \in 0 .. n : g[k] \in S}
  <2>1. 0 \in P
    BY <1>1, <1>3, <1>9
  <2>2. ASSUME NEW k \in 0 .. n - 1, k \in P PROVE k + 1 \in P
    <3>1. k + 1 \in 1 .. n /\ k + 1 \in 0 .. n /\ (k + 1) - 1 = k
      BY <1>1
    <3> HIDE DEF g
    <3>2. g[k] \in S /\ seq[k + 1] \in T
      <4>1. g[k] \in S
        BY <2>2
      <4>2. \A j \in 1 .. n : seq[j] \in T
        BY <1>1
      <4> QED
        BY ONLY <3>1, <4>1, <4>2
    <3>3. g[k + 1] = IF Skipped(g[k], seq[k + 1]) THEN g[k] ELSE Append(g[k], seq[k + 1])
      BY <1>10, <3>1
    <3>4. g[k + 1] \in S
      BY <3>2, <3>3, AppendProperties DEF S
    <3> QED
      BY <3>1, <3>4
  <2>3. 0 .. n \subseteq P
    <3> HIDE DEF P
    <3> QED
      BY <1>1, <2>1, <2>2, InductTo
  <2> QED
    BY <2>3
<1>12. g \in [0 .. n -> S]
  BY <1>11
<1>13. DedupeEmails(seq) = g[n]
  BY <1>1, <1>2
<1> HIDE DEF g
<1> QED
  BY <1>9, <1>10, <1>12, <1>13 DEF n, S, DedupedSoFar

(* An empty field leaves nothing.                                          *)
LEMMA DedupeEmpty == DedupeEmails(<<>>) = <<>>
<1>1. <<>> \in Seq({}) /\ Len(<<>>) = 0
  BY EmptySeq
<1> QED
  <2>1. PICK g : DedupedSoFar(g, {}, <<>>)
    BY <1>1, DedupeUpwards
  <2> QED
    BY <1>1, <2>1 DEF DedupedSoFar

(* A field leaves words of its own.                                        *)
LEMMA DedupeType ==
    ASSUME NEW T, NEW seq \in Seq(T)
    PROVE  DedupeEmails(seq) \in Seq(T)
<1>1. PICK g : DedupedSoFar(g, T, seq)
  BY DedupeUpwards
<1> QED
  BY <1>1, LenProperties DEF DedupedSoFar

(* Of one word more, that word is left unless it is skipped.               *)
LEMMA DedupeAppend ==
    ASSUME NEW T, NEW seq \in Seq(T), NEW x \in T
    PROVE  DedupeEmails(Append(seq, x)) =
             IF Skipped(DedupeEmails(seq), x) THEN DedupeEmails(seq)
             ELSE Append(DedupeEmails(seq), x)
<1> DEFINE n == Len(seq)
           longer == Append(seq, x)
<1>1. /\ n \in Nat /\ longer \in Seq(T) /\ Len(longer) = n + 1
      /\ longer[n + 1] = x /\ \A k \in 1 .. n : longer[k] = seq[k]
  BY AppendProperties, LenProperties
<1>2. PICK g : DedupedSoFar(g, T, seq)
  BY DedupeUpwards
<1>3. PICK h : DedupedSoFar(h, T, longer)
  BY <1>1, DedupeUpwards
<1> USE DEF DedupedSoFar
<1> HIDE DEF longer
<1>4. ASSUME NEW k \in 1 .. n
      PROVE  /\ h[k] = IF Skipped(h[k - 1], longer[k]) THEN h[k - 1]
                       ELSE Append(h[k - 1], longer[k])
             /\ g[k] = IF Skipped(g[k - 1], seq[k]) THEN g[k - 1] ELSE Append(g[k - 1], seq[k])
             /\ longer[k] = seq[k]
  BY <1>1, <1>2, <1>3
<1>5. h[n] = g[n]
  <2> DEFINE P == {k \in 0 .. n : h[k] = g[k]}
  <2>1. 0 \in P
    BY <1>1, <1>2, <1>3
  <2>2. ASSUME NEW k \in 0 .. n - 1, k \in P PROVE k + 1 \in P
    <3>1. k + 1 \in 1 .. n /\ k + 1 \in 1 .. n + 1 /\ (k + 1) - 1 = k /\ k + 1 \in 0 .. n
      BY <1>1
    <3>2. /\ h[k + 1] = IF Skipped(h[k], longer[k + 1]) THEN h[k] ELSE Append(h[k], longer[k + 1])
          /\ g[k + 1] = IF Skipped(g[k], seq[k + 1]) THEN g[k] ELSE Append(g[k], seq[k + 1])
      BY <1>4, <3>1
    <3>3. longer[k + 1] = seq[k + 1] /\ h[k] = g[k]
      BY <1>4, <2>2, <3>1
    <3> QED
      BY <3>1, <3>2, <3>3
  <2>3. 0 .. n \subseteq P
    <3> HIDE DEF P
    <3> QED
      BY <1>1, <2>1, <2>2, InductTo
  <2> QED
    BY <1>1, <2>3
<1>6. h[n + 1] = IF Skipped(h[n], x) THEN h[n] ELSE Append(h[n], x)
  BY <1>1, <1>3
<1> QED
  BY <1>1, <1>2, <1>3, <1>5, <1>6 DEF longer

Spelled(text) == {w.address : w \in Range(text)}

(* One word more spells one address more, and is a first place if that is  *)
(* an address that is new.                                                 *)
LEMMA FirstsAppend ==
    ASSUME NEW T, NEW seq \in Seq(T), NEW x \in T
    PROVE  /\ Spelled(Append(seq, x)) = Spelled(seq) \cup {x.address}
           /\ Firsts(seq) \subseteq 1 .. Len(seq)
           /\ Firsts(Append(seq, x)) =
                IF x.address = Null \/ x.address \in Spelled(seq) THEN Firsts(seq)
                ELSE Firsts(seq) \cup {Len(seq) + 1}
<1> DEFINE n == Len(seq)
           longer == Append(seq, x)
           fresh == x.address # Null /\ x.address \notin Spelled(seq)
<1>1. /\ n \in Nat /\ longer \in Seq(T) /\ Len(longer) = n + 1
      /\ longer[n + 1] = x /\ \A k \in 1 .. n : longer[k] = seq[k]
  BY AppendProperties, LenProperties
<1>2. DOMAIN seq = 1 .. n /\ DOMAIN longer = 1 .. n + 1
  BY <1>1, LenProperties
<1>3. Spelled(longer) = Spelled(seq) \cup {x.address}
  BY RangeAppend DEF Spelled
<1> HIDE DEF longer, n
<1>4. ASSUME NEW i \in 1 .. n PROVE IsFirst(longer, i) <=> IsFirst(seq, i)
  <2>1. longer[i] = seq[i] /\ \A j \in 1 .. i - 1 : longer[j] = seq[j]
    BY <1>1
  <2> QED
    BY <2>1 DEF IsFirst
<1>5. IsFirst(longer, n + 1) <=> fresh
  <2>1. Spelled(seq) = {seq[j].address : j \in 1 .. n}
    BY <1>2 DEF Spelled, Range
  <2>2. (n + 1) - 1 = n
    BY <1>1
  <2> QED
    BY <1>1, <2>1, <2>2 DEF IsFirst
<1>6. 1 .. n + 1 = (1 .. n) \cup {n + 1}
  BY <1>1
<1>7. Firsts(longer) = IF fresh THEN Firsts(seq) \cup {n + 1} ELSE Firsts(seq)
  <2> HIDE DEF fresh
  <2>1. \A i : i \in Firsts(longer) <=> (i \in 1 .. n \/ i = n + 1) /\ IsFirst(longer, i)
    BY <1>2, <1>6 DEF Firsts
  <2>2. \A i : i \in Firsts(seq) <=> i \in 1 .. n /\ IsFirst(seq, i)
    BY <1>2 DEF Firsts
  <2>3. n + 1 \notin 1 .. n
    BY <1>1
  <2>4. \A i : i \in Firsts(longer) <=> i \in Firsts(seq) \/ (i = n + 1 /\ fresh)
    BY <1>4, <1>5, <2>1, <2>2, <2>3
  <2> QED
    BY <2>4
<1>8. Firsts(seq) \subseteq 1 .. n
  BY <1>2 DEF Firsts
<1> QED
  BY <1>3, <1>7, <1>8 DEF longer, n

(* What is left: the first spellings, in place, and every address.         *)
DedupedRight(seq) ==
    /\ Spelled(DedupeEmails(seq)) = Spelled(seq) \ {Null}
    /\ Placed(seq, Firsts(seq), DedupeEmails(seq))

(* _dedupe_emails does that for a list of any length.                      *)
LEMMA DedupeIs ==
    ASSUME NEW T, NEW seq \in Seq(T)
    PROVE  DedupedRight(seq)
<1> DEFINE G == {s \in Seq(T) : DedupedRight(s)}
<1>1. <<>> \in G
  <2>1. Firsts(<<>>) = {} /\ Len(<<>>) = 0 /\ <<>> \in Seq(T) /\ Spelled(<<>>) = {}
    BY EmptySeq DEF Firsts, Spelled, Range
  <2>2. Cardinality({}) = 0
    BY FS_EmptySet
  <2> QED
    BY <2>1, <2>2, DedupeEmpty DEF DedupedRight, Placed
<1>2. ASSUME NEW s \in Seq(T), s \in G, NEW x \in T PROVE Append(s, x) \in G
  <2> DEFINE out == DedupeEmails(s)
             longer == Append(s, x)
             P == Firsts(s)
             old == x.address = Null \/ x.address \in Spelled(s)
  <2>1. /\ Spelled(longer) = Spelled(s) \cup {x.address}
        /\ P \subseteq 1 .. Len(s)
        /\ Firsts(longer) = IF old THEN P ELSE P \cup {Len(s) + 1}
    BY FirstsAppend
  <2>2. out \in Seq(T) /\ longer \in Seq(T)
    BY DedupeType, AppendProperties
  <2>3. Spelled(out) = Spelled(s) \ {Null} /\ Placed(s, P, out)
    BY <1>2 DEF DedupedRight
  <2>4. DedupeEmails(longer) = IF Skipped(out, x) THEN out ELSE Append(out, x)
    BY DedupeAppend
  <2>5. Skipped(out, x) <=> old
    BY <2>3 DEF Skipped, Spelled
  <2>6. Spelled(Append(out, x)) = Spelled(out) \cup {x.address}
    BY <2>2, FirstsAppend
  <2>7. Placed(longer, P, out)
    <3> HIDE DEF P, out
    <3> QED
      BY <2>1, <2>3, PlacedSame
  <2>8. Placed(longer, P \cup {Len(s) + 1}, Append(out, x))
    <3> HIDE DEF P, out
    <3> QED
      BY <2>1, <2>2, <2>3, PlacedMore
  <2>9. old \/ ~old
    OBVIOUS
  <2> HIDE DEF out, longer, P, old
  <2>10. CASE old
    <3>1. DedupeEmails(longer) = out /\ Firsts(longer) = P
      BY <2>1, <2>4, <2>5, <2>10
    <3>2. Spelled(longer) \ {Null} = Spelled(out)
      BY <2>1, <2>3, <2>10 DEF old
    <3> QED
      BY <2>2, <2>7, <3>1, <3>2 DEF DedupedRight, longer
  <2>11. CASE ~old
    <3>1. DedupeEmails(longer) = Append(out, x) /\ Firsts(longer) = P \cup {Len(s) + 1}
      BY <2>1, <2>4, <2>5, <2>11
    <3>2. Spelled(longer) \ {Null} = Spelled(Append(out, x))
      BY <2>1, <2>3, <2>6, <2>11 DEF old
    <3> QED
      BY <2>2, <2>8, <3>1, <3>2 DEF DedupedRight, longer
  <2> QED
    BY <2>10, <2>11
<1>3. Seq(T) \subseteq G
  <2> HIDE DEF G
  <2> QED
    BY <1>1, <1>2, SeqInduct
<1> QED
  BY <1>3

(* A field is parsed, as it is not None.                                   *)
LEMMA FieldsAreParsed ==
    ASSUME NEW text \in Fields
    PROVE  ParseRecipients(text) = DedupeEmails(text) /\ DedupedRight(text)
<1>1. text \in Seq(Words) /\ text # Null
  BY ReportsAssumption
<1> QED
  BY <1>1, DedupeIs DEF ParseRecipients

(* REQ-0035: what is parsed are the words that are the first spelling of   *)
(* an address, each once, in the order they were typed.                    *)
THEOREM FirstSpellingsKept == Spec => []ParsingKeepsFirstSpellings
<1>1. TypeOK => ParsingKeepsFirstSpellings
  <2> SUFFICES ASSUME TypeOK PROVE ParsingKeepsFirstSpellings
    OBVIOUS
  <2>1. ParseRecipients(retyped) = DedupeEmails(retyped) /\ DedupedRight(retyped)
    BY FieldsAreParsed DEF TypeOK
  <2> QED
    BY <2>1 DEF DedupedRight, Placed, UpTo, ParsingKeepsFirstSpellings
<1> QED
  BY <1>1, TypeCorrect, PTL

(* REQ-0036: the identity of an inbox depends on the set of its addresses  *)
(* alone, and another set of addresses is another identity.                *)
THEOREM InboxesAreAddressSets == Spec => []SameAddressesSameInbox
<1>1. ASSUME NEW text \in Fields
      PROVE  SyntheticEmailUserId(ParseRecipients(text))
               = <<"email-ingest", {text[i].address : i \in DOMAIN text} \ {Null}>>
  <2>1. ParseRecipients(text) = DedupeEmails(text) /\ DedupedRight(text)
    BY FieldsAreParsed
  <2>2. Spelled(text) = {text[i].address : i \in DOMAIN text}
    BY DEF Spelled, Range
  <2>3. SyntheticEmailUserId(DedupeEmails(text)) = <<"email-ingest", Spelled(text) \ {Null}>>
    BY <2>1 DEF DedupedRight, SyntheticEmailUserId, Spelled
  <2> QED
    BY <2>1, <2>2, <2>3
<1>2. TypeOK => SameAddressesSameInbox
  <2> SUFFICES ASSUME TypeOK PROVE SameAddressesSameInbox
    OBVIOUS
  <2> DEFINE addresses(text) == {text[i].address : i \in DOMAIN text} \ {Null}
  <2>1. /\ SyntheticEmailUserId(ParseRecipients(field)) = <<"email-ingest", addresses(field)>>
        /\ SyntheticEmailUserId(ParseRecipients(retyped)) = <<"email-ingest", addresses(retyped)>>
    BY <1>1 DEF TypeOK
  <2> HIDE DEF addresses
  <2>2. addresses(field) = addresses(retyped) <=>
          SyntheticEmailUserId(ParseRecipients(field))
            = SyntheticEmailUserId(ParseRecipients(retyped))
    BY <2>1
  <2> QED
    BY <2>2 DEF SameAddressesSameInbox, addresses
<1> QED
  BY <1>2, TypeCorrect, PTL

-----------------------------------------------------------------------------
(* Kilometres                                                              *)

Levels == {"km_total", "km_alert", "km_warning"}

Km(level) == [row \in RowKinds |-> row[level]]

(* What a group adds up to is no less than any row of it, and is zero only *)
(* if all of them are.                                                     *)
LEMMA KmIs ==
    ASSUME NEW group \in Seq(RowKinds), NEW level \in Levels
    PROVE  /\ KmOf(group, level) = SumOf(Vals(Km(level), group))
           /\ KmOf(group, level) \in Nat
           /\ \A row \in Range(group) : row[level] \in Nat /\ row[level] <= KmOf(group, level)
           /\ KmOf(group, level) > 0 => \E row \in Range(group) : row[level] > 0
<1> DEFINE vals == [i \in DOMAIN group |-> group[i][level]]
<1>1. DOMAIN group = 1 .. Len(group) /\ Len(group) \in Nat
      /\ \A i \in 1 .. Len(group) : group[i] \in RowKinds
  BY LenProperties, ElementOfSeq
<1>2. \A row \in RowKinds : row[level] \in Nat
  BY ReportsAssumption DEF ExposureRow, Levels
<1>3. vals \in Seq(Nat) /\ Len(vals) = Len(group)
  BY <1>1, <1>2, FunctionIsSeq
<1>4. vals = Vals(Km(level), group)
  BY <1>1 DEF Vals, Km
<1>5. KmOf(group, level) = SumOf(vals)
  BY DEF KmOf
<1>6. \A i \in 1 .. Len(group) : vals[i] = group[i][level]
  BY <1>1
<1> HIDE DEF vals
<1>7. /\ SumOf(vals) \in Nat
      /\ \A j \in 1 .. Len(vals) : vals[j] <= SumOf(vals)
      /\ (\A j \in 1 .. Len(vals) : vals[j] = 0) => SumOf(vals) = 0
  BY <1>3, SumAtLeast
<1>8. \A row \in Range(group) : row[level] \in Nat /\ row[level] <= SumOf(vals)
  BY <1>1, <1>2, <1>3, <1>6, <1>7 DEF Range
<1>9. SumOf(vals) > 0 => \E row \in Range(group) : row[level] > 0
  BY <1>1, <1>2, <1>3, <1>6, <1>7 DEF Range
<1> QED
  BY <1>4, <1>5, <1>7, <1>8, <1>9

(* Rounding moves a figure by five metres at most, and shows nothing of    *)
(* less than five.                                                         *)
LEMMA RoundingIs ==
    ASSUME NEW x \in Nat
    PROVE  /\ RoundKm(x) \in Nat
           /\ RoundKm(x) > 0 <=> x >= 5
           /\ RoundKm(x) - x <= 5 /\ x - RoundKm(x) <= 4
BY DEF RoundKm, Nearest

(* What survives the rounding of a group's figures.                        *)
ShownKm(group, threshold) ==
    KmOf(group, "km_alert") >= 5 \/ (threshold = "WARNING" /\ KmOf(group, "km_warning") >= 5)

(* The figures of a summary show kilometres exactly then.                  *)
LEMMA SummaryShows ==
    ASSUME NEW group \in Seq(RowKinds), NEW threshold, NEW s,
           s.km_alert = RoundKm(KmOf(group, "km_alert")),
           s.km_warning = RoundKm(KmOf(group, "km_warning"))
    PROVE  KmAtOrAbove(s, threshold) > 0 <=> ShownKm(group, threshold)
<1> DEFINE a == KmOf(group, "km_alert")
           w == KmOf(group, "km_warning")
<1>1. a \in Nat /\ w \in Nat
  BY KmIs DEF Levels
<1> HIDE DEF a, w
<1>2. /\ RoundKm(a) \in Nat /\ (RoundKm(a) > 0 <=> a >= 5)
      /\ RoundKm(w) \in Nat /\ (RoundKm(w) > 0 <=> w >= 5)
  BY <1>1, RoundingIs
<1>3. KmAtOrAbove(s, threshold) = RoundKm(a) + (IF threshold = "WARNING" THEN RoundKm(w) ELSE 0)
  BY DEF KmAtOrAbove, a, w
<1>4. KmAtOrAbove(s, threshold) > 0 <=> RoundKm(a) > 0 \/ (threshold = "WARNING" /\ RoundKm(w) > 0)
  BY <1>2, <1>3
<1> QED
  BY <1>2, <1>4 DEF ShownKm, a, w

(* A visible row is in figures that show; and figures that show have a row *)
(* with kilometres at the threshold.                                       *)
LEMMA VisibleShown ==
    ASSUME NEW group \in Seq(RowKinds), NEW threshold
    PROVE  /\ \A row \in Range(group) : Visible(row, threshold) => ShownKm(group, threshold)
           /\ ShownKm(group, threshold) => \E row \in Range(group) : KmAtOrAbove(row, threshold) > 0
<1>1. /\ KmOf(group, "km_alert") \in Nat
      /\ \A row \in Range(group) : row.km_alert \in Nat /\ row.km_alert <= KmOf(group, "km_alert")
      /\ KmOf(group, "km_alert") > 0 => \E row \in Range(group) : row.km_alert > 0
  BY KmIs DEF Levels
<1>2. /\ KmOf(group, "km_warning") \in Nat
      /\ \A row \in Range(group) :
           row.km_warning \in Nat /\ row.km_warning <= KmOf(group, "km_warning")
      /\ KmOf(group, "km_warning") > 0 => \E row \in Range(group) : row.km_warning > 0
  BY KmIs DEF Levels
<1>3. ASSUME NEW row \in Range(group), Visible(row, threshold) PROVE ShownKm(group, threshold)
  BY <1>1, <1>2, <1>3 DEF Visible, ShownKm
<1>4. ASSUME ShownKm(group, threshold)
      PROVE  \E row \in Range(group) : KmAtOrAbove(row, threshold) > 0
  BY <1>1, <1>2, <1>4 DEF ShownKm, KmAtOrAbove
<1> QED
  BY <1>3, <1>4

(* What of a table is of one day and hazard, and what of that has a value  *)
(* in a column.                                                            *)
LEMMA SubsetIs ==
    ASSUME NEW rows \in Seq(RowKinds), NEW date, NEW vector
    PROVE  /\ Subset(rows, date, vector) \in Seq(RowKinds)
           /\ Range(Subset(rows, date, vector)) =
                {row \in Range(rows) : row.date = date /\ row.risk_vector = vector}
<1> DEFINE good == {row \in Range(rows) : row.date = date /\ row.risk_vector = vector}
<1>1. Those(rows, good) \in Seq(RowKinds) /\ Range(Those(rows, good)) = Range(rows) \cap good
  <2> HIDE DEF good
  <2> QED
    BY ThoseType, ThoseRange
<1> QED
  BY <1>1 DEF Subset

(* The group of a key are the rows with that key.                          *)
LEMMA GroupIs ==
    ASSUME NEW rows \in Seq(RowKinds), NEW key, NEW k
    PROVE  /\ Group(rows, key, k) \in Seq(RowKinds)
           /\ Range(Group(rows, key, k)) = {row \in Range(rows) : row[key] = k}
<1> DEFINE good == {row \in Range(rows) : row[key] = k}
<1>1. Those(rows, good) \in Seq(RowKinds) /\ Range(Those(rows, good)) = Range(rows) \cap good
  <2> HIDE DEF good
  <2> QED
    BY ThoseType, ThoseRange
<1> QED
  BY <1>1 DEF Group

(* The totals show kilometres when the rows behind them do.                *)
LEMMA TotalsShow ==
    ASSUME NEW rows \in Seq(RowKinds), NEW threshold
    PROVE  KmAtOrAbove(Totals(rows), threshold) > 0 <=> ShownKm(rows, threshold)
<1>1. CASE rows # <<>>
  <2>1. /\ Totals(rows).km_alert = RoundKm(KmOf(rows, "km_alert"))
        /\ Totals(rows).km_warning = RoundKm(KmOf(rows, "km_warning"))
    BY <1>1 DEF Totals, Summary
  <2> QED
    BY <2>1, SummaryShows
<1>2. CASE rows = <<>>
  <2>1. Totals(rows).km_alert = 0 /\ Totals(rows).km_warning = 0
    BY <1>2 DEF Totals
  <2>2. ~ (KmAtOrAbove(Totals(rows), threshold) > 0)
    BY <2>1 DEF KmAtOrAbove
  <2>3. Range(rows) = {}
    BY <1>2, EmptySeq DEF Range
  <2>4. ~ShownKm(rows, threshold)
    BY <2>3, VisibleShown
  <2> QED
    BY <2>2, <2>4
<1> QED
  BY <1>1, <1>2

(* REQ-0032, REQ-0046: the report of a rule shows kilometres at its        *)
(* threshold for a hazard, on some day, exactly when the rule triggers on  *)
(* that hazard, unless all that triggered it are stretches of less than    *)
(* five metres.                                                            *)
THEOREM ReportsAgree == Spec => []ReportAgreesWithTriggers
<1>1. TypeOK => ReportAgreesWithTriggers
  <2> SUFFICES ASSUME TypeOK, NEW threshold \in Thresholds
               PROVE  LET rule  == [risk_types |-> Hazards, threshold |-> threshold]
                          body  == Body(threshold)
                          shown == {v \in Hazards : \E date \in Days :
                                      KmAtOrAbove(body[date][v].totals, threshold) > 0}
                          at(v) == {row \in Range(table) :
                                      row.risk_vector = v /\ KmAtOrAbove(row, threshold) > 0}
                      IN  /\ shown \subseteq TriggeredVectors(Range(table), rule)
                          /\ \A v \in TriggeredVectors(Range(table), rule) \ shown :
                               at(v) # {} /\ \A row \in at(v) : ~Visible(row, threshold)
    BY DEF ReportAgreesWithTriggers
  <2> DEFINE rule  == [risk_types |-> Hazards, threshold |-> threshold]
             shown == {v \in Hazards : \E date \in Days :
                         KmAtOrAbove(Body(threshold)[date][v].totals, threshold) > 0}
             at(v) == {row \in Range(table) : row.risk_vector = v /\ KmAtOrAbove(row, threshold) > 0}
             sub(date, v) == Subset(table, date, v)
             triggered == TriggeredVectors(Range(table), rule)
  <2>1. table \in Seq(RowKinds)
    BY DEF TypeOK
  <2>2. ASSUME NEW date \in Days, NEW v \in Hazards
        PROVE  KmAtOrAbove(Body(threshold)[date][v].totals, threshold) > 0
                 <=> ShownKm(sub(date, v), threshold)
    <3>1. Body(threshold)[date][v].totals = Totals(sub(date, v))
      BY DEF Body, BuildDays, Day
    <3>2. sub(date, v) \in Seq(RowKinds)
      BY <2>1, SubsetIs
    <3> QED
      BY <3>1, <3>2, TotalsShow
  <2>3. triggered = {v \in Hazards : at(v) # {}}
    <3>1. Hazards # Null
      BY ModelsAssumption DEF HazardLists
    <3> QED
      BY <3>1 DEF TriggeredVectors
  <2>4. \A row \in Range(table) : row.date \in Days /\ row.risk_vector \in Hazards
                                  /\ row.km_alert \in Nat /\ row.km_warning \in Nat
    <3>1. Range(table) \subseteq RowKinds
      BY <2>1, LenProperties, ElementOfSeq DEF Range
    <3> QED
      BY <3>1, ReportsAssumption DEF ExposureRow
  <2>5. ASSUME NEW v \in shown PROVE v \in triggered
    <3>1. PICK date \in Days : ShownKm(sub(date, v), threshold)
      BY <2>2
    <3>2. /\ sub(date, v) \in Seq(RowKinds)
          /\ \A row \in Range(sub(date, v)) : row \in Range(table) /\ row.risk_vector = v
      BY <2>1, SubsetIs
    <3> HIDE DEF sub
    <3>3. PICK row \in Range(sub(date, v)) : KmAtOrAbove(row, threshold) > 0
      BY <3>1, <3>2, VisibleShown
    <3>4. row \in at(v)
      BY <3>2, <3>3
    <3> QED
      BY <2>3, <3>4
  <2>6. ASSUME NEW v \in triggered \ shown
        PROVE  at(v) # {} /\ \A row \in at(v) : ~Visible(row, threshold)
    <3>1. at(v) # {} /\ v \in Hazards
      BY <2>3
    <3>2. ASSUME NEW row \in at(v), Visible(row, threshold) PROVE FALSE
      <4>1. row \in Range(table) /\ row.risk_vector = v /\ row.date \in Days
        BY <2>4
      <4> DEFINE date == row.date
      <4>2. sub(date, v) \in Seq(RowKinds) /\ row \in Range(sub(date, v))
        BY <2>1, <4>1, SubsetIs
      <4> HIDE DEF sub, date
      <4>3. ShownKm(sub(date, v), threshold)
        BY <3>2, <4>2, VisibleShown
      <4>4. date \in Days
        BY <4>1 DEF date
      <4> QED
        BY <2>2, <3>1, <4>3, <4>4
    <3> QED
      BY <3>1, <3>2
  <2> QED
    BY <2>5, <2>6
<1> QED
  BY <1>1, TypeCorrect, PTL

-----------------------------------------------------------------------------
(* Summaries                                                               *)

Columns == {"operational_unit", "line_name"}

(* The rows of a sequence are finitely many.                               *)
LEMMA RowsAreFinite ==
    ASSUME NEW rows \in Seq(RowKinds)
    PROVE  IsFiniteSet(Range(rows)) /\ Range(rows) \subseteq RowKinds
<1>1. /\ DOMAIN rows = 1 .. Len(rows) /\ Len(rows) \in Nat
      /\ \A i \in 1 .. Len(rows) : rows[i] \in RowKinds
  BY LenProperties, ElementOfSeq
<1>2. IsFiniteSet(1 .. Len(rows))
  BY <1>1, FS_Interval
<1>3. rows \in Surjection(1 .. Len(rows), Range(rows))
  BY <1>1 DEF Surjection, Range
<1>4. IsFiniteSet(Range(rows))
  BY <1>2, <1>3, FS_Surjection
<1> QED
  BY <1>1, <1>4 DEF Range

(* The index is None, which is -1, or a natural: a quotient of naturals.   *)
LEMMA IndexIs ==
    ASSUME NEW group \in Seq(RowKinds)
    PROVE  IndexOfSums(group) \in Int
<1> DEFINE total == KmOf(group, "km_total")
           x == 500 * (2 * KmOf(group, "km_alert") + KmOf(group, "km_warning"))
<1>1. total \in Nat /\ KmOf(group, "km_alert") \in Nat /\ KmOf(group, "km_warning") \in Nat
  BY KmIs DEF Levels
<1>2. x \in Nat
  BY <1>1
<1>3. IndexOfSums(group) = IF total = 0 THEN -1 ELSE (2 * x + total) \div (2 * total)
  BY DEF IndexOfSums, NoShare, Nearest
<1> HIDE DEF total, x
<1>4. ASSUME total # 0 PROVE (2 * x + total) \div (2 * total) \in Int
  <2>1. 2 * x + total \in Int /\ 2 * total \in Int /\ 2 * total > 0
    BY <1>1, <1>2, <1>4
  <2> DEFINE a == 2 * x + total
             b == 2 * total
  <2> HIDE DEF a, b
  <2>2. a \div b \in Int
    BY <2>1 DEF a, b
  <2> QED
    BY <2>2 DEF a, b
<1> QED
  BY <1>3, <1>4

(* A table of summaries by a column: each of its values once, so that an   *)
(* index and the value as a tie-break order them all.                      *)
LEMMA SummariesAre ==
    ASSUME NEW rows \in Seq(RowKinds), NEW key \in Columns
    PROVE  LET out == Summaries(rows, key)
           IN  /\ IsFiniteSet(out)
               /\ Orders({pair \in out \X out : Worse(pair[1], pair[2])}, out)
               /\ \A a, b \in out : a.key = b.key => a = b
               /\ \A a \in out : a.risk_index \in Int
<1> DEFINE out == Summaries(rows, key)
           sum == [k \in Keys(rows, key) |-> Summary(k, Group(rows, key, k), key)]
           before == {pair \in out \X out : Worse(pair[1], pair[2])}
<1>1. IsFiniteSet(Keys(rows, key)) /\ Keys(rows, key) \subseteq Nat
  <2>1. IsFiniteSet(Range(rows)) /\ Range(rows) \subseteq RowKinds
    BY RowsAreFinite
  <2> DEFINE value == [row \in Range(rows) |-> row[key]]
  <2>2. value \in Surjection(Range(rows), Keys(rows, key))
    BY DEF Surjection, Keys
  <2>3. IsFiniteSet(Keys(rows, key))
    <3> HIDE DEF value
    <3> QED
      BY <2>1, <2>2, FS_Surjection
  <2>4. \A row \in RowKinds : row[key] \in Nat
    BY ReportsAssumption DEF ExposureRow, Columns
  <2> QED
    BY <2>1, <2>3, <2>4 DEF Keys
<1>2. IsFiniteSet(out)
  <2>1. sum \in Surjection(Keys(rows, key), out)
    BY DEF Surjection, Summaries
  <2> HIDE DEF sum, out
  <2> QED
    BY <1>1, <2>1, FS_Surjection
<1>3. \A a \in out : /\ a.key \in Keys(rows, key)
                     /\ a = Summary(a.key, Group(rows, key, a.key), key)
  <2> SUFFICES ASSUME NEW k \in Keys(rows, key)
               PROVE  Summary(k, Group(rows, key, k), key).key = k
    BY DEF Summaries
  <2> QED
    BY DEF Summary
<1>4. \A a \in out : a.risk_index \in Int /\ a.key \in Int
  <2> SUFFICES ASSUME NEW a \in out PROVE a.risk_index \in Int /\ a.key \in Int
    OBVIOUS
  <2> DEFINE group == Group(rows, key, a.key)
  <2>1. a = Summary(a.key, group, key)
    BY <1>3
  <2>2. group \in Seq(RowKinds)
    BY GroupIs
  <2> HIDE DEF group
  <2>3. a.risk_index = IndexOfSums(group)
    BY <2>1 DEF Summary, RiskIndex
  <2> QED
    BY <1>1, <1>3, <2>2, <2>3, IndexIs
<1>5. \A a, b \in out : a.key = b.key => a = b
  <2> HIDE DEF out
  <2> QED
    BY <1>3
<1>6. \A a, b \in out : <<a, b>> \in before <=>
         a.risk_index > b.risk_index \/ (a.risk_index = b.risk_index /\ a.key < b.key)
  <2> SUFFICES ASSUME NEW a \in out, NEW b \in out
               PROVE  <<a, b>> \in before <=> Worse(a, b)
    BY DEF Worse
  <2> HIDE DEF out
  <2>1. <<a, b>> \in out \X out /\ <<a, b>>[1] = a /\ <<a, b>>[2] = b
    OBVIOUS
  <2> QED
    BY <2>1
<1> HIDE DEF out, before
<1>7. Orders(before, out)
  <2>1. \A a \in out : <<a, a>> \notin before
    BY <1>4, <1>6
  <2>2. \A a, b, c \in out : <<a, b>> \in before /\ <<b, c>> \in before => <<a, c>> \in before
    BY <1>4, <1>6
  <2>3. ASSUME NEW a \in out, NEW b \in out
        PROVE  a = b \/ <<a, b>> \in before \/ <<b, a>> \in before
    <3>1. /\ a.risk_index \in Int /\ a.key \in Int /\ b.risk_index \in Int /\ b.key \in Int
          /\ a.key = b.key => a = b
      BY <1>4, <1>5
    <3>2. <<a, b>> \in before <=>
            a.risk_index > b.risk_index \/ (a.risk_index = b.risk_index /\ a.key < b.key)
      BY <1>6
    <3>3. <<b, a>> \in before <=>
            b.risk_index > a.risk_index \/ (b.risk_index = a.risk_index /\ b.key < a.key)
      BY <1>6
    <3> QED
      BY <3>1, <3>2, <3>3
  <2> QED
    BY <2>1, <2>2, <2>3 DEF Orders
<1> QED
  BY <1>2, <1>4, <1>5, <1>7 DEF out, before

(* The table is those summaries, the worst first.                          *)
WorstFirst(rows, key, table1) ==
    /\ table1 \in Seq(Summaries(rows, key))
    /\ Range(table1) = Summaries(rows, key)
    /\ Len(table1) = Cardinality(Summaries(rows, key))
    /\ SortedBy(table1, {pair \in Summaries(rows, key) \X Summaries(rows, key) :
                           Worse(pair[1], pair[2])})

(* summarise gives that table for any rows and any column it groups by.    *)
LEMMA SummariseIs ==
    ASSUME NEW rows \in Seq(RowKinds), NEW key \in Columns
    PROVE  WorstFirst(rows, key, Summarise(rows, key))
<1> DEFINE out == Summaries(rows, key)
           before == {pair \in out \X out : Worse(pair[1], pair[2])}
<1>1. IsFiniteSet(out) /\ Orders(before, out)
  BY SummariesAre
<1>2. Summarise(rows, key) = InOrder(out, before)
  BY DEF Summarise
<1> DEFINE list == InOrder(out, before)
<1>3. /\ list \in Seq(out) /\ Len(list) = Cardinality(out) /\ Range(list) = out
      /\ SortedBy(list, before)
  <2> HIDE DEF out, before
  <2> QED
    BY <1>1, InOrderIs DEF SortedBy
<1> HIDE DEF list
<1> QED
  BY <1>2, <1>3 DEF WorstFirst, list

(* The row of a table for a value in its column.                           *)
LEMMA SummaryOf ==
    ASSUME NEW rows \in Seq(RowKinds), NEW key \in Columns, NEW row \in Range(rows)
    PROVE  Summary(row[key], Group(rows, key, row[key]), key) \in Range(Summarise(rows, key))
<1>1. Range(Summarise(rows, key)) = Summaries(rows, key)
  BY SummariseIs DEF WorstFirst
<1>2. row[key] \in Keys(rows, key)
  BY DEF Keys
<1> QED
  BY <1>1, <1>2 DEF Summaries

(* The worst level of a group is no better than that of any of its rows.   *)
LEMMA WorstIsWorst ==
    ASSUME NEW group \in Seq(RowKinds), NEW row \in Range(group), NEW k, NEW key
    PROVE  LevelRank[Summary(k, group, key).worst_level] >= LevelRank[row.worst_level]
<1> DEFINE K == Keys(group, "worst_level")
           worst == CHOOSE lvl \in K : \A other \in K : LevelRank[lvl] >= LevelRank[other]
<1>1. K \subseteq {"NORMAL", "WARNING", "ALERT"} /\ row.worst_level \in K
  <2>1. \A r \in Range(group) : r.worst_level \in {"NORMAL", "WARNING", "ALERT"}
    <3>1. DOMAIN LevelRank = {"NORMAL", "WARNING", "ALERT"}
      BY DEF LevelRank
    <3> QED
      BY <3>1, RowsAreFinite, ReportsAssumption DEF ExposureRow
  <2> QED
    BY <2>1 DEF Keys
<1>2. /\ LevelRank["NORMAL"] = 0 /\ LevelRank["WARNING"] = 1 /\ LevelRank["ALERT"] = 2
  BY DEF LevelRank
<1> HIDE DEF K
<1>3. \E lvl \in K : \A other \in K : LevelRank[lvl] >= LevelRank[other]
  <2> DEFINE top(lvl) == \A other \in K : LevelRank[lvl] >= LevelRank[other]
  <2>1. CASE "ALERT" \in K
    <3>1. top("ALERT")
      BY <1>1, <1>2
    <3> QED
      BY <2>1, <3>1
  <2>2. CASE "ALERT" \notin K /\ "WARNING" \in K
    <3>1. K \subseteq {"NORMAL", "WARNING"}
      BY <1>1, <2>2
    <3>2. top("WARNING")
      BY <1>2, <3>1
    <3> QED
      BY <2>2, <3>2
  <2>3. CASE "ALERT" \notin K /\ "WARNING" \notin K
    <3>1. K \subseteq {"NORMAL"} /\ "NORMAL" \in K
      BY <1>1, <2>3
    <3>2. top("NORMAL")
      BY <1>2, <3>1
    <3> QED
      BY <3>1, <3>2
  <2> QED
    BY <2>1, <2>2, <2>3
<1>4. \A other \in K : LevelRank[worst] >= LevelRank[other]
  BY <1>3
<1>5. Summary(k, group, key).worst_level = worst
  BY DEF Summary, K
<1> QED
  BY <1>1, <1>4, <1>5

(* The rows of a line within a day and hazard are those of the whole table *)
(* that are of the day, the hazard and the line.                           *)
LEMMA LineOf ==
    ASSUME NEW row, table \in Seq(RowKinds)
    PROVE  IndexOfSums(Group(Subset(table, row.date, row.risk_vector), "line_name", row.line_name))
             = Deserved(row)
<1> DEFINE A == {r \in Range(table) : r.date = row.date /\ r.risk_vector = row.risk_vector}
           sub == Subset(table, row.date, row.risk_vector)
           B == {r \in Range(sub) : r.line_name = row.line_name}
           C == {r \in Range(table) : r.date = row.date /\ r.risk_vector = row.risk_vector
                                      /\ r.line_name = row.line_name}
<1>1. sub = Those(table, A) /\ Range(sub) = A
  <2>1. sub = Those(table, A)
    BY DEF Subset
  <2>2. Range(sub) = A
    BY SubsetIs
  <2> QED
    BY <2>1, <2>2
<1>2. Those(Those(table, A), B) = Those(table, A \cap B)
  <2> HIDE DEF A, B
  <2> QED
    BY ThoseThose
<1>3. \A r \in Range(table) : r \in A \cap B <=> r \in C
  <2> HIDE DEF sub
  <2> QED
    BY <1>1
<1>4. Those(table, A \cap B) = Those(table, C)
  <2> DEFINE AB == A \cap B
  <2>1. \A r \in Range(table) : r \in AB <=> r \in C
    BY <1>3
  <2> HIDE DEF AB, C
  <2>2. Those(table, AB) = Those(table, C)
    BY <2>1, ThoseAlike
  <2> QED
    BY <2>2 DEF AB
<1>5. Group(sub, "line_name", row.line_name) = Those(table, C)
  BY <1>1, <1>2, <1>4 DEF Group
<1>6. Deserved(row) = IndexOfSums(Those(table, C))
  BY DEF Deserved
<1> QED
  BY <1>5, <1>6

(* A line with kilometres at the threshold is listed, or the list is full  *)
(* of lines that are as bad or worse.                                      *)
LEMMA ListedOrWorse ==
    ASSUME NEW rows \in Seq(RowKinds), NEW threshold,
           NEW line \in Range(Summarise(rows, "line_name")), KmAtOrAbove(line, threshold) > 0
    PROVE  \/ line \in Range(TopLines(rows, threshold, TopN))
           \/ /\ Len(TopLines(rows, threshold, TopN)) = TopN
              /\ \A other \in Range(TopLines(rows, threshold, TopN)) :
                    other.risk_index >= line.risk_index
<1> DEFINE S == Summaries(rows, "line_name")
           before == {pair \in S \X S : Worse(pair[1], pair[2])}
           list == Summarise(rows, "line_name")
           good == {l \in Range(list) : KmAtOrAbove(l, threshold) > 0}
           listed == Those(list, good)
           top == First(listed, TopN)
<1>1. list \in Seq(S) /\ Range(list) = S /\ SortedBy(list, before)
  <2>1. "line_name" \in Columns
    BY DEF Columns
  <2>2. WorstFirst(rows, "line_name", list)
    BY <2>1, SummariseIs
  <2> QED
    BY <2>2 DEF WorstFirst
<1>2. \A a \in S : a.risk_index \in Int
  <2>1. "line_name" \in Columns
    BY DEF Columns
  <2> QED
    BY <2>1, SummariesAre
<1>3. TopLines(rows, threshold, TopN) = top
  BY DEF TopLines, Listed
<1>4. line \in good
  OBVIOUS
<1> HIDE DEF list, good, before, S
<1>5. /\ listed \in Seq(S) /\ Range(listed) = Range(list) \cap good /\ SortedBy(listed, before)
  BY <1>1, ThoseType, ThoseRange, ThoseSorted
<1>6. line \in Range(listed)
  BY <1>4, <1>5 DEF list
<1> HIDE DEF listed
<1>7. TopN \in Nat
  BY ReportsAssumption
<1>8. /\ top \in Seq(S)
      /\ Len(top) = IF Len(listed) < TopN THEN Len(listed) ELSE TopN
      /\ \A i \in 1 .. Len(top) : top[i] = listed[i]
  BY <1>5, <1>7, FirstIs
<1> HIDE DEF top
<1>9. /\ DOMAIN listed = 1 .. Len(listed) /\ Len(listed) \in Nat
      /\ DOMAIN top = 1 .. Len(top) /\ Len(top) \in Nat
  BY <1>5, <1>8, LenProperties
<1>10. PICK p \in 1 .. Len(listed) : listed[p] = line
  BY <1>6, <1>9 DEF Range
<1>11. CASE p <= Len(top)
  <2>1. p \in 1 .. Len(top) /\ top[p] = line
    BY <1>8, <1>9, <1>10, <1>11
  <2>2. line \in Range(top)
    BY <1>9, <2>1 DEF Range
  <2> QED
    BY <1>3, <2>2
<1>12. CASE ~ (p <= Len(top))
  <2>1. Len(top) = TopN
    <3>1. p \in Int /\ p <= Len(listed)
      BY <1>9
    <3>2. CASE Len(listed) < TopN
      <4>1. Len(top) = Len(listed)
        BY <1>8, <3>2
      <4> QED
        BY <1>12, <3>1, <4>1
    <3>3. CASE ~ (Len(listed) < TopN)
      BY <1>8, <3>3
    <3> QED
      BY <3>2, <3>3
  <2>2. ASSUME NEW other \in Range(top) PROVE other.risk_index >= line.risk_index
    <3>1. PICK q \in 1 .. Len(top) : top[q] = other
      BY <1>9 DEF Range
    <3>2. q \in 1 .. Len(listed) /\ q < p /\ listed[q] = other
      BY <1>7, <1>8, <1>9, <1>12, <3>1
    <3>3. <<other, line>> \in before
      BY <1>5, <1>10, <3>2 DEF SortedBy
    <3>4. other \in S /\ line \in S /\ Worse(other, line)
      <4>1. <<other, line>>[1] = other /\ <<other, line>>[2] = line
        OBVIOUS
      <4> QED
        BY <3>3, <4>1 DEF before
    <3> QED
      BY <1>2, <3>4 DEF Worse
  <2> QED
    BY <1>3, <2>1, <2>2
<1> QED
  BY <1>11, <1>12

(* REQ-0046: a stretch at or above the threshold is on the report of its   *)
(* day and hazard: in the figures of its unit, and in the list of lines    *)
(* unless that is full of lines that are as bad or worse.                  *)
THEOREM NothingWorseLeftOut == Spec => []NothingWorseIsLeftOut
<1>1. TypeOK => NothingWorseIsLeftOut
  <2> SUFFICES ASSUME TypeOK, NEW threshold \in Thresholds,
                      NEW row \in Range(table), Visible(row, threshold)
               PROVE  LET day == Body(threshold)[row.date][row.risk_vector]
                      IN  /\ \E unit \in Range(day.units) :
                               /\ unit.key = row.operational_unit
                               /\ KmAtOrAbove(unit, threshold) > 0
                               /\ LevelRank[unit.worst_level] >= LevelRank[row.worst_level]
                          /\ \/ \E line \in Range(day.top_lines) : line.key = row.line_name
                             \/ /\ Len(day.top_lines) = TopN
                                /\ \A line \in Range(day.top_lines) :
                                     line.risk_index >= Deserved(row)
    BY DEF NothingWorseIsLeftOut
  <2> DEFINE sub == Subset(table, row.date, row.risk_vector)
             day == Body(threshold)[row.date][row.risk_vector]
             inUnit == Group(sub, "operational_unit", row.operational_unit)
             inLine == Group(sub, "line_name", row.line_name)
             unit == Summary(row.operational_unit, inUnit, "operational_unit")
             line == Summary(row.line_name, inLine, "line_name")
  <2>1. table \in Seq(RowKinds)
    BY DEF TypeOK
  <2>2. row.date \in Days /\ row.risk_vector \in Hazards
    BY <2>1, RowsAreFinite, ReportsAssumption DEF ExposureRow
  <2>3. /\ day.units = Summarise(sub, "operational_unit")
        /\ day.top_lines = TopLines(sub, threshold, TopN)
    BY <2>2 DEF Body, BuildDays, Day
  <2>4. sub \in Seq(RowKinds) /\ row \in Range(sub)
    BY <2>1, SubsetIs
  <2> HIDE DEF sub, day
  <2>5. /\ inUnit \in Seq(RowKinds) /\ row \in Range(inUnit)
        /\ inLine \in Seq(RowKinds) /\ row \in Range(inLine)
    BY <2>4, GroupIs
  <2>6. unit \in Range(day.units)
    <3>1. "operational_unit" \in Columns
      BY DEF Columns
    <3>2. Summary(row["operational_unit"], Group(sub, "operational_unit", row["operational_unit"]),
                  "operational_unit") \in Range(Summarise(sub, "operational_unit"))
      BY <2>4, <3>1, SummaryOf
    <3> QED
      BY <2>3, <3>2
  <2>7. line \in Range(Summarise(sub, "line_name"))
    <3>1. "line_name" \in Columns
      BY DEF Columns
    <3>2. Summary(row["line_name"], Group(sub, "line_name", row["line_name"]), "line_name")
            \in Range(Summarise(sub, "line_name"))
      BY <2>4, <3>1, SummaryOf
    <3> QED
      BY <3>2
  <2>8. line.risk_index = Deserved(row)
    <3>1. IndexOfSums(inLine) = Deserved(row)
      BY <2>1, LineOf DEF sub
    <3> QED
      BY <3>1 DEF Summary, RiskIndex
  <2>9. ShownKm(inUnit, threshold) /\ ShownKm(inLine, threshold)
    <3> HIDE DEF inUnit, inLine
    <3> QED
      BY <2>5, VisibleShown
  <2>10. /\ unit.key = row.operational_unit
         /\ unit.km_alert = RoundKm(KmOf(inUnit, "km_alert"))
         /\ unit.km_warning = RoundKm(KmOf(inUnit, "km_warning"))
         /\ line.key = row.line_name
         /\ line.km_alert = RoundKm(KmOf(inLine, "km_alert"))
         /\ line.km_warning = RoundKm(KmOf(inLine, "km_warning"))
    BY DEF Summary
  <2>11. LevelRank[unit.worst_level] >= LevelRank[row.worst_level]
    <3> HIDE DEF inUnit
    <3> QED
      BY <2>5, WorstIsWorst
  <2> HIDE DEF unit, line, inUnit, inLine
  <2>12. KmAtOrAbove(unit, threshold) > 0 /\ KmAtOrAbove(line, threshold) > 0
    BY <2>5, <2>9, <2>10, SummaryShows
  <2>13. \/ line \in Range(day.top_lines)
         \/ /\ Len(day.top_lines) = TopN
            /\ \A other \in Range(day.top_lines) : other.risk_index >= line.risk_index
    BY <2>3, <2>4, <2>7, <2>12, ListedOrWorse
  <2>14. \/ \E l \in Range(day.top_lines) : l.key = row.line_name
         \/ /\ Len(day.top_lines) = TopN
            /\ \A l \in Range(day.top_lines) : l.risk_index >= Deserved(row)
    BY <2>8, <2>10, <2>13
  <2>15. \E u \in Range(day.units) :
            /\ u.key = row.operational_unit
            /\ KmAtOrAbove(u, threshold) > 0
            /\ LevelRank[u.worst_level] >= LevelRank[row.worst_level]
    BY <2>6, <2>10, <2>11, <2>12
  <2> QED
    BY <2>14, <2>15 DEF day
<1> QED
  BY <1>1, TypeCorrect, PTL

-----------------------------------------------------------------------------
(* The units of a network                                                  *)

(* The rows of the i-th unit.                                              *)
UnitGroup(rows, i) ==
    Group(rows, "operational_unit", Summarise(rows, "operational_unit")[i].key)

UnitCount(rows) == Len(Summarise(rows, "operational_unit"))

(* A unit is the summary of its rows, and no two units have the same key.  *)
LEMMA UnitsAre ==
    ASSUME NEW rows \in Seq(RowKinds)
    PROVE  LET units == Summarise(rows, "operational_unit")
               m     == UnitCount(rows)
           IN  /\ m \in Nat /\ DOMAIN units = 1 .. m
               /\ \A i \in 1 .. m : /\ UnitGroup(rows, i) \in Seq(RowKinds)
                                    /\ units[i] = Summary(units[i].key, UnitGroup(rows, i),
                                                          "operational_unit")
               /\ \A i, j \in 1 .. m : units[i].key = units[j].key => i = j
               /\ \A row \in Range(rows) : \E i \in 1 .. m : units[i].key = row.operational_unit
<1> DEFINE key   == "operational_unit"
           out   == Summaries(rows, key)
           units == Summarise(rows, key)
           m     == UnitCount(rows)
           before == {pair \in out \X out : Worse(pair[1], pair[2])}
<1>1. key \in Columns
  BY DEF Columns
<1>2. units \in Seq(out) /\ Range(units) = out /\ SortedBy(units, before)
  BY <1>1, SummariseIs DEF WorstFirst
<1>3. (\A a, b \in out : a.key = b.key => a = b) /\ (\A a \in out : a.risk_index \in Int)
  BY <1>1, SummariesAre
<1>4. m = Len(units)
  BY DEF UnitCount
<1>5. ASSUME NEW i \in 1 .. m PROVE UnitGroup(rows, i) \in Seq(RowKinds)
  BY GroupIs DEF UnitGroup
<1>6. ASSUME NEW k PROVE Summary(k, Group(rows, key, k), key).key = k
  BY DEF Summary
<1>7. \A a \in out : a = Summary(a.key, Group(rows, key, a.key), key)
  <2> SUFFICES ASSUME NEW k \in Keys(rows, key)
               PROVE  LET a == Summary(k, Group(rows, key, k), key)
                      IN  a = Summary(a.key, Group(rows, key, a.key), key)
    BY DEF Summaries
  <2>1. Summary(k, Group(rows, key, k), key).key = k
    BY <1>6
  <2> QED
    BY <2>1
<1> HIDE DEF units, m, out
<1>8. m \in Nat /\ DOMAIN units = 1 .. m /\ \A i \in 1 .. m : units[i] \in out
  BY <1>2, <1>4, LenProperties, ElementOfSeq
<1>9. \A i \in 1 .. m : units[i] = Summary(units[i].key, UnitGroup(rows, i), key)
  BY <1>7, <1>8 DEF UnitGroup, units
<1>10. ASSUME NEW i \in 1 .. m, NEW j \in 1 .. m, units[i].key = units[j].key, i < j PROVE FALSE
  <2>1. units[i] = units[j] /\ units[i] \in out
    BY <1>3, <1>8, <1>10
  <2>2. <<units[i], units[j]>> \in before
    BY <1>2, <1>4, <1>10 DEF SortedBy
  <2>3. Worse(units[i], units[j])
    <3>1. <<units[i], units[j]>>[1] = units[i] /\ <<units[i], units[j]>>[2] = units[j]
      OBVIOUS
    <3> QED
      BY <2>2, <3>1 DEF before
  <2>4. units[i].risk_index \in Int /\ units[i].key \in Int
    <3>1. units[i].key \in Keys(rows, key)
      <4>1. PICK k \in Keys(rows, key) : units[i] = Summary(k, Group(rows, key, k), key)
        BY <2>1 DEF out, Summaries
      <4> QED
        BY <1>6, <4>1
    <3>2. \A row \in Range(rows) : row[key] \in Nat
      BY RowsAreFinite, ReportsAssumption DEF ExposureRow
    <3> QED
      BY <1>3, <2>1, <3>1, <3>2 DEF Keys
  <2> QED
    BY <2>1, <2>3, <2>4 DEF Worse
<1>11. \A i, j \in 1 .. m : units[i].key = units[j].key => i = j
  <2> SUFFICES ASSUME NEW i \in 1 .. m, NEW j \in 1 .. m, units[i].key = units[j].key, i # j
               PROVE  FALSE
    OBVIOUS
  <2>1. i < j \/ j < i
    BY <1>8
  <2> QED
    BY <1>10, <2>1
<1>12. ASSUME NEW row \in Range(rows) PROVE \E i \in 1 .. m : units[i].key = row.operational_unit
  <2>1. Summary(row[key], Group(rows, key, row[key]), key) \in Range(units)
    BY <1>1, SummaryOf DEF units
  <2>2. PICK i \in 1 .. m : units[i] = Summary(row[key], Group(rows, key, row[key]), key)
    BY <1>8, <2>1 DEF Range
  <2> QED
    BY <1>6, <2>2
<1> QED
  BY <1>5, <1>8, <1>9, <1>11, <1>12 DEF units, m

(* Whatever is added up over the rows can be added up unit by unit.        *)
LEMMA UnitsPartition ==
    ASSUME NEW rows \in Seq(RowKinds), NEW val \in [RowKinds -> Int]
    PROVE  SumOf([i \in 1 .. UnitCount(rows) |-> SumOf(Vals(val, UnitGroup(rows, i)))])
             = SumOf(Vals(val, rows))
<1> DEFINE units == Summarise(rows, "operational_unit")
           m     == UnitCount(rows)
           part  == [i \in 1 .. m |-> {row \in RowKinds : row.operational_unit = units[i].key}]
<1>1. /\ m \in Nat
      /\ \A i, j \in 1 .. m : units[i].key = units[j].key => i = j
      /\ \A row \in Range(rows) : \E i \in 1 .. m : units[i].key = row.operational_unit
  BY UnitsAre
<1> HIDE DEF m
<1>2. \A row \in Range(rows) : row \in RowKinds
  BY RowsAreFinite
<1>3. ASSUME NEW i \in 1 .. m PROVE UnitGroup(rows, i) = Those(rows, part[i])
  <2> DEFINE A == {row \in Range(rows) : row["operational_unit"] = units[i].key}
             B == part[i]
  <2>1. UnitGroup(rows, i) = Those(rows, A)
    BY DEF UnitGroup, Group
  <2>2. \A row \in Range(rows) : row \in A <=> row \in B
    BY <1>2
  <2> HIDE DEF A, B
  <2>3. Those(rows, A) = Those(rows, B)
    BY <2>2, ThoseAlike
  <2> QED
    BY <2>1, <2>3 DEF B
<1>4. part \in [1 .. m -> SUBSET RowKinds]
  OBVIOUS
<1>5. ASSUME NEW row \in Range(rows)
      PROVE  \E i \in 1 .. m : row \in part[i] /\ \A j \in 1 .. m : j # i => row \notin part[j]
  <2>1. PICK i \in 1 .. m : units[i].key = row.operational_unit
    BY <1>1
  <2> HIDE DEF units
  <2> QED
    BY <1>1, <1>2, <2>1
<1> HIDE DEF part
<1>6. SumOf([i \in 1 .. m |-> SumOf(Vals(val, Those(rows, part[i])))]) = SumOf(Vals(val, rows))
  <2>1. Splits(m, part, rows)
    BY <1>5 DEF Splits
  <2>2. SplitSum(m, part, rows, val)
    BY <1>1, <1>4, <2>1, SumOfParts
  <2> QED
    BY <2>2 DEF SplitSum
<1>7. [i \in 1 .. m |-> SumOf(Vals(val, UnitGroup(rows, i)))]
        = [i \in 1 .. m |-> SumOf(Vals(val, Those(rows, part[i])))]
  BY <1>3
<1> QED
  BY <1>6, <1>7 DEF m

(* So the units' kilometres, before any rounding, are those of the         *)
(* network, and so are their tratte.                                       *)
LEMMA KmPartition ==
    ASSUME NEW rows \in Seq(RowKinds), NEW level \in Levels
    PROVE  SumOf([i \in 1 .. UnitCount(rows) |-> KmOf(UnitGroup(rows, i), level)])
             = KmOf(rows, level)
<1>1. Km(level) \in [RowKinds -> Int]
  BY ReportsAssumption DEF Km, ExposureRow, Levels
<1>2. KmOf(rows, level) = SumOf(Vals(Km(level), rows))
  BY KmIs
<1>3. \A i \in 1 .. UnitCount(rows) :
        KmOf(UnitGroup(rows, i), level) = SumOf(Vals(Km(level), UnitGroup(rows, i)))
  BY UnitsAre, KmIs
<1>4. SumOf([i \in 1 .. UnitCount(rows) |-> SumOf(Vals(Km(level), UnitGroup(rows, i)))])
        = SumOf(Vals(Km(level), rows))
  BY <1>1, UnitsPartition
<1>5. [i \in 1 .. UnitCount(rows) |-> KmOf(UnitGroup(rows, i), level)]
        = [i \in 1 .. UnitCount(rows) |-> SumOf(Vals(Km(level), UnitGroup(rows, i)))]
  BY <1>3
<1> QED
  BY <1>2, <1>4, <1>5

(* Every row is in the group of exactly one unit.                          *)
LEMMA RowsPartition ==
    ASSUME NEW rows \in Seq(RowKinds)
    PROVE  SumOf([i \in 1 .. UnitCount(rows) |-> Len(UnitGroup(rows, i))]) = Len(rows)
<1> DEFINE one == [row \in RowKinds |-> 1]
<1>1. one \in [RowKinds -> Int]
  OBVIOUS
<1>2. ASSUME NEW group \in Seq(RowKinds) PROVE SumOf(Vals(one, group)) = Len(group)
  <2>1. DOMAIN group = 1 .. Len(group) /\ Len(group) \in Nat
        /\ \A k \in 1 .. Len(group) : group[k] \in RowKinds
    BY LenProperties, ElementOfSeq
  <2>2. \A k \in 1 .. Len(group) : Vals(one, group)[k] = 1
    BY <2>1 DEF Vals
  <2>3. Vals(one, group) \in Seq(Int) /\ Len(Vals(one, group)) = Len(group)
    <3> HIDE DEF one
    <3> QED
      BY <1>1, ValsType
  <2> DEFINE ones == Vals(one, group)
  <2> HIDE DEF ones
  <2>4. ones \in Seq(Int) /\ 1 \in Int /\ \A k \in 1 .. Len(ones) : ones[k] = 1
    BY <2>2, <2>3 DEF ones
  <2>5. SumOf(ones) = 1 * Len(ones)
    BY <2>4, SumConst
  <2>6. Len(ones) = Len(group) /\ Len(group) \in Nat
    BY <2>1, <2>3 DEF ones
  <2>7. SumOf(ones) = Len(group)
    BY ONLY <2>5, <2>6
  <2> QED
    BY <2>7 DEF ones
<1> HIDE DEF one
<1>3. SumOf([i \in 1 .. UnitCount(rows) |-> SumOf(Vals(one, UnitGroup(rows, i)))])
        = SumOf(Vals(one, rows))
  BY <1>1, UnitsPartition
<1>4. [i \in 1 .. UnitCount(rows) |-> SumOf(Vals(one, UnitGroup(rows, i)))]
        = [i \in 1 .. UnitCount(rows) |-> Len(UnitGroup(rows, i))]
  BY <1>2, UnitsAre
<1> QED
  BY <1>2, <1>3, <1>4

-----------------------------------------------------------------------------
(* The arithmetic of the index                                             *)

(* What integer division is, with b * q as the only product.               *)
LEMMA DivisionIs ==
    ASSUME NEW a \in Nat, NEW b \in Nat, b > 0
    PROVE  a \div b \in Nat /\ b * (a \div b) <= a /\ a < b * (a \div b) + b
OBVIOUS

(* A product with a natural keeps the order.                               *)
LEMMA TimesMonotone ==
    ASSUME NEW x \in Int, NEW y \in Int, NEW c \in Nat, x <= y
    PROVE  c * x <= c * y
OBVIOUS

MeanOf(q, x, t) ==
    /\ q \in 0 .. 1000
    /\ 2 * (q * t) <= 2 * x + t
    /\ 2 * x <= 2 * (q * t) + t

(* In tenths, the index is a mean of 0 and 1000, off by half a tenth.      *)
LEMMA QuotientIs ==
    ASSUME NEW t \in Nat, t > 0, NEW x \in Nat, x <= 1000 * t
    PROVE  MeanOf(Nearest(x, t), x, t)
<1> DEFINE q == Nearest(x, t)
           a == 2 * x + t
           b == 2 * t
<1>1. a \in Nat /\ b \in Nat /\ b > 0 /\ q = a \div b
  BY DEF Nearest
<1>2. a <= 1000 * b + t
  OBVIOUS
<1>3. t < b
  OBVIOUS
<1> HIDE DEF a, b, q
<1>4. q \in Nat /\ b * q <= a /\ a < b * q + b
  BY <1>1, DivisionIs
<1>5. q <= 1000
  <2> SUFFICES ASSUME 1001 <= q PROVE FALSE
    BY <1>4
  <2>1. b * 1001 <= b * q
    BY <1>1, <1>4, TimesMonotone
  <2>2. b * q \in Int
    BY <1>1, <1>4
  <2> QED
    BY <1>1, <1>2, <1>3, <1>4, <2>1, <2>2
<1>6. b * q = 2 * (q * t) /\ q * t \in Int
  BY <1>4 DEF b
<1>7. 2 * (q * t) <= 2 * x + t
  BY <1>4, <1>6 DEF a
<1>8. 2 * x <= 2 * (q * t) + t
  <2>1. 2 * x + t < 2 * (q * t) + 2 * t
    BY <1>4, <1>6 DEF a, b
  <2> QED
    BY <1>6, <2>1
<1>9. q \in 0 .. 1000
  BY <1>4, <1>5
<1>10. MeanOf(q, x, t)
  BY <1>7, <1>8, <1>9 DEF MeanOf
<1> QED
  BY <1>10 DEF q

(* An index times a length that is rounded.                                *)
LEMMA RoundedProduct ==
    ASSUME NEW q \in 0 .. 1000, NEW t \in Nat, NEW r \in Nat, r - t <= 5, t - r <= 4
    PROVE  /\ q * r \in Int /\ q * t \in Int
           /\ q * r <= q * t + 5000
           /\ q * t <= q * r + 4000
<1>1. q \in Nat /\ r \in Int /\ t \in Int /\ t + 5 \in Int /\ r + 4 \in Int
  OBVIOUS
<1>2. q * r <= q * (t + 5)
  BY <1>1, TimesMonotone
<1>3. q * t <= q * (r + 4)
  BY <1>1, TimesMonotone
<1>4. q * (t + 5) = q * t + 5 * q /\ q * (r + 4) = q * r + 4 * q
  BY <1>1
<1>5. q * r \in Int /\ q * t \in Int
  BY <1>1
<1> QED
  BY <1>2, <1>3, <1>4, <1>5

(* What is in alert and in warning fits into what there is.                *)
LEMMA StretchesFit ==
    ASSUME NEW group \in Seq(RowKinds)
    PROVE  KmOf(group, "km_alert") + KmOf(group, "km_warning") <= KmOf(group, "km_total")
<1> DEFINE n == Len(group)
           vals(level) == [i \in DOMAIN group |-> group[i][level]]
<1>1. n \in Nat /\ DOMAIN group = 1 .. n /\ \A i \in 1 .. n : group[i] \in RowKinds
  BY LenProperties, ElementOfSeq
<1>2. \A i \in 1 .. n : /\ group[i].km_alert \in Nat /\ group[i].km_warning \in Nat
                        /\ group[i].km_total \in Nat
                        /\ group[i].km_alert + group[i].km_warning <= group[i].km_total
  BY <1>1, ReportsAssumption DEF ExposureRow
<1> DEFINE alert == vals("km_alert")
           warning == vals("km_warning")
           total == vals("km_total")
<1>3. /\ alert \in [1 .. n -> Int] /\ warning \in [1 .. n -> Int] /\ total \in [1 .. n -> Int]
      /\ \A i \in 1 .. n : /\ alert[i] = group[i].km_alert /\ warning[i] = group[i].km_warning
                           /\ total[i] = group[i].km_total
  BY <1>1, <1>2
<1>4. /\ KmOf(group, "km_alert") = SumOf(alert) /\ KmOf(group, "km_warning") = SumOf(warning)
      /\ KmOf(group, "km_total") = SumOf(total)
  BY DEF KmOf
<1> HIDE DEF alert, warning, total, n
<1>5. EachBounded(n, alert, total, warning, 1, 1, -1, 0)
  <2>1. \A i \in 1 .. n : alert[i] <= total[i] - warning[i]
    BY <1>2, <1>3
  <2>2. \A i \in 1 .. n : alert[i] \in Int /\ total[i] \in Int /\ warning[i] \in Int
    BY <1>3
  <2> QED
    BY <2>1, <2>2 DEF EachBounded
<1>6. AllBounded(n, alert, total, warning, 1, 1, -1, 0)
  BY <1>1, <1>3, <1>5, SumBounded
<1>7. SumOf(alert) \in Int /\ SumOf(warning) \in Int /\ SumOf(total) \in Int
  BY <1>4, KmIs DEF Levels
<1>8. SumOf(alert) <= SumOf(total) - SumOf(warning)
  BY <1>1, <1>6, <1>7 DEF AllBounded
<1> QED
  BY <1>4, <1>7, <1>8

(* The index of a group times its length, as the report shows them, and    *)
(* what that is an approximation of.                                       *)
WeightOf(group) ==
    IF IndexOfSums(group) = NoShare THEN 0
    ELSE IndexOfSums(group) * RoundKm(KmOf(group, "km_total"))

Severity(group) == 500 * (2 * KmOf(group, "km_alert") + KmOf(group, "km_warning"))

(* Twice the one is twice the other, up to the length of the group and the *)
(* rounding of its kilometres.                                             *)
LEMMA WeightIs ==
    ASSUME NEW group \in Seq(RowKinds)
    PROVE  /\ WeightOf(group) \in Int /\ Severity(group) \in Nat
           /\ 2 * WeightOf(group) <= 2 * Severity(group) + KmOf(group, "km_total") + 10000
           /\ 2 * Severity(group) <= 2 * WeightOf(group) + KmOf(group, "km_total") + 8000
<1> DEFINE t == KmOf(group, "km_total")
           a == KmOf(group, "km_alert")
           w == KmOf(group, "km_warning")
           x == Severity(group)
           r == RoundKm(t)
           q == IndexOfSums(group)
<1>1. t \in Nat /\ a \in Nat /\ w \in Nat
  BY KmIs DEF Levels
<1>2. a + w <= t
  BY StretchesFit
<1>3. x = 500 * (2 * a + w)
  BY DEF Severity
<1>4. q = IF t = 0 THEN NoShare ELSE Nearest(x, t)
  BY DEF IndexOfSums, Severity
<1>5. r \in Nat /\ r - t <= 5 /\ t - r <= 4
  <2> HIDE DEF t
  <2> QED
    BY <1>1, RoundingIs
<1>6. WeightOf(group) = IF q = NoShare THEN 0 ELSE q * r
  BY DEF WeightOf
<1> HIDE DEF t, a, w, x, r, q
<1>7. x \in Nat /\ x <= 1000 * t
  BY <1>1, <1>2, <1>3
<1>8. CASE t = 0
  <2>1. a = 0 /\ w = 0
    BY <1>1, <1>2, <1>8
  <2>2. x = 0 /\ WeightOf(group) = 0
    BY <1>3, <1>4, <1>6, <1>8, <2>1
  <2> QED
    BY <1>8, <2>2 DEF x, t
<1>9. CASE t # 0
  <2>1. q = Nearest(x, t) /\ t > 0
    BY <1>1, <1>4, <1>9
  <2>2. q \in 0 .. 1000 /\ 2 * (q * t) <= 2 * x + t /\ 2 * x <= 2 * (q * t) + t
    <3>1. MeanOf(Nearest(x, t), x, t)
      BY <1>1, <1>7, <2>1, QuotientIs
    <3> QED
      BY <2>1, <3>1 DEF MeanOf
  <2>3. /\ q * r \in Int /\ q * t \in Int
        /\ q * r <= q * t + 5000 /\ q * t <= q * r + 4000
    BY <1>1, <1>5, <2>2, RoundedProduct
  <2>4. WeightOf(group) = q * r
    BY <1>6, <2>2 DEF NoShare
  <2> DEFINE p == q * r
             s == q * t
  <2>5. p \in Int /\ s \in Int /\ p <= s + 5000 /\ s <= p + 4000
        /\ 2 * s <= 2 * x + t /\ 2 * x <= 2 * s + t
    BY <2>2, <2>3
  <2> HIDE DEF p, s
  <2>6. 2 * p <= 2 * x + t + 10000 /\ 2 * x <= 2 * p + t + 8000
    BY <1>1, <1>7, <2>5
  <2>7. WeightOf(group) = p
    BY <2>4 DEF p
  <2> QED
    BY <1>7, <2>5, <2>6, <2>7 DEF x, t
<1> QED
  BY <1>8, <1>9

-----------------------------------------------------------------------------
(* The figures of the units add up                                         *)

(* What is rounded unit by unit is off by five metres for each.            *)
RoundedNear(rows, level) ==
    LET sum == SumOf([i \in 1 .. UnitCount(rows) |-> RoundKm(KmOf(UnitGroup(rows, i), level))])
        all == RoundKm(KmOf(rows, level))
    IN  /\ sum \in Int /\ all \in Int
        /\ sum - all <= 5 * (UnitCount(rows) + 1)
        /\ all - sum <= 5 * (UnitCount(rows) + 1)

(* So the kilometres of the units add up to those of the network, but for  *)
(* five metres a unit and five for the network.                            *)
LEMMA RoundedPartition ==
    ASSUME NEW rows \in Seq(RowKinds), NEW level \in Levels
    PROVE  RoundedNear(rows, level)
<1> DEFINE m == UnitCount(rows)
           km(i) == KmOf(UnitGroup(rows, i), level)
           exact == [i \in 1 .. m |-> km(i)]
           shown == [i \in 1 .. m |-> RoundKm(km(i))]
           all == KmOf(rows, level)
<1>1. m \in Nat /\ \A i \in 1 .. m : UnitGroup(rows, i) \in Seq(RowKinds)
  BY UnitsAre
<1>2. \A i \in 1 .. m : km(i) \in Nat
  <2> HIDE DEF m
  <2> QED
    BY <1>1, KmIs
<1>3. SumOf(exact) = all
  BY KmPartition
<1>4. all \in Nat
  BY KmIs
<1> HIDE DEF m, km, all
<1>5. \A i \in 1 .. m : /\ RoundKm(km(i)) \in Nat
                        /\ RoundKm(km(i)) - km(i) <= 5 /\ km(i) - RoundKm(km(i)) <= 4
  BY <1>2, RoundingIs
<1>6. RoundKm(all) \in Nat /\ RoundKm(all) - all <= 5 /\ all - RoundKm(all) <= 4
  BY <1>4, RoundingIs
<1>7. /\ exact \in [1 .. m -> Int] /\ shown \in [1 .. m -> Int]
      /\ \A i \in 1 .. m : exact[i] \in Int /\ shown[i] \in Int
                           /\ shown[i] <= exact[i] + 5 /\ exact[i] <= shown[i] + 4
  BY <1>2, <1>5
<1> DEFINE above == SumOf(shown)
<1>8. above \in Int
  <2> HIDE DEF shown
  <2> QED
    BY <1>1, <1>7, FunctionIsSeq, SumType
<1> HIDE DEF exact, shown
<1>9. EachBounded(m, shown, exact, exact, 1, 1, 0, 5) /\ EachBounded(m, exact, shown, shown, 1, 1, 0, 4)
  BY <1>7 DEF EachBounded
<1>10. AllBounded(m, shown, exact, exact, 1, 1, 0, 5)
  <2>1. 0 \in Int /\ 1 \in Int /\ 4 \in Int /\ 5 \in Int
    OBVIOUS
  <2> QED
    BY ONLY <1>1, <1>7, <1>9, <2>1, SumBounded, Zenon
<1>11. AllBounded(m, exact, shown, shown, 1, 1, 0, 4)
  <2>1. 0 \in Int /\ 1 \in Int /\ 4 \in Int /\ 5 \in Int
    OBVIOUS
  <2> QED
    BY ONLY <1>1, <1>7, <1>9, <2>1, SumBounded, Zenon
<1> HIDE DEF above
<1>12. above <= all + 5 * m /\ all <= above + 4 * m
  BY <1>1, <1>3, <1>4, <1>8, <1>10, <1>11 DEF AllBounded, above
<1>13. above - RoundKm(all) <= 5 * (m + 1) /\ RoundKm(all) - above <= 5 * (m + 1)
  BY <1>1, <1>4, <1>6, <1>8, <1>12
<1> QED
  BY <1>6, <1>8, <1>13 DEF RoundedNear, above, shown, km, all, m

(* What the indices weigh, before any rounding, adds up exactly.           *)
LEMMA SeverityPartition ==
    ASSUME NEW rows \in Seq(RowKinds)
    PROVE  SumOf([i \in 1 .. UnitCount(rows) |-> Severity(UnitGroup(rows, i))]) = Severity(rows)
<1> DEFINE m == UnitCount(rows)
           alert == [i \in 1 .. m |-> KmOf(UnitGroup(rows, i), "km_alert")]
           warning == [i \in 1 .. m |-> KmOf(UnitGroup(rows, i), "km_warning")]
           severity == [i \in 1 .. m |-> Severity(UnitGroup(rows, i))]
<1>1. m \in Nat /\ \A i \in 1 .. m : UnitGroup(rows, i) \in Seq(RowKinds)
  BY UnitsAre
<1>2. SumOf(alert) = KmOf(rows, "km_alert") /\ SumOf(warning) = KmOf(rows, "km_warning")
  BY KmPartition DEF Levels
<1> HIDE DEF m
<1>3. \A i \in 1 .. m : /\ KmOf(UnitGroup(rows, i), "km_alert") \in Int
                        /\ KmOf(UnitGroup(rows, i), "km_warning") \in Int
  BY <1>1, KmIs DEF Levels
<1>4. \A i \in 1 .. m : Severity(UnitGroup(rows, i)) =
          1000 * KmOf(UnitGroup(rows, i), "km_alert") + 500 * KmOf(UnitGroup(rows, i), "km_warning") + 0
  BY <1>3 DEF Severity
<1>5. alert \in [1 .. m -> Int] /\ warning \in [1 .. m -> Int]
  BY <1>3
<1>6. severity = Combined(m, alert, warning, 1000, 500, 0)
  BY <1>4 DEF Combined
<1> HIDE DEF alert, warning, severity
<1>7. CombinesTo(m, alert, warning, 1000, 500, 0)
  <2> DEFINE a == 1000
             b == 500
             c == 0
  <2>1. a \in Int /\ b \in Int /\ c \in Int
    OBVIOUS
  <2> HIDE DEF a, b, c
  <2>2. CombinesTo(m, alert, warning, a, b, c)
    BY ONLY <1>1, <1>5, <2>1, SumCombine, Zenon
  <2> QED
    BY <2>2 DEF a, b, c
<1>8. SumOf(severity) = 1000 * SumOf(alert) + 500 * SumOf(warning) + 0 * m
  BY <1>6, <1>7 DEF CombinesTo
<1>9. KmOf(rows, "km_alert") \in Int /\ KmOf(rows, "km_warning") \in Int
  BY KmIs DEF Levels
<1>10. SumOf(severity) = Severity(rows)
  BY <1>1, <1>2, <1>8, <1>9 DEF Severity
<1> QED
  BY <1>10 DEF severity, m

(* So the index of the whole is the weighted mean of the units', up to the *)
(* half tenth of each and the rounding of its weight.                      *)
WeightNear(rows) ==
    LET sum == SumOf([i \in 1 .. UnitCount(rows) |-> WeightOf(UnitGroup(rows, i))])
        bound == RoundKm(KmOf(rows, "km_total")) + 5000 * (UnitCount(rows) + 1)
    IN  /\ sum \in Int /\ WeightOf(rows) \in Int
        /\ sum - WeightOf(rows) <= bound
        /\ WeightOf(rows) - sum <= bound

(* Which holds of any rows.                                                *)
LEMMA WeightPartition ==
    ASSUME NEW rows \in Seq(RowKinds)
    PROVE  WeightNear(rows)
<1> DEFINE m == UnitCount(rows)
           weight == [i \in 1 .. m |-> WeightOf(UnitGroup(rows, i))]
           severity == [i \in 1 .. m |-> Severity(UnitGroup(rows, i))]
           total == [i \in 1 .. m |-> KmOf(UnitGroup(rows, i), "km_total")]
           t == KmOf(rows, "km_total")
           x == Severity(rows)
           w == WeightOf(rows)
           r == RoundKm(t)
           s == SumOf(weight)
<1>1. m \in Nat /\ \A i \in 1 .. m : UnitGroup(rows, i) \in Seq(RowKinds)
  BY UnitsAre
<1>2. SumOf(severity) = x /\ SumOf(total) = t
  BY SeverityPartition, KmPartition DEF Levels
<1>3. m >= 1 \/ t = 0
  <2>1. \A row \in Range(rows) : \E i \in 1 .. m : TRUE
    BY UnitsAre
  <2>2. t \in Nat /\ (t > 0 => \E row \in Range(rows) : row["km_total"] > 0)
    BY KmIs DEF Levels
  <2> HIDE DEF m, t
  <2> QED
    BY <1>1, <2>1, <2>2
<1>4. /\ w \in Int /\ x \in Nat
      /\ 2 * w <= 2 * x + t + 10000 /\ 2 * x <= 2 * w + t + 8000
  BY WeightIs
<1>5. t \in Nat
  BY KmIs DEF Levels
<1>6. r \in Nat /\ r - t <= 5 /\ t - r <= 4
  <2> HIDE DEF t
  <2> QED
    BY <1>5, RoundingIs
<1> HIDE DEF m
<1>7. ASSUME NEW i \in 1 .. m
      PROVE  /\ WeightOf(UnitGroup(rows, i)) \in Int /\ Severity(UnitGroup(rows, i)) \in Int
             /\ KmOf(UnitGroup(rows, i), "km_total") \in Int
             /\ 2 * WeightOf(UnitGroup(rows, i)) <=
                  2 * Severity(UnitGroup(rows, i)) + KmOf(UnitGroup(rows, i), "km_total") + 10000
             /\ 2 * Severity(UnitGroup(rows, i)) <=
                  2 * WeightOf(UnitGroup(rows, i)) + KmOf(UnitGroup(rows, i), "km_total") + 8000
  <2> DEFINE group == UnitGroup(rows, i)
  <2>1. group \in Seq(RowKinds)
    BY <1>1
  <2> HIDE DEF group
  <2>2. KmOf(group, "km_total") \in Nat
    BY <2>1, KmIs DEF Levels
  <2>3. /\ WeightOf(group) \in Int /\ Severity(group) \in Nat
        /\ 2 * WeightOf(group) <= 2 * Severity(group) + KmOf(group, "km_total") + 10000
        /\ 2 * Severity(group) <= 2 * WeightOf(group) + KmOf(group, "km_total") + 8000
    BY <2>1, WeightIs
  <2> QED
    BY <2>2, <2>3 DEF group
<1>8. /\ weight \in [1 .. m -> Int] /\ severity \in [1 .. m -> Int] /\ total \in [1 .. m -> Int]
      /\ \A i \in 1 .. m : 2 * weight[i] <= 2 * severity[i] + 1 * total[i] + 10000
      /\ \A i \in 1 .. m : 2 * severity[i] <= 2 * weight[i] + 1 * total[i] + 8000
  BY <1>7
<1> HIDE DEF weight, severity, total, t, x, w, r
<1>9. EachBounded(m, weight, severity, total, 2, 2, 1, 10000)
      /\ EachBounded(m, severity, weight, total, 2, 2, 1, 8000)
  BY <1>8 DEF EachBounded
<1>10. AllBounded(m, weight, severity, total, 2, 2, 1, 10000)
  <2> DEFINE two == 2
             one == 1
             some == 10000
  <2>1. one \in Int /\ two \in Int /\ some \in Int
    OBVIOUS
  <2>2. EachBounded(m, weight, severity, total, two, two, one, some)
    BY <1>9
  <2> HIDE DEF one, two, some
  <2>3. AllBounded(m, weight, severity, total, two, two, one, some)
    <3>1. /\ m \in Nat /\ weight \in [1 .. m -> Int] /\ severity \in [1 .. m -> Int]
          /\ total \in [1 .. m -> Int]
      BY <1>1, <1>8
    <3> QED
      BY ONLY <2>1, <2>2, <3>1, SumBounded
  <2> QED
    BY <2>3 DEF one, two, some
<1>11. AllBounded(m, severity, weight, total, 2, 2, 1, 8000)
  <2> DEFINE two == 2
             one == 1
             some == 8000
  <2>1. one \in Int /\ two \in Int /\ some \in Int
    OBVIOUS
  <2>2. EachBounded(m, severity, weight, total, two, two, one, some)
    BY <1>9
  <2> HIDE DEF one, two, some
  <2>3. AllBounded(m, severity, weight, total, two, two, one, some)
    <3>1. /\ m \in Nat /\ weight \in [1 .. m -> Int] /\ severity \in [1 .. m -> Int]
          /\ total \in [1 .. m -> Int]
      BY <1>1, <1>8
    <3> QED
      BY ONLY <2>1, <2>2, <3>1, SumBounded
  <2> QED
    BY <2>3 DEF one, two, some
<1>12. s \in Int
  BY <1>1, <1>8, FunctionIsSeq, SumType
<1> HIDE DEF s
<1>13. 2 * s <= 2 * x + t + 10000 * m /\ 2 * x <= 2 * s + t + 8000 * m
  BY <1>1, <1>2, <1>4, <1>5, <1>10, <1>11, <1>12 DEF AllBounded, s
<1>14. s - w <= t + 5000 * m + 4000 /\ w - s <= t + 4000 * m + 5000
  BY <1>1, <1>4, <1>5, <1>12, <1>13
<1>15. s - w <= r + 5000 * (m + 1) /\ w - s <= r + 5000 * (m + 1)
  BY <1>1, <1>3, <1>4, <1>5, <1>6, <1>12, <1>14
<1> QED
  BY <1>4, <1>12, <1>15 DEF WeightNear, s, weight, w, r, t, m

Weight(u) == IF u.risk_index = NoShare THEN 0 ELSE u.risk_index * u.km_total

(* What UnitsAddUpToTotals says of one day and hazard.                     *)
AddsUp(units, totals) ==
    /\ SumOf([i \in DOMAIN units |-> units[i].n_tratte]) = totals.n_tratte
    /\ Magnitude(SumOf([i \in DOMAIN units |-> units[i].km_alert]) - totals.km_alert)
         <= 5 * (Len(units) + 1)
    /\ Magnitude(SumOf([i \in DOMAIN units |-> units[i].km_total]) - totals.km_total)
         <= 5 * (Len(units) + 1)
    /\ Magnitude(SumOf([i \in DOMAIN units |-> Weight(units[i])]) - Weight(totals))
         <= totals.km_total + 5000 * (Len(units) + 1)

(* REQ-0046: the figures add up. The tratte of the units are those of the  *)
(* network, their kilometres are up to the rounding, and the index of the  *)
(* network is the mean of the units' weighted by their length.             *)
THEOREM UnitsAddUp == Spec => []UnitsAddUpToTotals
<1>1. TypeOK => UnitsAddUpToTotals
  <2> SUFFICES ASSUME TypeOK, NEW date \in Days, NEW vector \in Hazards
               PROVE  AddsUp(Body("ALERT")[date][vector].units, Body("ALERT")[date][vector].totals)
    BY DEF UnitsAddUpToTotals, AddsUp, Weight
  <2> DEFINE sub    == Subset(table, date, vector)
             units  == Body("ALERT")[date][vector].units
             totals == Body("ALERT")[date][vector].totals
             m == UnitCount(sub)
  <2>1. sub \in Seq(RowKinds)
    BY SubsetIs DEF TypeOK
  <2>2. units = Summarise(sub, "operational_unit") /\ totals = Totals(sub)
    BY DEF Body, BuildDays, Day
  <2> HIDE DEF sub, units, totals
  <2>3. /\ m \in Nat /\ DOMAIN units = 1 .. m /\ Len(units) = m
        /\ \A i \in 1 .. m : units[i] = Summary(units[i].key, UnitGroup(sub, i), "operational_unit")
    BY <2>1, <2>2, UnitsAre DEF UnitCount
  <2> HIDE DEF m
  <2>4. \A i \in 1 .. m :
           /\ units[i].n_tratte = Len(UnitGroup(sub, i))
           /\ units[i].km_alert = RoundKm(KmOf(UnitGroup(sub, i), "km_alert"))
           /\ units[i].km_total = RoundKm(KmOf(UnitGroup(sub, i), "km_total"))
           /\ Weight(units[i]) = WeightOf(UnitGroup(sub, i))
    <3> SUFFICES ASSUME NEW i \in 1 .. m
                 PROVE  /\ units[i].n_tratte = Len(UnitGroup(sub, i))
                        /\ units[i].km_alert = RoundKm(KmOf(UnitGroup(sub, i), "km_alert"))
                        /\ units[i].km_total = RoundKm(KmOf(UnitGroup(sub, i), "km_total"))
                        /\ Weight(units[i]) = WeightOf(UnitGroup(sub, i))
      OBVIOUS
    <3>1. units[i] = Summary(units[i].key, UnitGroup(sub, i), "operational_unit")
      BY <2>3
    <3>2. /\ units[i].n_tratte = Len(UnitGroup(sub, i))
          /\ units[i].km_alert = RoundKm(KmOf(UnitGroup(sub, i), "km_alert"))
          /\ units[i].km_total = RoundKm(KmOf(UnitGroup(sub, i), "km_total"))
          /\ units[i].risk_index = IndexOfSums(UnitGroup(sub, i))
      BY <3>1 DEF Summary, RiskIndex
    <3> QED
      BY <3>2 DEF WeightOf, Weight
  <2>5. /\ totals.n_tratte = Len(sub)
        /\ totals.km_alert = RoundKm(KmOf(sub, "km_alert"))
        /\ totals.km_total = RoundKm(KmOf(sub, "km_total"))
        /\ Weight(totals) = WeightOf(sub)
    <3>1. CASE sub # <<>>
      <4>1. totals = Summary(0, sub, "_all")
        BY <2>2, <3>1 DEF Totals
      <4>2. /\ totals.n_tratte = Len(sub)
            /\ totals.km_alert = RoundKm(KmOf(sub, "km_alert"))
            /\ totals.km_total = RoundKm(KmOf(sub, "km_total"))
            /\ totals.risk_index = IndexOfSums(sub)
        BY <4>1 DEF Summary, RiskIndex
      <4> QED
        BY <4>2 DEF WeightOf, Weight
    <3>2. CASE sub = <<>>
      <4>1. totals.n_tratte = 0 /\ totals.km_alert = 0 /\ totals.km_total = 0
            /\ totals.risk_index = NoShare
        BY <2>2, <3>2 DEF Totals
      <4>2. ASSUME NEW level \in Levels PROVE KmOf(sub, level) = 0
        <5>1. Range(sub) = {}
          BY <3>2, EmptySeq DEF Range
        <5>2. KmOf(sub, level) \in Nat
              /\ (KmOf(sub, level) > 0 => \E row \in Range(sub) : row[level] > 0)
          BY <2>1, KmIs
        <5> QED
          BY <5>1, <5>2
      <4>3. KmOf(sub, "km_alert") = 0 /\ KmOf(sub, "km_total") = 0
        BY <4>2 DEF Levels
      <4>4. RoundKm(0) = 0
        BY DEF RoundKm, Nearest
      <4>5. IndexOfSums(sub) = NoShare
        BY <4>3 DEF IndexOfSums
      <4>6. Weight(totals) = 0 /\ WeightOf(sub) = 0
        BY <4>1, <4>5 DEF WeightOf, Weight
      <4>7. Len(sub) = 0
        BY <3>2, EmptySeq
      <4> QED
        BY <4>1, <4>3, <4>4, <4>6, <4>7
    <3> QED
      BY <3>1, <3>2
  <2>6. /\ [i \in DOMAIN units |-> units[i].n_tratte] = [i \in 1 .. m |-> Len(UnitGroup(sub, i))]
        /\ [i \in DOMAIN units |-> units[i].km_alert]
             = [i \in 1 .. m |-> RoundKm(KmOf(UnitGroup(sub, i), "km_alert"))]
        /\ [i \in DOMAIN units |-> units[i].km_total]
             = [i \in 1 .. m |-> RoundKm(KmOf(UnitGroup(sub, i), "km_total"))]
        /\ [i \in DOMAIN units |-> Weight(units[i])] = [i \in 1 .. m |-> WeightOf(UnitGroup(sub, i))]
    BY <2>3, <2>4
  <2>7. SumOf([i \in DOMAIN units |-> units[i].n_tratte]) = totals.n_tratte
    BY <2>1, <2>5, <2>6, RowsPartition DEF m
  <2>8. RoundedNear(sub, "km_alert") /\ RoundedNear(sub, "km_total") /\ WeightNear(sub)
    BY <2>1, RoundedPartition, WeightPartition DEF Levels
  <2> DEFINE alerts == SumOf([i \in DOMAIN units |-> units[i].km_alert])
             kms    == SumOf([i \in DOMAIN units |-> units[i].km_total])
             sum    == SumOf([i \in DOMAIN units |-> Weight(units[i])])
             whole  == Weight(totals)
  <2>9. /\ alerts \in Int /\ totals.km_alert \in Int
        /\ alerts - totals.km_alert <= 5 * (m + 1) /\ totals.km_alert - alerts <= 5 * (m + 1)
    BY <2>5, <2>6, <2>8 DEF RoundedNear, m
  <2>10. /\ kms \in Int /\ totals.km_total \in Int
         /\ kms - totals.km_total <= 5 * (m + 1) /\ totals.km_total - kms <= 5 * (m + 1)
    BY <2>5, <2>6, <2>8 DEF RoundedNear, m
  <2>11. /\ sum \in Int /\ whole \in Int
         /\ sum - whole <= totals.km_total + 5000 * (m + 1)
         /\ whole - sum <= totals.km_total + 5000 * (m + 1)
    <3>1. sum = SumOf([i \in 1 .. m |-> WeightOf(UnitGroup(sub, i))])
      BY <2>6
    <3>2. whole = WeightOf(sub)
      BY <2>5
    <3> HIDE DEF sum, whole
    <3> QED
      BY <2>5, <2>8, <3>1, <3>2 DEF WeightNear, m
  <2> HIDE DEF alerts, kms, sum, whole
  <2>12. Magnitude(alerts - totals.km_alert) <= 5 * (m + 1)
    BY <2>3, <2>9 DEF Magnitude
  <2>13. Magnitude(kms - totals.km_total) <= 5 * (m + 1)
    BY <2>3, <2>10 DEF Magnitude
  <2>14. Magnitude(sum - whole) <= totals.km_total + 5000 * (m + 1)
    BY <2>3, <2>10, <2>11 DEF Magnitude
  <2>15. AddsUp(units, totals)
    BY <2>3, <2>7, <2>12, <2>13, <2>14 DEF AddsUp, alerts, kms, sum, whole
  <2> QED
    BY <2>15 DEF units, totals
<1> QED
  BY <1>1, TypeCorrect, PTL


(* The rounding is all that keeps a line off its report, but for a full    *)
(* list: LinesAtThresholdAreListed, which the code violates, holds of rows *)
(* in which every stretch at a level is five metres or more.               *)
THEOREM OnlyShortStretchesAreLeftOut ==
    ASSUME \A row \in RowKinds : /\ row.km_alert = 0 \/ row.km_alert >= 5
                                 /\ row.km_warning = 0 \/ row.km_warning >= 5
    PROVE  Spec => []LinesAtThresholdAreListed
<1>1. TypeOK /\ NothingWorseIsLeftOut => LinesAtThresholdAreListed
  <2> SUFFICES ASSUME TypeOK, NothingWorseIsLeftOut, NEW threshold \in Thresholds,
                      NEW row \in Range(table), KmAtOrAbove(row, threshold) > 0
               PROVE  LET lines == Body(threshold)[row.date][row.risk_vector].top_lines
                      IN  \/ Len(lines) = TopN
                          \/ \E line \in Range(lines) : line.key = row.line_name
    BY DEF LinesAtThresholdAreListed
  <2>1. row \in RowKinds
    BY RowsAreFinite DEF TypeOK
  <2>2. row.km_alert \in Nat /\ row.km_warning \in Nat
    BY <2>1, ReportsAssumption DEF ExposureRow
  <2>3. Visible(row, threshold)
    BY <2>1, <2>2 DEF Visible, KmAtOrAbove
  <2> QED
    BY <2>3 DEF NothingWorseIsLeftOut
<1> QED
  BY <1>1, TypeCorrect, NothingWorseLeftOut, PTL
=============================================================================
