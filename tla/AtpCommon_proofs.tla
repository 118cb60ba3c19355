--------------------------- MODULE AtpCommon_proofs ---------------------------
(***************************************************************************)
(* What the lookups and updates of AtpCommon return, for any sets of       *)
(* names, types and values; and what the other proofs share: induction     *)
(* over the naturals, concatenations and where their parts are found.      *)
(***************************************************************************)
EXTENDS AtpCommon, SequencesExt, SequenceTheorems, FiniteSetTheorems,
        WellFoundedInduction, TLAPS

(***************************************************************************)
(* A nonempty set of naturals has a least element, and one with an upper   *)
(* bound a greatest: the loops of the lookups find the first match, that   *)
(* of ATP_param_find_unique the last domain with a match.                  *)
(***************************************************************************)
LEMMA LeastNatural ==
  ASSUME NEW S, S \subseteq Nat, S # {}
  PROVE  \E m \in S : \A k \in S : m <= k
<1> DEFINE Less == {ss \in Nat \X Nat : ss[1] < ss[2]}
<1>1. IsWellFoundedOn(Less, Nat)
  BY NatLessThanWellFounded DEF OpToRel
<1>2. PICK m \in S : \A k \in S : <<k, m>> \notin Less
  <2> HIDE DEF Less
  <2> QED BY <1>1, WFMin
<1>3. ASSUME NEW k \in S PROVE m <= k
  <2>1. <<k, m>> \in Nat \X Nat /\ <<k, m>> \notin Less
    BY <1>2
  <2>2. ~(k < m)
    BY <2>1
  <2> QED BY <2>2
<1> QED BY <1>3

LEMMA GreatestNatural ==
  ASSUME NEW n \in Nat, NEW S, S \subseteq 1..n, S # {}
  PROVE  \E m \in S : \A k \in S : k <= m
<1> DEFINE T == {n - k : k \in S}
<1>1. T \subseteq Nat /\ T # {}
  <2>1. \A k \in S : n - k \in Nat
    OBVIOUS
  <2> QED BY <2>1
<1>2. PICK t \in T : \A u \in T : t <= u
  <2> HIDE DEF T
  <2> QED BY <1>1, LeastNatural
<1>3. PICK m \in S : t = n - m
  OBVIOUS
<1>4. ASSUME NEW k \in S PROVE k <= m
  <2>1. n - k \in T
    OBVIOUS
  <2>2. n - m <= n - k
    BY <2>1, <1>2, <1>3
  <2> QED BY <2>2
<1> QED BY <1>4

LEMMA FirstOfMatch ==
  ASSUME NEW n \in Nat, NEW hits \in SUBSET (1..n)
  PROVE  /\ hits = {} => FirstOf(hits) = NoIndex
         /\ hits # {} => /\ FirstOf(hits) \in hits
                         /\ \A k \in hits : FirstOf(hits) <= k
<1>1. CASE hits = {}
  BY <1>1 DEF FirstOf
<1>2. CASE hits # {}
  <2>1. hits \subseteq Nat
    OBVIOUS
  <2>2. \E m \in hits : \A k \in hits : m <= k
    BY <1>2, <2>1, LeastNatural
  <2> QED BY <1>2, <2>2 DEF FirstOf
<1> QED BY <1>1, <1>2

LEMMA LastOfMatch ==
  ASSUME NEW n \in Nat, NEW hits \in SUBSET (1..n)
  PROVE  /\ hits = {} => LastOf(hits) = NoIndex
         /\ hits # {} => /\ LastOf(hits) \in hits
                         /\ \A k \in hits : k <= LastOf(hits)
<1>1. CASE hits = {}
  BY <1>1 DEF LastOf
<1>2. CASE hits # {}
  <2>1. \E m \in hits : \A k \in hits : k <= m
    BY <1>2, GreatestNatural
  <2> QED BY <1>2, <2>1 DEF LastOf
<1> QED BY <1>1, <1>2

(***************************************************************************)
(* A lookup returns NoIndex exactly if nothing has the name, and otherwise *)
(* the index of something that has.                                        *)
(***************************************************************************)
LEMMA DomainFind ==
  ASSUME NEW domains, Len(domains) \in Nat, NEW domName
  PROVE  LET found == ATP_domain_find(domName, domains)
         IN \/ /\ found = NoIndex
               /\ \A i \in 1..Len(domains) : domains[i].domName # Named(domName)
            \/ /\ found \in 1..Len(domains)
               /\ domains[found].domName = Named(domName)
<1> DEFINE hits == {i \in 1..Len(domains) : domains[i].domName = Named(domName)}
<1>1. hits \in SUBSET (1..Len(domains))
  OBVIOUS
<1>2. ATP_domain_find(domName, domains) = FirstOf(hits)
  BY DEF ATP_domain_find
<1>3. CASE hits = {}
  BY <1>1, <1>2, <1>3, FirstOfMatch
<1>4. CASE hits # {}
  BY <1>1, <1>2, <1>4, FirstOfMatch
<1> QED BY <1>3, <1>4

LEMMA ParamFind ==
  ASSUME NEW domain, Len(domain.paramsArray) \in Nat, NEW pname
  PROVE  LET found == ATP_param_find(pname, domain)
         IN \/ /\ found = NoIndex
               /\ \A j \in 1..Len(domain.paramsArray) :
                    domain.paramsArray[j].paramName # pname
            \/ /\ found \in 1..Len(domain.paramsArray)
               /\ domain.paramsArray[found].paramName = pname
<1> DEFINE hits == {j \in 1..Len(domain.paramsArray) :
                      domain.paramsArray[j].paramName = pname}
<1>1. hits \in SUBSET (1..Len(domain.paramsArray))
  OBVIOUS
<1>2. ATP_param_find(pname, domain) = FirstOf(hits)
  BY DEF ATP_param_find
<1>3. CASE hits = {}
  BY <1>1, <1>2, <1>3, FirstOfMatch
<1>4. CASE hits # {}
  BY <1>1, <1>2, <1>4, FirstOfMatch
<1> QED BY <1>3, <1>4

\* The answer of ATP_param_find_unique: no parameter of any domain has the
\* name, or the one it points to has.
LEMMA ParamFindUnique ==
  ASSUME NEW domains, Len(domains) \in Nat, NEW pname,
         \A i \in 1..Len(domains) : Len(domains[i].paramsArray) \in Nat
  PROVE  LET at == ATP_param_find_unique(pname, domains)
         IN \/ /\ at[1] = NoIndex
               /\ \A i \in 1..Len(domains) :
                    \A j \in 1..Len(domains[i].paramsArray) :
                      domains[i].paramsArray[j].paramName # pname
            \/ /\ at[1] \in 1..Len(domains)
               /\ at[2] \in 1..Len(domains[at[1]].paramsArray)
               /\ domains[at[1]].paramsArray[at[2]].paramName = pname
<1> DEFINE hits == {i \in 1..Len(domains) :
                      ATP_param_find(pname, domains[i]) # NoIndex}
           last == LastOf(hits)
           at == ATP_param_find_unique(pname, domains)
<1>1. hits \in SUBSET (1..Len(domains))
  OBVIOUS
<1>2. at = IF last = NoIndex THEN <<NoIndex, NoIndex>>
           ELSE <<last, ATP_param_find(pname, domains[last])>>
  BY DEF ATP_param_find_unique
<1>3. CASE hits = {}
  <2>1. at[1] = NoIndex
    BY <1>1, <1>2, <1>3, LastOfMatch
  <2>2. ASSUME NEW i \in 1..Len(domains)
        PROVE  \A j \in 1..Len(domains[i].paramsArray) :
                 domains[i].paramsArray[j].paramName # pname
    <3>1. ATP_param_find(pname, domains[i]) = NoIndex
      BY <1>3
    <3> QED BY <3>1, ParamFind DEF NoIndex
  <2> QED BY <2>1, <2>2
<1>4. CASE hits # {}
  <2>1. last \in hits
    BY <1>1, <1>4, LastOfMatch
  <2>2. last # NoIndex /\ last \in 1..Len(domains)
    BY <2>1 DEF NoIndex
  <2>3. at = <<last, ATP_param_find(pname, domains[last])>>
    BY <1>2, <2>2
  <2>4. ATP_param_find(pname, domains[last]) # NoIndex
    BY <2>1
  <2> QED BY <2>2, <2>3, <2>4, ParamFind
<1> QED BY <1>3, <1>4

-----------------------------------------------------------------------------
(***************************************************************************)
(* Induction over the naturals, for a property given as the set of those   *)
(* that have it.                                                           *)
(***************************************************************************)
LEMMA NaturalInduction ==
  ASSUME NEW S, 0 \in S, \A n \in Nat : n \in S => n + 1 \in S
  PROVE  Nat \subseteq S
<1> SUFFICES ASSUME Nat \ S # {} PROVE FALSE
  OBVIOUS
<1>1. PICK m \in Nat \ S : \A k \in Nat \ S : m <= k
  <2>1. Nat \ S \subseteq Nat
    OBVIOUS
  <2> QED BY <2>1, LeastNatural
<1>2. m # 0
  OBVIOUS
<1>3. m - 1 \in Nat /\ (m - 1) + 1 = m
  BY <1>2
<1>4. m - 1 \notin S
  BY <1>3
<1>5. m <= m - 1
  BY <1>1, <1>3, <1>4
<1> QED BY <1>5

LEMMA BoundedInduction ==
  ASSUME NEW n \in Nat, NEW S, 0 \in S, \A k \in 0..n - 1 : k \in S => k + 1 \in S
  PROVE  0..n \subseteq S
<1> DEFINE T == {k \in Nat : k <= n => k \in S}
<1>1. 0 \in T
  OBVIOUS
<1>2. ASSUME NEW k \in Nat, k \in T PROVE k + 1 \in T
  <2>1. SUFFICES ASSUME k + 1 <= n PROVE k + 1 \in S
    OBVIOUS
  <2>2. k \in 0..n - 1 /\ k \in S
    BY <1>2, <2>1
  <2> QED BY <2>2
<1>3. Nat \subseteq T
  <2> HIDE DEF T
  <2> QED BY <1>1, <1>2, NaturalInduction
<1> QED BY <1>3

(***************************************************************************)
(* FlattenSeq, by the concatenations of the first sequences, and from its  *)
(* head on.                                                                *)
(***************************************************************************)
LEMMA FlattenDefined ==
  ASSUME NEW seqs
  PROVE  \A n \in Nat : \E f :
           f = [i \in 1..n |-> IF i = 1 THEN seqs[i] ELSE f[i - 1] \o seqs[i]]
<1> DEFINE S == {n \in Nat : \E f :
             f = [i \in 1..n |-> IF i = 1 THEN seqs[i] ELSE f[i - 1] \o seqs[i]]}
<1>1. 0 \in S
  <2> DEFINE f == [i \in 1..0 |-> 0]
  <2>1. f = [i \in 1..0 |-> IF i = 1 THEN seqs[i] ELSE f[i - 1] \o seqs[i]]
    OBVIOUS
  <2> HIDE DEF f
  <2> QED BY <2>1
<1>2. ASSUME NEW n \in Nat, n \in S PROVE n + 1 \in S
  <2>1. PICK f : f = [i \in 1..n |-> IF i = 1 THEN seqs[i] ELSE f[i - 1] \o seqs[i]]
    BY <1>2
  <2> DEFINE g == [i \in 1..n + 1 |->
                     IF i = 1 THEN seqs[i] ELSE f[i - 1] \o seqs[i]]
  <2>2. \A i \in 1..n : g[i] = f[i]
    <3> DEFINE h == [i \in 1..n |-> IF i = 1 THEN seqs[i] ELSE f[i - 1] \o seqs[i]]
    <3>1. f = h
      BY <2>1
    <3>2. \A i \in 1..n : h[i] = g[i]
      OBVIOUS
    <3> HIDE DEF g, h
    <3> QED BY <3>1, <3>2
  <2>3. ASSUME NEW i \in 1..n + 1
        PROVE  g[i] = IF i = 1 THEN seqs[i] ELSE g[i - 1] \o seqs[i]
    <3>1. i # 1 => i - 1 \in 1..n
      OBVIOUS
    <3>2. i # 1 => g[i - 1] = f[i - 1]
      BY <3>1, <2>2
    <3>3. g[i] = IF i = 1 THEN seqs[i] ELSE f[i - 1] \o seqs[i]
      OBVIOUS
    <3> HIDE DEF g
    <3> QED BY <3>2, <3>3
  <2>4. g = [i \in 1..n + 1 |-> IF i = 1 THEN seqs[i] ELSE g[i - 1] \o seqs[i]]
    <3>1. g = [i \in 1..n + 1 |-> g[i]]
      OBVIOUS
    <3> HIDE DEF g
    <3> QED BY <3>1, <2>3
  <2> HIDE DEF g
  <2>5. \E h : h = [i \in 1..n + 1 |-> IF i = 1 THEN seqs[i] ELSE h[i - 1] \o seqs[i]]
    BY <2>4, Zenon
  <2>6. n + 1 \in Nat
    OBVIOUS
  <2> QED BY <2>5, <2>6, Zenon
<1>3. Nat \subseteq S
  <2> HIDE DEF S
  <2> QED BY <1>1, <1>2, NaturalInduction
<1> QED BY <1>3

\* Under a name, so that the provers do not apply it again and again.
Associates(s, t, u) == (s \o t) \o u = s \o (t \o u)

LEMMA ConcatAssociates ==
  ASSUME NEW T, NEW s \in Seq(T), NEW t \in Seq(T), NEW u \in Seq(T)
  PROVE  Associates(s, t, u)
BY ConcatAssociative DEF Associates

\* f has the concatenations of the first i sequences.
Accumulates(f, seqs) == \A i \in 1..Len(seqs) : f[i] = f[i - 1] \o seqs[i]

LEMMA FlattenPrefixes ==
  ASSUME NEW T, NEW seqs \in Seq(Seq(T))
  PROVE  \E f \in [0..Len(seqs) -> Seq(T)] :
           f[0] = <<>> /\ Accumulates(f, seqs) /\ FlattenSeq(seqs) = f[Len(seqs)]
<1>0. PICK n \in Nat : n = Len(seqs)
  OBVIOUS
<1>1. \A i \in 1..n : seqs[i] \in Seq(T)
  BY <1>0
<1>2. CASE n = 0
  <2>1. seqs = <<>>
    BY <1>0, <1>2, EmptySeq
  <2>2. FlattenSeq(seqs) = <<>>
    BY <1>0, <1>2, <2>1 DEF FlattenSeq
  <2> DEFINE f == [i \in 0..n |-> <<>>]
  <2>3. f \in [0..n -> Seq(T)] /\ f[0] = <<>> /\ f[n] = <<>>
    BY <1>2
  <2>4. Accumulates(f, seqs)
    BY <1>0, <1>2 DEF Accumulates
  <2> HIDE DEF f
  <2> QED BY <1>0, <1>2, <2>2, <2>3, <2>4
<1>3. CASE n # 0
  <2> DEFINE g == CHOOSE f : f = [i \in 1..Len(seqs) |-> IF i = 1 THEN seqs[i]
                                                ELSE f[i - 1] \o seqs[i]]
  <2>1. g = [i \in 1..Len(seqs) |-> IF i = 1 THEN seqs[i] ELSE g[i - 1] \o seqs[i]]
    BY <1>0, FlattenDefined
  <2>2. FlattenSeq(seqs) = g[n]
    BY <1>0, <1>3 DEF FlattenSeq
  <2> HIDE DEF g
  <2>3. \A i \in 1..n : g[i] = IF i = 1 THEN seqs[i] ELSE g[i - 1] \o seqs[i]
    <3> DEFINE h == [i \in 1..n |-> IF i = 1 THEN seqs[i] ELSE g[i - 1] \o seqs[i]]
    <3>1. g = h
      BY <1>0, <2>1
    <3>2. \A i \in 1..n : h[i] = IF i = 1 THEN seqs[i] ELSE g[i - 1] \o seqs[i]
      OBVIOUS
    <3> HIDE DEF h
    <3> QED BY <3>1, <3>2
  <2> DEFINE f == [i \in 0..n |-> IF i = 0 THEN <<>> ELSE g[i]]
  <2>4. f[0] = <<>> /\ (\A i \in 1..n : f[i] = g[i]) /\ DOMAIN f = 0..n
    OBVIOUS
  <2>5. f = [i \in 0..n |-> f[i]]
    OBVIOUS
  <2> HIDE DEF f
  <2> DEFINE S == {i \in 0..n : f[i] \in Seq(T)}
  <2>6. ASSUME NEW k \in 0..n - 1, f[k] \in Seq(T)
        PROVE  f[k + 1] = f[k] \o seqs[k + 1] /\ f[k + 1] \in Seq(T)
    <3>1. k + 1 \in 1..n /\ seqs[k + 1] \in Seq(T)
      BY <1>1
    <3>2. f[k + 1] = IF k + 1 = 1 THEN seqs[k + 1] ELSE g[k] \o seqs[k + 1]
      <4>1. (k + 1) - 1 = k
        OBVIOUS
      <4> QED BY <2>3, <2>4, <3>1, <4>1
    <3>3. f[k + 1] = f[k] \o seqs[k + 1]
      <4>1. CASE k = 0
        <5>1. f[k] = <<>> /\ f[k + 1] = seqs[k + 1]
          BY <2>4, <3>2, <4>1
        <5> QED BY <3>1, <5>1, ConcatEmptySeq
      <4>2. CASE k # 0
        <5>1. k \in 1..n /\ k + 1 # 1
          BY <4>2
        <5> QED BY <2>4, <3>2, <5>1
      <4> QED BY <4>1, <4>2
    <3> QED BY <2>6, <3>1, <3>3, ConcatProperties
  <2>7. 0..n \subseteq S
    <3>1. 0 \in S
      <4>1. <<>> \in Seq(T) /\ 0 \in 0..n
        OBVIOUS
      <4> QED BY <2>4, <4>1, Zenon
    <3>2. ASSUME NEW k \in 0..n - 1, k \in S PROVE k + 1 \in S
      <4>1. k + 1 \in 0..n
        OBVIOUS
      <4>2. f[k + 1] \in Seq(T)
        BY <2>6, <3>2
      <4> QED BY <4>1, <4>2
    <3> HIDE DEF S
    <3> QED BY <3>1, <3>2, BoundedInduction
  <2>8. f \in [0..n -> Seq(T)]
    <3>1. \A i \in 0..n : f[i] \in Seq(T)
      BY <2>7
    <3> QED BY <2>5, <3>1
  <2>9. Accumulates(f, seqs)
    <3> SUFFICES ASSUME NEW i \in 1..n PROVE f[i] = f[i - 1] \o seqs[i]
      BY <1>0 DEF Accumulates
    <3>1. i - 1 \in 0..n - 1 /\ (i - 1) + 1 = i
      OBVIOUS
    <3>2. f[i - 1] \in Seq(T)
      BY <2>7, <3>1
    <3> QED BY <2>6, <3>1, <3>2
  <2>10. FlattenSeq(seqs) = f[n]
    BY <1>3, <2>2, <2>4
  <2> QED BY <1>0, <2>4, <2>8, <2>9, <2>10
<1> QED BY <1>2, <1>3

LEMMA FlattenType ==
  ASSUME NEW T, NEW seqs \in Seq(Seq(T))
  PROVE  FlattenSeq(seqs) \in Seq(T)
<1>1. Len(seqs) \in Nat
  OBVIOUS
<1>2. PICK f \in [0..Len(seqs) -> Seq(T)] : FlattenSeq(seqs) = f[Len(seqs)]
  BY FlattenPrefixes
<1> QED BY <1>1, <1>2

LEMMA FlattenEmpty == FlattenSeq(<<>>) = <<>>
BY DEF FlattenSeq

LEMMA FlattenHead ==
  ASSUME NEW T, NEW seqs \in Seq(Seq(T)), seqs # <<>>
  PROVE  FlattenSeq(seqs) = Head(seqs) \o FlattenSeq(Tail(seqs))
<1> DEFINE rest == Tail(seqs)
<1>0. PICK n \in Nat : n = Len(seqs)
  OBVIOUS
<1>1. n > 0 /\ \A i \in 1..n : seqs[i] \in Seq(T)
  BY <1>0
<1>2. /\ rest \in Seq(Seq(T)) /\ Len(rest) = n - 1 /\ Head(seqs) = seqs[1]
      /\ \A i \in 1..n - 1 : rest[i] = seqs[i + 1]
  BY <1>0, HeadTailProperties
<1>3. PICK f \in [0..n -> Seq(T)] :
        f[0] = <<>> /\ Accumulates(f, seqs) /\ FlattenSeq(seqs) = f[n]
  BY <1>0, FlattenPrefixes
<1> HIDE DEF rest
<1>4. PICK g \in [0..n - 1 -> Seq(T)] :
        g[0] = <<>> /\ Accumulates(g, rest) /\ FlattenSeq(rest) = g[n - 1]
  <2>1. \E g \in [0..Len(rest) -> Seq(T)] :
          g[0] = <<>> /\ Accumulates(g, rest) /\ FlattenSeq(rest) = g[Len(rest)]
    BY <1>2, FlattenPrefixes
  <2> QED BY <1>2, <2>1
<1>5. \A k \in 0..n : f[k] \in Seq(T)
  BY <1>3
<1>6. \A k \in 0..n - 1 : g[k] \in Seq(T)
  BY <1>4
<1>7. ASSUME NEW k \in 1..n PROVE f[k] = f[k - 1] \o seqs[k]
  BY <1>0, <1>3 DEF Accumulates
<1>8. ASSUME NEW k \in 1..n - 1 PROVE g[k] = g[k - 1] \o seqs[k + 1]
  <2>1. g[k] = g[k - 1] \o rest[k]
    BY <1>2, <1>4 DEF Accumulates
  <2> QED BY <1>2, <2>1
<1> DEFINE S == {k \in 0..n - 1 : f[k + 1] = seqs[1] \o g[k]}
<1>9. 0 \in S
  <2>1. 1 \in 1..n /\ 0 \in 0..n - 1 /\ seqs[1] \in Seq(T)
    BY <1>1
  <2>2. f[1] = <<>> \o seqs[1]
    <3>1. 1 - 1 = 0
      OBVIOUS
    <3>2. f[1] = f[1 - 1] \o seqs[1]
      BY <1>7, <2>1
    <3> QED BY <1>3, <3>1, <3>2
  <2>3. f[1] = seqs[1] /\ seqs[1] \o <<>> = seqs[1]
    BY <2>1, <2>2, ConcatEmptySeq
  <2>4. f[0 + 1] = seqs[1] \o g[0]
    BY <1>4, <2>3
  <2> QED BY <2>1, <2>4
<1>10. ASSUME NEW k \in 0..(n - 1) - 1, k \in S PROVE k + 1 \in S
  <2>1. f[k + 2] = f[k + 1] \o seqs[k + 2]
    <3>1. k + 2 \in 1..n /\ (k + 2) - 1 = k + 1
      OBVIOUS
    <3> QED BY <1>7, <3>1
  <2>2. g[k + 1] = g[k] \o seqs[k + 2]
    <3>1. k + 1 \in 1..n - 1 /\ (k + 1) - 1 = k /\ (k + 1) + 1 = k + 2
      OBVIOUS
    <3> QED BY <1>8, <3>1
  <2>3. f[k + 1] = seqs[1] \o g[k]
    BY <1>10
  <2>4. seqs[1] \in Seq(T) /\ g[k] \in Seq(T) /\ seqs[k + 2] \in Seq(T)
    BY <1>1, <1>6
  <2>5. (seqs[1] \o g[k]) \o seqs[k + 2] = seqs[1] \o (g[k] \o seqs[k + 2])
    <3>1. Associates(seqs[1], g[k], seqs[k + 2])
      BY <2>4, ConcatAssociates, Zenon
    <3> QED BY <3>1, Zenon DEF Associates
  <2>6. f[k + 2] = seqs[1] \o g[k + 1]
    BY <2>1, <2>2, <2>3, <2>5, Zenon
  <2>7. (k + 1) + 1 = k + 2 /\ k + 1 \in 0..n - 1
    OBVIOUS
  <2> QED BY <2>6, <2>7
<1>11. 0..n - 1 \subseteq S
  <2>1. n - 1 \in Nat
    BY <1>1
  <2> HIDE DEF S
  <2> QED BY <2>1, <1>9, <1>10, BoundedInduction
<1>12. f[n] = seqs[1] \o g[n - 1]
  <2>1. n - 1 \in 0..n - 1 /\ (n - 1) + 1 = n
    BY <1>1
  <2>2. n - 1 \in S
    BY <1>11, <2>1, Zenon
  <2>3. f[(n - 1) + 1] = seqs[1] \o g[n - 1]
    BY <2>2, Zenon
  <2> QED BY <2>1, <2>3
<1> QED BY <1>2, <1>3, <1>4, <1>12 DEF rest

-----------------------------------------------------------------------------
(***************************************************************************)
(* What remains of a concatenation from the k-th part on, with t after it. *)
(***************************************************************************)
From(seqs, k, t) == FlattenSeq(SubSeq(seqs, k, Len(seqs))) \o t

LEMMA FromType ==
  ASSUME NEW T, NEW seqs \in Seq(Seq(T)), NEW t \in Seq(T), NEW k \in Nat \ {0}
  PROVE  From(seqs, k, t) \in Seq(T)
<1>1. SubSeq(seqs, k, Len(seqs)) \in Seq(Seq(T))
  <2>1. k \in Int /\ Len(seqs) \in Int /\ \A i \in k..Len(seqs) : seqs[i] \in Seq(T)
    OBVIOUS
  <2> QED BY <2>1, SubSeqProperties
<1>2. FlattenSeq(SubSeq(seqs, k, Len(seqs))) \in Seq(T)
  BY <1>1, FlattenType
<1> QED BY <1>2, ConcatProperties DEF From

LEMMA FromFirst ==
  ASSUME NEW T, NEW seqs \in Seq(Seq(T)), NEW t
  PROVE  From(seqs, 1, t) = FlattenSeq(seqs) \o t
BY SubSeqFull DEF From

LEMMA FromEnd ==
  ASSUME NEW T, NEW seqs \in Seq(Seq(T)), NEW t \in Seq(T)
  PROVE  From(seqs, Len(seqs) + 1, t) = t
<1>1. SubSeq(seqs, Len(seqs) + 1, Len(seqs)) = <<>>
  <2>1. Len(seqs) \in Nat
    OBVIOUS
  <2>2. Len(seqs) + 1 \in Int /\ Len(seqs) \in Int /\ Len(seqs) < Len(seqs) + 1
    BY <2>1
  <2> QED BY <2>2, SubSeqEmpty
<1> QED BY <1>1, FlattenEmpty, ConcatEmptySeq DEF From

LEMMA FromNext ==
  ASSUME NEW T, NEW seqs \in Seq(Seq(T)), NEW t \in Seq(T), NEW k \in 1..Len(seqs)
  PROVE  From(seqs, k, t) = seqs[k] \o From(seqs, k + 1, t)
<1> DEFINE rest == SubSeq(seqs, k, Len(seqs))
           next == SubSeq(seqs, k + 1, Len(seqs))
<1>0. k \in Nat /\ Len(seqs) \in k..Len(seqs) /\ seqs[k] \in Seq(T)
  OBVIOUS
<1>1. \A i \in k..Len(seqs) : seqs[i] \in Seq(T)
  BY <1>0
<1>2. rest \in Seq(Seq(T)) /\ Len(rest) # 0
  BY <1>0, <1>1, SubSeqProperties
<1>3. next \in Seq(Seq(T))
  <2>1. \A i \in k + 1..Len(seqs) : seqs[i] \in Seq(T)
    BY <1>0
  <2> QED BY <1>0, <2>1, SubSeqProperties
<1>4. Head(rest) = seqs[k] /\ Tail(rest) = next
  BY <1>0, HeadTailOfSubSeq
<1>5. From(seqs, k, t) = FlattenSeq(rest) \o t /\ From(seqs, k + 1, t) = FlattenSeq(next) \o t
  BY DEF From
<1> HIDE DEF rest, next
<1>6. rest # <<>>
  BY <1>2, EmptySeq
<1>7. FlattenSeq(rest) = seqs[k] \o FlattenSeq(next)
  BY <1>2, <1>4, <1>6, FlattenHead
<1>8. FlattenSeq(next) \in Seq(T)
  BY <1>3, FlattenType
<1>9. Associates(seqs[k], FlattenSeq(next), t)
  BY <1>0, <1>8, ConcatAssociates
<1> QED BY <1>5, <1>7, <1>9, Zenon DEF Associates

LEMMA FunctionIsSeq ==
  ASSUME NEW T, NEW n \in Nat, NEW f \in [1..n -> T]
  PROVE  f \in Seq(T) /\ Len(f) = n
<1>1. f \in Seq(T)
  BY SeqDef
<1> QED BY <1>1

(***************************************************************************)
(* Sequences that begin with given elements.                               *)
(***************************************************************************)
LEMMA ConsProperties ==
  ASSUME NEW T, NEW s \in Seq(T), NEW x \in T
  PROVE  /\ Cons(x, s) \in Seq(T)
         /\ Head(Cons(x, s)) = x /\ Tail(Cons(x, s)) = s
<1>1. <<x>> \in Seq(T) /\ Len(<<x>>) = 1 /\ <<x>>[1] = x
  OBVIOUS
<1>2. /\ Cons(x, s) \in Seq(T) /\ Len(Cons(x, s)) = Len(s) + 1
      /\ \A i \in 1..Len(s) + 1 :
           Cons(x, s)[i] = IF i <= 1 THEN <<x>>[i] ELSE s[i - 1]
  <2>1. Len(s) \in Nat
    OBVIOUS
  <2>2. 1 + Len(s) = Len(s) + 1
    BY <2>1
  <2> QED BY <1>1, <2>2, ConcatProperties DEF Cons
<1>3. Len(s) \in Nat
  OBVIOUS
<1> DEFINE u == Cons(x, s)
<1> HIDE DEF u
<1>4. u \in Seq(T) /\ Len(u) = Len(s) + 1 /\ u[1] = x
      /\ \A i \in 1..Len(s) : u[i + 1] = s[i]
  BY <1>1, <1>2, <1>3 DEF u
<1>5. u # <<>>
  BY <1>3, <1>4, EmptySeq
<1>6. /\ Tail(u) \in Seq(T) /\ Len(Tail(u)) = Len(u) - 1
      /\ \A i \in 1..Len(Tail(u)) : Tail(u)[i] = u[i + 1]
  BY <1>4, <1>5, HeadTailProperties
<1>7. Tail(u) = s
  <2>1. Len(Tail(u)) = Len(s) /\ \A i \in 1..Len(Tail(u)) : Tail(u)[i] = s[i]
    BY <1>3, <1>4, <1>6
  <2> QED BY <1>6, <2>1, SeqEqual
<1>8. Head(u) = x
  BY <1>4, <1>5
<1> QED BY <1>2, <1>7, <1>8 DEF u

LEMMA ConcatTwo ==
  ASSUME NEW T, NEW x \in T, NEW y \in T, NEW t \in Seq(T)
  PROVE  <<x, y>> \o t = Cons(x, Cons(y, t))
<1>1. <<x>> \in Seq(T) /\ <<y>> \in Seq(T) /\ <<x>> \o <<y>> = <<x, y>>
  <2> DEFINE s == <<x>> \o <<y>>
             u == <<x, y>>
  <2>1. /\ <<x>> \in Seq(T) /\ Len(<<x>>) = 1 /\ <<x>>[1] = x
        /\ <<y>> \in Seq(T) /\ Len(<<y>>) = 1 /\ <<y>>[1] = y
    OBVIOUS
  <2>2. /\ s \in Seq(T) /\ Len(s) = 1 + 1
        /\ \A i \in 1..1 + 1 : s[i] = IF i <= 1 THEN <<x>>[i] ELSE <<y>>[i - 1]
    BY <2>1, ConcatProperties
  <2>3. u \in Seq(T) /\ Len(u) = 2 /\ u[1] = x /\ u[2] = y
    OBVIOUS
  <2> HIDE DEF s, u
  <2>4. Len(s) = Len(u) /\ \A i \in 1..Len(s) : s[i] = u[i]
    BY <2>1, <2>2, <2>3
  <2>5. s = u
    BY <2>2, <2>3, <2>4, SeqEqual
  <2> QED BY <2>1, <2>5 DEF s, u
<1>2. Associates(<<x>>, <<y>>, t)
  BY <1>1, ConcatAssociates
<1> QED BY <1>1, <1>2, Zenon DEF Associates, Cons

LEMMA ConcatThree ==
  ASSUME NEW T, NEW x \in T, NEW y \in T, NEW z \in T, NEW t \in Seq(T)
  PROVE  <<x, y, z>> \o t = Cons(x, Cons(y, Cons(z, t)))
<1>1. <<x, y>> \in Seq(T) /\ <<z>> \in Seq(T) /\ <<x, y>> \o <<z>> = <<x, y, z>>
  <2> DEFINE s == <<x, y>> \o <<z>>
             u == <<x, y, z>>
  <2>1. /\ <<x, y>> \in Seq(T) /\ Len(<<x, y>>) = 2
        /\ <<x, y>>[1] = x /\ <<x, y>>[2] = y
        /\ <<z>> \in Seq(T) /\ Len(<<z>>) = 1 /\ <<z>>[1] = z
    OBVIOUS
  <2>2. /\ s \in Seq(T) /\ Len(s) = 2 + 1
        /\ \A i \in 1..2 + 1 : s[i] = IF i <= 2 THEN <<x, y>>[i] ELSE <<z>>[i - 2]
    BY <2>1, ConcatProperties
  <2>3. u \in Seq(T) /\ Len(u) = 3 /\ u[1] = x /\ u[2] = y /\ u[3] = z
    OBVIOUS
  <2> HIDE DEF s, u
  <2>4. Len(s) = Len(u) /\ \A i \in 1..Len(s) : s[i] = u[i]
    BY <2>1, <2>2, <2>3
  <2>5. s = u
    BY <2>2, <2>3, <2>4, SeqEqual
  <2> QED BY <2>1, <2>5 DEF s, u
<1>2. Associates(<<x, y>>, <<z>>, t)
  BY <1>1, ConcatAssociates
<1> DEFINE u == <<z>> \o t
<1>3. u \in Seq(T)
  BY <1>1, ConcatProperties
<1>4. <<x, y>> \o u = Cons(x, Cons(y, u))
  <2> HIDE DEF u
  <2> QED BY <1>3, ConcatTwo
<1> QED BY <1>1, <1>2, <1>4, Zenon DEF Associates, Cons

-----------------------------------------------------------------------------
(***************************************************************************)
(* The concatenation of sequences with one element or none has an element  *)
(* for each that has one, and the elements in order where all of them do.  *)
(***************************************************************************)
LEMMA FlattenOptional ==
  ASSUME NEW T, NEW seqs \in Seq(Seq(T)), \A i \in 1..Len(seqs) : Len(seqs[i]) \in 0..1
  PROVE  Len(FlattenSeq(seqs)) = Cardinality({i \in 1..Len(seqs) : Len(seqs[i]) = 1})
<1> DEFINE Full(k) == {i \in 1..k : Len(seqs[i]) = 1}
<1>0. PICK n \in Nat : n = Len(seqs)
  OBVIOUS
<1>1. PICK f \in [0..n -> Seq(T)] :
        f[0] = <<>> /\ Accumulates(f, seqs) /\ FlattenSeq(seqs) = f[n]
  BY <1>0, FlattenPrefixes
<1> DEFINE S == {k \in 0..n : Len(f[k]) = Cardinality(Full(k))}
<1>2. 0 \in S
  <2>1. Full(0) = {}
    OBVIOUS
  <2>2. Len(f[0]) = 0 /\ 0 \in 0..n
    BY <1>1
  <2>3. Len(f[0]) = Cardinality(Full(0))
    BY <2>1, <2>2, FS_EmptySet
  <2> QED BY <2>2, <2>3
<1>3. ASSUME NEW k \in 0..n - 1, k \in S PROVE k + 1 \in S
  <2>1. k + 1 \in 1..n /\ k + 1 \in 0..n /\ (k + 1) - 1 = k /\ k \in 0..n
    OBVIOUS
  <2>2. f[k + 1] = f[k] \o seqs[k + 1]
    BY <1>0, <1>1, <2>1 DEF Accumulates
  <2>3. Len(f[k + 1]) = Len(f[k]) + Len(seqs[k + 1])
    <3>1. f[k] \in Seq(T)
      BY <1>1, <2>1, Zenon
    <3>2. seqs[k + 1] \in Seq(T)
      BY <1>0, <2>1
    <3> QED BY <2>2, <3>1, <3>2, ConcatProperties
  <2>4. Len(seqs[k + 1]) \in 0..1
    BY <1>0, <2>1
  <2>5. IsFiniteSet(Full(k)) /\ Cardinality(Full(k)) \in Nat
    <3>1. IsFiniteSet(1..k)
      BY FS_Interval
    <3>2. Full(k) \in SUBSET (1..k)
      OBVIOUS
    <3> HIDE DEF Full
    <3> QED BY <3>1, <3>2, FS_Subset, FS_CardinalityType
  <2>6. k + 1 \notin Full(k)
    OBVIOUS
  <2>7. Full(k + 1) = IF Len(seqs[k + 1]) = 1 THEN Full(k) \cup {k + 1} ELSE Full(k)
    <3>1. \A i : i \in 1..k + 1 <=> i \in 1..k \/ i = k + 1
      OBVIOUS
    <3> QED BY <3>1, Zenon
  <2>8. Len(f[k]) = Cardinality(Full(k))
    BY <1>3
  <2> HIDE DEF Full
  <2>9. Len(f[k + 1]) = Cardinality(Full(k + 1))
    <3>1. CASE Len(seqs[k + 1]) = 1
      <4>1. Cardinality(Full(k) \cup {k + 1}) = Cardinality(Full(k)) + 1
        BY <2>5, <2>6, FS_AddElement
      <4>2. Full(k + 1) = Full(k) \cup {k + 1}
        BY <2>7, <3>1, Zenon
      <4> QED BY <2>3, <2>8, <3>1, <4>1, <4>2, Zenon
    <3>2. CASE Len(seqs[k + 1]) = 0
      <4>1. Full(k + 1) = Full(k)
        BY <2>7, <3>2
      <4>2. Cardinality(Full(k)) + 0 = Cardinality(Full(k))
        BY <2>5
      <4> QED BY <2>3, <2>8, <3>2, <4>1, <4>2, Zenon
    <3> QED BY <2>4, <3>1, <3>2
  <2> QED BY <2>1, <2>9
<1>4. n \in S
  <2>1. n \in 0..n
    OBVIOUS
  <2> HIDE DEF S
  <2>2. 0..n \subseteq S
    BY <1>2, <1>3, BoundedInduction
  <2> QED BY <2>1, <2>2, Zenon
<1>5. Len(f[n]) = Cardinality(Full(n))
  BY <1>4
<1> QED BY <1>0, <1>1, <1>5

LEMMA ConcatSingle ==
  ASSUME NEW T, NEW s \in Seq(T), NEW u \in Seq(T), Len(u) = 1
  PROVE  /\ Len(s \o u) = Len(s) + 1 /\ (s \o u)[Len(s) + 1] = u[1]
         /\ \A i \in 1..Len(s) : (s \o u)[i] = s[i]
<1>1. /\ Len(s \o u) = Len(s) + 1
      /\ \A i \in 1..Len(s) + 1 : (s \o u)[i] = IF i <= Len(s) THEN s[i] ELSE u[i - Len(s)]
  <2>1. /\ Len(s \o u) = Len(s) + Len(u)
        /\ \A i \in 1..Len(s) + Len(u) :
             (s \o u)[i] = IF i <= Len(s) THEN s[i] ELSE u[i - Len(s)]
    BY ConcatProperties, Zenon
  <2> QED BY <2>1, Zenon
<1>2. Len(s) \in Nat /\ ~(Len(s) + 1 <= Len(s)) /\ (Len(s) + 1) - Len(s) = 1
  OBVIOUS
<1> QED BY <1>1, <1>2

LEMMA FlattenSingles ==
  ASSUME NEW T, NEW seqs \in Seq(Seq(T)), \A i \in 1..Len(seqs) : Len(seqs[i]) = 1
  PROVE  /\ Len(FlattenSeq(seqs)) = Len(seqs)
         /\ \A i \in 1..Len(seqs) : FlattenSeq(seqs)[i] = seqs[i][1]
<1>0. PICK n \in Nat : n = Len(seqs)
  OBVIOUS
<1>1. PICK f \in [0..n -> Seq(T)] :
        f[0] = <<>> /\ Accumulates(f, seqs) /\ FlattenSeq(seqs) = f[n]
  BY <1>0, FlattenPrefixes
<1> DEFINE S == {k \in 0..n : /\ Len(f[k]) = k
                             /\ \A i \in 1..k : f[k][i] = seqs[i][1]}
<1>2. 0 \in S
  <2>1. Len(f[0]) = 0 /\ 0 \in 0..n
    BY <1>1
  <2> QED BY <2>1
<1>3. ASSUME NEW k \in 0..n - 1, k \in S PROVE k + 1 \in S
  <2>1. k + 1 \in 1..n /\ k + 1 \in 0..n /\ (k + 1) - 1 = k /\ k \in 0..n
    OBVIOUS
  <2>2. f[k + 1] = f[k] \o seqs[k + 1]
    BY <1>0, <1>1, <2>1 DEF Accumulates
  <2>3. f[k] \in Seq(T) /\ seqs[k + 1] \in Seq(T)
    BY <1>0, <1>1, <2>1
  <2>4. Len(f[k]) = k /\ \A i \in 1..k : f[k][i] = seqs[i][1]
    BY <1>3
  <2>5. Len(seqs[k + 1]) = 1
    BY <1>0, <2>1
  <2> DEFINE s == f[k]
             u == seqs[k + 1]
  <2>6. /\ Len(s \o u) = Len(s) + 1 /\ (s \o u)[Len(s) + 1] = u[1]
        /\ \A i \in 1..Len(s) : (s \o u)[i] = s[i]
    <3>1. s \in Seq(T) /\ u \in Seq(T) /\ Len(u) = 1
      BY <2>3, <2>5
    <3> HIDE DEF s, u
    <3> QED BY <3>1, ConcatSingle
  <2>7. f[k + 1] = s \o u /\ Len(s) = k /\ \A i \in 1..k : s[i] = seqs[i][1]
    BY <2>2, <2>4
  <2> HIDE DEF s
  <2>8. ASSUME NEW i \in 1..k + 1 PROVE f[k + 1][i] = seqs[i][1]
    <3>1. CASE i = k + 1
      BY <2>6, <2>7, <3>1, Zenon
    <3>2. CASE i # k + 1
      <4>1. i \in 1..k
        BY <3>2
      <4> QED BY <2>6, <2>7, <4>1, Zenon
    <3> QED BY <3>1, <3>2
  <2>9. Len(f[k + 1]) = k + 1
    BY <2>6, <2>7, Zenon
  <2> QED BY <2>1, <2>8, <2>9
<1>4. n \in S
  <2>1. n \in 0..n
    OBVIOUS
  <2> HIDE DEF S
  <2>2. 0..n \subseteq S
    BY <1>2, <1>3, BoundedInduction
  <2> QED BY <2>1, <2>2, Zenon
<1> QED BY <1>0, <1>1, <1>4

(***************************************************************************)
(* Multiples, and what bounds them.                                        *)
(***************************************************************************)
LEMMA MultipleMod ==
  ASSUME NEW a \in Int, NEW b \in Nat \ {0}
  PROVE  a % b = 0 <=> \E q \in Int : a = q * b
<1>1. a = b * (a \div b) + (a % b) /\ a % b \in 0..b - 1 /\ a \div b \in Int
  OBVIOUS
<1>2. ASSUME a % b = 0 PROVE \E q \in Int : a = q * b
  BY <1>1, <1>2
<1>3. ASSUME NEW q \in Int, a = q * b PROVE a % b = 0
  <2> DEFINE d == q - (a \div b)
  <2>1. d \in Int /\ a % b = d * b
    BY <1>1, <1>3
  <2> HIDE DEF d
  <2>2. d >= 1 => d * b >= b
    BY <2>1
  <2>3. d <= -1 => d * b <= -b
    BY <2>1
  <2>4. d = 0
    BY <1>1, <2>1, <2>2, <2>3
  <2> QED BY <2>1, <2>4
<1> QED BY <1>2, <1>3

LEMMA MultipleBound ==
  ASSUME NEW q \in Int, NEW b \in Nat \ {0}, NEW m \in Nat,
         -(m * b) <= q * b, q * b <= m * b
  PROVE  q \in -m..m
<1>1. ASSUME q >= m + 1 PROVE FALSE
  <2>1. (q - m) * b >= b
    BY <1>1
  <2>2. (q - m) * b = q * b - m * b
    OBVIOUS
  <2> QED BY <2>1, <2>2
<1>2. ASSUME -q >= m + 1 PROVE FALSE
  <2>1. (-q - m) * b >= b
    BY <1>2
  <2>2. (-q - m) * b = -(q * b) - m * b
    OBVIOUS
  <2> QED BY <2>1, <2>2
<1> QED BY <1>1, <1>2

(***************************************************************************)
(* Two functions that begin alike and go on alike.                         *)
(***************************************************************************)
GoAlike(f, g, n) == f[0] = g[0] /\ \A k \in 1..n : f[k - 1] = g[k - 1] => f[k] = g[k]
AreAlike(f, g, n) == \A k \in 0..n : f[k] = g[k]

LEMMA AgreeAll ==
  ASSUME NEW n \in Nat, NEW f, NEW g, GoAlike(f, g, n)
  PROVE  AreAlike(f, g, n)
<1> USE DEF GoAlike, AreAlike
<1> DEFINE S == {k \in 0..n : f[k] = g[k]}
<1>1. 0 \in S
  OBVIOUS
<1>2. ASSUME NEW k \in 0..n - 1, k \in S PROVE k + 1 \in S
  <2>1. k + 1 \in 1..n /\ k + 1 \in 0..n /\ (k + 1) - 1 = k
    OBVIOUS
  <2>2. f[k] = g[k]
    BY <1>2
  <2>3. f[k + 1] = g[k + 1]
    BY <2>1, <2>2
  <2> QED BY <2>1, <2>3
<1>3. 0..n \subseteq S
  <2> HIDE DEF S
  <2> QED BY <1>1, <1>2, BoundedInduction
<1> QED BY <1>3

(***************************************************************************)
(* Where the sequences of a concatenation are found in it: off[k] is where *)
(* the k-th of them ends.                                                  *)
(***************************************************************************)
Places(off, seqs, words) ==
  /\ off \in [0..Len(seqs) -> Nat]
  /\ off[0] = 0 /\ off[Len(seqs)] = Len(words)
  /\ \A k \in 1..Len(seqs) :
       /\ off[k] = off[k - 1] + Len(seqs[k])
       /\ off[k] <= Len(words)
       /\ \A j \in 1..Len(seqs[k]) : words[off[k - 1] + j] = seqs[k][j]

\* words has the elements of s and behind them those of u.
Joined(words, s, u) ==
  /\ Len(words) = Len(s) + Len(u)
  /\ \A i \in 1..Len(s) : words[i] = s[i]
  /\ \A i \in 1..Len(u) : words[Len(s) + i] = u[i]

LEMMA ConcatElements ==
  ASSUME NEW T, NEW s \in Seq(T), NEW u \in Seq(T)
  PROVE  s \o u \in Seq(T) /\ Joined(s \o u, s, u)
<1>1. /\ s \o u \in Seq(T) /\ Len(s \o u) = Len(s) + Len(u)
      /\ \A i \in 1..Len(s) + Len(u) :
           (s \o u)[i] = IF i <= Len(s) THEN s[i] ELSE u[i - Len(s)]
  BY ConcatProperties, Zenon
<1>2. Len(s) \in Nat /\ Len(u) \in Nat
  OBVIOUS
<1>3. ASSUME NEW i \in 1..Len(s) PROVE (s \o u)[i] = s[i]
  BY <1>1, <1>2
<1>4. ASSUME NEW i \in 1..Len(u) PROVE (s \o u)[Len(s) + i] = u[i]
  <2>1. Len(s) + i \in 1..Len(s) + Len(u) /\ ~(Len(s) + i <= Len(s))
          /\ (Len(s) + i) - Len(s) = i
    BY <1>2
  <2> QED BY <1>1, <2>1
<1> QED BY <1>1, <1>3, <1>4 DEF Joined

LEMMA FlattenPlaces ==
  ASSUME NEW T, NEW seqs \in Seq(Seq(T))
  PROVE  \E off : Places(off, seqs, FlattenSeq(seqs))
<1>0. PICK n \in Nat : n = Len(seqs)
  OBVIOUS
<1>1. PICK f \in [0..n -> Seq(T)] :
        f[0] = <<>> /\ Accumulates(f, seqs) /\ FlattenSeq(seqs) = f[n]
  BY <1>0, FlattenPrefixes
<1> DEFINE off == [k \in 0..n |-> Len(f[k])]
           Good(m) == \A k \in 1..m :
                        /\ off[k] <= Len(f[m])
                        /\ \A j \in 1..Len(seqs[k]) : f[m][off[k - 1] + j] = seqs[k][j]
           S == {m \in 0..n : Good(m)}
<1>2. off \in [0..n -> Nat] /\ off[0] = 0 /\ \A k \in 0..n : off[k] = Len(f[k])
  <2>1. \A k \in 0..n : Len(f[k]) \in Nat
    BY <1>1
  <2>2. Len(f[0]) = 0
    BY <1>1
  <2> QED BY <2>1, <2>2
<1> HIDE DEF off
<1>3. ASSUME NEW k \in 1..n
      PROVE  /\ k - 1 \in 0..n /\ k \in 0..n
             /\ f[k - 1] \in Seq(T) /\ seqs[k] \in Seq(T)
             /\ f[k] = f[k - 1] \o seqs[k]
             /\ off[k] = off[k - 1] + Len(seqs[k])
  <2>1. k - 1 \in 0..n /\ k \in 0..n
    OBVIOUS
  <2>2. f[k - 1] \in Seq(T) /\ seqs[k] \in Seq(T)
    <3>1. seqs[k] \in Seq(T)
      BY <1>0
    <3>2. f[k - 1] \in Seq(T)
      BY <1>1, <2>1, Zenon
    <3> QED BY <3>1, <3>2
  <2>3. f[k] = f[k - 1] \o seqs[k]
    BY <1>0, <1>1 DEF Accumulates
  <2>4. Len(f[k]) = Len(f[k - 1]) + Len(seqs[k])
    BY <2>2, <2>3, ConcatElements DEF Joined
  <2>5. off[k] = Len(f[k]) /\ off[k - 1] = Len(f[k - 1])
    BY <1>2, <2>1
  <2> QED BY <2>1, <2>2, <2>3, <2>4, <2>5
<1>4. 0 \in S
  OBVIOUS
<1>5. ASSUME NEW m \in 0..n - 1, m \in S PROVE m + 1 \in S
  <2>1. m + 1 \in 1..n /\ (m + 1) - 1 = m /\ m \in 0..n /\ m + 1 \in 0..n
    OBVIOUS
  <2> DEFINE s == f[m]
             u == seqs[m + 1]
  <2>2. /\ s \in Seq(T) /\ u \in Seq(T) /\ f[m + 1] = s \o u
        /\ off[m + 1] = off[m] + Len(u) /\ off[m] = Len(s) /\ off[m + 1] = Len(f[m + 1])
    BY <1>2, <1>3, <2>1
  <2>3. Good(m)
    BY <1>5
  <2>4. \A k \in 1..m :
          /\ off[k] <= Len(s)
          /\ \A j \in 1..Len(seqs[k]) : s[off[k - 1] + j] = seqs[k][j]
    BY <2>3
  <2> HIDE DEF s, u, Good
  <2>5. /\ Len(s) \in Nat /\ Len(u) \in Nat /\ Len(s \o u) = Len(s) + Len(u)
        /\ \A i \in 1..Len(s) : (s \o u)[i] = s[i]
        /\ \A i \in 1..Len(u) : (s \o u)[Len(s) + i] = u[i]
    <3>1. s \in Seq(T) /\ u \in Seq(T)
      BY <2>2
    <3>2. Joined(s \o u, s, u)
      BY <3>1, ConcatElements, Zenon
    <3>3. Len(s) \in Nat /\ Len(u) \in Nat
      BY <3>1
    <3> QED BY <3>2, <3>3, Zenon DEF Joined
  <2>6. ASSUME NEW k \in 1..m + 1
        PROVE  /\ off[k] <= Len(f[m + 1])
               /\ \A j \in 1..Len(seqs[k]) : f[m + 1][off[k - 1] + j] = seqs[k][j]
    <3>1. CASE k = m + 1
      <4>1. seqs[k] = u /\ off[k - 1] = Len(s)
        BY <2>1, <2>2, <3>1 DEF u
      <4>2. off[k] <= Len(f[m + 1])
        BY <2>2, <2>5, <3>1
      <4> QED BY <2>2, <2>5, <4>1, <4>2
    <3>2. CASE k # m + 1
      <4>1. k \in 1..m /\ k \in 1..n /\ k - 1 \in 0..n
        BY <3>2
      <4>2. off[k] <= Len(s) /\ off[k] = off[k - 1] + Len(seqs[k])
        BY <1>3, <2>4, <4>1
      <4>3. off[k - 1] \in Nat /\ Len(seqs[k]) \in Nat
        <5>1. Len(seqs[k]) \in Nat
          <6>1. seqs[k] \in Seq(T)
            BY <1>0, <4>1
          <6> QED BY <6>1
        <5>2. off[k - 1] \in Nat
          BY <1>2, <4>1, Zenon
        <5> QED BY <5>1, <5>2
      <4>4. off[k] <= Len(f[m + 1])
        <5>1. Len(f[m + 1]) = Len(s) + Len(u)
          BY <2>2, <2>5, Zenon
        <5>2. off[k] \in Nat
          BY <4>2, <4>3
        <5> QED BY <2>5, <4>2, <5>1, <5>2
      <4>5. ASSUME NEW j \in 1..Len(seqs[k]) PROVE f[m + 1][off[k - 1] + j] = seqs[k][j]
        <5>1. off[k - 1] + j \in 1..Len(s)
          <6>1. j \in Int /\ 1 <= j /\ j <= Len(seqs[k])
            BY <4>3
          <6>2. off[k - 1] + Len(seqs[k]) <= Len(s) /\ Len(s) \in Nat
            BY <2>5, <4>2
          <6>3. PICK o, v, w : o = off[k - 1] /\ v = Len(seqs[k]) /\ w = Len(s)
            OBVIOUS
          <6>4. /\ o \in Nat /\ v \in Nat /\ w \in Nat /\ o + v <= w
                /\ j \in Int /\ 1 <= j /\ j <= v
            BY <4>3, <6>1, <6>2, <6>3, Zenon
          <6>5. o + j \in 1..w
            BY <6>4
          <6> QED BY <6>3, <6>5, Zenon
        <5>2. s[off[k - 1] + j] = seqs[k][j]
          BY <2>4, <4>1
        <5>3. (s \o u)[off[k - 1] + j] = s[off[k - 1] + j]
          BY <2>5, <5>1
        <5> QED BY <2>2, <5>2, <5>3
      <4> QED BY <4>4, <4>5
    <3> QED BY <3>1, <3>2
  <2>7. Good(m + 1)
    BY <2>6 DEF Good
  <2> QED BY <2>1, <2>7
<1>6. n \in S
  <2>1. n \in 0..n
    OBVIOUS
  <2> HIDE DEF S
  <2>2. 0..n \subseteq S
    BY <1>4, <1>5, BoundedInduction
  <2> QED BY <2>1, <2>2, Zenon
<1>7. Good(n)
  BY <1>6
<1>8. \A k \in 1..n : off[k] = off[k - 1] + Len(seqs[k])
  BY <1>3
<1>9. off[n] = Len(f[n])
  BY <1>2
<1>10. Places(off, seqs, f[n])
  <2>1. \A k \in 1..n :
          /\ off[k] <= Len(f[n])
          /\ \A j \in 1..Len(seqs[k]) : f[n][off[k - 1] + j] = seqs[k][j]
    BY <1>7
  <2> HIDE DEF Good
  <2> QED BY <1>0, <1>2, <1>8, <1>9, <2>1 DEF Places
<1> QED BY <1>1, <1>10, Zenon

(***************************************************************************)
(* One sequence more at the end of a concatenation.                        *)
(***************************************************************************)
LEMMA FlattenAppend ==
  ASSUME NEW T, NEW seqs \in Seq(Seq(T)), NEW s \in Seq(T)
  PROVE  FlattenSeq(Append(seqs, s)) = FlattenSeq(seqs) \o s
<1>0. PICK n \in Nat : n = Len(seqs)
  OBVIOUS
<1> DEFINE all == Append(seqs, s)
<1>1. /\ all \in Seq(Seq(T)) /\ Len(all) = n + 1 /\ all[n + 1] = s
      /\ \A i \in 1..n : all[i] = seqs[i]
  BY <1>0
<1> HIDE DEF all
<1>2. PICK f \in [0..n -> Seq(T)] :
        f[0] = <<>> /\ Accumulates(f, seqs) /\ FlattenSeq(seqs) = f[n]
  BY <1>0, FlattenPrefixes
<1>3. PICK g \in [0..n + 1 -> Seq(T)] :
        g[0] = <<>> /\ Accumulates(g, all) /\ FlattenSeq(all) = g[n + 1]
  <2>1. PICK m \in Nat : m = n + 1
    OBVIOUS
  <2>2. Len(all) = m
    BY <1>1, <2>1
  <2>3. \E g \in [0..m -> Seq(T)] :
          g[0] = <<>> /\ Accumulates(g, all) /\ FlattenSeq(all) = g[m]
    BY <1>1, <2>2, FlattenPrefixes
  <2> QED BY <2>1, <2>3, Zenon
<1>4. ASSUME NEW k \in 1..n, f[k - 1] = g[k - 1] PROVE f[k] = g[k]
  <2>1. f[k] = f[k - 1] \o seqs[k]
    BY <1>0, <1>2 DEF Accumulates
  <2>2. g[k] = g[k - 1] \o all[k]
    <3>1. k \in 1..n + 1
      OBVIOUS
    <3> QED BY <1>1, <1>3, <3>1, Zenon DEF Accumulates
  <2> QED BY <1>1, <1>4, <2>1, <2>2, Zenon
<1>5. \A k \in 0..n : f[k] = g[k]
  <2>1. f[0] = g[0]
    BY <1>2, <1>3
  <2>2. \A k \in 1..n : f[k - 1] = g[k - 1] => f[k] = g[k]
    BY <1>4
  <2>3. GoAlike(f, g, n)
    BY <2>1, <2>2 DEF GoAlike
  <2>4. AreAlike(f, g, n)
    BY <2>3, AgreeAll
  <2> QED BY <2>4 DEF AreAlike
<1>6. f[n] = g[n]
  <2>1. n \in 0..n
    OBVIOUS
  <2> QED BY <1>5, <2>1, Zenon
<1>7. g[n + 1] = g[n] \o all[n + 1]
  <2>1. n + 1 \in 1..n + 1 /\ (n + 1) - 1 = n
    OBVIOUS
  <2>2. g[n + 1] = g[(n + 1) - 1] \o all[n + 1]
    BY <1>1, <1>3, <2>1 DEF Accumulates
  <2> QED BY <2>1, <2>2
<1> QED BY <1>1, <1>2, <1>3, <1>6, <1>7, Zenon DEF all

(***************************************************************************)
(* The parts of a concatenation of two sequences.                          *)
(***************************************************************************)
LEMMA PrefixSuffix ==
  ASSUME NEW T, NEW s \in Seq(T), NEW u \in Seq(T)
  PROVE  /\ SubSeq(s \o u, 1, Len(s)) = s
         /\ SubSeq(s \o u, Len(s) + 1, Len(s \o u)) = u
<1> DEFINE w == s \o u
<1>1. PICK m \in Nat, n \in Nat : m = Len(s) /\ n = Len(u)
  OBVIOUS
<1>2. /\ w \in Seq(T) /\ Len(w) = m + n
      /\ \A i \in 1..m : w[i] = s[i]
      /\ \A i \in 1..n : w[m + i] = u[i]
  <2>1. w \in Seq(T) /\ Joined(w, s, u)
    BY ConcatElements, Zenon
  <2> QED BY <1>1, <2>1, Zenon DEF Joined
<1> HIDE DEF w
<1>3. SubSeq(w, 1, m) = s
  <2>1. Len(SubSeq(w, 1, m)) = m /\ SubSeq(w, 1, m) \in Seq(T)
    BY <1>2, <1>1
  <2>2. \A i \in 1..m : SubSeq(w, 1, m)[i] = s[i]
    BY <1>2, <1>1
  <2> HIDE DEF w
  <2> QED BY <1>1, <2>1, <2>2, SeqEqual
<1>4. SubSeq(w, m + 1, Len(w)) = u
  <2>1. SubSeq(w, m + 1, m + n) \in Seq(T) /\ Len(SubSeq(w, m + 1, m + n)) = n
    BY <1>2, <1>1
  <2>2. \A i \in 1..n : SubSeq(w, m + 1, m + n)[i] = u[i]
    BY <1>2, <1>1
  <2> QED BY <1>1, <1>2, <2>1, <2>2, SeqEqual
<1> QED BY <1>1, <1>3, <1>4 DEF w

(***************************************************************************)
(* Sequences that are read at the front and extended at the end.           *)
(***************************************************************************)
LEMMA SplitAlike ==
  ASSUME NEW T, NEW a \in Seq(T), NEW r \in Seq(T), NEW b \in Seq(T), NEW x \in Seq(T),
         a \o r = b \o x, Len(a) = Len(b)
  PROVE  a = b /\ r = x
<1> DEFINE w == a \o r
           v == b \o x
<1>1. SubSeq(w, 1, Len(a)) = a /\ SubSeq(w, Len(a) + 1, Len(w)) = r
  BY PrefixSuffix, Zenon
<1>2. SubSeq(v, 1, Len(b)) = b /\ SubSeq(v, Len(b) + 1, Len(v)) = x
  BY PrefixSuffix, Zenon
<1>3. w = v
  OBVIOUS
<1> HIDE DEF w, v
<1> QED BY <1>1, <1>2, <1>3

CutBehind(o, a, rest, m, r) ==
  /\ SubSeq(o, 1, Len(a)) = a
  /\ rest = SubSeq(o, Len(a) + 1, Len(o))
  /\ rest \o m = r

LEMMA CutFront ==
  ASSUME NEW T, NEW a \in Seq(T), NEW r \in Seq(T), NEW o \in Seq(T), NEW m \in Seq(T),
         a \o r = o \o m, Len(a) <= Len(o)
  PROVE  \E rest \in Seq(T) : CutBehind(o, a, rest, m, r)
<1>0. PICK k \in Nat, n \in Nat : k = Len(a) /\ n = Len(o) /\ k <= n
  OBVIOUS
<1> DEFINE b == SubSeq(o, 1, k)
           c == SubSeq(o, k + 1, n)
<1>1. b \in Seq(T) /\ Len(b) = k /\ c \in Seq(T)
  BY <1>0
<1>2. b \o c = o
  <2>1. 1 \in 1..n + 1 /\ k \in 0..n /\ n \in k..n
    BY <1>0
  <2>2. SubSeq(o, 1, k) \o SubSeq(o, k + 1, n) = SubSeq(o, 1, n)
    <3>1. 1 \in 1..Len(o) + 1 /\ k \in 1 - 1..Len(o) /\ n \in k..Len(o)
      BY <1>0
    <3> QED BY <3>1, ConcatAdjacentSubSeq, Zenon
  <2>3. SubSeq(o, 1, n) = o
    BY <1>0, SubSeqFull
  <2> QED BY <2>2, <2>3
<1> HIDE DEF b, c
<1>3. Associates(b, c, m)
  BY <1>1, ConcatAssociates
<1>4. a \o r = b \o (c \o m)
  BY <1>2, <1>3, Zenon DEF Associates
<1>5. c \o m \in Seq(T)
  BY <1>1, ConcatElements
<1>6. a = b /\ r = c \o m
  <2>1. Len(a) = Len(b)
    BY <1>0, <1>1
  <2>2. a \o r = b \o (c \o m)
    BY <1>4
  <2> DEFINE x == c \o m
  <2>3. a \o r = b \o x /\ x \in Seq(T)
    BY <1>5, <2>2
  <2> HIDE DEF x
  <2>4. a = b /\ r = x
    BY <1>1, <2>1, <2>3, SplitAlike
  <2> QED BY <2>4 DEF x
<1>7. CutBehind(o, a, c, m, r)
  BY <1>0, <1>6, Zenon DEF b, c, CutBehind
<1> QED BY <1>1, <1>7

LEMMA MoveFirst ==
  ASSUME NEW T, NEW s \in Seq(T), NEW u \in Seq(T), u # <<>>
  PROVE  s \o u = Append(s, u[1]) \o Tail(u)
<1>1. u[1] \in T /\ Tail(u) \in Seq(T) /\ Head(u) = u[1]
  OBVIOUS
<1>2. <<u[1]>> \o Tail(u) = u
  <2>1. 1 \in 1..Len(u) /\ Len(u) \in 1..Len(u)
    OBVIOUS
  <2>2. SubSeq(u, 1, Len(u)) = <<u[1]>> \o SubSeq(u, 1 + 1, Len(u))
    BY <2>1, SubSeqRecursiveFirst
  <2>3. SubSeq(u, 1 + 1, Len(u)) = Tail(u)
    <3>1. 1 + 1 = 2
      OBVIOUS
    <3> QED BY <3>1, TailIsSubSeq
  <2> QED BY <2>2, <2>3, SubSeqFull
<1>3. Append(s, u[1]) = s \o <<u[1]>>
  BY <1>1, AppendIsConcat
<1>4. Associates(s, <<u[1]>>, Tail(u))
  <2>1. <<u[1]>> \in Seq(T)
    BY <1>1
  <2> QED BY <1>1, <2>1, ConcatAssociates
<1> QED BY <1>2, <1>3, <1>4, Zenon DEF Associates

AppendsLast(s, u, x) == Append(s \o u, x) = s \o Append(u, x)

LEMMA AppendConcat ==
  ASSUME NEW T, NEW s \in Seq(T), NEW u \in Seq(T), NEW x \in T
  PROVE  AppendsLast(s, u, x)
<1>1. s \o u \in Seq(T) /\ <<x>> \in Seq(T)
  BY ConcatElements
<1>2. Append(s \o u, x) = (s \o u) \o <<x>> /\ Append(u, x) = u \o <<x>>
  BY <1>1, AppendIsConcat
<1>3. Associates(s, u, <<x>>)
  BY <1>1, ConcatAssociates
<1> QED BY <1>2, <1>3, Zenon DEF Associates, AppendsLast

LEMMA TailConcat ==
  ASSUME NEW T, NEW s \in Seq(T), NEW u \in Seq(T), s # <<>>
  PROVE  Tail(s \o u) = Tail(s) \o u /\ (s \o u)[1] = s[1] /\ s \o u # <<>>
<1> DEFINE w == s \o u
<1>1. w \in Seq(T) /\ Joined(w, s, u)
  BY ConcatElements, Zenon
<1>2. Len(s) >= 1 /\ Len(u) \in Nat
  OBVIOUS
<1>3. s = <<s[1]>> \o Tail(s)
  <2>1. 1 \in 1..Len(s) /\ Len(s) \in 1..Len(s) /\ 1 + 1 = 2
    BY <1>2
  <2>2. SubSeq(s, 1, Len(s)) = <<s[1]>> \o SubSeq(s, 2, Len(s))
    BY <2>1, SubSeqRecursiveFirst
  <2> QED BY <2>2, SubSeqFull, TailIsSubSeq
<1> HIDE DEF w
<1>4. Len(w) >= 1 /\ w[1] = s[1]
  BY <1>1, <1>2 DEF Joined
<1>5. w # <<>>
  BY <1>4
<1>6. w = <<w[1]>> \o Tail(w)
  <2>1. 1 \in 1..Len(w) /\ Len(w) \in 1..Len(w) /\ 1 + 1 = 2
    BY <1>1, <1>4
  <2>2. SubSeq(w, 1, Len(w)) = <<w[1]>> \o SubSeq(w, 2, Len(w))
    BY <1>1, <2>1, SubSeqRecursiveFirst
  <2> QED BY <1>1, <1>5, <2>2, SubSeqFull, TailIsSubSeq
<1>7. Tail(w) = Tail(s) \o u
  <2> DEFINE one == <<s[1]>>
  <2>1. one \in Seq(T) /\ Tail(s) \in Seq(T) /\ Tail(w) \in Seq(T)
    BY <1>1, <1>5
  <2>2. w = one \o Tail(w) /\ s = one \o Tail(s)
    BY <1>3, <1>4, <1>6
  <2> HIDE DEF one
  <2>3. Associates(one, Tail(s), u)
    BY <2>1, ConcatAssociates
  <2>4. w = one \o (Tail(s) \o u)
    BY <2>2, <2>3, Zenon DEF Associates, w
  <2>5. Tail(s) \o u \in Seq(T)
    BY <2>1, ConcatElements
  <2> DEFINE x == Tail(s) \o u
  <2>6. one \o Tail(w) = one \o x /\ x \in Seq(T)
    BY <2>2, <2>4, <2>5
  <2> HIDE DEF x
  <2>7. Tail(w) = x
    BY <2>1, <2>6, SplitAlike
  <2> QED BY <2>7 DEF x
<1> QED BY <1>4, <1>5, <1>7 DEF w
=============================================================================
