---------------------------- MODULE ScribeProofs ----------------------------
(***************************************************************************)
(* What the generator leaves is of one run, and its registry answers as    *)
(* the packages say.                                                       *)
(***************************************************************************)
EXTENDS Scribe, FiniteSetTheorems, WellFoundedInduction, TLAPS

\* Of some numbers one is the least.
LEMMA LeastNumber ==
  ASSUME NEW S \in SUBSET Nat, S # {}
  PROVE  \E m \in S : \A n \in S : m <= n
<1> DEFINE R == OpToRel(<, Nat)
<1>1. IsWellFoundedOn(R, Nat)
  BY NatLessThanWellFounded
<1>2. PICK x \in S : \A y \in S : <<y, x>> \notin R
  <2> HIDE DEF R
  <2>1. QED
    BY <1>1, WFMin
<1>3. \A y \in S : ~(y < x)
  BY <1>2 DEF OpToRel
<1>4. QED
  BY <1>3

LEMMA MinIsLeast ==
  ASSUME NEW S \in SUBSET Nat, S # {}
  PROVE  Min(S) \in S /\ \A n \in S : Min(S) <= n
BY LeastNumber DEF Min

-----------------------------------------------------------------------------
(* Sequences and their elements.                                           *)

In(e, s) == \E k \in DOMAIN s : s[k] = e

LEMMA ElementOf ==
  ASSUME NEW T, NEW s \in Seq(T), NEW k \in DOMAIN s
  PROVE  s[k] \in T
OBVIOUS

LEMMA InConcatenation ==
  ASSUME NEW T, NEW s \in Seq(T), NEW t \in Seq(T), NEW e
  PROVE  In(e, s \o t) <=> In(e, s) \/ In(e, t)
<1>1. /\ Len(s) \in Nat /\ Len(t) \in Nat /\ Len(s \o t) = Len(s) + Len(t)
      /\ DOMAIN s = 1..Len(s) /\ DOMAIN t = 1..Len(t) /\ DOMAIN (s \o t) = 1..(Len(s) + Len(t))
      /\ \A k \in DOMAIN s : (s \o t)[k] = s[k]
      /\ \A k \in DOMAIN t : Len(s) + k \in DOMAIN (s \o t) /\ (s \o t)[Len(s) + k] = t[k]
  OBVIOUS
<1>2. ASSUME In(e, s \o t)  PROVE In(e, s) \/ In(e, t)
  <2>1. PICK k \in DOMAIN (s \o t) : (s \o t)[k] = e
    BY <1>2 DEF In
  <2>2. CASE k \in DOMAIN s
    BY <1>1, <2>1, <2>2 DEF In
  <2>3. CASE k \notin DOMAIN s
    <3>1. k - Len(s) \in DOMAIN t /\ (s \o t)[k] = t[k - Len(s)]
      BY <1>1, <2>3
    <3>2. QED
      BY <2>1, <3>1 DEF In
  <2>4. QED
    BY <2>2, <2>3
<1>3. ASSUME In(e, s)  PROVE In(e, s \o t)
  BY <1>1, <1>3 DEF In
<1>4. ASSUME In(e, t)  PROVE In(e, s \o t)
  <2>1. PICK k \in DOMAIN t : t[k] = e
    BY <1>4 DEF In
  <2>2. QED
    BY <1>1, <2>1 DEF In
<1>5. QED
  BY <1>2, <1>3, <1>4

\* By the least prefix for which it would not hold.
LEMMA Flattened ==
  ASSUME NEW T, NEW ss \in Seq(Seq(T))
  PROVE  /\ FlattenSeq(ss) \in Seq(T)
         /\ \A e : In(e, FlattenSeq(ss)) <=> \E j \in DOMAIN ss : In(e, ss[j])
<1>0. Len(ss) \in Nat /\ DOMAIN ss = 1..Len(ss) /\ \A j \in 1..Len(ss) : ss[j] \in Seq(T)
  OBVIOUS
<1>1. CASE Len(ss) = 0
  <2>1. FlattenSeq(ss) = ss /\ ss = << >>
    BY <1>1 DEF FlattenSeq
  <2>2. QED
    BY <2>1 DEF In
<1>2. CASE Len(ss) # 0
  <2> DEFINE Fl(n, g) == g = [i \in 1..n |-> IF i = 1 THEN ss[i] ELSE g[i-1] \o ss[i]]
             NoFl == {n \in 1..Len(ss) : \A g : ~Fl(n, g)}
  <2>1. \A n \in 1..Len(ss) : \E g : Fl(n, g)
    <3> HIDE DEF Fl
    <3> SUFFICES ASSUME NoFl # {} PROVE FALSE
      OBVIOUS
    <3>1. NoFl \in SUBSET Nat
      BY <1>0
    <3>2. PICK n \in NoFl : \A m \in NoFl : n <= m
      <4> HIDE DEF NoFl
      <4>1. QED
        BY <3>1, LeastNumber
    <3>3. n \in 1..Len(ss) /\ \A g : ~Fl(n, g)
      OBVIOUS
    <3> USE DEF Fl
    <3>4. CASE n = 1
      <4>1. Fl(n, [i \in 1..1 |-> ss[i]])
        BY <3>4
      <4>2. QED
        BY <3>3, <4>1
    <3>5. CASE n # 1
      <4>1. n - 1 \in 1..Len(ss) /\ n - 1 < n
        BY <1>0, <3>3, <3>5
      <4>2. PICK g : Fl(n - 1, g)
        <5> HIDE DEF Fl
        <5>1. n - 1 \notin NoFl
          <6> HIDE DEF NoFl
          <6>1. QED
            BY <1>0, <3>2, <3>3, <4>1
        <5>2. QED
          BY <4>1, <5>1
      <4> DEFINE h == [i \in 1..n |-> IF i \in 1..(n-1) THEN g[i] ELSE g[n-1] \o ss[n]]
      <4>3. ASSUME NEW i \in 1..n
            PROVE  h[i] = IF i = 1 THEN ss[i] ELSE h[i-1] \o ss[i]
        <5>1. CASE i = n
          <6>1. n - 1 \in 1..(n-1) /\ n \notin 1..(n-1) /\ n # 1
            BY <1>0, <3>3, <3>5
          <6>2. h[n] = g[n-1] \o ss[n] /\ h[n-1] = g[n-1]
            BY <1>0, <3>3, <6>1
          <6>3. QED
            BY <5>1, <6>1, <6>2
        <5>2. CASE i # n
          <6>1. i \in 1..(n-1) /\ h[i] = g[i]
            BY <1>0, <3>3, <5>2
          <6>2. g[i] = IF i = 1 THEN ss[i] ELSE g[i-1] \o ss[i]
            BY <4>2, <6>1
          <6>3. i # 1 => h[i-1] = g[i-1]
            BY <1>0, <3>3, <6>1
          <6>4. QED
            BY <6>1, <6>2, <6>3
        <5>3. QED
          BY <5>1, <5>2
      <4>4. Fl(n, h)
        BY <4>3
      <4>5. QED
        BY <3>3, <4>4
    <3>6. QED
      BY <3>4, <3>5
  <2> DEFINE fl == CHOOSE g : Fl(Len(ss), g)
  <2>2. FlattenSeq(ss) = fl[Len(ss)]
    BY <1>2 DEF FlattenSeq
  <2>3. Fl(Len(ss), fl)
    <3>1. Len(ss) \in 1..Len(ss)
      BY <1>0, <1>2
    <3>2. QED
      BY <2>1, <3>1
  <2> HIDE DEF fl
  <2>4. \A i \in 1..Len(ss) : fl[i] = IF i = 1 THEN ss[i] ELSE fl[i-1] \o ss[i]
    BY <2>3
  <2> DEFINE Good(n) == /\ fl[n] \in Seq(T)
                        /\ \A e : In(e, fl[n]) <=> \E j \in 1..n : In(e, ss[j])
             Bad == {n \in 1..Len(ss) : ~Good(n)}
  <2>5. \A n \in 1..Len(ss) : Good(n)
    <3> SUFFICES ASSUME Bad # {} PROVE FALSE
      OBVIOUS
    <3>1. Bad \in SUBSET Nat
      BY <1>0
    <3>2. PICK n \in Bad : \A m \in Bad : n <= m
      <4> HIDE DEF Bad
      <4>1. QED
        BY <3>1, LeastNumber
    <3>3. n \in 1..Len(ss) /\ ~Good(n)
      OBVIOUS
    <3>4. CASE n = 1
      <4>1. fl[n] = ss[n] /\ 1..n = {n}
        BY <2>4, <3>3, <3>4
      <4>2. QED
        BY <1>0, <3>3, <4>1
    <3>5. CASE n # 1
      <4>1. n - 1 \in 1..Len(ss) /\ n - 1 < n
        BY <1>0, <3>3, <3>5
      <4>2. Good(n - 1)
        <5> HIDE DEF Good
        <5>1. n - 1 \notin Bad
          BY <1>0, <3>2, <3>3, <4>1
        <5>2. QED
          BY <4>1, <5>1
      <4>3. fl[n] = fl[n-1] \o ss[n] /\ ss[n] \in Seq(T) /\ fl[n-1] \in Seq(T)
        BY <1>0, <2>4, <3>3, <3>5, <4>2
      <4>4. fl[n] \in Seq(T) /\ \A e : In(e, fl[n]) <=> In(e, fl[n-1]) \/ In(e, ss[n])
        BY <4>3, InConcatenation
      <4>5. 1..n = (1..(n-1)) \cup {n}
        BY <1>0, <3>3
      <4>6. Good(n)
        BY <4>2, <4>4, <4>5
      <4>7. QED
        BY <3>3, <4>6
    <3>6. QED
      BY <3>4, <3>5
  <2>6. Len(ss) \in 1..Len(ss)
    BY <1>0, <1>2
  <2>7. QED
    BY <1>0, <2>2, <2>5, <2>6
<1>3. QED
  BY <1>1, <1>2

LEMMA EnumeratedAll ==
  ASSUME NEW S, IsFiniteSet(S)
  PROVE  SetToSeq(S) \in Seq(S) /\ \A e : In(e, SetToSeq(S)) <=> e \in S
<1> DEFINE n == Cardinality(S)
           s == SetToSeq(S)
<1>1. n \in Nat /\ ExistsBijection(1..n, S)
  BY FS_CardinalityType
<1>2. \E f \in [1..n -> S] : IsInjective(f)
  BY <1>1 DEF ExistsBijection, Bijection, Injection, IsInjective
<1>3. s \in [1..n -> S] /\ IsInjective(s)
  BY <1>2 DEF SetToSeq
<1>4. s \in Surjection(1..n, S)
  <2>1. s \in Injection(1..n, S)
    BY <1>3 DEF Injection
  <2>2. IsFiniteSet(1..n) /\ Cardinality(1..n) = n
    BY <1>1, FS_Interval
  <2>3. QED
    BY <2>1, <2>2, FS_Injection
<1>5. QED
  BY <1>1, <1>3, <1>4 DEF In, Surjection

-----------------------------------------------------------------------------
(* The registry of a plan.                                                 *)

Names == STRING \cup PackageNames
Pair  == Names \X Nat

\* What the analysis makes of a package.
ExportOK(x) ==
  /\ x.pkg \in Packages /\ x.version \in Nat
  /\ x.members \subseteq Declares[x.pkg] /\ IsFiniteSet(x.members)
  /\ x.pairs \in Seq(Pair)
  /\ \E k \in DOMAIN x.pairs : x.pairs[k][1] = Hash[x.pkg]
  /\ \E k \in DOMAIN x.pairs : x.pairs[k][1] = "#" \o Family[x.pkg]

Analyzed == {Exported(config, role, p) : config \in Configs, role \in {"main", "vendor"}, p \in Packages}
PlanOK(generated) == generated.exports \in Seq(Analyzed)

LEMMA CompatOK ==
  ASSUME NEW config \in Configs, NEW p \in Packages
  PROVE  Compat(config, p) \in Seq(STRING \X (0..99))
<1> DEFINE hits == {k \in DOMAIN config.compat : p \in config.compat[k].matches}
<1>1. config.compat \in Seq([matches : SUBSET Packages, versions : Seq(STRING \X (0..99))])
  BY ScribeAssumption
<1>2. CASE hits = {}
  BY <1>2 DEF Compat
<1>3. CASE hits # {}
  <2>1. hits \in SUBSET Nat
    BY <1>1
  <2>2. \E k \in hits : \A l \in hits : k <= l
    <3> HIDE DEF hits
    <3>1. QED
      BY <1>3, <2>1, LeastNumber
  <2>3. \A k \in hits : config.compat[k].versions \in Seq(STRING \X (0..99))
    <3> DEFINE V == Seq(STRING \X (0..99))
               R == [matches : SUBSET Packages, versions : V]
    <3>1. \A k \in DOMAIN config.compat : config.compat[k] \in R
      BY <1>1, ElementOf
    <3> HIDE DEF V
    <3>2. \A k \in hits : config.compat[k].versions \in V
      BY <3>1
    <3>3. QED
      BY <3>2 DEF V
  <2>4. QED
    BY <1>3, <2>2, <2>3 DEF Compat
<1>4. QED
  BY <1>2, <1>3

LEMMA AnalyzedOK ==
  ASSUME NEW x \in Analyzed
  PROVE  ExportOK(x)
<1>1. PICK config \in Configs, role \in {"main", "vendor"}, p \in Packages : x = Exported(config, role, p)
  BY DEF Analyzed
<1>2. /\ config.version \in 0..99 \cup {Unset, Empty} /\ config.only[p] \subseteq Declares[p]
      /\ IsFiniteSet(Declares[p]) /\ Version[p] \in 0..99 /\ Hash[p] \in STRING
  BY ScribeAssumption
<1>3. VersionOf(config, role, p) \in Nat
  BY <1>2 DEF VersionOf, Unset, Empty
<1>4. /\ x.pkg = p /\ x.version = VersionOf(config, role, p) /\ x.members = config.only[p]
      /\ x.pairs = VersionPairs(config, role, p)
  BY <1>1 DEF Exported
<1>5. IsFiniteSet(x.members)
  BY <1>2, <1>4, FS_Subset
<1> DEFINE c == Compat(config, p)
           own == <<Hash[p], VersionOf(config, role, p)>>
           name == <<"#" \o Family[p], VersionOf(config, role, p)>>
<1>6. c \in Seq(Pair)
  <2> DEFINE Listed == STRING \X (0..99)
  <2>1. c \in Seq(Listed)
    BY CompatOK
  <2>2. Listed \subseteq Pair
    <3>1. 0..99 \subseteq Nat /\ STRING \subseteq Names
      BY DEF Names
    <3>2. QED
      BY <3>1 DEF Pair
  <2> HIDE DEF c, Listed
  <2>3. QED
    BY <2>1, <2>2
<1>7. own \in Pair /\ name \in Pair
  BY <1>2, <1>3 DEF Pair, Names, PackageNames
<1>8. own[1] = Hash[p] /\ name[1] = "#" \o Family[p]
  OBVIOUS
<1>9. x.pairs = c \o <<own, name>>
  BY <1>4 DEF VersionPairs
<1> HIDE DEF c, own, name
<1>10. /\ x.pairs \in Seq(Pair)
       /\ Len(c) + 1 \in DOMAIN x.pairs /\ x.pairs[Len(c) + 1] = own
       /\ Len(c) + 2 \in DOMAIN x.pairs /\ x.pairs[Len(c) + 2] = name
  BY <1>6, <1>7, <1>9
<1>11. QED
  BY <1>2, <1>3, <1>4, <1>5, <1>8, <1>10 DEF ExportOK

Members == UNION {Declares[p] : p \in Packages}
Entry   == [key : Names \X Members, pkg : Packages, version : Nat]

Registration(x, i, m) == [key |-> <<x.pairs[i][1], m>>, pkg |-> x.pkg, version |-> x.pairs[i][2]]

\* What is registered of one package.
OfExport(x) ==
  FlattenSeq([j \in 1..Len(SetToSeq(x.members)) |->
      [i \in DOMAIN x.pairs |-> [key |-> <<x.pairs[i][1], SetToSeq(x.members)[j]>>,
                                 pkg |-> x.pkg, version |-> x.pairs[i][2]]]])

LEMMA RegistrationsOfExport ==
  ASSUME NEW x, ExportOK(x)
  PROVE  /\ OfExport(x) \in Seq(Entry)
         /\ \A e : In(e, OfExport(x)) <=> \E m \in x.members, i \in DOMAIN x.pairs : e = Registration(x, i, m)
<1> DEFINE ms == SetToSeq(x.members)
           row(m) == [i \in DOMAIN x.pairs |-> Registration(x, i, m)]
           rows == [j \in 1..Len(ms) |-> row(ms[j])]
<1>1. ms \in Seq(x.members) /\ \A e : In(e, ms) <=> e \in x.members
  BY EnumeratedAll DEF ExportOK
<1>2. OfExport(x) = FlattenSeq(rows)
  BY DEF OfExport, Registration
<1>3. ASSUME NEW m \in x.members
      PROVE  row(m) \in Seq(Entry) /\ \A e : In(e, row(m)) <=> \E i \in DOMAIN x.pairs : e = Registration(x, i, m)
  <2>1. x.pairs \in Seq(Pair) /\ x.pkg \in Packages /\ m \in Members
    BY DEF ExportOK, Members
  <2>2. \A i \in DOMAIN x.pairs : Registration(x, i, m) \in Entry
    <3> SUFFICES ASSUME NEW i \in DOMAIN x.pairs PROVE Registration(x, i, m) \in Entry
      OBVIOUS
    <3>1. x.pairs[i] \in Names \X Nat
      BY <2>1 DEF Pair
    <3>2. QED
      BY <2>1, <3>1 DEF Registration, Entry
  <2>3. DOMAIN x.pairs = 1..Len(x.pairs) /\ Len(x.pairs) \in Nat
    BY <2>1
  <2>4. row(m) \in Seq(Entry)
    BY <2>2, <2>3
  <2>5. \A e : In(e, row(m)) <=> \E i \in DOMAIN x.pairs : e = Registration(x, i, m)
    BY DEF In
  <2>6. QED
    BY <2>4, <2>5
<1>4. DOMAIN ms = 1..Len(ms) /\ Len(ms) \in Nat /\ \A j \in 1..Len(ms) : ms[j] \in x.members
  BY <1>1
<1> HIDE DEF ms, row
<1>5. rows \in Seq(Seq(Entry))
  BY <1>3, <1>4
<1>6. \A e : In(e, FlattenSeq(rows)) <=> \E j \in DOMAIN rows : In(e, rows[j])
  BY <1>5, Flattened
<1>7. ASSUME NEW e
      PROVE  (\E j \in DOMAIN rows : In(e, rows[j])) <=> \E m \in x.members : In(e, row(m))
  <2>1. ASSUME NEW m \in x.members, In(e, row(m))  PROVE \E j \in DOMAIN rows : In(e, rows[j])
    <3>1. PICK j \in 1..Len(ms) : ms[j] = m
      BY <1>1, <1>4 DEF In
    <3>2. QED
      BY <2>1, <3>1
  <2>2. QED
    BY <1>4, <2>1
<1>8. OfExport(x) \in Seq(Entry)
  BY <1>2, <1>5, Flattened
<1>9. ASSUME NEW e
      PROVE  In(e, OfExport(x)) <=> \E m \in x.members, i \in DOMAIN x.pairs : e = Registration(x, i, m)
  <2>1. In(e, OfExport(x)) <=> \E m \in x.members : In(e, row(m))
    BY <1>2, <1>6, <1>7
  <2>2. QED
    BY <1>3, <2>1
<1>10. QED
  BY <1>8, <1>9

\* What a plan registers: each member of each export, under each of its prefixes.
LEMMA Registered ==
  ASSUME NEW generated, PlanOK(generated)
  PROVE  /\ Registrations(generated) \in Seq(Entry)
         /\ \A x \in Exports(generated) : ExportOK(x)
         /\ \A e : In(e, Registrations(generated)) <=>
              \E x \in Exports(generated) : \E m \in x.members, i \in DOMAIN x.pairs : e = Registration(x, i, m)
<1> DEFINE xs == generated.exports
           parts == [k \in DOMAIN xs |-> OfExport(xs[k])]
<1>1. xs \in Seq(Analyzed) /\ DOMAIN xs = 1..Len(xs) /\ Len(xs) \in Nat
  BY DEF PlanOK
<1>2. \A k \in DOMAIN xs : ExportOK(xs[k])
  BY <1>1, ElementOf, AnalyzedOK
<1>3. Registrations(generated) = FlattenSeq(parts)
  BY DEF Registrations, OfExport
<1>4. parts \in Seq(Seq(Entry))
  BY <1>1, <1>2, RegistrationsOfExport
<1>5. \A e : In(e, FlattenSeq(parts)) <=> \E k \in DOMAIN xs : In(e, OfExport(xs[k]))
  BY <1>4, Flattened
<1>6. ASSUME NEW e
      PROVE  (\E k \in DOMAIN xs : In(e, OfExport(xs[k]))) <=>
               \E x \in Exports(generated) : \E m \in x.members, i \in DOMAIN x.pairs : e = Registration(x, i, m)
  <2>1. (\E k \in DOMAIN xs : In(e, OfExport(xs[k]))) <=> \E x \in Exports(generated) : In(e, OfExport(x))
    BY DEF Exports
  <2>2. \A x \in Exports(generated) : ExportOK(x)
    BY <1>2 DEF Exports
  <2>3. QED
    BY <2>1, <2>2, RegistrationsOfExport
<1>7. \A x \in Exports(generated) : ExportOK(x)
  BY <1>2 DEF Exports
<1>8. Registrations(generated) \in Seq(Entry)
  BY <1>3, <1>4, Flattened
<1>9. QED
  BY <1>3, <1>5, <1>6, <1>7, <1>8

\* Of the registrations with a key, the registry keeps one.
LEMMA Kept ==
  ASSUME NEW r \in Seq(Entry), NEW k \in DOMAIN r
  PROVE  \E l \in Registry(r) : r[l].key = r[k].key
<1> DEFINE S == {l \in DOMAIN r : r[l].key = r[k].key}
<1>1. S \in SUBSET Nat /\ S # {}
  OBVIOUS
<1>2. PICK l \in S : \A m \in S : l <= m
  <2> HIDE DEF S
  <2>1. QED
    BY <1>1, LeastNumber
<1>3. \A m \in DOMAIN r : m < l => r[m].key # r[l].key
  BY <1>2
<1>4. QED
  BY <1>2, <1>3 DEF Registry

\* What there is to answer from.
Exact(r, prefix, member) == \E e : In(e, r) /\ e.key = <<prefix, member>>
Named(r, member) == \E e : In(e, r) /\ e.key[1] \in PackageNames /\ e.key[2] = member

\* The answer is a registration under the key, or, if there is none, one of the
\* member under a package's name; and there is none if neither exists.
LEMMA LookedUp ==
  ASSUME NEW r \in Seq(Entry), NEW prefix, NEW member, NEW answer, answer = Lookup(r, prefix, member)
  PROVE  /\ Exact(r, prefix, member) => /\ answer # << >> /\ In(answer[1], r)
                                       /\ answer[1].key = <<prefix, member>>
         /\ ~Exact(r, prefix, member) /\ Named(r, member) =>
              /\ answer # << >> /\ In(answer[1], r)
              /\ answer[1].key[1] \in PackageNames /\ answer[1].key[2] = member
         /\ ~Exact(r, prefix, member) /\ ~Named(r, member) => answer = << >>
<1> DEFINE E == {k \in Registry(r) : r[k].key = <<prefix, member>>}
           N == {k \in Registry(r) : Fallback(r[k]) /\ r[k].key[2] = member}
           exact == Exact(r, prefix, member)
           named == Named(r, member)
<1>1. answer = IF E # {} THEN <<r[Min(E)]>> ELSE IF N # {} THEN <<r[Min(N)]>> ELSE << >>
  BY DEF Lookup
<1>2. Registry(r) \subseteq DOMAIN r /\ DOMAIN r \subseteq Nat
  BY DEF Registry
<1>3. E \in SUBSET Nat /\ N \in SUBSET Nat
  BY <1>2
<1>4. exact <=> E # {}
  <2>1. ASSUME NEW e, In(e, r), e.key = <<prefix, member>>  PROVE E # {}
    <3>1. PICK k \in DOMAIN r : r[k] = e
      BY <2>1 DEF In
    <3>2. QED
      BY <2>1, <3>1, Kept
  <2>2. QED
    BY <1>2, <2>1 DEF In, Exact
<1>5. named <=> N # {}
  <2>1. ASSUME NEW e, In(e, r), e.key[1] \in PackageNames, e.key[2] = member  PROVE N # {}
    <3>1. PICK k \in DOMAIN r : r[k] = e
      BY <2>1 DEF In
    <3>2. PICK l \in Registry(r) : r[l].key = e.key
      BY <3>1, Kept
    <3>3. QED
      BY <2>1, <3>2 DEF Fallback
  <2>2. QED
    BY <1>2, <2>1 DEF In, Fallback, Named
<1>6. ASSUME E # {}  PROVE Min(E) \in E /\ answer = <<r[Min(E)]>>
  <2>1. Min(E) \in E
    <3> HIDE DEF E
    <3>1. QED
      BY <1>3, <1>6, MinIsLeast
  <2>2. QED
    BY <1>1, <1>6, <2>1
<1>7. ASSUME E = {}, N # {}  PROVE Min(N) \in N /\ answer = <<r[Min(N)]>>
  <2>1. Min(N) \in N
    <3> HIDE DEF N
    <3>1. QED
      BY <1>3, <1>7, MinIsLeast
  <2>2. QED
    BY <1>1, <1>7, <2>1
<1>8. exact => answer # << >> /\ In(answer[1], r) /\ answer[1].key = <<prefix, member>>
  <2>1. SUFFICES ASSUME E # {}  PROVE answer # << >> /\ In(answer[1], r) /\ answer[1].key = <<prefix, member>>
    BY <1>4
  <2>2. PICK k \in E : answer = <<r[k]>>
    BY <1>6, <2>1
  <2>3. answer # << >> /\ answer[1] = r[k]
    BY <2>2
  <2>4. QED
    BY <1>2, <2>2, <2>3 DEF In
<1>9. ~exact /\ named => /\ answer # << >> /\ In(answer[1], r)
                         /\ answer[1].key[1] \in PackageNames /\ answer[1].key[2] = member
  BY <1>2, <1>4, <1>5, <1>7 DEF In, Fallback
<1>10. ~exact /\ ~named => answer = << >>
  BY <1>1, <1>4, <1>5
<1>11. QED
  BY <1>8, <1>9, <1>10

\* What every plan registers is looked up right.
LEMMA PlansLookUpRight ==
  ASSUME NEW generated, PlanOK(generated)
  PROVE  LooksUpRight(generated)
<1>1. SUFFICES ASSUME NEW member, NEW prefix
      PROVE  AnswersRight(generated, prefix, member)
  BY DEF LooksUpRight
<1> DEFINE r == Registrations(generated)
           holders == {x \in Exports(generated) : member \in x.members}
           claims  == {x \in holders : Has(x, prefix)}
           answer  == Lookup(r, prefix, member)
           exact == Exact(r, prefix, member)
           named == Named(r, member)
<1>2. /\ r \in Seq(Entry) /\ \A x \in Exports(generated) : ExportOK(x)
      /\ \A e : In(e, r) <=>
           \E x \in Exports(generated) : \E m \in x.members, i \in DOMAIN x.pairs : e = Registration(x, i, m)
  BY Registered
<1>3. /\ exact => answer # << >> /\ In(answer[1], r) /\ answer[1].key = <<prefix, member>>
      /\ ~exact /\ named => /\ answer # << >> /\ In(answer[1], r)
                            /\ answer[1].key[1] \in PackageNames /\ answer[1].key[2] = member
      /\ ~exact /\ ~named => answer = << >>
  BY <1>2, LookedUp
<1> HIDE DEF r, answer
<1>4. ASSUME NEW x, NEW i, NEW m
      PROVE  LET e == Registration(x, i, m)
             IN  e.key = <<x.pairs[i][1], m>> /\ e.pkg = x.pkg /\ e.version = x.pairs[i][2]
  BY DEF Registration
<1>5. exact <=> claims # {}
  <2>1. ASSUME NEW x \in claims  PROVE exact
    <3>1. PICK i \in DOMAIN x.pairs : x.pairs[i][1] = prefix
      BY DEF Has
    <3> DEFINE e == Registration(x, i, member)
    <3>2. In(e, r) /\ e.key = <<prefix, member>>
      BY <1>2, <1>4, <3>1
    <3> HIDE DEF e
    <3>3. QED
      BY <3>2 DEF Exact
  <2>2. ASSUME NEW e, In(e, r), e.key = <<prefix, member>>  PROVE claims # {}
    <3>1. PICK x \in Exports(generated) :
                \E m \in x.members, i \in DOMAIN x.pairs : e = Registration(x, i, m)
      BY <1>2, <2>2
    <3>1a. PICK m \in x.members, i \in DOMAIN x.pairs : e = Registration(x, i, m)
      BY <3>1
    <3>2. x.pairs[i][1] = prefix /\ m = member
      BY <1>4, <2>2, <3>1a
    <3>3. x \in claims
      BY <3>1a, <3>2 DEF Has
    <3>4. QED
      BY <3>3
  <2>3. QED
    BY <2>1, <2>2 DEF Exact
<1>6. named <=> holders # {}
  <2>1. ASSUME NEW x \in holders  PROVE named
    <3>1. PICK i \in DOMAIN x.pairs : x.pairs[i][1] = "#" \o Family[x.pkg] /\ x.pkg \in Packages
      BY <1>2 DEF ExportOK
    <3>2. x.pairs[i][1] \in PackageNames
      BY <3>1 DEF PackageNames
    <3> DEFINE e == Registration(x, i, member)
    <3>3. In(e, r) /\ e.key = <<x.pairs[i][1], member>>
      BY <1>2, <1>4
    <3> HIDE DEF e
    <3>4. e.key[1] \in PackageNames /\ e.key[2] = member
      BY <3>2, <3>3
    <3>5. QED
      BY <3>3, <3>4 DEF Named
  <2>2. ASSUME NEW e, In(e, r), e.key[2] = member  PROVE holders # {}
    <3>1. PICK x \in Exports(generated) :
                \E m \in x.members, i \in DOMAIN x.pairs : e = Registration(x, i, m)
      BY <1>2, <2>2
    <3>1a. PICK m \in x.members, i \in DOMAIN x.pairs : e = Registration(x, i, m)
      BY <3>1
    <3>2. m = member
      BY <1>4, <2>2, <3>1a
    <3>3. QED
      BY <3>1a, <3>2
  <2>3. QED
    BY <2>1, <2>2 DEF Named
<1>7. claims # {} => holders # {}
  OBVIOUS
<1>8. CASE holders = {}
  BY <1>3, <1>5, <1>6, <1>7, <1>8 DEF AnswersRight, answer, r
<1>9. CASE claims # {}
  <2>1. answer # << >> /\ In(answer[1], r) /\ answer[1].key = <<prefix, member>>
    BY <1>3, <1>5, <1>9
  <2>2. PICK x \in Exports(generated) :
              \E m \in x.members, i \in DOMAIN x.pairs : answer[1] = Registration(x, i, m)
    BY <1>2, <2>1
  <2>2a. PICK m \in x.members, i \in DOMAIN x.pairs : answer[1] = Registration(x, i, m)
    BY <2>2
  <2>3. /\ x.pairs[i][1] = prefix /\ m = member
        /\ answer[1].pkg = x.pkg /\ answer[1].version = x.pairs[i][2]
    BY <1>4, <2>1, <2>2a
  <2>4. x \in holders /\ x \in claims
    BY <2>2a, <2>3 DEF Has
  <2>5. x.pairs[i] = <<prefix, answer[1].version>>
    <3>1. x.pairs \in Seq(Pair)
      BY <1>2 DEF ExportOK
    <3>2. x.pairs[i] \in Pair
      BY <3>1, ElementOf
    <3>3. QED
      BY <2>3, <3>2 DEF Pair
  <2>6. Current(x, {prefix}) => answer[1].version = x.version
    BY <2>2a, <2>3 DEF Current
  <2>7. QED
    BY <1>9, <2>1, <2>2a, <2>3, <2>4, <2>5, <2>6 DEF AnswersRight, answer, r
<1>10. CASE claims = {} /\ holders # {}
  <2>1. answer # << >> /\ In(answer[1], r) /\ answer[1].key[1] \in PackageNames /\ answer[1].key[2] = member
    BY <1>3, <1>5, <1>6, <1>10
  <2>2. PICK x \in Exports(generated) :
              \E m \in x.members, i \in DOMAIN x.pairs : answer[1] = Registration(x, i, m)
    BY <1>2, <2>1
  <2>2a. PICK m \in x.members, i \in DOMAIN x.pairs : answer[1] = Registration(x, i, m)
    BY <2>2
  <2>3. /\ x.pairs[i][1] \in PackageNames /\ m = member
        /\ answer[1].pkg = x.pkg /\ answer[1].version = x.pairs[i][2]
    BY <1>4, <2>1, <2>2a
  <2>4. x \in holders
    BY <2>2a, <2>3
  <2>5. Current(x, PackageNames) => answer[1].version = x.version
    BY <2>2a, <2>3 DEF Current
  <2>6. Hash[x.pkg] # prefix
    <3>1. x \notin claims
      BY <1>10
    <3>2. QED
      BY <1>2, <2>4, <3>1 DEF ExportOK, Has
  <2>7. QED
    BY <1>10, <2>1, <2>2a, <2>3, <2>4, <2>5, <2>6 DEF AnswersRight, answer, r
<1>11. QED
  BY <1>8, <1>9, <1>10

-----------------------------------------------------------------------------
(* The runs.                                                               *)

PCs == {"none", "discovered", "cleaned", "staged", "done", "failed"}

\* What a file that the run in progress has written holds.
OfThisRun(f) == files[f].run = run /\ files[f].plan = plan /\ files[f].code = staged

SInv ==
  /\ pc \in PCs /\ run \in Nat /\ input \in Inputs /\ DOMAIN files = Files
  /\ Running \/ pc = "done" => PlanOK(plan)
  /\ \A f \in Files : files[f] # Nothing => PlanOK(files[f].plan)
  /\ pc \in {"discovered", "cleaned"} => written = 0
  /\ pc = "cleaned" => staged = {}
  /\ written \in 0..9
  /\ Running /\ ~moved => plan.input = input
  /\ pc = "staged" => /\ written <= Len(Order) /\ ~moved => staged = plan.input
                      /\ \A k \in 1..written : OfThisRun(Order[k])
  /\ pc = "done" /\ ~plan.config.dryRun => /\ ~moved => staged = plan.input
                                           /\ \A k \in 1..Len(Order) : OfThisRun(Order[k])

LEMMA ShortSequences ==
  ASSUME NEW S, NEW a \in S, NEW b \in S, NEW c \in S, NEW d \in S
  PROVE  /\ <<a, b>> \in Seq(S) /\ Len(<<a, b>>) = 2
         /\ <<a, b, c>> \in Seq(S) /\ Len(<<a, b, c>>) = 3 /\ <<a, b, c>>[1] = a
         /\ <<a, b, c, d>> \in Seq(S) /\ Len(<<a, b, c, d>>) = 4
OBVIOUS

LEMMA Joined ==
  ASSUME NEW S, NEW s \in Seq(S), NEW t \in Seq(S)
  PROVE  s \o t \in Seq(S) /\ Len(s \o t) = Len(s) + Len(t)
OBVIOUS

LEMMA JoinedFront ==
  ASSUME NEW S, NEW s \in Seq(S), NEW t \in Seq(S), NEW k \in 1..Len(s)
  PROVE  (s \o t)[k] = s[k]
OBVIOUS

LEMMA JoinedBack ==
  ASSUME NEW S, NEW s \in Seq(S), NEW t \in Seq(S), t # << >>
  PROVE  (s \o t)[Len(s) + 1] = t[1]
OBVIOUS

LEMMA ThreeParts ==
  ASSUME NEW S, NEW s \in Seq(S), NEW t \in Seq(S), NEW u \in Seq(S), Len(s) = 4, Len(t) = 3, Len(u) = 2
  PROVE  /\ Len(s \o t \o u) = 9 /\ (s \o t \o u)[5] = t[1]
         /\ \A k \in 1..4 : (s \o t \o u)[k] = s[k]
<1>1. PICK st : st = s \o t
  OBVIOUS
<1>2. st \in Seq(S) /\ Len(st) = Len(s) + Len(t)
  BY <1>1, Joined, Zenon
<1>3. \A k \in 1..Len(s) : st[k] = s[k]
  BY <1>1, JoinedFront, Zenon
<1>4. t # << >>
  OBVIOUS
<1>5. st[Len(s) + 1] = t[1]
  BY <1>1, <1>4, JoinedBack, Zenon
<1>6. Len(st) = 7
  BY <1>2
<1>7. st[5] = t[1]
  BY <1>5
<1>8. Len(st \o u) = Len(st) + Len(u)
  BY <1>2, Joined, Zenon
<1>9. \A k \in 1..Len(st) : (st \o u)[k] = st[k]
  BY <1>2, JoinedFront, Zenon
<1>10. PICK all : all = st \o u
  OBVIOUS
<1>11. Len(all) = 9
  BY <1>6, <1>8, <1>10
<1>12. \A k \in 1..7 : all[k] = st[k]
  BY <1>6, <1>9, <1>10
<1>13. all[5] = st[5] /\ \A k \in 1..4 : all[k] = st[k] /\ st[k] = s[k]
  BY <1>3, <1>12
<1>14. QED
  BY <1>1, <1>7, <1>10, <1>11, <1>13, Zenon

\* The files one after the other, and where each is.
LEMMA TheFiles ==
  LET all == Scribed \o Bundled \o Copied
  IN  Len(Scribed) = 4 /\ Len(all) = 9 /\ (\A k \in 1..4 : all[k] = Scribed[k]) /\ all[5] = "dist/codegen.js"
<1>1. PICK S : /\ "version.js" \in S /\ "index.js" \in S /\ "index.d.ts" \in S /\ "version.d.ts" \in S
               /\ "dist/codegen.js" \in S /\ "dist/index.js" \in S /\ "dist/version.js" \in S
               /\ "dist/index.d.ts" \in S /\ "dist/version.d.ts" \in S
  <2> DEFINE N == {"version.js", "index.js", "index.d.ts", "version.d.ts", "dist/codegen.js", "dist/index.js",
                   "dist/version.js", "dist/index.d.ts", "dist/version.d.ts"}
  <2>1. /\ "version.js" \in N /\ "index.js" \in N /\ "index.d.ts" \in N /\ "version.d.ts" \in N
        /\ "dist/codegen.js" \in N /\ "dist/index.js" \in N /\ "dist/version.js" \in N
        /\ "dist/index.d.ts" \in N /\ "dist/version.d.ts" \in N
    OBVIOUS
  <2> HIDE DEF N
  <2>2. QED
    BY <2>1
<1>2. Scribed \in Seq(S) /\ Len(Scribed) = 4
  BY <1>1, ShortSequences DEF Scribed
<1>3. Bundled \in Seq(S) /\ Len(Bundled) = 3 /\ Bundled[1] = "dist/codegen.js"
  BY <1>1, ShortSequences DEF Bundled
<1>4. Copied \in Seq(S) /\ Len(Copied) = 2
  BY <1>1, ShortSequences DEF Copied
<1>5. QED
  BY <1>2, <1>3, <1>4, ThreeParts

LEMMA OrderIs ==
  /\ Len(Order) \in {4, 9}
  /\ \A k \in 1..Len(Order) : Order[k] \in Files
  /\ plan.config.bundle => \A f \in Files : \E k \in 1..Len(Order) : Order[k] = f
<1> DEFINE all == Scribed \o Bundled \o Copied
<1>1. Len(Scribed) = 4 /\ Len(all) = 9 /\ \A k \in 1..4 : all[k] = Scribed[k]
  BY TheFiles
<1>2. \A f : f \in Files <=> \E k \in 1..9 : f = all[k]
  BY DEF Files
<1> HIDE DEF all
<1>3. Order = IF plan.config.bundle THEN all ELSE Scribed
  BY DEF Order, all
<1>4. CASE plan.config.bundle
  <2>1. Order = all
    BY <1>3, <1>4
  <2>2. Len(Order) = 9
    BY <1>1, <2>1, Zenon
  <2>3. \A k \in 1..9 : Order[k] \in Files
    BY <1>2, <2>1, Zenon
  <2>4. \A f \in Files : \E k \in 1..9 : Order[k] = f
    BY <1>2, <2>1, Zenon
  <2>5. QED
    BY <2>2, <2>3, <2>4
<1>5. CASE ~plan.config.bundle
  <2>1. Order = Scribed
    BY <1>3, <1>5
  <2>2. \A k \in 1..4 : Scribed[k] \in Files
    BY <1>1, <1>2
  <2>3. QED
    BY <1>1, <1>5, <2>1, <2>2
<1>6. QED
  BY <1>4, <1>5

LEMMA InitHolds == Init => SInv
BY ScribeAssumption DEF Init, SInv, PCs, Running, Nothing

\* What a run reads is a plan.
LEMMA ReadsPlans ==
  ASSUME NEW config \in Configs, input \in Inputs, NEW main, NEW vendors,
         main \in {<<p>> : p \in Chosen(config, input)} \cup (IF Chosen(config, input) = {} THEN {<< >>} ELSE {}),
         vendors \in SetToSeqs({p \in input : Classified(config, p) = "vendor"})
  PROVE  PlanOK(PlanOf(config, main, vendors, input)) /\ PlanOf(config, main, vendors, input).input = input
<1>1. input \subseteq Packages /\ IsFiniteSet(input)
  BY ScribeAssumption, FS_Subset
<1> DEFINE V == {p \in input : Classified(config, p) = "vendor"}
           n == Cardinality(V)
<1>2. n \in Nat
  BY <1>1, FS_Subset, FS_CardinalityType
<1>3. vendors \in [1..n -> Packages]
  BY <1>1 DEF SetToSeqs
<1>4. Chosen(config, input) \subseteq Packages
  BY <1>1 DEF Chosen, Selected, Mains
<1>5. main \in Seq(Packages)
  <2>1. CASE main \in {<<p>> : p \in Chosen(config, input)}
    <3>1. PICK p \in Packages : main = <<p>>
      BY <1>4, <2>1
    <3>2. QED
      BY <3>1
  <2>2. CASE main = << >>
    BY <2>2
  <2>3. QED
    BY <2>1, <2>2
<1> HIDE DEF n
<1> DEFINE ms == [k \in DOMAIN main |-> Exported(config, "main", main[k])]
           vs == [k \in DOMAIN vendors |-> Exported(config, "vendor", vendors[k])]
<1>6. \A p \in Packages, role \in {"main", "vendor"} : Exported(config, role, p) \in Analyzed
  BY DEF Analyzed
<1>7. ms \in Seq(Analyzed)
  BY <1>5, <1>6
<1>8. vs \in Seq(Analyzed)
  BY <1>2, <1>3, <1>6
<1>9. PlanOf(config, main, vendors, input).exports = ms \o vs /\ PlanOf(config, main, vendors, input).input = input
  BY DEF PlanOf
<1> HIDE DEF ms, vs
<1>10. ms \o vs \in Seq(Analyzed)
  BY <1>7, <1>8
<1>11. QED
  BY <1>9, <1>10 DEF PlanOK

LEMMA Step ==
  ASSUME SInv, [Next]_vars
  PROVE  SInv'
<1>1. ASSUME NEW config \in Configs, Reads(config)  PROVE SInv'
  <2>1. /\ ~Running /\ run' = run + 1 /\ written' = 0 /\ moved' = FALSE
        /\ input' = input /\ staged' = staged /\ files' = files
        /\ pc' = "failed" \/ (pc' = "discovered" /\ PlanOK(plan') /\ plan'.input = input)
    <3>0. /\ ~Running /\ run' = run + 1 /\ written' = 0 /\ moved' = FALSE
          /\ input' = input /\ staged' = staged /\ files' = files
      BY <1>1 DEF Reads
    <3>1. CASE pc' = "failed"
      BY <3>0, <3>1
    <3>2. CASE pc' # "failed"
      <4>1. PICK main \in {<<p>> : p \in Chosen(config, input)}
                            \cup (IF Chosen(config, input) = {} THEN {<< >>} ELSE {}),
                 vendors \in SetToSeqs({p \in input : Classified(config, p) = "vendor"}) :
              plan' = PlanOf(config, main, vendors, input)
        BY <1>1, <3>2 DEF Reads
      <4>2. input \in Inputs
        BY DEF SInv
      <4>3. QED
        BY <1>1, <3>0, <3>2, <4>1, <4>2, ReadsPlans DEF Reads
    <3>3. QED
      BY <3>1, <3>2
  <2>2. QED
    BY <2>1 DEF SInv, PCs, Running
<1>2. CASE Cleans
  <2>1. CASE plan.config.dryRun
    BY <1>2, <2>1 DEF Cleans, SInv, PCs, Running
  <2>2. CASE ~plan.config.dryRun
    BY <1>2, <2>2 DEF Cleans, SInv, PCs, Running
  <2>3. QED
    BY <2>1, <2>2
<1>3. CASE Stages
  <2>1. pc = "cleaned" /\ staged = {} /\ staged' = input
    BY <1>3 DEF Stages, SInv
  <2>2. QED
    BY <1>3, <2>1, OrderIs DEF Stages, SInv, PCs, Running
<1>4. CASE Writes
  <2> DEFINE file == Order[written + 1]
  <2>1. /\ pc = "staged" /\ written < Len(Order) /\ written \in Nat /\ Len(Order) \in {4, 9} /\ file \in Files
        /\ run' = run /\ plan' = plan /\ staged' = staged /\ moved' = moved /\ input' = input /\ Order' = Order
    BY <1>4, OrderIs DEF Writes, SInv, Order
  <2>2. CASE pc' = "failed" /\ files' = files /\ written' = written
    BY <2>1, <2>2 DEF SInv, PCs, Running
  <2>3. CASE /\ files' = [files EXCEPT ![file] = [run |-> run, plan |-> plan, code |-> staged]]
             /\ written' = written + 1
             /\ pc' = IF written + 1 = Len(Order) THEN "done" ELSE pc
    <3>1. /\ DOMAIN files' = Files /\ files'[file].run = run /\ files'[file].plan = plan /\ files'[file].code = staged
          /\ \A f \in Files : f # file => files'[f] = files[f]
      BY <2>1, <2>3 DEF SInv
    <3>2. \A k \in 1..(written + 1) : OfThisRun(Order[k])'
      <4> SUFFICES ASSUME NEW k \in 1..(written + 1)  PROVE OfThisRun(Order[k])'
        OBVIOUS
      <4>1. CASE Order[k] = file
        BY <2>1, <3>1, <4>1 DEF OfThisRun
      <4>2. CASE Order[k] # file
        <5>1. k \in 1..written /\ Order[k] \in Files
          BY <2>1, <4>2, OrderIs
        <5>2. OfThisRun(Order[k])
          BY <2>1, <5>1 DEF SInv
        <5>3. QED
          BY <2>1, <3>1, <4>2, <5>1, <5>2 DEF OfThisRun
      <4>3. QED
        BY <4>1, <4>2
    <3>3. \A f \in Files : files'[f] # Nothing => PlanOK(files'[f].plan)
      BY <2>1, <3>1 DEF SInv, Running
    <3>4. (\A f \in Files : files[f] # Nothing => PlanOK(files[f].plan))'
      BY <3>3 DEF Nothing
    <3>5. ~moved => staged = plan.input
      BY <2>1 DEF SInv
    <3>6. QED
      BY <2>1, <2>3, <3>1, <3>2, <3>4, <3>5 DEF SInv, PCs, Running
  <2>4. QED
    BY <1>4, <2>2, <2>3 DEF Writes
<1>5. CASE Fails
  BY <1>5 DEF Fails, SInv, PCs, Running, Nothing
<1>6. CASE Regenerates
  BY <1>6 DEF Regenerates, SInv, PCs, Running, Nothing, OfThisRun, Order
<1>7. CASE UNCHANGED vars
  BY <1>7 DEF vars, SInv, PCs, Running, Nothing, OfThisRun, Order
<1>8. QED
  BY <1>1, <1>2, <1>3, <1>4, <1>5, <1>6, <1>7 DEF Next

\* The inductive invariant: what a run has written is of that run, what it has
\* staged is what it read unless the directory has changed, and whatever plan a
\* file was written from came from an analysis.
THEOREM RunsInductive == Spec => []SInv
<1>1. QED
  BY InitHolds, Step, PTL DEF Spec

\* What a bundling run leaves when it ends well is all of that run.
THEOREM OutputIsAlwaysOfOneRun == Spec => []OutputIsOfOneRun
<1>1. SInv => OutputIsOfOneRun
  <2>1. SUFFICES ASSUME SInv, pc = "done", ~plan.config.dryRun, plan.config.bundle, NEW f \in Files
        PROVE  files[f].run = run /\ (~moved => files[f].code = plan.input)
    BY DEF OutputIsOfOneRun
  <2>2. PICK k \in 1..Len(Order) : Order[k] = f
    BY <2>1, OrderIs
  <2>3. OfThisRun(f) /\ (~moved => staged = plan.input)
    BY <2>1, <2>2 DEF SInv
  <2>4. QED
    BY <2>3 DEF OfThisRun
<1>2. QED
  BY <1>1, RunsInductive, PTL

\* The registry in force answers for the packages, whatever plan it came from.
THEOREM LookupIsAlwaysOfThePackage == Spec => []LookupIsOfThePackage
<1>1. "dist/codegen.js" \in Files
  <2>1. (Scribed \o Bundled \o Copied)[5] = "dist/codegen.js"
    BY TheFiles
  <2>2. 5 \in 1..9
    OBVIOUS
  <2>3. QED
    BY <2>1, <2>2, Zenon DEF Files
<1>2. SInv => LookupIsOfThePackage
  BY <1>1, PlansLookUpRight DEF SInv, LookupIsOfThePackage
<1>3. QED
  BY <1>2, RunsInductive, PTL
=============================================================================
