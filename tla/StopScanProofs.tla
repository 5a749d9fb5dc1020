--------------------------- MODULE StopScanProofs ---------------------------
(***************************************************************************)
(* What the scan of stopYuanRongProcesses lists, for every set of          *)
(* processes, PIDs, keywords and /proc order: getProcesses,                *)
(* filterProcesses and groupProcessesByKeywords (StopProcesses' Listed,    *)
(* Filtered, ByGroup and Grouped) list every live process that has a       *)
(* keyword, nothing else, and each of them once, whatever order the Go     *)
(* maps are visited in.                                                    *)
(*                                                                         *)
(* The stages are loops that append to a slice, modelled by the recursive  *)
(* functions SeqAt and ConcatSeqs.  The facts about them are proved by     *)
(* induction on the prefix the loop has built, in the form of a least      *)
(* counterexample (the provers cannot instantiate the induction rules of   *)
(* NaturalsInduction, which take the induction predicate as a parameter). *)
(***************************************************************************)
EXTENDS StopProcesses, SequenceTheorems, FiniteSetTheorems, TLAPS

(* Every non-empty set of naturals has a least element.                    *)
LEMMA LeastNat ==
  ASSUME NEW S \in SUBSET Nat, S # {}
  PROVE  \E m \in S : \A k \in S : m <= k
<1>1. PICK x \in S : \A y \in S : ~(<<y, x>> \in OpToRel(<, Nat))
  BY NatLessThanWellFounded, WFMin
<1>2. \A y \in S : ~(y < x)
  BY <1>1 DEF OpToRel
<1> QED
  BY <1>2

(* Induction on the prefixes 0 .. N of a loop: a set that holds 0 and    *)
(* holds n whenever it holds n - 1 holds them all.                         *)
LEMMA PrefixInduction ==
  ASSUME NEW N \in Nat, NEW S, 0 \in S,
         \A n \in 1 .. N : n - 1 \in S => n \in S
  PROVE  0 .. N \subseteq S
<1> SUFFICES ASSUME (0 .. N) \ S # {} PROVE FALSE
  OBVIOUS
<1>0. (0 .. N) \ S \in SUBSET Nat
  OBVIOUS
<1>1. PICK n \in (0 .. N) \ S : \A k \in (0 .. N) \ S : n <= k
  BY <1>0, LeastNat
<1>2. n # 0 /\ n - 1 \in 0 .. N /\ ~(n <= n - 1)
  BY <1>1
<1>3. n - 1 \in S
  BY <1>1, <1>2
<1> QED
  BY <1>1, <1>2, <1>3

(* Appending e to a sequence adds e to its range, and keeps it injective  *)
(* when e was not in it.                                                   *)
LEMMA AppendRange ==
  ASSUME NEW T, NEW x \in Seq(T), NEW e \in T
  PROVE  /\ Append(x, e) \in Seq(T)
         /\ Range(Append(x, e)) = Range(x) \cup {e}
         /\ IsInjective(x) /\ e \notin Range(x) => IsInjective(Append(x, e))
<1>1. /\ Append(x, e) \in Seq(T)
      /\ Len(Append(x, e)) = Len(x) + 1
      /\ \A i \in 1 .. Len(x) : Append(x, e)[i] = x[i]
      /\ Append(x, e)[Len(x) + 1] = e
  BY AppendProperties
<1>2. Range(x) = { x[i] : i \in 1 .. Len(x) }
      /\ Range(Append(x, e)) = { Append(x, e)[i] : i \in 1 .. Len(x) + 1 }
  BY <1>1, RangeEquality
<1>3. Range(Append(x, e)) = Range(x) \cup {e}
  BY <1>1, <1>2
<1>4. ASSUME IsInjective(x), e \notin Range(x) PROVE IsInjective(Append(x, e))
  <2>1. DOMAIN x = 1 .. Len(x) /\ DOMAIN Append(x, e) = 1 .. Len(x) + 1
    BY <1>1
  <2> QED
    BY <1>1, <1>2, <2>1, <1>4 DEF IsInjective
<1> QED
  BY <1>1, <1>3, <1>4

-----------------------------------------------------------------------------
(***************************************************************************)
(* SeqAt(s, I): the loop that appends s[i] when i is in I.                 *)
(***************************************************************************)
SeqAtFcn(s, I) ==
  CHOOSE F : F = [i \in 0 .. Len(s) |->
                    IF i = 0 THEN << >>
                    ELSE IF i \in I THEN Append(F[i - 1], s[i]) ELSE F[i - 1]]

(* The elements of s at the indices of I up to m.                          *)
SeqAtRange(s, I, m) == { s[i] : i \in { j \in 1 .. m : j \in I } }

LEMMA SeqAtDef ==
  ASSUME NEW s, NEW I
  PROVE  SeqAt(s, I) = SeqAtFcn(s, I)[Len(s)]
BY DEF SeqAt, SeqAtFcn

(* The recursion defines a function: its prefixes up to every m exist.     *)
LEMMA SeqAtFcnExists ==
  ASSUME NEW T, NEW s \in Seq(T), NEW I
  PROVE  \E F : F = [i \in 0 .. Len(s) |->
                       IF i = 0 THEN << >>
                       ELSE IF i \in I THEN Append(F[i - 1], s[i]) ELSE F[i - 1]]
<1> DEFINE Body(g, i) == IF i = 0 THEN << >>
                         ELSE IF i \in I THEN Append(g[i - 1], s[i]) ELSE g[i - 1]
           P(m) == \E g : g = [i \in 0 .. m |-> Body(g, i)]
<1>1. SUFFICES \A m \in 0 .. Len(s) : P(m)
  BY DEF P, Body
<1>2. P(0)
  <2> DEFINE g0 == [i \in 0 .. 0 |-> << >>]
  <2>1. g0 = [i \in 0 .. 0 |-> Body(g0, i)]
    BY DEF Body
  <2> QED
    BY <2>1 DEF P
<1>3. ASSUME NEW m \in 1 .. Len(s), P(m - 1) PROVE P(m)
  <2>1. PICK g : g = [i \in 0 .. m - 1 |-> Body(g, i)]
    BY <1>3 DEF P
  <2> DEFINE h == [i \in 0 .. m |-> IF i < m THEN g[i] ELSE Body(g, m)]
  <2>2. \A i \in 0 .. m : Body(h, i) = Body(g, i)
    BY DEF Body
  <2>3. \A i \in 0 .. m : h[i] = Body(h, i)
    <3> SUFFICES ASSUME NEW i \in 0 .. m PROVE h[i] = Body(h, i)
      OBVIOUS
    <3>1. CASE i < m
      <4>1. h[i] = g[i] /\ i \in 0 .. m - 1
        BY <3>1 DEF h
      <4> QED
        BY <4>1, <2>1, <2>2
    <3>2. CASE i = m
      BY <3>2, <2>2 DEF h
    <3> QED
      BY <3>1, <3>2
  <2>4. h = [i \in 0 .. m |-> Body(h, i)]
    BY <2>3 DEF h
  <2> QED
    BY <2>4 DEF P
<1>4. 0 .. Len(s) \subseteq { n \in Nat : P(n) }
  <2>1. 0 \in { n \in Nat : P(n) }
    BY <1>2
  <2>2. \A n \in 1 .. Len(s) :
          n - 1 \in { k \in Nat : P(k) } => n \in { k \in Nat : P(k) }
    <3>1. \A n \in 1 .. Len(s) : n \in Nat /\ n - 1 \in Nat
      OBVIOUS
    <3>2. \A n \in 1 .. Len(s) : P(n - 1) => P(n)
      BY <1>3
    <3> QED
      BY <3>1, <3>2, Zenon
  <2>3. Len(s) \in Nat
    OBVIOUS
  <2> QED
    BY <2>1, <2>2, <2>3, PrefixInduction
<1> QED
  BY <1>4

(* The prefixes of the loop as the recursion defines them.                 *)
LEMMA SeqAtFcnEq ==
  ASSUME NEW T, NEW s \in Seq(T), NEW I
  PROVE  SeqAtFcn(s, I) =
           [i \in 0 .. Len(s) |->
              IF i = 0 THEN << >>
              ELSE IF i \in I THEN Append(SeqAtFcn(s, I)[i - 1], s[i])
              ELSE SeqAtFcn(s, I)[i - 1]]
<1>1. \E F : F = [i \in 0 .. Len(s) |->
                     IF i = 0 THEN << >>
                     ELSE IF i \in I THEN Append(F[i - 1], s[i]) ELSE F[i - 1]]
  BY SeqAtFcnExists
<1> QED
  BY <1>1 DEF SeqAtFcn

(* Each prefix of the loop is a sequence of the elements of s at the       *)
(* indices of I seen so far.                                               *)
LEMMA SeqAtPrefix ==
  ASSUME NEW T, NEW s \in Seq(T), NEW I
  PROVE  \A m \in 0 .. Len(s) :
           /\ SeqAtFcn(s, I)[m] \in Seq(T)
           /\ Range(SeqAtFcn(s, I)[m]) = SeqAtRange(s, I, m)
<1> DEFINE F == SeqAtFcn(s, I)
           Q(m) == F[m] \in Seq(T) /\ Range(F[m]) = SeqAtRange(s, I, m)
<1>0. F = [i \in 0 .. Len(s) |->
             IF i = 0 THEN << >>
             ELSE IF i \in I THEN Append(F[i - 1], s[i]) ELSE F[i - 1]]
  BY SeqAtFcnEq
<1>4. /\ F[0] = << >>
      /\ \A i \in 1 .. Len(s) :
           F[i] = IF i \in I THEN Append(F[i - 1], s[i]) ELSE F[i - 1]
  <2>1. 0 \in 0 .. Len(s) /\ \A i \in 1 .. Len(s) : i \in 0 .. Len(s) /\ i # 0
    OBVIOUS
  <2> QED
    BY <1>0, <2>1, Zenon
<1>1. Q(0)
  <2>1. F[0] = << >>
    BY <1>4
  <2> QED
    BY <2>1 DEF SeqAtRange, Range
<1>2. ASSUME NEW m \in 1 .. Len(s), Q(m - 1) PROVE Q(m)
  <2>1. s[m] \in T /\ m - 1 \in 0 .. Len(s)
    OBVIOUS
  <2>2. SeqAtRange(s, I, m) =
          SeqAtRange(s, I, m - 1) \cup (IF m \in I THEN {s[m]} ELSE {})
    BY DEF SeqAtRange
  <2>3. CASE m \in I
    <3>1. F[m] = Append(F[m - 1], s[m])
      BY <1>4, <2>3
    <3> QED
      BY <1>2, <2>1, <2>2, <2>3, <3>1, AppendRange
  <2>4. CASE m \notin I
    <3>1. F[m] = F[m - 1]
      BY <1>4, <2>4
    <3> QED
      BY <1>2, <2>2, <2>4, <3>1
  <2> QED
    BY <2>3, <2>4
<1>3. 0 .. Len(s) \subseteq { m \in Nat : Q(m) }
  <2>1. \A n \in 1 .. Len(s) : n \in Nat /\ n - 1 \in Nat
    OBVIOUS
  <2>2. \A n \in 1 .. Len(s) : Q(n - 1) => Q(n)
    BY <1>2
  <2>3. \A n \in 1 .. Len(s) :
          n - 1 \in { k \in Nat : Q(k) } => n \in { k \in Nat : Q(k) }
    BY <2>1, <2>2, Zenon
  <2>4. 0 \in { k \in Nat : Q(k) } /\ Len(s) \in Nat
    BY <1>1
  <2> QED
    BY <2>3, <2>4, PrefixInduction
<1> QED
  BY <1>3

(* SeqAt(s, I) is the sequence of the elements of s at the indices of I.  *)
LEMMA SeqAtProps ==
  ASSUME NEW T, NEW s \in Seq(T), NEW I
  PROVE  /\ SeqAt(s, I) \in Seq(T)
         /\ Range(SeqAt(s, I)) = SeqAtRange(s, I, Len(s))
<1>1. Len(s) \in 0 .. Len(s)
  OBVIOUS
<1> QED
  BY <1>1, SeqAtPrefix, SeqAtDef

(* When s holds distinct elements at the indices of I, SeqAt(s, I) holds   *)
(* each of them once.                                                      *)
LEMMA SeqAtInjective ==
  ASSUME NEW T, NEW s \in Seq(T), NEW I,
         \A i, j \in 1 .. Len(s) : i \in I /\ j \in I /\ s[i] = s[j] => i = j
  PROVE  IsInjective(SeqAt(s, I))
<1> DEFINE F == SeqAtFcn(s, I)
           Q(m) == IsInjective(F[m])
<1>0. F = [i \in 0 .. Len(s) |->
             IF i = 0 THEN << >>
             ELSE IF i \in I THEN Append(F[i - 1], s[i]) ELSE F[i - 1]]
  BY SeqAtFcnEq
<1>4. /\ F[0] = << >>
      /\ \A i \in 1 .. Len(s) :
           F[i] = IF i \in I THEN Append(F[i - 1], s[i]) ELSE F[i - 1]
  <2>1. 0 \in 0 .. Len(s) /\ \A i \in 1 .. Len(s) : i \in 0 .. Len(s) /\ i # 0
    OBVIOUS
  <2> QED
    BY <1>0, <2>1, Zenon
<1>1. Q(0)
  BY <1>4 DEF IsInjective
<1>2. ASSUME NEW m \in 1 .. Len(s), Q(m - 1) PROVE Q(m)
  <2>1. s[m] \in T /\ m - 1 \in 0 .. Len(s)
    OBVIOUS
  <2>2. F[m - 1] \in Seq(T) /\ Range(F[m - 1]) = SeqAtRange(s, I, m - 1)
    BY <2>1, SeqAtPrefix
  <2>3. CASE m \in I
    <3>1. F[m] = Append(F[m - 1], s[m])
      BY <1>4, <2>3
    <3>2. s[m] \notin SeqAtRange(s, I, m - 1)
      BY <2>3 DEF SeqAtRange
    <3> QED
      BY <1>2, <2>1, <2>2, <3>1, <3>2, AppendRange
  <2>4. CASE m \notin I
    BY <1>2, <1>4, <2>4
  <2> QED
    BY <2>3, <2>4
<1>3. 0 .. Len(s) \subseteq { m \in Nat : Q(m) }
  <2>1. \A n \in 1 .. Len(s) : n \in Nat /\ n - 1 \in Nat
    OBVIOUS
  <2>2. \A n \in 1 .. Len(s) : Q(n - 1) => Q(n)
    BY <1>2
  <2>3. \A n \in 1 .. Len(s) :
          n - 1 \in { k \in Nat : Q(k) } => n \in { k \in Nat : Q(k) }
    BY <2>1, <2>2, Zenon
  <2>4. 0 \in { k \in Nat : Q(k) } /\ Len(s) \in Nat
    BY <1>1
  <2> QED
    BY <2>3, <2>4, PrefixInduction
<1> QED
  BY <1>3, SeqAtDef

-----------------------------------------------------------------------------
(***************************************************************************)
(* ConcatSeqs(c): the loop that appends c[1], c[2], ... in turn.           *)
(***************************************************************************)
ConcatFcn(c) ==
  CHOOSE F : F = [i \in 0 .. Len(c) |-> IF i = 0 THEN << >> ELSE F[i - 1] \o c[i]]

LEMMA ConcatFcnExists ==
  ASSUME NEW S, NEW c \in Seq(S)
  PROVE  \E F : F = [i \in 0 .. Len(c) |-> IF i = 0 THEN << >> ELSE F[i - 1] \o c[i]]
<1> DEFINE Body(g, i) == IF i = 0 THEN << >> ELSE g[i - 1] \o c[i]
           P(m) == \E g : g = [i \in 0 .. m |-> Body(g, i)]
<1>1. SUFFICES \A m \in 0 .. Len(c) : P(m)
  <2>1. Len(c) \in 0 .. Len(c)
    OBVIOUS
  <2> QED
    BY <2>1, Zenon DEF P, Body
<1>2. P(0)
  <2> DEFINE g0 == [i \in 0 .. 0 |-> << >>]
  <2>1. g0 = [i \in 0 .. 0 |-> Body(g0, i)]
    BY DEF Body
  <2> QED
    BY <2>1 DEF P
<1>3. ASSUME NEW m \in 1 .. Len(c), P(m - 1) PROVE P(m)
  <2>1. PICK g : g = [i \in 0 .. m - 1 |-> Body(g, i)]
    BY <1>3 DEF P
  <2> DEFINE h == [i \in 0 .. m |-> IF i < m THEN g[i] ELSE Body(g, m)]
  <2>2. \A i \in 0 .. m : Body(h, i) = Body(g, i)
    BY DEF Body
  <2>3. \A i \in 0 .. m : h[i] = Body(h, i)
    <3> SUFFICES ASSUME NEW i \in 0 .. m PROVE h[i] = Body(h, i)
      OBVIOUS
    <3>1. CASE i < m
      <4>1. h[i] = g[i] /\ i \in 0 .. m - 1
        BY <3>1 DEF h
      <4> QED
        BY <4>1, <2>1, <2>2
    <3>2. CASE i = m
      BY <3>2, <2>2 DEF h
    <3> QED
      BY <3>1, <3>2
  <2>4. h = [i \in 0 .. m |-> Body(h, i)]
    BY <2>3 DEF h
  <2> QED
    BY <2>4 DEF P
<1>4. 0 .. Len(c) \subseteq { n \in Nat : P(n) }
  <2>1. 0 \in { n \in Nat : P(n) }
    BY <1>2
  <2>2. \A n \in 1 .. Len(c) :
          n - 1 \in { k \in Nat : P(k) } => n \in { k \in Nat : P(k) }
    <3>1. \A n \in 1 .. Len(c) : n \in Nat /\ n - 1 \in Nat
      OBVIOUS
    <3>2. \A n \in 1 .. Len(c) : P(n - 1) => P(n)
      BY <1>3
    <3> QED
      BY <3>1, <3>2, Zenon
  <2>3. Len(c) \in Nat
    OBVIOUS
  <2> QED
    BY <2>1, <2>2, <2>3, PrefixInduction
<1> QED
  BY <1>4

(* The union of the ranges of c[1], ..., c[m].                             *)
ConcatRange(c, m) == UNION { Range(c[i]) : i \in 1 .. m }

(* ConcatSeqs(c) is a sequence of the elements of the sequences of c.     *)
LEMMA ConcatSeqsProps ==
  ASSUME NEW T, NEW c \in Seq(Seq(T))
  PROVE  /\ ConcatSeqs(c) \in Seq(T)
         /\ Range(ConcatSeqs(c)) = ConcatRange(c, Len(c))
<1> DEFINE F == ConcatFcn(c)
           Q(m) == F[m] \in Seq(T) /\ Range(F[m]) = ConcatRange(c, m)
<1>0. F = [i \in 0 .. Len(c) |-> IF i = 0 THEN << >> ELSE F[i - 1] \o c[i]]
  <2>1. \E G : G = [i \in 0 .. Len(c) |-> IF i = 0 THEN << >> ELSE G[i - 1] \o c[i]]
    BY ConcatFcnExists
  <2> QED
    BY <2>1 DEF ConcatFcn
<1>4. F[0] = << >> /\ \A i \in 1 .. Len(c) : F[i] = F[i - 1] \o c[i]
  <2>1. 0 \in 0 .. Len(c) /\ \A i \in 1 .. Len(c) : i \in 0 .. Len(c) /\ i # 0
    OBVIOUS
  <2> QED
    BY <1>0, <2>1, Zenon
<1>1. Q(0)
  BY <1>4 DEF ConcatRange, Range
<1>2. ASSUME NEW m \in 1 .. Len(c), Q(m - 1) PROVE Q(m)
  <2>1. c[m] \in Seq(T) /\ F[m] = F[m - 1] \o c[m]
    BY <1>4, ElementOfSeq
  <2>2. ConcatRange(c, m) = ConcatRange(c, m - 1) \cup Range(c[m])
    <3>1. 1 .. m = (1 .. m - 1) \cup {m}
      OBVIOUS
    <3> QED
      BY <3>1 DEF ConcatRange
  <2> QED
    BY <1>2, <2>1, <2>2, ConcatProperties, RangeConcatenation
<1>3. 0 .. Len(c) \subseteq { m \in Nat : Q(m) }
  <2>1. \A n \in 1 .. Len(c) : n \in Nat /\ n - 1 \in Nat
    OBVIOUS
  <2>2. \A n \in 1 .. Len(c) : Q(n - 1) => Q(n)
    BY <1>2
  <2>3. \A n \in 1 .. Len(c) :
          n - 1 \in { k \in Nat : Q(k) } => n \in { k \in Nat : Q(k) }
    BY <2>1, <2>2, Zenon
  <2>4. 0 \in { k \in Nat : Q(k) } /\ Len(c) \in Nat
    BY <1>1
  <2> QED
    BY <2>3, <2>4, PrefixInduction
<1>5. Len(c) \in 0 .. Len(c) /\ ConcatSeqs(c) = F[Len(c)]
  BY DEF ConcatSeqs, ConcatFcn
<1> QED
  BY <1>3, <1>5

-----------------------------------------------------------------------------
(***************************************************************************)
(* The stages of the scan.                                                 *)
(***************************************************************************)

(* The keywords the filter can find process q by.                          *)
KwOf(q) == CmdKw[q] \cup ArgKw[q]

(* The entries of the filtered list: a process and the keyword it was      *)
(* appended with.                                                          *)
Entry == [p : Procs, kw : KeywordSet]

(* `range keywordSet` visits every keyword: the keywords are distinct, so  *)
(* an order of as many distinct keywords leaves none out.                  *)
LEMMA MapOrderOnto ==
  ASSUME NEW o \in MapOrders
  PROVE  /\ o \in Seq(KeywordSet)
         /\ Len(o) = Len(Keywords)
         /\ \A k \in KeywordSet : \E j \in 1 .. Len(o) : o[j] = k
<1> DEFINE n == Len(Keywords)
<1>1. n \in Nat /\ IsFiniteSet(1 .. n) /\ Cardinality(1 .. n) = n
  BY KeywordsAssumption, FS_Interval
<1>2. Keywords \in Bijection(1 .. n, KeywordSet)
  BY KeywordsAssumption DEF Bijection, Injection, Surjection, IsInjective, KeywordSet
<1>3. IsFiniteSet(KeywordSet) /\ Cardinality(KeywordSet) = n
  BY <1>1, <1>2, FS_Bijection DEF ExistsBijection
<1>4. o \in Injection(1 .. n, KeywordSet)
  BY DEF MapOrders, Injection, IsInjective
<1>5. o \in Surjection(1 .. n, KeywordSet)
  BY <1>1, <1>3, <1>4, FS_Injection
<1>6. o \in Seq(KeywordSet) /\ Len(o) = n
  BY <1>1 DEF MapOrders
<1> QED
  BY <1>5, <1>6 DEF Surjection

(* filterProcesses appends p with keywords p has, and with at least one   *)
(* when p has any: the loop breaks only on a keyword of the path, and      *)
(* before that tries every keyword visited on the arguments.               *)
LEMMA FilterVisitProps ==
  ASSUME NEW p \in Procs, NEW o \in MapOrders
  PROVE  /\ FilterVisit(p, o) \in Seq(KeywordSet)
         /\ Range(FilterVisit(p, o)) \subseteq KwOf(p)
         /\ KwOf(p) # {} => Range(FilterVisit(p, o)) # {}
<1> DEFINE len == Len(o)
           hits == { j \in 1 .. len : o[j] \in CmdKw[p] }
           stop == IF hits = {} THEN len + 1
                   ELSE CHOOSE j \in hits : \A k \in hits : j <= k
           I == { j \in 1 .. stop - 1 : o[j] \in ArgKw[p] }
           A == SeqAt(o, I)
           B == IF stop <= len THEN << o[stop] >> ELSE << >>
<1> USE DEF len
<1>1. o \in Seq(KeywordSet) /\ len \in Nat
      /\ \A k \in KeywordSet : \E j \in 1 .. len : o[j] = k
  BY MapOrderOnto
<1>2. FilterVisit(p, o) = A \o B
  BY DEF FilterVisit
<1>3. /\ hits = {} => stop = len + 1
      /\ hits # {} => stop \in hits /\ \A k \in hits : stop <= k
  <2>1. CASE hits # {}
    <3>0. hits \in SUBSET Nat
      BY <1>1 DEF hits
    <3>1. \E j \in hits : \A k \in hits : j <= k
      BY <2>1, <3>0, LeastNat
    <3> QED
      BY <2>1, <3>1 DEF stop
  <2> QED
    BY <2>1 DEF stop
<1> HIDE DEF stop
<1>4. stop \in 1 .. len + 1
  <2>1. hits \subseteq 1 .. len
    BY DEF hits
  <2> QED
    BY <1>1, <1>3, <2>1
<1>5. A \in Seq(KeywordSet) /\ Range(A) = SeqAtRange(o, I, len)
  BY <1>1, SeqAtProps
<1>6. Range(A) \subseteq ArgKw[p]
  BY <1>5 DEF SeqAtRange
<1>7. B \in Seq(KeywordSet) /\ Range(B) \subseteq CmdKw[p]
      /\ (hits # {} => Range(B) # {})
  <2>1. CASE stop <= len
    <3>1. stop \in hits /\ stop \in 1 .. len
      BY <1>3, <1>4, <2>1 DEF hits
    <3>2. o[stop] \in CmdKw[p] /\ o[stop] \in KeywordSet
      BY <1>1, <3>1 DEF hits
    <3>3. B = << o[stop] >>
      BY <2>1 DEF B
    <3> QED
      BY <3>2, <3>3 DEF Range
  <2>2. CASE ~(stop <= len)
    <3>1. hits = {}
      BY <1>1, <1>3, <2>2 DEF hits
    <3>2. B = << >>
      BY <2>2 DEF B
    <3> QED
      BY <3>1, <3>2 DEF Range
  <2> QED
    BY <2>1, <2>2
<1> HIDE DEF A, B
<1>8. Range(A \o B) = Range(A) \cup Range(B) /\ A \o B \in Seq(KeywordSet)
  <2>1. A \in Seq(KeywordSet) /\ B \in Seq(KeywordSet)
    BY <1>5, <1>7
  <2>2. Range(A \o B) = Range(A) \cup Range(B)
    BY <2>1, RangeConcatenation, Zenon
  <2> QED
    BY <2>1, <2>2, ConcatProperties
<1>9. ASSUME KwOf(p) # {}, hits = {} PROVE Range(A) # {}
  <2>1. CmdKw[p] = {}
    <3>1. CmdKw[p] \subseteq KeywordSet
      BY ProcsAssumption
    <3> QED
      BY <1>1, <1>9, <3>1
  <2>2. PICK a \in ArgKw[p] : TRUE
    BY <1>9, <2>1 DEF KwOf
  <2>3. a \in KeywordSet
    BY ProcsAssumption
  <2>4. PICK j \in 1 .. len : o[j] = a
    BY <1>1, <2>3
  <2>5. j \in I
    BY <1>3, <1>9, <2>4
  <2> QED
    BY <1>5, <2>4, <2>5 DEF SeqAtRange
<1> QED
  BY <1>2, <1>6, <1>7, <1>8, <1>9 DEF KwOf

(* The filtered list holds, for each process of ps, an entry with each     *)
(* keyword it was appended with, and nothing else.                         *)
LEMMA FilteredProps ==
  ASSUME NEW ps \in Seq(Procs), NEW v \in [Procs -> Seq(KeywordSet)]
  PROVE  /\ Filtered(ps, v) \in Seq(Entry)
         /\ \A e \in Range(Filtered(ps, v)) :
              e.p \in Range(ps) /\ e.kw \in Range(v[e.p])
         /\ \A k \in 1 .. Len(ps) :
              Range(v[ps[k]]) # {} =>
                \E e \in Range(Filtered(ps, v)) : e.p = ps[k]
<1> DEFINE c == [k \in 1 .. Len(ps) |->
                   [j \in 1 .. Len(v[ps[k]]) |-> [p |-> ps[k], kw |-> v[ps[k]][j]]]]
<1>1. /\ c \in Seq(Seq(Entry))
      /\ Len(c) = Len(ps)
      /\ \A k \in 1 .. Len(ps) :
           Range(c[k]) = { [p |-> ps[k], kw |-> v[ps[k]][j]] : j \in 1 .. Len(v[ps[k]]) }
  <2>1. \A k \in 1 .. Len(ps) : ps[k] \in Procs /\ v[ps[k]] \in Seq(KeywordSet)
    OBVIOUS
  <2>2. \A k \in 1 .. Len(ps) : c[k] \in Seq(Entry)
    BY <2>1 DEF Entry
  <2>3. \A k \in 1 .. Len(ps) :
          Range(c[k]) = { [p |-> ps[k], kw |-> v[ps[k]][j]] : j \in 1 .. Len(v[ps[k]]) }
    BY DEF Range
  <2> QED
    BY <2>2, <2>3
<1>2. Filtered(ps, v) = ConcatSeqs(c)
  BY DEF Filtered
<1> HIDE DEF c
<1>3. Filtered(ps, v) \in Seq(Entry)
      /\ Range(Filtered(ps, v)) = ConcatRange(c, Len(ps))
  BY <1>1, <1>2, ConcatSeqsProps
<1>4. \A e \in Range(Filtered(ps, v)) :
        \E k \in 1 .. Len(ps) : \E j \in 1 .. Len(v[ps[k]]) :
          e = [p |-> ps[k], kw |-> v[ps[k]][j]]
  BY <1>1, <1>3 DEF ConcatRange
<1>5. \A e \in Range(Filtered(ps, v)) :
        e.p \in Range(ps) /\ e.kw \in Range(v[e.p])
  <2> SUFFICES ASSUME NEW e \in Range(Filtered(ps, v))
               PROVE  e.p \in Range(ps) /\ e.kw \in Range(v[e.p])
    OBVIOUS
  <2>1. PICK k \in 1 .. Len(ps) :
          \E j \in 1 .. Len(v[ps[k]]) : e = [p |-> ps[k], kw |-> v[ps[k]][j]]
    BY <1>4
  <2>2. PICK j \in 1 .. Len(v[ps[k]]) : e = [p |-> ps[k], kw |-> v[ps[k]][j]]
    BY <2>1
  <2>3. e.p = ps[k] /\ e.kw = v[ps[k]][j]
    BY <2>2
  <2>4. DOMAIN ps = 1 .. Len(ps) /\ v[ps[k]] \in Seq(KeywordSet)
    OBVIOUS
  <2>5. DOMAIN v[ps[k]] = 1 .. Len(v[ps[k]])
    BY <2>4
  <2> QED
    BY <2>3, <2>4, <2>5 DEF Range
<1>6. ASSUME NEW k \in 1 .. Len(ps), Range(v[ps[k]]) # {}
      PROVE  \E e \in Range(Filtered(ps, v)) : e.p = ps[k]
  <2>1. 1 \in 1 .. Len(v[ps[k]])
    BY <1>6 DEF Range
  <2>2. [p |-> ps[k], kw |-> v[ps[k]][1]] \in Range(c[k])
    BY <1>1, <2>1
  <2>3. [p |-> ps[k], kw |-> v[ps[k]][1]] \in Range(Filtered(ps, v))
    BY <1>3, <2>2 DEF ConcatRange
  <2> QED
    BY <2>3
<1> QED
  BY <1>3, <1>5, <1>6

(* The first loop of groupProcessesByKeywords lists the process of every   *)
(* entry: each entry's keyword is one of the keywords it goes through.     *)
LEMMA ByGroupProps ==
  ASSUME NEW scan \in Seq(Entry)
  PROVE  /\ ByGroup(scan) \in Seq(Procs)
         /\ Range(ByGroup(scan)) = { e.p : e \in Range(scan) }
<1> DEFINE I(g) == { k \in 1 .. Len(scan) : scan[k].kw = Keywords[g] }
           G(g) == SeqAt(scan, I(g))
           c == [g \in 1 .. Len(Keywords) |-> [k \in 1 .. Len(G(g)) |-> G(g)[k].p]]
<1>1. ByGroup(scan) = ConcatSeqs(c)
  BY DEF ByGroup
<1>2. \A g \in 1 .. Len(Keywords) :
        G(g) \in Seq(Entry) /\ Range(G(g)) = SeqAtRange(scan, I(g), Len(scan))
  BY SeqAtProps
<1> HIDE DEF G
<1>3. /\ c \in Seq(Seq(Procs))
      /\ Len(c) = Len(Keywords)
      /\ \A g \in 1 .. Len(Keywords) : Range(c[g]) = { e.p : e \in Range(G(g)) }
  <2>1. \A g \in 1 .. Len(Keywords) : c[g] \in Seq(Procs)
    <3> SUFFICES ASSUME NEW g \in 1 .. Len(Keywords) PROVE c[g] \in Seq(Procs)
      OBVIOUS
    <3>1. \A k \in 1 .. Len(G(g)) : G(g)[k] \in Entry
      BY <1>2, ElementOfSeq
    <3>2. \A k \in 1 .. Len(G(g)) : G(g)[k].p \in Procs
      BY <3>1 DEF Entry
    <3>3. Len(G(g)) \in Nat
      BY <1>2
    <3> QED
      BY <3>2, <3>3
  <2>2. \A g \in 1 .. Len(Keywords) : Range(c[g]) = { e.p : e \in Range(G(g)) }
    BY <1>2 DEF Range
  <2>3. Len(Keywords) \in Nat
    BY KeywordsAssumption
  <2> QED
    BY <2>1, <2>2, <2>3
<1> HIDE DEF c
<1>4. ByGroup(scan) \in Seq(Procs)
      /\ Range(ByGroup(scan)) = ConcatRange(c, Len(Keywords))
  BY <1>1, <1>3, ConcatSeqsProps
<1>5. ConcatRange(c, Len(Keywords)) \subseteq { e.p : e \in Range(scan) }
  <2>1. \A g \in 1 .. Len(Keywords) : Range(G(g)) \subseteq Range(scan)
    <3>1. DOMAIN scan = 1 .. Len(scan)
      OBVIOUS
    <3> HIDE DEF I
    <3>2. \A g \in 1 .. Len(Keywords) :
            SeqAtRange(scan, I(g), Len(scan)) \subseteq Range(scan)
      BY <3>1 DEF SeqAtRange, Range
    <3> QED
      BY <1>2, <3>2
  <2>2. \A g \in 1 .. Len(Keywords) :
          Range(c[g]) \subseteq { e.p : e \in Range(scan) }
    BY <1>3, <2>1
  <2> QED
    BY <2>2 DEF ConcatRange
<1>6. { e.p : e \in Range(scan) } \subseteq ConcatRange(c, Len(Keywords))
  <2> SUFFICES ASSUME NEW k \in 1 .. Len(scan)
               PROVE  scan[k].p \in ConcatRange(c, Len(Keywords))
    BY DEF Range
  <2>1. scan[k].kw \in KeywordSet
    <3>1. scan[k] \in Entry
      BY ElementOfSeq
    <3> QED
      BY <3>1 DEF Entry
  <2>2. PICK g \in 1 .. Len(Keywords) : scan[k].kw = Keywords[g]
    BY <2>1 DEF KeywordSet
  <2>3. scan[k] \in Range(G(g))
    BY <1>2, <2>2 DEF SeqAtRange
  <2>4. scan[k].p \in Range(c[g])
    BY <1>3, <2>3
  <2> QED
    BY <2>4 DEF ConcatRange
<1> QED
  BY <1>4, <1>5, <1>6

(* The second loop of groupProcessesByKeywords keeps each process at its   *)
(* first occurrence: it lists every process of all, each once.             *)
LEMMA GroupedProps ==
  ASSUME NEW all \in Seq(Procs)
  PROVE  /\ Grouped(all) \in Seq(Procs)
         /\ Range(Grouped(all)) = Range(all)
         /\ IsInjective(Grouped(all))
<1> DEFINE I == { k \in 1 .. Len(all) : \A j \in 1 .. k - 1 : all[j] # all[k] }
<1>1. Grouped(all) = SeqAt(all, I)
  BY DEF Grouped
<1>2. Grouped(all) \in Seq(Procs)
      /\ Range(Grouped(all)) = SeqAtRange(all, I, Len(all))
  BY <1>1, SeqAtProps
<1>3. SeqAtRange(all, I, Len(all)) = Range(all)
  <2>1. SeqAtRange(all, I, Len(all)) \subseteq Range(all)
    BY DEF SeqAtRange, Range
  <2>2. ASSUME NEW k \in 1 .. Len(all) PROVE all[k] \in SeqAtRange(all, I, Len(all))
    <3> DEFINE K == { i \in 1 .. Len(all) : all[i] = all[k] }
    <3>1. K \in SUBSET Nat /\ K # {}
      OBVIOUS
    <3>2. PICK m \in K : \A i \in K : m <= i
      BY <3>1, LeastNat
    <3>3. m \in I
      BY <3>2
    <3> QED
      BY <3>2, <3>3 DEF SeqAtRange
  <2> QED
    BY <2>1, <2>2 DEF Range
<1>4. IsInjective(Grouped(all))
  <2>1. \A i, j \in 1 .. Len(all) :
          i \in I /\ j \in I /\ all[i] = all[j] => i = j
    <3> SUFFICES ASSUME NEW i \in 1 .. Len(all), NEW j \in 1 .. Len(all),
                        i \in I, j \in I, all[i] = all[j], i # j
                 PROVE  FALSE
      OBVIOUS
    <3>1. CASE i < j
      BY <3>1
    <3>2. CASE j < i
      BY <3>2
    <3> QED
      BY <3>1, <3>2
  <2> QED
    BY <1>1, <2>1, SeqAtInjective
<1> QED
  BY <1>2, <1>3, <1>4

(* No two live processes hold the same PID.                                *)
AliveDistinct ==
  \A q, r \in Procs :
    life[q] = "alive" /\ life[r] = "alive" /\ PidOf[q] = PidOf[r] => q = r

(* getProcesses lists every live process, and only those: each PID of      *)
(* /proc is held by one live process.                                      *)
LEMMA ListedProps ==
  ASSUME life \in [Procs -> {"unborn", "alive", "dead"}], AliveDistinct
  PROVE  /\ Listed \in Seq(Procs)
         /\ Range(Listed) = { q \in Procs : life[q] = "alive" }
<1> DEFINE I == { k \in 1 .. Len(PidOrder) : Holder(PidOrder[k]) # {} }
           held == SeqAt(PidOrder, I)
<1>1. held \in Seq(Pids) /\ Range(held) = SeqAtRange(PidOrder, I, Len(PidOrder))
  BY PidOrderAssumption, SeqAtProps
<1>2. Listed = [k \in 1 .. Len(held) |-> CHOOSE q \in Holder(held[k]) : TRUE]
  BY DEF Listed
<1> HIDE DEF held
<1>3. \A k \in 1 .. Len(held) : Holder(held[k]) # {}
  <2>1. \A k \in 1 .. Len(held) : held[k] \in Range(held)
    BY <1>1 DEF Range
  <2> QED
    BY <1>1, <2>1 DEF SeqAtRange
<1>4. \A k \in 1 .. Len(held) : Listed[k] \in Holder(held[k])
  BY <1>2, <1>3
<1> HIDE DEF Listed
<1>5. Listed \in Seq(Procs) /\ DOMAIN Listed = 1 .. Len(held)
  <2>1. \A k \in 1 .. Len(held) : Listed[k] \in Procs
    BY <1>4 DEF Holder
  <2>2. Len(held) \in Nat
    BY <1>1
  <2> QED
    BY <1>2, <2>1, <2>2
<1>6. Range(Listed) \subseteq { q \in Procs : life[q] = "alive" }
  BY <1>4, <1>5 DEF Range, Holder
<1>7. ASSUME NEW q \in Procs, life[q] = "alive" PROVE q \in Range(Listed)
  <2>1. PidOf[q] \in Pids
    BY ProcsAssumption
  <2>2. PICK i \in 1 .. Len(PidOrder) : PidOrder[i] = PidOf[q]
    BY <2>1, PidOrderAssumption
  <2>3. q \in Holder(PidOf[q])
    BY <1>7 DEF Holder
  <2>4. PidOf[q] \in Range(held)
    BY <1>1, <2>2, <2>3 DEF SeqAtRange
  <2>5. PICK k \in 1 .. Len(held) : held[k] = PidOf[q]
    BY <1>1, <2>4 DEF Range
  <2>6. Listed[k] = q
    BY <1>4, <2>5, <1>7 DEF Holder, AliveDistinct
  <2> QED
    BY <1>5, <2>6 DEF Range
<1> QED
  BY <1>5, <1>6, <1>7

(* The processes the scan can list: the live processes that have a         *)
(* keyword.                                                                *)
KeywordProcesses == { q \in Procs : life[q] = "alive" /\ KwOf(q) # {} }

(* Whatever order each process visits the keywords in, getProcesses,       *)
(* filterProcesses and groupProcessesByKeywords list every live process    *)
(* that has a keyword, nothing else, and each of them once.                *)
THEOREM ScanListsKeywordProcesses ==
  ASSUME life \in [Procs -> {"unborn", "alive", "dead"}], AliveDistinct,
         NEW v \in [Procs -> UNION { Visits(q) : q \in Procs }],
         \A q \in Procs : v[q] \in Visits(q)
  PROVE  LET ordered == Grouped(ByGroup(Filtered(Listed, v)))
         IN  /\ ordered \in Seq(Procs)
             /\ IsInjective(ordered)
             /\ Range(ordered) = KeywordProcesses
<1> DEFINE filtered == Filtered(Listed, v)
           all == ByGroup(filtered)
<1>1. \A q \in Procs :
        /\ v[q] \in Seq(KeywordSet)
        /\ Range(v[q]) \subseteq KwOf(q)
        /\ KwOf(q) # {} => Range(v[q]) # {}
  <2> SUFFICES ASSUME NEW q \in Procs
               PROVE  /\ v[q] \in Seq(KeywordSet)
                      /\ Range(v[q]) \subseteq KwOf(q)
                      /\ KwOf(q) # {} => Range(v[q]) # {}
    OBVIOUS
  <2>1. PICK o \in MapOrders : v[q] = FilterVisit(q, o)
    BY DEF Visits
  <2> QED
    BY <2>1, FilterVisitProps
<1>2. Listed \in Seq(Procs)
      /\ Range(Listed) = { q \in Procs : life[q] = "alive" }
  BY ListedProps
<1>3. /\ filtered \in Seq(Entry)
      /\ \A e \in Range(filtered) : e.p \in Range(Listed) /\ e.kw \in Range(v[e.p])
      /\ \A k \in 1 .. Len(Listed) :
           Range(v[Listed[k]]) # {} => \E e \in Range(filtered) : e.p = Listed[k]
  <2>1. v \in [Procs -> Seq(KeywordSet)]
    BY <1>1
  <2> QED
    BY <1>2, <2>1, FilteredProps
<1> HIDE DEF filtered
<1>4. all \in Seq(Procs) /\ Range(all) = { e.p : e \in Range(filtered) }
  BY <1>3, ByGroupProps
<1> HIDE DEF all
<1>5. Range(all) = KeywordProcesses
  <2>1. Range(all) \subseteq KeywordProcesses
    <3> SUFFICES ASSUME NEW e \in Range(filtered) PROVE e.p \in KeywordProcesses
      BY <1>4
    <3>1. e.p \in Range(Listed) /\ e.kw \in Range(v[e.p])
      BY <1>3
    <3>2. e.p \in Procs /\ life[e.p] = "alive"
      BY <1>2, <3>1
    <3>3. KwOf(e.p) # {}
      BY <1>1, <3>1, <3>2
    <3> QED
      BY <3>2, <3>3 DEF KeywordProcesses
  <2>2. ASSUME NEW q \in KeywordProcesses PROVE q \in Range(all)
    <3>1. q \in Range(Listed) /\ Range(v[q]) # {}
      BY <1>1, <1>2, <2>2 DEF KeywordProcesses
    <3>2. PICK k \in 1 .. Len(Listed) : Listed[k] = q
      BY <1>2, <3>1 DEF Range
    <3> QED
      BY <1>3, <1>4, <3>1, <3>2
  <2> QED
    BY <2>1, <2>2
<1>6. /\ Grouped(all) \in Seq(Procs)
      /\ IsInjective(Grouped(all))
      /\ Range(Grouped(all)) = KeywordProcesses
  BY <1>4, <1>5, GroupedProps
<1> QED
  BY <1>6 DEF all, filtered
=============================================================================
