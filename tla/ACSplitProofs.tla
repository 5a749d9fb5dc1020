---------------------------- MODULE ACSplitProofs ----------------------------
(***************************************************************************)
(* Proofs about the cutting walk of ACSplit, for every alphabet, keyword   *)
(* set and line the constants allow.                                       *)
(***************************************************************************)
EXTENDS ACSplit, SequenceTheorems, TLAPS

(* A slice with bounds in range is a string over the alphabet.             *)
LEMMA SliceType ==
  ASSUME NEW S, NEW s \in Seq(S), NEW lo \in Int, NEW hi \in Int,
         0 <= lo, hi <= Len(s)
  PROVE  Slice(s, lo, hi) \in Seq(S)
BY SubSeqProperties DEF Slice

(* The rune read in a step of the loop is a rune of the alphabet.          *)
LEMMA CharType ==
  ASSUME TypeOK, i < Len(text)
  PROVE  Char \in Alphabet
BY DEF TypeOK, Char

-----------------------------------------------------------------------------
(***************************************************************************)
(* TypeOK is not inductive: Finish slices text from end + 1, which is in   *)
(* range only because every recorded match set end to a position of the   *)
(* line, and the roll back of matchString reads the literal two entries   *)
(* from the end, which is a string because entries come in pairs.          *)
(* TypeInv adds those two facts.                                           *)
(***************************************************************************)
EndInLine == results # <<>> => end \in 0 .. Len(text) - 1
InPairs == Len(results) % 2 = 0

TypeInv == TypeOK /\ EndInLine /\ InPairs

(* A non-empty sequence of pairs holds at least one pair.                  *)
LEMMA PairsLength ==
  ASSUME TypeOK, InPairs, Len(results) > 0
  PROVE  Len(results) >= 2
<1>1. Len(results) \in Nat
  BY DEF TypeOK
<1> QED
  BY <1>1 DEF InPairs

(* Dropping the last pair of a sequence (the roll back of matchString).    *)
LEMMA DropPair ==
  ASSUME NEW S, NEW s \in Seq(S), Len(s) >= 2
  PROVE  /\ SubSeq(s, 1, Len(s) - 2) \in Seq(S)
         /\ Len(SubSeq(s, 1, Len(s) - 2)) = Len(s) - 2
<1>1. \A k \in 1 .. Len(s) - 2 : s[k] \in S
  OBVIOUS
<1>2. Len(s) - 2 \in Int /\ 1 \in Int
  OBVIOUS
<1>3. SubSeq(s, 1, Len(s) - 2) \in Seq(S)
  BY <1>1, <1>2, SubSeqProperties
<1>4. Len(SubSeq(s, 1, Len(s) - 2)) = IF 1 <= Len(s) - 2 THEN Len(s) - 2 ELSE 0
  BY <1>1, <1>2, SubSeqProperties
<1>5. Len(s) \in Nat
  OBVIOUS
<1>6. Len(SubSeq(s, 1, Len(s) - 2)) = Len(s) - 2
  <2>1. CASE Len(s) = 2
    BY <1>4, <2>1
  <2>2. CASE Len(s) > 2
    BY <1>4, <1>5, <2>2
  <2> QED
    BY <1>5, <2>1, <2>2
<1> QED
  BY <1>3, <1>6

LEMMA InitTypeInv == Init => TypeInv
BY PatternSetsAssumption, TextsAssumption DEF Init, TypeInv, TypeOK, EndInLine, InPairs, Root

(* The roll back of matchString drops one whole pair.                      *)
LEMMA RollBackPairs ==
  ASSUME TypeInv
  PROVE  /\ ResultsAfterRollBack \in Seq(Seq(Alphabet))
         /\ Len(ResultsAfterRollBack) % 2 = 0
<1> USE DEF TypeInv
<1>1. CASE RollBack
  <2>1. Len(results) >= 2
    BY <1>1, PairsLength DEF RollBack
  <2>2. ResultsAfterRollBack = SubSeq(results, 1, Len(results) - 2)
    BY <1>1 DEF ResultsAfterRollBack
  <2>3. /\ SubSeq(results, 1, Len(results) - 2) \in Seq(Seq(Alphabet))
        /\ Len(SubSeq(results, 1, Len(results) - 2)) = Len(results) - 2
    BY <2>1, DropPair DEF TypeOK
  <2>4. Len(results) \in Nat
    BY DEF TypeOK
  <2>5. Len(results) % 2 = 0
    BY DEF InPairs
  <2>6. Len(ResultsAfterRollBack) = Len(results) - 2
    BY <2>2, <2>3
  <2>7. Len(ResultsAfterRollBack) % 2 = 0
    BY <2>1, <2>4, <2>5, <2>6
  <2> QED
    BY <2>2, <2>3, <2>7
<1>2. CASE ~RollBack
  BY <1>2 DEF ResultsAfterRollBack, InPairs, TypeOK
<1> QED
  BY <1>1, <1>2

LEMMA NextTypeInv == TypeInv /\ [Next]_vars => TypeInv'
<1> SUFFICES ASSUME TypeInv, [Next]_vars PROVE TypeInv'
  OBVIOUS
<1> USE DEF TypeInv
<1>1. Fallback \in Seq(Alphabet)
  BY DEF Fallback, TypeOK, Root
<1>2. NewStart \in 0 .. Len(text)
  BY DEF NewStart, TypeOK
<1>3. CASE Skip
  BY <1>1, <1>3 DEF Skip, TypeOK, EndInLine, InPairs
<1>4. CASE Extend
  <2>1. Fallback \o <<Char>> \in Seq(Alphabet)
    BY <1>1, <1>4, CharType DEF Extend
  <2> QED
    BY <1>2, <1>4, <2>1 DEF Extend, TypeOK, EndInLine, InPairs
<1>5. CASE Match
  <2>1. Fallback \o <<Char>> \in Seq(Alphabet)
    BY <1>1, <1>5, CharType DEF Match
  <2>2. EndAfterRollBack \in Int
    <3>1. CASE RollBack
      <4>1. Len(results) >= 2
        BY <3>1, PairsLength DEF RollBack
      <4>2. results[Len(results) - 1] \in Seq(Alphabet)
        BY <4>1 DEF TypeOK
      <4> QED
        BY <3>1, <4>2 DEF EndAfterRollBack, TypeOK
    <3>2. CASE ~RollBack
      BY <3>2 DEF EndAfterRollBack, TypeOK
    <3> QED
      BY <3>1, <3>2
  <2>3. Slice(text, LiteralLo, NewStart) \in Seq(Alphabet)
    BY <1>2, <1>5, <2>2, SliceType DEF Match, SliceOK, LiteralLo, TypeOK
  <2>4. CurrentStr \in Seq(Alphabet)
    BY <1>2, <1>5, SliceType DEF Match, CurrentStr, TypeOK
  <2>5. results' \in Seq(Seq(Alphabet)) /\ InPairs'
    BY <1>5, <2>3, <2>4, RollBackPairs DEF Match, InPairs
  <2>6. EndInLine'
    BY <1>5 DEF Match, EndInLine, TypeOK
  <2>7. TypeOK'
    BY <1>2, <1>5, <2>1, <2>5 DEF Match, TypeOK
  <2> QED
    BY <2>5, <2>6, <2>7
<1>6. CASE MatchPanic
  BY <1>6 DEF MatchPanic, TypeOK, EndInLine, InPairs
<1>7. CASE Finish
  <2>1. results # <<>> => Slice(text, end + 1, Len(text)) \in Seq(Alphabet)
    BY SliceType DEF TypeOK, EndInLine
  <2>2. out' \in Seq(Seq(Alphabet))
    BY <1>7, <2>1 DEF Finish, TypeOK
  <2> QED
    BY <1>7, <2>2 DEF Finish, TypeOK, EndInLine, InPairs
<1>8. CASE UNCHANGED vars
  BY <1>8 DEF vars, TypeOK, EndInLine, InPairs
<1> QED
  BY <1>3, <1>4, <1>5, <1>6, <1>7, <1>8 DEF Next

(* Type correctness of the walk: every variable keeps its type, whatever   *)
(* keywords and line splitWithAC is given.                                 *)
THEOREM TypeCorrect == Spec => []TypeOK
<1>1. Spec => []TypeInv
  BY InitTypeInv, NextTypeInv, PTL DEF Spec
<1> QED
  BY <1>1, PTL DEF TypeInv
-----------------------------------------------------------------------------
(***************************************************************************)
(* MatchedArePatterns.  matchString records text[start : current + 1]; it *)
(* is a keyword because the walk keeps the current trie node equal to the *)
(* text read since start (IterOnLine), and extends both by the same rune.  *)
(***************************************************************************)
IterOnLine ==
  /\ start <= i
  /\ iter # Root => iter = Slice(text, start, i)

PatternInv == TypeInv /\ IterOnLine /\ MatchedArePatterns

(* The rune the walk takes extends both the node and the text from start. *)
LEMMA StepString ==
  ASSUME TypeInv, IterOnLine, i < Len(text), HasNext(Fallback, Char)
  PROVE  /\ Slice(text, NewStart, i + 1) = Fallback \o <<Char>>
         /\ NewStart <= i
<1> USE DEF TypeInv
<1>1. CASE Fallback = Root
  <2>1. NewStart = i
    BY <1>1 DEF NewStart
  <2>2. SubSeq(text, i + 1, i + 1) = <<text[i + 1]>>
    <3>1. SubSeq(text, i + 1, i + 1) = [k \in 1 .. 1 |-> text[k + i]]
      BY DEF TypeOK
    <3>2. <<text[i + 1]>> = [k \in 1 .. 1 |-> text[k + i]]
      BY DEF TypeOK
    <3> QED
      BY <3>1, <3>2
  <2> QED
    BY <1>1, <2>1, <2>2 DEF Slice, Char, Root, TypeOK
<1>2. CASE Fallback # Root
  <2>1. Fallback = iter /\ iter # Root
    BY <1>2 DEF Fallback
  <2>2. NewStart = start
    BY <1>2 DEF NewStart
  <2>3. iter = SubSeq(text, start + 1, i)
    BY <2>1 DEF IterOnLine, Slice
  <2>4. SubSeq(text, start + 1, i + 1) = SubSeq(text, start + 1, i) \o <<text[i + 1]>>
    <3>1. start + 1 \in 1 .. Len(text) /\ i + 1 \in start + 1 .. Len(text)
      BY DEF IterOnLine, TypeOK
    <3> QED
      BY <3>1, SubSeqRecursiveSecond DEF TypeOK
  <2> QED
    BY <2>1, <2>2, <2>3, <2>4 DEF Slice, Char, IterOnLine
<1> QED
  BY <1>1, <1>2

(* Parity of the length of a sequence of pairs.                           *)
LEMMA EvenOdd ==
  ASSUME NEW n \in Nat, n % 2 = 0
  PROVE  (n + 1) % 2 # 0 /\ (n + 2) % 2 = 0
OBVIOUS

(* Appending a literal and a keyword to a sequence of pairs keeps every   *)
(* second entry a keyword.                                                 *)
LEMMA AppendPair ==
  ASSUME NEW P, NEW R \in Seq(Seq(Alphabet)), Len(R) % 2 = 0,
         \A k \in 1 .. Len(R) : k % 2 = 0 => R[k] \in P,
         NEW a, NEW b \in P
  PROVE  \A k \in 1 .. Len(R \o <<a, b>>) : k % 2 = 0 => (R \o <<a, b>>)[k] \in P
<1>1. /\ Len(R \o <<a, b>>) = Len(R) + 2
      /\ (R \o <<a, b>>)[Len(R) + 2] = b
      /\ \A j \in 1 .. Len(R) : (R \o <<a, b>>)[j] = R[j]
  OBVIOUS
<1>2. Len(R) \in Nat /\ (Len(R) + 1) % 2 # 0
  BY EvenOdd
<1> SUFFICES ASSUME NEW k \in 1 .. Len(R) + 2, k % 2 = 0
             PROVE  (R \o <<a, b>>)[k] \in P
  BY <1>1
<1>3. CASE k <= Len(R)
  BY <1>1, <1>3
<1>4. CASE k = Len(R) + 1
  BY <1>2, <1>4
<1>5. CASE k = Len(R) + 2
  BY <1>1, <1>5
<1> QED
  BY <1>2, <1>3, <1>4, <1>5

(* The roll back keeps a prefix of the pairs.                              *)
LEMMA RollBackKeepsPatterns ==
  ASSUME TypeInv, MatchedArePatterns
  PROVE  \A k \in 1 .. Len(ResultsAfterRollBack) :
            k % 2 = 0 => ResultsAfterRollBack[k] \in pats
<1> USE DEF TypeInv
<1>1. CASE RollBack
  <2>1. Len(results) >= 2
    BY <1>1, PairsLength DEF RollBack
  <2>2. ResultsAfterRollBack = SubSeq(results, 1, Len(results) - 2)
    BY <1>1 DEF ResultsAfterRollBack
  <2>3. /\ Len(SubSeq(results, 1, Len(results) - 2)) = Len(results) - 2
        /\ \A k \in 1 .. Len(results) - 2 :
              SubSeq(results, 1, Len(results) - 2)[k] = results[k]
    BY <2>1, DropPair DEF TypeOK
  <2> QED
    BY <2>2, <2>3 DEF MatchedArePatterns
<1>2. CASE ~RollBack
  BY <1>2 DEF ResultsAfterRollBack, MatchedArePatterns
<1> QED
  BY <1>1, <1>2

LEMMA InitPatternInv == Init => PatternInv
BY InitTypeInv DEF Init, PatternInv, IterOnLine, MatchedArePatterns, Root

LEMMA NextPatternInv == PatternInv /\ [Next]_vars => PatternInv'
<1> SUFFICES ASSUME PatternInv, [Next]_vars PROVE PatternInv'
  OBVIOUS
<1>1. TypeInv'
  BY NextTypeInv DEF PatternInv
<1> USE DEF PatternInv
<1>2. CASE Skip
  <2>1. iter' = Root
    BY <1>2 DEF Skip, Fallback
  <2>2. IterOnLine'
    BY <1>2, <2>1 DEF Skip, IterOnLine, TypeInv, TypeOK
  <2>3. MatchedArePatterns'
    BY <1>2 DEF Skip, MatchedArePatterns
  <2> QED
    BY <1>1, <2>2, <2>3
<1>3. CASE Extend
  <2>1. Slice(text, NewStart, i + 1) = Fallback \o <<Char>> /\ NewStart <= i
    BY <1>3, StepString DEF Extend
  <2>2. IterOnLine'
    <3>1. start' <= i'
      BY <1>3, <2>1 DEF Extend, NewStart, TypeInv, TypeOK
    <3>2. iter' = Slice(text', start', i')
      BY <1>3, <2>1 DEF Extend
    <3> QED
      BY <3>1, <3>2 DEF IterOnLine
  <2>3. MatchedArePatterns'
    BY <1>3 DEF Extend, MatchedArePatterns
  <2> QED
    BY <1>1, <2>2, <2>3
<1>4. CASE Match
  <2>1. Slice(text, NewStart, i + 1) = Fallback \o <<Char>> /\ NewStart <= i
    BY <1>4, StepString DEF Match
  <2>2. IterOnLine'
    <3>1. start' <= i'
      BY <1>4, <2>1 DEF Match, NewStart, TypeInv, TypeOK
    <3>2. iter' = Slice(text', start', i')
      BY <1>4, <2>1 DEF Match
    <3> QED
      BY <3>1, <3>2 DEF IterOnLine
  <2>3. CurrentStr \in pats
    BY <1>4, <2>1 DEF Match, CurrentStr
  <2>4. /\ ResultsAfterRollBack \in Seq(Seq(Alphabet))
        /\ Len(ResultsAfterRollBack) % 2 = 0
        /\ \A k \in 1 .. Len(ResultsAfterRollBack) :
              k % 2 = 0 => ResultsAfterRollBack[k] \in pats
    BY RollBackPairs, RollBackKeepsPatterns
  <2>5. \A k \in 1 .. Len(results') : k % 2 = 0 => results'[k] \in pats
    BY <1>4, <2>3, <2>4, AppendPair DEF Match
  <2>6. MatchedArePatterns'
    BY <1>4, <2>5 DEF Match, MatchedArePatterns
  <2> QED
    BY <1>1, <2>2, <2>6
<1>5. CASE MatchPanic
  BY <1>1, <1>5 DEF MatchPanic, IterOnLine, MatchedArePatterns
<1>6. CASE Finish
  BY <1>1, <1>6 DEF Finish, IterOnLine, MatchedArePatterns
<1>7. CASE UNCHANGED vars
  BY <1>1, <1>7 DEF vars, IterOnLine, MatchedArePatterns
<1> QED
  BY <1>2, <1>3, <1>4, <1>5, <1>6, <1>7 DEF Next

(* Whatever the keywords and the line, every segment splitWithAC records *)
(* as a match is one of the keywords (the run ACSplit_safe checks it on   *)
(* small instances).                                                       *)
THEOREM MatchesAreKeywords == Spec => []MatchedArePatterns
<1>1. Spec => []PatternInv
  BY InitPatternInv, NextPatternInv, PTL DEF Spec
<1> QED
  BY <1>1, PTL DEF PatternInv
-----------------------------------------------------------------------------
(***************************************************************************)
(* NoPanic.  The literal in front of a match is text[end + 1 : start]     *)
(* (text[0 : start] before the first match), and it is a valid slice when  *)
(* no keyword occurs inside another.  Then a keyword node has no child in  *)
(* the trie, so the walk falls back to the root after every match and the *)
(* next candidate starts after end; and the roll back, which needs the     *)
(* previous match to occur inside the current one, never happens.          *)
(***************************************************************************)

(* No keyword of P occurs inside another keyword of P.                     *)
NoNestingIn(P) == \A p, q \in P : p # q => ~StringsContains(q, p)

(* The strengthening of NoPanic: end is 0 until the first match, then      *)
(* before the current rune, and a candidate that is not yet a keyword      *)
(* started after it.                                                       *)
PanicFreeInv ==
  /\ PatternInv
  /\ pats \in PatternSets
  /\ pc # "panic"
  /\ results = <<>> => end = 0
  /\ results # <<>> => end < i
  /\ iter # Root /\ iter \notin pats /\ results # <<>> => end < start

(* A keyword is a leaf of the trie when no keyword occurs inside another: *)
(* a child of it would be a prefix of a longer keyword, which contains it. *)
LEMMA KeywordIsLeaf ==
  ASSUME NEW P \in SUBSET Seq(Alphabet), NoNestingIn(P),
         NEW p \in P, NEW c \in Alphabet
  PROVE  p \o <<c>> \notin TrieNodes(P)
<1> SUFFICES ASSUME p \o <<c>> \in TrieNodes(P) PROVE FALSE
  OBVIOUS
<1>0. PICK q \in P : \E l \in 0 .. Len(q) : SubSeq(q, 1, l) = p \o <<c>>
  BY DEF TrieNodes
<1>1. PICK l \in 0 .. Len(q) : SubSeq(q, 1, l) = p \o <<c>>
  BY <1>0
<1>2. l = Len(p) + 1
  BY <1>1
<1>3. SubSeq(q, 1, Len(p)) = p
  <2>1. \A k \in 1 .. Len(p) : q[k] = p[k]
    <3> SUFFICES ASSUME NEW k \in 1 .. Len(p) PROVE q[k] = p[k]
      OBVIOUS
    <3>1. SubSeq(q, 1, l)[k] = q[k]
      BY <1>2
    <3>2. (p \o <<c>>)[k] = p[k]
      OBVIOUS
    <3> QED
      BY <1>1, <3>1, <3>2
  <2> QED
    BY <1>2, <2>1
<1>4. StringsContains(q, p)
  <2>1. 0 \in 0 .. Len(q) - Len(p) /\ Slice(q, 0, 0 + Len(p)) = p
    BY <1>2, <1>3 DEF Slice
  <2> QED
    BY <2>1 DEF StringsContains
<1>5. p # q
  BY <1>2
<1> QED
  BY <1>4, <1>5 DEF NoNestingIn

(* Without nesting, a non-root node the walk extends is not a keyword.     *)
LEMMA ExtendedNodeNotKeyword ==
  ASSUME TypeInv, NoNestingIn(pats), i < Len(text),
         HasNext(Fallback, Char), Fallback # Root
  PROVE  Fallback = iter /\ iter \notin pats
<1>1. Fallback = iter /\ HasNext(iter, Char)
  BY DEF Fallback
<1>2. Char \in Alphabet
  BY CharType DEF TypeInv
<1>3. pats \in SUBSET Seq(Alphabet)
  BY DEF TypeInv, TypeOK
<1> QED
  BY <1>1, <1>2, <1>3, KeywordIsLeaf DEF HasNext

(* Without nesting, a new match never supersedes the previous one.         *)
LEMMA NoRollBack ==
  ASSUME PatternInv, NoNestingIn(pats), CurrentStr \in pats
  PROVE  ~RollBack
<1> SUFFICES ASSUME RollBack PROVE FALSE
  OBVIOUS
<1>1. Len(results) >= 2 /\ Len(results) % 2 = 0
  BY PairsLength DEF RollBack, PatternInv, TypeInv, InPairs
<1>2. results[Len(results)] \in pats
  <2>0. results \in Seq(Seq(Alphabet))
    BY DEF PatternInv, TypeInv, TypeOK
  <2>1. Len(results) \in 1 .. Len(results)
    BY <1>1, <2>0
  <2>2. \A k \in 1 .. Len(results) : k % 2 = 0 => results[k] \in pats
    BY DEF PatternInv, MatchedArePatterns
  <2> QED
    BY <1>1, <2>1, <2>2
<1>3. results[Len(results)] # CurrentStr
       /\ StringsContains(CurrentStr, results[Len(results)])
  BY DEF RollBack
<1> QED
  BY <1>2, <1>3, Zenon DEF NoNestingIn

(* A match step slices text[lo : start] within bounds.                     *)
LEMMA MatchSliceOK ==
  ASSUME PanicFreeInv, NoNestingIn(pats), i < Len(text),
         HasNext(Fallback, Char), Fallback \o <<Char>> \in pats
  PROVE  SliceOK(text, LiteralLo, NewStart)
<1> USE DEF PanicFreeInv, PatternInv
<1>1. Slice(text, NewStart, i + 1) = Fallback \o <<Char>> /\ NewStart <= i
  BY StepString
<1>2. ~RollBack
  BY <1>1, NoRollBack DEF CurrentStr
<1>3. LiteralLo = IF end = 0 THEN 0 ELSE end + 1
  BY <1>2 DEF LiteralLo, EndAfterRollBack
<1>4. NewStart \in 0 .. Len(text)
  BY DEF NewStart, TypeInv, TypeOK
<1>5. results # <<>> => end \in 0 .. Len(text) - 1
  BY DEF TypeInv, EndInLine
<1>6. results # <<>> /\ end # 0 => end < NewStart
  <2>1. CASE Fallback = Root
    BY <2>1 DEF NewStart
  <2>2. CASE Fallback # Root
    <3>1. Fallback = iter /\ iter \notin pats
      BY <2>2, ExtendedNodeNotKeyword
    <3> QED
      BY <2>2, <3>1 DEF NewStart
  <2> QED
    BY <2>1, <2>2
<1> QED
  BY <1>1, <1>3, <1>4, <1>5, <1>6 DEF SliceOK, TypeInv, TypeOK

LEMMA InitPanicFreeInv == Init => PanicFreeInv
BY InitPatternInv DEF Init, PanicFreeInv

LEMMA NextPanicFreeInv ==
  ASSUME NoNestingIn(pats), PanicFreeInv, [Next]_vars
  PROVE  PanicFreeInv'
<1>1. PatternInv'
  BY NextPatternInv DEF PanicFreeInv
<1> USE DEF PanicFreeInv
<1>2. CASE Skip
  <2>1. iter' = Root
    BY <1>2 DEF Skip, Fallback
  <2> QED
    BY <1>1, <1>2, <2>1 DEF Skip, PatternInv, TypeInv, TypeOK
<1>3. CASE Extend
  <2>1. results # <<>> => end < NewStart
    <3>1. CASE Fallback = Root
      BY <1>3, <3>1 DEF NewStart
    <3>2. CASE Fallback # Root
      <4>1. Fallback = iter /\ iter \notin pats
        BY <1>3, <3>2, ExtendedNodeNotKeyword DEF Extend, PatternInv
      <4> QED
        BY <3>2, <4>1 DEF NewStart
    <3> QED
      BY <3>1, <3>2
  <2> QED
    BY <1>1, <1>3, <2>1 DEF Extend, PatternInv, TypeInv, TypeOK
<1>4. CASE Match
  <2>1. results' # <<>>
    BY <1>4 DEF Match
  <2> QED
    BY <1>1, <1>4, <2>1 DEF Match, PatternInv, TypeInv, TypeOK
<1>5. CASE MatchPanic
  BY <1>5, MatchSliceOK DEF MatchPanic
<1>6. CASE Finish
  BY <1>1, <1>6 DEF Finish
<1>7. CASE UNCHANGED vars
  BY <1>1, <1>7 DEF vars
<1> QED
  BY <1>2, <1>3, <1>4, <1>5, <1>6, <1>7 DEF Next

(* When no keyword of any set occurs inside another (the keyword sets of   *)
(* the run ACSplit_safe), splitting a line never panics on the slice of   *)
(* the literal in front of a match, whatever the line.  The default set,  *)
(* where "fail" occurs in "failed", is outside the hypothesis and does     *)
(* panic (run acsplit_panic).                                              *)
THEOREM NoPanicWithoutNesting ==
  ASSUME \A P \in PatternSets : NoNestingIn(P)
  PROVE  Spec => []NoPanic
<1>1. Init => PanicFreeInv
  BY InitPanicFreeInv
<1>2. PanicFreeInv /\ [Next]_vars => PanicFreeInv'
  BY NextPanicFreeInv DEF PanicFreeInv
<1>3. PanicFreeInv => NoPanic
  BY DEF PanicFreeInv, NoPanic
<1> QED
  BY <1>1, <1>2, <1>3, PTL DEF Spec
=============================================================================
