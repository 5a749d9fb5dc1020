------------------------------- MODULE ACSplit -------------------------------
(***************************************************************************)
(* The cutting walk of the keyword matcher: AcAutoMachine.splitWithAC and  *)
(* matchString (src/.../utils/colorprint/ac.go).  One step of the model is *)
(* one iteration of the `for i, c := range chars` loop of splitWithAC, and *)
(* the last step is the code after the loop that builds the returned       *)
(* slice.                                                                  *)
(*                                                                         *)
(* A string is a sequence of runes over Alphabet (the code converts to     *)
(* []rune, so a rune is one element).  Indices are kept 0-based as in Go:  *)
(* Slice(s, lo, hi) is the Go expression s[lo:hi].  The trie built by      *)
(* addPattern is represented by its nodes, the prefixes of the patterns:   *)
(* the node reached from the root by the path p is p itself.               *)
(*                                                                         *)
(* A slice expression with bounds out of range panics in Go: the model     *)
(* takes such a step to pc = "panic" and stops there.                      *)
(***************************************************************************)
EXTENDS Integers, Sequences

CONSTANTS
  Alphabet,     \* the runes that may occur in a line
  PatternSets,  \* the keyword sets (keys of ColorConfig) to try
  Texts         \* the lines to split

ASSUME AlphabetAssumption == Alphabet # {}
ASSUME PatternSetsAssumption ==
  PatternSets \subseteq SUBSET (Seq(Alphabet) \ {<<>>})
ASSUME TextsAssumption == Texts \subseteq Seq(Alphabet)

VARIABLES
  pats,     \* the keywords the automaton was built from
  text,     \* content, the line being split
  pc,       \* "walk" inside the loop, "done" returned, "panic" crashed
  i,        \* the loop index: the next rune is text[i + 1]
  iter,     \* the current trie node
  start,    \* start position of the current candidate match
  end,      \* end position of the last recorded match
  results,  \* the segments recorded so far
  out       \* the slice returned by splitWithAC

vars == <<pats, text, pc, i, iter, start, end, results, out>>

Root == <<>>

(* Go's s[lo:hi] on a []rune, and when it does not panic.                  *)
Slice(s, lo, hi) == SubSeq(s, lo + 1, hi)
SliceOK(s, lo, hi) == 0 <= lo /\ lo <= hi /\ hi <= Len(s)

(* strings.Contains(s, t): t occurs in s.                                  *)
StringsContains(s, t) ==
  \E k \in 0 .. Len(s) - Len(t) : Slice(s, k, k + Len(t)) = t

(* The nodes of the trie addPattern builds from the patterns P.            *)
TrieNodes(P) == UNION { { SubSeq(p, 1, l) : l \in 0 .. Len(p) } : p \in P }

(* iter.next[c] exists: node n has an outgoing edge on rune c.             *)
HasNext(n, c) == n \o <<c>> \in TrieNodes(pats)

(* The concatenation of a sequence of strings.                             *)
Concat(segs) ==
  LET f[k \in 0 .. Len(segs)] == IF k = 0 THEN <<>> ELSE f[k - 1] \o segs[k]
  IN  f[Len(segs)]

-----------------------------------------------------------------------------
Init ==
  /\ pats \in PatternSets
  /\ text \in Texts
  /\ pc = "walk"
  /\ i = 0
  /\ iter = Root
  /\ start = 0
  /\ end = 0
  /\ results = <<>>
  /\ out = <<>>

(* The rune read in this iteration.                                        *)
Char == text[i + 1]

(* Lines 107-110: when iter has no edge on c, iter = iter.fail is repeated *)
(* while !ok and iter != root, and ok is never re-tested inside the loop,  *)
(* so the walk always falls back to the root.                              *)
Fallback == IF HasNext(iter, Char) THEN iter ELSE Root

(* Mutant: the root test made on iter before the fallback of 107-110.     *)
NewStartBeforeFallback == IF iter = Root THEN i ELSE start

(* Line 112: the start is recorded only when the edge is taken from root. *)
NewStart == IF Fallback = Root THEN i ELSE start

(* matchString, lines 131-135: the matched text, and whether it supersedes *)
(* the previous match (the previous match occurs in it and differs).       *)
CurrentStr == Slice(text, NewStart, i + 1)
RollBack ==
  /\ Len(results) > 0
  /\ StringsContains(CurrentStr, results[Len(results)])
  /\ CurrentStr # results[Len(results)]
EndAfterRollBack ==
  IF RollBack THEN end - (Len(results[Len(results) - 1]) + 1) ELSE end
ResultsAfterRollBack ==
  IF RollBack THEN SubSeq(results, 1, Len(results) - 2) ELSE results
(* Mutant: the literal always starts after end, with no end = 0 case.     *)
LiteralLoNoZeroCase == EndAfterRollBack + 1

(* Lines 137-141: the lower bound of the literal in front of the match.    *)
LiteralLo == IF EndAfterRollBack = 0 THEN 0 ELSE EndAfterRollBack + 1

(* No edge on c even from the root: the rune is skipped.                   *)
Skip ==
  /\ pc = "walk"
  /\ i < Len(text)
  /\ ~HasNext(Fallback, Char)
  /\ iter' = Fallback
  /\ i' = i + 1
  /\ UNCHANGED <<pats, text, pc, start, end, results, out>>

(* The edge is taken and the node reached is not a pattern.                *)
Extend ==
  /\ pc = "walk"
  /\ i < Len(text)
  /\ HasNext(Fallback, Char)
  /\ Fallback \o <<Char>> \notin pats
  /\ iter' = Fallback \o <<Char>>
  /\ start' = NewStart
  /\ i' = i + 1
  /\ UNCHANGED <<pats, text, pc, end, results, out>>

(* The edge reaches a pattern node: matchString appends the literal in     *)
(* front of the match and the match, possibly after rolling back the      *)
(* previous pair, and returns current as the new end.                      *)
Match ==
  /\ pc = "walk"
  /\ i < Len(text)
  /\ HasNext(Fallback, Char)
  /\ Fallback \o <<Char>> \in pats
  /\ SliceOK(text, LiteralLo, NewStart)
  /\ iter' = Fallback \o <<Char>>
  /\ start' = NewStart
  /\ results' = ResultsAfterRollBack
                  \o <<Slice(text, LiteralLo, NewStart), CurrentStr>>
  /\ end' = i
  /\ i' = i + 1
  /\ UNCHANGED <<pats, text, pc, out>>

(* The same step when the literal's slice bounds are out of range.         *)
MatchPanic ==
  /\ pc = "walk"
  /\ i < Len(text)
  /\ HasNext(Fallback, Char)
  /\ Fallback \o <<Char>> \in pats
  /\ ~SliceOK(text, LiteralLo, NewStart)
  /\ pc' = "panic"
  /\ UNCHANGED <<pats, text, i, iter, start, end, results, out>>

(* Mutant: the trailing literal taken from end instead of end + 1.        *)
FinishTrailingFromEnd ==
  /\ pc = "walk"
  /\ i = Len(text)
  /\ pc' = "done"
  /\ out' = IF results = <<>>
              THEN <<text>>
            ELSE IF end # Len(text) - 1 /\ Len(text) # 0
              THEN Append(results, Slice(text, end, Len(text)))
            ELSE results
  /\ UNCHANGED <<pats, text, i, iter, start, end, results>>

(* Lines 121-127, after the loop: no match returns the whole line, else a  *)
(* trailing literal is appended when the last match does not end the line. *)
Finish ==
  /\ pc = "walk"
  /\ i = Len(text)
  /\ pc' = "done"
  /\ out' = IF results = <<>>
              THEN <<text>>
            ELSE IF end # Len(text) - 1 /\ Len(text) # 0
              THEN Append(results, Slice(text, end + 1, Len(text)))
            ELSE results
  /\ UNCHANGED <<pats, text, i, iter, start, end, results>>

Next == Skip \/ Extend \/ Match \/ MatchPanic \/ Finish

Spec == Init /\ [][Next]_vars

-----------------------------------------------------------------------------
(* The type invariant.                                                     *)
TypeOK ==
  /\ pats \in SUBSET (Seq(Alphabet) \ {<<>>})
  /\ text \in Seq(Alphabet)
  /\ pc \in {"walk", "done", "panic"}
  /\ i \in 0 .. Len(text)
  /\ iter \in Seq(Alphabet)
  /\ start \in 0 .. Len(text)
  /\ end \in Int
  /\ results \in Seq(Seq(Alphabet))
  /\ out \in Seq(Seq(Alphabet))

(* Spec 8.1, the reconstruction invariant: the segments splitWithAC        *)
(* returns concatenate to the line it was given.                           *)
Reconstruction == pc = "done" => Concat(out) = text

(* Every segment matchString records as a match (every second one) is one *)
(* of the keywords: it is the text between the recorded start and the     *)
(* current rune, so this fails if start is stale when the match is found.  *)
MatchedArePatterns ==
  \A k \in 1 .. Len(results) : k % 2 = 0 => results[k] \in pats

(* Splitting a line never panics on a slice expression of matchString.    *)
NoPanic == pc # "panic"

(* Spec 4.1: the whole line comes back as one unmatched segment only when *)
(* no keyword occurs in it (every occurrence is isolated otherwise).       *)
WholeLineOnlyWithoutKeyword ==
  (pc = "done" /\ out = <<text>>) =>
     \A p \in pats : ~StringsContains(text, p)
=============================================================================
