----------------------------- MODULE MC_ACSplit -----------------------------
(***************************************************************************)
(* Instances of ACSplit for TLC: every line of up to MaxTextLen runes over *)
(* a two-rune alphabet, against the keyword sets named below.             *)
(***************************************************************************)
EXTENDS ACSplit, FiniteSets

\* Runes are numbers: TLC takes a one-letter string for a sequence, which
\* would blur a string and a sequence of strings.
MCAlphabet == {1, 2}

\* Bound on the length of a line; 6 lets two keywords and a literal between
\* them, and a keyword that extends a previous one, occur in one line.
MaxTextLen == 6

\* Bound on the length of a keyword.
MaxKeywordLen == 3

StringsUpTo(lo, hi) == UNION { [1 .. n -> MCAlphabet] : n \in lo .. hi }

MCTexts == StringsUpTo(0, MaxTextLen)

Keywords == StringsUpTo(2, MaxKeywordLen)

(* Keyword sets in which no keyword occurs inside another one, of 1 to 3   *)
(* keywords of length at least 2.                                          *)
SubstringFreeSets ==
  { P \in SUBSET Keywords :
      /\ Cardinality(P) \in 1 .. 3
      /\ \A p, q \in P : p # q => ~StringsContains(q, p) }

(* Every set of one or two keywords of 1 to MaxKeywordLen runes: prefixes, *)
(* substrings and one-rune keywords included, as the default set has.      *)
AnySets ==
  { P \in SUBSET StringsUpTo(1, MaxKeywordLen) : Cardinality(P) \in 1 .. 2 }

(* A keyword set shaped like the default one ("fail" and "failed",         *)
(* "succeed" and "succeeded"): one keyword is a prefix of another.         *)
PrefixSets == { {<<1, 2>>, <<1, 2, 2>>} }

(* A keyword set with a one-rune keyword.                                  *)
OneRuneSets == { {<<1>>} }

(* A keyword set where one keyword starts inside a prefix of another that  *)
(* the line does not complete ("abc"/"bd" of ac.go's traversal).           *)
OverlapSets == { {<<1, 2, 2>>, <<2, 1>>} }
=============================================================================
