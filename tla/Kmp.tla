---------------------------------- MODULE Kmp ----------------------------------
(***************************************************************************)
(* The string search of the EuroScope patch: buildKMPTable and KMPSearch   *)
(* (openfsd-patch-for-es-main/src/VATSIMAuthPatch.cpp), one step for every *)
(* turn of a loop.  A string is a sequence; At counts its characters from  *)
(* zero, as the code does.                                                 *)
(***************************************************************************)
EXTENDS Integers, Sequences

VARIABLES
  text,     \* where to search
  pattern,  \* what for
  loop,     \* the loop that runs: "build", "search", or "none"
  i,        \* the position it has reached
  j,        \* how much of the pattern matches before i
  table,    \* kmpTable
  result    \* what KMPSearch has returned

kvars == <<text, pattern, loop, i, j, table, result>>

At(s, k) == s[k + 1]

KInit ==
  /\ text = <<>> /\ pattern = <<>>
  /\ loop = "none" /\ i = 0 /\ j = 0
  /\ table = <<>> /\ result = -1

\* The program that runs it is started again.
KReset ==
  /\ text' = <<>> /\ pattern' = <<>>
  /\ loop' = "none" /\ i' = 0 /\ j' = 0
  /\ table' = <<>> /\ result' = -1

\* KMPSearch is called, and calls buildKMPTable.
Call(t, p) ==
  /\ loop = "none"
  /\ text' = t /\ pattern' = p
  /\ loop' = "build" /\ i' = 1 /\ j' = 0
  /\ table' = [k \in 0..(Len(p) - 1) |-> 0]
  /\ UNCHANGED result

Mismatch(c) == j > 0 /\ c # At(pattern, j)
Matched(c) == IF c = At(pattern, j) THEN j + 1 ELSE j

\* Faulty: falls back to the entry of the prefix that has just failed.
FallBackTooFar == j' = table[j] /\ UNCHANGED <<text, pattern, loop, i, table, result>>

\* The inner while loop: the next shorter prefix that still matches before i.
FallBack == j' = table[j - 1] /\ UNCHANGED <<text, pattern, loop, i, table, result>>

BuildFallBack ==
  /\ loop = "build" /\ i < Len(pattern)
  /\ Mismatch(At(pattern, i))
  /\ FallBack

\* Faulty: stores the entry before the match is counted.
BuildEntryEarly ==
  /\ loop = "build" /\ i < Len(pattern)
  /\ ~Mismatch(At(pattern, i))
  /\ j' = Matched(At(pattern, i))
  /\ table' = [table EXCEPT ![i] = j]
  /\ i' = i + 1
  /\ UNCHANGED <<text, pattern, loop, result>>

BuildEntry ==
  /\ loop = "build" /\ i < Len(pattern)
  /\ ~Mismatch(At(pattern, i))
  /\ j' = Matched(At(pattern, i))
  /\ table' = [table EXCEPT ![i] = j']
  /\ i' = i + 1
  /\ UNCHANGED <<text, pattern, loop, result>>

\* Faulty: the search goes on with the j of the table.
BuildEndsDirty ==
  /\ loop = "build" /\ i >= Len(pattern)
  /\ loop' = "search" /\ i' = 0
  /\ UNCHANGED <<text, pattern, j, table, result>>

BuildEnds ==
  /\ loop = "build" /\ i >= Len(pattern)
  /\ loop' = "search" /\ i' = 0 /\ j' = 0
  /\ UNCHANGED <<text, pattern, table, result>>

SearchFallBack ==
  /\ loop = "search" /\ i < Len(text)
  /\ Mismatch(At(text, i))
  /\ FallBack

\* Faulty: returns the position of the last character, not of the first.
SearchReturnsEnd ==
  /\ loop = "search" /\ i < Len(text)
  /\ ~Mismatch(At(text, i))
  /\ j' = Matched(At(text, i))
  /\ IF j' = Len(pattern)
       THEN loop' = "none" /\ result' = i - Len(pattern) /\ UNCHANGED i
       ELSE i' = i + 1 /\ UNCHANGED <<loop, result>>
  /\ UNCHANGED <<text, pattern, table>>

\* Faulty: takes note of the match and searches on.
SearchGoesOn ==
  /\ loop = "search" /\ i < Len(text)
  /\ ~Mismatch(At(text, i))
  /\ j' = Matched(At(text, i))
  /\ result' = IF j' = Len(pattern) THEN i - Len(pattern) + 1 ELSE result
  /\ i' = i + 1
  /\ UNCHANGED <<text, pattern, loop, table>>

SearchAdvance ==
  /\ loop = "search" /\ i < Len(text)
  /\ ~Mismatch(At(text, i))
  /\ j' = Matched(At(text, i))
  /\ IF j' = Len(pattern)
       THEN loop' = "none" /\ result' = i - Len(pattern) + 1 /\ UNCHANGED i
       ELSE i' = i + 1 /\ UNCHANGED <<loop, result>>
  /\ UNCHANGED <<text, pattern, table>>

SearchFails ==
  /\ loop = "search" /\ i >= Len(text)
  /\ loop' = "none" /\ result' = -1
  /\ UNCHANGED <<text, pattern, i, j, table>>

KStep ==
  \/ BuildFallBack
  \/ BuildEntry
  \/ BuildEnds
  \/ SearchFallBack
  \/ SearchAdvance
  \/ SearchFails

-----------------------------------------------------------------------------
(* What the search is for.                                                 *)

\* The string p begins at position k of s.
OccursAt(p, s, k) ==
  /\ k >= 0 /\ k + Len(p) <= Len(s)
  /\ \A x \in 0..(Len(p) - 1) : At(p, x) = At(s, k + x)

\* The first b characters of p are also the last b of the first k of s.
Suffix(p, s, k, b) ==
  /\ b <= k
  /\ \A x \in 0..(b - 1) : At(p, x) = At(s, k - b + x)

\* The longest proper prefix of the first k characters of p that also ends them.
LongestBorder(p, k, b) ==
  /\ b \in 0..(k - 1) /\ Suffix(p, p, k, b)
  /\ \A c \in 0..(k - 1) : Suffix(p, p, k, c) => c <= b

FirstOccurrence(p, s, k) ==
  \/ /\ k = -1
     /\ \A x \in 0..Len(s) : ~OccursAt(p, s, x)
  \/ /\ k \in Nat /\ OccursAt(p, s, k)
     /\ \A x \in 0..(k - 1) : ~OccursAt(p, s, x)
=============================================================================
