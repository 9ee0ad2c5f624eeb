------------------------------ MODULE PatchProofs ------------------------------
(***************************************************************************)
(* Theorems about AuthPatch.tla and the search of Kmp.tla, for any address,*)
(* any replacement and any image of the program.                           *)
(***************************************************************************)
EXTENDS AuthPatch, SequenceTheorems, TLAPS

(* Borders: what makes the fall-back of the search right.                  *)

\* A border of what matches before k matches before k, too.
LEMMA BorderOfSuffix ==
  ASSUME NEW p, NEW s, NEW k \in Int, NEW b \in Int, NEW c \in Int,
         Suffix(p, s, k, b), Suffix(p, p, b, c)
  PROVE  Suffix(p, s, k, c)
<1>1. SUFFICES ASSUME NEW x \in 0..(c - 1) PROVE At(p, x) = At(s, k - c + x)
  BY DEF Suffix
<1>2. At(p, x) = At(p, b - c + x)
  BY DEF Suffix
<1>3. b - c + x \in 0..(b - 1)
  BY DEF Suffix
<1>4. At(p, b - c + x) = At(s, k - b + (b - c + x))
  BY <1>3 DEF Suffix
<1>5. k - b + (b - c + x) = k - c + x
  OBVIOUS
<1> QED BY <1>2, <1>4, <1>5

\* Of two that match before k, the shorter one is a border of the longer one.
LEMMA ShorterIsBorder ==
  ASSUME NEW p, NEW s, NEW k \in Int, NEW b \in Int, NEW c \in Int, c <= b,
         Suffix(p, s, k, b), Suffix(p, s, k, c)
  PROVE  Suffix(p, p, b, c)
<1>1. SUFFICES ASSUME NEW x \in 0..(c - 1) PROVE At(p, x) = At(p, b - c + x)
  BY DEF Suffix
<1>2. At(p, x) = At(s, k - c + x)
  BY DEF Suffix
<1>3. b - c + x \in 0..(b - 1)
  OBVIOUS
<1>4. At(p, b - c + x) = At(s, k - b + (b - c + x))
  BY <1>3 DEF Suffix
<1>5. k - b + (b - c + x) = k - c + x
  OBVIOUS
<1> QED BY <1>2, <1>4, <1>5

\* One more character matches if that character does.
LEMMA SuffixGrows ==
  ASSUME NEW p, NEW s, NEW k \in Int, NEW b \in Nat
  PROVE  Suffix(p, s, k + 1, b + 1) <=> Suffix(p, s, k, b) /\ At(p, b) = At(s, k)
<1>1. (k + 1) - (b + 1) = k - b /\ (k - b) + b = k
  OBVIOUS
<1>2. 0..((b + 1) - 1) = 0..(b - 1) \cup {b}
  OBVIOUS
<1>3. b + 1 <= k + 1 <=> b <= k
  OBVIOUS
<1> QED BY <1>1, <1>2, <1>3 DEF Suffix

\* The empty string matches everywhere.
LEMMA EmptySuffix ==
  ASSUME NEW p, NEW s, NEW k \in Nat
  PROVE  Suffix(p, s, k, 0)
BY DEF Suffix

\* The whole pattern matches before k where an occurrence ends.
LEMMA OccurrenceIsSuffix ==
  ASSUME NEW p \in Seq(Chars), NEW s \in Seq(Chars), NEW k \in 0..Len(s)
  PROVE  Suffix(p, s, k, Len(p)) <=> OccursAt(p, s, k - Len(p))
<1>1. Len(p) \in Nat /\ Len(s) \in Nat
  OBVIOUS
<1>2. (k - Len(p)) + Len(p) = k
  BY <1>1
<1> QED BY <1>1, <1>2 DEF Suffix, OccursAt

\* Of all that match before k, up to length cap, none that goes on is longer than b.
Longest(p, s, k, b, cap) ==
  \A c \in 0..cap : Suffix(p, s, k, c) /\ At(p, c) = At(s, k) => c <= b

\* To fall back to the longest border of a candidate that does not go on
\* leaves no better one out.
LEMMA FallBackKeeps ==
  ASSUME NEW p, NEW s, NEW k \in Nat, NEW b \in Nat, NEW cap \in Int, NEW t,
         Suffix(p, s, k, b), Longest(p, s, k, b, cap),
         At(s, k) # At(p, b), LongestBorder(p, b, t)
  PROVE  /\ t \in 0..(b - 1)
         /\ Suffix(p, s, k, t)
         /\ Longest(p, s, k, t, cap)
<1>1. t \in 0..(b - 1) /\ Suffix(p, p, b, t)
  BY DEF LongestBorder
<1>2. Suffix(p, s, k, t)
  BY <1>1, BorderOfSuffix
<1>3. SUFFICES ASSUME NEW c \in 0..cap, Suffix(p, s, k, c), At(p, c) = At(s, k)
      PROVE  c <= t
  BY <1>1, <1>2 DEF Longest
<1>4. c <= b /\ c # b
  BY <1>3 DEF Longest
<1>5. c \in 0..(b - 1)
  BY <1>4
<1>6. Suffix(p, p, b, c)
  BY <1>3, <1>5, ShorterIsBorder
<1> QED BY <1>5, <1>6 DEF LongestBorder

\* To go one character on gives the longest match before the next character.
LEMMA AdvanceKeeps ==
  ASSUME NEW p, NEW s, NEW k \in Nat, NEW b \in Nat, NEW cap \in Int, NEW n,
         Suffix(p, s, k, b), Longest(p, s, k, b, cap),
         ~(b > 0 /\ At(s, k) # At(p, b)),
         n = (IF At(s, k) = At(p, b) THEN b + 1 ELSE b)
  PROVE  /\ n \in Nat /\ n <= b + 1
         /\ Suffix(p, s, k + 1, n)
         /\ \A c \in 0..(cap + 1) : Suffix(p, s, k + 1, c) => c <= n
<1>1. n \in Nat /\ n <= b + 1
  OBVIOUS
<1>2. Suffix(p, s, k + 1, n)
  <2>1. CASE At(s, k) = At(p, b)
    BY <2>1, SuffixGrows
  <2>2. CASE At(s, k) # At(p, b)
    BY <2>2, EmptySuffix
  <2> QED BY <2>1, <2>2
<1>3. ASSUME NEW c \in 0..(cap + 1), Suffix(p, s, k + 1, c) PROVE c <= n
  <2>1. CASE c = 0
    BY <2>1
  <2>2. CASE c # 0
    <3>1. c - 1 \in 0..cap /\ c - 1 \in Nat /\ (c - 1) + 1 = c
      BY <2>2
    <3>2. Suffix(p, s, k, c - 1) /\ At(p, c - 1) = At(s, k)
      BY <1>3, <3>1, SuffixGrows
    <3>3. c - 1 <= b
      BY <3>1, <3>2 DEF Longest
    <3>4. CASE At(s, k) = At(p, b)
      BY <3>3, <3>4
    <3>5. CASE At(s, k) # At(p, b)
      <4>1. b = 0 /\ c - 1 = b
        BY <3>1, <3>3, <3>5
      <4> QED BY <3>2, <3>5, <4>1
    <3> QED BY <3>4, <3>5
  <2> QED BY <2>1, <2>2
<1> QED BY <1>1, <1>2, <1>3

-----------------------------------------------------------------------------
(* The loops of the search.                                                *)

\* Entries 0..(n-1) of the table are right.
TableUpTo(n) == \A k \in 0..(n - 1) : LongestBorder(pattern, k + 1, table[k])

Strings ==
  /\ text \in Seq(Chars) /\ pattern \in Seq(Chars) /\ Len(pattern) > 0
  /\ DOMAIN table = 0..(Len(pattern) - 1)

\* While the table is built: j is a border of the first i characters, and none
\* that goes on is longer.
BuildInv ==
  /\ i \in 1..Len(pattern) /\ j \in 0..(i - 1)
  /\ TableUpTo(i)
  /\ Suffix(pattern, pattern, i, j)
  /\ i < Len(pattern) => Longest(pattern, pattern, i, j, i - 1)

\* While the text is searched: the first j characters match before i, nothing
\* longer that goes on does, and no occurrence has been missed.
SearchInv ==
  /\ i \in 0..Len(text) /\ j \in 0..(Len(pattern) - 1)
  /\ TableUpTo(Len(pattern))
  /\ Suffix(pattern, text, i, j)
  /\ i < Len(text) => Longest(pattern, text, i, j, Len(pattern) - 1)
  /\ \A q \in Nat : OccursAt(pattern, text, q) => q + Len(pattern) > i

\* The search within the constructor.
KmpInv ==
  /\ Strings
  /\ loop \in {"none", "build", "search"}
  /\ loop = "build" => BuildInv
  /\ loop = "search" => SearchInv
  /\ loop = "none" => FirstOccurrence(pattern, text, result)

\* A call starts the loops in order.
LEMMA CallKeeps ==
  ASSUME NEW t \in Seq(Chars), NEW p \in Seq(Chars), Len(p) > 0, Call(t, p)
  PROVE  KmpInv'
<1>1. text' = t /\ pattern' = p /\ loop' = "build" /\ i' = 1 /\ j' = 0
      /\ table' = [k \in 0..(Len(p) - 1) |-> 0]
  BY DEF Call
<1>2. Strings'
  BY <1>1 DEF Strings
<1>3. LongestBorder(p, 1, 0)
  BY DEF LongestBorder, Suffix
<1>4. TableUpTo(1)'
  <2>1. 0..(1 - 1) = {0} /\ 0 \in 0..(Len(p) - 1) /\ 0 + 1 = 1
    OBVIOUS
  <2> QED BY <1>1, <1>3, <2>1 DEF TableUpTo
<1>5. Suffix(p, p, 1, 0)
  BY EmptySuffix
<1>6. Longest(p, p, 1, 0, 1 - 1)
  BY DEF Longest
<1> QED BY <1>1, <1>2, <1>4, <1>5, <1>6 DEF KmpInv, BuildInv

\* Every step of the loops keeps them in order.
LEMMA StepKeeps ==
  ASSUME KmpInv, KStep
  PROVE  KmpInv'
<1>s. Strings /\ Len(pattern) \in Nat /\ Len(text) \in Nat
  BY DEF KmpInv, Strings
<1>1. CASE BuildFallBack
  <2>1. /\ BuildInv /\ i < Len(pattern) /\ j > 0 /\ At(pattern, i) # At(pattern, j)
        /\ j' = table[j - 1] /\ UNCHANGED <<text, pattern, loop, i, table, result>>
        /\ loop = "build"
    BY <1>1 DEF KmpInv, BuildFallBack, FallBack, Mismatch
  <2>2. i \in Nat /\ j \in Nat /\ j - 1 \in 0..(i - 1) /\ (j - 1) + 1 = j
    BY <1>s, <2>1 DEF BuildInv
  <2>3. LongestBorder(pattern, j, j')
    BY <2>1, <2>2 DEF BuildInv, TableUpTo
  <2>4. /\ j' \in 0..(j - 1)
        /\ Suffix(pattern, pattern, i, j')
        /\ Longest(pattern, pattern, i, j', i - 1)
    BY <2>1, <2>2, <2>3, FallBackKeeps DEF BuildInv
  <2>5. BuildInv'
    BY <2>1, <2>2, <2>4 DEF BuildInv, TableUpTo
  <2> QED BY <1>s, <2>1, <2>5 DEF KmpInv, Strings
<1>2. CASE BuildEntry
  <2>1. /\ BuildInv /\ i < Len(pattern) /\ ~(j > 0 /\ At(pattern, i) # At(pattern, j))
        /\ j' = (IF At(pattern, i) = At(pattern, j) THEN j + 1 ELSE j)
        /\ table' = [table EXCEPT ![i] = j'] /\ i' = i + 1
        /\ UNCHANGED <<text, pattern, loop, result>> /\ loop = "build"
    BY <1>2 DEF KmpInv, BuildEntry, Mismatch, Matched
  <2>2. i \in Nat /\ j \in Nat /\ i \in 0..(Len(pattern) - 1) /\ i - 1 \in Int /\ (i - 1) + 1 = i
    BY <1>s, <2>1 DEF BuildInv
  <2>3. /\ j' \in Nat /\ j' <= j + 1
        /\ Suffix(pattern, pattern, i + 1, j')
        /\ \A c \in 0..((i - 1) + 1) : Suffix(pattern, pattern, i + 1, c) => c <= j'
    BY <2>1, <2>2, AdvanceKeeps DEF BuildInv
  <2>4. j' \in 0..i
    BY <2>1, <2>2, <2>3 DEF BuildInv
  <2>5. LongestBorder(pattern, i + 1, j')
    BY <2>2, <2>3, <2>4 DEF LongestBorder
  <2>6. TableUpTo(i)'
    <3>1. ASSUME NEW k \in 0..i PROVE LongestBorder(pattern, k + 1, table'[k])
      <4>1. CASE k = i
        BY <1>s, <2>1, <2>2, <2>5, <4>1 DEF Strings
      <4>2. CASE k # i
        BY <1>s, <2>1, <2>2, <4>2 DEF Strings, BuildInv, TableUpTo
      <4> QED BY <4>1, <4>2
    <3>2. 0..(i' - 1) = 0..i
      BY <2>1, <2>2
    <3> QED BY <2>1, <3>1, <3>2 DEF TableUpTo
  <2>7. Longest(pattern, pattern, i + 1, j', i)
    <3>1. SUFFICES ASSUME NEW c \in 0..i, Suffix(pattern, pattern, i + 1, c) PROVE c <= j'
      BY DEF Longest
    <3> QED BY <2>2, <2>3, <3>1
  <2>8. BuildInv'
    <3>1. i + 1 \in 1..Len(pattern) /\ j' \in 0..((i + 1) - 1) /\ (i + 1) - 1 = i
      BY <1>s, <2>2, <2>4
    <3> QED BY <2>1, <2>3, <2>6, <2>7, <3>1 DEF BuildInv, TableUpTo
  <2> QED BY <1>s, <2>1, <2>8 DEF KmpInv, Strings
<1>3. CASE BuildEnds
  <2>1. /\ BuildInv /\ i = Len(pattern) /\ i' = 0 /\ j' = 0 /\ loop' = "search"
        /\ UNCHANGED <<text, pattern, table, result>>
    BY <1>3, <1>s DEF KmpInv, BuildEnds, BuildInv
  <2>2. Suffix(pattern, text, 0, 0)
    BY EmptySuffix
  <2>3. Longest(pattern, text, 0, 0, Len(pattern) - 1)
    BY DEF Longest, Suffix
  <2>4. SearchInv'
    BY <1>s, <2>1, <2>2, <2>3 DEF BuildInv, SearchInv, TableUpTo, Strings
  <2> QED BY <1>s, <2>1, <2>4 DEF KmpInv, Strings
<1>4. CASE SearchFallBack
  <2>1. /\ SearchInv /\ i < Len(text) /\ j > 0 /\ At(text, i) # At(pattern, j)
        /\ j' = table[j - 1] /\ UNCHANGED <<text, pattern, loop, i, table, result>>
        /\ loop = "search"
    BY <1>4 DEF KmpInv, SearchFallBack, FallBack, Mismatch
  <2>2. i \in Nat /\ j \in Nat /\ j - 1 \in 0..(Len(pattern) - 1) /\ (j - 1) + 1 = j
        /\ Len(pattern) - 1 \in Int
    BY <1>s, <2>1 DEF SearchInv
  <2>3. LongestBorder(pattern, j, j')
    BY <2>1, <2>2 DEF SearchInv, TableUpTo
  <2>4. /\ j' \in 0..(j - 1)
        /\ Suffix(pattern, text, i, j')
        /\ Longest(pattern, text, i, j', Len(pattern) - 1)
    BY <2>1, <2>2, <2>3, FallBackKeeps DEF SearchInv
  <2>5. SearchInv'
    BY <2>1, <2>2, <2>4 DEF SearchInv, TableUpTo
  <2> QED BY <1>s, <2>1, <2>5 DEF KmpInv, Strings
<1>5. CASE SearchAdvance
  <2>1. /\ SearchInv /\ i < Len(text) /\ ~(j > 0 /\ At(text, i) # At(pattern, j))
        /\ j' = (IF At(text, i) = At(pattern, j) THEN j + 1 ELSE j)
        /\ UNCHANGED <<text, pattern, table>> /\ loop = "search"
    BY <1>5 DEF KmpInv, SearchAdvance, Mismatch, Matched
  <2>2. i \in Nat /\ j \in Nat /\ i + 1 \in 0..Len(text) /\ Len(pattern) - 1 \in Int
        /\ (Len(pattern) - 1) + 1 = Len(pattern) /\ Len(pattern) > 0
    BY <1>s, <2>1 DEF SearchInv, Strings
  <2>3. /\ j' \in Nat /\ j' <= j + 1
        /\ Suffix(pattern, text, i + 1, j')
        /\ \A c \in 0..Len(pattern) : Suffix(pattern, text, i + 1, c) => c <= j'
    BY <2>1, <2>2, AdvanceKeeps DEF SearchInv
  <2>4. j' \in 0..Len(pattern)
    BY <1>s, <2>1, <2>2, <2>3 DEF SearchInv
  <2>5. CASE j' = Len(pattern)
    <3>1. loop' = "none" /\ result' = (i + 1) - Len(pattern)
      BY <1>5, <2>5, <2>2 DEF SearchAdvance
    <3>2. OccursAt(pattern, text, result')
      BY <1>s, <2>2, <2>3, <2>5, <3>1, OccurrenceIsSuffix DEF Strings
    <3>3. result' \in Nat
      BY <2>2, <3>1, <3>2 DEF OccursAt
    <3>4. ASSUME NEW x \in 0..(result' - 1) PROVE ~OccursAt(pattern, text, x)
      <4>1. x \in Nat /\ ~(x + Len(pattern) > i)
        BY <1>s, <2>2, <3>1, <3>3
      <4> QED BY <2>1, <4>1 DEF SearchInv
    <3> QED BY <1>s, <2>1, <3>1, <3>2, <3>3, <3>4 DEF KmpInv, Strings, FirstOccurrence
  <2>6. CASE j' # Len(pattern)
    <3>1. loop' = "search" /\ i' = i + 1
      BY <1>5, <2>1, <2>6 DEF SearchAdvance
    <3>2. j' \in 0..(Len(pattern) - 1)
      BY <1>s, <2>4, <2>6
    <3>3. Longest(pattern, text, i + 1, j', Len(pattern) - 1)
      <4>1. SUFFICES ASSUME NEW c \in 0..(Len(pattern) - 1), Suffix(pattern, text, i + 1, c)
            PROVE  c <= j'
        BY DEF Longest
      <4>2. c \in 0..Len(pattern)
        BY <1>s
      <4> QED BY <2>3, <4>1, <4>2
    <3>4. ASSUME NEW q \in Nat, OccursAt(pattern, text, q) PROVE q + Len(pattern) > i + 1
      <4>1. q + Len(pattern) > i
        BY <2>1, <3>4 DEF SearchInv
      <4>2. ASSUME q + Len(pattern) = i + 1 PROVE FALSE
        <5>1. q = (i + 1) - Len(pattern)
          BY <1>s, <2>2, <4>2
        <5>2. Suffix(pattern, text, i + 1, Len(pattern))
          BY <1>s, <2>2, <3>4, <5>1, OccurrenceIsSuffix DEF Strings
        <5>3. Len(pattern) <= j'
          BY <1>s, <2>3, <5>2
        <5> QED BY <1>s, <3>2, <5>3
      <4> QED BY <1>s, <2>2, <4>1, <4>2
    <3>5. SearchInv'
      BY <2>1, <2>2, <2>3, <3>1, <3>2, <3>3, <3>4 DEF SearchInv, TableUpTo
    <3> QED BY <1>s, <2>1, <3>1, <3>5 DEF KmpInv, Strings
  <2> QED BY <2>5, <2>6
<1>6. CASE SearchFails
  <2>1. /\ SearchInv /\ i = Len(text) /\ loop' = "none" /\ result' = -1
        /\ UNCHANGED <<text, pattern, i, j, table>>
    BY <1>6, <1>s DEF KmpInv, SearchFails, SearchInv
  <2>2. ASSUME NEW x \in 0..Len(text) PROVE ~OccursAt(pattern, text, x)
    BY <1>s, <2>1 DEF SearchInv, OccursAt
  <2> QED BY <1>s, <2>1, <2>2 DEF KmpInv, Strings, FirstOccurrence
<1> QED BY <1>1, <1>2, <1>3, <1>4, <1>5, <1>6 DEF KStep

-----------------------------------------------------------------------------
(* The constructor: types, the search it runs, and page protections.       *)

LEMMA DiskTyped ==
  ASSUME disk \in Images
  PROVE  /\ Len(disk) \in Nat /\ DOMAIN disk = 1..Len(disk)
         /\ \A s \in DOMAIN disk : disk[s].data \in Seq(Chars)
<1> DEFINE Section == [rdata : BOOLEAN, data : Seq(Chars)]
<1>1. disk \in Seq(Section)
  BY AuthPatchAssumption
<1> HIDE DEF Section
<1>2. Len(disk) \in Nat /\ DOMAIN disk = 1..Len(disk) /\ \A s \in DOMAIN disk : disk[s] \in Section
  BY <1>1
<1> QED BY <1>2 DEF Section

\* What is in memory when the program has been loaded.
LEMMA FreshTyped ==
  ASSUME disk \in Images
  PROVE  /\ DOMAIN Fresh(disk) = DOMAIN disk
         /\ \A s \in DOMAIN disk : Fresh(disk)[s] = disk[s].data /\ Fresh(disk)[s] \in Seq(Chars)
         /\ AsLoaded(disk) \in [DOMAIN disk -> Protections]
         /\ 1 \in 1..(Len(disk) + 1)
BY DiskTyped, AuthPatchAssumption DEF Fresh, AsLoaded

LEMMA Characters ==
  /\ Url \in Seq(Chars) /\ Target \in Seq(Chars) /\ Nul \in Chars
  /\ Len(Url) \in Nat /\ Len(Url) > 0 /\ Len(Target) \in Nat
  /\ \A x \in 0..(Len(Url) - 1) : At(Url, x) # Nul
  /\ \A x \in 0..(Len(Target) - 1) : At(Target, x) \in Chars
BY AuthPatchAssumption DEF At

\* Target, and its terminator.
LEMMA WrittenIs ==
  /\ Len(Target) \in Nat /\ Len(Written) = Len(Target) + 1
  /\ \A x \in 0..Len(Target) :
       /\ At(Written, x) \in Chars
       /\ x < Len(Target) => At(Written, x) = At(Target, x)
       /\ x = Len(Target) => At(Written, x) = Nul
<1>1. /\ Len(Append(Target, Nul)) = Len(Target) + 1
      /\ \A x \in 1..Len(Target) : Append(Target, Nul)[x] = Target[x]
      /\ Append(Target, Nul)[Len(Target) + 1] = Nul
  BY Characters, AppendProperties
<1>2. ASSUME NEW x \in 0..Len(Target)
      PROVE  /\ x < Len(Target) => Append(Target, Nul)[x + 1] = Target[x + 1]
             /\ x = Len(Target) => Append(Target, Nul)[x + 1] = Nul
  BY <1>1, Characters
<1>3. ASSUME NEW x \in 0..Len(Target), x < Len(Target) PROVE At(Target, x) \in Chars
  BY <1>3, Characters
<1> QED BY <1>1, <1>2, <1>3, Characters DEF Written, At

Shape ==
  /\ disk \in Images /\ headers \in BOOLEAN
  /\ DOMAIN image = DOMAIN disk
  /\ \A s \in DOMAIN disk : image[s] \in Seq(Chars) /\ Len(image[s]) = Len(disk[s].data)
  /\ protection \in [DOMAIN disk -> Protections]
  /\ pc \in Phases /\ section \in 1..(Len(disk) + 1)
  /\ oldProtect \in Protections /\ refused \in BOOLEAN

\* The constructor gets beyond the headers only if they are as expected, and
\* works on the first section of the name.
Place ==
  /\ pc \in {"sections", "search", "restore"} =>
       headers /\ \A r \in 1..(section - 1) : ~disk[r].rdata
  /\ pc \in {"search", "restore"} => section \in DOMAIN disk /\ disk[section].rdata

Searching ==
  IF pc = "search" THEN KmpInv /\ pattern = Url /\ text = image[section]
                   ELSE loop = "none"

\* Unless a change was refused, the pages of one section are writable while the
\* constructor works on it, and oldProtect tells how they were.
Guarded ==
  ~refused =>
    IF pc \in {"search", "restore", "crashed"}
      THEN protection = [AsLoaded(disk) EXCEPT ![section] = ReadWrite] /\ oldProtect = ReadOnly
      ELSE protection = AsLoaded(disk)

IInv == Shape /\ Place /\ Searching /\ Guarded

LEMMA Starts == Init => IInv
<1> SUFFICES ASSUME Init PROVE IInv
  OBVIOUS
<1>1. Shape
  BY FreshTyped, AuthPatchAssumption DEF Init, Shape, Phases
<1>2. Place /\ Searching /\ Guarded
  BY <1>1 DEF Init, KInit, Place, Searching, Guarded
<1> QED BY <1>1, <1>2 DEF IInv

\* What a call of VirtualProtect may do.
LEMMA Protects ==
  ASSUME Shape, section \in DOMAIN disk, NEW n \in Protections, VirtualProtect(n)
  PROVE  /\ protection' \in [DOMAIN disk -> Protections]
         /\ oldProtect' \in Protections /\ refused' \in BOOLEAN
         /\ ~refused' => /\ ~refused /\ oldProtect' = protection[section]
                         /\ protection' = [protection EXCEPT ![section] = n]
BY DEF VirtualProtect, Shape

\* strcpy changes no length, and of the characters only those it writes.
LEMMA StrcpyTyped ==
  ASSUME NEW s \in Seq(Chars), NEW k \in Nat
  PROVE  /\ Strcpy(s, k) \in Seq(Chars) /\ Len(Strcpy(s, k)) = Len(s)
         /\ \A x \in 0..(Len(s) - 1) :
              At(Strcpy(s, k), x) = IF x - k \in 0..Len(Target) THEN At(Written, x - k) ELSE At(s, x)
<1>1. DOMAIN s = 1..Len(s) /\ Len(s) \in Nat /\ \A x \in 1..Len(s) : s[x] \in Chars
  OBVIOUS
<1>2. ASSUME NEW x \in 1..Len(s) PROVE Strcpy(s, k)[x] \in Chars
  BY <1>1, <1>2, WrittenIs DEF Strcpy
<1>3. Strcpy(s, k) \in [1..Len(s) -> Chars]
  BY <1>1, <1>2 DEF Strcpy
<1>4. Strcpy(s, k) \in Seq(Chars) /\ Len(Strcpy(s, k)) = Len(s)
  BY <1>1, <1>3
<1>5. ASSUME NEW x \in 0..(Len(s) - 1)
      PROVE  At(Strcpy(s, k), x) = IF x - k \in 0..Len(Target) THEN At(Written, x - k) ELSE At(s, x)
  <2>1. x + 1 \in 1..Len(s) /\ (x + 1) - 1 - k = x - k
    BY <1>1
  <2>2. Strcpy(s, k)[x + 1] =
          IF (x + 1) - 1 - k \in 0..Len(Target) THEN At(Written, (x + 1) - 1 - k) ELSE s[x + 1]
    BY <1>1, <2>1 DEF Strcpy
  <2> QED BY <2>1, <2>2 DEF At
<1> QED BY <1>4, <1>5

LEMMA Kept == IInv /\ [Next]_vars => IInv'
<1> SUFFICES ASSUME IInv, [Next]_vars PROVE IInv'
  OBVIOUS
<1> USE DEF IInv, Goto
<1>d. Len(disk) \in Nat /\ DOMAIN disk = 1..Len(disk)
      /\ \A s \in DOMAIN disk : disk[s].data \in Seq(Chars)
  BY DiskTyped DEF Shape
<1>1. CASE Load
  BY <1>1 DEF Load, Shape, Place, Searching, Guarded, Phases, kvars
<1>2. CASE CheckHeaders
  BY <1>2, <1>d DEF CheckHeaders, Shape, Place, Searching, Guarded, Phases, kvars
<1>3. CASE SkipSection
  <2>1. Shape' /\ Place'
    BY <1>3, <1>d DEF SkipSection, Shape, Place, Phases
  <2>2. Searching' /\ Guarded'
    BY <1>3 DEF SkipSection, Searching, Guarded, kvars
  <2> QED BY <2>1, <2>2
<1>4. CASE Unprotect
  <2>1. section \in DOMAIN disk /\ ReadWrite \in Protections
    BY <1>4, AuthPatchAssumption DEF Unprotect
  <2>2. /\ protection' \in [DOMAIN disk -> Protections]
        /\ oldProtect' \in Protections /\ refused' \in BOOLEAN
        /\ ~refused' => /\ ~refused /\ oldProtect' = protection[section]
                        /\ protection' = [protection EXCEPT ![section] = ReadWrite]
    BY <1>4, <2>1, Protects DEF Unprotect
  <2>3. Shape' /\ Place'
    BY <1>4, <2>1, <2>2 DEF Unprotect, Shape, Place, Phases
  <2>4. KmpInv'
    <3>1. image[section] \in Seq(Chars) /\ Call(image[section], Url)
      BY <1>4, <2>1 DEF Unprotect, Shape
    <3> QED BY <3>1, Characters, CallKeeps
  <2>5. Searching'
    BY <1>4, <2>4 DEF Unprotect, Searching, Call
  <2>6. Guarded'
    BY <1>4, <2>1, <2>2 DEF Unprotect, Guarded, AsLoaded
  <2> QED BY <2>3, <2>5, <2>6
<1>5. CASE Search
  <2>1. pattern' = pattern /\ text' = text
    BY <1>5 DEF Search, KStep, BuildFallBack, BuildEntry, BuildEnds, SearchFallBack, SearchAdvance,
                SearchFails, FallBack
  <2>2. KmpInv'
    BY <1>5, StepKeeps DEF Search, Searching
  <2>3. Searching'
    BY <1>5, <2>1, <2>2 DEF Search, Searching, avars
  <2> QED BY <1>5, <2>3 DEF Search, avars, Shape, Place, Guarded, Phases
<1>6. CASE Patch
  <2>1. section \in DOMAIN disk /\ image[section] \in Seq(Chars)
    BY <1>6 DEF Patch, Place, Shape
  <2>2. result # -1 => result \in Nat
    BY <1>6 DEF Patch, Searching, KmpInv, FirstOccurrence
  <2>3. \A s \in DOMAIN disk : image'[s] \in Seq(Chars) /\ Len(image'[s]) = Len(disk[s].data)
    <3>1. CASE image' = image
      BY <3>1 DEF Shape
    <3>2. CASE result \in Nat /\ image' = [image EXCEPT ![section] = Strcpy(@, result)]
      <4>1. Strcpy(image[section], result) \in Seq(Chars)
            /\ Len(Strcpy(image[section], result)) = Len(image[section])
        BY <2>1, <3>2, StrcpyTyped
      <4> QED BY <2>1, <3>2, <4>1 DEF Shape
    <3> QED BY <1>6, <2>2, <3>1, <3>2 DEF Patch
  <2>4. Shape'
    BY <1>6, <2>3 DEF Patch, Shape, Phases
  <2>5. Place' /\ Searching' /\ Guarded'
    BY <1>6 DEF Patch, Place, Searching, Guarded, kvars
  <2> QED BY <2>4, <2>5
<1>7. CASE Restore
  <2>1. section \in DOMAIN disk /\ oldProtect \in Protections
    BY <1>7 DEF Restore, Place, Shape
  <2>2. /\ protection' \in [DOMAIN disk -> Protections]
        /\ oldProtect' \in Protections /\ refused' \in BOOLEAN
        /\ ~refused' => /\ ~refused /\ oldProtect' = protection[section]
                        /\ protection' = [protection EXCEPT ![section] = oldProtect]
    BY <1>7, <2>1, Protects DEF Restore
  <2>3. Shape' /\ Place' /\ Searching'
    BY <1>7, <2>2 DEF Restore, Shape, Place, Searching, Phases, kvars
  <2>4. Guarded'
    BY <1>7, <2>1, <2>2 DEF Restore, Guarded, AsLoaded
  <2> QED BY <2>3, <2>4
<1>8. CASE Unload
  BY <1>8 DEF Unload, Shape, Place, Searching, Guarded, Phases, kvars
<1>9. CASE Restart
  <2>1. Shape'
    BY <1>9, FreshTyped, AuthPatchAssumption DEF Restart, Shape, Phases
  <2>2. Place' /\ Searching' /\ Guarded'
    BY <1>9 DEF Restart, KReset, Place, Searching, Guarded, AsLoaded
  <2> QED BY <2>1, <2>2
<1>10. CASE UNCHANGED vars
  <2>1. Shape' /\ Place' /\ Guarded'
    BY <1>10 DEF vars, avars, Shape, Place, Guarded, Phases
  <2>2. Searching'
    BY <1>10 DEF vars, avars, kvars, Searching, KmpInv, Strings, BuildInv, SearchInv, TableUpTo
  <2> QED BY <2>1, <2>2
<1> QED
  BY <1>1, <1>2, <1>3, <1>4, <1>5, <1>6, <1>7, <1>8, <1>9, <1>10 DEF Next, Constructor

\* The inductive invariant of the constructor and its search.
THEOREM Invariant == Spec => []IInv
<1> QED BY Starts, Kept, PTL DEF Spec

\* Types hold, and no index leaves its string or the table.
THEOREM TypeCorrect == Spec => []TypeOK
<1>1. IInv => TypeOK
  <2> SUFFICES ASSUME IInv PROVE TypeOK
    OBVIOUS
  <2>1. \A s \in DOMAIN disk : protection[s] \in Protections
    BY DEF IInv, Shape
  <2>2. pc = "search" => section \in DOMAIN disk
    BY DEF IInv, Place
  <2>3. /\ loop \in {"none", "build", "search"}
        /\ loop # "none" => pc = "search"
        /\ pc = "search" => /\ pattern = Url /\ text = image[section]
                            /\ DOMAIN table = 0..(Len(Url) - 1)
        /\ loop = "build" => i \in 1..Len(Url) /\ j \in 0..(i - 1)
        /\ loop = "search" => i \in 0..Len(text) /\ j \in 0..(Len(Url) - 1)
    BY DEF IInv, Searching, KmpInv, Strings, BuildInv, SearchInv
  <2>4. DOMAIN protection = DOMAIN disk
    BY DEF IInv, Shape
  <2> QED BY <2>1, <2>2, <2>3, <2>4 DEF IInv, Shape, TypeOK
<1> QED BY <1>1, Invariant, PTL

\* The table of the search is exact, whatever the address.
THEOREM TableIsExact == Spec => []TableExact
<1>1. IInv => TableExact
  BY DEF IInv, Searching, TableExact, KmpInv, SearchInv, TableUpTo
<1> QED BY <1>1, Invariant, PTL

\* The search finds the first occurrence, or there is none.
THEOREM SearchIsExact == Spec => []SearchExact
<1>1. IInv => SearchExact
  BY DEF IInv, Searching, SearchExact, KmpInv
<1> QED BY <1>1, Invariant, PTL

\* Pages are given back protected unless Windows refused a change.
THEOREM ProtectionIsRestored == Spec => []ProtectionRestored
<1>1. IInv => ProtectionRestored
  BY DEF IInv, Guarded, ProtectionRestored
<1> QED BY <1>1, Invariant, PTL

-----------------------------------------------------------------------------
(* What strcpy does to the addresses in a section.                         *)

\* It puts Target where the search has found Url.
LEMMA StrcpyPatches ==
  ASSUME NEW s \in Seq(Chars), NEW r \in Nat
  PROVE  Patched(Strcpy(s, r), r)
<1>1. Len(Strcpy(s, r)) = Len(s) /\ Len(s) \in Nat /\ Len(Target) \in Nat
  BY StrcpyTyped, WrittenIs
<1>2. ASSUME NEW x \in 0..Len(Target), r + x < Len(s)
      PROVE  At(Strcpy(s, r), r + x) = At(Written, x)
  <2>1. r + x \in 0..(Len(s) - 1) /\ (r + x) - r = x
    BY <1>1, <1>2
  <2> QED BY <2>1, StrcpyTyped
<1> QED BY <1>1, <1>2 DEF Patched

\* It creates no new occurrence of Url: that is what NoSplice is for.
LEMMA NoNewOccurrence ==
  ASSUME NoSplice, NEW s \in Seq(Chars), NEW r \in Nat, NEW q \in Nat, OccursAt(Url, Strcpy(s, r), q)
  PROVE  OccursAt(Url, s, q)
<1> DEFINE t == Strcpy(s, r)
<1>1. Len(s) \in Nat /\ Len(Url) \in Nat /\ Len(Target) \in Nat
  BY Characters
<1>2. /\ Len(t) = Len(s)
      /\ \A x \in 0..(Len(s) - 1) :
           At(t, x) = IF x - r \in 0..Len(Target) THEN At(Written, x - r) ELSE At(s, x)
  BY StrcpyTyped
<1> HIDE DEF t
<1>3. q + Len(Url) <= Len(s) /\ \A x \in 0..(Len(Url) - 1) : At(Url, x) = At(t, q + x)
  BY <1>2 DEF OccursAt, t
<1>4. ASSUME NEW x \in 0..(Len(Url) - 1) PROVE q + x \in 0..(Len(s) - 1)
  BY <1>1, <1>3
<1>5. CASE q + Len(Url) <= r \/ r + Len(Target) < q
  <2>1. ASSUME NEW x \in 0..(Len(Url) - 1) PROVE At(Url, x) = At(s, q + x)
    <3>1. (q + x) - r \notin 0..Len(Target)
      BY <1>1, <1>5
    <3>2. At(t, q + x) = At(s, q + x)
      BY <1>2, <1>4, <3>1
    <3> QED BY <1>3, <3>2
  <2> QED BY <1>3, <2>1 DEF OccursAt
<1>6. CASE r < q + Len(Url) /\ q <= r + Len(Target)
  <2> DEFINE a == r - q
  <2>1. a \in (-Len(Target))..(Len(Url) - 1)
    BY <1>1, <1>6
  <2>2. PICK x \in 0..Len(Target) : a + x \in 0..(Len(Url) - 1) /\ At(Written, x) # At(Url, a + x)
    BY <2>1 DEF NoSplice
  <2>3. q + (a + x) = r + x /\ (r + x) - r = x
    BY <1>1
  <2>4. At(t, r + x) = At(Written, x)
    BY <1>2, <1>4, <2>2, <2>3
  <2> QED BY <1>3, <2>2, <2>3, <2>4
<1> QED BY <1>1, <1>5, <1>6

\* A patched address stays patched when Url is found behind it.
LEMMA PatchedStays ==
  ASSUME NoSplice, NEW s \in Seq(Chars), NEW k \in Nat, NEW r \in Nat,
         Patched(s, k), k <= r, OccursAt(Url, s, r)
  PROVE  Patched(Strcpy(s, r), k)
<1>1. Len(s) \in Nat /\ Len(Url) \in Nat /\ Len(Url) > 0 /\ Len(Target) \in Nat /\ r + Len(Url) <= Len(s)
  BY Characters DEF OccursAt
<1>2. k + Len(Target) < r
  <2>1. SUFFICES ASSUME r <= k + Len(Target) PROVE FALSE
    BY <1>1
  <2> DEFINE a == k - r
  <2>2. a \in (-Len(Target))..(Len(Url) - 1)
    BY <1>1, <2>1
  <2>3. PICK x \in 0..Len(Target) : a + x \in 0..(Len(Url) - 1) /\ At(Written, x) # At(Url, a + x)
    BY <2>2 DEF NoSplice
  <2>4. r + (a + x) = k + x /\ k + x < Len(s)
    BY <1>1, <2>3
  <2>5. At(Url, a + x) = At(s, k + x) /\ At(s, k + x) = At(Written, x)
    BY <2>3, <2>4 DEF OccursAt, Patched
  <2> QED BY <2>3, <2>5
<1>3. Len(Strcpy(s, r)) = Len(s)
  BY StrcpyTyped
<1>4. ASSUME NEW x \in 0..Len(Target), k + x < Len(s)
      PROVE  At(Strcpy(s, r), k + x) = At(Written, x)
  <2>1. k + x \in 0..(Len(s) - 1) /\ (k + x) - r \notin 0..Len(Target)
    BY <1>1, <1>2, <1>4
  <2>2. At(Strcpy(s, r), k + x) = At(s, k + x)
    BY <2>1, StrcpyTyped
  <2> QED BY <1>4, <2>2 DEF Patched
<1> QED BY <1>3, <1>4 DEF Patched

-----------------------------------------------------------------------------
(* The addresses in the image.                                             *)

\* Loading never adds an occurrence of Url.
OnlyOriginals ==
  \A s \in DOMAIN disk : \A q \in Nat :
    OccursAt(Url, image[s], q) => OccursAt(Url, disk[s].data, q)

\* The first address of a section has been replaced.
Done(s) ==
  \A k \in 0..Len(disk[s].data) : FirstOccurrence(Url, disk[s].data, k) => Patched(image[s], k)

DoneWhenRestoring == pc = "restore" => Done(section)

Addresses == OnlyOriginals /\ UrlWhole /\ OthersUntouched /\ DoneWhenRestoring /\ Redirected

LEMMA AddressesStart == Init => Addresses
<1> SUFFICES ASSUME Init PROVE Addresses
  OBVIOUS
<1>1. \A s \in DOMAIN disk : image[s] = disk[s].data /\ disk[s].data \in Seq(Chars)
  BY FreshTyped DEF Init
<1>2. UrlWhole
  BY <1>1 DEF UrlWhole, FirstOccurrence
<1>3. OnlyOriginals /\ OthersUntouched
  BY <1>1 DEF OnlyOriginals, OthersUntouched
<1> QED BY <1>2, <1>3 DEF Init, Addresses, DoneWhenRestoring, Redirected

\* The one step that writes to the image.
LEMMA PatchKeeps ==
  ASSUME NoSplice, IInv, Addresses, Patch
  PROVE  Addresses'
<1> USE DEF Addresses, Goto
<1>t. /\ section \in DOMAIN disk /\ image[section] \in Seq(Chars) /\ disk[section].data \in Seq(Chars)
      /\ Len(image[section]) = Len(disk[section].data)
      /\ UNCHANGED <<disk, headers, section>>
      /\ Len(Url) \in Nat /\ Len(Url) > 0 /\ Len(Target) \in Nat
  BY DiskTyped, Characters DEF Patch, IInv, Place, Shape
<1>f. FirstOccurrence(Url, image[section], result)
  BY DEF Patch, IInv, Searching, KmpInv
<1>1. CASE result = -1 /\ pc' = "restore" /\ UNCHANGED image
  <2>1. Done(section)
    <3>1. SUFFICES ASSUME NEW k \in 0..Len(disk[section].data),
                          FirstOccurrence(Url, disk[section].data, k)
                   PROVE  Patched(image[section], k)
      BY DEF Done
    <3>2. ~OccursAt(Url, image[section], k)
      BY <1>1, <1>t, <1>f, <3>1 DEF FirstOccurrence
    <3> QED BY <1>t, <3>1, <3>2 DEF UrlWhole
  <2> QED BY <1>1, <1>t, <2>1 DEF OnlyOriginals, UrlWhole, OthersUntouched, DoneWhenRestoring, Done,
                                 Redirected
<1>2. CASE result # -1 /\ pc' = "crashed" /\ UNCHANGED image
  BY <1>2, <1>t DEF OnlyOriginals, UrlWhole, OthersUntouched, DoneWhenRestoring, Redirected
<1>3. CASE result # -1 /\ pc' = "restore"
           /\ image' = [image EXCEPT ![section] = Strcpy(@, result)]
  <2> DEFINE s == image[section]
             t == Strcpy(s, result)
             d == disk[section].data
  <2>1. result \in Nat /\ OccursAt(Url, s, result) /\ result + Len(Url) <= Len(s)
        /\ \A x \in 0..(result - 1) : ~OccursAt(Url, s, x)
    BY <1>3, <1>f DEF FirstOccurrence, OccursAt
  <2>2. OccursAt(Url, d, result)
    BY <1>t, <2>1 DEF OnlyOriginals
  <2>3. DOMAIN image = DOMAIN disk
    BY DEF IInv, Shape
  <2>4. \A r \in DOMAIN disk : image'[r] = IF r = section THEN t ELSE image[r]
    BY <1>3, <2>3
  <2> HIDE DEF t, s, d
  <2>5. \A q \in Nat : OccursAt(Url, t, q) => OccursAt(Url, d, q)
    <3>1. \A q \in Nat : OccursAt(Url, t, q) => OccursAt(Url, s, q)
      BY <1>t, <2>1, NoNewOccurrence DEF s, t
    <3> QED BY <1>t, <3>1 DEF OnlyOriginals, s, d
  <2>6. OnlyOriginals'
    BY <1>t, <2>4, <2>5 DEF OnlyOriginals, d
  <2>7. ASSUME NEW k \in 0..Len(d), FirstOccurrence(Url, d, k)
        PROVE  Patched(t, k)
    <3>1. k \in Nat /\ k + Len(Url) <= Len(d) /\ k <= result
      <4>1. k \in Nat /\ OccursAt(Url, d, k) /\ \A x \in 0..(k - 1) : ~OccursAt(Url, d, x)
        BY <1>t, <2>7 DEF FirstOccurrence, d
      <4>2. k + Len(Url) <= Len(d)
        BY <4>1 DEF OccursAt
      <4>3. result \notin 0..(k - 1)
        BY <2>2, <4>1
      <4> QED BY <2>1, <4>1, <4>2, <4>3
    <3>2. CASE k = result
      BY <1>t, <2>1, <3>2, StrcpyPatches DEF s, t
    <3>3. CASE k # result
      <4>1. k \in 0..(result - 1)
        BY <2>1, <3>1, <3>3
      <4>2. Patched(s, k)
        BY <1>t, <2>1, <2>7, <4>1 DEF UrlWhole, s, d
      <4> QED BY <1>t, <2>1, <3>1, <4>2, PatchedStays DEF s, t, d
    <3> QED BY <3>2, <3>3
  <2>8. UrlWhole'
    BY <1>t, <2>4, <2>7 DEF UrlWhole, d
  <2>9. DoneWhenRestoring'
    BY <1>t, <2>4, <2>7 DEF DoneWhenRestoring, Done, d
  <2>10. OthersUntouched'
    <3>1. SUFFICES ASSUME NEW x \in 0..(Len(d) - 1), At(t, x) # At(d, x)
                   PROVE  \E k \in (x - Len(Target))..x : OccursAt(Url, d, k)
      BY <1>t, <2>4 DEF OthersUntouched, d
    <3>2. CASE At(t, x) = At(s, x)
      BY <1>t, <3>1, <3>2 DEF OthersUntouched, s, d
    <3>3. CASE At(t, x) # At(s, x)
      <4>1. x - result \in 0..Len(Target)
        BY <1>t, <2>1, <3>1, <3>3, StrcpyTyped DEF s, t, d
      <4>2. result \in (x - Len(Target))..x
        BY <1>t, <2>1, <4>1
      <4> QED BY <2>2, <4>2
    <3> QED BY <3>2, <3>3
  <2> QED BY <1>3, <2>6, <2>8, <2>9, <2>10 DEF Redirected
<1> QED BY <1>1, <1>2, <1>3 DEF Patch

LEMMA AddressesKept == NoSplice /\ IInv /\ Addresses /\ [Next]_vars => Addresses'
<1> SUFFICES ASSUME NoSplice, IInv, Addresses, [Next]_vars PROVE Addresses'
  OBVIOUS
<1> USE DEF Addresses, Goto
<1>1. CASE Load \/ Unload \/ UNCHANGED vars
  BY <1>1 DEF Load, Unload, vars, avars, OnlyOriginals, UrlWhole, OthersUntouched, DoneWhenRestoring,
              Done, Redirected
<1>2. CASE CheckHeaders \/ Unprotect \/ Search
  BY <1>2 DEF CheckHeaders, Unprotect, Search, avars, OnlyOriginals, UrlWhole, OthersUntouched,
              DoneWhenRestoring, Redirected
<1>3. CASE SkipSection
  <2>1. disk \in Images /\ Len(disk) \in Nat /\ DOMAIN disk = 1..Len(disk) /\ section \in 1..(Len(disk) + 1)
    BY DiskTyped DEF IInv, Shape
  <2>2. OnlyOriginals' /\ UrlWhole' /\ OthersUntouched' /\ DoneWhenRestoring'
    BY <1>3 DEF SkipSection, OnlyOriginals, UrlWhole, OthersUntouched, DoneWhenRestoring
  <2>3. pc' = "loaded" => \A s \in DOMAIN disk : ~disk[s].rdata
    BY <1>3, <2>1 DEF SkipSection, IInv, Place
  <2>4. Redirected'
    BY <1>3, <2>3 DEF SkipSection, Redirected
  <2> QED BY <2>2, <2>4
<1>4. CASE Patch
  BY <1>4, PatchKeeps
<1>5. CASE Restore
  <2>1. disk \in Images /\ Len(disk) \in Nat /\ DOMAIN disk = 1..Len(disk) /\ section \in DOMAIN disk
        /\ disk[section].rdata
    BY <1>5, DiskTyped DEF Restore, IInv, Shape, Place
  <2>2. OnlyOriginals' /\ UrlWhole' /\ OthersUntouched' /\ DoneWhenRestoring'
    BY <1>5 DEF Restore, OnlyOriginals, UrlWhole, OthersUntouched, DoneWhenRestoring
  <2>3. Redirected'
    <3>1. SUFFICES ASSUME NEW s \in DOMAIN disk, NEW k \in 0..Len(disk[s].data),
                          disk[s].rdata, \A r \in 1..(s - 1) : ~disk[r].rdata,
                          FirstOccurrence(Url, disk[s].data, k)
                   PROVE  Patched(image[s], k)
      BY <1>5 DEF Restore, Redirected
    <3>2. s = section
      <4>1. \A r \in 1..(section - 1) : ~disk[r].rdata
        BY <1>5 DEF Restore, IInv, Place
      <4>2. ~(s < section) /\ ~(section < s)
        BY <2>1, <3>1, <4>1
      <4> QED BY <2>1, <4>2
    <3> QED BY <1>5, <3>1, <3>2 DEF Restore, DoneWhenRestoring, Done
  <2> QED BY <2>2, <2>3
<1>6. CASE Restart
  <2>1. \A s \in DOMAIN disk : image'[s] = disk[s].data /\ disk[s].data \in Seq(Chars)
    BY <1>6, FreshTyped DEF Restart, IInv, Shape
  <2>2. disk' = disk /\ pc' = "unloaded"
    BY <1>6 DEF Restart
  <2>3. UrlWhole'
    BY <2>1, <2>2 DEF UrlWhole, FirstOccurrence
  <2>4. OnlyOriginals' /\ OthersUntouched'
    BY <2>1, <2>2 DEF OnlyOriginals, OthersUntouched
  <2> QED BY <2>2, <2>3, <2>4 DEF DoneWhenRestoring, Redirected
<1> QED BY <1>1, <1>2, <1>3, <1>4, <1>5, <1>6 DEF Next, Constructor

\* With a replacement of any length, longer ones such as that of config.h included,
\* the invariant about addresses holds, as long as what is written completes no address.
THEOREM AddressInvariant ==
  ASSUME NoSplice
  PROVE  Spec => []Addresses
<1>1. NoSplice
  OBVIOUS
<1>2. IInv /\ Addresses /\ [Next]_vars => Addresses'
  BY <1>1, AddressesKept
<1> QED BY <1>2, AddressesStart, Invariant, PTL DEF Spec

\* The address is the original one or the platform's, never a mixture, however
\* long the platform's is.
THEOREM UrlIsWhole ==
  ASSUME NoSplice
  PROVE  Spec => []UrlWhole
<1>1. Addresses => UrlWhole
  BY DEF Addresses
<1>2. Spec => []Addresses
  BY AddressInvariant
<1> QED BY <1>1, <1>2, PTL

\* A byte only changes where strcpy writes over an address of the disk: a longer
\* replacement reaches behind the address, but never into anything else.
THEOREM OthersAreUntouched ==
  ASSUME NoSplice
  PROVE  Spec => []OthersUntouched
<1>1. Addresses => OthersUntouched
  BY DEF Addresses
<1>2. Spec => []Addresses
  BY AddressInvariant
<1> QED BY <1>1, <1>2, PTL

\* Once loaded, the program asks this platform.
THEOREM IsRedirected ==
  ASSUME NoSplice
  PROVE  Spec => []Redirected
<1>1. Addresses => Redirected
  BY DEF Addresses
<1>2. Spec => []Addresses
  BY AddressInvariant
<1> QED BY <1>1, <1>2, PTL
-----------------------------------------------------------------------------
(* How long loading takes.  A fall-back costs a turn, but takes back what  *)
(* an earlier turn has advanced, so that two turns for every character are *)
(* enough; and the constructor goes from phase to phase only forwards.     *)

\* Turns that the loops may still take, including the one that ends them.
TurnsLeft ==
  IF loop = "build" THEN 2 * (Len(pattern) - i) + j + 2 * Len(text) + 2
  ELSE IF loop = "search" THEN 2 * (Len(text) - i) + j + 1
  ELSE 0

\* Every turn is one less, of no more than two for each character.
SearchLinear ==
  /\ [](pc = "search" => TurnsLeft \in 0..(2 * (Len(Url) + Len(image[section]))))
  /\ [][Search => TurnsLeft' < TurnsLeft]_vars

\* How many phases are to come, and how many steps of this one.
PhasesLeft ==
  IF pc = "headers" THEN 4
  ELSE IF pc = "sections" THEN 3
  ELSE IF pc = "search" THEN 2
  ELSE IF pc = "restore" THEN 1
  ELSE 0
StepsLeft ==
  IF pc = "sections" THEN Len(disk) + 1 - section
  ELSE IF pc = "search" THEN TurnsLeft
  ELSE 0

\* Every step of the constructor is one less of a finite number: no image and
\* no address make it go round in circles.
LoadingApproachesItsEnd ==
  /\ [](StepsLeft \in Nat)
  /\ [][Constructor => \/ PhasesLeft' < PhasesLeft
                       \/ PhasesLeft' = PhasesLeft /\ StepsLeft' < StepsLeft]_vars

\* Where the loops are bounds the turns that are left.
LEMMA TurnsBounded ==
  ASSUME KmpInv
  PROVE  TurnsLeft \in 0..(2 * (Len(pattern) + Len(text)))
<1>1. Len(pattern) \in Nat /\ Len(pattern) > 0 /\ Len(text) \in Nat
  BY DEF KmpInv, Strings
<1>2. CASE loop = "build"
  <2>1. i \in Int /\ j \in Int /\ 1 <= i /\ i <= Len(pattern) /\ 0 <= j /\ j <= i - 1
    BY <1>1, <1>2 DEF KmpInv, BuildInv
  <2> QED BY <1>1, <1>2, <2>1 DEF TurnsLeft
<1>3. CASE loop = "search"
  <2>1. i \in Int /\ j \in Int /\ 0 <= i /\ i <= Len(text) /\ 0 <= j /\ j <= i
    BY <1>1, <1>3 DEF KmpInv, SearchInv, Suffix
  <2> QED BY <1>1, <1>3, <2>1 DEF TurnsLeft
<1>4. CASE loop \notin {"build", "search"}
  BY <1>1, <1>4 DEF TurnsLeft
<1> QED BY <1>2, <1>3, <1>4

\* A fall-back shortens the match, any other turn goes on by a character.
LEMMA TurnsTaken ==
  ASSUME KmpInv, KStep
  PROVE  TurnsLeft' < TurnsLeft
<1>1. Strings /\ Len(pattern) \in Nat /\ Len(text) \in Nat
  BY DEF KmpInv, Strings
<1>2. CASE BuildFallBack
  <2>1. /\ BuildInv /\ loop = "build" /\ j > 0 /\ j' = table[j - 1]
        /\ UNCHANGED <<text, pattern, loop, i>>
    BY <1>2 DEF KmpInv, BuildFallBack, FallBack, Mismatch
  <2>2. i \in Int /\ j \in Int /\ j - 1 \in 0..(i - 1) /\ (j - 1) + 1 = j
    BY <1>1, <2>1 DEF BuildInv
  <2>3. j' \in 0..(j - 1)
    BY <2>1, <2>2 DEF BuildInv, TableUpTo, LongestBorder
  <2> QED BY <1>1, <2>1, <2>2, <2>3 DEF TurnsLeft
<1>3. CASE BuildEntry
  <2>1. /\ BuildInv /\ loop = "build" /\ j' \in {j, j + 1} /\ i' = i + 1
        /\ UNCHANGED <<text, pattern, loop>>
    BY <1>3 DEF KmpInv, BuildEntry, Matched
  <2>2. i \in Int /\ j \in Int
    BY <1>1, <2>1 DEF BuildInv
  <2> QED BY <1>1, <2>1, <2>2 DEF TurnsLeft
<1>4. CASE BuildEnds
  <2>1. /\ BuildInv /\ loop = "build" /\ loop' = "search" /\ i' = 0 /\ j' = 0
        /\ UNCHANGED <<text, pattern>>
    BY <1>4 DEF KmpInv, BuildEnds
  <2>2. i \in Int /\ j \in Int /\ i <= Len(pattern) /\ 0 <= j
    BY <1>1, <2>1 DEF BuildInv
  <2> QED BY <1>1, <2>1, <2>2 DEF TurnsLeft
<1>5. CASE SearchFallBack
  <2>1. /\ SearchInv /\ loop = "search" /\ j > 0 /\ j' = table[j - 1]
        /\ UNCHANGED <<text, pattern, loop, i>>
    BY <1>5 DEF KmpInv, SearchFallBack, FallBack, Mismatch
  <2>2. i \in Int /\ j \in Int /\ j - 1 \in 0..(Len(pattern) - 1) /\ (j - 1) + 1 = j
    BY <1>1, <2>1 DEF SearchInv
  <2>3. j' \in 0..(j - 1)
    BY <2>1, <2>2 DEF SearchInv, TableUpTo, LongestBorder
  <2> QED BY <1>1, <2>1, <2>2, <2>3 DEF TurnsLeft
<1>6. CASE SearchAdvance
  <2>1. /\ SearchInv /\ loop = "search" /\ i < Len(text) /\ j' \in {j, j + 1}
        /\ loop' = "none" \/ (loop' = loop /\ i' = i + 1)
        /\ UNCHANGED <<text, pattern>>
    BY <1>6 DEF KmpInv, SearchAdvance, Matched
  <2>2. i \in Int /\ j \in Int /\ 0 <= j
    BY <1>1, <2>1 DEF SearchInv
  <2> QED BY <1>1, <2>1, <2>2 DEF TurnsLeft
<1>7. CASE SearchFails
  <2>1. SearchInv /\ loop = "search" /\ loop' = "none"
    BY <1>7 DEF KmpInv, SearchFails
  <2>2. i \in Int /\ j \in Int /\ i <= Len(text) /\ 0 <= j
    BY <1>1, <2>1 DEF SearchInv
  <2> QED BY <1>1, <2>1, <2>2 DEF TurnsLeft
<1> QED BY <1>2, <1>3, <1>4, <1>5, <1>6, <1>7 DEF KStep

\* The search is linear in the address and the section it looks at.
THEOREM SearchIsLinear == Spec => SearchLinear
<1>1. IInv => (pc = "search" => TurnsLeft \in 0..(2 * (Len(Url) + Len(image[section]))))
  BY TurnsBounded DEF IInv, Searching
<1>2. IInv /\ [Next]_vars => [Search => TurnsLeft' < TurnsLeft]_vars
  BY TurnsTaken DEF IInv, Searching, Search
<1> QED BY <1>1, <1>2, Invariant, PTL DEF Spec, SearchLinear

\* The constructor comes closer to its end with every step, for any image, any
\* address and any refusals: what LoadingEnds needs besides fairness.
THEOREM EveryStepCounts == Spec => LoadingApproachesItsEnd
<1>1. ASSUME IInv PROVE StepsLeft \in Nat
  <2>1. section \in 1..(Len(disk) + 1) /\ Len(disk) \in Nat
    BY <1>1, DiskTyped DEF IInv, Shape
  <2>2. CASE pc = "search"
    <3>1. KmpInv
      BY <1>1, <2>2 DEF IInv, Searching
    <3> QED BY <2>2, <3>1, TurnsBounded DEF StepsLeft, KmpInv, Strings
  <2> QED BY <2>1, <2>2 DEF StepsLeft
<1>2. ASSUME IInv, Constructor
      PROVE  \/ PhasesLeft' < PhasesLeft
             \/ PhasesLeft' = PhasesLeft /\ StepsLeft' < StepsLeft
  <2>1. CASE CheckHeaders \/ Unprotect \/ Patch \/ Restore
    BY <2>1 DEF CheckHeaders, Unprotect, Patch, Restore, Goto, PhasesLeft
  <2>2. CASE SkipSection
    <3>1. section \in 1..(Len(disk) + 1) /\ Len(disk) \in Nat /\ DOMAIN disk = 1..Len(disk)
      BY <1>2, DiskTyped DEF IInv, Shape
    <3>2. /\ disk' = disk /\ pc = "sections"
          /\ pc' = "loaded" \/ (pc' = pc /\ section' = section + 1 /\ section \in DOMAIN disk)
      BY <2>2 DEF SkipSection, Goto
    <3>3. CASE pc' = "loaded"
      <4>1. PhasesLeft' = 0 /\ PhasesLeft = 3
        BY <3>2, <3>3 DEF PhasesLeft
      <4> QED BY <4>1
    <3>4. CASE pc' = pc /\ section' = section + 1
      BY <3>1, <3>2, <3>4 DEF PhasesLeft, StepsLeft
    <3> QED BY <3>2, <3>3, <3>4
  <2>3. CASE Search
    <3>1. pc = "search" /\ pc' = pc /\ TurnsLeft' < TurnsLeft
      BY <1>2, <2>3, TurnsTaken DEF IInv, Searching, Search, avars
    <3> QED BY <3>1 DEF PhasesLeft, StepsLeft
  <2> QED BY <1>2, <2>1, <2>2, <2>3 DEF Constructor
<1>3. IInv /\ [Next]_vars =>
        [Constructor => \/ PhasesLeft' < PhasesLeft
                        \/ PhasesLeft' = PhasesLeft /\ StepsLeft' < StepsLeft]_vars
  BY <1>2
<1> QED BY <1>1, <1>3, Invariant, PTL DEF Spec, LoadingApproachesItsEnd
-----------------------------------------------------------------------------
(* The patch implements Redirect.tla.                                      *)

\* The two ways to say that Url occurs after the first k characters.
LEMMA OccursAsComes ==
  ASSUME NEW s \in Seq(Chars), NEW k \in Nat
  PROVE  OccursAt(Url, s, k) <=> M!ComesAfter(s, k)
<1>1. Len(s) \in Nat /\ Len(Url) \in Nat /\ Len(Url) > 0 /\ Url \in Seq(Chars)
  BY Characters
<1>2. CASE k + Len(Url) <= Len(s)
  <2> DEFINE t == SubSeq(s, k + 1, k + Len(Url))
  <2>1. t \in Seq(Chars) /\ Len(t) = Len(Url) /\ \A x \in 1..Len(Url) : t[x] = s[k + x]
    BY <1>1, <1>2, SubSeqProperties
  <2> HIDE DEF t
  <2>2. ASSUME OccursAt(Url, s, k) PROVE t = Url
    <3>1. ASSUME NEW x \in 1..Len(Url) PROVE t[x] = Url[x]
      <4>1. x - 1 \in 0..(Len(Url) - 1) /\ (x - 1) + 1 = x /\ (k + (x - 1)) + 1 = k + x
        BY <1>1
      <4>2. At(Url, x - 1) = At(s, k + (x - 1))
        BY <2>2, <4>1 DEF OccursAt
      <4> QED BY <2>1, <4>1, <4>2 DEF At
    <3> QED BY <1>1, <2>1, <3>1, SeqEqual
  <2>3. ASSUME t = Url PROVE OccursAt(Url, s, k)
    <3>1. ASSUME NEW x \in 0..(Len(Url) - 1) PROVE At(Url, x) = At(s, k + x)
      <4>1. x + 1 \in 1..Len(Url) /\ (k + x) + 1 = k + (x + 1)
        BY <1>1
      <4> QED BY <2>1, <2>3, <4>1 DEF At
    <3> QED BY <1>1, <1>2, <3>1 DEF OccursAt
  <2> QED BY <1>2, <2>2, <2>3 DEF M!ComesAfter, OccursAt, t
<1>3. CASE ~(k + Len(Url) <= Len(s))
  BY <1>3 DEF M!ComesAfter, OccursAt
<1> QED BY <1>2, <1>3

\* What strcpy leaves is what stood before, Target, its terminator, and what
\* stood behind them, cut to the length of the section.
LEMMA StrcpyOverwrites ==
  ASSUME NEW s \in Seq(Chars), NEW r \in Nat, r <= Len(s)
  PROVE  Strcpy(s, r) = M!Overwritten(s, r)
<1> DEFINE n == Len(Target)
           a == SubSeq(s, 1, r)
           b == a \o Target
           c == b \o <<Nul>>
           d == SubSeq(s, r + n + 2, Len(s))
           e == c \o d
           t == Strcpy(s, r)
<1>1. Len(s) \in Nat /\ n \in Nat /\ Target \in Seq(Chars) /\ Nul \in Chars /\ r + n + 2 \in Int
  BY Characters
<1>2. a \in Seq(Chars) /\ Len(a) = r /\ \A x \in 1..r : a[x] = s[x]
  BY <1>1, SubSeqProperties
<1>3. d \in Seq(Chars) /\ Len(d) \in Nat /\ Len(s) <= r + n + 1 + Len(d)
      /\ \A x \in 1..(Len(s) - (r + n + 1)) : x \in 1..Len(d) /\ d[x] = s[r + n + 1 + x]
  <2>1. \A x \in (r + n + 2)..Len(s) : s[x] \in Chars
    BY <1>1
  <2>2. /\ d \in Seq(Chars)
        /\ Len(d) = IF r + n + 2 <= Len(s) THEN Len(s) - (r + n + 2) + 1 ELSE 0
        /\ \A x \in 1..(Len(s) - (r + n + 2) + 1) : d[x] = s[r + n + 2 + x - 1]
    <3>1. r + n + 2 \in Int /\ Len(s) \in Int
      BY <1>1
    <3> DEFINE m == r + n + 2
               l == Len(s)
    <3>2. m \in Int /\ l \in Int /\ \A x \in m..l : s[x] \in Chars
      BY <2>1, <3>1
    <3> HIDE DEF m, l
    <3>3. /\ SubSeq(s, m, l) \in Seq(Chars)
          /\ Len(SubSeq(s, m, l)) = IF m <= l THEN l - m + 1 ELSE 0
          /\ \A x \in 1..(l - m + 1) : SubSeq(s, m, l)[x] = s[m + x - 1]
      BY <3>2, SubSeqProperties
    <3> QED BY <3>3 DEF m, l
  <2>3. ASSUME NEW x \in 1..(Len(s) - (r + n + 1))
        PROVE  x \in 1..(Len(s) - (r + n + 2) + 1) /\ r + n + 2 + x - 1 = r + n + 1 + x
               /\ r + n + 2 <= Len(s)
    BY <1>1
  <2> HIDE DEF d, n
  <2>4. ASSUME NEW x \in 1..(Len(s) - (r + n + 1)) PROVE x \in 1..Len(d) /\ d[x] = s[r + n + 1 + x]
    <3>1. d[x] = s[r + n + 1 + x]
      BY <2>2, <2>3
    <3> QED BY <1>1, <2>2, <2>3, <3>1
  <2>5. Len(d) \in Nat /\ Len(s) <= r + n + 1 + Len(d)
    <3>1. CASE r + n + 2 <= Len(s)
      <4>1. Len(d) = Len(s) - (r + n + 2) + 1
        BY <2>2, <3>1
      <4> QED BY <1>1, <3>1, <4>1
    <3>2. CASE ~(r + n + 2 <= Len(s))
      <4>1. Len(d) = 0
        BY <2>2, <3>2
      <4> QED BY <1>1, <3>2, <4>1
    <3> QED BY <3>1, <3>2
  <2> QED BY <2>2, <2>4, <2>5
<1>4. t \in Seq(Chars) /\ Len(t) = Len(s)
      /\ \A x \in 1..Len(s) :
           t[x] = IF x - 1 - r \in 0..n THEN At(Written, x - 1 - r) ELSE s[x]
  <2>1. DOMAIN s = 1..Len(s)
    OBVIOUS
  <2>2. t \in Seq(Chars) /\ Len(t) = Len(s)
    BY StrcpyTyped
  <2> QED BY <2>1, <2>2 DEF Strcpy
<1> HIDE DEF a, d, t, n
<1>5. b \in Seq(Chars) /\ Len(b) = r + n
      /\ \A x \in 1..(r + n) : b[x] = IF x <= r THEN a[x] ELSE Target[x - r]
  <2>1. /\ a \o Target \in Seq(Chars) /\ Len(a \o Target) = Len(a) + Len(Target)
        /\ \A x \in 1..(Len(a) + Len(Target)) :
             (a \o Target)[x] = IF x <= Len(a) THEN a[x] ELSE Target[x - Len(a)]
    <3>1. a \in Seq(Chars) /\ Target \in Seq(Chars)
      BY <1>1, <1>2
    <3> QED BY <3>1, ConcatProperties
  <2> QED BY <1>2, <2>1 DEF n
<1> HIDE DEF b
<1>6. c \in Seq(Chars) /\ Len(c) = r + n + 1
      /\ \A x \in 1..(r + n + 1) : c[x] = IF x <= r + n THEN b[x] ELSE Nul
  BY <1>1, <1>5, ConcatProperties
<1> HIDE DEF c
<1>7. e \in Seq(Chars) /\ Len(e) = r + n + 1 + Len(d)
      /\ \A x \in 1..(r + n + 1 + Len(d)) : e[x] = IF x <= r + n + 1 THEN c[x] ELSE d[x - (r + n + 1)]
  <2>1. /\ c \o d \in Seq(Chars) /\ Len(c \o d) = Len(c) + Len(d)
        /\ \A x \in 1..(Len(c) + Len(d)) : (c \o d)[x] = IF x <= Len(c) THEN c[x] ELSE d[x - Len(c)]
    <3>1. c \in Seq(Chars) /\ d \in Seq(Chars)
      BY <1>3, <1>6
    <3> QED BY <3>1, ConcatProperties
  <2> QED BY <1>6, <2>1
<1> HIDE DEF e
<1>8. ASSUME NEW x \in 1..Len(s) PROVE x \in 1..(r + n + 1 + Len(d)) /\ e[x] = t[x]
  <2>0. x \in 1..(r + n + 1 + Len(d))
    BY <1>1, <1>3
  <2>1. CASE x <= r
    <3>1. x \in 1..r /\ x \in 1..(r + n) /\ x \in 1..(r + n + 1) /\ x <= r + n /\ x <= r + n + 1
          /\ x - 1 - r \notin 0..n
      BY <1>1, <2>1
    <3>2. e[x] = s[x]
      BY <1>2, <1>5, <1>6, <1>7, <2>0, <2>1, <3>1
    <3> QED BY <1>4, <2>0, <3>1, <3>2
  <2>2. CASE r < x /\ x <= r + n
    <3>1. x \in 1..(r + n) /\ x \in 1..(r + n + 1) /\ x <= r + n + 1 /\ ~(x <= r)
          /\ x - 1 - r \in 0..n /\ x - 1 - r < n /\ (x - 1 - r) + 1 = x - r
      BY <1>1, <2>2
    <3>2. e[x] = Target[x - r]
      BY <1>5, <1>6, <1>7, <2>0, <2>2, <3>1
    <3>3. At(Written, x - 1 - r) = At(Target, x - 1 - r)
      BY <3>1, WrittenIs DEF n
    <3> QED BY <1>4, <2>0, <3>1, <3>2, <3>3 DEF At
  <2>3. CASE x = r + n + 1
    <3>1. x \in 1..(r + n + 1) /\ x <= r + n + 1 /\ ~(x <= r + n)
          /\ x - 1 - r \in 0..n /\ x - 1 - r = n
      BY <1>1, <2>3
    <3>2. e[x] = Nul
      BY <1>6, <1>7, <2>0, <3>1
    <3>3. At(Written, x - 1 - r) = Nul
      BY <3>1, WrittenIs DEF n
    <3> QED BY <1>4, <2>0, <3>1, <3>2, <3>3
  <2>4. CASE r + n + 1 < x
    <3>1. ~(x <= r + n + 1) /\ x - (r + n + 1) \in 1..(Len(s) - (r + n + 1))
          /\ r + n + 1 + (x - (r + n + 1)) = x
          /\ x - 1 - r \notin 0..n
      BY <1>1, <2>4
    <3>2. e[x] = s[x]
      BY <1>3, <1>7, <2>0, <3>1
    <3> QED BY <1>4, <2>0, <3>1, <3>2
  <2>5. x <= r \/ (r < x /\ x <= r + n) \/ x = r + n + 1 \/ r + n + 1 < x
    BY <1>1
  <2> QED BY <2>1, <2>2, <2>3, <2>4, <2>5
<1>9. SubSeq(e, 1, Len(s)) = t
  <2> DEFINE u == SubSeq(e, 1, Len(s))
  <2>1. \A x \in 1..Len(s) : e[x] \in Chars
    BY <1>7, <1>8
  <2>2. u \in Seq(Chars) /\ Len(u) = Len(s) /\ \A x \in 1..Len(s) : u[x] = e[x]
    BY <1>1, <2>1, SubSeqProperties
  <2> HIDE DEF u
  <2>3. u = t
    BY <1>4, <1>8, <2>2, SeqEqual
  <2> QED BY <2>3 DEF u
<1>10. M!Overwritten(s, r) = SubSeq(((a \o Target) \o <<Nul>>) \o d, 1, Len(s))
  BY DEF M!Overwritten, a, d, n
<1> QED BY <1>9, <1>10 DEF b, c, e, t

\* The step that writes is the step of Redirect.tla; there it needs no search.
LEMMA PatchSubstitutes ==
  ASSUME IInv, Patch, image' # image
  PROVE  M!Substitute
<1>1. /\ section \in DOMAIN disk /\ disk[section].rdata /\ \A r \in 1..(section - 1) : ~disk[r].rdata
      /\ image[section] \in Seq(Chars)
      /\ FirstOccurrence(Url, image[section], result)
  BY DEF Patch, IInv, Place, Shape, Searching, KmpInv
<1>2. result # -1 /\ image' = [image EXCEPT ![section] = Strcpy(@, result)] /\ UNCHANGED disk
  BY DEF Patch
<1>3. result \in Nat /\ OccursAt(Url, image[section], result)
      /\ \A x \in 0..(result - 1) : ~OccursAt(Url, image[section], x)
  BY <1>1, <1>2 DEF FirstOccurrence
<1>4. result + Len(Url) <= Len(image[section]) /\ result \in 0..Len(image[section])
  BY <1>1, <1>3, Characters DEF OccursAt
<1>5. M!FirstAfter(image[section], result)
  <2>1. \A x \in 0..(result - 1) : x \in Nat
    BY <1>3
  <2> QED BY <1>1, <1>3, <2>1, OccursAsComes DEF M!FirstAfter
<1>6. image' = [image EXCEPT ![section] = M!Overwritten(@, result)]
  <2>1. result <= Len(image[section])
    BY <1>4
  <2>2. Strcpy(image[section], result) = M!Overwritten(image[section], result)
    BY <1>1, <1>3, <2>1, StrcpyOverwrites
  <2> QED BY <1>2, <2>2
<1> QED BY <1>1, <1>2, <1>4, <1>5, <1>6 DEF M!Substitute

\* Every other step leaves the memory of the program alone, or starts it again.
LEMMA RefinesStep ==
  ASSUME IInv, [Next]_vars
  PROVE  [M!RedirectNext]_(M!redirectVars)
<1>1. CASE Patch
  <2>1. UNCHANGED disk
    BY <1>1 DEF Patch
  <2> QED BY <1>1, <2>1, PatchSubstitutes DEF M!RedirectNext, M!redirectVars
<1>2. CASE Restart
  BY <1>2 DEF Restart, Fresh, M!RedirectNext, M!Reload, M!FromDisk
<1>3. CASE Load \/ CheckHeaders \/ SkipSection \/ Unprotect \/ Search \/ Restore \/ Unload \/ UNCHANGED vars
  BY <1>3 DEF Load, CheckHeaders, SkipSection, Unprotect, Search, Restore, Unload, vars, avars, M!redirectVars
<1> QED BY <1>1, <1>2, <1>3 DEF Next, Constructor

\* The patch does one thing and does it at once, for any image, any addresses, and
\* whatever Windows refuses.
THEOREM Implementation == Spec => ImplementsRedirect
<1>1. Init => M!RedirectInit
  BY DEF Init, Fresh, M!RedirectInit, M!FromDisk
<1>2. IInv /\ [Next]_vars => [M!RedirectNext]_(M!redirectVars)
  BY RefinesStep
<1> QED BY <1>1, <1>2, Invariant, PTL DEF Spec, ImplementsRedirect, M!RedirectSpec
=============================================================================
