------------------------------- MODULE AuthPatch -------------------------------
(***************************************************************************)
(* The EuroScope patch (openfsd-patch-for-es-main/src): a plug-in whose    *)
(* constructor looks for the address of the VATSIM login service among the *)
(* read-only data of the running program and writes the address of this    *)
(* platform over it.  The search itself is Kmp.tla.                        *)
(*                                                                         *)
(* The program can be restarted at any time, which loads its image from    *)
(* the disk again; the plug-in can be loaded and unloaded any number of    *)
(* times.  Windows may refuse to change the protection of a page, which    *)
(* the code does not look at.                                              *)
(***************************************************************************)
EXTENDS Kmp

CONSTANTS
  Chars,     \* characters
  Nul,       \* the one that ends a string
  Url,       \* "https://auth.vatsim.net/api/fsd-jwt"
  Target,    \* TARGET_JWT_URL of config.h
  Images,    \* images of the program on the disk: a sequence of sections
  Protections, \* page protections: of reading, of writing, or garbage
  ReadOnly,
  ReadWrite

\* Strings of the source end at their first Nul; the addresses have no other.
ASSUME AuthPatchAssumption ==
  /\ Nul \in Chars
  /\ Url \in Seq(Chars \ {Nul}) /\ Len(Url) > 0
  /\ Target \in Seq(Chars \ {Nul}) /\ Len(Target) > 0
  /\ Images \subseteq Seq([rdata : BOOLEAN, data : Seq(Chars)])
  /\ ReadOnly \in Protections /\ ReadWrite \in Protections /\ ReadOnly # ReadWrite

\* What strcpy writes.
Written == Append(Target, Nul)

\* No Url begins or ends in what is written, or else the replacement could complete
\* another one with what stands before it or behind it, and the next load would
\* write there.  The Target of config.h and the Url of the code are of this kind:
\* they differ in their fifth characters, and neither goes on where the other one ends.
NoSplice ==
  \A a \in (-Len(Target))..(Len(Url) - 1) :
    \E x \in 0..Len(Target) :
      a + x \in 0..(Len(Url) - 1) /\ At(Written, x) # At(Url, a + x)

VARIABLES
  disk,       \* the image from which the program was started
  headers,    \* its module handle and its DOS and PE headers are as expected
  image,      \* the image in memory
  protection, \* protection of the pages of every section
  pc,         \* where the constructor is
  section,    \* the section it looks at, counted from one
  oldProtect, \* what it keeps in oldProtect
  refused     \* Windows refused a change of protection (history)

avars == <<disk, headers, image, protection, pc, section, oldProtect, refused>>
vars == <<kvars, avars>>

Fresh(d) == [s \in DOMAIN d |-> d[s].data]
AsLoaded(d) == [s \in DOMAIN d |-> ReadOnly]

Init ==
  /\ KInit
  /\ disk \in Images
  /\ headers \in BOOLEAN
  /\ image = Fresh(disk)
  /\ protection = AsLoaded(disk)
  /\ pc = "unloaded" /\ section = 1
  /\ oldProtect = ReadOnly /\ refused = FALSE

Goto(p) == pc' = p

\* EuroScopePlugInInit: the constructor begins.
Load ==
  /\ pc = "unloaded"
  /\ Goto("headers")
  /\ UNCHANGED <<kvars, disk, headers, image, protection, section, oldProtect, refused>>

\* No module, a wrong DOS or a wrong PE header: a message, and an early return.
CheckHeaders ==
  /\ pc = "headers"
  /\ IF headers THEN Goto("sections") /\ section' = 1 ELSE Goto("loaded") /\ UNCHANGED section
  /\ UNCHANGED <<kvars, disk, headers, image, protection, oldProtect, refused>>

\* Every section has another name: the constructor returns without a word.
\* Names are compared up to the sixth character.
SkipSection ==
  /\ pc = "sections"
  /\ section \in DOMAIN disk => ~disk[section].rdata
  /\ IF section \in DOMAIN disk THEN section' = section + 1 /\ UNCHANGED pc
                                ELSE Goto("loaded") /\ UNCHANGED section
  /\ UNCHANGED <<kvars, disk, headers, image, protection, oldProtect, refused>>

\* VirtualProtect leaves oldProtect uninitialised when it fails.
VirtualProtect(new) ==
  \/ /\ protection' = [protection EXCEPT ![section] = new]
     /\ oldProtect' = protection[section]
     /\ UNCHANGED refused
  \/ /\ oldProtect' \in Protections
     /\ refused' = TRUE
     /\ UNCHANGED protection

\* Faulty: a section is taken whatever its name.
UnprotectAny ==
  /\ pc = "sections"
  /\ section \in DOMAIN disk
  /\ VirtualProtect(ReadWrite)
  /\ Call(image[section], Url)
  /\ Goto("search")
  /\ UNCHANGED <<disk, headers, image, section>>

\* The first section of the name: its pages are made writable and a copy of
\* them is searched.
Unprotect ==
  /\ pc = "sections"
  /\ section \in DOMAIN disk /\ disk[section].rdata
  /\ VirtualProtect(ReadWrite)
  /\ Call(image[section], Url)
  /\ Goto("search")
  /\ UNCHANGED <<disk, headers, image, section>>

Search ==
  /\ pc = "search"
  /\ KStep
  /\ UNCHANGED avars

\* Faulty: a memcpy that forgets the terminator.
Memcpy(s, k) ==
  [x \in DOMAIN s |-> IF x - 1 - k \in 0..(Len(Target) - 1) THEN At(Target, x - 1 - k) ELSE s[x]]

\* What strcpy of Target to position k makes of the section s: Target and a
\* terminator, as far as the section reaches.
Strcpy(s, k) ==
  [x \in DOMAIN s |-> IF x - 1 - k \in 0..Len(Target) THEN At(Written, x - 1 - k) ELSE s[x]]

\* strcpy runs over the end of the section.
Overruns(s, k) == k + Len(Target) >= Len(s)

\* The result of the search.  To write to a protected page ends the program; the
\* page behind the section may be one.
Patch ==
  /\ pc = "search" /\ loop = "none"
  /\ \/ result = -1 /\ Goto("restore") /\ UNCHANGED image
     \/ /\ result # -1 /\ protection[section] = ReadWrite
        /\ image' = [image EXCEPT ![section] = Strcpy(@, result)]
        /\ Goto("restore")
     \/ /\ result # -1
        /\ protection[section] # ReadWrite \/ Overruns(image[section], result)
        /\ Goto("crashed") /\ UNCHANGED image
  /\ UNCHANGED <<kvars, disk, headers, protection, section, oldProtect, refused>>

\* Faulty: the protection is only given back when something was found.
RestoreIfFound ==
  /\ pc = "restore"
  /\ IF result = -1 THEN UNCHANGED <<protection, oldProtect, refused>>
                    ELSE VirtualProtect(oldProtect)
  /\ Goto("loaded")
  /\ UNCHANGED <<kvars, disk, headers, image, section>>

Restore ==
  /\ pc = "restore"
  /\ VirtualProtect(oldProtect)
  /\ Goto("loaded")
  /\ UNCHANGED <<kvars, disk, headers, image, section>>

\* EuroScopePlugInExit deletes the object and leaves the image as it is.
Unload ==
  /\ pc = "loaded"
  /\ Goto("unloaded")
  /\ UNCHANGED <<kvars, disk, headers, image, protection, section, oldProtect, refused>>

\* The program is started again.
Restart ==
  /\ KReset
  /\ image' = Fresh(disk) /\ protection' = AsLoaded(disk)
  /\ pc' = "unloaded" /\ section' = 1
  /\ oldProtect' = ReadOnly /\ refused' = FALSE
  /\ UNCHANGED <<disk, headers>>

Constructor ==
  \/ CheckHeaders
  \/ SkipSection
  \/ Unprotect
  \/ Search
  \/ Patch
  \/ Restore

Next == Load \/ Constructor \/ Unload \/ Restart

\* The constructor is sequential code: it runs.
Spec == Init /\ [][Next]_vars /\ WF_vars(Constructor)

-----------------------------------------------------------------------------
(* Properties.                                                             *)

Phases == {"unloaded", "headers", "sections", "search", "restore", "loaded", "crashed"}

\* Type correctness; indices stay within the strings and the table.
TypeOK ==
  /\ disk \in Images /\ headers \in BOOLEAN
  /\ DOMAIN image = DOMAIN disk /\ DOMAIN protection = DOMAIN disk
  /\ \A s \in DOMAIN disk :
       /\ image[s] \in Seq(Chars) /\ Len(image[s]) = Len(disk[s].data)
       /\ protection[s] \in Protections
  /\ pc \in Phases /\ section \in 1..(Len(disk) + 1)
  /\ oldProtect \in Protections /\ refused \in BOOLEAN
  /\ loop \in {"none", "build", "search"}
  /\ loop # "none" => pc = "search"
  /\ pc = "search" =>
       /\ pattern = Url /\ section \in DOMAIN disk /\ text = image[section]
       /\ DOMAIN table = 0..(Len(Url) - 1)
  /\ loop = "build" => i \in 1..Len(Url) /\ j \in 0..(i - 1)
  /\ loop = "search" => i \in 0..Len(text) /\ j \in 0..(Len(Url) - 1)

\* The table is exact: once built, entry k is the length of the longest proper
\* prefix of the pattern that ends its first k+1 characters.
TableExact ==
  loop = "search" => \A k \in 0..(Len(pattern) - 1) : LongestBorder(pattern, k + 1, table[k])

\* The search is exact: it returns the first occurrence, and -1 only when the
\* string is not there at all.
SearchExact == pc = "search" /\ loop = "none" => FirstOccurrence(pattern, text, result)

\* The login address is whole: where the program keeps it, there is at any time
\* either the original address or this platform's, ended by its terminator,
\* however often the plug-in is loaded and whatever the search runs into.
Patched(s, k) ==
  \A x \in 0..Len(Target) : k + x < Len(s) => At(s, k + x) = At(Written, x)
UrlWhole ==
  \A s \in DOMAIN disk : \A k \in 0..Len(disk[s].data) :
    FirstOccurrence(Url, disk[s].data, k) => OccursAt(Url, image[s], k) \/ Patched(image[s], k)

\* Nothing else is touched: a byte that has changed lies within what strcpy writes
\* over an address that the image on the disk has at that place, also when the
\* plug-in is loaded again and searches what an earlier load has left.
OthersUntouched ==
  \A s \in DOMAIN disk : \A x \in 0..(Len(disk[s].data) - 1) :
    At(image[s], x) # At(disk[s].data, x) =>
      \E k \in (x - Len(Target))..x : OccursAt(Url, disk[s].data, k)

\* What README.md wants from a Target that is shorter than Url: only the address
\* changes, and what the program keeps behind it stays.
OnlyTheAddress ==
  \A s \in DOMAIN disk : \A x \in 0..(Len(disk[s].data) - 1) :
    At(image[s], x) # At(disk[s].data, x) =>
      \E k \in (x - Len(Url) + 1)..x : OccursAt(Url, disk[s].data, k)

\* The protection is given back: outside the constructor no page is writable,
\* unless Windows has refused a change.
ProtectionRestored ==
  pc \in {"loaded", "unloaded"} /\ ~refused => protection = AsLoaded(disk)

\* Loading ends, whatever the image holds.
LoadingEnds == pc = "headers" ~> pc \in {"loaded", "crashed", "unloaded"}

\* A plug-in that has loaded has done its work: the program will ask this
\* platform, even if Windows has refused a change and even on a second load.
Redirected ==
  pc = "loaded" /\ headers =>
    \A s \in DOMAIN disk : \A k \in 0..Len(disk[s].data) :
      /\ disk[s].rdata /\ \A r \in 1..(s - 1) : ~disk[r].rdata
      /\ FirstOccurrence(Url, disk[s].data, k)
      => Patched(image[s], k)

M == INSTANCE Redirect

\* With its search, its early returns and its calls of Windows, the patch does
\* to the program what Redirect.tla says, and nothing else.
ImplementsRedirect == M!RedirectSpec
=============================================================================
