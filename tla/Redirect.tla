------------------------------ MODULE Redirect ------------------------------
(***************************************************************************)
(* What the EuroScope patch promises to the running program, whatever its  *)
(* search, its loops and Windows do on the way: in one step, the first     *)
(* login address among the read-only data of the program is overwritten    *)
(* with the address of this platform, and nothing else ever happens to the *)
(* memory of the program.  AuthPatch.tla implements this specification.    *)
(***************************************************************************)
EXTENDS Integers, Sequences

CONSTANTS
  Nul,     \* the character that ends a string
  Url,     \* the address of the VATSIM login service
  Target   \* the address of this platform

VARIABLES
  disk,    \* the image on the disk: sections, some of them of the name
  image    \* the image in memory: the data of every section

redirectVars == <<disk, image>>

\* Url comes after the first k characters of s, and nowhere earlier.
ComesAfter(s, k) == k + Len(Url) <= Len(s) /\ SubSeq(s, k + 1, k + Len(Url)) = Url
FirstAfter(s, k) == ComesAfter(s, k) /\ \A x \in 0..(k - 1) : ~ComesAfter(s, x)

\* After the first k characters of s comes Target, and its terminator, as far as
\* s reaches.
Overwritten(s, k) ==
  SubSeq(SubSeq(s, 1, k) \o Target \o <<Nul>> \o SubSeq(s, k + Len(Target) + 2, Len(s)), 1, Len(s))

FromDisk(d) == [s \in DOMAIN d |-> d[s].data]

RedirectInit == image = FromDisk(disk)

\* The plug-in is loaded, for the first time or again.
Substitute ==
  /\ \E s \in DOMAIN disk :
       /\ disk[s].rdata /\ \A r \in 1..(s - 1) : ~disk[r].rdata
       /\ \E k \in 0..Len(image[s]) :
            /\ FirstAfter(image[s], k)
            /\ image' = [image EXCEPT ![s] = Overwritten(@, k)]
  /\ UNCHANGED disk

\* The program is started again.
Reload == image' = FromDisk(disk) /\ UNCHANGED disk

RedirectNext == Substitute \/ Reload

RedirectSpec == RedirectInit /\ [][RedirectNext]_redirectVars
=============================================================================
