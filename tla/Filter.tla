--------------------------------- MODULE Filter ---------------------------------
(****************************************************************************)
(* What is left of a sequence that is walked once, from its first item to   *)
(* its last, by a loop that drops some of the items.                        *)
(****************************************************************************)
EXTENDS Naturals, Sequences

\* Filtered(s, kept)[i] is what is left when the first i items were visited.
Filtered(s, kept) ==
  LET f[i \in 0 .. Len(s)] ==
        IF i = 0 THEN <<>>
        ELSE IF s[i] \in kept THEN Append(f[i - 1], s[i]) ELSE f[i - 1]
  IN  f

Filter(s, kept) == Filtered(s, kept)[Len(s)]
=============================================================================
