------------------------------- MODULE Loops -------------------------------
(***************************************************************************)
(* What a loop over a slice collects that appends some of its elements.     *)
(* (Recursive functions, and not SelectSeq, of which the prover knows        *)
(* nothing.)                                                                 *)
(***************************************************************************)
EXTENDS Naturals, Sequences

\* The elements of s at the places P, in their order.
Kept(s, P) ==
    LET kept[i \in 0 .. Len(s)] ==
            IF i = 0 THEN << >>
            ELSE IF i \in P THEN Append(kept[i - 1], s[i]) ELSE kept[i - 1]
    IN  kept[Len(s)]

\* The elements that pass a test.
Where(s, Test(_)) == Kept(s, {i \in DOMAIN s : Test(s[i])})
=============================================================================
