------------------------------- MODULE Selection -------------------------------
(***************************************************************************)
(* SelectSeq for a set of elements, as a recursive function, which a proof *)
(* can unfold.  It stands for Array.prototype.filter and its likes.        *)
(***************************************************************************)
EXTENDS Naturals, Sequences

\* The elements of seq that are in S, in their order.
Kept(seq, S) ==
  LET kept[i \in 0..Len(seq)] ==
        IF i = 0 THEN << >>
        ELSE IF seq[i] \in S THEN Append(kept[i - 1], seq[i]) ELSE kept[i - 1]
  IN kept[Len(seq)]
=============================================================================
