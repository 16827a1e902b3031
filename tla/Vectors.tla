------------------------------ MODULE Vectors ------------------------------
(***************************************************************************)
(* Vec::retain and Iterator::filter of the standard library: the elements  *)
(* that pass a test, in their order.  Written as a recursive function, so  *)
(* that the proofs can reason about it.                                    *)
(***************************************************************************)
EXTENDS Naturals, Sequences

\* The elements of s at the positions of K.
RetainAt(s, K) ==
    LET kept[k \in 0..Len(s)] ==
            IF k = 0 THEN << >>
            ELSE IF k \in K THEN Append(kept[k - 1], s[k]) ELSE kept[k - 1]
    IN  kept[Len(s)]

\* The elements of s that are in S.
Retain(s, S) == RetainAt(s, {i \in DOMAIN s : s[i] \in S})
=============================================================================
