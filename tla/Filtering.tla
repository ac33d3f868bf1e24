------------------------------ MODULE Filtering ------------------------------
(****************************************************************************)
(* What Rust's `retain` leaves of a sequence, as a recursive function: its   *)
(* proofs (FilteringProofs) unfold it, which SelectSeq does not allow.       *)
(****************************************************************************)
EXTENDS Naturals, Sequences

\* The elements of s that are in K, in their order.
Kept(s, K) ==
    LET upTo[n \in 0 .. Len(s)] ==
           IF n = 0 THEN <<>>
           ELSE IF s[n] \in K THEN Append(upTo[n - 1], s[n]) ELSE upTo[n - 1]
    IN  upTo[Len(s)]
=============================================================================
