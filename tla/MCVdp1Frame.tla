----------------------------- MODULE MCVdp1Frame -----------------------------
(* Vdp1Frame for TLC. *)
EXTENDS Vdp1Frame

\* In instant games TVMR and single rows do not matter, because no row is erased by
\* itself (GetLine, EarlySwap): TVMR stays, and a list paints all rows or none.
InstantRowsAlike == game = "instant" => v'.TVMR = v.TVMR /\ v'.draw \in {{}, Row}

=============================================================================
