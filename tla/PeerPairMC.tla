----------------------------- MODULE PeerPairMC -----------------------------
(***************************************************************************)
(* PeerPair for TLC: nodes a and b.                                        *)
(***************************************************************************)
EXTENDS PeerPair

CONSTANTS a, b

MCNodes == {a, b}
=============================================================================
