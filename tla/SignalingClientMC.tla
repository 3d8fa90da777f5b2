------------------------- MODULE SignalingClientMC -------------------------
(***************************************************************************)
(* SignalingClient for TLC.                                                *)
(***************************************************************************)
EXTENDS SignalingClient, TLC

\* Requests differ only by whether their caller has set a deadline; the runs
\* that use this give all of them one.
Symmetry == Permutations(Requests)

\* Bound of the run with two requests: SDP messages are consumed as they
\* come.  The runs with one request let them pile up.
SdpConsumed == sdps = 0
=============================================================================
