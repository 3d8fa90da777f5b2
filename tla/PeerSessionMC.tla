--------------------------- MODULE PeerSessionMC ---------------------------
(***************************************************************************)
(* TLC instances of PeerSession.                                           *)
(***************************************************************************)
EXTENDS PeerSession, TLC

\* Session objects are interchangeable: no action or safety property names
\* one.
Symmetry == Permutations(Sessions)

\* Bound of the two-session runs: at any moment at most one of the sessions
\* has senders, leavers or handler resets on it.  The other still goes
\* through creation, establishment, failure, receive errors and teardown.
OneDisturbed ==
    Cardinality({s \in Sessions :
        s \in sending \cup leaving \/ \E r \in Handlers : reset[s][r] # "off"}) <= 1
=============================================================================
