--------------------------- MODULE MediaCallbacks ---------------------------
(***************************************************************************)
(* What a session promises to the application's media callbacks, whatever  *)
(* receivers, processors and the teardown do behind them:                  *)
(*   - a packet that is accepted is accepted once, and while the session   *)
(*     is not torn down;                                                   *)
(*   - the callback of a kind gets what was accepted of that kind, in that *)
(*     order, each packet once, also after the teardown;                   *)
(*   - one call of a kind at a time: the next begins when the last has     *)
(*     returned;                                                           *)
(*   - no more than Cap packets of a kind ever wait for it.                *)
(***************************************************************************)
EXTENDS Naturals, Sequences

CONSTANTS Packets, MediaKinds, Cap

VARIABLES accepted, \* of each kind, in order
          called,   \* those whose callback has begun
          returned, \* those whose callback has returned
          closed    \* the kind accepts no more

vars == <<accepted, called, returned, closed>>

Init ==
    /\ accepted = [k \in MediaKinds |-> <<>>]
    /\ called = [k \in MediaKinds |-> <<>>]
    /\ returned = [k \in MediaKinds |-> <<>>]
    /\ closed = {}

\* The packets of a sequence.
Members(s) == {s[i] : i \in DOMAIN s}

Accept(k, p) ==
    /\ k \notin closed
    /\ \A j \in MediaKinds : p \notin Members(accepted[j])
    /\ Len(accepted[k]) < Len(called[k]) + Cap
    /\ accepted' = [accepted EXCEPT ![k] = Append(@, p)]
    /\ UNCHANGED <<called, returned, closed>>

Call(k) ==
    /\ returned[k] = called[k]
    /\ Len(called[k]) < Len(accepted[k])
    /\ called' = [called EXCEPT ![k] = Append(@, accepted[k][Len(@) + 1])]
    /\ UNCHANGED <<accepted, returned, closed>>

Return(k) ==
    /\ returned[k] # called[k]
    /\ returned' = [returned EXCEPT ![k] = called[k]]
    /\ UNCHANGED <<accepted, called, closed>>

Close(k) ==
    /\ k \notin closed
    /\ closed' = closed \cup {k}
    /\ UNCHANGED <<accepted, called, returned>>

Next ==
    \E k \in MediaKinds :
        \/ \E p \in Packets : Accept(k, p)
        \/ Call(k) \/ Return(k) \/ Close(k)

Spec == Init /\ [][Next]_vars
=============================================================================
