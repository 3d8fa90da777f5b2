-------------------------- MODULE SessionRegistry --------------------------
(***************************************************************************)
(* What the session repository and the connection callbacks promise to the *)
(* rest of the program, whatever the goroutines behind them do:            *)
(*   - a user has at most one current session, and a session that is       *)
(*     current is never replaced, only removed;                            *)
(*   - a session becomes current at most once: what was removed stays out; *)
(*   - the application hears Connected only of a session that entered the  *)
(*     registry, and hears Disconnected at most once for a session, after  *)
(*     that session has left the registry, so that a connection attempt    *)
(*     made inside the callback does not find the old session there.       *)
(***************************************************************************)
CONSTANTS Peers, Sessions, NoSession

VARIABLES current,   \* user id -> its current session
          entered,   \* sessions that have been current
          up,        \* sessions reported to the Connected callback
          downTold   \* sessions reported to the Disconnected callback

vars == <<current, entered, up, downTold>>

Init ==
    /\ current = [p \in Peers |-> NoSession]
    /\ entered = {}
    /\ up = {}
    /\ downTold = {}

Enter(p, s) ==
    /\ current[p] = NoSession
    /\ s \notin entered
    /\ current' = [current EXCEPT ![p] = s]
    /\ entered' = entered \cup {s}
    /\ UNCHANGED <<up, downTold>>

Remove(p) ==
    /\ current[p] # NoSession
    /\ current' = [current EXCEPT ![p] = NoSession]
    /\ UNCHANGED <<entered, up, downTold>>

ReportUp(s) ==
    /\ s \in entered \ up
    /\ up' = up \cup {s}
    /\ UNCHANGED <<current, entered, downTold>>

ReportDown(s) ==
    /\ s \in entered \ downTold
    /\ \A p \in Peers : current[p] # s
    /\ downTold' = downTold \cup {s}
    /\ UNCHANGED <<current, entered, up>>

Next ==
    \/ \E p \in Peers, s \in Sessions : Enter(p, s)
    \/ \E p \in Peers : Remove(p)
    \/ \E s \in Sessions : ReportUp(s) \/ ReportDown(s)

Spec == Init /\ [][Next]_vars
=============================================================================
