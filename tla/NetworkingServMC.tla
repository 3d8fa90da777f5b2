-------------------------- MODULE NetworkingServMC --------------------------
(***************************************************************************)
(* NetworkingServ for TLC: two users, three sessions, two calls and two    *)
(* messages, in scenarios that each bring some of them together.           *)
(***************************************************************************)
EXTENDS NetworkingServ

CONSTANTS p, q, me, s1, s2, s3, c1, c2, m1, m2

MCPeers == {p, q}
MCSessions == {s1, s2, s3}

App(name, target) == [name |-> name, target |-> target, by |-> "app"]
Inside(name, target) == [name |-> name, target |-> target, by |-> "callback"]
NoOp == [name |-> "Send", target |-> me, by |-> "nobody"]
Msg(type) == [from |-> IF type = "none" THEN me ELSE p,
              type |-> IF type = "none" THEN "CREDS" ELSE type]

\* Up: the users with a session, in the order of the sessions.
Scenario(up, op1, op2, type1, type2) ==
    [ops |-> [c \in {c1, c2} |-> IF c = c1 THEN op1 ELSE op2],
     sdps |-> [m \in {m1, m2} |-> IF m = m1 THEN Msg(type1) ELSE Msg(type2)],
     up |-> [s \in MCSessions |-> CASE s = s1 /\ Len(up) > 0 -> up[1]
                                    [] s = s2 /\ Len(up) > 1 -> up[2]
                                    [] OTHER -> me]]

ConnectFirst == Scenario(<<>>, App("Connect", p), NoOp, "CREDS", "none")
ConnectAndDelete ==
    Scenario(<<>>, App("ConnectById", p), App("Delete", me), "CREDS", "none")
TwoConnects ==
    Scenario(<<>>, App("Connect", p), App("ConnectById", p), "CREDS", "none")
ConnectElsewhere ==
    Scenario(<<q>>, App("Connect", p), Inside("Disconnect", me), "none", "none")
LeaveInBothCallbacks ==
    Scenario(<<p, q>>, Inside("Disconnect", me), Inside("Disconnect", me), "none", "none")
ConnectInCallback ==
    Scenario(<<p>>, App("Disconnect", me), Inside("Connect", p), "none", "none")
DeleteAfterLoss ==
    Scenario(<<p>>, App("Delete", me), NoOp, "CREDS", "none")
DeleteInCallback ==
    Scenario(<<p>>, App("Delete", me), Inside("Connect", q), "none", "none")
StartOverTwice == Scenario(<<p>>, NoOp, NoOp, "CREDS", "CREDS")
StartOverAndLeave ==
    Scenario(<<p>>, App("DisconnectById", p), NoOp, "CREDS", "none")
BurstOfMessages ==
    Scenario(<<>>, App("Disconnect", me), App("Delete", me), "CREDS", "CANDIDATE")
LeaveInConnected ==
    Scenario(<<>>, App("ConnectById", p), Inside("DisconnectById", p), "CREDS", "CANDIDATE")
LeaveAndReturn ==
    Scenario(<<q>>, App("DisconnectById", q), Inside("ConnectById", q), "none", "none")
SendAndFetch == Scenario(<<p>>, App("Send", me), App("Fetch", me), "none", "none")
Himself == Scenario(<<>>, App("Connect", me), App("ConnectById", me), "none", "none")

MCStarts ==
    {ConnectFirst, ConnectAndDelete, TwoConnects, ConnectElsewhere,
     LeaveInBothCallbacks, ConnectInCallback, DeleteAfterLoss, DeleteInCallback,
     StartOverTwice, StartOverAndLeave, BurstOfMessages, LeaveInConnected,
     LeaveAndReturn, SendAndFetch, Himself}
=============================================================================
