------------------------------ MODULE PeerPair ------------------------------
(***************************************************************************)
(* Two nodes that find each other through the signaling server.            *)
(*                                                                         *)
(* Whoever creates a session publishes its credentials at once (CREDS) and *)
(* registers the session afterwards.  Whoever receives CREDS of the other  *)
(* creates a session that answers, unless one is registered: then the      *)
(* credentials go to that one, or, if it has a connection already, to a    *)
(* new one that replaces it.  A session is connected when each end has the *)
(* other's credentials, one of them dials and one accepts.                 *)
(*                                                                         *)
(* PeerSession has each session's own steps and NetworkingServ one node's  *)
(* calls.  A message is relayed once, in any order, or lost.  Candidates   *)
(* are left out: one that overtakes its CREDS only does what these would,  *)
(* create the session; one that comes after its session has ended begins a *)
(* session that nobody dials.  Nodes whose ICE agent reports a failure are *)
(* left out too: its reset does not return (PeerSession, NetworkingServ).  *)
(***************************************************************************)
EXTENDS Naturals

CONSTANTS Nodes,       \* two of them
          MaxSessions, \* bound: sessions of a node
          MaxConnects, \* bound: sessions created to dial, of both nodes
          None

ASSUME NodeAssumption == \E m, n \in Nodes : m # n /\ Nodes = {m, n}
ASSUME BoundAssumption == MaxSessions \in Nat /\ MaxConnects \in Nat

Sessions == Nodes \X (1 .. MaxSessions)
ASSUME NoneAssumption == None \notin Sessions

Node(s) == s[1]
Other(n) == CHOOSE m \in Nodes : m # n

VARIABLES repo,      \* sessionRepository of each node
          stage,     \* of each session
          dials,     \* IsInitiator
          remote,    \* whose credentials the agent has
          token,     \* CredsChan
          conn,      \* Session.Conn
          answers,   \* the CREDS a session was created for, None if to dial
          depth,     \* history: answers to answers since a Connect
          msg,       \* the CREDS message of each session
          held,      \* the session its receiver's goroutine has found
          connects,  \* sessions created to dial so far
          disturbed  \* history: a message was lost or came too early, the
                     \* link broke, somebody left, a deadline was too short

credentials == <<remote, token>>
creation == <<dials, answers, depth>>
messages == <<msg, held>>
vars == <<repo, stage, conn, credentials, creation, messages, connects, disturbed>>

Stages == {"unborn", "published", "waiting", "dialing", "dialed", "up", "over"}
MsgStates == {"none", "wire", "leading", "following", "creating", "got", "done"}

Init ==
    /\ repo = [n \in Nodes |-> None]
    /\ stage = [s \in Sessions |-> "unborn"]
    /\ dials = [s \in Sessions |-> FALSE]
    /\ remote = [s \in Sessions |-> None]
    /\ token = [s \in Sessions |-> FALSE]
    /\ conn = [s \in Sessions |-> "nil"]
    /\ answers = [s \in Sessions |-> None]
    /\ depth = [s \in Sessions |-> 0]
    /\ msg = [s \in Sessions |-> "none"]
    /\ held = [s \in Sessions |-> None]
    /\ connects = 0
    /\ disturbed = FALSE

Goto(s, from, to) == stage[s] = from /\ stage' = [stage EXCEPT ![s] = to]

Disturb(condition) == disturbed' = (disturbed \/ condition)

Unborn(n) == {s \in Sessions : Node(s) = n /\ stage[s] = "unborn"}
NextSession(n) == CHOOSE s \in Unborn(n) : TRUE

-----------------------------------------------------------------------------
(* createSession: NewSDP, then Add.                                        *)

\* Variant: whoever answers dials too.
PublishDialling(n, r, how, newDepth, others) ==
    LET s == NextSession(n) IN
    /\ Unborn(n) # {}
    /\ stage' = [others EXCEPT ![s] = "published"]
    /\ dials' = [dials EXCEPT ![s] = TRUE]
    /\ answers' = [answers EXCEPT ![s] = r]
    /\ depth' = [depth EXCEPT ![s] = newDepth]
    /\ msg' = [t \in Sessions |-> CASE t = s -> "wire" [] t = r -> how
                                     [] OTHER -> msg[t]]

\* A session of n comes to life and its CREDS go out.  The goroutine of the
\* message r that it answers, if any, waits for it in state how.
Publish(n, r, how, newDepth, others) ==
    LET s == NextSession(n) IN
    /\ Unborn(n) # {}
    /\ stage' = [others EXCEPT ![s] = "published"]
    /\ dials' = [dials EXCEPT ![s] = (r = None)]
    /\ answers' = [answers EXCEPT ![s] = r]
    /\ depth' = [depth EXCEPT ![s] = newDepth]
    /\ msg' = [t \in Sessions |-> CASE t = s -> "wire" [] t = r -> how
                                     [] OTHER -> msg[t]]

\* Connect, ConnectById or a reconnect loop.  Whether a session is registered
\* was looked up before, or not at all: Add alone decides.
Connect(n) ==
    /\ connects < MaxConnects
    /\ connects' = connects + 1
    /\ Publish(n, None, "none", 0, stage)
    /\ UNCHANGED <<repo, conn, credentials, held, disturbed>>

Receiver(r) == Other(Node(r))

\* getSession runs in singleflight: messages that wait for the one that leads.
Leaders(n) == {r \in Sessions : msg[r] = "leading" /\ Receiver(r) = n}

Flight(r) ==
    {r} \cup {t \in Sessions : msg[r] = "leading" /\ msg[t] = "following"
                                /\ Receiver(t) = Receiver(r)}

\* Those who wait for s, if any, go on with it, or without.
Handed(s, to) ==
    IF answers[s] = None THEN UNCHANGED messages
    ELSE LET F == Flight(answers[s]) IN
         /\ msg' = [t \in Sessions |-> IF t \in F THEN to ELSE msg[t]]
         /\ held' = [t \in Sessions |-> IF t \in F THEN s ELSE held[t]]

\* Variant: Add overwrites an entry.
RegisterOver(s) ==
    /\ Goto(s, "published", "waiting")
    /\ repo' = [repo EXCEPT ![Node(s)] = s]
    /\ Handed(s, "got")
    /\ UNCHANGED <<conn, credentials, creation, connects, disturbed>>

Register(s) ==
    /\ repo[Node(s)] = None
    /\ Goto(s, "published", "waiting")
    /\ repo' = [repo EXCEPT ![Node(s)] = s]
    /\ Handed(s, "got")
    /\ UNCHANGED <<conn, credentials, creation, connects, disturbed>>

\* Add finds another one: its CREDS are out all the same, and those it should
\* have taken are gone.
Refused(s) ==
    /\ repo[Node(s)] # None
    /\ Goto(s, "published", "over")
    /\ Handed(s, "done")
    /\ UNCHANGED <<repo, conn, credentials, creation, connects, disturbed>>

-----------------------------------------------------------------------------
(* receiveConnects, for the CREDS of session r.                            *)

\* Variant: the goroutine goes on with whatever Get returns.
RelayUnchecked(r) ==
    /\ msg[r] = "wire" /\ Leaders(Receiver(r)) = {}
    /\ msg' = [msg EXCEPT ![r] = "got"]
    /\ held' = [held EXCEPT ![r] = repo[Receiver(r)]]
    /\ UNCHANGED <<repo, stage, conn, credentials, creation, connects, disturbed>>

\* A session is registered.
Relay(r) ==
    /\ msg[r] = "wire" /\ Leaders(Receiver(r)) = {}
    /\ repo[Receiver(r)] # None
    /\ msg' = [msg EXCEPT ![r] = "got"]
    /\ held' = [held EXCEPT ![r] = repo[Receiver(r)]]
    /\ UNCHANGED <<repo, stage, conn, credentials, creation, connects, disturbed>>

\* No session is registered: one is created to answer, also when one that
\* dials is about to be.
Answer(r) ==
    /\ msg[r] = "wire" /\ Leaders(Receiver(r)) = {}
    /\ repo[Receiver(r)] = None
    /\ Publish(Receiver(r), r, "leading", depth[r] + 1, stage)
    /\ Disturb(\E s \in Sessions : Node(s) = Receiver(r) /\ stage[s] = "published")
    /\ UNCHANGED <<repo, conn, credentials, held, connects>>

Follow(r) ==
    /\ msg[r] = "wire" /\ Leaders(Receiver(r)) # {}
    /\ msg' = [msg EXCEPT ![r] = "following"]
    /\ UNCHANGED <<repo, stage, conn, credentials, creation, held, connects,
                   disturbed>>

\* disconnectSession and resetSession as far as the other node can tell.
Close(s) == conn' = [conn EXCEPT ![s] = IF @ = "open" THEN "closed" ELSE @]
Remove(s) ==
    repo' = [repo EXCEPT ![Node(s)] = IF @ = s THEN None ELSE @]

\* Variant: every CREDS is taken for a new beginning.
ReplaceAlways(r) ==
    /\ msg[r] = "got" /\ answers[held[r]] # r
    /\ Close(held[r]) /\ Remove(held[r])
    /\ Publish(Receiver(r), r, "creating", depth[r] + 1, [stage EXCEPT ![held[r]] = "over"])
    /\ UNCHANGED <<credentials, held, connects, disturbed>>

\* The session has a connection: resetSession, and another one to answer.
Replace(r) ==
    /\ msg[r] = "got" /\ conn[held[r]] # "nil"
    /\ Close(held[r]) /\ Remove(held[r])
    /\ Publish(Receiver(r), r, "creating", depth[r] + 1, [stage EXCEPT ![held[r]] = "over"])
    /\ UNCHANGED <<credentials, held, connects, disturbed>>

\* Variant: only an open connection is looked at, not one about to be.
SetRemoteLate(r) ==
    LET s == held[r] IN
    /\ msg[r] = "got" /\ stage[s] # "up"
    /\ msg' = [msg EXCEPT ![r] = "done"]
    /\ remote' = [remote EXCEPT ![s] = r]
    /\ token' = [token EXCEPT ![s] = TRUE]
    /\ UNCHANGED <<repo, stage, conn, creation, held, connects, disturbed>>

\* SetRemoteCredentials, which fails on a closed agent, and the token.
SetRemote(r) ==
    LET s == held[r] IN
    /\ msg[r] = "got" /\ conn[s] = "nil"
    /\ msg' = [msg EXCEPT ![r] = "done"]
    /\ IF stage[s] = "over" THEN UNCHANGED credentials
       ELSE /\ remote' = [remote EXCEPT ![s] = r]
            /\ token' = [token EXCEPT ![s] = TRUE]
    /\ UNCHANGED <<repo, stage, conn, creation, held, connects, disturbed>>

\* The receiver is offline, or its queue is full until the end.
Lose(r) ==
    /\ msg[r] = "wire"
    /\ msg' = [msg EXCEPT ![r] = "done"]
    /\ Disturb(TRUE)
    /\ UNCHANGED <<repo, stage, conn, credentials, creation, held, connects>>

-----------------------------------------------------------------------------
(* establishConnection.                                                    *)

TakeToken(s) ==
    /\ token[s]
    /\ Goto(s, "waiting", "dialing")
    /\ token' = [token EXCEPT ![s] = FALSE]
    /\ UNCHANGED <<repo, conn, remote, creation, messages, connects, disturbed>>

\* The other end, as far as the credentials tell.
Paired(s) ==
    /\ remote[s] # None
    /\ remote[remote[s]] = s
    /\ dials[s] # dials[remote[s]]

\* Dial or Accept, and the QUIC handshake: both ends are at it.
CanShake(s) ==
    /\ stage[s] = "dialing" /\ Paired(s)
    /\ \/ stage[remote[s]] = "dialing"
       \/ stage[remote[s]] = "dialed" /\ conn[remote[s]] = "open"

Handshake(s) ==
    /\ CanShake(s)
    /\ Goto(s, "dialing", "dialed")
    /\ conn' = [conn EXCEPT ![s] = "open"]
    /\ UNCHANGED <<repo, credentials, creation, messages, connects, disturbed>>

\* setupE2EE and initEventStream: the keys of both are exchanged, and the one
\* who accepts waits for a stream of the one who dials.
CanFinish(s) ==
    /\ stage[s] = "dialed" /\ conn[s] = "open"
    /\ stage[remote[s]] \in {"dialed", "up"}

Finish(s) ==
    /\ CanFinish(s)
    /\ Goto(s, "dialed", "up")
    /\ UNCHANGED <<repo, conn, credentials, creation, messages, connects,
                   disturbed>>

\* A message is on its way, or its receiver's goroutine at work.
Pending == {r \in Sessions : msg[r] \notin {"none", "done"}}

\* An establishment still makes progress: to end one now is to end it early.
SomeoneGoesOn ==
    \E s \in Sessions :
        CanShake(s) \/ CanFinish(s) \/ (stage[s] = "waiting" /\ token[s])

\* Variant: the failure path forgets resetSession.
FailUnreset(s) ==
    /\ stage[s] \in {"dialing", "dialed"} /\ Pending = {}
    /\ Goto(s, stage[s], "over")
    /\ Remove(s)
    /\ Disturb(SomeoneGoesOn)
    /\ UNCHANGED <<conn, credentials, creation, messages, connects>>

\* The deadline of the establishment, or any other failure of it.  Timing
\* assumption: the deadline is longer than the signaling server takes.
Fail(s) ==
    /\ stage[s] \in {"dialing", "dialed"} /\ Pending = {}
    /\ Goto(s, stage[s], "over")
    /\ Close(s) /\ Remove(s)
    /\ Disturb(SomeoneGoesOn)
    /\ UNCHANGED <<credentials, creation, messages, connects>>

-----------------------------------------------------------------------------
(* The end of a connection.                                                *)

\* The other end has closed it, or is silent for too long.
PeerCloses(s) ==
    /\ conn[s] = "open" /\ conn[remote[s]] = "closed"
    /\ Close(s)
    /\ UNCHANGED <<repo, stage, credentials, creation, messages, connects,
                   disturbed>>

\* The receive loops tear the session down.
ReceiveEnds(s) ==
    /\ conn[s] = "closed"
    /\ Goto(s, "up", "over")
    /\ Remove(s)
    /\ UNCHANGED <<conn, credentials, creation, messages, connects, disturbed>>

\* The connection breaks, or the application leaves.
Breaks(s) ==
    /\ stage[s] = "up" /\ conn[s] = "open"
    /\ Goto(s, "up", "over")
    /\ Close(s) /\ Remove(s)
    /\ Disturb(TRUE)
    /\ UNCHANGED <<credentials, creation, messages, connects>>

-----------------------------------------------------------------------------
Create(s) == Register(s) \/ Refused(s)
Receive(r) ==
    Relay(r) \/ Answer(r) \/ Follow(r) \/ Replace(r) \/ SetRemote(r)
Establish(s) == TakeToken(s) \/ Handshake(s) \/ Finish(s)
End(s) == PeerCloses(s) \/ ReceiveEnds(s)

Next ==
    \/ \E n \in Nodes : Connect(n)
    \/ \E s \in Sessions :
        \/ Create(s) \/ Receive(s) \/ Establish(s) \/ End(s)
        \/ Lose(s) \/ Fail(s) \/ Breaks(s)

Spec == Init /\ [][Next]_vars

(***************************************************************************)
(* Fairness: goroutines run, messages that are not lost arrive, deadlines  *)
(* and idle timeouts end.  Nobody is obliged to connect.  Every step takes *)
(* a session or a message forward and there are finitely many of them, so  *)
(* one condition for all leaves none of them waiting for ever.             *)
(***************************************************************************)
Progress ==
    \E s \in Sessions :
        Create(s) \/ Receive(s) \/ Establish(s) \/ End(s) \/ Fail(s)

FairSpec == Spec /\ WF_vars(Progress)

-----------------------------------------------------------------------------
TypeOK ==
    /\ repo \in [Nodes -> Sessions \cup {None}]
    /\ stage \in [Sessions -> Stages]
    /\ dials \in [Sessions -> BOOLEAN]
    /\ remote \in [Sessions -> Sessions \cup {None}]
    /\ token \in [Sessions -> BOOLEAN]
    /\ conn \in [Sessions -> {"nil", "open", "closed"}]
    /\ answers \in [Sessions -> Sessions \cup {None}]
    /\ depth \in [Sessions -> Nat]
    /\ msg \in [Sessions -> MsgStates]
    /\ held \in [Sessions -> Sessions \cup {None}]
    /\ \A r \in Sessions : msg[r] = "got" => held[r] # None
    /\ connects \in 0 .. MaxConnects
    /\ disturbed \in BOOLEAN

\* The nodes do not answer each other for ever, whatever sessions their
\* credentials meet, cross or replace: two answers in a row may follow a first
\* attempt to connect, and at most four more for each further one.
AnswersDieOut ==
    \A s \in Sessions : depth[s] < 2 \/ depth[s] <= 4 * connects - 2

\* Two live connections of a node would be two sessions of one user: when a
\* session is up, it is the registered one or about to end.
UpIsRegistered ==
    \A s \in Sessions :
        (stage[s] = "up" /\ conn[s] = "open") => repo[Node(s)] = s

\* However credentials cross or come again in the middle of a handshake: two
\* sessions that are connected have each other's credentials, and one of them
\* has dialled.  Nobody is connected to an end that means somebody else.
EndsAgree ==
    \A s \in Sessions :
        /\ stage[s] \in {"dialed", "up"}
        /\ stage[remote[s]] \in {"dialed", "up"}
        => remote[remote[s]] = s /\ dials[s] # dials[remote[s]]

\* No half of a connection stays: again and again, whoever is up has a peer that
\* is up too, so one who lost its peer learns of it and ends.
WholeConnections == \A s \in Sessions : stage[s] = "up" => stage[remote[s]] = "up"
NoHalfConnection == []<>WholeConnections

\* One attempt of one side, undisturbed, connects both.
BothUp == \A n \in Nodes : \E s \in Sessions : Node(s) = n /\ stage[s] = "up"

SingleConnectWorks ==
    (connects = 1) ~> (BothUp \/ disturbed \/ connects > 1)
=============================================================================
