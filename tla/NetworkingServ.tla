--------------------------- MODULE NetworkingServ ---------------------------
(***************************************************************************)
(* The networking service of one node: the calls of its API, the messages  *)
(* it takes from the signaling client, and how these create, leave and     *)
(* wait for sessions.                                                      *)
(*                                                                         *)
(* PeerSession has the life of a session step by step; here a session      *)
(* takes fewer steps, and who creates it, who waits for it and what the    *)
(* application does inside the callbacks is modelled instead.  A goroutine *)
(* of receiveConnects is a message.  The reconnect loop that follows an    *)
(* ICE failure is not here: the reset before it never returns.             *)
(***************************************************************************)
EXTENDS ErrorCodes, Sequences

CONSTANTS Peers, Self,         \* the users; this node's user
          Sessions, NoSession, \* bound: sessions that enter the repository
          Calls, NoCall,       \* bound: calls of the API
          Messages,            \* bound: SDP messages that are taken
          Starts,              \* what the calls and messages are, who is up
          RequestErrors        \* how a request or a creation may fail

Names == {"Connect", "ConnectById", "Disconnect", "DisconnectById",
          "Send", "Fetch", "Delete"}
Ops == [name : Names, target : Peers \cup {Self}, by : {"app", "callback", "nobody"}]
SDPs == [from : Peers \cup {Self}, type : {"CREDS", "CANDIDATE"}]

ASSUME StartAssumption ==
    Starts \subseteq [ops : [Calls -> Ops], sdps : [Messages -> SDPs],
                      up : [Sessions -> Peers \cup {Self}]]
ASSUME NameAssumption ==
    Self \notin Peers /\ NoSession \notin Sessions /\ NoCall \notin Calls
ASSUME ErrorAssumption ==
    RequestErrors \subseteq
        (RequestOutcomes(SERVER_SUCCESS) \cup RequestOutcomes(SERVER_PAYLOAD_SUCCESS))
            \ {"none"}

VARIABLES repo,      \* sessionRepository: user -> session or NoSession
          closing,   \* closeCtx is done
          stage,     \* establishConnection of each session
          user, conn, agent,  \* its fields
          creds,     \* CredsChan holds its token
          torn,      \* disconnectSession's once body
          leave,     \* isLeaveInitiator of the call that runs it
          inside,    \* the call the application makes in a callback
          past,      \* history: sessions whose body is past Delete, in order
          op, pc, work, making, made, err,  \* the calls
          sdp, msg, held                        \* the messages

registry == <<repo, past>>
session == <<stage, user, conn, agent, creds>>
teardown == <<torn, leave>>
call == <<op, pc, work, making, made, err>>
intake == <<sdp, msg, held>>
vars == <<registry, closing, session, teardown, inside, call, intake>>

Stages == {"unborn", "waiting", "dialing", "dialed", "keying", "opened",
           "announcing", "ready", "failed", "over"}
\* "hung": closed, with its state callback inside a GracefulClose of it.
AgentStates == {"nil", "open", "closed", "hung"}
TornStates == {"no", "closing", "deleted", "blocked", "callback", "done"}
CallPCs == {"idle", "begun", "refetch", "leaving", "fork", "asking",
            "joining", "returned"}
MsgStates == {"sent", "leading", "following", "got", "recreating", "setting",
              "done", "hung"}
\* Connect's first worker for its target, and one for each user it asked for.
Workers == Peers \X {"target", "asked"}
Handlers == {"connected", "disconnected"}

Init ==
    /\ \E start \in Starts :
        /\ op = start.ops
        /\ sdp = start.sdps
        /\ user = start.up
    /\ repo = [u \in Peers |-> IF \E s \in Sessions : user[s] = u
                               THEN CHOOSE s \in Sessions : user[s] = u
                               ELSE NoSession]
    /\ stage = [s \in Sessions |->
                    IF user[s] \in Peers THEN "ready" ELSE "unborn"]
    /\ conn = [s \in Sessions |-> IF user[s] \in Peers THEN "open" ELSE "nil"]
    /\ agent = [s \in Sessions |-> IF user[s] \in Peers THEN "open" ELSE "nil"]
    /\ creds = [s \in Sessions |-> FALSE]
    /\ torn = [s \in Sessions |-> "no"]
    /\ leave = [s \in Sessions |-> FALSE]
    /\ inside = [s \in Sessions |-> [h \in Handlers |-> NoCall]]
    /\ past = <<>>
    /\ closing = FALSE
    /\ pc = [c \in Calls |-> "idle"]
    /\ work = [c \in Calls |-> {}]
    /\ making = [c \in Calls |-> {}]
    /\ made = [c \in Calls |-> {}]
    /\ err = [c \in Calls |-> "none"]
    /\ msg = [m \in Messages |-> "sent"]
    /\ held = [m \in Messages |-> NoSession]

-----------------------------------------------------------------------------
(* Sessions.                                                               *)

Unborn == {s \in Sessions : stage[s] = "unborn"}
NextSession == CHOOSE s \in Unborn : TRUE
Current == {repo[u] : u \in Peers} \ {NoSession}

\* ReadyChan is closed, in success and in failure.
Ready(s) == stage[s] \in {"ready", "failed", "over"}

Remove(s) == repo' = [u \in Peers |-> IF repo[u] = s THEN NoSession ELSE repo[u]]
CloseConn(s) == conn' = [conn EXCEPT ![s] = IF @ = "open" THEN "closed" ELSE @]

\* GracefulClose closes the agent, then waits for its state callback: it
\* does not return when that callback is in a GracefulClose itself.
CloseAgent(s) == agent' = [agent EXCEPT ![s] = IF @ = "hung" THEN @ ELSE "closed"]
Hangs(s) == agent[s] = "hung"

\* Variant: Add stores over the entry that is there.
CreateOver(u) ==
    LET s == NextSession IN
    /\ Unborn # {}
    /\ repo' = [repo EXCEPT ![u] = s]
    /\ stage' = [stage EXCEPT ![s] = "waiting"]
    /\ user' = [user EXCEPT ![s] = u]
    /\ agent' = [agent EXCEPT ![s] = "open"]
    /\ UNCHANGED <<conn, creds, past>>

\* createSession's end: the requests have succeeded and Add finds no entry.
\* createAndEstablish starts the establishment.
Create(u) ==
    LET s == NextSession IN
    /\ repo[u] = NoSession /\ Unborn # {}
    /\ repo' = [repo EXCEPT ![u] = s]
    /\ stage' = [stage EXCEPT ![s] = "waiting"]
    /\ user' = [user EXCEPT ![s] = u]
    /\ agent' = [agent EXCEPT ![s] = "open"]
    /\ UNCHANGED <<conn, creds, past>>

\* createSession fails: a request does, or Add finds an entry.
CreateErrors(u) ==
    RequestErrors \cup (IF repo[u] = NoSession THEN {} ELSE {"alreadyExists"})

\* A step of establishConnection.
StageGoto(s, from, to) ==
    /\ stage[s] = from
    /\ stage' = [stage EXCEPT ![s] = to]
    /\ UNCHANGED <<registry, closing, user, agent, creds, teardown, inside, call,
                   intake>>

\* establishConnection: the select takes the token.
TakeCreds(s) ==
    /\ stage[s] = "waiting" /\ creds[s]
    /\ stage' = [stage EXCEPT ![s] = "dialing"]
    /\ creds' = [creds EXCEPT ![s] = FALSE]
    /\ UNCHANGED <<registry, closing, user, conn, agent, teardown,
                   inside, call, intake>>

\* Dial or Accept and the QUIC handshake need the agent ...
Dial(s) ==
    /\ agent[s] = "open" /\ StageGoto(s, "dialing", "dialed")
    /\ UNCHANGED conn

\* ... the connection is stored whatever became of it ...
StoreConn(s) ==
    /\ StageGoto(s, "dialed", "keying")
    /\ conn' = [conn EXCEPT ![s] = "open"]

\* ... the keys and the event stream need the connection ...
SetupStreams(s) ==
    /\ conn[s] = "open" /\ StageGoto(s, "keying", "opened")
    /\ UNCHANGED conn

\* ... and the Connected callback is called without a look at either.
Announce(s) == StageGoto(s, "opened", "announcing") /\ UNCHANGED conn

\* Variant: the select has no case for closeCtx.
FailsOnlyDialing(s) ==
    /\ \E from \in {"dialing", "keying"} : StageGoto(s, from, "failed")
    /\ UNCHANGED conn

\* The select sees closeCtx, or a later step fails: createAndEstablish closes
\* ReadyChan ...
EstablishFails(s) ==
    /\ \E from \in {"waiting", "dialing", "keying"} :
            (from = "waiting" => closing) /\ StageGoto(s, from, "failed")
    /\ UNCHANGED conn

\* Variant: the failed session keeps its entry.
ResetKeepsEntry(s) ==
    /\ stage[s] = "failed" /\ ~Hangs(s)
    /\ stage' = [stage EXCEPT ![s] = "over"]
    /\ CloseConn(s) /\ CloseAgent(s)
    /\ UNCHANGED <<registry, closing, user, creds, teardown, inside, call, intake>>

\* ... and then resets the session.
ResetFailed(s) ==
    /\ stage[s] = "failed" /\ ~Hangs(s)
    /\ stage' = [stage EXCEPT ![s] = "over"]
    /\ CloseConn(s) /\ CloseAgent(s) /\ Remove(s)
    /\ UNCHANGED <<past, closing, user, creds, teardown, inside, call, intake>>

\* The application may call the API inside a callback, and waits for it.
Returned(c) == c # NoCall => pc[c] = "returned"

InCallback(s) ==
    (IF stage[s] = "announcing" THEN {"connected"} ELSE {})
        \cup (IF torn[s] = "callback" THEN {"disconnected"} ELSE {})

CallInside(s, h, c) ==
    /\ h \in InCallback(s) /\ inside[s][h] = NoCall
    /\ op[c].by = "callback" /\ pc[c] = "idle"
    /\ inside' = [inside EXCEPT ![s][h] = c]
    /\ pc' = [pc EXCEPT ![c] = "begun"]
    /\ UNCHANGED <<registry, closing, session, teardown, op, work, making, made,
                   err, intake>>

\* It returns: handleConnection starts and ReadyChan is closed.
Announced(s) ==
    /\ stage[s] = "announcing" /\ Returned(inside[s]["connected"])
    /\ stage' = [stage EXCEPT ![s] = "ready"]
    /\ UNCHANGED <<registry, closing, user, conn, agent, creds,
                   teardown, inside, call, intake>>

\* The ICE connection fails once the agent has been dialled.  resetSession,
\* inside the agent's state callback, closes the connection and does not get
\* past GracefulClose: no Delete, no reconnect loop.
IceFails(s) ==
    /\ stage[s] \in {"dialing", "dialed", "keying", "opened", "announcing", "ready"}
    /\ agent[s] = "open"
    /\ agent' = [agent EXCEPT ![s] = "hung"]
    /\ CloseConn(s)
    /\ UNCHANGED <<registry, closing, stage, user, creds, teardown, inside, call,
                   intake>>

-----------------------------------------------------------------------------
(* disconnectSession: Closing.Do lets one caller in.                       *)

StartTeardown(s, isLeaveInitiator) ==
    /\ torn[s] = "no"
    /\ torn' = [torn EXCEPT ![s] = "closing"]
    /\ leave' = [leave EXCEPT ![s] = isLeaveInitiator]
    /\ CloseConn(s) /\ CloseAgent(s)

\* A receive loop ends: the connection is closed, the service closes, the peer
\* has closed the event stream.  Or a sender cannot open a stream; it may have
\* found the connection of a failed establishment.
ReceiveEnds(s) ==
    /\ Ready(s) /\ conn[s] # "nil" /\ StartTeardown(s, FALSE)
    /\ UNCHANGED <<registry, closing, stage, user, creds, inside,
                   call, intake>>

TornGoto(s, from, to) ==
    torn[s] = from /\ torn' = [torn EXCEPT ![s] = to]

\* Variant: the entry is still there when the callback runs.
DeleteLater(s) ==
    /\ ~Hangs(s) /\ TornGoto(s, "closing", "deleted")
    /\ past' = Append(past, s)
    /\ UNCHANGED <<repo, closing, session, leave, inside, call, intake>>

\* GracefulClose returns; sessionRepo.Delete.
DeleteSession(s) ==
    /\ ~Hangs(s) /\ TornGoto(s, "closing", "deleted")
    /\ Remove(s)
    /\ past' = Append(past, s)
    /\ UNCHANGED <<closing, session, leave, inside, call, intake>>

\* DeleteFromSession returns ...
SignalLeave(s) ==
    /\ leave[s]
    /\ TornGoto(s, "deleted", "done") \/ TornGoto(s, "blocked", "done")
    /\ UNCHANGED <<registry, closing, session, leave, inside, call, intake>>

\* ... or does not for now: it runs under context.Background(), and waits for
\* room in sendMsgs and then for an answer.
SignalBlocks(s) ==
    /\ leave[s] /\ TornGoto(s, "deleted", "blocked")
    /\ UNCHANGED <<registry, closing, session, leave, inside, call, intake>>

\* The Disconnected callback is called.
CallDisconnected(s) ==
    /\ ~leave[s] /\ TornGoto(s, "deleted", "callback")
    /\ UNCHANGED <<registry, closing, session, leave, inside, call, intake>>

DisconnectedReturns(s) ==
    /\ Returned(inside[s]["disconnected"]) /\ TornGoto(s, "callback", "done")
    /\ UNCHANGED <<registry, closing, session, leave, inside, call, intake>>

-----------------------------------------------------------------------------
(* The calls of the API.                                                   *)

CallGoto(c, from, to) == pc[c] = from /\ pc' = [pc EXCEPT ![c] = to]

\* A step of a call that touches nothing but itself.
CallStep(c, from, to) ==
    /\ CallGoto(c, from, to)
    /\ UNCHANGED <<registry, closing, session, teardown, inside, op, made, intake>>

Is(c, names) == op[c].name \in names

Return(c, from, e) ==
    /\ CallStep(c, from, "returned")
    /\ err' = [err EXCEPT ![c] = e]
    /\ UNCHANGED <<work, making>>

Begin(c) ==
    /\ op[c].by = "app" /\ CallStep(c, "idle", "begun")
    /\ UNCHANGED <<work, making, err>>

\* Connect and ConnectById refuse this node's own user.
ToHimself(c) ==
    /\ Is(c, {"Connect", "ConnectById"}) /\ op[c].target = Self
    /\ Return(c, "begun", "himself")

\* Connect's Fetch: connected already, or a Disconnect of everyone, or neither.
AlreadyConnected(c) ==
    /\ Is(c, {"Connect"}) /\ op[c].target # Self
    /\ repo[op[c].target] # NoSession
    /\ Return(c, "begun", "none")

LooksAround(c) ==
    /\ Is(c, {"Connect"}) /\ op[c].target # Self
    /\ repo[op[c].target] = NoSession
    /\ CallStep(c, "begun", IF Current = {} THEN "fork" ELSE "refetch")
    /\ UNCHANGED <<work, making, err>>

\* Disconnect's Fetch; all sessions it finds are left at once.
FetchAll(c) ==
    /\ pc[c] = "refetch" \/ (pc[c] = "begun" /\ Is(c, {"Disconnect"}))
    /\ CallStep(c, pc[c], "leaving")
    /\ work' = [work EXCEPT ![c] = Current]
    /\ UNCHANGED <<making, err>>

\* Variant: the result of Get is used without a look at its error.
GetUnchecked(c) ==
    /\ Is(c, {"DisconnectById"}) /\ op[c].target \in Peers
    /\ CallStep(c, "begun", "leaving")
    /\ work' = [work EXCEPT ![c] = {repo[op[c].target]}]
    /\ UNCHANGED <<making, err>>

\* DisconnectFromId's Get.
GetOne(c) ==
    /\ Is(c, {"DisconnectById"}) /\ op[c].target \in Peers
    /\ repo[op[c].target] # NoSession
    /\ CallStep(c, "begun", "leaving")
    /\ work' = [work EXCEPT ![c] = {repo[op[c].target]}]
    /\ UNCHANGED <<making, err>>

GetNone(c) ==
    /\ Is(c, {"DisconnectById"})
    /\ op[c].target \in Peers => repo[op[c].target] = NoSession
    /\ Return(c, "begun", "notFound")

\* The close function: cancel, then Disconnect.
CloseService(c) ==
    /\ Is(c, {"Delete"})
    /\ CallGoto(c, "begun", "refetch")
    /\ closing' = TRUE
    /\ UNCHANGED <<registry, session, teardown, inside, op, work, making, made,
                   err, intake>>

LeaveSession(c, s) ==
    /\ pc[c] = "leaving" /\ s \in work[c]
    /\ StartTeardown(s, TRUE)
    /\ UNCHANGED <<registry, closing, stage, user, creds, inside,
                   call, intake>>

\* Variant: Disconnect does not wait for its goroutines.
LeftUnwaited(c) ==
    /\ \A s \in work[c] : torn[s] # "no"
    /\ CallStep(c, "leaving", IF Is(c, {"Connect"}) THEN "fork" ELSE "returned")
    /\ UNCHANGED <<work, making, err>>

\* wg.Wait: every body has been run to its end, by whomever.
Left(c) ==
    /\ \A s \in work[c] : torn[s] = "done"
    /\ CallStep(c, "leaving", IF Is(c, {"Connect"}) THEN "fork" ELSE "returned")
    /\ UNCHANGED <<work, making, err>>

\* A worker of Connect begins: createSession looks at closeCtx first.
FirstWorker(c) == IF closing THEN {} ELSE {<<op[c].target, "target">>}

Fork(c) ==
    /\ CallStep(c, "fork", "asking")
    /\ making' = [making EXCEPT ![c] = FirstWorker(c)]
    /\ err' = [err EXCEPT ![c] = IF closing THEN "appClosing" ELSE "none"]
    /\ UNCHANGED work

\* GetSessionsById answers: a worker for each user it names but this node's.
AskedSessions(c) ==
    \E others \in SUBSET Peers :
        /\ CallStep(c, "asking", "joining")
        /\ making' = [making EXCEPT
                ![c] = IF closing THEN @ ELSE @ \cup (others \X {"asked"})]
        /\ err' = [err EXCEPT ![c] =
                IF @ = "none" /\ closing /\ others # {} THEN "appClosing" ELSE @]
        /\ UNCHANGED work

\* ... or fails: Connect returns, whatever its first worker is doing.
AskingFails(c) ==
    \E e \in RequestErrors :
        /\ CallStep(c, "asking", "returned")
        /\ err' = [err EXCEPT ![c] = e]
        /\ UNCHANGED <<work, making>>

ConnectsById(c) ==
    /\ Is(c, {"ConnectById"}) /\ op[c].target # Self
    /\ CallStep(c, "begun", "joining")
    /\ making' = [making EXCEPT ![c] = FirstWorker(c)]
    /\ err' = [err EXCEPT ![c] = IF closing THEN "appClosing" ELSE "none"]
    /\ UNCHANGED work

\* createAndEstablish returns in a worker.
WorkerCreates(c, w) ==
    /\ w \in making[c]
    /\ Create(w[1])
    /\ making' = [making EXCEPT ![c] = @ \ {w}]
    /\ made' = [made EXCEPT ![c] = @ \cup {NextSession}]
    /\ UNCHANGED <<closing, teardown, inside, op, pc, work, err, intake>>

\* The group keeps the first error.
WorkerFails(c, w) ==
    /\ w \in making[c]
    /\ making' = [making EXCEPT ![c] = @ \ {w}]
    /\ \E e \in CreateErrors(w[1]) :
        err' = [err EXCEPT ![c] = IF @ = "none" /\ pc[c] # "returned" THEN e ELSE @]
    /\ UNCHANGED <<registry, closing, session, teardown, inside, op, pc, work,
                   made, intake>>

\* g.Wait: each worker has failed or has seen its ReadyChan closed.
Joined(c) ==
    /\ making[c] = {} /\ \A s \in made[c] : Ready(s)
    /\ Return(c, "joining", err[c])

\* The Send methods fail when there is no session; FetchOnline and the like
\* are one request.
Sends(c) ==
    /\ Is(c, {"Send"})
    /\ Return(c, "begun", IF Current = {} THEN "notFound" ELSE "none")

Fetches(c) ==
    /\ Is(c, {"Fetch"})
    /\ \E e \in RequestErrors \cup {"none"} : Return(c, "begun", e)

\* The handler turns the error into a code.
Code(c) == ProcessError[err[c]]

-----------------------------------------------------------------------------
(* SDP messages, each in a goroutine of its own, getSession in singleflight.*)

MsgGoto(m, from, to) == msg[m] = from /\ msg' = [msg EXCEPT ![m] = to]

\* A step of a message that touches nothing but itself.
MsgStep(m, from, to, s) ==
    /\ MsgGoto(m, from, to)
    /\ held' = [held EXCEPT ![m] = s]
    /\ UNCHANGED <<registry, closing, session, teardown, inside, call, sdp>>

\* A message comes off receiveSDPs; nothing does when the service closes.
Arrives(m) == sdp[m].from \in Peers /\ msg[m] = "sent" /\ ~closing

Leaders(u) == {m \in Messages : msg[m] = "leading" /\ sdp[m].from = u}

\* Its sender's session is there ...
Find(m) ==
    /\ Arrives(m) /\ Leaders(sdp[m].from) = {}
    /\ repo[sdp[m].from] # NoSession
    /\ MsgStep(m, "sent", "got", repo[sdp[m].from])

\* ... or must be created, by the first of the goroutines that ask ...
Lead(m) ==
    /\ Arrives(m) /\ Leaders(sdp[m].from) = {}
    /\ repo[sdp[m].from] = NoSession
    /\ MsgStep(m, "sent", "leading", NoSession)

\* ... for the others too.
Follow(m) ==
    /\ Arrives(m) /\ Leaders(sdp[m].from) # {}
    /\ MsgStep(m, "sent", "following", NoSession)

Flight(m) ==
    {m} \cup {n \in Messages : msg[n] = "following" /\ sdp[n].from = sdp[m].from}

Lands(m, to, s) ==
    /\ msg' = [n \in Messages |-> IF n \in Flight(m) THEN to ELSE msg[n]]
    /\ held' = [n \in Messages |-> IF n \in Flight(m) THEN s ELSE held[n]]
    /\ UNCHANGED <<closing, teardown, inside, call, sdp>>

LeaderCreates(m) ==
    /\ msg[m] = "leading"
    /\ Create(sdp[m].from)
    /\ Lands(m, "got", NextSession)

\* Variant: the leader keeps its error to itself.
LeaderFailsAlone(m) ==
    /\ msg[m] = "leading" /\ CreateErrors(sdp[m].from) # {}
    /\ msg' = [msg EXCEPT ![m] = "done"]
    /\ UNCHANGED <<held, closing, teardown, inside, call, sdp, registry, session>>

LeaderFails(m) ==
    /\ msg[m] = "leading" /\ CreateErrors(sdp[m].from) # {}
    /\ Lands(m, "done", NoSession)
    /\ UNCHANGED <<registry, session>>

\* CANDIDATE: AddRemoteCandidate.
AddCandidate(m) ==
    /\ sdp[m].type = "CANDIDATE"
    /\ MsgStep(m, "got", "done", held[m])

\* CREDS for a session with a connection: the peer has started over, and the
\* session is reset.
StartOver(m) ==
    /\ sdp[m].type = "CREDS"
    /\ MsgGoto(m, "got", IF closing THEN "done" ELSE "recreating")
    /\ conn[held[m]] # "nil" /\ ~Hangs(held[m])
    /\ CloseConn(held[m]) /\ CloseAgent(held[m]) /\ Remove(held[m])
    /\ UNCHANGED <<past, closing, stage, user, creds, teardown, inside, call, sdp,
                   held>>

\* The reset does not get past GracefulClose.
StartOverHangs(m) ==
    /\ sdp[m].type = "CREDS"
    /\ MsgGoto(m, "got", "hung")
    /\ conn[held[m]] # "nil" /\ Hangs(held[m])
    /\ CloseConn(held[m])
    /\ UNCHANGED <<registry, closing, stage, user, agent, creds, teardown, inside,
                   call, sdp, held>>

\* SetRemoteCredentials fails on a closed agent; the token may be there.
SetCredentials(s) ==
    creds' = [creds EXCEPT ![s] = @ \/ agent[s] = "open"]

Recreate(m) ==
    /\ MsgGoto(m, "recreating", "setting")
    /\ Create(sdp[m].from)
    /\ held' = [held EXCEPT ![m] = NextSession]
    /\ UNCHANGED <<closing, teardown, inside, call, sdp>>

RecreateFails(m) ==
    /\ MsgStep(m, "recreating", "done", held[m])
    /\ CreateErrors(sdp[m].from) # {}

\* ... on the session found without a connection, or on the new one.
TakeCredentials(m) ==
    /\ sdp[m].type = "CREDS"
    /\ \/ MsgGoto(m, "got", "done") /\ conn[held[m]] = "nil"
       \/ MsgGoto(m, "setting", "done")
    /\ SetCredentials(held[m])
    /\ UNCHANGED <<registry, closing, stage, user, conn, agent, teardown, inside,
                   call, sdp, held>>

-----------------------------------------------------------------------------
Establish(s) ==
    \/ TakeCreds(s) \/ Dial(s) \/ StoreConn(s) \/ SetupStreams(s) \/ Announce(s)
    \/ Announced(s) \/ EstablishFails(s) \/ ResetFailed(s)

Teardown(s) ==
    \/ DeleteSession(s) \/ SignalLeave(s) \/ SignalBlocks(s)
    \/ CallDisconnected(s) \/ DisconnectedReturns(s)

Check(c) ==
    \/ ToHimself(c) \/ AlreadyConnected(c) \/ LooksAround(c) \/ ConnectsById(c)
    \/ FetchAll(c) \/ GetOne(c) \/ GetNone(c) \/ CloseService(c)
    \/ Sends(c) \/ Fetches(c)

Worker(c) == \E w \in Workers : WorkerCreates(c, w) \/ WorkerFails(c, w)

CallRuns(c) ==
    \/ Check(c) \/ (\E s \in Sessions : LeaveSession(c, s)) \/ Left(c)
    \/ Fork(c) \/ AskedSessions(c) \/ AskingFails(c) \/ Joined(c)

Take(m) == Find(m) \/ Lead(m) \/ Follow(m)

Process(m) ==
    \/ LeaderCreates(m) \/ LeaderFails(m)
    \/ AddCandidate(m) \/ StartOver(m) \/ StartOverHangs(m) \/ TakeCredentials(m)
    \/ Recreate(m) \/ RecreateFails(m)

Next ==
    \/ \E s \in Sessions :
        \/ Establish(s) \/ IceFails(s) \/ ReceiveEnds(s) \/ Teardown(s)
        \/ \E h \in Handlers, c \in Calls : CallInside(s, h, c)
    \/ \E c \in Calls : Begin(c) \/ CallRuns(c) \/ Worker(c)
    \/ \E m \in Messages : Take(m) \/ Process(m)

Spec == Init /\ [][Next]_vars

(***************************************************************************)
(* Fairness: goroutines run, dials end at their deadline, a connection     *)
(* dies with its agent, callbacks return when the call they make has.  The *)
(* requests of API calls and messages come back, in success or failure,    *)
(* because their contexts have deadlines.  DeleteFromSession has none: a   *)
(* blocked one is not assumed to return, and a GracefulClose of a hung     *)
(* agent cannot.  Not assumed either: that messages come, that the peer    *)
(* answers, that the ICE connection fails, that the application calls.     *)
(***************************************************************************)
Fairness ==
    /\ \A s \in Sessions :
        /\ WF_vars(Establish(s))
        /\ WF_vars(torn[s] # "blocked" /\ Teardown(s))
        /\ WF_vars(/\ stage[s] = "ready"
                   /\ closing \/ conn[s] = "closed" \/ agent[s] # "open"
                   /\ ReceiveEnds(s))
    /\ \A c \in Calls : WF_vars(CallRuns(c)) /\ WF_vars(Worker(c))
    /\ \A m \in Messages : WF_vars(Process(m))

FairSpec == Spec /\ Fairness

-----------------------------------------------------------------------------
(* Safety.                                                                 *)

TypeOK ==
    /\ repo \in [Peers -> Sessions \cup {NoSession}]
    /\ closing \in BOOLEAN
    /\ stage \in [Sessions -> Stages]
    /\ user \in [Sessions -> Peers \cup {Self}]
    /\ conn \in [Sessions -> {"nil", "open", "closed"}]
    /\ agent \in [Sessions -> AgentStates]
    /\ creds \in [Sessions -> BOOLEAN]
    /\ torn \in [Sessions -> TornStates]
    /\ leave \in [Sessions -> BOOLEAN]
    /\ inside \in [Sessions -> [Handlers -> Calls \cup {NoCall}]]
    /\ past \in Seq(Sessions)
    /\ op \in [Calls -> Ops]
    /\ pc \in [Calls -> CallPCs]
    /\ work \in [Calls -> SUBSET Sessions]
    /\ making \in [Calls -> SUBSET Workers]
    /\ made \in [Calls -> SUBSET Sessions]
    /\ err \in [Calls -> Errors \cup {"none"}]
    /\ sdp \in [Messages -> SDPs]
    /\ msg \in [Messages -> MsgStates]
    /\ held \in [Messages -> Sessions \cup {NoSession}]

\* A session's teardown waits for another's: its Disconnected callback is in a
\* Disconnect that has still to see the other's body end.
WaitsFor(s, t) ==
    /\ torn[s] = "callback"
    /\ inside[s]["disconnected"] # NoCall
    /\ LET c == inside[s]["disconnected"] IN
        pc[c] = "leaving" /\ t \in work[c] /\ torn[t] # "done"

\* Callbacks that leave sessions never wait for each other in a circle, a
\* session's own callback for its own body included.
NoCircularWait ==
    \A S \in (SUBSET Sessions) \ {{}} :
        \E s \in S : \A t \in S : ~WaitsFor(s, t)

\* When Disconnect or DisconnectById returns, and when a Connect goes on after
\* the Disconnect it makes, the sessions that were found are torn down to the
\* end, by this call or by others, and stay out of the repository.
LeftIsGone ==
    \A c \in Calls : pc[c] \notin {"idle", "begun", "refetch", "leaving"}
        => \A s \in work[c] : torn[s] = "done" /\ s \notin Current

\* The repository and the callbacks keep the promises of SessionRegistry also
\* when API calls and messages create and reset sessions at once.
Registry == INSTANCE SessionRegistry WITH
    current <- repo,
    entered <- Sessions \ Unborn,
    up <- {s \in Sessions : stage[s] \in {"announcing", "ready"}},
    downTold <- {s \in Sessions : torn[s] \in {"callback", "done"} /\ ~leave[s]}

RegistrySteps == [][Registry!Next]_(Registry!vars)

-----------------------------------------------------------------------------
(* Liveness.                                                               *)

\* Somebody waits for good, or for a peer: a teardown is in a GracefulClose
\* that does not return, or in a request without a deadline ...
HeldUp ==
    \E t \in Sessions :
        torn[t] = "blocked" \/ (torn[t] = "closing" /\ agent[t] = "hung")

\* ... or a callback is in a Connect.
Connecting ==
    \E c \in Calls : op[c].by = "callback" /\ pc[c] = "joining"

\* A call that leaves sessions returns, also from inside a callback and beside
\* others that leave the same ones, unless from some time on there is always
\* one of these reasons.
LeaveReturns ==
    \/ <>[](HeldUp \/ Connecting)
    \/ \A c \in Calls : (pc[c] = "leaving") ~> (pc[c] # "leaving")

\* When the service closes, every call that has begun returns, Connects that
\* wait for a peer included, unless a teardown is held up.
CallsReturn ==
    \/ <>[]HeldUp
    \/ \A c \in Calls : (closing /\ pc[c] # "idle") ~> (pc[c] = "returned")

\* Once it has closed, no session stays that has not lost its ICE connection.
ClosingEmpties == closing ~> [](\A s \in Current : agent[s] = "hung")

\* A message that has been taken is dealt with, also when it waits for the
\* session another message creates and that creation fails; only the reset of
\* a session that lost its ICE connection keeps it.
MessagesEnd ==
    \A m \in Messages :
        (msg[m] # "sent") ~>
            (msg[m] = "done" \/ (msg[m] = "hung" /\ agent[held[m]] = "hung"))
=============================================================================
