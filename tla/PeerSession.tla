---------------------------- MODULE PeerSession ----------------------------
(***************************************************************************)
(* The peer sessions of one node: every *models.Session the networking     *)
(* service creates, from createSession to disconnectSession.               *)
(*                                                                         *)
(* A session is touched by several goroutines at once, none of which holds *)
(* a lock:                                                                 *)
(*   - the one that creates it and then, in createAndEstablish, runs       *)
(*     establishConnection (pc follows the two in sequence);               *)
(*   - the resets: resetSession called by the failed establishment, by     *)
(*     the ICE state callback and by the CREDS branch of receiveConnects;  *)
(*   - the one run of disconnectSession that Closing (a sync.Once) lets    *)
(*     through, started by a receive loop, by a sender whose stream could  *)
(*     not be opened, or by Disconnect and DisconnectFromId.               *)
(* Each of their steps is an action.  Who calls Connect, how many SDP      *)
(* messages arrive and when the network drops a link is left open: any     *)
(* caller may act whenever the code lets it.                               *)
(***************************************************************************)
EXTENDS Naturals, FiniteSets

CONSTANTS Peers,        \* remote user ids, the keys of the session repository
          Sessions,     \* session objects (pointers) this node can allocate
          Handlers,     \* which of "ice" and "sdp" may reset sessions
          NoSession,    \* no entry under a key
          NoPeer        \* UserID of an object that is not allocated yet

ASSUME HandlersAssumption == Handlers \subseteq {"ice", "sdp"}
ASSUME NoSessionAssumption == NoSession \notin Sessions
ASSUME NoPeerAssumption == NoPeer \notin Peers

VARIABLES repo,         \* sessionRepository: user id -> session or NoSession
          peer,         \* Session.UserID
          pc,           \* where creation and establishment of the session are
          agent,        \* Session.Agent: "none", "open" or "closed"
          conn,         \* Session.Conn: "nil", "open" or "closed"
          credsChan,    \* CredsChan (capacity one) holds its token
          readyChan,    \* ReadyChan: "open", "closed", "panic"
          mediaChan,    \* the three media channels, closed together
          reset,        \* per caller, the next step of its resetSession
          teardown,     \* the next step of disconnectSession's once body
          leave,        \* isLeaveInitiator of the call that won the once
          sending,      \* sessions SendInStream has started a goroutine for
          leaving,      \* sessions Disconnect(FromId) has read but not torn down
          closing,      \* closeCtx is cancelled
          connected,    \* sessions the Connected callback has been called for
          disconnected  \* sessions the Disconnected callback was called for

directory == <<repo, peer>>
link == <<agent, conn>>
chans == <<credsChan, readyChan, mediaChan>>
down == <<reset, teardown, leave>>
calls == <<sending, leaving, closing>>
told == <<connected, disconnected>>
vars == <<directory, pc, link, chans, down, calls, told>>

-----------------------------------------------------------------------------
(* Stages of a session.                                                    *)

Resetters == Handlers \cup {"est"}

\* createSession has not returned the session: it is not in the repository.
Unregistered == {"unborn", "creating", "publishing", "published", "rejected"}

\* establishConnection has handed the agent to Dial or Accept.
Dialled == {"dialing", "dialed", "keying", "opening", "announcing",
            "launching", "launched", "ready", "failed", "resetting"}

Stages == Unregistered \cup {"waiting"} \cup Dialled

\* Variant: the loops are started before the Connected callback.
ReceivingBeforeAnnounce == {"announcing", "launching", "launched", "ready"}

\* handleConnection's receive loops have been started.
Receiving == {"launched", "ready"}

\* The steps of resetSession and of disconnectSession, in order.
\* "hung" is a GracefulClose of the agent that never returns.
ResetSteps == {"off", "conn", "agent", "hung", "repo", "done"}
TeardownSteps == {"idle", "conn", "agent", "hung", "media", "repo", "signal",
                  "notify", "done"}
\* disconnectSession has got past its Delete.
Deleted == {"signal", "notify", "done"}

ChanStates == {"open", "closed", "panic"}

\* Variant: the field is set to nil instead.
CloseSetsNil(c) == "nil"

\* close(ch): closing a closed channel panics.
Close(c) == IF c = "open" THEN "closed" ELSE "panic"

\* CloseWithError on a connection that is set; its callers skip nil.
CloseConn(c) == IF c = "nil" THEN "nil" ELSE "closed"

\* The session is the one the repository holds for its user.
Current(s) == peer[s] \in Peers /\ repo[peer[s]] = s

Init ==
    /\ repo = [p \in Peers |-> NoSession]
    /\ peer = [s \in Sessions |-> NoPeer]
    /\ pc = [s \in Sessions |-> "unborn"]
    /\ agent = [s \in Sessions |-> "none"]
    /\ conn = [s \in Sessions |-> "nil"]
    /\ credsChan = [s \in Sessions |-> FALSE]
    /\ readyChan = [s \in Sessions |-> "open"]
    /\ mediaChan = [s \in Sessions |-> "open"]
    /\ reset = [s \in Sessions |-> [r \in Resetters |-> "off"]]
    /\ teardown = [s \in Sessions |-> "idle"]
    /\ leave = [s \in Sessions |-> FALSE]
    /\ sending = {}
    /\ leaving = {}
    /\ closing = FALSE
    /\ connected = {}
    /\ disconnected = {}

(***************************************************************************)
(* sessionRepository over a sync.Map: Add is LoadOrStore and Delete is     *)
(* CompareAndDelete, so neither touches an entry that is another session.  *)
(***************************************************************************)
\* Variants: Store overwrites, and Delete by user id alone.
StoreOverwrites(p, s) == repo' = [repo EXCEPT ![p] = s]
DeleteByKey(p, s) == repo' = [repo EXCEPT ![p] = NoSession]

LoadOrStore(p, s) ==
    repo' = [repo EXCEPT ![p] = IF @ = NoSession THEN s ELSE @]

CompareAndDelete(p, s) ==
    repo' = [repo EXCEPT ![p] = IF @ = s THEN NoSession ELSE @]

\* The session's own goroutine goes from one stage to another ...
Goto(s, from, to) == pc[s] = from /\ pc' = [pc EXCEPT ![s] = to]

\* ... and changes nothing else.
Advance(s, from, to) ==
    /\ Goto(s, from, to)
    /\ UNCHANGED <<directory, link, chans, down, calls, told>>

-----------------------------------------------------------------------------
(* createSession                                                           *)

\* Connect, ConnectById, getSession or the CREDS branch calls
\* createSession; it gives up at once when the service is closing.
Create(s, p) ==
    /\ ~closing
    /\ Goto(s, "unborn", "creating")
    /\ peer' = [peer EXCEPT ![s] = p]
    /\ UNCHANGED <<repo, link, chans, down, calls, told>>

\* AddInSession is answered; GetCreds (the credentials of the registration)
\* and the construction of the ICE agent succeed.
NewAgent(s) ==
    /\ Goto(s, "creating", "publishing")
    /\ agent' = [agent EXCEPT ![s] = "open"]
    /\ UNCHANGED <<directory, conn, chans, down, calls, told>>

\* AddInSession, GetCreds or the agent's construction fails.
CreateFails(s) == Advance(s, "creating", "rejected")

\* NewSDP sends the local credentials: the peer may answer from here on,
\* although the session is not in the repository yet.
Publish(s) == Advance(s, "publishing", "published")

\* NewSDP fails: the error return leaves the agent open.
PublishFails(s) == Advance(s, "publishing", "rejected")

\* sessionRepo.Add.  The entry of another session turns this one away, and
\* its agent is not closed.
Register(s) ==
    /\ Goto(s, "published",
            IF repo[peer[s]] = NoSession THEN "waiting" ELSE "rejected")
    /\ LoadOrStore(peer[s], s)
    /\ UNCHANGED <<peer, link, chans, down, calls, told>>

\* The caller's context has ended by the time of sessionRepo.Add.
RegisterTimesOut(s) == Advance(s, "published", "rejected")

-----------------------------------------------------------------------------
(* establishConnection, and the goroutine of createAndEstablish around it. *)

\* The CREDS branch of receiveConnects: SetRemoteCredentials on an open
\* agent, then a send on CredsChan that does not block when it is full.
ReceiveCreds(s) ==
    /\ pc[s] \notin Unregistered
    /\ agent[s] = "open"
    /\ credsChan' = [credsChan EXCEPT ![s] = TRUE]
    /\ UNCHANGED <<directory, pc, link, readyChan, mediaChan, down, calls, told>>

\* The select takes the token; GetRemoteUserCredentials succeeds.
TakeToken(s) ==
    /\ credsChan[s]
    /\ Goto(s, "waiting", "dialing")
    /\ credsChan' = [credsChan EXCEPT ![s] = FALSE]
    /\ UNCHANGED <<directory, link, readyChan, mediaChan, down, calls, told>>

\* Variant: the select has no case for closeCtx.
ClosingUnseen(s) == FALSE

\* The select sees closeCtx.  The deadline of estCtx is not among its cases.
SeeClosing(s) == closing /\ Advance(s, "waiting", "failed")

\* Agent.Dial or Accept, then the QUIC handshake, succeed.
DialSucceeds(s) == agent[s] = "open" /\ Advance(s, "dialing", "dialed")

\* session.Conn = quicConn, whatever became of the agent meanwhile.
StoreConn(s) ==
    /\ Goto(s, "dialed", "keying")
    /\ conn' = [conn EXCEPT ![s] = "open"]
    /\ UNCHANGED <<directory, agent, chans, down, calls, told>>

\* setupE2EE over the connection.
SetupE2EE(s) == conn[s] = "open" /\ Advance(s, "keying", "opening")

\* initEventStream over the connection.
InitEventStream(s) == conn[s] = "open" /\ Advance(s, "opening", "announcing")

\* Dial, setupE2EE or initEventStream returns an error: the deadline has
\* passed, or the agent or the connection is gone.
EstablishFails(s) ==
    \E stage \in {"dialing", "keying", "opening"} : Advance(s, stage, "failed")

\* The Connected callback.  Nothing has looked at the session's state since
\* the event stream was opened.
Announce(s) ==
    /\ Goto(s, "announcing", "launching")
    /\ connected' = connected \cup {s}
    /\ UNCHANGED <<directory, link, chans, down, calls, disconnected>>

\* go handleConnection: the receive loops start ...
Launch(s) == Advance(s, "launching", "launched")

\* Variant: the session is added to the repository once more when it is up.
SignalReadyAdds(s) ==
    /\ Goto(s, "launched", "ready")
    /\ readyChan' = [readyChan EXCEPT ![s] = Close(@)]
    /\ LoadOrStore(peer[s], s)
    /\ UNCHANGED <<peer, link, credsChan, mediaChan, down, calls, told>>

\* ... before close(ReadyChan).
SignalReady(s) ==
    /\ Goto(s, "launched", "ready")
    /\ readyChan' = [readyChan EXCEPT ![s] = Close(@)]
    /\ UNCHANGED <<directory, link, credsChan, mediaChan, down, calls, told>>

\* Variant: the failure path forgets close(ReadyChan).
FailureUnsignalled(s) ==
    /\ Goto(s, "failed", "resetting")
    /\ reset' = [reset EXCEPT ![s]["est"] = "conn"]
    /\ UNCHANGED <<directory, link, chans, teardown, leave, calls, told>>

\* close(ReadyChan) on failure; resetSession comes next.
SignalFailure(s) ==
    /\ Goto(s, "failed", "resetting")
    /\ readyChan' = [readyChan EXCEPT ![s] = Close(@)]
    /\ reset' = [reset EXCEPT ![s]["est"] = "conn"]
    /\ UNCHANGED <<directory, link, credsChan, mediaChan, teardown, leave,
                   calls, told>>

-----------------------------------------------------------------------------
(* resetSession, by each of its callers.                                   *)

\* The ICE agent reports Failed or Disconnected: only once it has started
\* its checks, and not after it is closed.  The reset runs inside the
\* agent's state callback.
IceFails(s) ==
    /\ "ice" \in Handlers
    /\ pc[s] \in Dialled
    /\ agent[s] = "open"
    /\ reset[s]["ice"] = "off"
    /\ reset' = [reset EXCEPT ![s]["ice"] = "conn"]
    /\ UNCHANGED <<directory, pc, link, chans, teardown, leave, calls, told>>

\* Credentials arrive for a session that already has a connection.
CredsForConnected(s) ==
    /\ "sdp" \in Handlers
    /\ conn[s] # "nil"
    /\ reset[s]["sdp"] \in {"off", "done"}
    /\ reset' = [reset EXCEPT ![s]["sdp"] = "conn"]
    /\ UNCHANGED <<directory, pc, link, chans, teardown, leave, calls, told>>

ResetGoto(s, r, from, to) ==
    /\ reset[s][r] = from
    /\ reset' = [reset EXCEPT ![s][r] = to]
    /\ UNCHANGED <<peer, pc, chans, teardown, leave, calls, told>>

\* The event stream and the QUIC connection, if there is one yet.
ResetConn(s, r) ==
    /\ ResetGoto(s, r, "conn", "agent")
    /\ conn' = [conn EXCEPT ![s] = CloseConn(@)]
    /\ UNCHANGED <<repo, agent>>

\* The agent's state callback has begun a reset: a callback that has begun
\* is not cancelled when the agent is closed.
CallbackRuns(s) == "ice" \in Handlers /\ reset[s]["ice"] # "off"

\* GracefulClose closes the agent and then waits for its callbacks to
\* return.  The reset that such a callback makes waits for itself, so
\* neither it nor any other GracefulClose of this agent ever returns.
GracefulClose(s, next) == IF CallbackRuns(s) THEN "hung" ELSE next

\* Variant: the agent of a failed session is left open.
ResetAgentLeaks(s, r) ==
    /\ ResetGoto(s, r, "agent", "repo")
    /\ UNCHANGED <<repo, link>>

ResetAgent(s, r) ==
    /\ ResetGoto(s, r, "agent", GracefulClose(s, "repo"))
    /\ agent' = [agent EXCEPT ![s] = "closed"]
    /\ UNCHANGED <<repo, conn>>

ResetDelete(s, r) ==
    /\ ResetGoto(s, r, "repo", "done")
    /\ CompareAndDelete(peer[s], s)
    /\ UNCHANGED link

-----------------------------------------------------------------------------
(* disconnectSession and its callers.                                      *)

\* Variant: no sync.Once around the body.
DisconnectUnguarded(s, isLeaveInitiator) ==
    /\ teardown' = [teardown EXCEPT ![s] = "conn"]
    /\ leave' = [leave EXCEPT ![s] = isLeaveInitiator]
    /\ UNCHANGED <<directory, pc, link, chans, reset, closing, told>>

\* Closing.Do: the first caller runs the body, the others find it taken.
Disconnect(s, isLeaveInitiator) ==
    /\ IF teardown[s] = "idle"
       THEN /\ teardown' = [teardown EXCEPT ![s] = "conn"]
            /\ leave' = [leave EXCEPT ![s] = isLeaveInitiator]
       ELSE UNCHANGED <<teardown, leave>>
    /\ UNCHANGED <<directory, pc, link, chans, reset, closing, told>>

\* Variant: the loop returns without calling disconnectSession.
ReceiveJustReturns(s) == pc[s] \in Receiving /\ UNCHANGED vars

\* A receive loop returns: the connection is closed, closeCtx is cancelled,
\* or the peer ended the event stream or sent what cannot be decoded.
ReceiveFails(s) ==
    /\ pc[s] \in Receiving
    /\ Disconnect(s, FALSE)
    /\ UNCHANGED <<sending, leaving>>

\* SendInStream has fetched the session from the repository, perhaps some
\* time ago, and finds it connected and decided.
SendInStream(s) ==
    /\ pc[s] \notin Unregistered
    /\ conn[s] # "nil"
    /\ readyChan[s] # "open"
    /\ sending' = sending \cup {s}
    /\ UNCHANGED <<directory, pc, link, chans, down, leaving, closing, told>>

SendSucceeds(s) ==
    /\ s \in sending
    /\ conn[s] = "open"
    /\ sending' = sending \ {s}
    /\ UNCHANGED <<directory, pc, link, chans, down, leaving, closing, told>>

\* OpenUniStreamSync fails or times out.
SendFails(s) ==
    /\ s \in sending
    /\ sending' = sending \ {s}
    /\ Disconnect(s, FALSE)
    /\ UNCHANGED leaving

\* Disconnect's Fetch or DisconnectFromId's Get reads the session.
PickToLeave(s) ==
    /\ Current(s)
    /\ leaving' = leaving \cup {s}
    /\ UNCHANGED <<directory, pc, link, chans, down, sending, closing, told>>

\* ... and disconnectSession is called on it, however much later.
Leave(s) ==
    /\ s \in leaving
    /\ leaving' = leaving \ {s}
    /\ Disconnect(s, TRUE)
    /\ UNCHANGED sending

TeardownGoto(s, from, to) ==
    /\ teardown[s] = from
    /\ teardown' = [teardown EXCEPT ![s] = to]
    /\ UNCHANGED <<peer, pc, credsChan, readyChan, reset, leave, calls, connected>>

TeardownConn(s) ==
    /\ TeardownGoto(s, "conn", "agent")
    /\ conn' = [conn EXCEPT ![s] = CloseConn(@)]
    /\ UNCHANGED <<repo, agent, mediaChan, disconnected>>

\* Variant: the teardown leaves the agent open.
TeardownAgentLeaks(s) ==
    /\ TeardownGoto(s, "agent", "media")
    /\ UNCHANGED <<repo, link, mediaChan, disconnected>>

TeardownAgent(s) ==
    /\ TeardownGoto(s, "agent", GracefulClose(s, "media"))
    /\ agent' = [agent EXCEPT ![s] = "closed"]
    /\ UNCHANGED <<repo, conn, mediaChan, disconnected>>

TeardownMedia(s) ==
    /\ TeardownGoto(s, "media", "repo")
    /\ mediaChan' = [mediaChan EXCEPT ![s] = Close(@)]
    /\ UNCHANGED <<repo, link, disconnected>>

TeardownDelete(s) ==
    /\ TeardownGoto(s, "repo", IF leave[s] THEN "signal" ELSE "notify")
    /\ CompareAndDelete(peer[s], s)
    /\ UNCHANGED <<link, mediaChan, disconnected>>

\* DeleteFromSession under context.Background() is answered, or fails.
TeardownSignal(s) ==
    /\ TeardownGoto(s, "signal", "done")
    /\ UNCHANGED <<repo, link, mediaChan, disconnected>>

\* The Disconnected callback.
TeardownNotify(s) ==
    /\ TeardownGoto(s, "notify", "done")
    /\ disconnected' = disconnected \cup {s}
    /\ UNCHANGED <<repo, link, mediaChan>>

-----------------------------------------------------------------------------
(* The world outside.                                                      *)

\* The peer closes the QUIC connection, or its idle timeout runs out.
LinkLost(s) ==
    /\ conn[s] = "open"
    /\ conn' = [conn EXCEPT ![s] = "closed"]
    /\ UNCHANGED <<directory, pc, agent, chans, down, calls, told>>

\* The application's close function cancels closeCtx.
CloseApp ==
    /\ ~closing
    /\ closing' = TRUE
    /\ UNCHANGED <<directory, pc, link, chans, down, sending, leaving, told>>

-----------------------------------------------------------------------------
Creation(s) ==
    \/ \E p \in Peers : Create(s, p)
    \/ NewAgent(s) \/ CreateFails(s) \/ Publish(s) \/ PublishFails(s)
    \/ Register(s) \/ RegisterTimesOut(s)

Establishment(s) ==
    \/ TakeToken(s) \/ SeeClosing(s)
    \/ DialSucceeds(s) \/ StoreConn(s) \/ SetupE2EE(s)
    \/ InitEventStream(s) \/ EstablishFails(s)
    \/ Announce(s) \/ Launch(s) \/ SignalReady(s) \/ SignalFailure(s)

ResetSession(s, r) == ResetConn(s, r) \/ ResetAgent(s, r) \/ ResetDelete(s, r)

\* The once body, the request to the signaling server apart.
TeardownLocal(s) ==
    \/ TeardownConn(s) \/ TeardownAgent(s) \/ TeardownMedia(s)
    \/ TeardownDelete(s) \/ TeardownNotify(s)

\* What other goroutines, the application and the network do to a session.
Disturbance(s) ==
    \/ ReceiveCreds(s) \/ IceFails(s) \/ CredsForConnected(s)
    \/ ReceiveFails(s) \/ SendInStream(s) \/ SendSucceeds(s) \/ SendFails(s)
    \/ PickToLeave(s) \/ Leave(s) \/ LinkLost(s)

Next ==
    \/ \E s \in Sessions :
        \/ Creation(s) \/ Establishment(s)
        \/ \E r \in Resetters : ResetSession(s, r)
        \/ TeardownLocal(s) \/ TeardownSignal(s)
        \/ Disturbance(s)
    \/ CloseApp

Spec == Init /\ [][Next]_vars

(***************************************************************************)
(* Fairness: a goroutine that can take a step does, because Go schedules   *)
(* it and because each call it makes is bounded by estCtx or, once the     *)
(* connection exists, by its idle timeout.  The one local call that can    *)
(* block for good, GracefulClose, does so in the model: "hung" has no      *)
(* step out.  Not assumed: that a caller's requests during createSession   *)
(* are answered, that DeleteFromSession (sent under context.Background())  *)
(* is, that credentials arrive.                                            *)
(***************************************************************************)
\* A receive loop whose reason to end is not the peer's doing.
ReceiveEnds(s) == (conn[s] = "closed" \/ closing) /\ teardown[s] = "idle" /\ ReceiveFails(s)

\* Nothing carries the packets of a connection whose agent is closed.
IdleTimeout(s) == agent[s] = "closed" /\ LinkLost(s)

Fairness ==
    \A s \in Sessions :
        /\ WF_vars(Establishment(s))
        /\ \A r \in Resetters : WF_vars(ResetSession(s, r))
        /\ WF_vars(TeardownLocal(s))
        /\ WF_vars(ReceiveEnds(s))
        /\ WF_vars(IdleTimeout(s))

FairSpec == Spec /\ Fairness

-----------------------------------------------------------------------------
(* Safety.                                                                 *)

TypeOK ==
    /\ repo \in [Peers -> Sessions \cup {NoSession}]
    /\ peer \in [Sessions -> Peers \cup {NoPeer}]
    /\ pc \in [Sessions -> Stages]
    /\ agent \in [Sessions -> {"none", "open", "closed"}]
    /\ conn \in [Sessions -> {"nil", "open", "closed"}]
    /\ credsChan \in [Sessions -> BOOLEAN]
    /\ readyChan \in [Sessions -> ChanStates]
    /\ mediaChan \in [Sessions -> ChanStates]
    /\ reset \in [Sessions -> [Resetters -> ResetSteps]]
    /\ teardown \in [Sessions -> TeardownSteps]
    /\ leave \in [Sessions -> BOOLEAN]
    /\ sending \subseteq Sessions
    /\ leaving \subseteq Sessions
    /\ closing \in BOOLEAN
    /\ connected \subseteq Sessions
    /\ disconnected \subseteq Sessions

\* No goroutine closes a channel another has closed: ReadyChan is closed on
\* exactly one of the two ways out of the establishment, and the media
\* channels only by the one caller that sync.Once lets into
\* disconnectSession, however many loops, senders and API calls race to it.
NoDoubleClose ==
    \A s \in Sessions : readyChan[s] # "panic" /\ mediaChan[s] # "panic"

\* The repository never holds a session under another user's id, one whose
\* createSession has not succeeded, or one that disconnectSession or any
\* resetSession has already deleted: in particular no Delete can come
\* before the Add it is meant to undo, which would leave a dead session in
\* the repository and turn every later Connect to that user away.
RegistrySound ==
    \A p \in Peers : repo[p] # NoSession =>
        /\ peer[repo[p]] = p
        /\ pc[repo[p]] \notin Unregistered
        /\ teardown[repo[p]] \notin Deleted
        /\ \A r \in Resetters : reset[repo[p]][r] # "done"

\* The late teardown of an old session never removes or replaces the entry
\* of a newer session of the same user: an entry that disappears is one
\* whose own session deletes itself in that very step.
OwnEntryOnly ==
    [][\A p \in Peers : repo[p] # NoSession /\ repo'[p] # repo[p] =>
          LET s == repo[p] IN
          /\ repo'[p] = NoSession
          /\ \/ teardown[s] = "repo" /\ teardown'[s] \in Deleted
             \/ \E r \in Resetters :
                   reset[s][r] = "repo" /\ reset'[s][r] = "done"]_vars

\* The application is told Disconnected only of a session it has not left
\* itself, that is out of the repository, and that was told Connected
\* before or whose establishment failed with the connection up (a message
\* sent between close(ReadyChan) and the reset can still find it).
DisconnectedInOrder ==
    \A s \in disconnected :
        /\ ~leave[s]
        /\ ~Current(s)
        /\ s \in connected \/ (pc[s] = "resetting" /\ conn[s] # "nil")

\* Once a failed establishment has run its reset to the end nothing of the
\* session is left, whichever teardowns ran beside it: connection and agent
\* are closed, the repository has forgotten it, the waiters are released.
FailureLeavesNothing ==
    \A s \in Sessions : reset[s]["est"] = "done" =>
        /\ conn[s] # "open"
        /\ agent[s] = "closed"
        /\ ~Current(s)
        /\ readyChan[s] = "closed"

-----------------------------------------------------------------------------
(* The abstract specification.                                             *)

Registry == INSTANCE SessionRegistry WITH
    current <- repo,
    entered <- {s \in Sessions : pc[s] \notin Unregistered},
    up <- connected,
    downTold <- disconnected

\* Every step of every goroutine is a step of the registry or invisible to
\* it: no session is current twice, none is replaced, none is reported
\* twice or reported down while it is still in the repository.
ImplementsRegistry == Registry!Spec

-----------------------------------------------------------------------------
(* Liveness, under FairSpec.                                               *)

\* Once the peer's credentials are in, whoever waits on ReadyChan (Connect,
\* ConnectById) is released, whatever fails on the way.
TokenDecides ==
    \A s \in Sessions :
        (pc[s] = "waiting" /\ credsChan[s]) ~> (readyChan[s] = "closed")

\* A connection that breaks after Connected was announced is reported by
\* Disconnected, unless the user is leaving it: the CREDS branch's reset,
\* which reports nothing itself, does not swallow the report.  A break that
\* the agent's callback has met first may hang the teardown instead, before
\* its report, and nothing else keeps a report back.
BreakReported ==
    \A s \in Sessions :
        (s \in connected /\ conn[s] = "closed")
            ~> \/ s \in disconnected \/ leave[s]
               \/ CallbackRuns(s) /\ teardown[s] = "hung"

\* A session that has been torn down does not keep a connection for good:
\* one that establishConnection stores behind the teardown's back dies with
\* its agent.
TornDownConnDies ==
    \A s \in Sessions : (teardown[s] = "done") ~> [](conn[s] # "open")

\* When the service closes, every waiter on ReadyChan is released, and every
\* session whose agent's callback has not begun a reset leaves the
\* repository.
ClosingDrains ==
    \A s \in Sessions :
        (closing /\ Current(s))
            ~> (readyChan[s] = "closed" /\ (~Current(s) \/ CallbackRuns(s)))

-----------------------------------------------------------------------------
(* What the documentation says and the code does not do.                   *)

\* README: EstablishConnTimeout is the "end-to-end peer connection
\* establishment deadline", so an establishment that waits for the peer's
\* credentials ends, and with it the Connect that waits for it.
EstablishmentEnds ==
    \A s \in Sessions : (pc[s] = "waiting") ~> (readyChan[s] = "closed")

\* README: "ICE-level reconnection for lost peer links".  The reconnection
\* follows the reset in the agent's state callback, and until that has
\* taken the lost session out of the repository no other session of its
\* user is accepted there.
LostLinkReleased ==
    \A s \in Sessions :
        (CallbackRuns(s) /\ Current(s)) ~> ~Current(s)

\* README: Disconnect "terminates all active peer sessions", so after the
\* disconnectSession it made for a session has returned, the application is
\* not told that this session is connected.
NoConnectedAfterLeave ==
    [][\A s \in Sessions :
          leave[s] /\ teardown[s] = "done" /\ s \notin connected
              => s \notin connected']_vars
=============================================================================
