# aloh-networking: a TLA+ model

aloh-networking is a Go library that connects the users of a voice and video
application directly to each other. A *signaling server*, reached over QUIC,
tells users of one another and carries the messages of the ICE exchange; each
pair of users then has a QUIC connection of its own over an ICE connection,
with an encrypted event stream, datagrams and streams. This directory holds
TLA+ modules of the parts of the library that are hard to get right (its
goroutines share sessions, channels and connections without locks), the TLC
configurations that check them, and proofs.

## 1. Inventory

Paths are relative to `src/`; `helpers.go` and `network-serv.go` are those of
`internal/domain/services/networking/`, `helper.go` and
`signaling-client.go` those of `internal/client/`.

| component | state | operations | correct when |
| --- | --- | --- | --- |
| session lifecycle (`helpers.go`, `models/session.go`) | per session: ICE agent, QUIC connection, `CredsChan`, `ReadyChan`, three media channels, `Closing` | `createSession`, `createAndEstablish`, `establishConnection`, `resetSession`, `disconnectSession`, receive loops | channels are closed once, nothing is left of a failed or ended session, losses are reported, waiters are released |
| session repository (`repository/session-repo.go`) | `sync.Map` user id -> session | `Add`, `Delete`, `Get`, `Fetch`, (`Clear`, no caller) | one session per user, never a dead one; a late `Delete` does not hit a newer session |
| signaling client (`internal/client/`) | connection, control stream, `sendMsgs`, `receiveSDPs`, `pendingResponses`, `isOnline` | `Run`, `serveConnection`, `sendMsg`, `receiveSDP`, `receiveResponses`, `sendCommand`, `getPayload`, `sendPayload`, `CloseConnection` | reconnects, never mixes two connections, every call returns |
| networking service API (`network-serv.go`) | single-flight group, handlers, close context | `Connect`, `ConnectById`, `Disconnect`, `DisconnectFromId`, SDP intake | at most one session per user whatever the callers; calls return |
| media pipeline (`helpers.go` 31-93, `network-serv.go` 286-434) | three channels of 100 packets per session | `startDatagramsProcessors`, `processData`, `SendInStream`, `SendDatagram`, `SendInEventStream` | drops instead of blocking, no send on a closed channel |
| two peers (`helpers.go` 185-433) | on each node the entry for the other; CREDS on their way | publish and take credentials, answer, start over, dial or accept | an attempt that nothing disturbs connects both; no half connections, no endless answering |
| application (`internal/app/app.go`) | root context, the two SDP channels | `Init`, the close function | closes in an order no goroutine trips over |
| public API, handlers | callbacks in `atomic.Value` | wrappers with deadlines and result codes | every error has its code |
| error codes | none | `codeToError`, `ProcessError` | a code says what the call has done |
| e2ee, events, wire formats, logger, configuration | keys per session | | out of scope, see section 8 |

Interaction. The application calls the service through the handlers. The
service calls the signaling client (requests that wait for a response) and
shares the channel `receiveSDPs` with it: `receiveSDP` fills it,
`receiveConnects` empties it and starts a goroutine per message. Sessions are
found through the repository by API calls, SDP goroutines and senders; the
session's own goroutines (establishment, three receive loops, ICE callback) hold
a pointer to it and outlive its entry. All end on `closeCtx`.

What is hard: all of this is concurrent and almost nothing is locked. Sessions
are torn down by whoever notices first, possibly while they are being
established; an old session of a user may be ending while the next begins;
responses, timeouts and the loss of the signaling connection race for the same
channel; peers and server fail at any point. `PROJECT.json` lists the hazards
with their lines and the properties that watch them.

## 2. Modules

| module | role |
| --- | --- |
| `PeerSession` | the sessions of one node with the repository: one action per step of each goroutine; properties |
| `SessionRegistry` | what the service promises of its sessions, without goroutines: one current session per user, events in order |
| `NetworkingServ` | the calls of the API and the SDP messages of one node, which create, leave and wait for sessions; properties |
| `ErrorCodes` | from the codes of the signaling server to errors and from errors to the codes of the API |
| `MediaCallbacks` | what a session promises to the media callbacks of the application, without goroutines, channels or teardown |
| `MediaPipeline` | what one connected session carries: receivers, media channels, processors, callbacks, events, sends; properties |
| `PeerPair` | two nodes that exchange credentials through the signaling server; properties |
| `SignalingClient` | the connection to the signaling server, its goroutines, and the requests that use it; properties |
| `*MC` | for each of them: users, sessions, calls and scenarios, symmetry or a state constraint for TLC |
| `*Proofs` | the theorems about each; `PeerPairBoundProofs` those on the length of the exchange |

```
 application --- NetworkingServ --- SignalingClient --- signaling server
                   |        |                             |
      (EXTENDS ErrorCodes)  | creates, leaves             | CREDS
                   |     PeerSession ... PeerPair (two nodes, sessions coarser)
             implements |   |
            SessionRegistry MediaPipeline (one session once it has its keys)
                                | implements
                            MediaCallbacks
```

`PeerSession` and `NetworkingServ` look at the same sessions at two grains: the
first at each session's own goroutines, with callers that may do anything at any
time; the second at the callers, with sessions of a few steps. Both implement
`SessionRegistry`. `PeerPair` keeps of both what the other node can tell.

Definitions that begin with *Variant* in their comment are not part of the
specification: each is a way the definition after them could be wrong, used
to confirm that a property depends on it.

### PeerSession

`pc[s]` follows the goroutine that creates a session and establishes it, from
`unborn` through the statements of `createSession` (`creating`, `publishing`,
`published`) and `establishConnection` (`waiting`, `dialing`, ..., `ready`) to
`rejected`, `ready` or, on failure, `failed` and `resetting`. Step boundaries
lie where another goroutine can see or change the session: channel operations,
`session.Conn = quicConn`, calls to the repository, callbacks, blocking calls.
`agent`, `conn`, `credsChan`, `readyChan` and `mediaChan` are the session's
fields; a channel closed twice becomes `"panic"`.

`resetSession` runs step by step for each of its callers (`reset[s][r]`): the
failed establishment (`est`), the ICE callback (`ice`), the CREDS branch
(`sdp`). The two latter are switched on by the constant `Handlers`.
`GracefulClose` of the ICE library waits until the agent's callbacks have
returned. The ICE callback's reset calls it inside such a callback, so it waits
for itself (`"hung"`, a step with no way out), and from the moment the callback
has begun so does every other `GracefulClose` of the agent: the CREDS branch's,
the failed establishment's, the teardown's.
`disconnectSession` runs at most once per session (`teardown[s]`), because of
`Closing.Do`; its callers are the receive loops (`ReceiveFails`), a sender
(`SendFails`) and `Disconnect` / `DisconnectFromId` (`PickToLeave`, `Leave`:
reading the repository and acting on what was read are two steps; likewise
`SendInStream`, which works on sessions fetched earlier).
`LoadOrStore` and `CompareAndDelete` are the repository's `sync.Map`
operations.

Open, so that every caller is covered: who creates sessions and when, when
credentials and failures arrive, when the link is lost.

Abstracted: the content of keys and messages, ICE candidates (they change no
state of the library), the two sides of `IsInitiator` (their steps have the
same effects on the session), several CREDS goroutines resetting the same
session at the same time (their steps are idempotent).

### SessionRegistry

Who is current under each user id, which sessions have been entered, which have
been reported connected, which disconnected. Its actions are the only things an
application can observe of a session's life: `PeerSession` maps to it by
`current <- repo`, `entered <-` the sessions past `Register`, `up <- connected`,
`downTold <- disconnected`.

### SignalingClient

`run` is the position of `Run` and `serveConnection`; `loop[g]` that of the
three goroutines of a connection, which look at their context, use a field of
the client (`UseStream`: after `ForgetStreams` it is nil), block in the call and
handle its result; `errChan` keeps the first error. A request goes from the
check of `isOnline` (`Begin`) to the entry in `pendingResponses`
(`StorePending`), to the queue (`Enqueue`) and to its answer (`Receive`,
`TimeOut`, `SeeClosing`, each with the deferred `Delete`). A response channel
holds one response and may be closed over it (`fullClosed`).
`clearPendingResponses` is one step per entry, and may or may not see entries
stored while it runs, as `sync.Map.Range` does. `link` distinguishes a
connection that ended with an error (`broken`) from one closed with code 0
(`gone`), because `CheckErr` makes nil of the latter's errors. A Go panic stops
the process: no action is enabled after `panicked` changes.

Abstracted: payloads; result codes (`ErrorCodes` has them); the request ids (a
request is used once, as its uuid is); retries of the QUIC layer.

### NetworkingServ and ErrorCodes

`stage[s]` is the position of a session's establishment, `torn[s]` that of the
body of `disconnectSession`, `past` the order in which sessions have gone
through its `Delete`. A call `c` of the API has its program counter `pc[c]`:
`begun` (arguments checked, the repository read: `ToHimself`,
`AlreadyConnected`, `LooksAround`, `GetOne`, ...), `leaving` (`LeaveSession` for
each session of `work[c]`, `Left` is `wg.Wait`), `fork`, `asking`, `joining`
(Connect's errgroup: `making[c]` are the users its workers are creating sessions
for, `made[c]` the sessions whose ReadyChan they wait for; `Joined` is
`g.Wait`). Reading the repository and acting on what was read are two steps.
`Connect` returns early, and leaves its worker behind, when `GetSessionsById`
fails (`AskingFails`). `Delete` is the close function: cancel, then Disconnect.

The application may call the API inside Connected and Disconnected
(`CallInside`), and the callback lasts until that call returns (`Returned`): the
goroutine of a teardown can thus wait for another teardown.

An agent whose state callback has begun its reset is `"hung"` (`IceFails`): the
connection is closed, the entry stays, and `DeleteSession`, `ResetFailed` and
`StartOver`, which need `GracefulClose` to return, do not happen. The reconnect
loop that the code would start after the reset is therefore not modelled. A
`DeleteFromSession` may block a teardown (`SignalBlocks`), with or without end.

A message of `receiveSDPs` is a goroutine `m`; `Lead`, `Follow` and `Lands` are
the single-flight group of `getSession`, `StartOver` and `Recreate` the CREDS
branch that replaces a session, outside that group. What calls and messages
there are, and who is up in the beginning, comes from the constant `Starts`; the
order in which they happen is open.

`err[c]` is the call's error. How requests may fail (`RequestErrors`) is
constrained by `ErrorCodes`: `checkResp` makes an error of every code but the
expected one, and `ProcessError` makes the API's code of it.

Abstracted: a session's steps inside `createSession`, `establishConnection` and
`resetSession` (in `PeerSession`), what a `Send` does (in `MediaPipeline`), the
answers of `GetSessionsById` beyond the set of users they name.

### MediaPipeline

One session from `setupE2EE` on. `packet[p]` follows a packet or event of the
peer: at the peer, being read in its own goroutine, in its channel, in the
callback, done, dropped (no room, unknown type, no callback) or lost. `queue`,
`chan` and `proc` are the three media channels and their processors, `inHand`
what a processor has taken; `entered` and `done` are histories. `stage` orders
the assignments of `initEventStream`, because `SendInEventStream` uses their
results without waiting for them. `torn` walks through `disconnectSession`: the
connection and the agent, whose `GracefulClose` may not return (`AgentHangs`),
then the channels one by one. The two receive loops for streams and
datagrams end for the same reasons and are one.

`MediaPipeline` implements `MediaCallbacks`, whose variables are what the
application can tell of each kind: the packets accepted (`entered`), those whose
callback has begun (`done` and `inHand`) and has returned (`done`), and whether
the kind is closed (`chan`). A packet is accepted once; callbacks get what was
accepted, in order, one call at a time; at most `Cap` packets wait.

Two Go panics are reachable and end the process: a send on a media channel that
the teardown has closed (`EnqueuePanics`, `helpers.go:76`) and the use of an
encoder that is not yet assigned (`EmitPanics`, `network-serv.go:305`). No
document says that they cannot happen, so neither is a run of its own; the
properties hold up to them. `Hung` are the kinds whose callback may never return.

Abstracted: sizes and contents, the ciphers, the timeouts of single reads. That
voice sent with `SendVoice` travels in streams and with datagrams otherwise
makes no difference to the receiver: both end in `processData`.

### PeerPair

Each session `s` of a node has a stage (`published`: its CREDS are out,
`createSession` has not yet called `Add`; `waiting`, `dialing`, `dialed`, `up`,
`over`) and a CREDS message `msg[s]`, named after the session whose credentials
it carries, which is relayed once, at any later time, or lost. `remote` and
`token` are what `SetRemoteCredentials` and `CredsChan` hold; `answers` is the
message that made its receiver create a session. The receiver's goroutine finds
a session (`Relay`), creates one (`Answer`, then `Register` or `Refused`) or
joins a goroutine that does (`Follow`), and goes on to `SetRemote` or `Replace`.
Two ends are `Paired` when each has the other's credentials and one of them
dials. `depth` counts answers to answers, and `disturbed` remembers that a
message was lost or overtook a registration, a link broke, somebody left or a
deadline came too early.

Timing assumption: a deadline of an establishment (`Fail`) does not end while a
message of the signaling server is under way. The example of the repository's
README has 30 s for the former and 5 s for a request.

Abstracted: candidates; `resetSession` and teardown are one step each, which is
right as long as no agent reports a failure, so such nodes are left out.

External to the repository and therefore only constrained by their use in it:
the signaling server (`ServerAnswers`: answers in any order, late or never),
the network (`LinkEnds`, `LinkLost`), the ICE and QUIC libraries.

## 3. Properties

`PeerSession`, safety:

* `NoDoubleClose`: no channel of a session is closed twice.
* `RegistrySound`: what the repository holds belongs to the user, was
  registered, and has not been through a `Delete`. In particular no `Delete`
  overtakes the `Add` it is meant to undo.
* `OwnEntryOnly`: an entry disappears only by its own session's `Delete`.
* `DisconnectedInOrder`: Disconnected is reported only for sessions that
  are out of the repository, were not left by the user, and were announced or
  failed with the connection up.
* `FailureLeavesNothing`: after a failed establishment's reset, connection and
  agent are closed, the entry is gone, the waiters are released.
* `ImplementsRegistry`: `PeerSession` implements `SessionRegistry`.

`PeerSession`, liveness: `TokenDecides` (once credentials are in, waiters on
`ReadyChan` are released), `BreakReported` (a break after Connected is reported,
even when the CREDS branch's silent reset caused it, unless the agent's callback
was first and the teardown hangs in `GracefulClose`), `TornDownConnDies` (a
connection stored behind the teardown's back is closed in the end, and stays
closed), `ClosingDrains` (closing the service releases waiters and removes every
session whose agent's callback has not begun a reset).

`NetworkingServ`, safety:

* `NoCircularWait`: in no set of Disconnected callbacks does each wait for the
  teardown of another (or its own). It holds because `Delete` comes before the
  callback: a Disconnect inside a callback finds only sessions whose teardown
  has not come as far.
* `LeftIsGone`: when Disconnect, DisconnectById or the close function returns,
  and when a Connect goes on after the Disconnect it makes, the sessions that
  were found are torn down to the end, by whomever, and not in the repository.
* `RegistrySteps`: the steps are those of `SessionRegistry`, from any beginning.

`NetworkingServ`, liveness: `LeaveReturns` (a call that leaves sessions returns,
inside a callback too, unless a callback is in a Connect, which waits for a
peer, or a teardown is held up), `CallsReturn` (when the service closes, every
call returns, unless a teardown is held up), `ClosingEmpties` (then the
repository empties and stays empty, but for sessions that have lost their ICE
connection), `MessagesEnd` (every message that is taken is dealt with, its
followers in the single flight included, unless it resets such a session). A
teardown is *held up* (`HeldUp`) in a `GracefulClose` of a hung agent or in a
`DeleteFromSession`, which runs under `context.Background()` and has no deadline
in the first select of `checkResp` nor, while the service is open, in the second.

`MediaPipeline`, safety: `PipelineInOrder` (each channel with its processor is a
bounded queue in order and without loss), `EndedDrained` (the teardown loses
nothing that has entered a channel), `ImplementsCallbacks` (every step keeps the
contract of `MediaCallbacks`), `EarlyHandlerServed` (with an event callback
registered before the connection, no event is passed over). Liveness:
`ReceiversNeverBlock` and `PipelinesIndependent` (whatever a callback does,
receivers and the other kinds go on), `ProcessorsEnd` (unless the teardown hangs
before the channels).

`PeerPair`, safety: `AnswersDieOut` (the nodes do not answer each other's
credentials for ever: two answers in a row may follow a first attempt to
connect, and at most four more each further one; in the run the longest row
is 2 after one attempt and 5 after two), `UpIsRegistered` (no node has two live
connections), `EndsAgree` (two sessions that are connected have each other's
credentials, and one of them has dialled: no node is connected to an end that
means another session, however credentials cross or come again in the middle of
a handshake). Liveness:
`NoHalfConnection` (who is up without its peer learns of it),
`SingleConnectWorks` (one attempt of one side that nothing disturbs connects
both).

`SignalingClient`, safety: `OneGeneration` (the goroutines of a connection are
gone before the next is dialled), `WaitersReachable` (an entry is in
`pendingResponses` exactly while its call is in flight on an open channel),
`OfflineWhileDown` (offline from the handling of a loss to the next
registration).

`SignalingClient`, liveness: `BrokenLinkRedialled`, `CallsReturn` (a call that
waits for its response returns when the connection is lost with its entry in
the map and when the application closes, deadline or not).

## 4. Runs

| run | instance | shows | distinct states |
| --- | --- | --- | --- |
| `sessions_two` | 1 user, 2 sessions, ICE resets | safety and the refinement | 1.1 million |
| `sessions_live` | 1 user, 1 session, ICE and SDP resets | liveness | 22 thousand |
| `signaling_two` | 2 requests with deadlines, queues of 1 | safety | 2.2 million |
| `signaling_live` | 1 request without deadline, queues of 1 | liveness | 190 thousand |
| `services` | 2 users, 3 sessions, 2 calls, 2 messages in 15 scenarios | safety, refinement, liveness | 105 thousand |
| `media` | 3 packets, channels of 1, a voice callback that may hang, 1 outgoing message | safety and liveness | 95 thousand |
| `pair` | 2 nodes, 2 attempts to connect | safety and liveness | 158 thousand |
| `establishment_deadline`, `connected_after_leave`, `ice_reconnection`, `clean_close_redial`, `pending_channel_race` | 1 session or 1 request | the disagreements of section 7 | |

Why these bounds. Sessions of different users share only `closing` and the
map, whose keys are independent, so one user is enough; two sessions of that
user are the smallest case in which they meet at an entry (the second
registered after, or turned away by, the first, and torn down in any order).
In `sessions_two` the constraint `OneDisturbed` leaves out states in which both
sessions have senders, leaving callers or resets of the ICE callback; both
still lose their links, fail and are torn down by their receive loops. The
theorems have no such bound. One session suffices for the liveness properties,
which each speak of one session. Two requests are the smallest number that
fills the queue of one and lets one be cleared while the other is stored;
`SdpConsumed` there keeps `receiveSDPs` from piling up, while `signaling_live`
lets it fill and block `receiveSDP`. With one connection after another the
number of reconnections is not bounded: the state space is finite without it.

`services`: each scenario brings together calls and messages that touch the same
sessions: two Connects, Connect beside CREDS, Disconnect in both callbacks,
messages in a burst, the close function beside a session that was lost, and so
on. Two
calls are the smallest number in which one is inside a callback that another
waits for; three sessions allow two that are up and one that follows them, or a
session and two that replace it in turn. `NextSession` takes the unborn sessions
in a fixed order, which loses nothing: they do not differ.
`media`: three voice packets fill a processor's hand, the channel and find it
full; one packet of another kind beside one of voice shows independence. Two
packets of different kinds meet only in the teardown's order, which the loads
cover. `pair`: two attempts, from the same side or from both, are the smallest
case of crossing credentials and of a replacement; `MaxSessions` = 4 is never
what stops a node (5 gives the same states).

Deadlock is not checked: all of these systems may come to rest (every session
torn down, the application closed, the process dead).

## 5. Fairness

Goroutines that can take a step do: Go's scheduler sees to that, and every
blocking call of the steps assumed fair is bounded by a deadline
(`establishConnection` after the credentials: `estCtx`) or by an idle timeout of
QUIC. `PeerSession!Fairness` assumes nothing of `createSession`'s requests, of
`DeleteFromSession` (made under `context.Background()`), of credentials to
arrive, nor of messages to be sent. `GracefulClose` returns unless the agent's
callback has begun a reset, and then never does: `"hung"` has no step out. A
receive loop is assumed to end only when the connection is closed or the service
is closing. A connection whose agent is closed carries no packets and so meets
its idle timeout. `SignalingClient!Fairness` assumes that dialling, the
registration and the backoff end, that the goroutines run, that receiveConnects
keeps up and that a caller takes an answer that is there; not that the server
answers, pushes, ends a message it has begun or closes anything, nor that a
request is ever made.

`NetworkingServ!Fairness` assumes that goroutines run, that the requests of calls
and messages come back (their contexts have deadlines, also in the first select
of `checkResp`), that dials end, that a callback returns when the call it makes
has; not that a blocked `DeleteFromSession` returns, that messages arrive, that a
peer answers, that the ICE connection fails or that the application calls
anything. The waits for ReadyChan have no deadline in
the code, and none is assumed. `MediaPipeline!Fairness` lets
callbacks return except those in `Hung`. `PeerPair` has one condition for all
steps that goroutines take of their own accord (`Progress`): each of them takes
a session or a message forward and there are finitely many, so nothing that can
step waits for ever. Connecting, losing messages and breaking links are not in
it; relaying is: the fairness speaks of messages that are not lost.

## 6. Proofs

All theorems hold for every value of the constants, under the assumptions the
modules name: a placeholder (`NoSession`, `NoPeer`, `NoRequest`) is no member of
the set it extends, `Handlers` names known handlers, the queues
and the media channels have capacity at least one, requests without deadlines
are requests, there are two nodes in `PeerPair`, and requests fail as
`ErrorCodes` says.

`PeerSessionProofs`:

| theorem | property |
| --- | --- |
| `TypeCorrect` | `TypeOK` |
| `ChannelsClosedOnce` | `NoDoubleClose` |
| `RegistryIsSound` | `RegistrySound` |
| `DisconnectedIsInOrder` | `DisconnectedInOrder` |
| `FailureIsClean` | `FailureLeavesNothing` |
| `EntriesRemovedByOwner` | `OwnEntryOnly` |
| `RegistryImplemented` | `ImplementsRegistry` |

Their inductive invariant `IndInv` adds to `TypeOK` and `RegistrySound`, which
are not inductive, how the session's fields follow the goroutines that write
them: `ChannelsFollow` (ReadyChan is open until the establishment is decided,
the media channels until the teardown reaches them: hence no second close),
`UnregisteredAlone` (nobody resets, tears down or sends to a session that
`createSession` has not returned: hence no early `Delete`), `ConnFollows`,
`EstReset` (how far the failed establishment's reset has come, and what it has
closed) and `CallbacksFollow`. The module proves, action by action, that each
part is kept, and the properties follow from it.

`SignalingClientProofs`:

| theorem | property |
| --- | --- |
| `ClientTypeCorrect` | `TypeOK` |
| `OneGenerationAtATime` | `OneGeneration` |
| `OfflineUntilRegistered` | `OfflineWhileDown` |
| `WaitersAreReachable` | `WaitersReachable` |

`OneGeneration` and `OfflineWhileDown` are inductive by themselves.
`TypeOK` needs `HandsFull` (a goroutine that works on a message has one);
`WaitersReachable` needs `SentOnly` (only requests that have stored their entry
have a message on its way, so no response meets a channel before its entry) and
`FreshChannels`.

`NetworkingServProofs`:

| theorem | property |
| --- | --- |
| `TypeCorrect` | `TypeOK` |
| `LeavingIsThorough` | `LeftIsGone` |
| `KeepsRegistry` | `RegistrySteps` |
| `NoCircleOfCallbacks` | `NoCircularWait` |

The types need `Typing` (the sessions that calls and messages hold exist).
`SafeInv` adds `PastShape` (a session is in `past` once, exactly when its
teardown is past `Delete`), `RepoShape` (the entry of a user is a born session
of that user, not in `past`), `WorkShape` (what a call has found was born) and
`CallbackShape`: when a call inside a Disconnected callback has found sessions,
none of these was in `past` before the session whose callback it is. So a
session waits only for sessions later in `past` than itself, or not yet in it,
and the one whose place is last waits for none that waits: `NoCircleOfCallbacks`
is an argument by the well-foundedness of the positions, for callbacks and calls
in any number.

`MediaPipelineProofs`:

| theorem | property |
| --- | --- |
| `TypeCorrect` | `TypeOK` |
| `PipelinesKeepOrder` | `PipelineInOrder` |
| `NothingLostAtTheEnd` | `EndedDrained` |
| `EarlyHandlers` | `EarlyHandlerServed` |
| `CallbacksImplemented` | `ImplementsCallbacks` |

They hold for any capacity and any packets, by `PipelineInv`: the order, and
that a processor has a packet in hand exactly when busy and an empty, closed
channel when it has ended. The refinement needs `EnteredOnce` besides: what has
entered a channel has been handed over by its receiver, for good, so that no
packet enters twice. Then entering is `Accept`, `Take` is `Call`, `Finish` is
`Return`, closing a channel is `Close`, and every other step is invisible.
`EarlyHandlers` follows the registration into `eventHandler`: the loop that reads
events has it before it reads the first.

`PeerPairProofs` and `PeerPairBoundProofs`, for any number of sessions and
attempts:

| theorem | property |
| --- | --- |
| `TypeCorrect` | `TypeOK` |
| `OneLiveConnection` | `UpIsRegistered` |
| `EndsMeanEachOther` | `EndsAgree` |
| `AnswersEnd` | `AnswersDieOut` |

`OneLiveConnection` rests on `EnteredAreRegistered`: from `Register` to its end a
session is the entry under its user.

`EndsMeanEachOther` needs to know where credentials can be. `ExchangeShape` says
it: credentials are in one session, the one their message was for
(`RemoteShape`); a session that answers a message is being created for it, or
is the one its goroutine holds, or has had its connection (`ChildShape`); and a
message has a second answer only when the first had its connection
(`SiblingShape`). A handshake takes two sessions that have each other's
credentials, and no third that is connected can mean one of them: it would be a
second session of the same node that has been entered and not ended, which
`EnteredAreRegistered` excludes. Afterwards `SetRemote` does not touch them,
because the CREDS branch starts a session over once it has a connection
(`LinkedShape`).

`AnswersEnd` bounds the rows of answers by what it takes to make one. A message
in the air has at most the depth `Potential`: twice the number of sessions whose
connection is over, plus the number of nodes that have a session or are about
to (`DepthShape`). A goroutine answers only when its node has no session, and
then the node is taken afterwards, or when it replaces one whose connection is
over then. How many can be over? Two sessions make a connection, of which one is
a dialler, and from then on nothing answers what answers them (`PartnerShape`);
every attempt makes one dialler (`DialCount`). So at most two sessions for each
dialler that has been connected; and as soon as somebody has been answered twice
in a row, one dialler has not been (`DeepShape`). With two nodes that gives
`4 * connects - 2`. The rest is counting finite sets, with the
library's `FiniteSetTheorems`.

Only model-checked: the liveness properties, which rest on fairness, and the
five disagreements of section 7, which are counterexamples. Every invariant and
every action property of the passing runs is a theorem. `ErrorCodes` has no
state; its tables say how the requests of `NetworkingServ` may fail.

## 7. Where code and documentation disagree

* `establishment_deadline`: the README's table calls `EstablishConnTimeout` the
  "End-to-end peer connection establishment deadline". The select at
  `helpers.go:483` does not look at it; without credentials from the peer the
  establishment, and `Connect`, wait for good.
* `connected_after_leave`: `Disconnect` "Terminates all active peer sessions".
  A session left while it is being established can be announced as connected
  afterwards (`helpers.go:576`).
* `clean_close_redial`: "Exponential backoff reconnection for dropped signaling
  connections". A connection that the server closes with code 0, or whose
  control stream it ends, is not noticed (`helper.go:169`).
* `pending_channel_race`: "Thread-Safe". A response may be sent on a channel
  that `clearPendingResponses` has just closed (`helper.go:181`, `308`).
* `ice_reconnection`: "ICE-level reconnection for lost peer links". The
  reconnection follows a `resetSession` that runs in the agent's state callback
  (`helpers.go:275`) and whose `GracefulClose` (173) waits for that callback.
  Neither `Delete` (178) nor the reconnection (276-305) is reached; the lost
  session stays in the repository and keeps new ones out.

Behaviour that the models show and no document speaks against, or not plainly
enough for a run:

* Two users who connect to each other at once may both hold a session that
  dials (`helpers.go:506`): neither accepts, and both fail at their deadlines.
* An answer that arrives between `NewSDP` and `Add` finds no session and
  creates a second one; the first attempt is lost or takes longer.
* A CANDIDATE that arrives after its session has ended creates one that nobody
  answers, which stays until the service closes.
* After an ICE failure every other `GracefulClose` of the agent waits as well: a
  receive loop that starts the teardown does not get to `close`, `Delete` or
  Disconnected, and Disconnect, DisconnectById and the close function wait for
  it in `Closing.Do`.
* A request waits for room in `sendMsgs` without looking at `closeCtx`
  (`helper.go:353-357`): without a deadline, as in `DeleteFromSession`, it may
  hold up a Disconnect for good.
* Connect and ConnectById report 0, the README's "Operation executed
  successfully", also when their establishment has failed, because ReadyChan is
  closed in either case; a Connect that reports an error may leave an
  establishment behind that succeeds later.
* An event callback that is registered when the connection is up gets none of its
  events: it is loaded once per connection (`helpers.go:648`), although callbacks
  "can be registered either before or after establishing peer connections".
* The CREDS branch creates its replacement outside the single flight
  (`helpers.go:376`), possibly beside a leader; Add decides between them.
* `getSession` is shared by the goroutines of a flight: the context of the
  first decides for all.
* Events run in a goroutine each and may overtake one another; media callbacks
  may come after Disconnected, while the channels are drained.
* Code 8 of the signaling server becomes 9 of the API (`codeToError` does not
  know it); 4 to 7 of the API are produced by no path.

## 8. Not modelled

Candidates that an agent sends (`OnCandidate`): they are published and change no
state of this node. More than two nodes: sessions of different users are
independent but for Disconnect and Connect, which `NetworkingServ` has with two
users. The closing of `sendSDP` and `receiveSDP` at the end of the close
function, after `CloseConnection`, and `Init` but for its order. The reconnect
loop of the ICE callback (`helpers.go:276-305`), which no execution reaches. The
public API and the handlers beyond a call, its deadline's error and its code;
the C API, which wraps them.

Encryption (`e2ee`: cryptography without shared state; that it may fail is in
the model), events and wire formats (constructors), the packet connection
wrapper, logger and configuration, the commented-out commands. `Clear` of the
repository has no caller.

## 9. What could come next

1. `NetworkingServ` against `PeerSession`: today both implement
   `SessionRegistry` separately. A joint module, in which a caller's step is a
   step of `PeerSession`, would carry the theorems over.
2. The end of the application's life: the two SDP channels closed under
   `sendMsg`, `checkResp` and `receiveSDP`.
3. `PeerPair` with candidates and with nodes whose agent reports a failure.
4. Consequences of the abstract specifications, proved once of
   `SessionRegistry` and `MediaCallbacks` and carried over by the refinements;
   a tighter bound than `4 * connects - 2`, which the run does not reach.
