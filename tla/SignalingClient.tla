-------------------------- MODULE SignalingClient --------------------------
(***************************************************************************)
(* The client of the signaling server.  Run serves one QUIC connection     *)
(* after another; each is used by three goroutines (sendMsg, receiveSDP,   *)
(* receiveResponses) that report their errors to serveConnection.  Callers *)
(* put requests on the channel sendMsgs and wait on a channel of their own *)
(* in the map pendingResponses, which receiveResponses fills and which     *)
(* serveConnection closes when the connection is lost.                     *)
(*                                                                         *)
(* The server and the network are left open: any answer may be late or     *)
(* lost, the link may break or be closed by the server at any time.        *)
(***************************************************************************)
EXTENDS Naturals, Sequences, FiniteSets

CONSTANTS Requests,     \* calls of sendCommand, getPayload and sendPayload
          Background,   \* those made under a context without a deadline
          SendCap,      \* capacity of sendMsgs (App.SendSDPSize)
          SdpCap,       \* capacity of receiveSDPs (App.ReceiveSDPSize)
          NoRequest     \* no message in hand

ASSUME BackgroundAssumption == Background \subseteq Requests
ASSUME CapAssumption == SendCap \in Nat \ {0} /\ SdpCap \in Nat \ {0}
ASSUME NoRequestAssumption == NoRequest \notin Requests

VARIABLES run,        \* where Run and serveConnection are
          lostBy,     \* what ended the select of serveConnection
          toClear,    \* entries clearPendingResponses still has to visit
          cancelled,  \* connCtx has been cancelled by serveConnection
          errChan,    \* first error in errChan: "none", "ctx" or "error"
          fields,     \* sc.conn, ctrlStream, encoder, decoder are not nil
          online,     \* isOnline
          link,       \* "none", "up", "gone" (closed, code 0) or "broken"
          loop,       \* the three goroutines: "off", at a step, or "done"
          inHand,     \* message sendMsg sends, response receiveResponses has
          sendMsgs,   \* queued requests
          sdps,       \* number of messages in receiveSDPs
          consumer,   \* receiveConnects is still ranging over receiveSDPs
          req,        \* the state of each request
          pending,    \* keys of pendingResponses
          respChan,   \* each request's channel, with room for one response
          toServer,   \* requests on their way to the server, or there
          toClient,   \* answers on their way back
          closing,    \* closeCtx is cancelled
          panicked    \* the Go runtime panic that ended the process, if any

serving == <<run, lostBy, toClear, cancelled, fields, online>>
queues == <<sendMsgs, sdps, consumer>>
calls == <<req, pending, respChan>>
network == <<link, toServer, toClient>>
vars == <<serving, errChan, loop, inHand, queues, calls, network, closing,
          panicked>>

Loops == {"send", "sdp", "resp"}
LoopSteps == {"off", "check", "call", "wait", "read", "lookup", "deliver",
              "done"}
RunSteps == {"dial", "register", "serving", "clearing", "offline", "hangup",
             "forget", "join", "backoff", "stopped"}

\* A request is in flight between its Store and its deferred Delete.
InFlight == {"enqueue", "waiting"}
Answers == {"answered", "offline", "timeout", "closing"}
\* A channel closed over its response still yields it.
ChanStates == {"empty", "full", "closed", "fullClosed"}
ReqSteps == {"idle", "checked"} \cup InFlight \cup Answers

\* connCtx.Done(): cancelled itself, or through its parent closeCtx.
ConnCtxDone == cancelled \/ closing

Init ==
    /\ run = "dial"
    /\ lostBy = "none"
    /\ toClear = {}
    /\ cancelled = FALSE
    /\ errChan = "none"
    /\ fields = FALSE
    /\ online = TRUE              \* NewSignalingClient, before any dial
    /\ link = "none"
    /\ loop = [g \in Loops |-> "off"]
    /\ inHand = [g \in {"send", "resp"} |-> NoRequest]
    /\ sendMsgs = <<>>
    /\ sdps = 0
    /\ consumer = TRUE
    /\ req = [r \in Requests |-> "idle"]
    /\ pending = {}
    /\ respChan = [r \in Requests |-> "empty"]
    /\ toServer = {}
    /\ toClient = {}
    /\ closing = FALSE
    /\ panicked = "no"

-----------------------------------------------------------------------------
(* Run and serveConnection.                                                *)

\* A panic in any goroutine ends the process.
Alive == panicked = "no"

RunAt(step) == Alive /\ run = step

\* serveConnection has returned; Run stops when its context is cancelled.
ReturnTo == IF closing THEN "stopped" ELSE "backoff"

RunUnchanged ==
    UNCHANGED <<errChan, loop, inHand, queues, calls, closing, panicked>>

Redial ==
    /\ RunAt("backoff")
    /\ run' = IF closing THEN "stopped" ELSE "dial"
    /\ UNCHANGED <<lostBy, toClear, cancelled, fields, online, network>>
    /\ RunUnchanged

\* quic.DialAddr; what was on its way on an earlier connection is gone.
DialSucceeds ==
    /\ RunAt("dial") /\ ~closing
    /\ run' = "register"
    /\ link' = "up" /\ toServer' = {} /\ toClient' = {}
    /\ UNCHANGED <<lostBy, toClear, cancelled, fields, online>>
    /\ RunUnchanged

DialFails ==
    /\ RunAt("dial")
    /\ run' = ReturnTo
    /\ UNCHANGED <<lostBy, toClear, cancelled, fields, online, network>>
    /\ RunUnchanged

\* registerConnect succeeds; the three goroutines start on a new errChan.
Registered ==
    /\ RunAt("register") /\ link = "up"
    /\ run' = "serving"
    /\ fields' = TRUE
    /\ online' = TRUE
    /\ cancelled' = FALSE
    /\ errChan' = "none"
    /\ loop' = [g \in Loops |-> "check"]
    /\ UNCHANGED <<lostBy, toClear, inHand, queues, calls, network, closing,
                   panicked>>

\* registerConnect fails; the connection is closed.
RegisterFails ==
    /\ RunAt("register")
    /\ run' = ReturnTo
    /\ link' = "none" /\ toServer' = {} /\ toClient' = {}
    /\ UNCHANGED <<lostBy, toClear, cancelled, fields, online>>
    /\ RunUnchanged

\* Variant: serveConnection does not cancel connCtx before wg.Wait.
LoseConnectionUncancelled(why) ==
    /\ RunAt("serving")
    /\ why = errChan \/ (why = "ctx" /\ closing)
    /\ run' = "clearing"
    /\ lostBy' = why
    /\ toClear' = pending
    /\ UNCHANGED <<cancelled, fields, online, network>>
    /\ RunUnchanged

\* The select returns, connCtx is cancelled, clearPendingResponses begins.
LoseConnection(why) ==
    /\ RunAt("serving")
    /\ why = errChan \/ (why = "ctx" /\ closing)
    /\ run' = "clearing"
    /\ lostBy' = why
    /\ cancelled' = TRUE
    /\ toClear' = pending
    /\ UNCHANGED <<fields, online, network>>
    /\ RunUnchanged

\* Variants: the entry is closed but kept, or deleted but not closed.
ClearPendingKeeps(r) ==
    /\ RunAt("clearing")
    /\ r \in toClear
    /\ respChan' = [respChan EXCEPT ![r] = "closed"]
    /\ toClear' = toClear \ {r}
    /\ UNCHANGED <<run, lostBy, cancelled, fields, online, errChan, loop,
                   inHand, queues, req, pending, network, closing, panicked>>

ClearPendingUnclosed(r) ==
    /\ RunAt("clearing")
    /\ r \in pending
    /\ pending' = pending \ {r}
    /\ toClear' = toClear \ {r}
    /\ UNCHANGED <<run, lostBy, cancelled, fields, online, errChan, loop,
                   inHand, queues, req, respChan, network, closing, panicked>>

\* One entry: close(respChan), then Delete.  Range may or may not visit an
\* entry stored after it began.
ClearPending(r) ==
    /\ RunAt("clearing")
    /\ r \in pending
    /\ respChan' = [respChan EXCEPT ![r] =
                        IF @ = "full" THEN "fullClosed" ELSE "closed"]
    /\ pending' = pending \ {r}
    /\ toClear' = toClear \ {r}
    /\ UNCHANGED <<run, lostBy, cancelled, fields, online, errChan, loop,
                   inHand, queues, req, network, closing, panicked>>

ClearingDone ==
    /\ RunAt("clearing")
    /\ toClear \cap pending = {}
    /\ run' = "offline"
    /\ toClear' = {}
    /\ UNCHANGED <<lostBy, cancelled, fields, online, network>>
    /\ RunUnchanged

\* Variant: isOnline is left as it is.
GoOfflineForgotten ==
    /\ RunAt("offline")
    /\ run' = IF lostBy = "error" THEN "hangup" ELSE "join"
    /\ UNCHANGED <<lostBy, toClear, cancelled, fields, online, network>>
    /\ RunUnchanged

\* isOnline.Store(false).  Only an error makes serveConnection close the
\* connection itself: errors.Is(ferr, ctx.Err()) leaves it to the application.
GoOffline ==
    /\ RunAt("offline")
    /\ run' = IF lostBy = "error" THEN "hangup" ELSE "join"
    /\ online' = FALSE
    /\ UNCHANGED <<lostBy, toClear, cancelled, fields, network>>
    /\ RunUnchanged

HangUp ==
    /\ RunAt("hangup")
    /\ run' = "forget"
    /\ link' = IF link = "up" THEN "gone" ELSE link
    /\ UNCHANGED <<lostBy, toClear, cancelled, fields, online, toServer, toClient>>
    /\ RunUnchanged

\* conn, ctrlStream, encoder and decoder become nil, before wg.Wait.
ForgetStreams ==
    /\ RunAt("forget")
    /\ run' = "join"
    /\ fields' = FALSE
    /\ UNCHANGED <<lostBy, toClear, cancelled, online, network>>
    /\ RunUnchanged

\* Variant: Run goes on without wg.Wait.
JoinUnwaited ==
    /\ RunAt("join")
    /\ run' = ReturnTo
    /\ UNCHANGED <<lostBy, toClear, cancelled, fields, online, network>>
    /\ RunUnchanged

\* wg.Wait returns.
Join ==
    /\ RunAt("join")
    /\ \A g \in Loops : loop[g] = "done"
    /\ run' = ReturnTo
    /\ UNCHANGED <<lostBy, toClear, cancelled, fields, online, network>>
    /\ RunUnchanged

-----------------------------------------------------------------------------
(* The three goroutines.  A goroutine's error goes to errChan, whose       *)
(* capacity is three, so that none blocks there and the first counts.      *)
(* CheckErr makes a nil of the error of a connection that was closed with  *)
(* code 0, of the end of a stream, and of a cancelled context.             *)

LoopGoto(g, from, to) ==
    Alive /\ loop[g] = from /\ loop' = [loop EXCEPT ![g] = to]

LoopUnchanged == UNCHANGED <<serving, closing>>

\* The goroutine returns err ("none" for nil).
Exit(g, from, err) ==
    /\ LoopGoto(g, from, "done")
    /\ errChan' = IF errChan = "none" THEN err ELSE errChan
    /\ UNCHANGED <<inHand, queues, calls, network, panicked>>
    /\ LoopUnchanged

\* A field that serveConnection has set to nil is dereferenced.
UseStream(g) ==
    /\ LoopGoto(g, "call", "wait")
    /\ panicked' = IF fields THEN panicked ELSE "nilPointer"
    /\ UNCHANGED <<errChan, inHand, queues, calls, network>>
    /\ LoopUnchanged

\* receiveSDP and receiveResponses look at connCtx before each turn.
CheckContext(g) ==
    /\ g \in {"sdp", "resp"}
    /\ IF ConnCtxDone
       THEN Exit(g, "check", "ctx")
       ELSE /\ LoopGoto(g, "check", "call")
            /\ UNCHANGED <<errChan, inHand, queues, calls, network, panicked>>
            /\ LoopUnchanged

\* sendMsg selects between the context and the next message.
SenderStops == ConnCtxDone /\ Exit("send", "check", "ctx")

TakeMessage ==
    /\ sendMsgs # <<>>
    /\ LoopGoto("send", "check", "call")
    /\ inHand' = [inHand EXCEPT !["send"] = Head(sendMsgs)]
    /\ sendMsgs' = Tail(sendMsgs)
    /\ UNCHANGED <<errChan, sdps, consumer, calls, network, panicked>>
    /\ LoopUnchanged

\* Encode.  On a connection closed with code 0 the error becomes nil and the
\* break only leaves the select: the message is dropped and the loop goes on.
SendMessage ==
    /\ link \in {"up", "gone"}
    /\ LoopGoto("send", "wait", "check")
    /\ toServer' = IF link = "up" THEN toServer \cup {inHand["send"]} ELSE toServer
    /\ inHand' = [inHand EXCEPT !["send"] = NoRequest]
    /\ UNCHANGED <<errChan, queues, calls, link, toClient, panicked>>
    /\ LoopUnchanged

SendBreaks ==
    /\ link = "broken"
    /\ LoopGoto("send", "wait", "done")
    /\ errChan' = IF errChan = "none" THEN "error" ELSE errChan
    /\ inHand' = [inHand EXCEPT !["send"] = NoRequest]
    /\ UNCHANGED <<queues, calls, network, panicked>>
    /\ LoopUnchanged

\* The server opens a stream for a message ...
AcceptSdp ==
    /\ link = "up"
    /\ LoopGoto("sdp", "wait", "read")
    /\ UNCHANGED <<errChan, inHand, queues, calls, network, panicked>>
    /\ LoopUnchanged

\* ... and sends it to its end, well formed.
ReadSdp ==
    /\ link = "up"
    /\ LoopGoto("sdp", "read", "deliver")
    /\ UNCHANGED <<errChan, inHand, queues, calls, network, panicked>>
    /\ LoopUnchanged

\* It is not, or the server resets the stream.
MalformedSdp == link = "up" /\ Exit("sdp", "read", "error")

\* Accept returns on a cancelled context or a closed connection, ReadAll on a
\* closed connection only: nil.
SdpStops ==
    \/ (ConnCtxDone \/ link = "gone") /\ Exit("sdp", "wait", "none")
    \/ link = "gone" /\ Exit("sdp", "read", "none")

SdpBreaks ==
    link = "broken" /\ \E from \in {"wait", "read"} : Exit("sdp", from, "error")

\* The send on receiveSDPs blocks when the channel is full, whatever the
\* context says.
DeliverSdp ==
    /\ sdps < SdpCap
    /\ LoopGoto("sdp", "deliver", "check")
    /\ sdps' = sdps + 1
    /\ UNCHANGED <<errChan, inHand, sendMsgs, consumer, calls, network, panicked>>
    /\ LoopUnchanged

\* Decode yields a response; one already buffered even after the link is lost.
DecodeResponse(r) ==
    /\ r \in toClient
    /\ LoopGoto("resp", "wait", "lookup")
    /\ toClient' = toClient \ {r}
    /\ inHand' = [inHand EXCEPT !["resp"] = r]
    /\ UNCHANGED <<errChan, queues, calls, link, toServer, panicked>>
    /\ LoopUnchanged

\* The connection was closed with code 0, or the server has ended the control
\* stream: the break leaves the loop and the goroutine returns no error.
ResponsesStop == link = "gone" /\ Exit("resp", "wait", "none")
ControlStreamEnds == link = "up" /\ Exit("resp", "wait", "none")

\* What the server sends on it cannot be decoded, or it resets the stream.
MalformedResponse == link = "up" /\ Exit("resp", "wait", "error")

ResponsesBreak == link = "broken" /\ Exit("resp", "wait", "error")

\* pendingResponses.Load; an unknown id is dropped.
LookUp ==
    LET found == inHand["resp"] \in pending IN
    /\ LoopGoto("resp", "lookup", IF found THEN "deliver" ELSE "check")
    /\ inHand' = [inHand EXCEPT !["resp"] = IF found THEN @ ELSE NoRequest]
    /\ UNCHANGED <<errChan, queues, calls, network, panicked>>
    /\ LoopUnchanged

\* reqChan <- responseMsg, on the channel loaded a moment ago.
DeliverResponse ==
    LET r == inHand["resp"] IN
    /\ LoopGoto("resp", "deliver", "check")
    /\ respChan[r] # "full"
    /\ inHand' = [inHand EXCEPT !["resp"] = NoRequest]
    /\ IF respChan[r] = "empty"
       THEN respChan' = [respChan EXCEPT ![r] = "full"] /\ UNCHANGED panicked
       ELSE panicked' = "closedChannel" /\ UNCHANGED respChan
    /\ UNCHANGED <<errChan, queues, req, pending, network>>
    /\ LoopUnchanged

-----------------------------------------------------------------------------
(* Requests.                                                               *)

ReqGoto(r, from, to) ==
    Alive /\ req[r] = from /\ req' = [req EXCEPT ![r] = to]

ReqUnchanged == UNCHANGED <<serving, errChan, loop, inHand, sdps, consumer,
                            network, closing, panicked>>

\* The check of isOnline.
Begin(r) ==
    /\ ReqGoto(r, "idle", IF online THEN "checked" ELSE "offline")
    /\ UNCHANGED <<pending, respChan, sendMsgs>>
    /\ ReqUnchanged

\* pendingResponses.Store of a new channel.
StorePending(r) ==
    /\ ReqGoto(r, "checked", "enqueue")
    /\ pending' = pending \cup {r}
    /\ UNCHANGED <<respChan, sendMsgs>>
    /\ ReqUnchanged

\* Variant: the queue has no bound.
EnqueueUnbounded(r) ==
    /\ ReqGoto(r, "enqueue", "waiting")
    /\ sendMsgs' = Append(sendMsgs, r)
    /\ UNCHANGED <<pending, respChan>>
    /\ ReqUnchanged

\* sendMsgs <- msg.
Enqueue(r) ==
    /\ Len(sendMsgs) < SendCap
    /\ ReqGoto(r, "enqueue", "waiting")
    /\ sendMsgs' = Append(sendMsgs, r)
    /\ UNCHANGED <<pending, respChan>>
    /\ ReqUnchanged

\* checkResp returns and the deferred Delete runs.
Finish(r, from, answer) ==
    /\ ReqGoto(r, from, answer)
    /\ pending' = pending \ {r}
    /\ UNCHANGED <<respChan, sendMsgs>>
    /\ ReqUnchanged

\* The response, or the closed channel.
Receive(r) ==
    \/ respChan[r] \in {"full", "fullClosed"} /\ Finish(r, "waiting", "answered")
    \/ respChan[r] = "closed" /\ Finish(r, "waiting", "offline")

\* The caller's deadline, in either select.
TimeOut(r) ==
    /\ r \notin Background
    /\ \E from \in InFlight : Finish(r, from, "timeout")

\* closeCtx, a case of the second select only.
SeeClosing(r) == closing /\ Finish(r, "waiting", "closing")

-----------------------------------------------------------------------------
(* The server, the network, the rest of the application.                   *)

ServerAnswers(r) ==
    /\ Alive
    /\ r \in toServer /\ link = "up"
    /\ toServer' = toServer \ {r}
    /\ toClient' = toClient \cup {r}
    /\ UNCHANGED <<serving, errChan, loop, inHand, queues, calls, link,
                   closing, panicked>>

\* The link is lost: an idle timeout or a reset ("broken"), or the server
\* closes the connection with code 0 ("gone").
LinkEnds(how) ==
    /\ Alive
    /\ link = "up"
    /\ link' = how
    /\ UNCHANGED <<serving, errChan, loop, inHand, queues, calls, toServer,
                   toClient, closing, panicked>>

\* receiveConnects takes a message, and returns if closeCtx is cancelled.
ConsumeSdp ==
    /\ Alive
    /\ consumer /\ sdps > 0
    /\ sdps' = sdps - 1
    /\ consumer' = ~closing
    /\ UNCHANGED <<serving, errChan, loop, inHand, sendMsgs, calls, network,
                   closing, panicked>>

\* The application's close function: cancel() ...
CloseApp ==
    /\ Alive /\ ~closing
    /\ closing' = TRUE
    /\ UNCHANGED <<serving, errChan, loop, inHand, queues, calls, network,
                   panicked>>

\* ... and, when Disconnect has returned, CloseConnection.
AppClosesConnection ==
    /\ Alive /\ closing
    /\ link = "up"
    /\ link' = "gone"
    /\ UNCHANGED <<serving, errChan, loop, inHand, queues, calls, toServer,
                   toClient, closing, panicked>>

-----------------------------------------------------------------------------
RunStep ==
    \/ Redial \/ DialSucceeds \/ DialFails \/ Registered \/ RegisterFails
    \/ \E why \in {"ctx", "error"} : LoseConnection(why)
    \/ \E r \in Requests : ClearPending(r)
    \/ ClearingDone \/ GoOffline \/ HangUp \/ ForgetStreams \/ Join

Sender == UseStream("send") \/ SenderStops \/ TakeMessage \/ SendMessage \/ SendBreaks

\* What ends receiveSDP's wait without a message from the server.
SdpWakes == SdpStops \/ SdpBreaks

SdpReceiver ==
    \/ CheckContext("sdp") \/ UseStream("sdp")
    \/ AcceptSdp \/ ReadSdp \/ MalformedSdp \/ SdpWakes \/ DeliverSdp

\* receiveResponses, what the server does to the control stream apart.
ResponseWork ==
    \/ CheckContext("resp") \/ UseStream("resp")
    \/ \E r \in Requests : DecodeResponse(r)
    \/ ResponsesStop \/ ResponsesBreak \/ LookUp \/ DeliverResponse

ResponseReceiver == ResponseWork \/ ControlStreamEnds \/ MalformedResponse

Request(r) ==
    \/ Begin(r) \/ StorePending(r) \/ Enqueue(r)
    \/ Receive(r) \/ TimeOut(r) \/ SeeClosing(r)

World ==
    \/ \E r \in Requests : ServerAnswers(r)
    \/ \E how \in {"gone", "broken"} : LinkEnds(how)
    \/ ConsumeSdp \/ CloseApp \/ AppClosesConnection

Next ==
    \/ RunStep \/ Sender \/ SdpReceiver \/ ResponseReceiver
    \/ \E r \in Requests : Request(r)
    \/ World

Spec == Init /\ [][Next]_vars

(***************************************************************************)
(* Fairness: goroutines that can run do; the exponential backoff, the dial *)
(* and the registration end; a caller with a deadline does not outlive it; *)
(* receiveConnects keeps up while the application runs.  Not assumed: that *)
(* the server answers, pushes, ends a message it has begun or closes       *)
(* anything, that the application makes requests or ever closes its        *)
(* connection.                                                             *)
(***************************************************************************)
Fairness ==
    /\ WF_vars(RunStep)
    /\ WF_vars(Sender)
    /\ WF_vars(CheckContext("sdp") \/ UseStream("sdp") \/ SdpWakes \/ DeliverSdp)
    /\ WF_vars(ResponseWork)
    /\ WF_vars(ConsumeSdp)
    /\ \A r \in Requests : WF_vars(Receive(r) \/ TimeOut(r) \/ SeeClosing(r))

FairSpec == Spec /\ Fairness

-----------------------------------------------------------------------------
(* Safety.                                                                 *)

TypeOK ==
    /\ run \in RunSteps
    /\ lostBy \in {"none", "ctx", "error"}
    /\ toClear \subseteq Requests
    /\ errChan \in {"none", "ctx", "error"}
    /\ {cancelled, fields, online, consumer, closing} \subseteq BOOLEAN
    /\ link \in {"none", "up", "gone", "broken"}
    /\ loop \in [Loops -> LoopSteps]
    /\ inHand \in [{"send", "resp"} -> Requests \cup {NoRequest}]
    /\ sendMsgs \in Seq(Requests) /\ Len(sendMsgs) <= SendCap
    /\ sdps \in 0..SdpCap
    /\ req \in [Requests -> ReqSteps]
    /\ pending \subseteq Requests
    /\ respChan \in [Requests -> ChanStates]
    /\ toServer \subseteq Requests
    /\ toClient \subseteq Requests
    /\ panicked \in {"no", "closedChannel", "nilPointer"}

\* The goroutines of one connection are gone before the next is dialled: no
\* reader of a dead connection can consume what belongs to its successor,
\* and two senders never share sendMsgs.
OneGeneration ==
    run \in {"dial", "register", "backoff", "stopped"} =>
        \A g \in Loops : loop[g] \in {"off", "done"}

\* A caller that waits on its channel can still be reached there: until the
\* channel is closed its entry stays in pendingResponses, where the answer
\* or the loss of the connection finds it, and no entry outlives its call.
WaitersReachable ==
    \A r \in Requests :
        r \in pending <=> (req[r] \in InFlight
                             /\ respChan[r] \in {"empty", "full"})

\* Once a connection has been lost the client calls itself offline until it
\* is registered again, however the loss and the reconnection interleave.
OfflineWhileDown ==
    lostBy # "none" /\ run \in RunSteps \ {"serving", "clearing", "offline"}
        => ~online

-----------------------------------------------------------------------------
(* Liveness, under FairSpec.                                               *)

\* A connection that breaks is replaced: its goroutines notice, end, and the
\* client dials again (or the application closes, or the process is dead).
BrokenLinkRedialled ==
    (run = "serving" /\ link = "broken")
        ~> (run = "dial" \/ closing \/ ~Alive)

\* A call that waits for its response, deadline or not, returns when the
\* connection is lost with its entry in the map, and when the application
\* closes: whatever became of its message and of the server's answer.
CallsReturn ==
    \A r \in Requests :
        (req[r] = "waiting" /\ (closing \/ (run = "clearing" /\ r \in toClear)))
            ~> (req[r] \in Answers \/ ~Alive)

-----------------------------------------------------------------------------
(* What the documentation says and the code does not do.                   *)

\* README: "Auto-Reconnect: exponential backoff reconnection for dropped
\* signaling connections", so also for one that the server has closed.
ClosedLinkRedialled ==
    (run = "serving" /\ link = "gone")
        ~> (run = "dial" \/ closing \/ ~Alive)

\* README: "Thread-Safe", with sync.Map for internal storage: the goroutines
\* that share pendingResponses do not bring the process down.
NoSendOnClosedChannel == panicked # "closedChannel"
=============================================================================
