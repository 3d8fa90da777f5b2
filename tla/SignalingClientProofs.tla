----------------------- MODULE SignalingClientProofs -----------------------
(***************************************************************************)
(* The safety properties of SignalingClient, for every set of requests,    *)
(* with and without deadlines, and every capacity of the two queues.       *)
(***************************************************************************)
EXTENDS SignalingClient, TLAPS

-----------------------------------------------------------------------------
(* The inductive invariant.                                                *)

\* A goroutine that works on a message has one in hand.
HandsFull ==
    /\ loop["send"] \in {"call", "wait"} => inHand["send"] \in Requests
    /\ loop["resp"] \in {"lookup", "deliver"} => inHand["resp"] \in Requests

\* A request that has not put its message on the queue yet.
Early == {"idle", "checked"}

\* Only requests that have come to their enqueueing are on their way: in the
\* queue, in a goroutine's hand, at the server, or answered.
SentOnly ==
    /\ \A i \in 1..Len(sendMsgs) : req[sendMsgs[i]] \notin Early
    /\ \A g \in {"send", "resp"} :
          inHand[g] \in Requests => req[inHand[g]] \notin Early
    /\ \A r \in toServer \cup toClient : req[r] \notin Early

\* The channel of a request that has not been stored is still empty.
FreshChannels ==
    \A r \in Requests : req[r] \in Early => respChan[r] = "empty"

-----------------------------------------------------------------------------
(* Type correctness.                                                       *)

\* The invariant of this section: types, and no goroutine empty-handed.
Typing == TypeOK /\ HandsFull

\* The initial values have their types.
LEMMA TypingInit == Init => Typing
<1> SUFFICES ASSUME Init PROVE Typing
  OBVIOUS
<1>1. sendMsgs \in Seq(Requests) /\ Len(sendMsgs) <= SendCap
  BY CapAssumption DEF Init
<1>2. sdps \in 0..SdpCap
  BY CapAssumption DEF Init
<1>3. {cancelled, fields, online, consumer, closing} \subseteq BOOLEAN
  BY DEF Init
<1>4. HandsFull
  BY DEF Init, HandsFull, Loops
<1> QED
  BY <1>1, <1>2, <1>3, <1>4
  DEF Init, Typing, TypeOK, RunSteps, Loops, LoopSteps, ReqSteps, ChanStates

\* A goroutine that returns, or goes on without a message, keeps the types.
LEMMA TypingExit ==
    ASSUME Typing, NEW g \in Loops, NEW from \in LoopSteps,
           NEW err \in {"none", "ctx", "error"}, Exit(g, from, err)
    PROVE  Typing'
BY DEF Exit, LoopGoto, LoopUnchanged, Typing, TypeOK, HandsFull, Loops,
   LoopSteps, serving, queues, calls, network

\* Every step of Run and serveConnection keeps the types.
LEMMA TypingRun == Typing /\ RunStep => Typing'
<1> SUFFICES ASSUME Typing, RunStep PROVE Typing'
  OBVIOUS
<1> USE DEF Typing, TypeOK, HandsFull, RunAt, RunUnchanged, RunSteps,
            queues, calls, network
<1>1. CASE Redial
  BY <1>1 DEF Redial
<1>2. CASE DialSucceeds
  BY <1>2 DEF DialSucceeds
<1>3. CASE DialFails
  BY <1>3 DEF DialFails, ReturnTo
<1>4. CASE Registered
  BY <1>4 DEF Registered, Loops, LoopSteps
<1>5. CASE RegisterFails
  BY <1>5 DEF RegisterFails, ReturnTo
<1>6. ASSUME NEW why \in {"ctx", "error"}, LoseConnection(why) PROVE Typing'
  BY <1>6 DEF LoseConnection
<1>7. ASSUME NEW r \in Requests, ClearPending(r) PROVE Typing'
  BY <1>7 DEF ClearPending, ChanStates
<1>8. CASE ClearingDone
  BY <1>8 DEF ClearingDone
<1>9. CASE GoOffline
  BY <1>9 DEF GoOffline
<1>10. CASE HangUp
  BY <1>10 DEF HangUp
<1>11. CASE ForgetStreams
  BY <1>11 DEF ForgetStreams
<1>12. CASE Join
  BY <1>12 DEF Join, ReturnTo
<1> QED
  BY <1>1, <1>2, <1>3, <1>4, <1>5, <1>6, <1>7, <1>8, <1>9, <1>10, <1>11,
     <1>12 DEF RunStep

\* Every step of the three goroutines keeps the types.
LEMMA TypingLoops ==
    Typing /\ (Sender \/ SdpReceiver \/ ResponseReceiver) => Typing'
<1> SUFFICES ASSUME Typing, Sender \/ SdpReceiver \/ ResponseReceiver
             PROVE  Typing'
  OBVIOUS
<1> USE DEF LoopUnchanged, serving, queues, calls, network
<1>1. ASSUME NEW g \in Loops, UseStream(g) PROVE Typing'
  BY <1>1 DEF UseStream, LoopGoto, Typing, TypeOK, HandsFull, Loops, LoopSteps
<1>2. ASSUME NEW g \in Loops, CheckContext(g) PROVE Typing'
  <2>1. CASE ConnCtxDone
    BY <1>2, <2>1, TypingExit DEF CheckContext, LoopSteps
  <2>2. CASE ~ConnCtxDone
    BY <1>2, <2>2 DEF CheckContext, LoopGoto, Typing, TypeOK, HandsFull, Loops,
       LoopSteps
  <2> QED
    BY <2>1, <2>2
<1>3. CASE SenderStops
  BY <1>3, TypingExit DEF SenderStops, Loops, LoopSteps
<1>4. CASE TakeMessage
  <2>1. Head(sendMsgs) \in Requests /\ sendMsgs' \in Seq(Requests)
    BY <1>4 DEF TakeMessage, Typing, TypeOK
  <2>2. Len(sendMsgs') <= SendCap
    BY <1>4, CapAssumption DEF TakeMessage, Typing, TypeOK
  <2> QED
    BY <1>4, <2>1, <2>2
    DEF TakeMessage, LoopGoto, Typing, TypeOK, HandsFull, Loops, LoopSteps
<1>5. CASE SendMessage
  BY <1>5 DEF SendMessage, LoopGoto, Typing, TypeOK, HandsFull, Loops, LoopSteps
<1>6. CASE SendBreaks
  BY <1>6 DEF SendBreaks, LoopGoto, Typing, TypeOK, HandsFull, Loops, LoopSteps
<1>7. CASE AcceptSdp \/ ReadSdp
  BY <1>7 DEF AcceptSdp, ReadSdp, LoopGoto, Typing, TypeOK, HandsFull, Loops, LoopSteps
<1>8. CASE MalformedSdp
  BY <1>8, TypingExit DEF MalformedSdp, Loops, LoopSteps
<1>9. CASE SdpStops
  BY <1>9, TypingExit DEF SdpStops, Loops, LoopSteps
<1>10. CASE SdpBreaks
  BY <1>10, TypingExit DEF SdpBreaks, Loops, LoopSteps
<1>11. CASE DeliverSdp
  BY <1>11, CapAssumption
  DEF DeliverSdp, LoopGoto, Typing, TypeOK, HandsFull, Loops, LoopSteps
<1>12. ASSUME NEW r \in Requests, DecodeResponse(r) PROVE Typing'
  BY <1>12
  DEF DecodeResponse, LoopGoto, Typing, TypeOK, HandsFull, Loops, LoopSteps
<1>13. CASE ResponsesStop
  BY <1>13, TypingExit DEF ResponsesStop, Loops, LoopSteps
<1>14. CASE ResponsesBreak
  BY <1>14, TypingExit DEF ResponsesBreak, Loops, LoopSteps
<1>15. CASE LookUp
  BY <1>15 DEF LookUp, LoopGoto, Typing, TypeOK, HandsFull, Loops, LoopSteps
<1>16. CASE DeliverResponse
  BY <1>16
  DEF DeliverResponse, LoopGoto, Typing, TypeOK, HandsFull, Loops, LoopSteps,
      ChanStates
<1>17. CASE ControlStreamEnds
  BY <1>17, TypingExit DEF ControlStreamEnds, Loops, LoopSteps
<1>18. CASE MalformedResponse
  BY <1>18, TypingExit DEF MalformedResponse, Loops, LoopSteps
<1> QED
  BY <1>1, <1>2, <1>3, <1>4, <1>5, <1>6, <1>7, <1>8, <1>9, <1>10, <1>11,
     <1>12, <1>13, <1>14, <1>15, <1>16, <1>17, <1>18
  DEF Sender, SdpReceiver, SdpWakes, ResponseReceiver, ResponseWork, Loops

\* Every step of a request keeps the types.
LEMMA TypingRequest ==
    ASSUME Typing, NEW r \in Requests, Request(r)
    PROVE  Typing'
<1> USE DEF Typing, TypeOK, HandsFull, ReqGoto, ReqUnchanged, ReqSteps,
            InFlight, Answers, serving, network
<1>1. CASE Begin(r)
  BY <1>1 DEF Begin
<1>2. CASE StorePending(r)
  BY <1>2 DEF StorePending
<1>3. CASE Enqueue(r)
  <2>1. Len(sendMsgs') = Len(sendMsgs) + 1 /\ sendMsgs' \in Seq(Requests)
    BY <1>3 DEF Enqueue
  <2> QED
    BY <1>3, <2>1, CapAssumption DEF Enqueue
<1>4. ASSUME NEW from \in InFlight, NEW answer \in Answers,
             Finish(r, from, answer)
      PROVE  Typing'
  BY <1>4 DEF Finish
<1> QED
  BY <1>1, <1>2, <1>3, <1>4 DEF Request, Receive, TimeOut, SeeClosing

\* Every step outside the client keeps the types.
LEMMA TypingWorld == Typing /\ World => Typing'
<1> SUFFICES ASSUME Typing, World PROVE Typing'
  OBVIOUS
<1> USE DEF Typing, TypeOK, HandsFull, serving, queues, calls, network
<1>1. ASSUME NEW r \in Requests, ServerAnswers(r) PROVE Typing'
  BY <1>1 DEF ServerAnswers
<1>2. ASSUME NEW how \in {"gone", "broken"}, LinkEnds(how) PROVE Typing'
  BY <1>2 DEF LinkEnds
<1>3. CASE ConsumeSdp
  BY <1>3, CapAssumption DEF ConsumeSdp
<1>4. CASE CloseApp
  BY <1>4 DEF CloseApp
<1>5. CASE AppClosesConnection
  BY <1>5 DEF AppClosesConnection
<1> QED
  BY <1>1, <1>2, <1>3, <1>4, <1>5 DEF World

\* Every step keeps the types.
LEMMA TypingStep == Typing /\ [Next]_vars => Typing'
<1>1. Typing /\ UNCHANGED vars => Typing'
  BY DEF Typing, TypeOK, HandsFull, vars, serving, queues, calls, network
<1> QED
  BY <1>1, TypingRun, TypingLoops, TypingRequest, TypingWorld DEF Next

\* Every variable keeps its type, and both queues their bounds.
THEOREM ClientTypeCorrect == Spec => []TypeOK
<1>1. Typing /\ [Next]_vars => Typing'
  BY TypingStep
<1>2. Typing => TypeOK
  BY DEF Typing
<1> QED
  BY <1>1, <1>2, TypingInit, PTL DEF Spec
-----------------------------------------------------------------------------
(* One connection at a time, and offline between two of them.              *)

\* Goroutines start when a connection is registered and Run goes on when
\* they are done; nothing else moves run into or out of the idle steps.
LEMMA OneGenerationStep == OneGeneration /\ [Next]_vars => OneGeneration'
<1> SUFFICES ASSUME OneGeneration, [Next]_vars PROVE OneGeneration'
  OBVIOUS
<1> USE DEF OneGeneration
<1>1. CASE UNCHANGED vars
  BY <1>1 DEF vars, serving
<1>2. CASE RunStep
  BY <1>2
  DEF RunStep, RunAt, RunUnchanged, ReturnTo, Redial, DialSucceeds, DialFails,
      Registered, RegisterFails, LoseConnection, ClearPending, ClearingDone,
      GoOffline, HangUp, ForgetStreams, Join
<1>3. ASSUME NEW g \in Loops, NEW from \in LoopSteps \ {"off", "done"},
             NEW to \in LoopSteps, LoopGoto(g, from, to), run' = run
      PROVE  OneGeneration'
  BY <1>3 DEF LoopGoto
<1>4. CASE Sender
  BY <1>3, <1>4
  DEF Sender, UseStream, SenderStops, TakeMessage, SendMessage, SendBreaks,
      Exit, LoopUnchanged, serving, Loops, LoopSteps
<1>5. CASE SdpReceiver
  BY <1>3, <1>5
  DEF SdpReceiver, CheckContext, UseStream, AcceptSdp, ReadSdp, MalformedSdp, SdpWakes,
      SdpStops, SdpBreaks, DeliverSdp, Exit, LoopUnchanged, serving, Loops,
      LoopSteps
<1>6. CASE ResponseReceiver
  BY <1>3, <1>6
  DEF ResponseReceiver, ResponseWork, CheckContext, UseStream, DecodeResponse,
      ResponsesStop, ResponsesBreak, LookUp, DeliverResponse,
      ControlStreamEnds, MalformedResponse, Exit, LoopUnchanged, serving,
      Loops, LoopSteps
<1>7. ASSUME NEW r \in Requests, Request(r) PROVE OneGeneration'
  BY <1>7
  DEF Request, Begin, StorePending, Enqueue, Receive, TimeOut, SeeClosing,
      Finish, ReqUnchanged, serving
<1>8. CASE World
  BY <1>8
  DEF World, ServerAnswers, LinkEnds, ConsumeSdp, CloseApp,
      AppClosesConnection, serving
<1> QED
  BY <1>1, <1>2, <1>4, <1>5, <1>6, <1>7, <1>8 DEF Next

\* wg.Wait keeps the goroutines of two connections apart: the next one is
\* dialled when those of the last have ended.
THEOREM OneGenerationAtATime == Spec => []OneGeneration
<1>1. Init => OneGeneration
  BY DEF Init, OneGeneration
<1> QED
  BY <1>1, OneGenerationStep, PTL DEF Spec

\* Only serveConnection touches run, lostBy and online.
LEMMA OfflineStep == OfflineWhileDown /\ [Next]_vars => OfflineWhileDown'
<1> SUFFICES ASSUME OfflineWhileDown, [Next]_vars PROVE OfflineWhileDown'
  OBVIOUS
<1> USE DEF OfflineWhileDown, RunSteps
<1>1. CASE UNCHANGED serving
  BY <1>1 DEF serving
<1>2. CASE RunStep
  BY <1>2
  DEF RunStep, RunAt, RunUnchanged, ReturnTo, Redial, DialSucceeds, DialFails,
      Registered, RegisterFails, LoseConnection, ClearPending, ClearingDone,
      GoOffline, HangUp, ForgetStreams, Join
<1>3. Sender \/ SdpReceiver \/ ResponseReceiver => UNCHANGED serving
  BY DEF Sender, SdpReceiver, ResponseReceiver, ResponseWork, CheckContext,
     UseStream, SenderStops, TakeMessage, SendMessage, SendBreaks, AcceptSdp, ReadSdp,
     MalformedSdp, SdpWakes, SdpStops, SdpBreaks, DeliverSdp, DecodeResponse,
     ResponsesStop, ResponsesBreak, LookUp, DeliverResponse,
     ControlStreamEnds, MalformedResponse, Exit, LoopUnchanged
<1>4. ASSUME NEW r \in Requests, Request(r) PROVE UNCHANGED serving
  BY <1>4
  DEF Request, Begin, StorePending, Enqueue, Receive, TimeOut, SeeClosing,
      Finish, ReqUnchanged
<1>5. World => UNCHANGED serving
  BY DEF World, ServerAnswers, LinkEnds, ConsumeSdp, CloseApp,
     AppClosesConnection
<1> QED
  BY <1>1, <1>2, <1>3, <1>4, <1>5 DEF Next, vars

\* From the loss of a connection to the registration of the next the client
\* says that it is offline.
THEOREM OfflineUntilRegistered == Spec => []OfflineWhileDown
<1>1. Init => OfflineWhileDown
  BY DEF Init, OfflineWhileDown
<1> QED
  BY <1>1, OfflineStep, PTL DEF Spec

-----------------------------------------------------------------------------
(* The map of pending responses.                                           *)

\* Requests and their channels, as far as the callers and the messages on
\* their way are concerned.
Calls == SentOnly /\ FreshChannels /\ WaitersReachable

LEMMA CallsInit == Init => Calls
<1> SUFFICES ASSUME Init PROVE Calls
  OBVIOUS
<1>1. SentOnly
  BY NoRequestAssumption DEF Init, SentOnly
<1> QED
  BY <1>1 DEF Init, Calls, FreshChannels, WaitersReachable, InFlight

\* Steps that change neither the requests nor the messages on their way.
LEMMA CallsUntouched ==
    ASSUME Calls, UNCHANGED <<sendMsgs, inHand, calls, toServer, toClient>>
    PROVE  Calls'
BY DEF Calls, SentOnly, FreshChannels, WaitersReachable, calls

\* Run and serveConnection: a dial or a hang-up forgets the messages on their
\* way; clearPendingResponses closes a channel and deletes its entry in one.
LEMMA CallsRun == Typing /\ Calls /\ RunStep => Calls'
<1> SUFFICES ASSUME Typing, Calls, RunStep PROVE Calls'
  OBVIOUS
<1> USE DEF RunUnchanged, queues, calls, network
<1>1. ASSUME toServer' \subseteq toServer, toClient' \subseteq toClient,
             UNCHANGED <<sendMsgs, inHand, calls>>
      PROVE  Calls'
  BY <1>1 DEF Calls, SentOnly, FreshChannels, WaitersReachable
<1>2. ASSUME NEW r \in Requests, ClearPending(r) PROVE Calls'
  <2>1. SentOnly'
    BY <1>2 DEF ClearPending, Calls, SentOnly
  <2>2. req[r] \in InFlight
    BY <1>2 DEF ClearPending, Calls, WaitersReachable
  <2>3. FreshChannels'
    BY <1>2, <2>2
    DEF ClearPending, Calls, FreshChannels, Typing, TypeOK, Early, InFlight
  <2>4. WaitersReachable'
    BY <1>2 DEF ClearPending, Calls, WaitersReachable, Typing, TypeOK
  <2> QED
    BY <2>1, <2>3, <2>4 DEF Calls
<1>3. RunStep => \/ \E r \in Requests : ClearPending(r)
                 \/ /\ toServer' \subseteq toServer
                    /\ toClient' \subseteq toClient
                    /\ UNCHANGED <<sendMsgs, inHand, calls>>
  BY DEF RunStep, Redial, DialSucceeds, DialFails, Registered, RegisterFails,
     LoseConnection, ClearingDone, GoOffline, HangUp, ForgetStreams, Join
<1> QED
  BY <1>1, <1>2, <1>3

\* The goroutines hand on messages that are on their way already, and put a
\* response only into an empty channel.
LEMMA CallsLoops ==
    Typing /\ Calls /\ (Sender \/ SdpReceiver \/ ResponseReceiver) => Calls'
<1> SUFFICES ASSUME Typing, Calls, Sender \/ SdpReceiver \/ ResponseReceiver
             PROVE  Calls'
  OBVIOUS
<1> USE DEF queues, network
<1>1. ASSUME NEW g, NEW from, NEW err, Exit(g, from, err) PROVE Calls'
  BY <1>1, CallsUntouched DEF Exit
<1>2. ASSUME NEW g, UseStream(g) PROVE Calls'
  BY <1>2, CallsUntouched DEF UseStream
<1>3. ASSUME NEW g, CheckContext(g) PROVE Calls'
  BY <1>1, <1>3, CallsUntouched DEF CheckContext
<1>4. CASE TakeMessage
  <2>1. Head(sendMsgs) = sendMsgs[1] /\ 1 \in 1..Len(sendMsgs)
    BY <1>4 DEF TakeMessage, Typing, TypeOK
  <2>2. \A i \in 1..Len(sendMsgs') :
           i + 1 \in 1..Len(sendMsgs) /\ sendMsgs'[i] = sendMsgs[i + 1]
    BY <1>4 DEF TakeMessage, Typing, TypeOK
  <2>3. SentOnly'
    BY <1>4, <2>1, <2>2
    DEF TakeMessage, calls, Calls, SentOnly, Typing, TypeOK
  <2> QED
    BY <1>4, <2>3
    DEF TakeMessage, calls, Calls, FreshChannels, WaitersReachable
<1>5. CASE SendMessage \/ SendBreaks
  <2>1. inHand["send"] \in Requests
    BY <1>5 DEF SendMessage, SendBreaks, LoopGoto, Typing, HandsFull
  <2>2. SentOnly'
    BY <1>5, <2>1, NoRequestAssumption
    DEF SendMessage, SendBreaks, calls, Calls, SentOnly, Typing, TypeOK
  <2> QED
    BY <1>5, <2>2
    DEF SendMessage, SendBreaks, calls, Calls, FreshChannels, WaitersReachable
<1>6. CASE AcceptSdp \/ ReadSdp
  BY <1>6, CallsUntouched DEF AcceptSdp, ReadSdp
<1>7. CASE DeliverSdp
  BY <1>7, CallsUntouched DEF DeliverSdp
<1>8. ASSUME NEW r \in Requests, DecodeResponse(r) PROVE Calls'
  BY <1>8
  DEF DecodeResponse, calls, Calls, SentOnly, FreshChannels, WaitersReachable,
      Typing, TypeOK
<1>9. CASE LookUp
  BY <1>9, NoRequestAssumption
  DEF LookUp, calls, Calls, SentOnly, FreshChannels, WaitersReachable, Typing,
      TypeOK
<1>10. CASE DeliverResponse
  <2> DEFINE r == inHand["resp"]
  <2>1. r \in Requests /\ req[r] \notin Early
    BY <1>10
    DEF DeliverResponse, LoopGoto, Typing, HandsFull, Calls, SentOnly
  <2>2. SentOnly'
    BY <1>10, NoRequestAssumption
    DEF DeliverResponse, Calls, SentOnly, Typing, TypeOK
  <2>3. \A x \in Requests : x # r \/ respChan[x] # "empty"
                               => respChan'[x] = respChan[x]
    BY <1>10, <2>1 DEF DeliverResponse, Typing, TypeOK
  <2>4. respChan[r] = "empty" => respChan'[r] = "full"
    BY <1>10, <2>1 DEF DeliverResponse, Typing, TypeOK
  <2>5. UNCHANGED <<req, pending>>
    BY <1>10 DEF DeliverResponse
  <2>6. FreshChannels'
    BY <2>1, <2>3, <2>5 DEF Calls, FreshChannels
  <2>7. WaitersReachable'
    BY <2>1, <2>3, <2>4, <2>5 DEF Calls, WaitersReachable
  <2> QED
    BY <2>2, <2>6, <2>7 DEF Calls
<1> QED
  BY <1>1, <1>2, <1>3, <1>4, <1>5, <1>6, <1>7, <1>8, <1>9, <1>10
  DEF Sender, SenderStops, SdpReceiver, MalformedSdp, SdpWakes, SdpStops,
      SdpBreaks, ResponseReceiver, ResponseWork, ResponsesStop,
      ResponsesBreak, ControlStreamEnds, MalformedResponse

\* A request stores its entry before it enqueues its message, and deletes it
\* whatever it returns with.
LEMMA CallsRequest ==
    ASSUME Typing, Calls, NEW r \in Requests, Request(r)
    PROVE  Calls'
<1> USE DEF ReqGoto, ReqUnchanged, network
<1>1. CASE Begin(r) \/ StorePending(r)
  <2>1. req[r] \in Early /\ req' = [req EXCEPT ![r] = req'[r]]
    BY <1>1 DEF Begin, StorePending, Early, Typing, TypeOK
  <2>2. SentOnly'
    BY <1>1, <2>1 DEF Begin, StorePending, Calls, SentOnly, Typing, TypeOK
  <2>3. FreshChannels'
    BY <1>1, <2>1
    DEF Begin, StorePending, Calls, FreshChannels, Typing, TypeOK
  <2>4. WaitersReachable'
    BY <1>1, <2>1
    DEF Begin, StorePending, Calls, FreshChannels, WaitersReachable, Typing,
        TypeOK, InFlight
  <2> QED
    BY <2>2, <2>3, <2>4 DEF Calls
<1>2. CASE Enqueue(r)
  <2>1. req'[r] = "waiting" /\ \A x \in Requests : x # r => req'[x] = req[x]
    BY <1>2 DEF Enqueue, Typing, TypeOK
  <2>2. \A i \in 1..Len(sendMsgs') :
           \/ sendMsgs'[i] = r
           \/ i \in 1..Len(sendMsgs) /\ sendMsgs'[i] = sendMsgs[i]
    BY <1>2 DEF Enqueue, Typing, TypeOK
  <2>3. \A i \in 1..Len(sendMsgs) : sendMsgs[i] \in Requests
    BY DEF Typing, TypeOK
  <2>4. SentOnly'
    BY <1>2, <2>1, <2>2, <2>3
    DEF Enqueue, Calls, SentOnly, Typing, TypeOK, Early
  <2>5. FreshChannels' /\ WaitersReachable'
    BY <1>2, <2>1
    DEF Enqueue, Calls, FreshChannels, WaitersReachable, Early, InFlight
  <2> QED
    BY <2>4, <2>5 DEF Calls
<1>3. ASSUME NEW from \in InFlight, NEW answer \in Answers,
             Finish(r, from, answer)
      PROVE  Calls'
  <2>1. req'[r] = answer /\ \A x \in Requests : x # r => req'[x] = req[x]
    BY <1>3 DEF Finish, Typing, TypeOK
  <2>2. answer \notin Early \cup InFlight
    BY DEF Answers, Early, InFlight
  <2>3. \A i \in 1..Len(sendMsgs) : sendMsgs[i] \in Requests
    BY DEF Typing, TypeOK
  <2>4. SentOnly'
    BY <1>3, <2>1, <2>2, <2>3 DEF Finish, Calls, SentOnly, Typing, TypeOK
  <2>5. FreshChannels' /\ WaitersReachable'
    BY <1>3, <2>1, <2>2 DEF Finish, Calls, FreshChannels, WaitersReachable
  <2> QED
    BY <2>4, <2>5 DEF Calls
<1> QED
  BY <1>1, <1>2, <1>3
  DEF Request, Receive, TimeOut, SeeClosing, InFlight, Answers

\* The server answers what it was sent.
LEMMA CallsWorld == Calls /\ World => Calls'
<1> SUFFICES ASSUME Calls, World PROVE Calls'
  OBVIOUS
<1> USE DEF queues, network
<1>1. ASSUME NEW r \in Requests, ServerAnswers(r) PROVE Calls'
  BY <1>1
  DEF ServerAnswers, calls, Calls, SentOnly, FreshChannels, WaitersReachable
<1>2. ASSUME NEW how \in {"gone", "broken"}, LinkEnds(how) PROVE Calls'
  BY <1>2, CallsUntouched DEF LinkEnds
<1>3. CASE ConsumeSdp
  BY <1>3, CallsUntouched DEF ConsumeSdp
<1>4. CASE CloseApp
  BY <1>4, CallsUntouched DEF CloseApp
<1>5. CASE AppClosesConnection
  BY <1>5, CallsUntouched DEF AppClosesConnection
<1> QED
  BY <1>1, <1>2, <1>3, <1>4, <1>5 DEF World

LEMMA CallsStep == Typing /\ Calls /\ [Next]_vars => Calls'
<1>1. Calls /\ UNCHANGED vars => Calls'
  BY CallsUntouched DEF vars, queues, network
<1> QED
  BY <1>1, CallsRun, CallsLoops, CallsRequest, CallsWorld DEF Next

\* For any number of concurrent calls, an entry is in pendingResponses while
\* its caller can still be answered through it, and only then.
THEOREM WaitersAreReachable == Spec => []WaitersReachable
<1>1. Init => Typing /\ Calls
  BY TypingInit, CallsInit
<1>2. Typing /\ Calls /\ [Next]_vars => (Typing /\ Calls)'
  BY TypingStep, CallsStep
<1>3. Calls => WaitersReachable
  BY DEF Calls
<1> QED
  BY <1>1, <1>2, <1>3, PTL DEF Spec
=============================================================================
