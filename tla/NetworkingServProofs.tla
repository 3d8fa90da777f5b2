------------------------ MODULE NetworkingServProofs ------------------------
(***************************************************************************)
(* The safety properties of NetworkingServ, for all users, sessions, calls *)
(* and messages, and whatever these are.                                   *)
(***************************************************************************)
EXTENDS NetworkingServ, WellFoundedInduction, TLAPS

-----------------------------------------------------------------------------
(* The inductive invariant.                                                *)

\* Connect has no session left to leave and has not begun to wait.
BeforeWorkers == {"fork", "asking"}

\* A call that connects to somebody has somebody to connect to; one that has
\* not looked for sessions has found none.
CallShape ==
    \A c \in Calls :
        /\ pc[c] \in BeforeWorkers \cup {"refetch", "leaving"} =>
              (Is(c, {"Connect"}) => op[c].target \in Peers)
        /\ pc[c] \in BeforeWorkers => Is(c, {"Connect"})
        /\ pc[c] \in {"idle", "begun", "refetch"} => work[c] = {}

\* A message that has been taken is another user's.
MessageShape == \A m \in Messages : msg[m] # "sent" => sdp[m].from \in Peers

Typing == TypeOK /\ CallShape /\ MessageShape

-----------------------------------------------------------------------------
(* Type correctness.                                                       *)

\* Every answer, and its absence, has an error of the program.
LEMMA RequestErrorsTyped == RequestErrors \subseteq Errors
<1>1. \A code \in ServerCodes : codeToError[code] \in Errors
  BY DEF codeToError, ServerCodes, Errors
<1>2. ASSUME NEW expected PROVE RequestOutcomes(expected) \ {"none"} \subseteq Errors
  BY <1>1 DEF RequestOutcomes, checkResp, NoAnswer, Errors
<1> QED
  BY <1>2, ErrorAssumption

\* The next session is one that does not exist yet.
LEMMA NextIsUnborn ==
    ASSUME Unborn # {} PROVE NextSession \in Sessions /\ stage[NextSession] = "unborn"
<1>1. NextSession \in Unborn
  BY DEF NextSession
<1> QED
  BY <1>1 DEF Unborn

\* createSession keeps the types.
LEMMA CreateTypes ==
    ASSUME TypeOK, NEW u \in Peers \cup {Self}, Create(u)
    PROVE  /\ NextSession \in Sessions
           /\ repo' \in [Peers -> Sessions \cup {NoSession}]
           /\ stage' \in [Sessions -> Stages]
           /\ user' \in [Sessions -> Peers \cup {Self}]
           /\ agent' \in [Sessions -> AgentStates]
           /\ UNCHANGED <<conn, creds, past>>
<1>1. NextSession \in Sessions
  BY NextIsUnborn DEF Create
<1> QED
  BY <1>1 DEF Create, TypeOK, Stages, AgentStates

\* So do resetSession, and the closing of a connection and of an agent.
LEMMA ResetTypes ==
    ASSUME TypeOK, NEW s
    PROVE  /\ CloseConn(s) => conn' \in [Sessions -> {"nil", "open", "closed"}]
           /\ CloseAgent(s) => agent' \in [Sessions -> AgentStates]
           /\ Remove(s) => repo' \in [Peers -> Sessions \cup {NoSession}]
<1>1. CloseConn(s) => conn' \in [Sessions -> {"nil", "open", "closed"}]
  <2> SUFFICES ASSUME CloseConn(s)
               PROVE  conn' \in [Sessions -> {"nil", "open", "closed"}]
    OBVIOUS
  <2> DEFINE next == IF conn[s] = "open" THEN "closed" ELSE conn[s]
  <2>1. conn' = [conn EXCEPT ![s] = next]
    BY DEF CloseConn
  <2>2. s \in Sessions => next \in {"nil", "open", "closed"}
    BY DEF TypeOK
  <2> HIDE DEF next
  <2> QED
    BY <2>1, <2>2 DEF TypeOK
<1>2. CloseAgent(s) => agent' \in [Sessions -> AgentStates]
  BY DEF TypeOK, CloseAgent, AgentStates
<1>3. Remove(s) => repo' \in [Peers -> Sessions \cup {NoSession}]
  BY DEF TypeOK, Remove
<1> QED
  BY <1>1, <1>2, <1>3

\* The initial values have their types.
LEMMA TypingInit == Init => Typing
<1> SUFFICES ASSUME Init PROVE Typing
  OBVIOUS
<1>1. /\ op \in [Calls -> Ops] /\ sdp \in [Messages -> SDPs]
      /\ user \in [Sessions -> Peers \cup {Self}]
  BY StartAssumption DEF Init
<1>2. repo \in [Peers -> Sessions \cup {NoSession}]
  <2>1. ASSUME NEW u \in Peers PROVE repo[u] \in Sessions \cup {NoSession}
    BY DEF Init
  <2> QED
    BY <2>1 DEF Init
<1>3. /\ stage \in [Sessions -> Stages] /\ torn \in [Sessions -> TornStates]
      /\ pc \in [Calls -> CallPCs]
      /\ msg \in [Messages -> MsgStates]
  BY DEF Init, Stages, TornStates, CallPCs, MsgStates
<1>4. /\ conn \in [Sessions -> {"nil", "open", "closed"}]
      /\ agent \in [Sessions -> AgentStates]
  BY DEF Init, AgentStates
<1>5. creds \in [Sessions -> BOOLEAN] /\ leave \in [Sessions -> BOOLEAN]
  BY DEF Init
<1>6. past \in Seq(Sessions)
  BY DEF Init
<1>7. closing \in BOOLEAN
  BY DEF Init
<1>8. inside \in [Sessions -> [Handlers -> Calls \cup {NoCall}]]
  <2>1. [h \in Handlers |-> NoCall] \in [Handlers -> Calls \cup {NoCall}]
    OBVIOUS
  <2> QED
    BY <2>1 DEF Init
<1>9. /\ work \in [Calls -> SUBSET Sessions] /\ made \in [Calls -> SUBSET Sessions]
      /\ making \in [Calls -> SUBSET Workers] /\ err \in [Calls -> Errors \cup {"none"}]
      /\ held \in [Messages -> Sessions \cup {NoSession}]
  BY DEF Init
<1>10. CallShape /\ MessageShape
  BY DEF Init, CallShape, MessageShape, BeforeWorkers
<1> QED
  BY <1>1, <1>2, <1>3, <1>4, <1>5, <1>6, <1>7, <1>8, <1>9, <1>10
  DEF Typing, TypeOK

\* Steps that end in a reset, or close a part of a session.
LEMMA TypingClosing ==
    ASSUME Typing, NEW s \in Sessions,
           ResetFailed(s) \/ IceFails(s) \/ ReceiveEnds(s)
    PROVE  Typing'
<1> USE DEF Typing, CallShape, MessageShape, Is, registry, session, teardown,
            call, intake
<1>1. CASE ResetFailed(s)
  <2>1. /\ agent' \in [Sessions -> AgentStates]
        /\ conn' \in [Sessions -> {"nil", "open", "closed"}]
        /\ repo' \in [Peers -> Sessions \cup {NoSession}]
    BY <1>1, ResetTypes DEF ResetFailed
  <2> QED
    BY <1>1, <2>1 DEF ResetFailed, TypeOK, Stages
<1>2. CASE IceFails(s)
  <2>1. /\ agent' \in [Sessions -> AgentStates]
        /\ conn' \in [Sessions -> {"nil", "open", "closed"}]
    BY <1>2, ResetTypes DEF IceFails, TypeOK, AgentStates
  <2> QED
    BY <1>2, <2>1 DEF IceFails, TypeOK
<1>3. CASE ReceiveEnds(s)
  <2>1. /\ agent' \in [Sessions -> AgentStates]
        /\ conn' \in [Sessions -> {"nil", "open", "closed"}]
    BY <1>3, ResetTypes DEF ReceiveEnds, StartTeardown
  <2> QED
    BY <1>3, <2>1 DEF ReceiveEnds, StartTeardown, TypeOK, TornStates
<1> QED
  BY <1>1, <1>2, <1>3

\* The other steps of an establishment.
LEMMA TypingEstablish ==
    ASSUME Typing, NEW s \in Sessions, Establish(s), ~ResetFailed(s)
    PROVE  Typing'
<1> USE DEF Typing, CallShape, MessageShape, Is, registry, session, teardown,
            call, intake
<1>1. CASE TakeCreds(s)
  BY <1>1 DEF TakeCreds, TypeOK, Stages
<1>2. ASSUME NEW from, NEW to \in Stages, StageGoto(s, from, to),
             conn' \in [Sessions -> {"nil", "open", "closed"}]
      PROVE  Typing'
  BY <1>2 DEF StageGoto, TypeOK
<1>3. CASE Dial(s) \/ SetupStreams(s) \/ Announce(s)
  BY <1>2, <1>3 DEF Dial, SetupStreams, Announce, TypeOK, Stages
<1>4. CASE StoreConn(s)
  BY <1>2, <1>4 DEF StoreConn, TypeOK, Stages
<1>5. CASE EstablishFails(s)
  BY <1>2, <1>5 DEF EstablishFails, TypeOK, Stages
<1>6. CASE Announced(s)
  BY <1>6 DEF Announced, TypeOK, Stages
<1> QED
  BY <1>1, <1>3, <1>4, <1>5, <1>6 DEF Establish

\* The steps of a teardown.
LEMMA TypingTeardown ==
    ASSUME Typing, NEW s \in Sessions, Teardown(s) PROVE Typing'
<1> USE DEF Typing, CallShape, MessageShape, Is, registry, session, call, intake
<1>1. ASSUME NEW from, NEW to \in TornStates, TornGoto(s, from, to)
      PROVE  torn' \in [Sessions -> TornStates]
  BY <1>1 DEF TornGoto, TypeOK
<1>2. CASE DeleteSession(s)
  <2>1. repo' \in [Peers -> Sessions \cup {NoSession}]
    BY <1>2, ResetTypes DEF DeleteSession
  <2>2. past' \in Seq(Sessions) /\ torn' \in [Sessions -> TornStates]
    BY <1>1, <1>2 DEF DeleteSession, TypeOK, TornStates
  <2> QED
    BY <1>2, <2>1, <2>2 DEF DeleteSession, TypeOK
<1>3. CASE \/ SignalLeave(s) \/ SignalBlocks(s)
           \/ CallDisconnected(s) \/ DisconnectedReturns(s)
  <2>1. torn' \in [Sessions -> TornStates]
    BY <1>1, <1>3 DEF SignalLeave, SignalBlocks, CallDisconnected,
       DisconnectedReturns, TornStates
  <2> QED
    BY <1>3, <2>1 DEF SignalLeave, SignalBlocks, CallDisconnected,
       DisconnectedReturns, TypeOK
<1> QED
  BY <1>2, <1>3 DEF Teardown

\* A call inside a callback begins.
LEMMA TypingInside ==
    ASSUME Typing, NEW s \in Sessions, NEW h \in Handlers, NEW c \in Calls,
           CallInside(s, h, c)
    PROVE  Typing'
<1>1. inside' \in [Sessions -> [Handlers -> Calls \cup {NoCall}]]
  BY DEF CallInside, Typing, TypeOK
<1>2. pc' \in [Calls -> CallPCs]
  BY DEF CallInside, Typing, TypeOK, CallPCs
<1>3. TypeOK'
  BY <1>1, <1>2 DEF CallInside, Typing, TypeOK, registry, session, teardown,
     intake
<1>4. CallShape'
  BY DEF CallInside, Typing, TypeOK, CallShape, Is, BeforeWorkers
<1> QED
  BY <1>3, <1>4 DEF CallInside, Typing, MessageShape, intake

\* A step that touches one call only, and leaves what it has made alone.
LEMMA TypingCallStep ==
    ASSUME Typing, NEW c \in Calls, NEW from, NEW to \in CallPCs,
           CallStep(c, from, to),
           work' \in [Calls -> SUBSET Sessions],
           making' \in [Calls -> SUBSET Workers],
           err' \in [Calls -> Errors \cup {"none"}]
    PROVE  TypeOK' /\ MessageShape'
BY DEF CallStep, CallGoto, Typing, TypeOK, MessageShape, registry, session,
   teardown, intake

\* The checks at the beginning of a call.
LEMMA TypingCheck ==
    ASSUME Typing, NEW c \in Calls, Begin(c) \/ Check(c) PROVE Typing'
<1> USE DEF Typing, CallShape, Is, BeforeWorkers
<1>1. op[c] \in Ops /\ op[c].target \in Peers \cup {Self}
  BY DEF TypeOK, Ops
<1>2. Current \subseteq Sessions
  BY DEF TypeOK, Current
<1>3. ASSUME NEW e \in Errors \cup {"none"}, Return(c, "begun", e) PROVE Typing'
  <2>1. TypeOK' /\ MessageShape'
    BY <1>3, TypingCallStep DEF Return, TypeOK, CallPCs
  <2> QED
    BY <1>3, <2>1 DEF Return, CallStep, CallGoto, TypeOK
<1>4. CASE Begin(c)
  <2>1. TypeOK' /\ MessageShape'
    BY <1>4, TypingCallStep DEF Begin, TypeOK, CallPCs
  <2> QED
    BY <1>4, <2>1 DEF Begin, CallStep, CallGoto, TypeOK
<1>5. CASE ToHimself(c) \/ AlreadyConnected(c) \/ GetNone(c) \/ Sends(c)
  BY <1>3, <1>5 DEF ToHimself, AlreadyConnected, GetNone, Sends, Errors
<1>6. CASE Fetches(c)
  BY <1>3, <1>6, RequestErrorsTyped DEF Fetches
<1>7. CASE LooksAround(c)
  <2>1. TypeOK' /\ MessageShape'
    <3>1. ASSUME NEW to \in {"fork", "refetch"}, CallStep(c, "begun", to)
          PROVE  TypeOK' /\ MessageShape'
      BY <1>7, <3>1, TypingCallStep DEF LooksAround, TypeOK, CallPCs
    <3> QED
      BY <1>7, <3>1 DEF LooksAround
  <2>2. op[c].target \in Peers
    BY <1>1, <1>7 DEF LooksAround
  <2> QED
    BY <1>7, <2>1, <2>2 DEF LooksAround, CallStep, CallGoto, TypeOK
<1>8. CASE FetchAll(c)
  <2>1. work' \in [Calls -> SUBSET Sessions]
    BY <1>2, <1>8 DEF FetchAll, TypeOK
  <2>2. TypeOK' /\ MessageShape'
    BY <1>8, <2>1, TypingCallStep DEF FetchAll, TypeOK, CallPCs
  <2>3. pc[c] = "begun" => ~Is(c, {"Connect"})
    BY <1>8 DEF FetchAll
  <2> QED
    BY <1>8, <2>2, <2>3 DEF FetchAll, CallStep, CallGoto, TypeOK
<1>9. CASE GetOne(c)
  <2>1. work' \in [Calls -> SUBSET Sessions]
    BY <1>9 DEF GetOne, TypeOK
  <2>2. TypeOK' /\ MessageShape'
    BY <1>9, <2>1, TypingCallStep DEF GetOne, TypeOK, CallPCs
  <2> QED
    BY <1>9, <2>2 DEF GetOne, CallStep, CallGoto, TypeOK
<1>10. CASE CloseService(c)
  <2>1. TypeOK'
    BY <1>10 DEF CloseService, CallGoto, TypeOK, CallPCs, registry, session,
       teardown, intake
  <2> QED
    BY <1>10, <2>1 DEF CloseService, CallGoto, TypeOK, MessageShape, intake
<1>11. CASE ConnectsById(c)
  <2>1. op[c].target \in Peers
    BY <1>1, <1>11 DEF ConnectsById
  <2>2. /\ making' \in [Calls -> SUBSET Workers]
        /\ err' \in [Calls -> Errors \cup {"none"}]
    BY <1>11, <2>1 DEF ConnectsById, FirstWorker, Workers, TypeOK, Errors
  <2>3. TypeOK' /\ MessageShape'
    BY <1>11, <2>2, TypingCallStep DEF ConnectsById, TypeOK, CallPCs
  <2> QED
    BY <1>11, <2>3 DEF ConnectsById, CallStep, CallGoto, TypeOK
<1> QED
  BY <1>4, <1>5, <1>6, <1>7, <1>8, <1>9, <1>10, <1>11 DEF Check

\* The other steps of a call.
LEMMA TypingCallRuns ==
    ASSUME Typing, NEW c \in Calls, CallRuns(c), ~Check(c) PROVE Typing'
<1> USE DEF Typing, CallShape, Is, BeforeWorkers
<1>1. ASSUME NEW s \in Sessions, LeaveSession(c, s) PROVE Typing'
  <2>1. /\ agent' \in [Sessions -> AgentStates]
        /\ conn' \in [Sessions -> {"nil", "open", "closed"}]
    BY <1>1, ResetTypes DEF LeaveSession, StartTeardown
  <2> QED
    BY <1>1, <2>1 DEF LeaveSession, StartTeardown, TypeOK, TornStates,
       MessageShape, registry, call, intake
<1>2. CASE Left(c)
  <2>1. ASSUME NEW to \in {"fork", "returned"}, CallStep(c, "leaving", to)
        PROVE  TypeOK' /\ MessageShape'
    BY <1>2, <2>1, TypingCallStep DEF Left, TypeOK, CallPCs
  <2>2. TypeOK' /\ MessageShape'
    BY <1>2, <2>1 DEF Left
  <2> QED
    BY <1>2, <2>2 DEF Left, CallStep, CallGoto, TypeOK
<1>3. CASE Fork(c)
  <2>1. op[c].target \in Peers
    BY <1>3 DEF Fork, CallStep, CallGoto
  <2>2. /\ making' \in [Calls -> SUBSET Workers]
        /\ err' \in [Calls -> Errors \cup {"none"}]
    BY <1>3, <2>1 DEF Fork, FirstWorker, Workers, TypeOK, Errors
  <2>3. TypeOK' /\ MessageShape'
    BY <1>3, <2>2, TypingCallStep DEF Fork, TypeOK, CallPCs
  <2> QED
    BY <1>3, <2>3 DEF Fork, CallStep, CallGoto, TypeOK
<1>4. CASE AskedSessions(c)
  <2>1. PICK others \in SUBSET Peers :
            /\ CallStep(c, "asking", "joining")
            /\ making' = [making EXCEPT
                    ![c] = IF closing THEN @ ELSE @ \cup (others \X {"asked"})]
            /\ err' = [err EXCEPT ![c] =
                    IF @ = "none" /\ closing /\ others # {} THEN "appClosing" ELSE @]
            /\ UNCHANGED work
    BY <1>4 DEF AskedSessions
  <2>2. /\ making' \in [Calls -> SUBSET Workers]
        /\ err' \in [Calls -> Errors \cup {"none"}]
    <3>1. others \X {"asked"} \in SUBSET Workers
      BY DEF Workers
    <3> QED
      BY <2>1, <3>1 DEF TypeOK, Errors
  <2>3. TypeOK' /\ MessageShape'
    BY <2>1, <2>2, TypingCallStep DEF TypeOK, CallPCs
  <2> QED
    BY <2>1, <2>3 DEF CallStep, CallGoto, TypeOK
<1>5. CASE AskingFails(c)
  <2>1. PICK e \in RequestErrors :
            /\ CallStep(c, "asking", "returned")
            /\ err' = [err EXCEPT ![c] = e]
            /\ UNCHANGED <<work, making>>
    BY <1>5 DEF AskingFails
  <2>2. err' \in [Calls -> Errors \cup {"none"}]
    BY <2>1, RequestErrorsTyped DEF TypeOK
  <2>3. TypeOK' /\ MessageShape'
    BY <2>1, <2>2, TypingCallStep DEF TypeOK, CallPCs
  <2> QED
    BY <2>1, <2>3 DEF CallStep, CallGoto, TypeOK
<1>6. CASE Joined(c)
  <2>1. TypeOK' /\ MessageShape'
    BY <1>6, TypingCallStep DEF Joined, Return, TypeOK, CallPCs
  <2> QED
    BY <1>6, <2>1 DEF Joined, Return, CallStep, CallGoto, TypeOK
<1> QED
  BY <1>1, <1>2, <1>3, <1>4, <1>5, <1>6 DEF CallRuns

\* The workers of a call.
LEMMA TypingWorker ==
    ASSUME Typing, NEW c \in Calls, Worker(c) PROVE Typing'
<1> USE DEF Typing, CallShape, Is
<1>1. ASSUME NEW w \in Workers, WorkerCreates(c, w) PROVE Typing'
  <2>1. Create(w[1]) /\ w[1] \in Peers
    BY <1>1 DEF WorkerCreates, Workers
  <2>2. /\ making' \in [Calls -> SUBSET Workers]
        /\ made' \in [Calls -> SUBSET Sessions]
    BY <1>1, <2>1, CreateTypes DEF WorkerCreates, TypeOK
  <2>3. TypeOK'
    BY <1>1, <2>1, <2>2, CreateTypes DEF WorkerCreates, TypeOK, teardown, intake
  <2> QED
    BY <1>1, <2>3 DEF WorkerCreates, MessageShape, intake
<1>2. ASSUME NEW w \in Workers, WorkerFails(c, w) PROVE Typing'
  <2>1. making' \in [Calls -> SUBSET Workers]
    BY <1>2 DEF WorkerFails, TypeOK
  <2>2. CreateErrors(w[1]) \subseteq Errors
    BY RequestErrorsTyped DEF CreateErrors, Errors
  <2>3. err' \in [Calls -> Errors \cup {"none"}]
    BY <1>2, <2>2 DEF WorkerFails, TypeOK
  <2>4. TypeOK'
    BY <1>2, <2>1, <2>3 DEF WorkerFails, TypeOK, registry, session, teardown,
       intake
  <2> QED
    BY <1>2, <2>4 DEF WorkerFails, MessageShape, intake
<1> QED
  BY <1>1, <1>2 DEF Worker

\* A step of a message that touches only that message.
LEMMA TypingMsgStep ==
    ASSUME Typing, NEW m \in Messages, NEW from, NEW to \in MsgStates,
           NEW s \in Sessions \cup {NoSession}, MsgStep(m, from, to, s),
           sdp[m].from \in Peers
    PROVE  Typing'
<1>1. msg' \in [Messages -> MsgStates] /\ held' \in [Messages -> Sessions \cup {NoSession}]
  BY DEF MsgStep, MsgGoto, Typing, TypeOK
<1>2. TypeOK'
  BY <1>1 DEF MsgStep, Typing, TypeOK, registry, session, teardown, call
<1>3. CallShape'
  BY DEF MsgStep, Typing, CallShape, Is, call
<1>4. MessageShape'
  BY DEF MsgStep, MsgGoto, Typing, TypeOK, MessageShape
<1> QED
  BY <1>2, <1>3, <1>4 DEF Typing

\* The end of a singleflight for all who waited.
LEMMA TypingLands ==
    ASSUME Typing, NEW m \in Messages, msg[m] = "leading",
           NEW to \in MsgStates, NEW s \in Sessions \cup {NoSession},
           Lands(m, to, s)
    PROVE  /\ msg' \in [Messages -> MsgStates]
           /\ held' \in [Messages -> Sessions \cup {NoSession}]
           /\ MessageShape' /\ CallShape'
<1>1. \A n \in Flight(m) : n \in Messages /\ msg[n] # "sent"
  BY DEF Flight
<1>2. MessageShape'
  BY <1>1 DEF Lands, Typing, MessageShape
<1>3. CallShape'
  BY DEF Lands, Typing, CallShape, Is, call
<1> QED
  BY <1>2, <1>3 DEF Lands, Typing, TypeOK

\* The steps of a message.
LEMMA TypingMessage ==
    ASSUME Typing, NEW m \in Messages, Take(m) \/ Process(m) PROVE Typing'
<1>1. held[m] \in Sessions \cup {NoSession}
  BY DEF Typing, TypeOK
<1>2. CASE Find(m)
  BY <1>2, TypingMsgStep DEF Find, Arrives, MsgStates, Typing, TypeOK
<1>3. CASE Lead(m)
  BY <1>3, TypingMsgStep DEF Lead, Arrives, MsgStates
<1>4. CASE Follow(m)
  BY <1>4, TypingMsgStep DEF Follow, Arrives, MsgStates
<1>5. CASE LeaderCreates(m)
  <2>1. Create(sdp[m].from) /\ sdp[m].from \in Peers /\ Lands(m, "got", NextSession)
    BY <1>5 DEF LeaderCreates, Typing, MessageShape
  <2>2. NextSession \in Sessions
    BY <2>1, CreateTypes DEF Typing
  <2>3. /\ msg' \in [Messages -> MsgStates]
        /\ held' \in [Messages -> Sessions \cup {NoSession}]
        /\ MessageShape' /\ CallShape'
    BY <1>5, <2>1, <2>2, TypingLands DEF LeaderCreates, MsgStates
  <2>4. TypeOK'
    BY <2>1, <2>3, CreateTypes DEF Lands, Typing, TypeOK, teardown, call
  <2> QED
    BY <2>3, <2>4 DEF Typing
<1>6. CASE LeaderFails(m)
  <2>1. /\ msg' \in [Messages -> MsgStates]
        /\ held' \in [Messages -> Sessions \cup {NoSession}]
        /\ MessageShape' /\ CallShape'
    BY <1>6, TypingLands DEF LeaderFails, MsgStates
  <2>2. TypeOK'
    BY <1>6, <2>1 DEF LeaderFails, Lands, Typing, TypeOK, registry, session,
       teardown, call
  <2> QED
    BY <2>1, <2>2 DEF Typing
<1> USE DEF Typing, CallShape, MessageShape, Is, teardown, call
<1>7. CASE AddCandidate(m)
  BY <1>1, <1>7, TypingMsgStep DEF AddCandidate, MsgStep, MsgGoto, MsgStates
<1>8. CASE RecreateFails(m)
  BY <1>1, <1>8, TypingMsgStep DEF RecreateFails, MsgStep, MsgGoto, MsgStates
<1>9. CASE StartOver(m)
  <2>1. /\ agent' \in [Sessions -> AgentStates]
        /\ conn' \in [Sessions -> {"nil", "open", "closed"}]
        /\ repo' \in [Peers -> Sessions \cup {NoSession}]
    BY <1>9, ResetTypes DEF StartOver
  <2>2. msg' \in [Messages -> MsgStates]
    BY <1>9 DEF StartOver, MsgGoto, TypeOK, MsgStates
  <2> QED
    BY <1>9, <2>1, <2>2 DEF StartOver, MsgGoto, TypeOK
<1>12. CASE StartOverHangs(m)
  <2>1. conn' \in [Sessions -> {"nil", "open", "closed"}]
    BY <1>12, ResetTypes DEF StartOverHangs
  <2>2. msg' \in [Messages -> MsgStates]
    BY <1>12 DEF StartOverHangs, MsgGoto, TypeOK, MsgStates
  <2> QED
    BY <1>12, <2>1, <2>2 DEF StartOverHangs, MsgGoto, TypeOK, registry
<1>10. CASE Recreate(m)
  <2>1. Create(sdp[m].from) /\ sdp[m].from \in Peers
    BY <1>10 DEF Recreate, MsgGoto
  <2>2. /\ msg' \in [Messages -> MsgStates]
        /\ held' \in [Messages -> Sessions \cup {NoSession}]
    BY <1>10, <2>1, CreateTypes DEF Recreate, MsgGoto, TypeOK, MsgStates
  <2> QED
    BY <1>10, <2>1, <2>2, CreateTypes DEF Recreate, MsgGoto, TypeOK
<1>11. CASE TakeCredentials(m)
  <2>1. creds' \in [Sessions -> BOOLEAN]
    BY <1>11 DEF TakeCredentials, SetCredentials, TypeOK
  <2>2. msg' \in [Messages -> MsgStates]
    BY <1>11 DEF TakeCredentials, MsgGoto, TypeOK, MsgStates
  <2> QED
    BY <1>11, <2>1, <2>2 DEF TakeCredentials, MsgGoto, TypeOK, registry
<1> QED
  BY <1>2, <1>3, <1>4, <1>5, <1>6, <1>7, <1>8, <1>9, <1>10, <1>11,
     <1>12 DEF Take, Process

\* Every step keeps the types.
LEMMA TypingNext == Typing /\ [Next]_vars => Typing'
<1> SUFFICES ASSUME Typing, [Next]_vars PROVE Typing'
  OBVIOUS
<1>1. CASE UNCHANGED vars
  BY <1>1 DEF vars, registry, session, teardown, call, intake, Typing,
     TypeOK, CallShape, MessageShape, Is
<1>2. CASE Next
  BY <1>2, TypingClosing, TypingEstablish, TypingTeardown, TypingInside,
     TypingCheck, TypingCallRuns, TypingWorker, TypingMessage DEF Next, CallRuns
<1> QED
  BY <1>1, <1>2

\* Every variable keeps its type: the API's calls and the messages never act
\* on a session or a user that is none.
THEOREM TypeCorrect == Spec => []TypeOK
<1>1. Typing => TypeOK
  BY DEF Typing
<1> QED
  BY <1>1, TypingInit, TypingNext, PTL DEF Spec

-----------------------------------------------------------------------------
(* Sessions, teardowns and the calls that wait for them.                   *)

Gone(s) == torn[s] \in {"deleted", "blocked", "callback", "done"}

\* The history past lists the sessions whose body is past Delete, once each.
PastShape ==
    /\ \A s \in Sessions : Gone(s) <=> \E i \in 1..Len(past) : past[i] = s
    /\ \A i, j \in 1..Len(past) : past[i] = past[j] => i = j

\* The repository has a user's own sessions, and none that is gone; only
\* sessions that exist are torn down.
RepoShape ==
    /\ \A u \in Peers :
        repo[u] # NoSession =>
            stage[repo[u]] # "unborn" /\ user[repo[u]] = u /\ ~Gone(repo[u])
    /\ \A s \in Sessions : stage[s] # "unborn" => user[s] \in Peers
    /\ \A s \in Sessions : stage[s] = "unborn" => torn[s] = "no"

\* A call leaves sessions that exist, and goes on when they are torn down.
BeforeLeft == {"idle", "begun", "refetch", "leaving"}

WorkShape ==
    \A c \in Calls :
        /\ \A s \in work[c] : stage[s] # "unborn"
        /\ pc[c] \notin BeforeLeft => \A s \in work[c] : torn[s] = "done"

\* A call in a Disconnected callback finds no session that was gone before.
CallbackShape ==
    \A s \in Sessions, c \in Calls :
        inside[s]["disconnected"] = c =>
            /\ Gone(s)
            /\ \A i, j \in 1..Len(past) :
                  (past[i] = s /\ past[j] \in work[c]) => i < j

SafeInv == Typing /\ PastShape /\ RepoShape /\ WorkShape /\ CallbackShape

\* The invariant holds at first: nobody has left anything.
LEMMA SafeInit == Init => SafeInv
<1> SUFFICES ASSUME Init PROVE SafeInv
  OBVIOUS
<1>1. Typing
  BY TypingInit
<1>2. PastShape
  BY DEF Init, PastShape, Gone
<1>3. RepoShape
  <2>1. ASSUME NEW u \in Peers, repo[u] # NoSession
        PROVE  repo[u] \in Sessions /\ user[repo[u]] = u
    BY <2>1 DEF Init
  <2>2. \A s \in Sessions : (stage[s] # "unborn" <=> user[s] \in Peers)
    BY DEF Init
  <2> QED
    BY <2>1, <2>2 DEF Init, RepoShape, Gone
<1>4. WorkShape
  BY DEF Init, WorkShape
<1>5. CallbackShape
  BY NameAssumption DEF Init, CallbackShape, Handlers
<1> QED
  BY <1>1, <1>2, <1>3, <1>4, <1>5 DEF SafeInv

\* Steps that move existing sessions on, or take some out of the repository.
LEMMA SafeMove ==
    ASSUME SafeInv, Typing',
           UNCHANGED <<user, torn, inside, past, work, pc, op>>,
           \A u \in Peers : repo'[u] \in {repo[u], NoSession},
           \A s \in Sessions : stage'[s] = "unborn" <=> stage[s] = "unborn"
    PROVE  SafeInv'
<1>1. PastShape' /\ CallbackShape'
  BY DEF SafeInv, PastShape, CallbackShape, Gone
<1>2. RepoShape'
  BY DEF SafeInv, RepoShape, Typing, TypeOK, Gone
<1>3. WorkShape'
  BY DEF SafeInv, WorkShape, Typing, TypeOK, BeforeLeft
<1> QED
  BY <1>1, <1>2, <1>3 DEF SafeInv

\* A session comes to life.
LEMMA SafeCreate ==
    ASSUME SafeInv, Typing', NEW u \in Peers, Create(u),
           UNCHANGED <<torn, inside, work, pc, op>>
    PROVE  SafeInv'
<1> DEFINE s == NextSession
<1>1. /\ s \in Sessions /\ stage[s] = "unborn" /\ repo[u] = NoSession
      /\ repo' = [repo EXCEPT ![u] = s]
      /\ stage' = [stage EXCEPT ![s] = "waiting"]
      /\ user' = [user EXCEPT ![s] = u]
      /\ past' = past
  BY NextIsUnborn DEF Create
<1> HIDE DEF s
<1>2. PastShape' /\ CallbackShape'
  BY <1>1 DEF SafeInv, PastShape, CallbackShape, Gone
<1>3. RepoShape'
  <2>1. ASSUME NEW v \in Peers, repo'[v] # NoSession
        PROVE  /\ stage'[repo'[v]] # "unborn" /\ user'[repo'[v]] = v
               /\ ~Gone(repo[v])'
    <3>1. CASE v = u
      <4>1. repo'[v] = s /\ torn[s] = "no"
        BY <1>1, <3>1 DEF SafeInv, RepoShape, Typing, TypeOK
      <4> QED
        BY <1>1, <3>1, <4>1 DEF SafeInv, Typing, TypeOK, Gone
    <3>2. CASE v # u
      <4>1. repo'[v] = repo[v] /\ repo[v] \in Sessions /\ repo[v] # s
        BY <1>1, <2>1, <3>2 DEF SafeInv, RepoShape, Typing, TypeOK
      <4> QED
        BY <1>1, <2>1, <4>1 DEF SafeInv, RepoShape, Typing, TypeOK, Gone
    <3> QED
      BY <3>1, <3>2
  <2>2. \A t \in Sessions : stage'[t] # "unborn" => user'[t] \in Peers
    BY <1>1 DEF SafeInv, RepoShape, Typing, TypeOK
  <2>3. \A t \in Sessions : stage'[t] = "unborn" => torn'[t] = "no"
    BY <1>1 DEF SafeInv, RepoShape, Typing, TypeOK
  <2> QED
    BY <2>1, <2>2, <2>3 DEF RepoShape
<1>4. WorkShape'
  BY <1>1 DEF SafeInv, WorkShape, Typing, TypeOK, BeforeLeft
<1> QED
  BY <1>2, <1>3, <1>4 DEF SafeInv

\* A teardown goes on: its session exists, and is not taken out of past.
LEMMA SafeTorn ==
    ASSUME SafeInv, Typing', NEW s \in Sessions, stage[s] # "unborn",
           NEW to, torn' = [torn EXCEPT ![s] = to],
           Gone(s) <=> Gone(s)', torn[s] # "done",
           UNCHANGED <<repo, stage, user, inside, past, work, pc, op>>
    PROVE  SafeInv'
<1>1. \A t \in Sessions : Gone(t)' <=> Gone(t)
  BY DEF SafeInv, Typing, TypeOK, Gone
<1>2. PastShape'
  BY <1>1 DEF SafeInv, PastShape
<1>3. CallbackShape'
  BY <1>1 DEF SafeInv, CallbackShape
<1>4. RepoShape'
  <2>1. ASSUME NEW u \in Peers, repo[u] # NoSession PROVE ~Gone(repo[u])'
    BY <1>1, <2>1 DEF SafeInv, RepoShape, Typing, TypeOK
  <2> QED
    BY <2>1 DEF SafeInv, RepoShape, Typing, TypeOK
<1>5. WorkShape'
  BY DEF SafeInv, WorkShape, Typing, TypeOK, BeforeLeft
<1> QED
  BY <1>2, <1>3, <1>4, <1>5 DEF SafeInv

\* sessionRepository.Delete: the session goes to the end of past.
LEMMA SafeDelete ==
    ASSUME SafeInv, Typing', NEW s \in Sessions, DeleteSession(s)
    PROVE  SafeInv'
<1>1. /\ torn[s] = "closing" /\ torn' = [torn EXCEPT ![s] = "deleted"]
      /\ past' = Append(past, s)
      /\ repo' = [u \in Peers |-> IF repo[u] = s THEN NoSession ELSE repo[u]]
      /\ UNCHANGED <<stage, user, inside, work, pc, op>>
  BY DEF DeleteSession, TornGoto, Remove, session, call
<1>2. /\ past \in Seq(Sessions) /\ Len(past') = Len(past) + 1
      /\ \A i \in 1..Len(past) : past'[i] = past[i]
      /\ past'[Len(past) + 1] = s /\ Len(past) \in Nat
  BY <1>1 DEF SafeInv, Typing, TypeOK
<1>3. \A i \in 1..Len(past) : past[i] # s
  BY <1>1 DEF SafeInv, PastShape, Gone
<1>4. \A t \in Sessions : Gone(t)' <=> Gone(t) \/ t = s
  BY <1>1 DEF SafeInv, Typing, TypeOK, Gone
<1>5. PastShape'
  <2>1. \A t \in Sessions : (\E i \in 1..Len(past') : past'[i] = t)
                              <=> (\E i \in 1..Len(past) : past[i] = t) \/ t = s
    BY <1>2
  <2>2. \A i, j \in 1..Len(past') : past'[i] = past'[j] => i = j
    BY <1>2, <1>3 DEF SafeInv, PastShape
  <2> QED
    BY <1>4, <2>1, <2>2 DEF SafeInv, PastShape
<1>6. CallbackShape'
  <2> SUFFICES ASSUME NEW t \in Sessions, NEW c \in Calls,
                      inside'[t]["disconnected"] = c
               PROVE  /\ Gone(t)'
                      /\ \A i, j \in 1..Len(past') :
                          (past'[i] = t /\ past'[j] \in work'[c]) => i < j
    BY DEF CallbackShape
  <2>1. Gone(t)
    BY <1>1 DEF SafeInv, CallbackShape
  <2>2. t # s
    BY <1>1, <2>1 DEF Gone
  <2>3. ASSUME NEW i \in 1..Len(past'), NEW j \in 1..Len(past'),
               past'[i] = t, past'[j] \in work'[c]
        PROVE  i < j
    <3>1. i \in 1..Len(past) /\ past[i] = t
      BY <1>2, <2>2, <2>3
    <3>2. CASE j = Len(past) + 1
      BY <1>2, <3>1, <3>2
    <3>3. CASE j # Len(past) + 1
      <4>1. j \in 1..Len(past) /\ past[j] \in work[c]
        BY <1>1, <1>2, <2>3, <3>3
      <4> QED
        BY <1>1, <3>1, <4>1 DEF SafeInv, CallbackShape
    <3> QED
      BY <3>2, <3>3
  <2> QED
    BY <1>4, <2>1, <2>3
<1>7. RepoShape'
  <2>1. stage[s] # "unborn"
    BY <1>1 DEF SafeInv, RepoShape
  <2>2. ASSUME NEW u \in Peers, repo'[u] # NoSession
        PROVE  repo'[u] = repo[u] /\ repo[u] \in Sessions /\ ~Gone(repo[u])'
    BY <1>1, <1>4, <2>2 DEF SafeInv, RepoShape, Typing, TypeOK
  <2>3. \A t \in Sessions : stage'[t] = "unborn" => torn'[t] = "no"
    BY <1>1, <2>1 DEF SafeInv, RepoShape, Typing, TypeOK
  <2> QED
    BY <1>1, <2>2, <2>3 DEF SafeInv, RepoShape
<1>8. WorkShape'
  BY <1>1 DEF SafeInv, WorkShape, Typing, TypeOK, BeforeLeft
<1> QED
  BY <1>5, <1>6, <1>7, <1>8 DEF SafeInv

\* Calls go on without looking for sessions; one that leaves some does when
\* they are torn down.
LEMMA SafeCall ==
    ASSUME SafeInv, Typing',
           UNCHANGED <<repo, stage, user, torn, inside, past, work, op>>,
           \A c \in Calls :
              pc'[c] \notin BeforeLeft =>
                \/ pc[c] \notin BeforeLeft
                \/ \A s \in work[c] : torn[s] = "done"
    PROVE  SafeInv'
<1>1. PastShape' /\ RepoShape' /\ CallbackShape'
  BY DEF SafeInv, PastShape, RepoShape, CallbackShape, Gone
<1>2. WorkShape'
  BY DEF SafeInv, WorkShape
<1> QED
  BY <1>1, <1>2 DEF SafeInv

\* A call finds the sessions it is going to leave: none of them is gone.
LEMMA SafeWork ==
    ASSUME SafeInv, Typing', NEW c \in Calls, NEW found \in SUBSET Current,
           work' = [work EXCEPT ![c] = found],
           pc' = [pc EXCEPT ![c] = "leaving"],
           UNCHANGED <<repo, stage, user, torn, inside, past, op>>
    PROVE  SafeInv'
<1>1. \A s \in found : s \in Sessions /\ ~Gone(s) /\ stage[s] # "unborn"
  BY DEF SafeInv, RepoShape, Typing, TypeOK, Current
<1>2. PastShape' /\ RepoShape'
  BY DEF SafeInv, PastShape, RepoShape, Gone
<1>3. WorkShape'
  BY <1>1 DEF SafeInv, WorkShape, Typing, TypeOK, BeforeLeft
<1>4. CallbackShape'
  <2> SUFFICES ASSUME NEW t \in Sessions, NEW d \in Calls,
                      inside'[t]["disconnected"] = d
               PROVE  /\ Gone(t)'
                      /\ \A i, j \in 1..Len(past') :
                          (past'[i] = t /\ past'[j] \in work'[d]) => i < j
    BY DEF CallbackShape
  <2>1. Gone(t)'
    BY DEF SafeInv, CallbackShape, Gone
  <2>2. CASE d = c
    <3>1. \A j \in 1..Len(past) : past[j] \notin found
      BY <1>1 DEF SafeInv, PastShape
    <3>2. work'[d] = found
      BY <2>2 DEF SafeInv, Typing, TypeOK
    <3> QED
      BY <2>1, <3>1, <3>2
  <2>3. CASE d # c
    <3>1. work'[d] = work[d]
      BY <2>3 DEF SafeInv, Typing, TypeOK
    <3> QED
      BY <2>1, <3>1 DEF SafeInv, CallbackShape
  <2> QED
    BY <2>2, <2>3
<1> QED
  BY <1>2, <1>3, <1>4 DEF SafeInv

\* A call that begins in a callback has found nothing yet.
LEMMA SafeInside ==
    ASSUME SafeInv, Typing', NEW s \in Sessions, NEW h \in Handlers, NEW c \in Calls,
           CallInside(s, h, c)
    PROVE  SafeInv'
<1>1. /\ pc[c] = "idle" /\ pc' = [pc EXCEPT ![c] = "begun"]
      /\ inside' = [inside EXCEPT ![s][h] = c]
      /\ h = "disconnected" => torn[s] = "callback"
      /\ UNCHANGED <<repo, stage, user, torn, past, work, op>>
  BY DEF CallInside, InCallback, registry, session, teardown
<1>2. work[c] = {}
  BY <1>1 DEF SafeInv, Typing, CallShape
<1>3. PastShape' /\ RepoShape'
  BY <1>1 DEF SafeInv, PastShape, RepoShape, Gone
<1>4. WorkShape'
  BY <1>1 DEF SafeInv, WorkShape, Typing, TypeOK, BeforeLeft
<1>5. CallbackShape'
  <2> SUFFICES ASSUME NEW t \in Sessions, NEW d \in Calls,
                      inside'[t]["disconnected"] = d
               PROVE  /\ Gone(t)'
                      /\ \A i, j \in 1..Len(past') :
                          (past'[i] = t /\ past'[j] \in work'[d]) => i < j
    BY DEF CallbackShape
  <2>1. CASE inside[t]["disconnected"] = d
    BY <1>1, <2>1 DEF SafeInv, CallbackShape, Gone
  <2>2. CASE inside[t]["disconnected"] # d
    <3>1. t = s /\ h = "disconnected" /\ d = c
      BY <1>1, <2>2 DEF SafeInv, Typing, TypeOK, Handlers
    <3> QED
      BY <1>1, <1>2, <3>1 DEF Gone
  <2> QED
    BY <2>1, <2>2
<1> QED
  BY <1>3, <1>4, <1>5 DEF SafeInv

\* Every step of a session keeps the invariant.
LEMMA SafeSession ==
    ASSUME SafeInv, Typing', NEW s \in Sessions,
           Establish(s) \/ IceFails(s) \/ ReceiveEnds(s) \/ Teardown(s)
    PROVE  SafeInv'
<1> USE DEF registry, session, teardown, call
<1>1. CASE TakeCreds(s) \/ Announced(s)
  <2>1. \A t \in Sessions : stage'[t] = "unborn" <=> stage[t] = "unborn"
    BY <1>1 DEF TakeCreds, Announced, SafeInv, Typing, TypeOK
  <2> QED
    BY <1>1, <2>1, SafeMove DEF TakeCreds, Announced
<1>2. ASSUME NEW from \in Stages \ {"unborn"}, NEW to \in Stages \ {"unborn"},
             StageGoto(s, from, to)
      PROVE  SafeInv'
  <2>1. \A t \in Sessions : stage'[t] = "unborn" <=> stage[t] = "unborn"
    BY <1>2 DEF StageGoto, SafeInv, Typing, TypeOK
  <2> QED
    BY <1>2, <2>1, SafeMove DEF StageGoto
<1>8. CASE Dial(s) \/ StoreConn(s) \/ SetupStreams(s) \/ Announce(s)
  BY <1>2, <1>8 DEF Dial, StoreConn, SetupStreams, Announce, Stages
<1>9. CASE EstablishFails(s)
  BY <1>2, <1>9 DEF EstablishFails, Stages
<1>10. CASE ResetFailed(s)
  <2>1. \A t \in Sessions : stage'[t] = "unborn" <=> stage[t] = "unborn"
    BY <1>10 DEF ResetFailed, SafeInv, Typing, TypeOK
  <2> QED
    BY <1>10, <2>1, SafeMove DEF ResetFailed, Remove
<1>3. CASE IceFails(s)
  BY <1>3, SafeMove DEF IceFails
<1>4. CASE ReceiveEnds(s)
  <2>1. Gone(s)' <=> Gone(s)
    BY <1>4 DEF ReceiveEnds, StartTeardown, SafeInv, Typing, TypeOK, Gone
  <2>2. stage[s] # "unborn"
    BY <1>4 DEF ReceiveEnds, Ready
  <2> QED
    BY <1>4, <2>1, <2>2, SafeTorn DEF ReceiveEnds, StartTeardown
<1>5. CASE DeleteSession(s)
  BY <1>5, SafeDelete
<1>6. ASSUME NEW from \in {"deleted", "blocked", "callback"},
             NEW to \in {"blocked", "callback", "done"},
             TornGoto(s, from, to),
             UNCHANGED <<repo, stage, user, inside, past, work, pc, op>>
      PROVE  SafeInv'
  <2>1. /\ torn[s] = from /\ torn' = [torn EXCEPT ![s] = to]
        /\ stage[s] # "unborn"
    BY <1>6 DEF TornGoto, SafeInv, RepoShape
  <2>2. Gone(s)' <=> Gone(s)
    BY <2>1 DEF SafeInv, Typing, TypeOK, Gone
  <2> QED
    BY <1>6, <2>1, <2>2, SafeTorn
<1>7. CASE \/ SignalLeave(s) \/ SignalBlocks(s)
           \/ CallDisconnected(s) \/ DisconnectedReturns(s)
  BY <1>6, <1>7 DEF SignalLeave, SignalBlocks, CallDisconnected,
     DisconnectedReturns
<1> QED
  BY <1>1, <1>3, <1>4, <1>5, <1>7, <1>8, <1>9, <1>10 DEF Establish, Teardown

\* Every step of a call does.
LEMMA SafeCalls ==
    ASSUME SafeInv, Typing', NEW c \in Calls, Begin(c) \/ CallRuns(c) \/ Worker(c)
    PROVE  SafeInv'
<1> USE DEF registry, session, teardown, Is
<1>1. ASSUME NEW from, NEW to, CallStep(c, from, to), UNCHANGED work,
             to \notin BeforeLeft =>
                \/ from \notin BeforeLeft
                \/ \A s \in work[c] : torn[s] = "done"
      PROVE  SafeInv'
  BY <1>1, SafeCall DEF CallStep, CallGoto, SafeInv, Typing, TypeOK
<1>2. pc[c] \in {"begun", "refetch"} => work[c] = {}
  BY DEF SafeInv, Typing, CallShape
<1>3. ASSUME NEW e, Return(c, "begun", e) PROVE SafeInv'
  BY <1>1, <1>2, <1>3 DEF Return, CallStep, CallGoto, BeforeLeft
<1>4. CASE Begin(c)
  BY <1>1, <1>4 DEF Begin, BeforeLeft
<1>5. CASE ToHimself(c) \/ AlreadyConnected(c) \/ GetNone(c) \/ Sends(c) \/ Fetches(c)
  BY <1>3, <1>5 DEF ToHimself, AlreadyConnected, GetNone, Sends, Fetches
<1>6. CASE LooksAround(c) \/ ConnectsById(c) \/ Fork(c) \/ AskedSessions(c)
  <2>1. CASE LooksAround(c) \/ ConnectsById(c)
    <3>1. pc[c] = "begun"
      BY <2>1 DEF LooksAround, ConnectsById, CallStep, CallGoto
    <3> QED
      BY <1>1, <1>2, <2>1, <3>1 DEF LooksAround, ConnectsById
  <2>2. CASE Fork(c) \/ AskedSessions(c)
    BY <1>1, <2>2 DEF Fork, AskedSessions, BeforeLeft
  <2> QED
    BY <1>6, <2>1, <2>2
<1>7. CASE FetchAll(c)
  <2>1. /\ work' = [work EXCEPT ![c] = Current] /\ pc' = [pc EXCEPT ![c] = "leaving"]
        /\ UNCHANGED <<repo, stage, user, torn, inside, past, op>>
    BY <1>7 DEF FetchAll, CallStep, CallGoto
  <2> QED
    BY <2>1, SafeWork
<1>8. CASE GetOne(c)
  <2>1. /\ work' = [work EXCEPT ![c] = {repo[op[c].target]}]
        /\ pc' = [pc EXCEPT ![c] = "leaving"]
        /\ UNCHANGED <<repo, stage, user, torn, inside, past, op>>
    BY <1>8 DEF GetOne, CallStep, CallGoto
  <2>2. {repo[op[c].target]} \in SUBSET Current
    BY <1>8 DEF GetOne, Current
  <2> QED
    BY <2>1, <2>2, SafeWork
<1>9. CASE CloseService(c)
  BY <1>9, SafeCall DEF CloseService, CallGoto, SafeInv, Typing, TypeOK,
     BeforeLeft
<1>10. ASSUME NEW s \in Sessions, LeaveSession(c, s) PROVE SafeInv'
  <2>1. stage[s] # "unborn"
    BY <1>10 DEF LeaveSession, SafeInv, WorkShape
  <2>2. Gone(s)' <=> Gone(s)
    BY <1>10 DEF LeaveSession, StartTeardown, SafeInv, Typing, TypeOK, Gone
  <2> QED
    BY <1>10, <2>1, <2>2, SafeTorn DEF LeaveSession, StartTeardown, call
<1>11. CASE Left(c)
  BY <1>1, <1>11 DEF Left
<1>12. CASE AskingFails(c) \/ Joined(c)
  BY <1>1, <1>12 DEF AskingFails, Joined, Return, BeforeLeft
<1>14. ASSUME NEW w \in Workers, WorkerCreates(c, w) PROVE SafeInv'
  BY <1>14, SafeCreate DEF WorkerCreates, Workers
<1>15. ASSUME NEW w \in Workers, WorkerFails(c, w) PROVE SafeInv'
  BY <1>15, SafeMove DEF WorkerFails
<1> QED
  BY <1>4, <1>5, <1>6, <1>7, <1>8, <1>9, <1>10, <1>11, <1>12, <1>14, <1>15
  DEF CallRuns, Check, Worker

\* Every step of a message does.
LEMMA SafeIntake ==
    ASSUME SafeInv, Typing', NEW m \in Messages, Take(m) \/ Process(m)
    PROVE  SafeInv'
<1> USE DEF registry, session, teardown, call
<1>1. CASE LeaderCreates(m) \/ Recreate(m)
  <2>1. msg[m] # "sent"
    BY <1>1 DEF LeaderCreates, Recreate, MsgGoto
  <2>2. sdp[m].from \in Peers
    BY <2>1 DEF SafeInv, Typing, MessageShape
  <2> QED
    BY <1>1, <2>2, SafeCreate DEF LeaderCreates, Lands, Recreate
<1>2. CASE StartOver(m)
  BY <1>2, SafeMove DEF StartOver, Remove
<1>3. CASE \/ Take(m) \/ LeaderFails(m) \/ AddCandidate(m) \/ StartOverHangs(m)
           \/ TakeCredentials(m) \/ RecreateFails(m)
  BY <1>3, SafeMove
  DEF Take, Find, Lead, Follow, LeaderFails, Lands, AddCandidate, StartOverHangs,
      TakeCredentials, RecreateFails, MsgStep
<1> QED
  BY <1>1, <1>2, <1>3 DEF Process

\* Every step keeps the invariant.
LEMMA SafeNext == SafeInv /\ [Next]_vars => SafeInv'
<1> SUFFICES ASSUME SafeInv, [Next]_vars PROVE SafeInv'
  OBVIOUS
<1>1. Typing'
  BY TypingNext DEF SafeInv
<1>2. CASE UNCHANGED vars
  BY <1>1, <1>2, SafeMove DEF vars, registry, session, teardown, call
<1>3. CASE Next
  BY <1>1, <1>3, SafeSession, SafeIntake, SafeInside, SafeCalls DEF Next
<1> QED
  BY <1>2, <1>3

\* The invariant holds in every reachable state.
LEMMA SafeAlways == Spec => []SafeInv
BY SafeInit, SafeNext, PTL DEF Spec

\* When Disconnect, DisconnectById or the close function has returned, and
\* when a Connect goes on after its Disconnect, the sessions that were found
\* are torn down to the end, whoever ran the bodies, and are not in the
\* repository.
THEOREM LeavingIsThorough == Spec => []LeftIsGone
<1>1. SafeInv => LeftIsGone
  BY DEF SafeInv, WorkShape, BeforeLeft, RepoShape, Typing, TypeOK, LeftIsGone,
     Current, Gone
<1> QED
  BY <1>1, SafeAlways, PTL

-----------------------------------------------------------------------------
(* The steps of the registry.                                              *)

RegistryStep == [Registry!Next]_(Registry!vars)

\* Steps the registry does not see.
LEMMA RegistryUnseen ==
    ASSUME UNCHANGED <<repo, torn, leave>>,
           \A s \in Sessions : /\ stage'[s] = "unborn" <=> stage[s] = "unborn"
                               /\ stage'[s] \in {"announcing", "ready"} <=>
                                    stage[s] \in {"announcing", "ready"}
    PROVE  RegistryStep
BY DEF RegistryStep, Registry!vars, Unborn

\* A session that is taken out belongs to one user at most.
LEMMA RegistryRemove ==
    ASSUME SafeInv, NEW s, Remove(s),
           \A t \in Sessions : /\ stage'[t] = "unborn" <=> stage[t] = "unborn"
                               /\ stage'[t] \in {"announcing", "ready"} <=>
                                    stage[t] \in {"announcing", "ready"}
                               /\ (torn'[t] \in {"callback", "done"} /\ ~leave'[t]) <=>
                                    (torn[t] \in {"callback", "done"} /\ ~leave[t])
    PROVE  RegistryStep
<1>1. /\ (Sessions \ Unborn)' = Sessions \ Unborn
      /\ {t \in Sessions : stage'[t] \in {"announcing", "ready"}}
            = {t \in Sessions : stage[t] \in {"announcing", "ready"}}
      /\ {t \in Sessions : torn'[t] \in {"callback", "done"} /\ ~leave'[t]}
            = {t \in Sessions : torn[t] \in {"callback", "done"} /\ ~leave[t]}
  BY DEF Unborn
<1>2. CASE \E u \in Peers : repo[u] = s /\ s # NoSession
  <2>1. PICK u \in Peers : repo[u] = s /\ s # NoSession
    BY <1>2
  <2>2. \A v \in Peers : repo[v] = s => v = u
    BY <2>1 DEF SafeInv, RepoShape
  <2>3. repo' = [repo EXCEPT ![u] = NoSession]
    BY <2>1, <2>2 DEF Remove, SafeInv, Typing, TypeOK
  <2> QED
    BY <1>1, <2>1, <2>3 DEF RegistryStep, Registry!Next, Registry!Remove
<1>3. CASE ~\E u \in Peers : repo[u] = s /\ s # NoSession
  <2>1. repo' = repo
    BY <1>3 DEF Remove, SafeInv, Typing, TypeOK
  <2> QED
    BY <1>1, <2>1 DEF RegistryStep, Registry!vars
<1> QED
  BY <1>2, <1>3

\* A session that is created enters.
LEMMA RegistryCreate ==
    ASSUME SafeInv, NEW u \in Peers, Create(u), UNCHANGED <<torn, leave>>
    PROVE  RegistryStep
<1> DEFINE s == NextSession
<1>1. /\ s \in Sessions /\ stage[s] = "unborn" /\ repo[u] = NoSession
      /\ repo' = [repo EXCEPT ![u] = s]
      /\ stage' = [stage EXCEPT ![s] = "waiting"]
  BY NextIsUnborn DEF Create
<1> HIDE DEF s
<1>2. (Sessions \ Unborn)' = (Sessions \ Unborn) \cup {s} /\ s \notin Sessions \ Unborn
  BY <1>1 DEF Unborn, SafeInv, Typing, TypeOK
<1>3. {t \in Sessions : stage'[t] \in {"announcing", "ready"}}
        = {t \in Sessions : stage[t] \in {"announcing", "ready"}}
  BY <1>1 DEF SafeInv, Typing, TypeOK
<1>4. Registry!Enter(u, s)
  BY <1>1, <1>2, <1>3 DEF Registry!Enter
<1> QED
  BY <1>1, <1>4 DEF RegistryStep, Registry!Next

\* The steps of a session are steps of the registry.
LEMMA RegistrySession ==
    ASSUME SafeInv, NEW s \in Sessions,
           Establish(s) \/ IceFails(s) \/ ReceiveEnds(s) \/ Teardown(s)
    PROVE  RegistryStep
<1> USE DEF registry, session, teardown
<1>1. CASE TakeCreds(s) \/ Announced(s)
  <2>1. \A t \in Sessions : /\ stage'[t] = "unborn" <=> stage[t] = "unborn"
                            /\ stage'[t] \in {"announcing", "ready"} <=>
                                 stage[t] \in {"announcing", "ready"}
    BY <1>1 DEF TakeCreds, Announced, SafeInv, Typing, TypeOK
  <2> QED
    BY <1>1, <2>1, RegistryUnseen DEF TakeCreds, Announced
<1>9. ASSUME NEW from \in {"waiting", "dialing", "dialed", "keying"},
             NEW to \in {"dialed", "keying", "opened", "failed"},
             StageGoto(s, from, to)
      PROVE  RegistryStep
  <2>1. \A t \in Sessions : /\ stage'[t] = "unborn" <=> stage[t] = "unborn"
                            /\ stage'[t] \in {"announcing", "ready"} <=>
                                 stage[t] \in {"announcing", "ready"}
    BY <1>9 DEF StageGoto, SafeInv, Typing, TypeOK
  <2> QED
    BY <1>9, <2>1, RegistryUnseen DEF StageGoto
<1>10. CASE Dial(s) \/ StoreConn(s) \/ SetupStreams(s) \/ EstablishFails(s)
  BY <1>9, <1>10 DEF Dial, StoreConn, SetupStreams, EstablishFails
<1>2. CASE ResetFailed(s)
  <2>1. \A t \in Sessions : /\ stage'[t] = "unborn" <=> stage[t] = "unborn"
                            /\ stage'[t] \in {"announcing", "ready"} <=>
                                 stage[t] \in {"announcing", "ready"}
    BY <1>2 DEF ResetFailed, SafeInv, Typing, TypeOK
  <2>2. Remove(s) /\ UNCHANGED <<torn, leave>>
    BY <1>2 DEF ResetFailed
  <2> QED
    BY <2>1, <2>2, RegistryRemove
<1>3. CASE Announce(s)
  <2>1. /\ stage[s] = "opened" /\ stage' = [stage EXCEPT ![s] = "announcing"]
        /\ UNCHANGED <<repo, torn, leave>>
    BY <1>3 DEF Announce, StageGoto
  <2>2. (Sessions \ Unborn)' = Sessions \ Unborn /\ s \in Sessions \ Unborn
    BY <2>1 DEF Unborn, SafeInv, Typing, TypeOK
  <2>3. /\ {t \in Sessions : stage'[t] \in {"announcing", "ready"}}
             = {t \in Sessions : stage[t] \in {"announcing", "ready"}} \cup {s}
        /\ s \notin {t \in Sessions : stage[t] \in {"announcing", "ready"}}
    BY <2>1 DEF SafeInv, Typing, TypeOK
  <2>4. Registry!ReportUp(s)
    BY <2>1, <2>2, <2>3 DEF Registry!ReportUp
  <2> QED
    BY <2>4 DEF RegistryStep, Registry!Next
<1>4. CASE IceFails(s)
  BY <1>4, RegistryUnseen DEF IceFails
<1>5. CASE ReceiveEnds(s)
  <2>1. torn[s] = "no" /\ torn' = [torn EXCEPT ![s] = "closing"]
          /\ leave' = [leave EXCEPT ![s] = FALSE] /\ UNCHANGED <<repo, stage>>
    BY <1>5 DEF ReceiveEnds, StartTeardown
  <2>2. {t \in Sessions : torn'[t] \in {"callback", "done"} /\ ~leave'[t]}
          = {t \in Sessions : torn[t] \in {"callback", "done"} /\ ~leave[t]}
    BY <2>1 DEF SafeInv, Typing, TypeOK
  <2> QED
    BY <2>1, <2>2 DEF RegistryStep, Registry!vars, Unborn
<1>6. CASE DeleteSession(s)
  <2>1. Remove(s) /\ UNCHANGED <<stage, leave>>
    BY <1>6 DEF DeleteSession
  <2>2. \A t \in Sessions : torn'[t] \in {"callback", "done"} <=>
                              torn[t] \in {"callback", "done"}
    BY <1>6 DEF DeleteSession, TornGoto, SafeInv, Typing, TypeOK
  <2> QED
    BY <2>1, <2>2, RegistryRemove
<1>7. CASE SignalLeave(s) \/ SignalBlocks(s) \/ DisconnectedReturns(s)
  <2>1. {t \in Sessions : torn'[t] \in {"callback", "done"} /\ ~leave'[t]}
          = {t \in Sessions : torn[t] \in {"callback", "done"} /\ ~leave[t]}
    BY <1>7 DEF SignalLeave, SignalBlocks, DisconnectedReturns, TornGoto,
       SafeInv, Typing, TypeOK
  <2> QED
    BY <1>7, <2>1 DEF SignalLeave, SignalBlocks, DisconnectedReturns, RegistryStep,
       Registry!vars, Unborn
<1>8. CASE CallDisconnected(s)
  <2>1. /\ ~leave[s] /\ torn[s] = "deleted" /\ torn' = [torn EXCEPT ![s] = "callback"]
        /\ UNCHANGED <<repo, stage, leave>>
    BY <1>8 DEF CallDisconnected, TornGoto
  <2>2. /\ {t \in Sessions : torn'[t] \in {"callback", "done"} /\ ~leave'[t]}
             = {t \in Sessions : torn[t] \in {"callback", "done"} /\ ~leave[t]} \cup {s}
        /\ s \notin {t \in Sessions : torn[t] \in {"callback", "done"} /\ ~leave[t]}
    BY <2>1 DEF SafeInv, Typing, TypeOK
  <2>3. s \in Sessions \ Unborn
    BY <2>1 DEF SafeInv, RepoShape, Unborn
  <2>4. \A u \in Peers : repo[u] # s
    BY <2>1, NameAssumption DEF SafeInv, RepoShape, Gone
  <2>5. (Sessions \ Unborn)' = Sessions \ Unborn
    BY <2>1 DEF Unborn
  <2>6. Registry!ReportDown(s)
    BY <2>1, <2>2, <2>3, <2>4, <2>5 DEF Registry!ReportDown
  <2> QED
    BY <2>6 DEF RegistryStep, Registry!Next
<1> QED
  BY <1>1, <1>2, <1>3, <1>4, <1>5, <1>6, <1>7, <1>8, <1>10 DEF Establish, Teardown

\* The steps of a call are.
LEMMA RegistryCall ==
    ASSUME SafeInv, NEW c \in Calls, Begin(c) \/ CallRuns(c) \/ Worker(c)
    PROVE  RegistryStep
<1> USE DEF registry, session, teardown
<1>1. ASSUME UNCHANGED <<registry, session, teardown>> PROVE RegistryStep
  BY <1>1, RegistryUnseen
<1>2. ASSUME NEW s \in Sessions, LeaveSession(c, s) PROVE RegistryStep
  <2>1. torn[s] = "no" /\ torn' = [torn EXCEPT ![s] = "closing"]
          /\ leave' = [leave EXCEPT ![s] = TRUE] /\ UNCHANGED <<repo, stage>>
    BY <1>2 DEF LeaveSession, StartTeardown
  <2>2. {t \in Sessions : torn'[t] \in {"callback", "done"} /\ ~leave'[t]}
          = {t \in Sessions : torn[t] \in {"callback", "done"} /\ ~leave[t]}
    BY <2>1 DEF SafeInv, Typing, TypeOK
  <2> QED
    BY <2>1, <2>2 DEF RegistryStep, Registry!vars, Unborn
<1>3. ASSUME NEW w \in Workers, WorkerCreates(c, w) PROVE RegistryStep
  BY <1>3, RegistryCreate DEF WorkerCreates, Workers
<1>4. ASSUME NEW w \in Workers, WorkerFails(c, w) PROVE RegistryStep
  BY <1>1, <1>4 DEF WorkerFails
<1>5. CASE Begin(c) \/ Left(c) \/ Fork(c) \/ AskedSessions(c) \/ AskingFails(c)
            \/ Joined(c)
  BY <1>1, <1>5 DEF Begin, Left, Fork, AskedSessions, AskingFails, Joined, Return,
     CallStep
<1>6. CASE Check(c)
  BY <1>1, <1>6 DEF Check, ToHimself, AlreadyConnected, LooksAround, ConnectsById,
     FetchAll, GetOne, GetNone, CloseService, Sends, Fetches, Return, CallStep
<1> QED
  BY <1>2, <1>3, <1>4, <1>5, <1>6 DEF CallRuns, Worker

\* And those of the messages.
LEMMA RegistryIntake ==
    ASSUME SafeInv, NEW m \in Messages, Take(m) \/ Process(m)
    PROVE  RegistryStep
<1> USE DEF registry, session, teardown
<1>1. ASSUME UNCHANGED <<repo, stage, torn, leave>> PROVE RegistryStep
  BY <1>1, RegistryUnseen
<1>2. CASE LeaderCreates(m) \/ Recreate(m)
  <2>1. sdp[m].from \in Peers
    BY <1>2 DEF LeaderCreates, Recreate, MsgGoto, SafeInv, Typing, MessageShape
  <2> QED
    BY <1>2, <2>1, RegistryCreate DEF LeaderCreates, Lands, Recreate
<1>3. CASE StartOver(m)
  BY <1>3, RegistryRemove DEF StartOver
<1>4. CASE \/ Take(m) \/ LeaderFails(m) \/ AddCandidate(m) \/ StartOverHangs(m)
           \/ TakeCredentials(m) \/ RecreateFails(m)
  BY <1>1, <1>4 DEF Take, Find, Lead, Follow, LeaderFails, Lands, AddCandidate,
     StartOverHangs, TakeCredentials, RecreateFails, MsgStep
<1> QED
  BY <1>2, <1>3, <1>4 DEF Process

\* Whatever calls and messages do at once, every step is one that
\* SessionRegistry allows: a user's session is never replaced, one that
\* was removed stays out, and Disconnected is told at most once, of a session
\* the repository no longer has.
THEOREM KeepsRegistry == Spec => RegistrySteps
<1>1. ASSUME SafeInv, [Next]_vars PROVE RegistryStep
  <2>1. ASSUME NEW s \in Sessions, NEW h \in Handlers, NEW c \in Calls,
               CallInside(s, h, c)
        PROVE  RegistryStep
    BY <2>1, RegistryUnseen DEF CallInside, registry, session, teardown
  <2>2. CASE UNCHANGED vars
    BY <2>2, RegistryUnseen DEF vars, registry, session, teardown
  <2>3. CASE Next
    BY <1>1, <2>1, <2>3, RegistrySession, RegistryCall, RegistryIntake DEF Next
  <2> QED
    BY <1>1, <2>2, <2>3
<1> QED
  BY <1>1, SafeAlways, PTL DEF Spec, RegistrySteps, RegistryStep

-----------------------------------------------------------------------------
(* Callbacks that wait.                                                    *)

\* The sessions of past, from the last to the first: a relation that cannot
\* go down for ever.
LEMMA LastInPast ==
    ASSUME SafeInv, NEW S, S # {}, \A s \in S : \E i \in 1..Len(past) : past[i] = s
    PROVE  \E i \in 1..Len(past) :
              past[i] \in S /\ \A j \in 1..Len(past) : past[j] \in S => j <= i
<1> DEFINE T == {n \in Nat : n < Len(past) /\ past[Len(past) - n] \in S}
<1>1. Len(past) \in Nat
  BY DEF SafeInv, Typing, TypeOK
<1>2. T # {}
  <2>1. PICK s \in S : TRUE
    OBVIOUS
  <2>2. PICK i \in 1..Len(past) : past[i] = s
    BY <2>1
  <2>3. Len(past) - i \in Nat /\ Len(past) - i < Len(past)
          /\ past[Len(past) - (Len(past) - i)] = s
    BY <1>1, <2>2
  <2>4. Len(past) - i \in T
    BY <2>3
  <2> QED
    BY <2>4
<1>3. PICK n \in T : \A k \in T : ~(<<k, n>> \in OpToRel(<, Nat))
  <2>1. T \subseteq Nat
    OBVIOUS
  <2> HIDE DEF T
  <2> QED
    BY <1>2, <2>1, NatLessThanWellFounded, WFMin
<1>4. \A k \in T : n <= k
  <2>1. n \in Nat
    OBVIOUS
  <2>2. ASSUME NEW k \in Nat, k < n PROVE <<k, n>> \in OpToRel(<, Nat)
    <3>1. <<k, n>> \in Nat \X Nat /\ <<k, n>>[1] = k /\ <<k, n>>[2] = n
      BY <2>1
    <3>2. <<k, n>>[1] < <<k, n>>[2]
      BY <2>2, <3>1
    <3> HIDE DEF T
    <3> QED
      BY <3>1, <3>2, Zenon DEF OpToRel
  <2>3. \A k \in T : k \in Nat
    OBVIOUS
  <2>4. ASSUME NEW k \in T PROVE ~(k < n)
    <3> HIDE DEF T
    <3> QED
      BY <1>3, <2>2, <2>3, Zenon
  <2> QED
    BY <2>1, <2>3, <2>4
<1>5. Len(past) - n \in 1..Len(past) /\ past[Len(past) - n] \in S
  BY <1>1
<1>6. ASSUME NEW j \in 1..Len(past), past[j] \in S PROVE j <= Len(past) - n
  <2>1. Len(past) - j \in Nat /\ Len(past) - j < Len(past)
          /\ past[Len(past) - (Len(past) - j)] = past[j]
    BY <1>1, <1>6
  <2>2. Len(past) - j \in T
    BY <1>6, <2>1
  <2> QED
    BY <1>1, <1>4, <2>2
<1> QED
  BY <1>5, <1>6

\* Sessions that wait in a circle for each other's Disconnected callbacks do
\* not exist: each of them would be in past, and a callback's call waits only
\* for sessions that left after its own.
LEMMA NoCircle == SafeInv => NoCircularWait
<1> SUFFICES ASSUME SafeInv, NEW S \in SUBSET Sessions, S # {},
                    \A s \in S : \E t \in S : WaitsFor(s, t)
             PROVE  FALSE
  BY DEF NoCircularWait
<1>1. \A s \in S : \E i \in 1..Len(past) : past[i] = s
  BY DEF SafeInv, PastShape, WaitsFor, Gone
<1>2. PICK i \in 1..Len(past) :
              past[i] \in S /\ \A j \in 1..Len(past) : past[j] \in S => j <= i
  BY <1>1, LastInPast
<1>3. PICK t \in S : WaitsFor(past[i], t)
  BY <1>2
<1>4. PICK j \in 1..Len(past) : past[j] = t
  BY <1>1
<1> DEFINE c == inside[past[i]]["disconnected"]
<1>5. c \in Calls /\ t \in work[c]
  BY <1>2, <1>3 DEF SafeInv, Typing, TypeOK, WaitsFor, Handlers
<1>6. i < j
  BY <1>2, <1>4, <1>5 DEF SafeInv, CallbackShape
<1>7. j <= i
  BY <1>2, <1>4
<1> QED
  BY <1>6, <1>7

\* Disconnect, DisconnectById and Delete may be called from within a
\* Disconnected callback, and still no two teardowns ever wait for each other.
THEOREM NoCircleOfCallbacks == Spec => []NoCircularWait
  BY SafeAlways, NoCircle, PTL
=============================================================================
