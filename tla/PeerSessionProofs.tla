------------------------- MODULE PeerSessionProofs -------------------------
(***************************************************************************)
(* The safety properties of PeerSession, for every set of users, every set *)
(* of session objects and every choice of the reset callers.               *)
(***************************************************************************)
EXTENDS PeerSession, TLAPS

-----------------------------------------------------------------------------
(* Type correctness.                                                       *)

\* The initial values have their types.
LEMMA TypingInit == Init => TypeOK
<1> SUFFICES ASSUME Init PROVE TypeOK
  OBVIOUS
<1>1. reset \in [Sessions -> [Resetters -> ResetSteps]]
  BY DEF Init, ResetSteps
<1> QED
  BY <1>1 DEF Init, TypeOK, Stages, Unregistered, TeardownSteps, ChanStates

\* A move of the session's own goroutine between two stages keeps the types.
LEMMA TypingAdvance ==
    ASSUME TypeOK, NEW s \in Sessions, NEW from \in Stages, NEW to \in Stages,
           Advance(s, from, to)
    PROVE  TypeOK'
BY DEF Advance, Goto, TypeOK, directory, link, chans, down, calls, told

\* Every step keeps the types.
LEMMA TypingStep == TypeOK /\ [Next]_vars => TypeOK'
<1> SUFFICES ASSUME TypeOK, [Next]_vars PROVE TypeOK'
  OBVIOUS
<1> USE DEF directory, link, chans, down, calls, told
<1>1. CASE UNCHANGED vars
  BY <1>1 DEF TypeOK, vars
<1>2. CASE CloseApp
  BY <1>2 DEF TypeOK, CloseApp
<1>3. ASSUME NEW s \in Sessions, NEW p \in Peers, Create(s, p) PROVE TypeOK'
  BY <1>3 DEF TypeOK, Create, Goto, Stages, Unregistered
<1>4. ASSUME NEW s \in Sessions, NEW r \in Resetters, ResetSession(s, r)
      PROVE  TypeOK'
  <2>1. CASE ResetConn(s, r)
    BY <2>1 DEF TypeOK, ResetConn, ResetGoto, CloseConn, ResetSteps
  <2>2. CASE ResetAgent(s, r)
    BY <2>2 DEF TypeOK, ResetAgent, GracefulClose, ResetGoto, ResetSteps
  <2>3. CASE ResetDelete(s, r)
    BY <2>3 DEF TypeOK, ResetDelete, ResetGoto, CompareAndDelete, ResetSteps
  <2> QED
    BY <1>4, <2>1, <2>2, <2>3 DEF ResetSession
<1>5. ASSUME NEW s \in Sessions, EstablishFails(s) PROVE TypeOK'
  BY <1>5, TypingAdvance DEF EstablishFails, Stages, Dialled
<1>6. ASSUME NEW s \in Sessions, CreateFails(s) PROVE TypeOK'
  BY <1>6, TypingAdvance DEF CreateFails, Stages, Unregistered, Dialled
<1>7. ASSUME NEW s \in Sessions, Publish(s) PROVE TypeOK'
  BY <1>7, TypingAdvance DEF Publish, Stages, Unregistered, Dialled
<1>8. ASSUME NEW s \in Sessions, PublishFails(s) PROVE TypeOK'
  BY <1>8, TypingAdvance DEF PublishFails, Stages, Unregistered, Dialled
<1>9. ASSUME NEW s \in Sessions, RegisterTimesOut(s) PROVE TypeOK'
  BY <1>9, TypingAdvance DEF RegisterTimesOut, Stages, Unregistered, Dialled
<1>10. ASSUME NEW s \in Sessions, SeeClosing(s) PROVE TypeOK'
  BY <1>10, TypingAdvance DEF SeeClosing, Stages, Unregistered, Dialled
<1>11. ASSUME NEW s \in Sessions, DialSucceeds(s) PROVE TypeOK'
  BY <1>11, TypingAdvance DEF DialSucceeds, Stages, Unregistered, Dialled
<1>12. ASSUME NEW s \in Sessions, SetupE2EE(s) PROVE TypeOK'
  BY <1>12, TypingAdvance DEF SetupE2EE, Stages, Unregistered, Dialled
<1>13. ASSUME NEW s \in Sessions, InitEventStream(s) PROVE TypeOK'
  BY <1>13, TypingAdvance DEF InitEventStream, Stages, Unregistered, Dialled
<1>14. ASSUME NEW s \in Sessions, Launch(s) PROVE TypeOK'
  BY <1>14, TypingAdvance DEF Launch, Stages, Unregistered, Dialled
<1>15. ASSUME NEW s \in Sessions, NewAgent(s) PROVE TypeOK'
  BY <1>15 DEF TypeOK, NewAgent, Goto, Stages, Unregistered
<1>16. ASSUME NEW s \in Sessions, Register(s) PROVE TypeOK'
  BY <1>16 DEF TypeOK, Register, Goto, LoadOrStore, Stages, Unregistered
<1>17. ASSUME NEW s \in Sessions, ReceiveCreds(s) PROVE TypeOK'
  BY <1>17 DEF TypeOK, ReceiveCreds
<1>18. ASSUME NEW s \in Sessions, TakeToken(s) PROVE TypeOK'
  BY <1>18 DEF TypeOK, TakeToken, Goto, Stages, Dialled
<1>19. ASSUME NEW s \in Sessions, StoreConn(s) PROVE TypeOK'
  BY <1>19 DEF TypeOK, StoreConn, Goto, Stages, Dialled
<1>20. ASSUME NEW s \in Sessions, Announce(s) PROVE TypeOK'
  BY <1>20 DEF TypeOK, Announce, Goto, Stages, Dialled
<1>21. ASSUME NEW s \in Sessions, SignalReady(s) PROVE TypeOK'
  BY <1>21 DEF TypeOK, SignalReady, Goto, Close, Stages, Dialled, ChanStates
<1>22. ASSUME NEW s \in Sessions, SignalFailure(s) PROVE TypeOK'
  BY <1>22 DEF TypeOK, SignalFailure, Goto, Close, Stages, Dialled, Resetters,
     ResetSteps, ChanStates
<1>23. ASSUME NEW s \in Sessions, IceFails(s) PROVE TypeOK'
  BY <1>23 DEF TypeOK, IceFails, Resetters, ResetSteps
<1>24. ASSUME NEW s \in Sessions, CredsForConnected(s) PROVE TypeOK'
  BY <1>24 DEF TypeOK, CredsForConnected, Resetters, ResetSteps
<1>25. ASSUME NEW s \in Sessions, ReceiveFails(s) PROVE TypeOK'
  BY <1>25 DEF TypeOK, ReceiveFails, Disconnect, TeardownSteps
<1>26. ASSUME NEW s \in Sessions, SendInStream(s) PROVE TypeOK'
  BY <1>26 DEF TypeOK, SendInStream
<1>27. ASSUME NEW s \in Sessions, SendSucceeds(s) PROVE TypeOK'
  BY <1>27 DEF TypeOK, SendSucceeds
<1>28. ASSUME NEW s \in Sessions, SendFails(s) PROVE TypeOK'
  BY <1>28 DEF TypeOK, SendFails, Disconnect, TeardownSteps
<1>29. ASSUME NEW s \in Sessions, PickToLeave(s) PROVE TypeOK'
  BY <1>29 DEF TypeOK, PickToLeave
<1>30. ASSUME NEW s \in Sessions, Leave(s) PROVE TypeOK'
  BY <1>30 DEF TypeOK, Leave, Disconnect, TeardownSteps
<1>31. ASSUME NEW s \in Sessions, TeardownConn(s) PROVE TypeOK'
  BY <1>31 DEF TypeOK, TeardownConn, TeardownGoto, CloseConn, TeardownSteps
<1>32. ASSUME NEW s \in Sessions, TeardownAgent(s) PROVE TypeOK'
  BY <1>32 DEF TypeOK, TeardownAgent, GracefulClose, TeardownGoto, TeardownSteps
<1>33. ASSUME NEW s \in Sessions, TeardownMedia(s) PROVE TypeOK'
  BY <1>33 DEF TypeOK, TeardownMedia, TeardownGoto, Close, TeardownSteps,
     ChanStates
<1>34. ASSUME NEW s \in Sessions, TeardownDelete(s) PROVE TypeOK'
  BY <1>34 DEF TypeOK, TeardownDelete, TeardownGoto, CompareAndDelete,
     TeardownSteps
<1>35. ASSUME NEW s \in Sessions, TeardownSignal(s) PROVE TypeOK'
  BY <1>35 DEF TypeOK, TeardownSignal, TeardownGoto, TeardownSteps
<1>36. ASSUME NEW s \in Sessions, TeardownNotify(s) PROVE TypeOK'
  BY <1>36 DEF TypeOK, TeardownNotify, TeardownGoto, TeardownSteps
<1>37. ASSUME NEW s \in Sessions, LinkLost(s) PROVE TypeOK'
  BY <1>37 DEF TypeOK, LinkLost
<1> QED
  BY <1>1, <1>2, <1>3, <1>4, <1>5, <1>6, <1>7, <1>8, <1>9, <1>10, <1>11,
     <1>12, <1>13, <1>14, <1>15, <1>16, <1>17, <1>18, <1>19, <1>20,
     <1>21, <1>22, <1>23, <1>24, <1>25, <1>26, <1>27, <1>28, <1>29,
     <1>30, <1>31, <1>32, <1>33, <1>34, <1>35, <1>36, <1>37
  DEF Next, Creation, Establishment, TeardownLocal, Disturbance

\* Every variable keeps its type, whatever the goroutines do.
THEOREM TypeCorrect == Spec => []TypeOK
<1>1. Init => TypeOK
  BY TypingInit
<1>2. TypeOK /\ [Next]_vars => TypeOK'
  BY TypingStep
<1> QED
  BY <1>1, <1>2, PTL DEF Spec

-----------------------------------------------------------------------------
(* The inductive invariant.  RegistrySound says what the repository holds; *)
(* the other parts tie each field of a session to the stages of the        *)
(* goroutines that write it.                                               *)

\* ReadyChan follows the establishment, the media channels the teardown.
ChannelsFollow ==
    \A s \in Sessions :
        /\ readyChan[s] = IF pc[s] \in {"ready", "resetting"}
                          THEN "closed" ELSE "open"
        /\ mediaChan[s] = IF teardown[s] \in {"idle", "conn", "agent", "hung", "media"}
                          THEN "open" ELSE "closed"

\* Before it is registered a session has a user, and nobody else knows it.
UnregisteredAlone ==
    \A s \in Sessions :
        /\ pc[s] # "unborn" => peer[s] \in Peers
        /\ pc[s] \in Unregistered =>
              /\ teardown[s] = "idle"
              /\ \A r \in Resetters : reset[s][r] = "off"
              /\ s \notin leaving

\* Conn is nil until establishConnection stores it, and then never again.
ConnFollows ==
    \A s \in Sessions :
        /\ pc[s] \in Unregistered \cup {"waiting", "dialing", "dialed"}
              => conn[s] = "nil"
        /\ pc[s] \in {"keying", "opening", "announcing", "launching",
                      "launched", "ready"} => conn[s] # "nil"

\* The reset of a failed establishment closes before it deletes.
EstReset ==
    \A s \in Sessions :
        /\ reset[s]["est"] # "off" => pc[s] = "resetting"
        /\ reset[s]["est"] \in {"agent", "repo", "done"} => conn[s] # "open"
        /\ reset[s]["est"] \in {"repo", "done"} => agent[s] = "closed"

\* Connected follows the establishment.  A teardown that is not a leave, and
\* a sender that could start one, find the session announced or failed with
\* its connection set.
CallbacksFollow ==
    \A s \in Sessions :
        /\ s \in connected <=> pc[s] \in {"launching", "launched", "ready"}
        /\ s \in sending \/ (teardown[s] # "idle" /\ ~leave[s]) =>
              s \in connected \/ (pc[s] = "resetting" /\ conn[s] # "nil")
        /\ teardown[s] = "notify" => ~leave[s]
        /\ teardown[s] = "signal" => leave[s]
        /\ s \in disconnected <=> (teardown[s] = "done" /\ ~leave[s])

IndInv ==
    /\ TypeOK
    /\ RegistrySound
    /\ ChannelsFollow
    /\ UnregisteredAlone
    /\ ConnFollows
    /\ EstReset
    /\ CallbacksFollow


\* The invariant holds before any session exists.
LEMMA IndInvInit == Init => IndInv
<1> SUFFICES ASSUME Init PROVE IndInv
  OBVIOUS
<1> USE NoPeerAssumption DEF Init
<1>1. TypeOK
  BY TypingInit
<1>2. RegistrySound
  BY DEF RegistrySound
<1>3. ChannelsFollow /\ ConnFollows
  BY DEF ChannelsFollow, ConnFollows
<1>4. UnregisteredAlone /\ EstReset
  BY DEF UnregisteredAlone, EstReset, Resetters
<1>5. CallbacksFollow
  BY DEF CallbacksFollow
<1> QED
  BY <1>1, <1>2, <1>3, <1>4, <1>5 DEF IndInv

\* The moves between stages that no part of the invariant tells apart.
QuietMoves ==
    {<<"creating", "rejected">>, <<"publishing", "published">>,
     <<"publishing", "rejected">>, <<"published", "rejected">>,
     <<"waiting", "failed">>, <<"dialing", "dialed">>, <<"dialing", "failed">>,
     <<"keying", "opening">>, <<"keying", "failed">>,
     <<"opening", "announcing">>, <<"opening", "failed">>,
     <<"launching", "launched">>}

\* Such a move keeps the invariant.
LEMMA QuietMove ==
    ASSUME IndInv, NEW s \in Sessions, NEW from, NEW to,
           <<from, to>> \in QuietMoves, Advance(s, from, to)
    PROVE  IndInv'
<1> USE DEF Advance, Goto, IndInv, TypeOK, directory, link, chans, down, calls, told
<1>1. from \in Stages /\ to \in Stages
  BY DEF QuietMoves, Stages, Unregistered, Dialled
<1>2. TypeOK'
  BY <1>1, TypingAdvance
<1>3. RegistrySound'
  BY DEF QuietMoves, RegistrySound, Unregistered
<1>4. ChannelsFollow'
  BY DEF QuietMoves, ChannelsFollow
<1>5. UnregisteredAlone'
  BY DEF QuietMoves, UnregisteredAlone, Unregistered
<1>6. ConnFollows'
  BY DEF QuietMoves, ConnFollows, Unregistered
<1>7. EstReset'
  BY DEF QuietMoves, EstReset
<1>8. CallbacksFollow'
  BY DEF QuietMoves, CallbacksFollow
<1> QED
  BY <1>2, <1>3, <1>4, <1>5, <1>6, <1>7, <1>8

\* Every step keeps the invariant: one step per action, and under it one per
\* part whose variables the action changes.
LEMMA IndInvStep == IndInv /\ [Next]_vars => IndInv'
<1> SUFFICES ASSUME IndInv, [Next]_vars PROVE IndInv'
  OBVIOUS
<1>0. TypeOK'
  BY TypingStep DEF IndInv
<1> USE <1>0 DEF IndInv, directory, link, chans, down, calls, told
<1>1. CASE UNCHANGED vars
  BY <1>1 DEF vars, RegistrySound, ChannelsFollow, UnregisteredAlone,
     ConnFollows,
     EstReset, CallbacksFollow
<1>2. CASE CloseApp
  BY <1>2 DEF CloseApp, RegistrySound, ChannelsFollow, UnregisteredAlone,
     ConnFollows, EstReset, CallbacksFollow
<1>3. ASSUME NEW s \in Sessions, NEW p \in Peers, Create(s, p) PROVE IndInv'
  <2>1. RegistrySound'
    BY <1>3 DEF TypeOK, Create, Goto, RegistrySound, UnregisteredAlone,
       ConnFollows, Unregistered, Dialled, Receiving, Deleted, Current
  <2>2. ChannelsFollow'
    BY <1>3 DEF TypeOK, Create, Goto, ChannelsFollow
  <2>3. UnregisteredAlone'
    BY <1>3 DEF TypeOK, Create, Goto, UnregisteredAlone, RegistrySound,
       ConnFollows, ChannelsFollow, CallbacksFollow, Current, Unregistered,
       Dialled, Receiving, Resetters
  <2>4. ConnFollows'
    BY <1>3 DEF TypeOK, Create, Goto, ConnFollows, EstReset, Unregistered,
       CallbacksFollow
  <2>5. EstReset'
    BY <1>3 DEF TypeOK, Create, Goto, EstReset, UnregisteredAlone,
       ConnFollows, Unregistered, Resetters
  <2>6. CallbacksFollow'
    BY <1>3 DEF TypeOK, Create, Goto, CallbacksFollow, RegistrySound,
       UnregisteredAlone, ConnFollows, ChannelsFollow, Current, Unregistered,
       Receiving
  <2> QED
    BY <1>3, <2>1, <2>2, <2>3, <2>4, <2>5, <2>6 DEF Create, Goto
<1>4. ASSUME NEW s \in Sessions, NEW r \in Resetters, ResetConn(s, r)
      PROVE  IndInv'
  <2>1. RegistrySound'
    BY <1>4 DEF TypeOK, ResetConn, ResetGoto, CloseConn, RegistrySound,
       UnregisteredAlone, ConnFollows, Unregistered, Dialled, Receiving,
       Deleted, Current
  <2>2. UnregisteredAlone'
    BY <1>4 DEF TypeOK, ResetConn, ResetGoto, CloseConn, UnregisteredAlone,
       RegistrySound, ConnFollows, ChannelsFollow, CallbacksFollow, Current,
       Unregistered, Dialled, Receiving, Resetters
  <2>3. ConnFollows'
    BY <1>4 DEF TypeOK, ResetConn, ResetGoto, CloseConn, ConnFollows,
       EstReset, Unregistered, CallbacksFollow
  <2>4. EstReset'
    BY <1>4 DEF TypeOK, ResetConn, ResetGoto, CloseConn, EstReset,
       UnregisteredAlone, ConnFollows, Unregistered, Resetters
  <2>5. CallbacksFollow'
    BY <1>4 DEF TypeOK, ResetConn, ResetGoto, CloseConn, CallbacksFollow,
       RegistrySound, UnregisteredAlone, ConnFollows, ChannelsFollow, Current,
       Unregistered, Receiving
  <2> QED
    BY <1>4, <2>1, <2>2, <2>3, <2>4, <2>5 DEF ResetConn, ResetGoto, CloseConn,
       ChannelsFollow, Current, Resetters, Unregistered
<1>5. ASSUME NEW s \in Sessions, NEW r \in Resetters, ResetAgent(s, r)
      PROVE  IndInv'
  <2>1. RegistrySound'
    BY <1>5 DEF TypeOK, ResetAgent, GracefulClose, ResetGoto, RegistrySound,
       UnregisteredAlone, ConnFollows, Unregistered, Dialled, Receiving,
       Deleted, Current
  <2>2. UnregisteredAlone'
    BY <1>5 DEF TypeOK, ResetAgent, GracefulClose, ResetGoto, UnregisteredAlone,
       RegistrySound, ConnFollows, ChannelsFollow, CallbacksFollow, Current,
       Unregistered, Dialled, Receiving, Resetters
  <2>3. EstReset'
    BY <1>5 DEF TypeOK, ResetAgent, GracefulClose, ResetGoto, EstReset, UnregisteredAlone,
       ConnFollows, Unregistered, Resetters
  <2> QED
    BY <1>5, <2>1, <2>2, <2>3 DEF ResetAgent, ResetGoto, ChannelsFollow,
       ConnFollows, CallbacksFollow, Current, Resetters, Unregistered
<1>6. ASSUME NEW s \in Sessions, NEW r \in Resetters, ResetDelete(s, r)
      PROVE  IndInv'
  <2>1. RegistrySound'
    BY <1>6 DEF TypeOK, ResetDelete, ResetGoto, CompareAndDelete,
       RegistrySound, UnregisteredAlone, ConnFollows, Unregistered, Dialled,
       Receiving, Deleted, Current
  <2>2. UnregisteredAlone'
    BY <1>6 DEF TypeOK, ResetDelete, ResetGoto, CompareAndDelete,
       UnregisteredAlone, RegistrySound, ConnFollows, ChannelsFollow,
       CallbacksFollow, Current, Unregistered, Dialled, Receiving, Resetters
  <2>3. EstReset'
    BY <1>6 DEF TypeOK, ResetDelete, ResetGoto, CompareAndDelete, EstReset,
       UnregisteredAlone, ConnFollows, Unregistered, Resetters
  <2> QED
    BY <1>6, <2>1, <2>2, <2>3 DEF ResetDelete, ResetGoto, CompareAndDelete,
       ChannelsFollow, ConnFollows, CallbacksFollow, Current, Resetters,
       Unregistered
<1>7. ASSUME NEW s \in Sessions, NewAgent(s) PROVE IndInv'
  <2>1. RegistrySound'
    BY <1>7 DEF TypeOK, NewAgent, Goto, RegistrySound, UnregisteredAlone,
       ConnFollows, Unregistered, Dialled, Receiving, Deleted, Current
  <2>2. ChannelsFollow'
    BY <1>7 DEF TypeOK, NewAgent, Goto, ChannelsFollow
  <2>3. UnregisteredAlone'
    BY <1>7 DEF TypeOK, NewAgent, Goto, UnregisteredAlone, RegistrySound,
       ConnFollows, ChannelsFollow, CallbacksFollow, Current, Unregistered,
       Dialled, Receiving, Resetters
  <2>4. ConnFollows'
    BY <1>7 DEF TypeOK, NewAgent, Goto, ConnFollows, EstReset, Unregistered,
       CallbacksFollow
  <2>5. EstReset'
    BY <1>7 DEF TypeOK, NewAgent, Goto, EstReset, UnregisteredAlone,
       ConnFollows, Unregistered, Resetters
  <2>6. CallbacksFollow'
    BY <1>7 DEF TypeOK, NewAgent, Goto, CallbacksFollow, RegistrySound,
       UnregisteredAlone, ConnFollows, ChannelsFollow, Current, Unregistered,
       Receiving
  <2> QED
    BY <1>7, <2>1, <2>2, <2>3, <2>4, <2>5, <2>6 DEF NewAgent, Goto
<1>8. ASSUME NEW s \in Sessions, Register(s) PROVE IndInv'
  <2>1. RegistrySound'
    BY <1>8 DEF TypeOK, Register, Goto, LoadOrStore, RegistrySound,
       UnregisteredAlone, ConnFollows, Unregistered, Dialled, Receiving,
       Deleted, Current
  <2>2. ChannelsFollow'
    BY <1>8 DEF TypeOK, Register, Goto, LoadOrStore, ChannelsFollow
  <2>3. UnregisteredAlone'
    BY <1>8 DEF TypeOK, Register, Goto, LoadOrStore, UnregisteredAlone,
       RegistrySound, ConnFollows, ChannelsFollow, CallbacksFollow, Current,
       Unregistered, Dialled, Receiving, Resetters
  <2>4. ConnFollows'
    BY <1>8 DEF TypeOK, Register, Goto, LoadOrStore, ConnFollows, EstReset,
       Unregistered, CallbacksFollow
  <2>5. EstReset'
    BY <1>8 DEF TypeOK, Register, Goto, LoadOrStore, EstReset,
       UnregisteredAlone, ConnFollows, Unregistered, Resetters
  <2>6. CallbacksFollow'
    BY <1>8 DEF TypeOK, Register, Goto, LoadOrStore, CallbacksFollow,
       RegistrySound, UnregisteredAlone, ConnFollows, ChannelsFollow, Current,
       Unregistered, Receiving
  <2> QED
    BY <1>8, <2>1, <2>2, <2>3, <2>4, <2>5, <2>6 DEF Register, Goto,
       LoadOrStore
<1>9. ASSUME NEW s \in Sessions, ReceiveCreds(s) PROVE IndInv'
  <2> QED
    BY <1>9 DEF ReceiveCreds, RegistrySound, ChannelsFollow,
       UnregisteredAlone, ConnFollows, EstReset, CallbacksFollow, Current,
       Resetters, Unregistered
<1>10. ASSUME NEW s \in Sessions, TakeToken(s) PROVE IndInv'
  <2>1. RegistrySound'
    BY <1>10 DEF TypeOK, TakeToken, Goto, RegistrySound, UnregisteredAlone,
       ConnFollows, Unregistered, Dialled, Receiving, Deleted, Current
  <2>2. ChannelsFollow'
    BY <1>10 DEF TypeOK, TakeToken, Goto, ChannelsFollow
  <2>3. UnregisteredAlone'
    BY <1>10 DEF TypeOK, TakeToken, Goto, UnregisteredAlone, RegistrySound,
       ConnFollows, ChannelsFollow, CallbacksFollow, Current, Unregistered,
       Dialled, Receiving, Resetters
  <2>4. ConnFollows'
    BY <1>10 DEF TypeOK, TakeToken, Goto, ConnFollows, EstReset, Unregistered,
       CallbacksFollow
  <2>5. EstReset'
    BY <1>10 DEF TypeOK, TakeToken, Goto, EstReset, UnregisteredAlone,
       ConnFollows, Unregistered, Resetters
  <2>6. CallbacksFollow'
    BY <1>10 DEF TypeOK, TakeToken, Goto, CallbacksFollow, RegistrySound,
       UnregisteredAlone, ConnFollows, ChannelsFollow, Current, Unregistered,
       Receiving
  <2> QED
    BY <1>10, <2>1, <2>2, <2>3, <2>4, <2>5, <2>6 DEF TakeToken, Goto
<1>11. ASSUME NEW s \in Sessions, StoreConn(s) PROVE IndInv'
  <2>1. RegistrySound'
    BY <1>11 DEF TypeOK, StoreConn, Goto, RegistrySound, UnregisteredAlone,
       ConnFollows, Unregistered, Dialled, Receiving, Deleted, Current
  <2>2. ChannelsFollow'
    BY <1>11 DEF TypeOK, StoreConn, Goto, ChannelsFollow
  <2>3. UnregisteredAlone'
    BY <1>11 DEF TypeOK, StoreConn, Goto, UnregisteredAlone, RegistrySound,
       ConnFollows, ChannelsFollow, CallbacksFollow, Current, Unregistered,
       Dialled, Receiving, Resetters
  <2>4. ConnFollows'
    BY <1>11 DEF TypeOK, StoreConn, Goto, ConnFollows, EstReset, Unregistered,
       CallbacksFollow
  <2>5. EstReset'
    BY <1>11 DEF TypeOK, StoreConn, Goto, EstReset, UnregisteredAlone,
       ConnFollows, Unregistered, Resetters
  <2>6. CallbacksFollow'
    BY <1>11 DEF TypeOK, StoreConn, Goto, CallbacksFollow, RegistrySound,
       UnregisteredAlone, ConnFollows, ChannelsFollow, Current, Unregistered,
       Receiving
  <2> QED
    BY <1>11, <2>1, <2>2, <2>3, <2>4, <2>5, <2>6 DEF StoreConn, Goto
<1>12. ASSUME NEW s \in Sessions, Announce(s) PROVE IndInv'
  <2>1. RegistrySound'
    BY <1>12 DEF TypeOK, Announce, Goto, RegistrySound, UnregisteredAlone,
       ConnFollows, Unregistered, Dialled, Receiving, Deleted, Current
  <2>2. ChannelsFollow'
    BY <1>12 DEF TypeOK, Announce, Goto, ChannelsFollow
  <2>3. UnregisteredAlone'
    BY <1>12 DEF TypeOK, Announce, Goto, UnregisteredAlone, RegistrySound,
       ConnFollows, ChannelsFollow, CallbacksFollow, Current, Unregistered,
       Dialled, Receiving, Resetters
  <2>4. ConnFollows'
    BY <1>12 DEF TypeOK, Announce, Goto, ConnFollows, EstReset, Unregistered,
       CallbacksFollow
  <2>5. EstReset'
    BY <1>12 DEF TypeOK, Announce, Goto, EstReset, UnregisteredAlone,
       ConnFollows, Unregistered, Resetters
  <2>6. CallbacksFollow'
    BY <1>12 DEF TypeOK, Announce, Goto, CallbacksFollow, RegistrySound,
       UnregisteredAlone, ConnFollows, ChannelsFollow, Current, Unregistered,
       Receiving
  <2> QED
    BY <1>12, <2>1, <2>2, <2>3, <2>4, <2>5, <2>6 DEF Announce, Goto
<1>13. ASSUME NEW s \in Sessions, SignalReady(s) PROVE IndInv'
  <2>1. RegistrySound'
    BY <1>13 DEF TypeOK, SignalReady, Goto, Close, RegistrySound,
       UnregisteredAlone, ConnFollows, Unregistered, Dialled, Receiving,
       Deleted, Current
  <2>2. ChannelsFollow'
    BY <1>13 DEF TypeOK, SignalReady, Goto, Close, ChannelsFollow
  <2>3. UnregisteredAlone'
    BY <1>13 DEF TypeOK, SignalReady, Goto, Close, UnregisteredAlone,
       RegistrySound, ConnFollows, ChannelsFollow, CallbacksFollow, Current,
       Unregistered, Dialled, Receiving, Resetters
  <2>4. ConnFollows'
    BY <1>13 DEF TypeOK, SignalReady, Goto, Close, ConnFollows, EstReset,
       Unregistered, CallbacksFollow
  <2>5. EstReset'
    BY <1>13 DEF TypeOK, SignalReady, Goto, Close, EstReset,
       UnregisteredAlone, ConnFollows, Unregistered, Resetters
  <2>6. CallbacksFollow'
    BY <1>13 DEF TypeOK, SignalReady, Goto, Close, CallbacksFollow,
       RegistrySound, UnregisteredAlone, ConnFollows, ChannelsFollow, Current,
       Unregistered, Receiving
  <2> QED
    BY <1>13, <2>1, <2>2, <2>3, <2>4, <2>5, <2>6 DEF SignalReady, Goto, Close
<1>14. ASSUME NEW s \in Sessions, SignalFailure(s) PROVE IndInv'
  <2>1. RegistrySound'
    BY <1>14 DEF TypeOK, SignalFailure, Goto, Close, Resetters, RegistrySound,
       UnregisteredAlone, ConnFollows, Unregistered, Dialled, Receiving,
       Deleted, Current
  <2>2. ChannelsFollow'
    BY <1>14 DEF TypeOK, SignalFailure, Goto, Close, Resetters, ChannelsFollow
  <2>3. UnregisteredAlone'
    BY <1>14 DEF TypeOK, SignalFailure, Goto, Close, Resetters,
       UnregisteredAlone, RegistrySound, ConnFollows, ChannelsFollow,
       CallbacksFollow, Current, Unregistered, Dialled, Receiving
  <2>4. ConnFollows'
    BY <1>14 DEF TypeOK, SignalFailure, Goto, Close, Resetters, ConnFollows,
       EstReset, Unregistered, CallbacksFollow
  <2>5. EstReset'
    BY <1>14 DEF TypeOK, SignalFailure, Goto, Close, Resetters, EstReset,
       UnregisteredAlone, ConnFollows, Unregistered
  <2>6. CallbacksFollow'
    BY <1>14 DEF TypeOK, SignalFailure, Goto, Close, Resetters,
       CallbacksFollow, RegistrySound, UnregisteredAlone, ConnFollows,
       ChannelsFollow, Current, Unregistered, Receiving
  <2> QED
    BY <1>14, <2>1, <2>2, <2>3, <2>4, <2>5, <2>6 DEF SignalFailure, Goto,
       Close, Resetters
<1>15. ASSUME NEW s \in Sessions, IceFails(s) PROVE IndInv'
  <2>1. RegistrySound'
    BY <1>15 DEF TypeOK, IceFails, Resetters, RegistrySound,
       UnregisteredAlone, ConnFollows, Unregistered, Dialled, Receiving,
       Deleted, Current
  <2>2. UnregisteredAlone'
    BY <1>15 DEF TypeOK, IceFails, Resetters, UnregisteredAlone,
       RegistrySound, ConnFollows, ChannelsFollow, CallbacksFollow, Current,
       Unregistered, Dialled, Receiving
  <2>3. EstReset'
    BY <1>15 DEF TypeOK, IceFails, Resetters, EstReset, UnregisteredAlone,
       ConnFollows, Unregistered
  <2> QED
    BY <1>15, <2>1, <2>2, <2>3 DEF IceFails, Resetters, ChannelsFollow,
       ConnFollows, CallbacksFollow, Current, Unregistered
<1>16. ASSUME NEW s \in Sessions, CredsForConnected(s) PROVE IndInv'
  <2>1. RegistrySound'
    BY <1>16 DEF TypeOK, CredsForConnected, Resetters, RegistrySound,
       UnregisteredAlone, ConnFollows, Unregistered, Dialled, Receiving,
       Deleted, Current
  <2>2. UnregisteredAlone'
    BY <1>16 DEF TypeOK, CredsForConnected, Resetters, UnregisteredAlone,
       RegistrySound, ConnFollows, ChannelsFollow, CallbacksFollow, Current,
       Unregistered, Dialled, Receiving
  <2>3. EstReset'
    BY <1>16 DEF TypeOK, CredsForConnected, Resetters, EstReset,
       UnregisteredAlone, ConnFollows, Unregistered
  <2> QED
    BY <1>16, <2>1, <2>2, <2>3 DEF CredsForConnected, Resetters,
       ChannelsFollow, ConnFollows, CallbacksFollow, Current, Unregistered
<1>17. ASSUME NEW s \in Sessions, ReceiveFails(s) PROVE IndInv'
  <2>1. RegistrySound'
    BY <1>17 DEF TypeOK, ReceiveFails, Disconnect, RegistrySound,
       UnregisteredAlone, ConnFollows, Unregistered, Dialled, Receiving,
       Deleted, Current
  <2>2. ChannelsFollow'
    BY <1>17 DEF TypeOK, ReceiveFails, Disconnect, ChannelsFollow
  <2>3. UnregisteredAlone'
    BY <1>17 DEF TypeOK, ReceiveFails, Disconnect, UnregisteredAlone,
       RegistrySound, ConnFollows, ChannelsFollow, CallbacksFollow, Current,
       Unregistered, Dialled, Receiving, Resetters
  <2>4. CallbacksFollow'
    BY <1>17 DEF TypeOK, ReceiveFails, Disconnect, CallbacksFollow,
       RegistrySound, UnregisteredAlone, ConnFollows, ChannelsFollow, Current,
       Unregistered, Receiving
  <2> QED
    BY <1>17, <2>1, <2>2, <2>3, <2>4 DEF ReceiveFails, Disconnect,
       ConnFollows, EstReset, Current, Resetters, Unregistered
<1>18. ASSUME NEW s \in Sessions, SendInStream(s) PROVE IndInv'
  <2>1. CallbacksFollow'
    BY <1>18 DEF TypeOK, SendInStream, CallbacksFollow, RegistrySound,
       UnregisteredAlone, ConnFollows, ChannelsFollow, Current, Unregistered,
       Receiving
  <2> QED
    BY <1>18, <2>1 DEF SendInStream, RegistrySound, ChannelsFollow,
       UnregisteredAlone, ConnFollows, EstReset, Current, Resetters,
       Unregistered
<1>19. ASSUME NEW s \in Sessions, SendSucceeds(s) PROVE IndInv'
  <2>1. CallbacksFollow'
    BY <1>19 DEF TypeOK, SendSucceeds, CallbacksFollow, RegistrySound,
       UnregisteredAlone, ConnFollows, ChannelsFollow, Current, Unregistered,
       Receiving
  <2> QED
    BY <1>19, <2>1 DEF SendSucceeds, RegistrySound, ChannelsFollow,
       UnregisteredAlone, ConnFollows, EstReset, Current, Resetters,
       Unregistered
<1>20. ASSUME NEW s \in Sessions, SendFails(s) PROVE IndInv'
  <2>1. RegistrySound'
    BY <1>20 DEF TypeOK, SendFails, Disconnect, RegistrySound,
       UnregisteredAlone, ConnFollows, Unregistered, Dialled, Receiving,
       Deleted, Current
  <2>2. ChannelsFollow'
    BY <1>20 DEF TypeOK, SendFails, Disconnect, ChannelsFollow
  <2>3. UnregisteredAlone'
    BY <1>20 DEF TypeOK, SendFails, Disconnect, UnregisteredAlone,
       RegistrySound, ConnFollows, ChannelsFollow, CallbacksFollow, Current,
       Unregistered, Dialled, Receiving, Resetters
  <2>4. CallbacksFollow'
    BY <1>20 DEF TypeOK, SendFails, Disconnect, CallbacksFollow,
       RegistrySound, UnregisteredAlone, ConnFollows, ChannelsFollow, Current,
       Unregistered, Receiving
  <2> QED
    BY <1>20, <2>1, <2>2, <2>3, <2>4 DEF SendFails, Disconnect, ConnFollows,
       EstReset, Current, Resetters, Unregistered
<1>21. ASSUME NEW s \in Sessions, PickToLeave(s) PROVE IndInv'
  <2>1. UnregisteredAlone'
    BY <1>21, NoSessionAssumption DEF TypeOK, PickToLeave, UnregisteredAlone,
       RegistrySound, ConnFollows, ChannelsFollow, CallbacksFollow, Current,
       Unregistered, Dialled, Receiving, Resetters
  <2> QED
    BY <1>21, <2>1 DEF PickToLeave, RegistrySound, ChannelsFollow,
       ConnFollows, EstReset, CallbacksFollow, Current, Resetters,
       Unregistered
<1>22. ASSUME NEW s \in Sessions, Leave(s) PROVE IndInv'
  <2>1. RegistrySound'
    BY <1>22 DEF TypeOK, Leave, Disconnect, RegistrySound, UnregisteredAlone,
       ConnFollows, Unregistered, Dialled, Receiving, Deleted, Current
  <2>2. ChannelsFollow'
    BY <1>22 DEF TypeOK, Leave, Disconnect, ChannelsFollow
  <2>3. UnregisteredAlone'
    BY <1>22 DEF TypeOK, Leave, Disconnect, UnregisteredAlone, RegistrySound,
       ConnFollows, ChannelsFollow, CallbacksFollow, Current, Unregistered,
       Dialled, Receiving, Resetters
  <2>4. CallbacksFollow'
    BY <1>22 DEF TypeOK, Leave, Disconnect, CallbacksFollow, RegistrySound,
       UnregisteredAlone, ConnFollows, ChannelsFollow, Current, Unregistered,
       Receiving
  <2> QED
    BY <1>22, <2>1, <2>2, <2>3, <2>4 DEF Leave, Disconnect, ConnFollows,
       EstReset, Current, Resetters, Unregistered
<1>23. ASSUME NEW s \in Sessions, TeardownConn(s) PROVE IndInv'
  <2>1. RegistrySound'
    BY <1>23 DEF TypeOK, TeardownConn, TeardownGoto, CloseConn, RegistrySound,
       UnregisteredAlone, ConnFollows, Unregistered, Dialled, Receiving,
       Deleted, Current
  <2>2. ChannelsFollow'
    BY <1>23 DEF TypeOK, TeardownConn, TeardownGoto, CloseConn, ChannelsFollow
  <2>3. UnregisteredAlone'
    BY <1>23 DEF TypeOK, TeardownConn, TeardownGoto, CloseConn,
       UnregisteredAlone, RegistrySound, ConnFollows, ChannelsFollow,
       CallbacksFollow, Current, Unregistered, Dialled, Receiving, Resetters
  <2>4. ConnFollows'
    BY <1>23 DEF TypeOK, TeardownConn, TeardownGoto, CloseConn, ConnFollows,
       EstReset, Unregistered, CallbacksFollow
  <2>5. EstReset'
    BY <1>23 DEF TypeOK, TeardownConn, TeardownGoto, CloseConn, EstReset,
       UnregisteredAlone, ConnFollows, Unregistered, Resetters
  <2>6. CallbacksFollow'
    BY <1>23 DEF TypeOK, TeardownConn, TeardownGoto, CloseConn,
       CallbacksFollow, RegistrySound, UnregisteredAlone, ConnFollows,
       ChannelsFollow, Current, Unregistered, Receiving
  <2> QED
    BY <1>23, <2>1, <2>2, <2>3, <2>4, <2>5, <2>6 DEF TeardownConn,
       TeardownGoto, CloseConn
<1>24. ASSUME NEW s \in Sessions, TeardownAgent(s) PROVE IndInv'
  <2>1. RegistrySound'
    BY <1>24 DEF TypeOK, TeardownAgent, GracefulClose, TeardownGoto, RegistrySound,
       UnregisteredAlone, ConnFollows, Unregistered, Dialled, Receiving,
       Deleted, Current
  <2>2. ChannelsFollow'
    BY <1>24 DEF TypeOK, TeardownAgent, GracefulClose, TeardownGoto, ChannelsFollow
  <2>3. UnregisteredAlone'
    BY <1>24 DEF TypeOK, TeardownAgent, GracefulClose, TeardownGoto, UnregisteredAlone,
       RegistrySound, ConnFollows, ChannelsFollow, CallbacksFollow, Current,
       Unregistered, Dialled, Receiving, Resetters
  <2>4. EstReset'
    BY <1>24 DEF TypeOK, TeardownAgent, GracefulClose, TeardownGoto, EstReset,
       UnregisteredAlone, ConnFollows, Unregistered, Resetters
  <2>5. CallbacksFollow'
    BY <1>24 DEF TypeOK, TeardownAgent, GracefulClose, TeardownGoto, CallbacksFollow,
       RegistrySound, UnregisteredAlone, ConnFollows, ChannelsFollow, Current,
       Unregistered, Receiving
  <2> QED
    BY <1>24, <2>1, <2>2, <2>3, <2>4, <2>5 DEF TeardownAgent, TeardownGoto,
       ConnFollows, Current, Resetters, Unregistered
<1>25. ASSUME NEW s \in Sessions, TeardownMedia(s) PROVE IndInv'
  <2>1. RegistrySound'
    BY <1>25 DEF TypeOK, TeardownMedia, TeardownGoto, Close, RegistrySound,
       UnregisteredAlone, ConnFollows, Unregistered, Dialled, Receiving,
       Deleted, Current
  <2>2. ChannelsFollow'
    BY <1>25 DEF TypeOK, TeardownMedia, TeardownGoto, Close, ChannelsFollow
  <2>3. UnregisteredAlone'
    BY <1>25 DEF TypeOK, TeardownMedia, TeardownGoto, Close,
       UnregisteredAlone, RegistrySound, ConnFollows, ChannelsFollow,
       CallbacksFollow, Current, Unregistered, Dialled, Receiving, Resetters
  <2>4. CallbacksFollow'
    BY <1>25 DEF TypeOK, TeardownMedia, TeardownGoto, Close, CallbacksFollow,
       RegistrySound, UnregisteredAlone, ConnFollows, ChannelsFollow, Current,
       Unregistered, Receiving
  <2> QED
    BY <1>25, <2>1, <2>2, <2>3, <2>4 DEF TeardownMedia, TeardownGoto, Close,
       ConnFollows, EstReset, Current, Resetters, Unregistered
<1>26. ASSUME NEW s \in Sessions, TeardownDelete(s) PROVE IndInv'
  <2>1. RegistrySound'
    BY <1>26 DEF TypeOK, TeardownDelete, TeardownGoto, CompareAndDelete,
       RegistrySound, UnregisteredAlone, ConnFollows, Unregistered, Dialled,
       Receiving, Deleted, Current
  <2>2. ChannelsFollow'
    BY <1>26 DEF TypeOK, TeardownDelete, TeardownGoto, CompareAndDelete,
       ChannelsFollow
  <2>3. UnregisteredAlone'
    BY <1>26 DEF TypeOK, TeardownDelete, TeardownGoto, CompareAndDelete,
       UnregisteredAlone, RegistrySound, ConnFollows, ChannelsFollow,
       CallbacksFollow, Current, Unregistered, Dialled, Receiving, Resetters
  <2>4. CallbacksFollow'
    BY <1>26 DEF TypeOK, TeardownDelete, TeardownGoto, CompareAndDelete,
       CallbacksFollow, RegistrySound, UnregisteredAlone, ConnFollows,
       ChannelsFollow, Current, Unregistered, Receiving
  <2> QED
    BY <1>26, <2>1, <2>2, <2>3, <2>4 DEF TeardownDelete, TeardownGoto,
       CompareAndDelete, ConnFollows, EstReset, Current, Resetters,
       Unregistered
<1>27. ASSUME NEW s \in Sessions, TeardownSignal(s) PROVE IndInv'
  <2>1. RegistrySound'
    BY <1>27 DEF TypeOK, TeardownSignal, TeardownGoto, RegistrySound,
       UnregisteredAlone, ConnFollows, Unregistered, Dialled, Receiving,
       Deleted, Current
  <2>2. ChannelsFollow'
    BY <1>27 DEF TypeOK, TeardownSignal, TeardownGoto, ChannelsFollow
  <2>3. UnregisteredAlone'
    BY <1>27 DEF TypeOK, TeardownSignal, TeardownGoto, UnregisteredAlone,
       RegistrySound, ConnFollows, ChannelsFollow, CallbacksFollow, Current,
       Unregistered, Dialled, Receiving, Resetters
  <2>4. CallbacksFollow'
    BY <1>27 DEF TypeOK, TeardownSignal, TeardownGoto, CallbacksFollow,
       RegistrySound, UnregisteredAlone, ConnFollows, ChannelsFollow, Current,
       Unregistered, Receiving
  <2> QED
    BY <1>27, <2>1, <2>2, <2>3, <2>4 DEF TeardownSignal, TeardownGoto,
       ConnFollows, EstReset, Current, Resetters, Unregistered
<1>28. ASSUME NEW s \in Sessions, TeardownNotify(s) PROVE IndInv'
  <2>1. RegistrySound'
    BY <1>28 DEF TypeOK, TeardownNotify, TeardownGoto, RegistrySound,
       UnregisteredAlone, ConnFollows, Unregistered, Dialled, Receiving,
       Deleted, Current
  <2>2. ChannelsFollow'
    BY <1>28 DEF TypeOK, TeardownNotify, TeardownGoto, ChannelsFollow
  <2>3. UnregisteredAlone'
    BY <1>28 DEF TypeOK, TeardownNotify, TeardownGoto, UnregisteredAlone,
       RegistrySound, ConnFollows, ChannelsFollow, CallbacksFollow, Current,
       Unregistered, Dialled, Receiving, Resetters
  <2>4. CallbacksFollow'
    BY <1>28 DEF TypeOK, TeardownNotify, TeardownGoto, CallbacksFollow,
       RegistrySound, UnregisteredAlone, ConnFollows, ChannelsFollow, Current,
       Unregistered, Receiving
  <2> QED
    BY <1>28, <2>1, <2>2, <2>3, <2>4 DEF TeardownNotify, TeardownGoto,
       ConnFollows, EstReset, Current, Resetters, Unregistered
<1>29. ASSUME NEW s \in Sessions, LinkLost(s) PROVE IndInv'
  <2>1. ConnFollows'
    BY <1>29 DEF TypeOK, LinkLost, ConnFollows, EstReset, Unregistered,
       CallbacksFollow
  <2>2. EstReset'
    BY <1>29 DEF TypeOK, LinkLost, EstReset, UnregisteredAlone, ConnFollows,
       Unregistered, Resetters
  <2>3. CallbacksFollow'
    BY <1>29 DEF TypeOK, LinkLost, CallbacksFollow, RegistrySound,
       UnregisteredAlone, ConnFollows, ChannelsFollow, Current, Unregistered,
       Receiving
  <2> QED
    BY <1>29, <2>1, <2>2, <2>3 DEF LinkLost, RegistrySound, ChannelsFollow,
       UnregisteredAlone, Current, Resetters, Unregistered
<1>30. ASSUME NEW s \in Sessions, CreateFails(s) PROVE IndInv'
  BY <1>30, QuietMove DEF CreateFails, QuietMoves
<1>31. ASSUME NEW s \in Sessions, Publish(s) PROVE IndInv'
  BY <1>31, QuietMove DEF Publish, QuietMoves
<1>32. ASSUME NEW s \in Sessions, PublishFails(s) PROVE IndInv'
  BY <1>32, QuietMove DEF PublishFails, QuietMoves
<1>33. ASSUME NEW s \in Sessions, RegisterTimesOut(s) PROVE IndInv'
  BY <1>33, QuietMove DEF RegisterTimesOut, QuietMoves
<1>34. ASSUME NEW s \in Sessions, SeeClosing(s) PROVE IndInv'
  BY <1>34, QuietMove DEF SeeClosing, QuietMoves
<1>35. ASSUME NEW s \in Sessions, DialSucceeds(s) PROVE IndInv'
  BY <1>35, QuietMove DEF DialSucceeds, QuietMoves
<1>36. ASSUME NEW s \in Sessions, SetupE2EE(s) PROVE IndInv'
  BY <1>36, QuietMove DEF SetupE2EE, QuietMoves
<1>37. ASSUME NEW s \in Sessions, InitEventStream(s) PROVE IndInv'
  BY <1>37, QuietMove DEF InitEventStream, QuietMoves
<1>38. ASSUME NEW s \in Sessions, Launch(s) PROVE IndInv'
  BY <1>38, QuietMove DEF Launch, QuietMoves
<1>39. ASSUME NEW s \in Sessions, EstablishFails(s) PROVE IndInv'
  BY <1>39, QuietMove DEF EstablishFails, QuietMoves
<1> QED
  BY <1>1, <1>2, <1>3, <1>4, <1>5, <1>6, <1>7, <1>8, <1>9, <1>10, <1>11,
     <1>12, <1>13, <1>14, <1>15, <1>16, <1>17, <1>18, <1>19, <1>20,
     <1>21, <1>22, <1>23, <1>24, <1>25, <1>26, <1>27, <1>28, <1>29,
     <1>30, <1>31, <1>32, <1>33, <1>34, <1>35, <1>36, <1>37, <1>38,
     <1>39
  DEF Next, Creation, Establishment, ResetSession, TeardownLocal, Disturbance

\* The inductive invariant holds in every reachable state.
LEMMA IndInvHolds == Spec => []IndInv
<1>1. Init => IndInv
  BY IndInvInit
<1>2. IndInv /\ [Next]_vars => IndInv'
  BY IndInvStep
<1> QED
  BY <1>1, <1>2, PTL DEF Spec

-----------------------------------------------------------------------------
(* The safety properties.                                                  *)

\* No channel of a session is closed twice, in spite of the three receive
\* loops, the senders and the API calls that race into disconnectSession.
THEOREM ChannelsClosedOnce == Spec => []NoDoubleClose
<1>1. IndInv => NoDoubleClose
  BY DEF IndInv, ChannelsFollow, NoDoubleClose
<1> QED
  BY <1>1, IndInvHolds, PTL

\* The repository holds only sessions that were added and not deleted yet.
THEOREM RegistryIsSound == Spec => []RegistrySound
<1>1. IndInv => RegistrySound
  BY DEF IndInv
<1> QED
  BY <1>1, IndInvHolds, PTL

\* The Disconnected callback comes after the session left the repository,
\* for sessions the user did not leave, that were announced or had failed.
THEOREM DisconnectedIsInOrder == Spec => []DisconnectedInOrder
<1>1. IndInv => DisconnectedInOrder
  <2> SUFFICES ASSUME IndInv, NEW s \in Sessions, s \in disconnected
               PROVE  /\ ~leave[s]
                      /\ ~Current(s)
                      /\ s \in connected \/ (pc[s] = "resetting" /\ conn[s] # "nil")
    BY DEF IndInv, TypeOK, DisconnectedInOrder
  <2>1. teardown[s] = "done" /\ ~leave[s]
    BY DEF IndInv, CallbacksFollow
  <2>2. ~Current(s)
    BY <2>1, NoSessionAssumption DEF IndInv, RegistrySound, Current, Deleted
  <2>3. s \in connected \/ (pc[s] = "resetting" /\ conn[s] # "nil")
    BY <2>1 DEF IndInv, CallbacksFollow
  <2> QED
    BY <2>1, <2>2, <2>3
<1> QED
  BY <1>1, IndInvHolds, PTL

\* A failed establishment whose reset has ended left nothing behind.
THEOREM FailureIsClean == Spec => []FailureLeavesNothing
<1>1. IndInv => FailureLeavesNothing
  <2> SUFFICES ASSUME IndInv, NEW s \in Sessions, reset[s]["est"] = "done"
               PROVE  /\ conn[s] # "open"
                      /\ agent[s] = "closed"
                      /\ ~Current(s)
                      /\ readyChan[s] = "closed"
    BY DEF FailureLeavesNothing
  <2>1. conn[s] # "open" /\ agent[s] = "closed" /\ pc[s] = "resetting"
    BY DEF IndInv, EstReset
  <2>2. readyChan[s] = "closed"
    BY <2>1 DEF IndInv, ChannelsFollow
  <2>3. ~Current(s)
    BY NoSessionAssumption DEF IndInv, RegistrySound, Current, Resetters
  <2> QED
    BY <2>1, <2>2, <2>3
<1> QED
  BY <1>1, IndInvHolds, PTL

-----------------------------------------------------------------------------
(* Steps on the repository.                                                *)

\* What a step may do to one entry of the repository.
EntryStep(p) ==
    repo[p] # NoSession /\ repo'[p] # repo[p] =>
        LET s == repo[p] IN
        /\ repo'[p] = NoSession
        /\ \/ teardown[s] = "repo" /\ teardown'[s] \in Deleted
           \/ \E r \in Resetters : reset[s][r] = "repo" /\ reset'[s][r] = "done"

\* The three actions that write the repository; all others leave it alone.
LEMMA RepoWriters ==
    ASSUME [Next]_vars
    PROVE  \/ UNCHANGED repo
           \/ \E s \in Sessions :
                \/ Register(s)
                \/ TeardownDelete(s)
                \/ \E r \in Resetters : ResetDelete(s, r)
<1> USE DEF directory, link, chans, down, calls, told
<1>1. CASE UNCHANGED vars
  BY <1>1 DEF vars
<1>2. CASE CloseApp
  BY <1>2 DEF CloseApp
<1>3. ASSUME NEW s \in Sessions, Creation(s) PROVE UNCHANGED repo \/ Register(s)
  BY <1>3 DEF Creation, Create, NewAgent, CreateFails, Publish, PublishFails,
     RegisterTimesOut, Advance
<1>4. ASSUME NEW s \in Sessions, Establishment(s) PROVE UNCHANGED repo
  BY <1>4 DEF Establishment, TakeToken, SeeClosing, DialSucceeds, StoreConn,
     SetupE2EE, InitEventStream, EstablishFails, Announce, Launch, SignalReady,
     SignalFailure, Advance
<1>5. ASSUME NEW s \in Sessions, NEW r \in Resetters, ResetSession(s, r)
      PROVE  UNCHANGED repo \/ ResetDelete(s, r)
  BY <1>5 DEF ResetSession, ResetConn, ResetAgent
<1>6. ASSUME NEW s \in Sessions, TeardownLocal(s) \/ TeardownSignal(s)
      PROVE  UNCHANGED repo \/ TeardownDelete(s)
  BY <1>6 DEF TeardownLocal, TeardownConn, TeardownAgent, TeardownMedia,
     TeardownNotify, TeardownSignal
<1>7. ASSUME NEW s \in Sessions, Disturbance(s) PROVE UNCHANGED repo
  BY <1>7 DEF Disturbance, ReceiveCreds, IceFails, CredsForConnected,
     ReceiveFails, SendInStream, SendSucceeds, SendFails, PickToLeave, Leave,
     LinkLost, Disconnect
<1> QED
  BY <1>1, <1>2, <1>3, <1>4, <1>5, <1>6, <1>7 DEF Next

\* Add does not touch an entry, and Delete touches only its own.
LEMMA EntryStepLemma ==
    ASSUME TypeOK, [Next]_vars, NEW p \in Peers
    PROVE  EntryStep(p)
<1> USE DEF EntryStep, TypeOK
<1>1. CASE UNCHANGED repo
  BY <1>1
<1>2. ASSUME NEW s \in Sessions, Register(s) PROVE EntryStep(p)
  BY <1>2 DEF Register, LoadOrStore
<1>3. ASSUME NEW s \in Sessions, TeardownDelete(s) PROVE EntryStep(p)
  <2>1. teardown[s] = "repo" /\ teardown'[s] \in Deleted
    BY <1>3 DEF TeardownDelete, TeardownGoto, Deleted
  <2>2. repo'[p] # repo[p] => repo[p] = s /\ repo'[p] = NoSession
    BY <1>3 DEF TeardownDelete, CompareAndDelete
  <2> QED
    BY <2>1, <2>2
<1>4. ASSUME NEW s \in Sessions, NEW r \in Resetters, ResetDelete(s, r)
      PROVE  EntryStep(p)
  <2>1. reset[s][r] = "repo" /\ reset'[s][r] = "done"
    BY <1>4 DEF ResetDelete, ResetGoto
  <2>2. repo'[p] # repo[p] => repo[p] = s /\ repo'[p] = NoSession
    BY <1>4 DEF ResetDelete, CompareAndDelete
  <2> QED
    BY <2>1, <2>2
<1> QED
  BY <1>1, <1>2, <1>3, <1>4, RepoWriters

\* An old session's late Delete never removes its successor's entry.
THEOREM EntriesRemovedByOwner == Spec => OwnEntryOnly
<1>1. TypeOK /\ [Next]_vars => \A p \in Peers : EntryStep(p)
  BY EntryStepLemma
<1>2. TypeOK /\ [Next]_vars =>
        [\A p \in Peers : repo[p] # NoSession /\ repo'[p] # repo[p] =>
            LET s == repo[p] IN
            /\ repo'[p] = NoSession
            /\ \/ teardown[s] = "repo" /\ teardown'[s] \in Deleted
               \/ \E r \in Resetters :
                     reset[s][r] = "repo" /\ reset'[s][r] = "done"]_vars
  BY <1>1 DEF EntryStep
<1> QED
  BY <1>2, TypeCorrect, PTL DEF Spec, OwnEntryOnly

-----------------------------------------------------------------------------
(* The refinement.                                                         *)

Entered == {s \in Sessions : pc[s] \notin Unregistered}

\* A step that leaves the repository and the callbacks alone and registers
\* nobody is invisible to the registry.
LEMMA Invisible ==
    ASSUME UNCHANGED <<repo, connected, disconnected>>, Entered' = Entered
    PROVE  UNCHANGED Registry!vars
BY DEF Registry!vars, Entered

\* Add is the registry's Enter, or is turned away.
LEMMA RegisterRefines ==
    ASSUME IndInv, NEW s \in Sessions, Register(s)
    PROVE  Registry!Next \/ UNCHANGED Registry!vars
<1> USE DEF IndInv, TypeOK, Register, Goto, directory, link, chans, down,
            calls, told
<1>1. pc[s] = "published" /\ peer[s] \in Peers /\ s \notin Entered
  BY DEF UnregisteredAlone, Unregistered, Entered
<1>2. CASE repo[peer[s]] = NoSession
  <2>1. repo' = [repo EXCEPT ![peer[s]] = s]
    BY <1>1, <1>2 DEF LoadOrStore
  <2>2. Entered' = Entered \cup {s}
    BY <1>1, <1>2 DEF Entered, Unregistered
  <2>3. Registry!Enter(peer[s], s)
    BY <1>1, <1>2, <2>1, <2>2 DEF Registry!Enter, Entered
  <2> QED
    BY <1>1, <2>3 DEF Registry!Next
<1>3. CASE repo[peer[s]] # NoSession
  <2>1. repo' = repo
    BY <1>1, <1>3 DEF LoadOrStore
  <2>2. Entered' = Entered
    BY <1>1, <1>3 DEF Entered, Unregistered
  <2> QED
    BY <2>1, <2>2, Invisible
<1> QED
  BY <1>2, <1>3

\* Delete is the registry's Remove, or finds another entry or none.
LEMMA DeleteRefines ==
    ASSUME IndInv, NEW s \in Sessions, peer[s] \in Peers,
           CompareAndDelete(peer[s], s),
           UNCHANGED <<pc, connected, disconnected>>
    PROVE  Registry!Next \/ UNCHANGED Registry!vars
<1> USE DEF IndInv, TypeOK
<1>1. Entered' = Entered
  BY DEF Entered
<1>2. CASE repo[peer[s]] = s
  <2>1. repo' = [repo EXCEPT ![peer[s]] = NoSession] /\ repo[peer[s]] # NoSession
    BY <1>2, NoSessionAssumption DEF CompareAndDelete
  <2>2. Registry!Remove(peer[s])
    BY <1>1, <2>1 DEF Registry!Remove, Entered
  <2> QED
    BY <2>2 DEF Registry!Next
<1>3. CASE repo[peer[s]] # s
  <2>1. repo' = repo
    BY <1>3 DEF CompareAndDelete
  <2> QED
    BY <1>1, <2>1, Invisible
<1> QED
  BY <1>2, <1>3

\* The Connected callback is the registry's ReportUp.
LEMMA AnnounceRefines ==
    ASSUME IndInv, NEW s \in Sessions, Announce(s)
    PROVE  Registry!Next
<1> USE DEF IndInv, TypeOK, Announce, Goto, directory, link, chans, down,
            calls, told
<1>1. s \in Entered /\ s \notin connected
  BY DEF Entered, Unregistered, CallbacksFollow
<1>2. Entered' = Entered
  BY DEF Entered, Unregistered
<1>3. Registry!ReportUp(s)
  BY <1>1, <1>2 DEF Registry!ReportUp, Entered
<1> QED
  BY <1>3 DEF Registry!Next

\* The Disconnected callback is the registry's ReportDown.
LEMMA NotifyRefines ==
    ASSUME IndInv, NEW s \in Sessions, TeardownNotify(s)
    PROVE  Registry!Next
<1> USE DEF IndInv, TypeOK, TeardownNotify, TeardownGoto, directory, link,
            chans, down, calls, told
<1>1. s \in Entered /\ s \notin disconnected
  BY DEF Entered, UnregisteredAlone, CallbacksFollow
<1>2. \A p \in Peers : repo[p] # s
  BY NoSessionAssumption DEF RegistrySound, Deleted
<1>3. Entered' = Entered
  BY DEF Entered
<1>4. Registry!ReportDown(s)
  BY <1>1, <1>2, <1>3 DEF Registry!ReportDown, Entered
<1> QED
  BY <1>4 DEF Registry!Next

\* Every step of the service is a step of the registry or invisible to it.
LEMMA StepRefines ==
    ASSUME IndInv, [Next]_vars
    PROVE  Registry!Next \/ UNCHANGED Registry!vars
<1> USE DEF directory, link, chans, down, calls, told
<1>1. CASE UNCHANGED vars
  BY <1>1, Invisible DEF vars, Entered
<1>2. CASE CloseApp
  BY <1>2, Invisible DEF CloseApp, Entered
<1>3. ASSUME NEW s \in Sessions, Creation(s), ~Register(s)
      PROVE  UNCHANGED Registry!vars
  <2>1. UNCHANGED <<repo, connected, disconnected>>
    BY <1>3 DEF Creation, Create, NewAgent, CreateFails, Publish,
       PublishFails, RegisterTimesOut, Advance
  <2>2. /\ pc[s] \in Unregistered
        /\ \E to \in Unregistered : pc' = [pc EXCEPT ![s] = to]
    BY <1>3 DEF Creation, Create, NewAgent, CreateFails, Publish,
       PublishFails, RegisterTimesOut, Advance, Goto, Unregistered
  <2>3. Entered' = Entered
    BY <2>2 DEF Entered, IndInv, TypeOK
  <2> QED
    BY <2>1, <2>3, Invisible
<1>4. ASSUME NEW s \in Sessions, Establishment(s), ~Announce(s)
      PROVE  UNCHANGED Registry!vars
  <2>1. UNCHANGED <<repo, connected, disconnected>>
    BY <1>4 DEF Establishment, TakeToken, SeeClosing, DialSucceeds, StoreConn,
       SetupE2EE, InitEventStream, EstablishFails, Launch, SignalReady,
       SignalFailure, Advance
  <2>2. /\ pc[s] \notin Unregistered
        /\ \E to \in Stages \ Unregistered : pc' = [pc EXCEPT ![s] = to]
    BY <1>4 DEF Establishment, TakeToken, SeeClosing, DialSucceeds, StoreConn,
       SetupE2EE, InitEventStream, EstablishFails, Launch, SignalReady,
       SignalFailure, Advance, Goto, Unregistered, Stages, Dialled
  <2>3. Entered' = Entered
    BY <2>2 DEF Entered, IndInv, TypeOK
  <2> QED
    BY <2>1, <2>3, Invisible
<1>5. ASSUME NEW s \in Sessions, NEW r \in Resetters, ResetSession(s, r)
      PROVE  Registry!Next \/ UNCHANGED Registry!vars
  <2>1. peer[s] \in Peers
    BY <1>5 DEF ResetSession, ResetConn, ResetAgent, ResetDelete, ResetGoto,
       IndInv, UnregisteredAlone, Unregistered
  <2>2. CASE ResetDelete(s, r)
    BY <2>1, <2>2, DeleteRefines DEF ResetDelete, ResetGoto
  <2>3. CASE ResetConn(s, r) \/ ResetAgent(s, r)
    BY <2>3, Invisible DEF ResetConn, ResetAgent, ResetGoto, Entered
  <2> QED
    BY <1>5, <2>2, <2>3 DEF ResetSession
<1>6. ASSUME NEW s \in Sessions, TeardownLocal(s) \/ TeardownSignal(s)
      PROVE  Registry!Next \/ UNCHANGED Registry!vars
  <2>1. CASE TeardownDelete(s)
    <3>1. peer[s] \in Peers
      BY <2>1 DEF TeardownDelete, TeardownGoto, IndInv, UnregisteredAlone,
         Unregistered
    <3> QED
      BY <2>1, <3>1, DeleteRefines DEF TeardownDelete, TeardownGoto
  <2>2. CASE TeardownNotify(s)
    BY <2>2, NotifyRefines
  <2>3. CASE TeardownConn(s) \/ TeardownAgent(s) \/ TeardownMedia(s)
               \/ TeardownSignal(s)
    BY <2>3, Invisible DEF TeardownConn, TeardownAgent, TeardownMedia,
       TeardownSignal, TeardownGoto, Entered
  <2> QED
    BY <1>6, <2>1, <2>2, <2>3 DEF TeardownLocal
<1>7. ASSUME NEW s \in Sessions, Disturbance(s) PROVE UNCHANGED Registry!vars
  BY <1>7, Invisible DEF Disturbance, ReceiveCreds, IceFails,
     CredsForConnected, ReceiveFails, SendInStream, SendSucceeds, SendFails,
     PickToLeave, Leave, LinkLost, Disconnect, Entered
<1> QED
  BY <1>1, <1>2, <1>3, <1>4, <1>5, <1>6, <1>7, RegisterRefines,
     AnnounceRefines DEF Next

\* The session machinery implements the registry it promises.
THEOREM RegistryImplemented == Spec => ImplementsRegistry
<1>1. Init => Registry!Init
  BY DEF Init, Registry!Init, Unregistered
<1>2. IndInv /\ [Next]_vars => [Registry!Next]_(Registry!vars)
  BY StepRefines
<1> QED
  BY <1>1, <1>2, IndInvHolds, PTL DEF Spec, Registry!Spec, ImplementsRegistry
=============================================================================
