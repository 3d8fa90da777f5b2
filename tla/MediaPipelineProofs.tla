------------------------ MODULE MediaPipelineProofs ------------------------
(***************************************************************************)
(* The safety properties of MediaPipeline, for all packets, channel        *)
(* capacities and callbacks, hung or not.                                  *)
(***************************************************************************)
EXTENDS MediaPipeline, SequenceTheorems, TLAPS

-----------------------------------------------------------------------------
(* Type correctness.                                                       *)

\* The initial values have their types.
LEMMA TypeInit == Init => TypeOK
<1> SUFFICES ASSUME Init PROVE TypeOK
  OBVIOUS
<1>1. kind \in [Packets -> Kinds] /\ way \in [Outgoing -> Ways]
        /\ registered \in BOOLEAN
  BY LoadAssumption DEF Init
<1>2. stage \in Stages /\ torn \in TearSteps
        /\ packet \in [Packets -> PacketStates] /\ out \in [Outgoing -> OutStates]
  BY DEF Init, Stages, TearSteps, PacketStates, OutStates
<1>3. <<>> \in Seq(Packets)
  OBVIOUS
<1>4. /\ queue \in [MediaKinds -> Seq(Packets)]
      /\ inHand \in [MediaKinds -> Seq(Packets)]
      /\ entered \in [MediaKinds -> Seq(Packets)]
      /\ done \in [MediaKinds -> Seq(Packets)]
  BY <1>3 DEF Init
<1> QED
  BY <1>1, <1>2, <1>4 DEF Init, TypeOK

\* Establishment and the start of the receivers keep the types.
LEMMA TypeEstablish == TypeOK /\ Establish => TypeOK'
<1> SUFFICES ASSUME TypeOK, Establish PROVE TypeOK'
  OBVIOUS
<1> USE DEF TypeOK, loops, wire, media, rest, input, history, session
<1>1. ASSUME NEW from, NEW to \in Stages, StageGoto(from, to) PROVE TypeOK'
  BY <1>1 DEF StageGoto
<1>2. CASE ResetFailed
  BY <1>2 DEF ResetFailed
<1>3. CASE Launch
  BY <1>3 DEF Launch, Loops, MediaKinds
<1>4. CASE LoadEventHandler
  BY <1>4 DEF LoadEventHandler, Loops
<1>5. SetEventStream \/ SetDecoder \/ SetEncoder \/ InitFails \/ Announce
        \/ SignalReady => TypeOK'
  BY <1>1 DEF SetEventStream, SetDecoder, SetEncoder, InitFails, Announce,
     SignalReady, Stages
<1> QED
  BY <1>2, <1>3, <1>4, <1>5 DEF Establish

\* A packet that only moves keeps the types.
LEMMA TypePacketStep ==
    ASSUME TypeOK, NEW p \in Packets, NEW from, NEW to \in PacketStates,
           PacketStep(p, from, to)
    PROVE  TypeOK'
BY DEF PacketStep, PacketGoto, TypeOK, session, loops, media, rest, input,
   history

\* So does every step of a packet.
LEMMA TypeReceive ==
    ASSUME TypeOK, NEW p \in Packets, Receive(p) PROVE TypeOK'
<1>1. CASE Accept(p)
  BY <1>1, TypePacketStep DEF Accept, PacketStates
<1>2. CASE ReadFails(p)
  BY <1>2, TypePacketStep DEF ReadFails, PacketStates
<1>3. CASE ProcessChat(p)
  BY <1>3, TypePacketStep DEF ProcessChat, PacketStates
<1>4. CASE ProcessUnknown(p)
  BY <1>4, TypePacketStep DEF ProcessUnknown, PacketStates
<1>5. CASE Enqueue(p)
  BY <1>5 DEF Enqueue, PacketGoto, PacketStates, TypeOK, session, loops, rest,
     input
<1>6. CASE Drop(p)
  BY <1>6, TypePacketStep DEF Drop, PacketStates
<1>7. CASE EnqueuePanics(p)
  BY <1>7 DEF EnqueuePanics, TypeOK, session, loops, wire, media, rest, input,
     history
<1>8. CASE DecodeEvent(p)
  BY <1>8, TypePacketStep DEF DecodeEvent, PacketStates
<1>9. CASE CallbackReturns(p)
  BY <1>9, TypePacketStep DEF CallbackReturns, PacketStates
<1> QED
  BY <1>1, <1>2, <1>3, <1>4, <1>5, <1>6, <1>7, <1>8, <1>9
  DEF Receive, Process

\* And every step of a processor.
LEMMA TypeProcessor ==
    ASSUME TypeOK, NEW k \in MediaKinds, Processor(k) PROVE TypeOK'
<1> USE DEF ProcGoto, TypeOK, session, loops, rest, input, history, wire
<1>1. CASE Take(k)
  <2>1. Head(queue[k]) \in Packets /\ Tail(queue[k]) \in Seq(Packets)
    BY <1>1 DEF Take, TakeHead
  <2>2. <<Head(queue[k])>> \in Seq(Packets)
    BY <2>1
  <2>3. /\ queue' \in [MediaKinds -> Seq(Packets)]
        /\ inHand' \in [MediaKinds -> Seq(Packets)]
        /\ packet' \in [Packets -> PacketStates]
        /\ proc' \in [MediaKinds -> {"off", "idle", "busy", "ended"}]
    BY <1>1, <2>1, <2>2 DEF Take, TakeHead, PacketStates
  <2> QED
    BY <1>1, <2>3 DEF Take, TakeHead
<1>2. CASE Finish(k)
  <2>1. done[k] \o inHand[k] \in Seq(Packets) /\ <<>> \in Seq(Packets)
    BY <1>2, ConcatProperties
  <2>2. /\ done' \in [MediaKinds -> Seq(Packets)]
        /\ inHand' \in [MediaKinds -> Seq(Packets)]
        /\ packet' \in [Packets -> PacketStates]
        /\ proc' \in [MediaKinds -> {"off", "idle", "busy", "ended"}]
    BY <1>2, <2>1 DEF Finish, PacketStates
  <2> QED
    BY <1>2, <2>2 DEF Finish
<1>3. CASE End(k)
  BY <1>3 DEF End
<1> QED
  BY <1>1, <1>2, <1>3 DEF Processor

\* And the teardown.
LEMMA TypeTeardown == TypeOK /\ Teardown => TypeOK'
<1> SUFFICES ASSUME TypeOK, Teardown PROVE TypeOK'
  OBVIOUS
<1> USE DEF TypeOK, loops, wire, media, rest, input, history
<1>1. CASE TearConn \/ AgentHangs
  BY <1>1 DEF TearConn, AgentHangs, TearSteps
<1>2. ASSUME NEW k \in MediaKinds, CloseChan(k) PROVE TypeOK'
  <2>1. torn' \in TearSteps
    BY <1>2 DEF CloseChan, NextTear, TearSteps, MediaKinds
  <2> QED
    BY <1>2, <2>1 DEF CloseChan
<1> QED
  BY <1>1, <1>2 DEF Teardown

\* And what is sent.
LEMMA TypeSend ==
    ASSUME TypeOK, NEW o \in Outgoing, SendOut(o) PROVE TypeOK'
<1> USE DEF OutStep, OutGoto, TypeOK, session, loops, media, rest, input,
            history, wire
<1>1. CASE Send(o)
  BY <1>1 DEF Send, OutStates
<1>2. CASE Emit(o)
  BY <1>2 DEF Emit, OutStates
<1>3. CASE EmitFails(o)
  BY <1>3 DEF EmitFails, OutStates, Disconnect, TearSteps
<1>4. CASE EmitPanics(o)
  BY <1>4 DEF EmitPanics
<1> QED
  BY <1>1, <1>2, <1>3, <1>4 DEF SendOut

\* The rest: the end of a loop, a registration, Disconnect, a lost link.
LEMMA TypeOthers ==
    ASSUME TypeOK,
           \/ \E l \in Loops : LoopEnds(l)
           \/ RegisterOnEvent \/ Leave \/ LinkLost
           \/ UNCHANGED vars
    PROVE  TypeOK'
<1> USE DEF TypeOK, loops, wire, media, rest, input, history, session,
            Disconnect, TearSteps
<1>1. ASSUME NEW l \in Loops, LoopEnds(l) PROVE TypeOK'
  BY <1>1 DEF LoopEnds
<1>2. CASE RegisterOnEvent \/ Leave \/ LinkLost \/ UNCHANGED vars
  BY <1>2 DEF RegisterOnEvent, Leave, LinkLost, vars
<1> QED
  BY <1>1, <1>2

\* Every step keeps the types.
LEMMA TypeNext == TypeOK /\ [Next]_vars => TypeOK'
BY TypeEstablish, TypeReceive, TypeProcessor, TypeTeardown, TypeSend,
   TypeOthers DEF Next

\* Every variable of a session's pipelines keeps its type, whatever the order
\* of packets, callbacks, calls of the application and teardown.
THEOREM TypeCorrect == Spec => []TypeOK
BY TypeInit, TypeNext, PTL DEF Spec

-----------------------------------------------------------------------------
(* The pipelines.                                                          *)

\* What is appended to the last of three parts is appended to the whole.
LEMMA AppendToLast ==
    \A d, h, q \in Seq(Packets), e \in Packets :
        Append(d \o h \o q, e) = d \o h \o Append(q, e)
<1> SUFFICES ASSUME NEW d \in Seq(Packets), NEW h \in Seq(Packets),
                    NEW q \in Seq(Packets), NEW e \in Packets
             PROVE  Append(d \o h \o q, e) = d \o h \o Append(q, e)
  OBVIOUS
<1> DEFINE front == d \o h
           last == <<e>>
<1>1. front \in Seq(Packets) /\ last \in Seq(Packets)
  BY ConcatProperties
<1>2. front \o q \in Seq(Packets)
  BY <1>1, ConcatProperties
<1>3. Append(q, e) = q \o last
  BY AppendIsConcat
<1>4. Append(front \o q, e) = (front \o q) \o last
  BY <1>2, AppendIsConcat
<1> HIDE DEF front, last
<1>5. (front \o q) \o last = front \o (q \o last)
  BY <1>1, ConcatAssociative
<1> QED
  BY <1>3, <1>4, <1>5 DEF front

\* To take the head off one part and add it to the one before changes nothing.
LEMMA MoveHead ==
    \A d, q \in Seq(Packets) :
        q # <<>> => (d \o <<Head(q)>>) \o Tail(q) = d \o q
<1> SUFFICES ASSUME NEW d \in Seq(Packets), NEW q \in Seq(Packets), q # <<>>
             PROVE  (d \o <<Head(q)>>) \o Tail(q) = d \o q
  OBVIOUS
<1> DEFINE head == <<Head(q)>>
           tail == Tail(q)
<1>1. head \in Seq(Packets) /\ tail \in Seq(Packets) /\ q = head \o tail
  BY HeadTailProperties
<1> HIDE DEF head, tail
<1>2. (d \o head) \o tail = d \o (head \o tail)
  BY <1>1, ConcatAssociative
<1> QED
  BY <1>1, <1>2 DEF head, tail

\* A processor has a packet in hand exactly when it is busy, none is at work
\* before handleConnection has started the loops, and one that has ended left
\* an empty closed channel behind.
ProcessorState ==
    /\ \A k \in MediaKinds :
        /\ proc[k] = "busy" <=> inHand[k] # <<>>
        /\ proc[k] = "ended" => queue[k] = <<>> /\ chan[k] = "closed"
    /\ receiving["events"] = "off" => \A k \in MediaKinds : proc[k] = "off"

\* What a step needs and keeps.
PipelineInv == TypeOK /\ PipelineInOrder /\ ProcessorState

\* It holds at first: nothing has entered, nobody is at work.
LEMMA PipelineInit == Init => PipelineInv
<1> SUFFICES ASSUME Init PROVE PipelineInv
  OBVIOUS
<1>1. <<>> \o <<>> \o <<>> = <<>>
  BY ConcatEmptySeq, EmptySeq
<1>2. PipelineInOrder
  BY <1>1, CapAssumption DEF Init, PipelineInOrder
<1>3. ProcessorState
  BY DEF Init, ProcessorState, Loops
<1> QED
  BY <1>2, <1>3, TypeInit DEF PipelineInv

\* A step that leaves the pipelines alone keeps the invariant, once the types
\* are right and the loops do not fall back to "off".
LEMMA PipelineUntouched ==
    ASSUME PipelineInv, TypeOK',
           UNCHANGED <<queue, proc, inHand, entered, done>>,
           \A k \in MediaKinds : chan[k] = "closed" => chan'[k] = "closed",
           receiving'["events"] = "off" => receiving["events"] = "off"
    PROVE  PipelineInv'
BY DEF PipelineInv, PipelineInOrder, ProcessorState

\* Establishment: the processors start idle, none of them had begun.
LEMMA PipelineEstablish == PipelineInv /\ Establish => PipelineInv'
<1> SUFFICES ASSUME PipelineInv, Establish PROVE PipelineInv'
  OBVIOUS
<1>1. TypeOK'
  BY TypeEstablish DEF PipelineInv
<1>2. CASE Launch
  <2>1. PipelineInOrder'
    BY <1>2 DEF Launch, history, PipelineInv, PipelineInOrder
  <2>2. receiving'["events"] = "started"
    BY <1>2 DEF Launch, Loops, PipelineInv, TypeOK
  <2>3. \A k \in MediaKinds : proc'[k] = "idle" /\ inHand'[k] = <<>>
    BY <1>2 DEF Launch, PipelineInv, ProcessorState
  <2>4. ProcessorState'
    BY <2>2, <2>3 DEF ProcessorState
  <2> QED
    BY <1>1, <2>1, <2>4 DEF PipelineInv
<1>3. CASE LoadEventHandler
  <2>1. receiving'["events"] = "on"
    BY <1>3 DEF LoadEventHandler, Loops, PipelineInv, TypeOK
  <2> QED
    BY <1>1, <1>3, <2>1, PipelineUntouched
    DEF LoadEventHandler, media, history
<1>4. CASE ~(Launch \/ LoadEventHandler)
  BY <1>1, <1>4, PipelineUntouched
  DEF Establish, SetEventStream, SetDecoder, SetEncoder, InitFails, ResetFailed,
      Announce, SignalReady, StageGoto, loops, media, history
<1> QED
  BY <1>2, <1>3, <1>4

\* A packet that enters goes to the end of the queue.
LEMMA PipelineEnqueue ==
    ASSUME PipelineInv, NEW p \in Packets, Enqueue(p) PROVE PipelineInv'
<1> DEFINE k == kind[p]
<1>1. TypeOK'
  BY TypeReceive DEF PipelineInv, Receive, Process
<1>2. /\ k \in MediaKinds /\ chan[k] = "open" /\ Len(queue[k]) < Cap
      /\ queue' = [queue EXCEPT ![k] = Append(@, p)]
      /\ entered' = [entered EXCEPT ![k] = Append(@, p)]
      /\ UNCHANGED <<chan, proc, inHand, done, receiving>>
  BY DEF Enqueue, PacketGoto, loops
<1>3. PipelineInOrder'
  <2> SUFFICES ASSUME NEW j \in MediaKinds
               PROVE  /\ entered'[j] = done'[j] \o inHand'[j] \o queue'[j]
                      /\ Len(inHand'[j]) <= 1
                      /\ Len(queue'[j]) <= Cap
    BY DEF PipelineInOrder
  <2>1. CASE j = k
    <3>1. entered'[k] = Append(entered[k], p) /\ queue'[k] = Append(queue[k], p)
      BY <1>2 DEF PipelineInv, TypeOK
    <3>2. /\ done[k] \in Seq(Packets) /\ inHand[k] \in Seq(Packets)
          /\ queue[k] \in Seq(Packets)
      BY <1>2 DEF PipelineInv, TypeOK
    <3>3. Append(done[k] \o inHand[k] \o queue[k], p)
            = done[k] \o inHand[k] \o Append(queue[k], p)
      <4> DEFINE d == done[k]
                 h == inHand[k]
                 q == queue[k]
      <4>1. d \in Seq(Packets) /\ h \in Seq(Packets) /\ q \in Seq(Packets)
        BY <3>2
      <4> HIDE DEF d, h, q
      <4>2. Append(d \o h \o q, p) = d \o h \o Append(q, p)
        BY <4>1, AppendToLast
      <4> QED
        BY <4>2 DEF d, h, q
    <3>4. entered'[k] = done'[k] \o inHand'[k] \o queue'[k]
      BY <1>2, <3>1, <3>3 DEF PipelineInv, PipelineInOrder
    <3>5. Len(Append(queue[k], p)) <= Cap
      BY <1>2, <3>2, CapAssumption
    <3> QED
      BY <1>2, <2>1, <3>1, <3>4, <3>5 DEF PipelineInv, PipelineInOrder
  <2>2. CASE j # k
    BY <1>2, <2>2 DEF PipelineInv, TypeOK, PipelineInOrder
  <2> QED
    BY <2>1, <2>2
<1>4. ProcessorState'
  BY <1>2 DEF PipelineInv, TypeOK, ProcessorState
<1> QED
  BY <1>1, <1>3, <1>4 DEF PipelineInv

\* Every other step of a packet leaves the pipelines alone.
LEMMA PipelineReceive ==
    ASSUME PipelineInv, NEW p \in Packets, Receive(p) PROVE PipelineInv'
<1>1. TypeOK'
  BY TypeReceive DEF PipelineInv
<1>2. CASE Enqueue(p)
  BY <1>2, PipelineEnqueue
<1>3. CASE ~Enqueue(p)
  <2>1. UNCHANGED <<media, loops>>
    BY <1>3 DEF Receive, Process, Accept, ReadFails, ProcessChat,
       ProcessUnknown, Drop, EnqueuePanics, DecodeEvent, CallbackReturns,
       PacketStep
  <2> QED
    BY <1>1, <2>1, PipelineUntouched DEF media, history, loops
<1> QED
  BY <1>2, <1>3

\* The head of the queue passes into the hand.
LEMMA PipelineTake ==
    ASSUME PipelineInv, NEW k \in MediaKinds, Take(k) PROVE PipelineInv'
<1> DEFINE q == queue[k]
<1>1. TypeOK'
  BY TypeProcessor DEF PipelineInv, Processor
<1>2. /\ q # <<>> /\ proc[k] = "idle"
      /\ proc' = [proc EXCEPT ![k] = "busy"]
      /\ queue' = [queue EXCEPT ![k] = Tail(q)]
      /\ inHand' = [inHand EXCEPT ![k] = <<Head(q)>>]
      /\ UNCHANGED <<chan, entered, done, receiving>>
  BY DEF Take, TakeHead, ProcGoto, loops, history
<1>3. inHand[k] = <<>>
  BY <1>2 DEF PipelineInv, ProcessorState
<1>4. /\ q \in Seq(Packets) /\ Head(q) \in Packets /\ Tail(q) \in Seq(Packets)
      /\ q = <<Head(q)>> \o Tail(q) /\ Len(Tail(q)) = Len(q) - 1
      /\ <<Head(q)>> \in Seq(Packets)
  BY <1>2, HeadTailProperties DEF PipelineInv, TypeOK
<1>5. PipelineInOrder'
  <2> SUFFICES ASSUME NEW j \in MediaKinds
               PROVE  /\ entered'[j] = done'[j] \o inHand'[j] \o queue'[j]
                      /\ Len(inHand'[j]) <= 1
                      /\ Len(queue'[j]) <= Cap
    BY DEF PipelineInOrder
  <2>1. CASE j = k
    <3>1. inHand'[k] = <<Head(q)>> /\ queue'[k] = Tail(q)
      BY <1>2 DEF PipelineInv, TypeOK
    <3>2. done[k] \in Seq(Packets)
      BY DEF PipelineInv, TypeOK
    <3>3. done[k] \o <<>> = done[k]
      BY <3>2, ConcatEmptySeq
    <3>4. entered[k] = done[k] \o q
      BY <1>3, <3>3 DEF PipelineInv, PipelineInOrder
    <3>5. done[k] \o <<Head(q)>> \o Tail(q) = done[k] \o q
      BY <1>2, <1>4, <3>2, MoveHead, Zenon
    <3>6. Len(<<Head(q)>>) <= 1
      OBVIOUS
    <3>7. Len(q) <= Cap
      BY DEF PipelineInv, PipelineInOrder
    <3>8. Len(Tail(q)) <= Cap
      BY <1>4, <3>7, CapAssumption
    <3> QED
      BY <1>2, <2>1, <3>1, <3>4, <3>5, <3>6, <3>8
  <2>2. CASE j # k
    BY <1>2, <2>2 DEF PipelineInv, TypeOK, PipelineInOrder
  <2> QED
    BY <2>1, <2>2
<1>6. ProcessorState'
  <2>1. <<Head(q)>> # <<>>
    OBVIOUS
  <2>2. receiving'["events"] # "off"
    BY <1>2 DEF PipelineInv, ProcessorState
  <2>3. ASSUME NEW j \in MediaKinds
        PROVE  /\ proc'[j] = "busy" <=> inHand'[j] # <<>>
               /\ proc'[j] = "ended" => queue'[j] = <<>> /\ chan'[j] = "closed"
    BY <1>2, <2>1 DEF PipelineInv, TypeOK, ProcessorState
  <2> QED
    BY <2>2, <2>3 DEF ProcessorState
<1> QED
  BY <1>1, <1>5, <1>6 DEF PipelineInv

\* What was in hand is done.
LEMMA PipelineFinish ==
    ASSUME PipelineInv, NEW k \in MediaKinds, Finish(k) PROVE PipelineInv'
<1>1. TypeOK'
  BY TypeProcessor DEF PipelineInv, Processor
<1>2. /\ proc[k] = "busy" /\ proc' = [proc EXCEPT ![k] = "idle"]
      /\ done' = [done EXCEPT ![k] = @ \o inHand[k]]
      /\ inHand' = [inHand EXCEPT ![k] = <<>>]
      /\ UNCHANGED <<chan, queue, entered, receiving>>
  BY DEF Finish, ProcGoto, loops
<1>3. PipelineInOrder'
  <2> SUFFICES ASSUME NEW j \in MediaKinds
               PROVE  /\ entered'[j] = done'[j] \o inHand'[j] \o queue'[j]
                      /\ Len(inHand'[j]) <= 1
                      /\ Len(queue'[j]) <= Cap
    BY DEF PipelineInOrder
  <2>1. CASE j = k
    <3>1. inHand'[k] = <<>> /\ done'[k] = done[k] \o inHand[k]
      BY <1>2 DEF PipelineInv, TypeOK
    <3>2. done[k] \o inHand[k] \in Seq(Packets)
      BY ConcatProperties DEF PipelineInv, TypeOK
    <3>3. (done[k] \o inHand[k]) \o <<>> = done[k] \o inHand[k]
      BY <3>2, ConcatEmptySeq
    <3>4. entered[k] = (done[k] \o inHand[k]) \o queue[k]
      BY DEF PipelineInv, PipelineInOrder
    <3>5. entered'[k] = done'[k] \o inHand'[k] \o queue'[k]
      BY <1>2, <3>1, <3>3, <3>4
    <3>6. Len(inHand'[k]) <= 1
      BY <3>1, EmptySeq
    <3>7. Len(queue'[k]) <= Cap
      BY <1>2 DEF PipelineInv, PipelineInOrder
    <3> QED
      BY <2>1, <3>5, <3>6, <3>7
  <2>2. CASE j # k
    BY <1>2, <2>2 DEF PipelineInv, TypeOK, PipelineInOrder
  <2> QED
    BY <2>1, <2>2
<1>4. ProcessorState'
  BY <1>2 DEF PipelineInv, TypeOK, ProcessorState
<1> QED
  BY <1>1, <1>3, <1>4 DEF PipelineInv

\* Range ends on an empty closed channel.
LEMMA PipelineEnd ==
    ASSUME PipelineInv, NEW k \in MediaKinds, End(k) PROVE PipelineInv'
<1>1. TypeOK'
  BY TypeProcessor DEF PipelineInv, Processor
<1>2. PipelineInOrder'
  BY DEF End, history, PipelineInv, PipelineInOrder
<1>3. ProcessorState'
  BY DEF End, ProcGoto, loops, wire, PipelineInv, TypeOK, ProcessorState
<1> QED
  BY <1>1, <1>2, <1>3 DEF PipelineInv

\* The rest of Next: a channel is closed at most, a loop ends at most.
LEMMA PipelineOthers ==
    ASSUME PipelineInv,
           \/ \E l \in Loops : LoopEnds(l)
           \/ RegisterOnEvent \/ Teardown \/ Leave \/ LinkLost
           \/ \E o \in Outgoing : SendOut(o)
           \/ UNCHANGED vars
    PROVE  PipelineInv'
<1>1. TypeOK'
  BY TypeOthers, TypeTeardown, TypeSend DEF PipelineInv
<1> USE DEF media, history, loops
<1>2. ASSUME NEW l \in Loops, LoopEnds(l) PROVE PipelineInv'
  <2>1. receiving'["events"] = "off" => receiving["events"] = "off"
    BY <1>2 DEF LoopEnds, PipelineInv, TypeOK, Loops
  <2> QED
    BY <1>1, <1>2, <2>1, PipelineUntouched DEF LoopEnds
<1>3. ASSUME NEW k \in MediaKinds, CloseChan(k) PROVE PipelineInv'
  <2>1. \A j \in MediaKinds : chan[j] = "closed" => chan'[j] = "closed"
    BY <1>3 DEF CloseChan, PipelineInv, TypeOK
  <2> QED
    BY <1>1, <1>3, <2>1, PipelineUntouched DEF CloseChan
<1>4. ASSUME NEW o \in Outgoing, SendOut(o) PROVE PipelineInv'
  BY <1>1, <1>4, PipelineUntouched
  DEF SendOut, Send, Emit, EmitFails, EmitPanics, OutStep
<1>5. CASE RegisterOnEvent \/ TearConn \/ AgentHangs \/ Leave \/ LinkLost \/ UNCHANGED vars
  BY <1>1, <1>5, PipelineUntouched
  DEF RegisterOnEvent, TearConn, AgentHangs, Leave, LinkLost, vars
<1> QED
  BY <1>2, <1>3, <1>4, <1>5 DEF Teardown

\* Every step keeps the invariant.
LEMMA PipelineNext == PipelineInv /\ [Next]_vars => PipelineInv'
<1> SUFFICES ASSUME PipelineInv, [Next]_vars PROVE PipelineInv'
  OBVIOUS
<1>1. ASSUME NEW k \in MediaKinds, Processor(k) PROVE PipelineInv'
  BY <1>1, PipelineTake, PipelineFinish, PipelineEnd DEF Processor
<1> QED
  BY <1>1, PipelineEstablish, PipelineReceive, PipelineOthers DEF Next

\* The invariant holds in every reachable state.
LEMMA PipelineAlways == Spec => []PipelineInv
BY PipelineInit, PipelineNext, PTL DEF Spec

\* Each media channel and its processor are a queue without loss or disorder,
\* and never more than Cap packets wait, however many the peer sends and
\* whenever callbacks, receivers and disconnectSession run.
THEOREM PipelinesKeepOrder == Spec => []PipelineInOrder
<1>1. PipelineInv => PipelineInOrder
  BY DEF PipelineInv
<1> QED
  BY <1>1, PipelineAlways, PTL

\* Closing the channels of a session loses nothing that is in them.
THEOREM NothingLostAtTheEnd == Spec => []EndedDrained
<1>1. ASSUME PipelineInv, NEW k \in MediaKinds, proc[k] = "ended"
      PROVE  done[k] = entered[k]
  <2>1. queue[k] = <<>> /\ inHand[k] = <<>>
    BY <1>1 DEF PipelineInv, ProcessorState
  <2>2. done[k] \in Seq(Packets)
    BY <1>1 DEF PipelineInv, TypeOK
  <2>3. done[k] \o <<>> \o <<>> = done[k]
    BY <2>2, ConcatEmptySeq
  <2> QED
    BY <1>1, <2>1, <2>3 DEF PipelineInv, PipelineInOrder
<1>2. PipelineInv => EndedDrained
  BY <1>1 DEF EndedDrained
<1> QED
  BY <1>2, PipelineAlways, PTL

-----------------------------------------------------------------------------
(* The contract of the callbacks.                                          *)

Handed == {"queued", "called", "done"}

\* What has entered a channel is a packet of media that its receiver has handed
\* over, for good: no packet enters twice.
EnteredOnce ==
    \A k \in MediaKinds : \A i \in DOMAIN entered[k] :
        packet[entered[k][i]] \in Handed /\ kind[entered[k][i]] \in MediaKinds

\* A packet of media that is handed over stays so.
LEMMA StaysHanded ==
    ASSUME TypeOK, [Next]_vars, NEW p \in Packets,
           packet[p] \in Handed, kind[p] \in MediaKinds
    PROVE  packet'[p] \in Handed /\ kind'[p] = kind[p]
<1> USE DEF Handed
<1>1. ASSUME NEW q \in Packets, NEW from \in {"peer", "reading"}, NEW to,
             PacketGoto(q, from, to)
      PROVE  packet'[p] = packet[p]
  BY <1>1 DEF PacketGoto, TypeOK
<1>2. ASSUME NEW q \in Packets, Receive(q)
      PROVE  packet'[p] \in Handed /\ kind'[p] = kind[p]
  <2>1. kind' = kind
    BY <1>2 DEF Receive, Process, Accept, ReadFails, ProcessChat, ProcessUnknown,
       Enqueue, Drop, EnqueuePanics, DecodeEvent, CallbackReturns, PacketStep,
       rest, input
  <2>2. CASE CallbackReturns(q)
    <3>1. q # p
      BY <2>2 DEF CallbackReturns, MediaKinds
    <3> QED
      BY <2>1, <2>2, <3>1 DEF CallbackReturns, PacketStep, PacketGoto, TypeOK
  <2>3. CASE EnqueuePanics(q)
    BY <2>1, <2>3 DEF EnqueuePanics, wire
  <2>4. CASE ~(CallbackReturns(q) \/ EnqueuePanics(q))
    BY <1>1, <1>2, <2>1, <2>4
    DEF Receive, Process, Accept, ReadFails, ProcessChat, ProcessUnknown,
        Enqueue, Drop, DecodeEvent, PacketStep
  <2> QED
    BY <2>2, <2>3, <2>4
<1>3. ASSUME NEW k \in MediaKinds, Processor(k)
      PROVE  packet'[p] \in Handed /\ kind'[p] = kind[p]
  <2>1. CASE Take(k)
    BY <2>1 DEF Take, TakeHead, TypeOK, rest, input
  <2>2. CASE Finish(k)
    BY <2>2 DEF Finish, rest, input
  <2>3. CASE End(k)
    BY <2>3 DEF End, wire, rest, input
  <2> QED
    BY <1>3, <2>1, <2>2, <2>3 DEF Processor
<1>4. ASSUME NEW o \in Outgoing, SendOut(o) PROVE packet' = packet /\ kind' = kind
  BY <1>4 DEF SendOut, Send, Emit, EmitFails, EmitPanics, OutStep, wire, rest, input
<1>5. Establish \/ Teardown => packet' = packet /\ kind' = kind
  BY DEF Establish, SetEventStream, SetDecoder, SetEncoder, InitFails, ResetFailed,
     Announce, Launch, SignalReady, LoadEventHandler, StageGoto, Teardown, TearConn,
     AgentHangs, CloseChan, wire, rest, input
<1>6. RegisterOnEvent \/ Leave \/ LinkLost \/ (\E l \in Loops : LoopEnds(l))
        \/ UNCHANGED vars => packet' = packet /\ kind' = kind
  BY DEF RegisterOnEvent, Leave, LinkLost, LoopEnds, vars, wire, rest, input
<1> QED
  BY <1>2, <1>3, <1>4, <1>5, <1>6 DEF Next

\* Only Enqueue lets a packet in.
LEMMA EntersByEnqueue ==
    ASSUME [Next]_vars, \A p \in Packets : ~Enqueue(p)
    PROVE  entered' = entered
<1>1. ASSUME NEW p \in Packets, Receive(p) PROVE entered' = entered
  BY <1>1 DEF Receive, Process, Accept, ReadFails, ProcessChat, ProcessUnknown,
     Drop, EnqueuePanics, DecodeEvent, CallbackReturns, PacketStep, media, history
<1>2. ASSUME NEW k \in MediaKinds, Processor(k) PROVE entered' = entered
  BY <1>2 DEF Processor, Take, TakeHead, Finish, End, history
<1>3. ASSUME NEW o \in Outgoing, SendOut(o) PROVE entered' = entered
  BY <1>3 DEF SendOut, Send, Emit, EmitFails, EmitPanics, OutStep, media, history
<1>4. Establish \/ Teardown => entered' = entered
  BY DEF Establish, SetEventStream, SetDecoder, SetEncoder, InitFails, ResetFailed,
     Announce, Launch, SignalReady, LoadEventHandler, StageGoto, Teardown, TearConn,
     AgentHangs, CloseChan, media, history
<1>5. RegisterOnEvent \/ Leave \/ LinkLost \/ (\E l \in Loops : LoopEnds(l))
        \/ UNCHANGED vars => entered' = entered
  BY DEF RegisterOnEvent, Leave, LinkLost, LoopEnds, vars, media, history
<1> QED
  BY <1>1, <1>2, <1>3, <1>4, <1>5 DEF Next

LEMMA EnteredOnceKept == PipelineInv /\ EnteredOnce /\ [Next]_vars => EnteredOnce'
<1> SUFFICES ASSUME PipelineInv, EnteredOnce, [Next]_vars,
                    NEW k \in MediaKinds, NEW i \in DOMAIN entered'[k]
             PROVE  packet'[entered'[k][i]] \in Handed
                    /\ kind'[entered'[k][i]] \in MediaKinds
  BY DEF EnteredOnce
<1>0. TypeOK /\ entered[k] \in Seq(Packets)
  BY DEF PipelineInv, TypeOK
<1>1. ASSUME entered'[k] = entered[k]
      PROVE  packet'[entered'[k][i]] \in Handed
             /\ kind'[entered'[k][i]] \in MediaKinds
  <2>1. entered[k][i] \in Packets
    BY <1>0, <1>1
  <2> QED
    BY <1>0, <1>1, <2>1, StaysHanded DEF EnteredOnce
<1>2. ASSUME NEW p \in Packets, Enqueue(p), kind[p] = k
      PROVE  packet'[entered'[k][i]] \in Handed
             /\ kind'[entered'[k][i]] \in MediaKinds
  <2>1. entered'[k] = Append(entered[k], p) /\ packet'[p] = "queued" /\ kind' = kind
    BY <1>0, <1>2 DEF Enqueue, PacketGoto, TypeOK, rest, input
  <2>2. CASE i = Len(entered[k]) + 1
    BY <1>0, <1>2, <2>1, <2>2 DEF Handed
  <2>3. CASE i # Len(entered[k]) + 1
    <3>1. i \in DOMAIN entered[k] /\ entered'[k][i] = entered[k][i]
      BY <1>0, <2>1, <2>3
    <3>2. entered[k][i] \in Packets
      BY <1>0, <3>1
    <3> QED
      BY <1>0, <3>1, <3>2, StaysHanded DEF EnteredOnce
  <2> QED
    BY <2>2, <2>3
<1>3. ASSUME NEW p \in Packets, Enqueue(p), kind[p] # k PROVE entered'[k] = entered[k]
  BY <1>0, <1>3 DEF Enqueue, TypeOK
<1> QED
  BY <1>1, <1>2, <1>3, EntersByEnqueue

\* What the contract sees of a pipeline: what has been called.
LEMMA CalledLength ==
    ASSUME PipelineInv, NEW k \in MediaKinds
    PROVE  /\ done[k] \o inHand[k] \in Seq(Packets)
           /\ Len(done[k] \o inHand[k]) = Len(done[k]) + Len(inHand[k])
           /\ Len(entered[k]) = Len(done[k] \o inHand[k]) + Len(queue[k])
<1>1. done[k] \in Seq(Packets) /\ inHand[k] \in Seq(Packets)
      /\ queue[k] \in Seq(Packets)
  BY DEF PipelineInv, TypeOK
<1>2. done[k] \o inHand[k] \in Seq(Packets)
      /\ Len(done[k] \o inHand[k]) = Len(done[k]) + Len(inHand[k])
  BY <1>1, ConcatProperties
<1>3. entered[k] = (done[k] \o inHand[k]) \o queue[k]
  BY DEF PipelineInv, PipelineInOrder
<1>4. Len((done[k] \o inHand[k]) \o queue[k])
        = Len(done[k] \o inHand[k]) + Len(queue[k])
  BY <1>1, <1>2, ConcatProperties
<1> QED
  BY <1>2, <1>3, <1>4

\* A step that leaves the sequences and the channels alone.
LEMMA Invisible ==
    ASSUME UNCHANGED <<entered, done, inHand, chan>>
    PROVE  UNCHANGED Callbacks!vars
BY DEF Callbacks!vars

\* Processing a packet of media that finds room accepts it.
LEMMA EnqueueAccepts ==
    ASSUME PipelineInv, EnteredOnce, NEW p \in Packets, Enqueue(p)
    PROVE  Callbacks!Accept(kind[p], p)
<1> DEFINE k == kind[p]
<1>1. /\ k \in MediaKinds /\ chan[k] = "open" /\ Len(queue[k]) < Cap
      /\ packet[p] = "reading"
      /\ entered' = [entered EXCEPT ![k] = Append(@, p)]
      /\ UNCHANGED <<chan, inHand, done>>
  BY DEF Enqueue, PacketGoto
<1>2. \A j \in MediaKinds : p \notin Callbacks!Members(entered[j])
  BY <1>1 DEF EnteredOnce, Handed, Callbacks!Members
<1>3. Len(entered[k]) < Len(done[k] \o inHand[k]) + Cap
  <2>1. queue[k] \in Seq(Packets) /\ done[k] \o inHand[k] \in Seq(Packets)
        /\ Len(entered[k]) = Len(done[k] \o inHand[k]) + Len(queue[k])
    BY <1>1, CalledLength DEF PipelineInv, TypeOK
  <2> DEFINE c == done[k] \o inHand[k]
             q == queue[k]
             e == entered[k]
  <2>2. Len(q) < Cap /\ q \in Seq(Packets) /\ c \in Seq(Packets)
        /\ Len(e) = Len(c) + Len(q)
    BY <1>1, <2>1
  <2> HIDE DEF c, q, e
  <2>3. Len(e) < Len(c) + Cap
    BY <2>2, CapAssumption
  <2> QED
    BY <2>3 DEF c, e
<1> QED
  BY <1>1, <1>2, <1>3 DEF Callbacks!Accept

\* Taking a packet off the channel is the next call.
LEMMA TakeCalls ==
    ASSUME PipelineInv, NEW k \in MediaKinds, Take(k) PROVE Callbacks!Call(k)
<1> DEFINE q == queue[k]
           d == done[k]
           called == [j \in MediaKinds |-> done[j] \o inHand[j]]
<1>1. /\ q # <<>> /\ proc[k] = "idle"
      /\ inHand' = [inHand EXCEPT ![k] = <<Head(q)>>]
      /\ UNCHANGED <<chan, entered, done>>
  BY DEF Take, TakeHead, ProcGoto, history
<1>2. inHand[k] = <<>> /\ d \in Seq(Packets) /\ q \in Seq(Packets)
  BY <1>1 DEF PipelineInv, ProcessorState, TypeOK
<1>3. d \o <<>> = d
  BY <1>2, ConcatEmptySeq
<1>4. entered[k] = d \o q
  BY <1>2, <1>3 DEF PipelineInv, PipelineInOrder
<1>5. Len(d) < Len(entered[k]) /\ entered[k][Len(d) + 1] = Head(q)
  <2> HIDE DEF d, q
  <2>1. Len(d) \in Nat /\ Len(q) \in Nat /\ Len(q) > 0 /\ Head(q) = q[1]
    BY <1>1, <1>2
  <2>2. Len(d \o q) = Len(d) + Len(q)
        /\ \A i \in 1 .. Len(d) + Len(q) :
              (d \o q)[i] = IF i <= Len(d) THEN d[i] ELSE q[i - Len(d)]
    BY <1>2, ConcatProperties
  <2>3. (d \o q)[Len(d) + 1] = q[1]
    BY <2>1, <2>2
  <2> QED
    BY <1>4, <2>1, <2>2, <2>3
<1>6. d \o <<Head(q)>> = Append(d, Head(q))
  <2>1. Head(q) \in Packets
    BY <1>1, <1>2
  <2> QED
    BY <1>2, <2>1, AppendIsConcat
<1>7. called[k] = d /\ done[k] = called[k]
  BY <1>2, <1>3
<1>8. called' = [called EXCEPT ![k] = Append(@, entered[k][Len(@) + 1])]
  <2>1. \A j \in MediaKinds : j # k => inHand'[j] = inHand[j]
    BY <1>1 DEF PipelineInv, TypeOK
  <2>2. inHand'[k] = <<Head(q)>>
    BY <1>1 DEF PipelineInv, TypeOK
  <2>3. called'[k] = Append(called[k], entered[k][Len(called[k]) + 1])
    BY <1>1, <1>5, <1>6, <1>7, <2>2
  <2>4. \A j \in MediaKinds : j # k => called'[j] = called[j]
    <3> SUFFICES ASSUME NEW j \in MediaKinds, j # k
                 PROVE  done'[j] \o inHand'[j] = done[j] \o inHand[j]
      OBVIOUS
    <3>1. done'[j] = done[j] /\ inHand'[j] = inHand[j]
      BY <1>1, <2>1
    <3> QED
      BY <3>1
  <2>5. called' = [j \in MediaKinds |-> called'[j]]
    OBVIOUS
  <2> QED
    BY <2>3, <2>4, <2>5
<1>9. Len(called[k]) < Len(entered[k])
  BY <1>5, <1>7
<1> QED
  BY <1>1, <1>7, <1>8, <1>9 DEF Callbacks!Call

\* Finishing with a packet is the return of its call.
LEMMA FinishReturns ==
    ASSUME PipelineInv, NEW k \in MediaKinds, Finish(k) PROVE Callbacks!Return(k)
<1> DEFINE called == [j \in MediaKinds |-> done[j] \o inHand[j]]
<1>1. /\ proc[k] = "busy"
      /\ done' = [done EXCEPT ![k] = @ \o inHand[k]]
      /\ inHand' = [inHand EXCEPT ![k] = <<>>]
      /\ UNCHANGED <<chan, entered>>
  BY DEF Finish, ProcGoto
<1>2. /\ done[k] \in Seq(Packets) /\ inHand[k] \in Seq(Packets)
      /\ inHand[k] # <<>>
  BY <1>1 DEF PipelineInv, ProcessorState, TypeOK
<1>3. done[k] # called[k]
  <2> DEFINE d == done[k]
             h == inHand[k]
  <2>1. d \in Seq(Packets) /\ h \in Seq(Packets) /\ h # <<>>
        /\ Len(d \o h) = Len(d) + Len(h)
    BY <1>2, CalledLength
  <2> HIDE DEF d, h
  <2>2. Len(h) > 0 /\ Len(h) \in Nat /\ Len(d) \in Nat
    BY <2>1
  <2>3. d # d \o h
    BY <2>1, <2>2
  <2> QED
    BY <2>3 DEF d, h
<1>4. called' = called
  <2>1. \A j \in MediaKinds : j # k => inHand'[j] = inHand[j] /\ done'[j] = done[j]
    BY <1>1 DEF PipelineInv, TypeOK
  <2>2. inHand'[k] = <<>> /\ done'[k] = done[k] \o inHand[k]
    BY <1>1 DEF PipelineInv, TypeOK
  <2>3. (done[k] \o inHand[k]) \o <<>> = done[k] \o inHand[k]
    BY CalledLength, ConcatEmptySeq
  <2>4. ASSUME NEW j \in MediaKinds
        PROVE  done'[j] \o inHand'[j] = done[j] \o inHand[j]
    <3>1. CASE j = k
      BY <2>2, <2>3, <3>1
    <3>2. CASE j # k
      <4>1. inHand'[j] = inHand[j] /\ done'[j] = done[j]
        BY <2>1, <3>2
      <4> QED
        BY <4>1
    <3> QED
      BY <3>1, <3>2
  <2> QED
    BY <2>4
<1>5. done' = [done EXCEPT ![k] = called[k]]
  BY <1>1
<1> QED
  BY <1>1, <1>3, <1>4, <1>5 DEF Callbacks!Return

\* close(...Chan) closes a kind, or finds it closed.
LEMMA CloseChanCloses ==
    ASSUME PipelineInv, NEW k \in MediaKinds, CloseChan(k)
    PROVE  Callbacks!Close(k) \/ UNCHANGED Callbacks!vars
<1> DEFINE closed == {j \in MediaKinds : chan[j] = "closed"}
<1>1. chan' = [chan EXCEPT ![k] = "closed"]
      /\ UNCHANGED <<entered, done, inHand>>
  BY DEF CloseChan, history
<1>2. closed' = closed \cup {k}
  BY <1>1 DEF PipelineInv, TypeOK
<1> QED
  BY <1>1, <1>2 DEF Callbacks!Close, Callbacks!vars

\* The other steps are invisible to the callbacks.
LEMMA OthersInvisible ==
    ASSUME [Next]_vars,
           \A p \in Packets : ~Enqueue(p),
           \A k \in MediaKinds : ~(Take(k) \/ Finish(k) \/ CloseChan(k))
    PROVE  UNCHANGED <<entered, done, inHand, chan>>
<1> USE DEF media, history
<1>1. ASSUME NEW p \in Packets, Receive(p)
      PROVE  UNCHANGED <<entered, done, inHand, chan>>
  BY <1>1 DEF Receive, Process, Accept, ReadFails, ProcessChat, ProcessUnknown,
     Drop, EnqueuePanics, DecodeEvent, CallbackReturns, PacketStep
<1>2. ASSUME NEW k \in MediaKinds, Processor(k)
      PROVE  UNCHANGED <<entered, done, inHand, chan>>
  BY <1>2 DEF Processor, End
<1>3. ASSUME NEW o \in Outgoing, SendOut(o)
      PROVE  UNCHANGED <<entered, done, inHand, chan>>
  BY <1>3 DEF SendOut, Send, Emit, EmitFails, EmitPanics, OutStep
<1>4. Establish \/ Teardown => UNCHANGED <<entered, done, inHand, chan>>
  BY DEF Establish, SetEventStream, SetDecoder, SetEncoder, InitFails, ResetFailed,
     Announce, Launch, SignalReady, LoadEventHandler, StageGoto, Teardown, TearConn,
     AgentHangs
<1>5. RegisterOnEvent \/ Leave \/ LinkLost \/ (\E l \in Loops : LoopEnds(l))
        \/ UNCHANGED vars => UNCHANGED <<entered, done, inHand, chan>>
  BY DEF RegisterOnEvent, Leave, LinkLost, LoopEnds, vars
<1> QED
  BY <1>1, <1>2, <1>3, <1>4, <1>5 DEF Next

\* A session implements the contract of its media callbacks: receivers,
\* processors and disconnectSession together (startDatagramsProcessors,
\* processData, disconnectSession, helpers.go 31-148).
THEOREM CallbacksImplemented == Spec => ImplementsCallbacks
<1>1. Init => Callbacks!Init /\ EnteredOnce
  <2> SUFFICES ASSUME Init PROVE Callbacks!Init /\ EnteredOnce
    OBVIOUS
  <2>1. <<>> \o <<>> = <<>>
    BY ConcatEmptySeq, EmptySeq
  <2>2. [k \in MediaKinds |-> done[k] \o inHand[k]] = [k \in MediaKinds |-> <<>>]
    BY <2>1 DEF Init
  <2>3. {k \in MediaKinds : chan[k] = "closed"} = {}
    BY DEF Init
  <2>4. EnteredOnce
    BY DEF Init, EnteredOnce
  <2> QED
    BY <2>2, <2>3, <2>4 DEF Init, Callbacks!Init
<1>2. PipelineInv /\ EnteredOnce /\ [Next]_vars => EnteredOnce'
  BY EnteredOnceKept
<1>3. PipelineInv /\ EnteredOnce /\ [Next]_vars
      => [Callbacks!Next]_(Callbacks!vars)
  <2> SUFFICES ASSUME PipelineInv, EnteredOnce, [Next]_vars
               PROVE  Callbacks!Next \/ UNCHANGED Callbacks!vars
    OBVIOUS
  <2>1. ASSUME NEW p \in Packets, Enqueue(p) PROVE Callbacks!Next
    <3>1. kind[p] \in MediaKinds
      BY <2>1 DEF Enqueue
    <3> QED
      BY <2>1, <3>1, EnqueueAccepts DEF Callbacks!Next
  <2>2. ASSUME NEW k \in MediaKinds, Take(k) \/ Finish(k) \/ CloseChan(k)
        PROVE  Callbacks!Next \/ UNCHANGED Callbacks!vars
    BY <2>2, TakeCalls, FinishReturns, CloseChanCloses DEF Callbacks!Next
  <2> QED
    BY <2>1, <2>2, OthersInvisible, Invisible
<1> QED
  BY <1>1, <1>2, <1>3, PipelineAlways, PTL
  DEF Spec, Callbacks!Spec, ImplementsCallbacks
-----------------------------------------------------------------------------
(* Events.                                                                 *)

NoEventDropped == \A p \in Packets : kind[p] = "event" => packet[p] # "dropped"

\* The application has a callback, and the event loop, once it has looked,
\* has found it.
HandlerFound ==
    /\ TypeOK
    /\ registered
    /\ receiving["events"] \in {"on", "ended"} => eventHandler
    /\ NoEventDropped

\* What concerns no packet.
LEMMA HandlerOthers ==
    ASSUME HandlerFound, [Next]_vars,
           ~(\E p \in Packets : Receive(p)), ~(\E k \in MediaKinds : Processor(k))
    PROVE  HandlerFound'
<1> USE DEF HandlerFound, NoEventDropped, session, loops, wire, rest, input
<1>1. TypeOK'
  BY TypeNext
<1>2. CASE Launch
  BY <1>1, <1>2 DEF Launch, TypeOK, Loops
<1>3. CASE LoadEventHandler
  BY <1>1, <1>3 DEF LoadEventHandler
<1>4. CASE \E l \in Loops : LoopEnds(l)
  BY <1>1, <1>4 DEF LoopEnds, TypeOK, Loops
<1>5. ASSUME UNCHANGED <<kind, registered, receiving, eventHandler, packet>>
      PROVE  HandlerFound'
  BY <1>1, <1>5
<1>6. ASSUME NEW o \in Outgoing, SendOut(o) PROVE HandlerFound'
  BY <1>5, <1>6 DEF SendOut, Send, Emit, EmitFails, EmitPanics, OutStep
<1>7. CASE Establish
  BY <1>2, <1>3, <1>5, <1>7 DEF Establish, SetEventStream, SetDecoder, SetEncoder,
     InitFails, ResetFailed, Announce, SignalReady, StageGoto
<1>8. CASE Teardown \/ RegisterOnEvent \/ Leave \/ LinkLost \/ UNCHANGED vars
  BY <1>5, <1>8 DEF Teardown, TearConn, AgentHangs, CloseChan, RegisterOnEvent,
     Leave, LinkLost, vars
<1> QED
  BY <1>4, <1>6, <1>7, <1>8 DEF Next

\* What concerns one.
LEMMA HandlerPackets ==
    ASSUME HandlerFound, [Next]_vars,
           \/ \E p \in Packets : Receive(p)
           \/ \E k \in MediaKinds : Processor(k)
    PROVE  HandlerFound'
<1> USE DEF HandlerFound, NoEventDropped, loops, wire, rest, input
<1>1. TypeOK'
  BY TypeNext
<1>2. ASSUME UNCHANGED <<kind, registered, receiving, eventHandler>>,
             NoEventDropped'
      PROVE  HandlerFound'
  BY <1>1, <1>2
<1>3. ASSUME NEW p \in Packets, NEW from, NEW to, PacketStep(p, from, to),
             kind[p] = "event" => to # "dropped"
      PROVE  HandlerFound'
  BY <1>2, <1>3 DEF PacketStep, PacketGoto, TypeOK
<1>4. ASSUME NEW p \in Packets, Receive(p) PROVE HandlerFound'
  <2>1. CASE Accept(p) \/ ReadFails(p) \/ ProcessChat(p) \/ CallbackReturns(p)
    BY <1>3, <2>1 DEF Accept, ReadFails, ProcessChat, CallbackReturns
  <2>2. CASE ProcessUnknown(p) \/ Drop(p)
    BY <1>3, <2>2 DEF ProcessUnknown, Drop, MediaKinds
  <2>3. CASE DecodeEvent(p)
    BY <1>3, <2>3 DEF DecodeEvent
  <2>4. CASE Enqueue(p)
    BY <1>2, <2>4 DEF Enqueue, PacketGoto, TypeOK
  <2>5. CASE EnqueuePanics(p)
    BY <1>2, <2>5 DEF EnqueuePanics
  <2> QED
    BY <1>4, <2>1, <2>2, <2>3, <2>4, <2>5 DEF Receive, Process
<1>5. ASSUME NEW k \in MediaKinds, Processor(k) PROVE HandlerFound'
  <2>1. CASE Take(k)
    BY <1>2, <2>1 DEF Take, TakeHead, TypeOK
  <2>2. CASE Finish(k)
    BY <1>2, <2>2 DEF Finish, TypeOK
  <2>3. CASE End(k)
    BY <1>2, <2>3 DEF End
  <2> QED
    BY <1>5, <2>1, <2>2, <2>3 DEF Processor
<1> QED
  BY <1>4, <1>5

\* An application that registers its event callback before the connection gets
\* every event of it (proccessEventStream, helpers.go 639-670): the loop looks
\* for the callback before it takes the first event.
THEOREM EarlyHandlers == Spec => EarlyHandlerServed
<1>1. Init /\ registered => HandlerFound
  BY TypeInit DEF Init, HandlerFound, NoEventDropped, Loops
<1>2. HandlerFound /\ [Next]_vars => HandlerFound'
  BY HandlerOthers, HandlerPackets
<1>3. HandlerFound => NoEventDropped
  BY DEF HandlerFound
<1> QED
  BY <1>1, <1>2, <1>3, PTL DEF Spec, EarlyHandlerServed, NoEventDropped
=============================================================================
