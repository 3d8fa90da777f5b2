---------------------------- MODULE MediaPipeline ----------------------------
(***************************************************************************)
(* What one connected session carries: packets of chat, voice, webcam and  *)
(* screen from the peer to the application's callbacks, events both ways,  *)
(* and what the application sends.                                         *)
(*                                                                         *)
(* A goroutine per packet reads and deciphers it and hands it to           *)
(* processData, which calls the chat callback itself and puts media on the *)
(* session's bounded channel of that kind, dropping it when the channel is *)
(* full.  One processor per kind empties the channel into the callback.    *)
(* disconnectSession closes the connection and then the three channels,    *)
(* one after the other, beside all of these.  PeerSession has the rest of  *)
(* the session; here it begins with its keys and ends with its channels.   *)
(***************************************************************************)
EXTENDS Naturals, Sequences

CONSTANTS Packets,    \* what the peer may send: packets and events
          Outgoing,   \* the application's calls of the Send methods
          Loads,      \* what they all are in one life of the session, and
                      \* whether an event callback is there from the start
          Cap,        \* capacity of a media channel (100 in the code)
          Hung        \* media whose callback may never return

MediaKinds == {"voice", "webcam", "screen"}
Kinds == MediaKinds \cup {"chat", "unknown", "event", "none"}
Ways == {"event", "datagram", "stream", "none"}

ASSUME LoadAssumption ==
    Loads \subseteq [in : [Packets -> Kinds], out : [Outgoing -> Ways],
                    handler : BOOLEAN]
ASSUME CapAssumption == Cap \in Nat \ {0}
ASSUME HungAssumption == Hung \subseteq MediaKinds

VARIABLES kind,         \* type byte of each packet, or an event: fixed
          way,          \* how each outgoing call travels: fixed
          stage,        \* what establishConnection has done
          conn,         \* Session.Conn: "open" or "closed"
          torn,         \* the next step of disconnectSession's once body
          receiving,    \* the receive loops: "off", "started", "on", "ended"
          registered,   \* the application has an event callback
          eventHandler, \* proccessEventStream has found it
          packet,       \* where each packet is
          out,          \* where each outgoing message is
          queue,        \* the media channels
          chan,         \* "open" or "closed"
          proc,         \* the processors: "off", "idle", "busy", "ended"
          inHand,       \* the packet a processor has taken (zero or one)
          entered,      \* history: packets put on each channel, in order
          done,         \* history: packets its processor is done with
          panicked      \* the Go runtime panic that ended the process

input == <<kind, way>>
session == <<stage, conn, torn>>
loops == <<receiving, eventHandler>>
wire == <<packet, out>>
history == <<entered, done>>
media == <<queue, chan, proc, inHand, history>>
rest == <<input, registered>>
vars == <<session, loops, wire, media, rest, panicked>>

\* receiveStreams and receiveDatagrams end for the same reasons and to the same
\* effect: "packets" is on as long as one of them is.
Loops == {"events", "packets"}
Stages == {"keyed", "stream", "decoder", "encoder", "announced",
           "ready", "failed"}
\* "hung": in the GracefulClose of an agent that cannot be closed.
TearSteps == {"no", "conn", "hung", "voice", "webcam", "screen", "done"}
PacketStates == {"peer", "reading", "queued", "called", "done",
                 "dropped", "lost"}
OutStates == {"unsent", "picked", "sent", "skipped", "failed"}

Init ==
    /\ \E load \in Loads :
            kind = load.in /\ way = load.out /\ registered = load.handler
    /\ stage = "keyed"
    /\ conn = "open"
    /\ torn = "no"
    /\ receiving = [l \in Loops |-> "off"]
    /\ eventHandler = FALSE
    /\ packet = [p \in Packets |-> "peer"]
    /\ out = [o \in Outgoing |-> "unsent"]
    /\ queue = [k \in MediaKinds |-> <<>>]
    /\ chan = [k \in MediaKinds |-> "open"]
    /\ proc = [k \in MediaKinds |-> "off"]
    /\ inHand = [k \in MediaKinds |-> <<>>]
    /\ entered = [k \in MediaKinds |-> <<>>]
    /\ done = [k \in MediaKinds |-> <<>>]
    /\ panicked = "no"

\* A panic in any goroutine ends the process.
Alive == panicked = "no"

-----------------------------------------------------------------------------
(* Establishment, from setupE2EE on, and the start of the receivers.       *)

StageGoto(from, to) ==
    /\ Alive /\ stage = from /\ stage' = to
    /\ UNCHANGED <<conn, torn, loops, wire, media, rest, panicked>>

\* initEventStream assigns EventStream, EventDecoder, EventEncoder in turn.
SetEventStream == StageGoto("keyed", "stream")
SetDecoder == StageGoto("stream", "decoder")
SetEncoder == StageGoto("decoder", "encoder")

\* The stream cannot be opened or accepted: ReadyChan is closed all the same,
\* and resetSession closes the connection.
InitFails == StageGoto("keyed", "failed")

ResetFailed ==
    /\ Alive /\ stage = "failed" /\ conn = "open"
    /\ conn' = "closed"
    /\ UNCHANGED <<stage, torn, loops, wire, media, rest, panicked>>

\* The Connected callback returns; go handleConnection, which starts the loops
\* and the processors; close(ReadyChan).  The last two are concurrent.
Announce == StageGoto("encoder", "announced")

Launch ==
    /\ Alive /\ stage \in {"announced", "ready"}
    /\ receiving["events"] = "off"
    /\ receiving' = [l \in Loops |-> IF l = "events" THEN "started" ELSE "on"]
    /\ proc' = [k \in MediaKinds |-> "idle"]
    /\ UNCHANGED <<session, eventHandler, wire, queue, chan, inHand, history,
                   rest, panicked>>

SignalReady == StageGoto("announced", "ready")

\* Variant: the event loop starts without a look for the handler.
LoadForgotten ==
    /\ Alive /\ receiving["events"] = "started"
    /\ receiving' = [receiving EXCEPT !["events"] = "on"]
    /\ UNCHANGED <<session, eventHandler, wire, media, rest, panicked>>

\* The event loop loads the application's handler when it starts, once.
LoadEventHandler ==
    /\ Alive /\ receiving["events"] = "started"
    /\ receiving' = [receiving EXCEPT !["events"] = "on"]
    /\ eventHandler' = registered
    /\ UNCHANGED <<session, wire, media, rest, panicked>>

\* RegisterOnEvent, at any time.
RegisterOnEvent ==
    /\ Alive /\ ~registered
    /\ registered' = TRUE
    /\ UNCHANGED <<session, loops, wire, media, input, panicked>>

-----------------------------------------------------------------------------
(* Packets.                                                                *)

PacketGoto(p, from, to) ==
    Alive /\ packet[p] = from /\ packet' = [packet EXCEPT ![p] = to]

PacketStep(p, from, to) ==
    /\ PacketGoto(p, from, to)
    /\ UNCHANGED <<session, loops, out, media, rest, panicked>>

\* AcceptUniStream or ReceiveDatagram returns; a goroutine takes it over.  A
\* closed connection may still hand out datagrams it has buffered.
Accept(p) ==
    /\ kind[p] \notin {"event", "none"}
    /\ receiving["packets"] = "on"
    /\ PacketStep(p, "peer", "reading")

\* The connection is lost meanwhile, or the packet is empty or undecipherable.
ReadFails(p) == PacketStep(p, "reading", "lost")

\* Read to the end and deciphered, it goes to processData, which calls the chat
\* callback in the packet's own goroutine ...
ProcessChat(p) == kind[p] = "chat" /\ PacketStep(p, "reading", "called")

CallbackReturns(p) ==
    kind[p] \in {"chat", "event"} /\ PacketStep(p, "called", "done")

\* ... ignores a type it does not know ...
ProcessUnknown(p) == kind[p] = "unknown" /\ PacketStep(p, "reading", "dropped")

\* ... and offers media to the channel: select with a default.
Enqueue(p) ==
    LET k == kind[p] IN
    /\ k \in MediaKinds
    /\ chan[k] = "open" /\ Len(queue[k]) < Cap
    /\ PacketGoto(p, "reading", "queued")
    /\ queue' = [queue EXCEPT ![k] = Append(@, p)]
    /\ entered' = [entered EXCEPT ![k] = Append(@, p)]
    /\ UNCHANGED <<session, loops, out, chan, proc, inHand, done,
                   rest, panicked>>

\* Variant: a send without default, which waits for room.
DropNever(p) == FALSE /\ PacketStep(p, "reading", "dropped")

\* Variant: the oldest packet makes room for the new one.
DropOldest(p) ==
    LET k == kind[p] IN
    /\ k \in MediaKinds
    /\ chan[k] = "open" /\ Len(queue[k]) = Cap
    /\ PacketGoto(p, "reading", "queued")
    /\ queue' = [queue EXCEPT ![k] = Append(Tail(@), p)]
    /\ entered' = [entered EXCEPT ![k] = Append(@, p)]
    /\ UNCHANGED <<session, loops, out, chan, proc, inHand, done,
                   rest, panicked>>

Drop(p) ==
    LET k == kind[p] IN
    /\ k \in MediaKinds
    /\ chan[k] = "open" /\ Len(queue[k]) = Cap
    /\ PacketStep(p, "reading", "dropped")

\* A send on a closed channel panics, default or not.
EnqueuePanics(p) ==
    /\ Alive
    /\ packet[p] = "reading"
    /\ kind[p] \in MediaKinds
    /\ chan[kind[p]] = "closed"
    /\ panicked' = "closedChannel"
    /\ UNCHANGED <<session, loops, wire, media, rest>>

Process(p) ==
    \/ ProcessChat(p) \/ ProcessUnknown(p)
    \/ Enqueue(p) \/ Drop(p) \/ EnqueuePanics(p)

-----------------------------------------------------------------------------
(* The processors: for p := range channel.                                 *)

ProcGoto(k, from, to) ==
    Alive /\ proc[k] = from /\ proc' = [proc EXCEPT ![k] = to]

TakeHead(k) ==
    /\ queue[k] # <<>>
    /\ ProcGoto(k, "idle", "busy")
    /\ queue' = [queue EXCEPT ![k] = Tail(@)]
    /\ inHand' = [inHand EXCEPT ![k] = <<Head(queue[k])>>]
    /\ packet' = [packet EXCEPT ![Head(queue[k])] = "called"]
    /\ UNCHANGED <<session, loops, out, chan, history, rest, panicked>>

\* Variant: one goroutine serves the three channels.
TakeAlone(k) == (\A j \in MediaKinds : proc[j] # "busy") /\ TakeHead(k)

\* Variant: each callback runs in a goroutine of its own.
TakeUnwaited(k) ==
    /\ queue[k] # <<>>
    /\ ProcGoto(k, "idle", "idle")
    /\ queue' = [queue EXCEPT ![k] = Tail(@)]
    /\ inHand' = [inHand EXCEPT ![k] = Append(@, Head(queue[k]))]
    /\ packet' = [packet EXCEPT ![Head(queue[k])] = "called"]
    /\ UNCHANGED <<session, loops, out, chan, history, rest, panicked>>

\* A packet comes off the channel, closed or not; the callback, if there is
\* one by now, is called.
Take(k) == TakeHead(k)

\* The callback returns, or there was none.
Finish(k) ==
    /\ ProcGoto(k, "busy", "idle")
    /\ done' = [done EXCEPT ![k] = @ \o inHand[k]]
    /\ inHand' = [inHand EXCEPT ![k] = <<>>]
    /\ packet' = [p \in Packets |->
                    IF inHand[k] = <<p>> THEN "done" ELSE packet[p]]
    /\ UNCHANGED <<session, loops, out, queue, chan, entered,
                   rest, panicked>>

\* Variant: the processor leaves as soon as the channel is closed.
EndAtOnce(k) ==
    /\ chan[k] = "closed"
    /\ ProcGoto(k, "idle", "ended")
    /\ UNCHANGED <<session, loops, wire, queue, chan, inHand, history,
                   rest, panicked>>

\* Range ends when the channel is closed and empty.
End(k) ==
    /\ queue[k] = <<>> /\ chan[k] = "closed"
    /\ ProcGoto(k, "idle", "ended")
    /\ UNCHANGED <<session, loops, wire, queue, chan, inHand, history,
                   rest, panicked>>

-----------------------------------------------------------------------------
(* Events from the peer: each gets a goroutine of its own.                 *)

DecodeEvent(p) ==
    /\ kind[p] = "event" /\ conn = "open"
    /\ receiving["events"] = "on"
    /\ PacketStep(p, "peer", IF eventHandler THEN "called" ELSE "dropped")

-----------------------------------------------------------------------------
(* disconnectSession.                                                      *)

\* Closing.Do: one caller runs the body.
Disconnect == torn' = IF torn = "no" THEN "conn" ELSE torn

\* Variant: a loop that ends does not tear the session down.
LoopJustEnds(l) ==
    /\ Alive
    /\ receiving[l] = "on"
    /\ receiving' = [receiving EXCEPT ![l] = "ended"]
    /\ UNCHANGED <<session, eventHandler, wire, media, rest, panicked>>

\* A receive loop returns: the connection is closed, the service closes, or,
\* for the events, the peer ends the stream or sends what is no event.
LoopEnds(l) ==
    /\ Alive
    /\ receiving[l] = "on"
    /\ receiving' = [receiving EXCEPT ![l] = "ended"]
    /\ Disconnect
    /\ UNCHANGED <<stage, conn, eventHandler, wire, media, rest, panicked>>

\* Disconnect or DisconnectFromId.
Leave ==
    /\ Alive /\ torn = "no"
    /\ Disconnect
    /\ UNCHANGED <<stage, conn, loops, wire, media, rest, panicked>>

\* The connection is closed and the agent's GracefulClose returns.
TearConn ==
    /\ Alive /\ torn = "conn"
    /\ torn' = "voice"
    /\ conn' = "closed"
    /\ UNCHANGED <<stage, loops, wire, media, rest, panicked>>

\* The agent's state callback is in GracefulClose itself, after an ICE failure:
\* this one does not return, and the channels stay open.
AgentHangs ==
    /\ Alive /\ torn = "conn"
    /\ torn' = "hung"
    /\ conn' = "closed"
    /\ UNCHANGED <<stage, loops, wire, media, rest, panicked>>

\* close(VoiceChan), close(WebcamChan), close(ScreenChan).
NextTear == [voice |-> "webcam", webcam |-> "screen", screen |-> "done"]

\* Variant: the field is set to nil instead.
CloseChanNil(k) ==
    /\ Alive /\ torn = k
    /\ torn' = NextTear[k]
    /\ chan' = [chan EXCEPT ![k] = "nil"]
    /\ UNCHANGED <<stage, conn, loops, wire, queue, proc, inHand, history,
                   rest, panicked>>

CloseChan(k) ==
    /\ Alive /\ torn = k
    /\ torn' = NextTear[k]
    /\ chan' = [chan EXCEPT ![k] = "closed"]
    /\ UNCHANGED <<stage, conn, loops, wire, queue, proc, inHand, history,
                   rest, panicked>>

LinkLost ==
    /\ Alive /\ conn = "open"
    /\ conn' = "closed"
    /\ UNCHANGED <<stage, torn, loops, wire, media, rest, panicked>>

-----------------------------------------------------------------------------
(* What the application sends.                                             *)

OutGoto(o, from, to) ==
    Alive /\ out[o] = from /\ out' = [out EXCEPT ![o] = to]

OutStep(o, from, to) ==
    /\ OutGoto(o, from, to)
    /\ UNCHANGED <<session, loops, packet, media, rest, panicked>>

\* The test each Send method makes of a session it has fetched: the event
\* stream is there, or ReadyChan is closed.
Sendable(o) ==
    IF way[o] = "event" THEN stage \notin {"keyed", "failed"}
                          ELSE stage \in {"ready", "failed"}

\* A goroutine is started for the session, or the session is passed over.
Send(o) ==
    /\ way[o] # "none"
    /\ OutStep(o, "unsent", IF Sendable(o) THEN "picked" ELSE "skipped")

\* EventEncoder is assigned after EventStream, which Send has looked at.
EncoderSet == stage \notin {"keyed", "stream", "decoder"}

Emit(o) ==
    /\ conn = "open"
    /\ way[o] = "event" => EncoderSet
    /\ OutStep(o, "picked", "sent")

\* Only the failure to open a stream ends the session.
EmitFails(o) ==
    /\ way[o] = "event" => EncoderSet
    /\ OutGoto(o, "picked", "failed")
    /\ IF way[o] = "stream" THEN Disconnect ELSE UNCHANGED torn
    /\ UNCHANGED <<stage, conn, loops, packet, media, rest,
                   panicked>>

EmitPanics(o) ==
    /\ Alive
    /\ out[o] = "picked" /\ way[o] = "event" /\ ~EncoderSet
    /\ panicked' = "nilEncoder"
    /\ UNCHANGED <<session, loops, wire, media, rest>>

-----------------------------------------------------------------------------
Establish ==
    \/ SetEventStream \/ SetDecoder \/ SetEncoder
    \/ InitFails \/ ResetFailed
    \/ Announce \/ Launch \/ SignalReady \/ LoadEventHandler

Receive(p) ==
    \/ Accept(p) \/ ReadFails(p) \/ Process(p)
    \/ DecodeEvent(p) \/ CallbackReturns(p)

Processor(k) == Take(k) \/ Finish(k) \/ End(k)

Teardown == TearConn \/ AgentHangs \/ \E k \in MediaKinds : CloseChan(k)

SendOut(o) == Send(o) \/ Emit(o) \/ EmitFails(o) \/ EmitPanics(o)

Next ==
    \/ Establish
    \/ \E l \in Loops : LoopEnds(l)
    \/ RegisterOnEvent
    \/ \E p \in Packets : Receive(p)
    \/ \E k \in MediaKinds : Processor(k)
    \/ Teardown \/ Leave \/ LinkLost
    \/ \E o \in Outgoing : SendOut(o)

Spec == Init /\ [][Next]_vars

(***************************************************************************)
(* Fairness: goroutines that can run do, reads end (the connection has an  *)
(* idle timeout), and callbacks return, those of the kinds Hung excepted.  *)
(* The teardown may stay in GracefulClose (AgentHangs).  Not assumed: that *)
(* the peer sends, that the application does anything.                     *)
(***************************************************************************)
Fairness ==
    /\ WF_vars(Establish)
    /\ \A l \in Loops : WF_vars(conn = "closed" /\ LoopEnds(l))
    /\ \A p \in Packets : WF_vars(Process(p))
    /\ \A k \in MediaKinds :
        WF_vars(Take(k) \/ (k \notin Hung /\ Finish(k)) \/ End(k))
    /\ WF_vars(Teardown)

FairSpec == Spec /\ Fairness

-----------------------------------------------------------------------------
(* Safety.                                                                 *)

TypeOK ==
    /\ kind \in [Packets -> Kinds] /\ way \in [Outgoing -> Ways]
    /\ stage \in Stages
    /\ conn \in {"open", "closed"}
    /\ torn \in TearSteps
    /\ receiving \in [Loops -> {"off", "started", "on", "ended"}]
    /\ eventHandler \in BOOLEAN
    /\ registered \in BOOLEAN
    /\ packet \in [Packets -> PacketStates]
    /\ out \in [Outgoing -> OutStates]
    /\ queue \in [MediaKinds -> Seq(Packets)]
    /\ chan \in [MediaKinds -> {"open", "closed"}]
    /\ proc \in [MediaKinds -> {"off", "idle", "busy", "ended"}]
    /\ inHand \in [MediaKinds -> Seq(Packets)]
    /\ entered \in [MediaKinds -> Seq(Packets)]
    /\ done \in [MediaKinds -> Seq(Packets)]
    /\ panicked \in {"no", "closedChannel", "nilEncoder"}

\* Each pipeline is a queue in order and without loss: what has entered a
\* channel is what its processor is done with, then what it has in hand, then
\* what still waits, whatever the receivers, the teardown and the other
\* pipelines do; and one callback of a kind runs at a time.
PipelineInOrder ==
    \A k \in MediaKinds :
        /\ entered[k] = done[k] \o inHand[k] \o queue[k]
        /\ Len(inHand[k]) <= 1
        /\ Len(queue[k]) <= Cap

\* Closing a channel loses nothing that was in it: when the processor has
\* ended, every packet that ever entered has been through the callback.
EndedDrained ==
    \A k \in MediaKinds : proc[k] = "ended" => done[k] = entered[k]

-----------------------------------------------------------------------------
(* The abstract specification.                                             *)

Callbacks == INSTANCE MediaCallbacks WITH
    accepted <- entered,
    called <- [k \in MediaKinds |-> done[k] \o inHand[k]],
    returned <- done,
    closed <- {k \in MediaKinds : chan[k] = "closed"}

\* Every step of receivers, processors and teardown is a step of the callbacks'
\* contract or invisible to it: each packet at most once, in order, one call of
\* a kind at a time, and no packet accepted after the teardown.
ImplementsCallbacks == Callbacks!Spec

\* README: callbacks "can be registered either before or after establishing
\* peer connections".  For those of events the first half holds: when the
\* application has one before the connection, no event is passed over, however
\* early the peer sends it.  (A later one is not found: eventHandler.)
EarlyHandlerServed ==
    registered =>
        [](\A p \in Packets : kind[p] = "event" => packet[p] # "dropped")

-----------------------------------------------------------------------------
(* Liveness, under FairSpec.                                               *)

\* A receiver goroutine never waits for a callback of media, however long:
\* it finds room, drops the packet, or has died with the process.
ReceiversNeverBlock ==
    \A p \in Packets : (packet[p] = "reading") ~> (packet[p] # "reading" \/ ~Alive)

\* README: "Independent stream pipelines": a packet on the channel of a kind
\* whose callback returns is handled, before the teardown or after it, even
\* when the callback of another kind never returns.
PipelinesIndependent ==
    \A p \in Packets :
        (packet[p] = "queued" /\ kind[p] \notin Hung)
            ~> (packet[p] = "done" \/ ~Alive)

\* No processor outlives its session for good: when the connection is gone
\* the receive loops tear the session down, which ends the processors, unless
\* the teardown does not get past the agent.
ProcessorsEnd ==
    \A k \in MediaKinds \ Hung :
        (conn = "closed" /\ stage = "ready")
            ~> (proc[k] = "ended" \/ torn = "hung" \/ ~Alive)
=============================================================================
