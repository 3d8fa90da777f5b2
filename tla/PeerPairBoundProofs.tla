------------------------- MODULE PeerPairBoundProofs -------------------------
(***************************************************************************)
(* Two nodes do not answer each other for ever: the theorem about          *)
(* AnswersDieOut, for any number of sessions and of attempts to connect.   *)
(*                                                                         *)
(* To answer once more than before takes a connection that is lost or a    *)
(* node that has nothing yet (DepthShape).  Only two sessions, one of them *)
(* a dialler, make a connection, and neither answers nor is answered       *)
(* afterwards (PartnerShape).  So whoever has been answered twice in a row *)
(* has not been connected, and the other diallers bound the connections.   *)
(***************************************************************************)
EXTENDS PeerPairProofs, FiniteSetTheorems

Diallers == {s \in Sessions : dials[s]}

\* Nothing answers s, nor will.
Silent(s) == msg[s] = "done" /\ \A c \in Sessions : answers[c] # s

\* Nothing answers what answers s.
Settled(s) ==
    msg[s] = "done" /\ \A c \in Sessions : answers[c] = s => Silent(c)

\* Who has had a connection has had it with a dialler, whose answers nothing
\* answers.
PartnerShape ==
    \A s \in Sessions : conn[s] # "nil" =>
        IF dials[s] THEN Settled(s)
        ELSE /\ remote[s] # None /\ dials[remote[s]]
             /\ Silent(s) /\ Settled(remote[s])

\* What a step may do to the history of messages, answers and connections.
Steady ==
    \A s \in Sessions :
        /\ msg[s] = "done" => msg'[s] = "done"
        /\ answers'[s] # answers[s] => msg[answers'[s]] # "done"
        /\ dials[s] => dials'[s]

-----------------------------------------------------------------------------
LEMMA SteadySettles ==
    ASSUME Steady, NEW s \in Sessions
    PROVE  (Silent(s) => Silent(s)') /\ (Settled(s) => Settled(s)')
<1>1. \A t \in Sessions : Silent(t) => Silent(t)'
  BY DEF Steady, Silent
<1>2. Settled(s) => Settled(s)'
  BY <1>1 DEF Steady, Settled
<1> QED
  BY <1>1, <1>2

LEMMA PublishSteady ==
    ASSUME TypeOK, ExchangeShape, NEW n, NEW r \in Sessions \cup {None}, NEW how,
           NEW d, NEW others \in [Sessions -> Stages], Publish(n, r, how, d, others),
           r # None => msg[r] # "done"
    PROVE  Steady
<1>1. PICK s \in Sessions :
          /\ stage[s] = "unborn"
          /\ \A t \in Sessions :
                /\ t = s => (dials'[t] <=> r = None)
                /\ t # s => dials'[t] = dials[t]
                /\ answers'[t] = IF t = s THEN r ELSE answers[t]
                /\ msg'[t] = CASE t = s -> "wire" [] t = r -> how [] OTHER -> msg[t]
  BY PublishEffect
<1>2. msg[s] = "none" /\ answers[s] = None /\ ~dials[s]
  BY <1>1 DEF ExchangeShape, BirthShape
<1>3. \A t \in Sessions : msg[t] = "done" => msg'[t] = "done"
  BY <1>1, <1>2, NoneAssumption
<1>4. \A t \in Sessions : dials[t] => dials'[t]
  BY <1>1, <1>2
<1>5. \A t \in Sessions : answers'[t] # answers[t] => msg[answers'[t]] # "done"
  BY <1>1, <1>2
<1> QED
  BY <1>3, <1>4, <1>5 DEF Steady

LEMMA HandedSteady ==
    ASSUME TypeOK, ExchangeShape, NEW s \in Sessions, stage[s] = "published",
           NEW to, Handed(s, to), UNCHANGED <<dials, answers>>
    PROVE  Steady
<1>1. answers[s] # None => msg[answers[s]] # "done"
  BY DEF ExchangeShape, ChildShape
<1>2. \A t \in Sessions : msg[t] = "done" => msg'[t] = "done"
  BY <1>1, HandedEffect
<1> QED
  BY <1>2 DEF Steady

LEMMA StepSteady == ExchangeInv /\ [Next]_vars => Steady
<1> SUFFICES ASSUME ExchangeInv, [Next]_vars PROVE Steady
  OBVIOUS
<1>0. TypeOK /\ ExchangeShape /\ stage \in [Sessions -> Stages]
  BY DEF ExchangeInv, PairInv, TypeOK
<1> USE DEF credentials, creation, messages
<1>1. ASSUME NEW n \in Nodes, Connect(n) PROVE Steady
  BY <1>0, <1>1, PublishSteady DEF Connect
<1>2. ASSUME NEW s \in Sessions, Create(s) PROVE Steady
  BY <1>0, <1>2, HandedSteady DEF Create, Register, Refused, Goto
<1>3. ASSUME NEW r \in Sessions, Receive(r) \/ Lose(r) PROVE Steady
  <2>1. CASE Relay(r) \/ Follow(r) \/ SetRemote(r) \/ Lose(r)
    BY <1>0, <2>1 DEF Relay, Follow, SetRemote, Lose, Steady, TypeOK
  <2>2. CASE Answer(r)
    BY <1>0, <2>2, PublishSteady DEF Answer
  <2>3. CASE Replace(r)
    <3>1. [stage EXCEPT ![held[r]] = "over"] \in [Sessions -> Stages]
      BY <1>0 DEF Stages
    <3> QED
      BY <1>0, <2>3, <3>1, PublishSteady DEF Replace
  <2> QED
    BY <1>3, <2>1, <2>2, <2>3 DEF Receive
<1>4. ASSUME UNCHANGED <<msg, answers, dials>> PROVE Steady
  BY <1>4 DEF Steady
<1>5. ASSUME NEW s \in Sessions,
             Establish(s) \/ End(s) \/ Fail(s) \/ Breaks(s)
      PROVE  Steady
  BY <1>4, <1>5 DEF Establish, TakeToken, Handshake, Finish, End, PeerCloses,
                    ReceiveEnds, Fail, Breaks
<1>6. CASE UNCHANGED vars
  BY <1>4, <1>6 DEF vars
<1> QED
  BY <1>1, <1>2, <1>3, <1>5, <1>6 DEF Next

-----------------------------------------------------------------------------
\* When two sessions shake hands: each has answered the other's message, or
\* dialled, so the one that accepts is not answered, and the one that dials by
\* nobody that could be.
LEMMA HandshakeSettles ==
    ASSUME ExchangeInv, PartnerShape, NEW a \in Sessions, NEW d \in Sessions,
           remote[a] = d, remote[d] = a, dials[d], ~dials[a]
    PROVE  Silent(a) /\ Settled(d)
<1>0. TypeOK /\ ExchangeShape
  BY DEF ExchangeInv, PairInv
<1>1. /\ msg[d] = "done" /\ held[d] = a
      /\ msg[a] = "done" /\ held[a] = d
  BY <1>0, NoneAssumption DEF ExchangeShape, RemoteShape
<1>2. answers[d] = None
  BY <1>0 DEF ExchangeShape, BirthShape
<1>3. Silent(a)
  <2> SUFFICES ASSUME NEW c \in Sessions, answers[c] = a PROVE FALSE
    BY <1>1 DEF Silent
  <2>1. answers[held[a]] = a
    BY <1>0, <1>1, NoneAssumption DEF ExchangeShape, ChildShape
  <2> QED
    BY <1>1, <1>2, <2>1, NoneAssumption
<1>4. Settled(d)
  <2> SUFFICES ASSUME NEW c \in Sessions, answers[c] = d PROVE Silent(c)
    BY <1>1 DEF Settled
  <2>1. conn[c] # "nil" \/ held[d] = c
    BY <1>0, <1>1, NoneAssumption DEF ExchangeShape, ChildShape
  <2>2. ~dials[c]
    BY <1>0, NoneAssumption DEF ExchangeShape, BirthShape
  <2> QED
    BY <1>1, <1>3, <2>1, <2>2 DEF PartnerShape
<1> QED
  BY <1>3, <1>4

\* What a step may do to connections: a handshake begins them, nothing forgets
\* them, and their sessions keep whose credentials they have.
LEMMA StepConnects ==
    ASSUME ExchangeInv, [Next]_vars, NEW s \in Sessions, conn'[s] # "nil"
    PROVE  \/ Handshake(s)
           \/ conn[s] # "nil" /\ remote'[s] = remote[s] /\ dials'[s] = dials[s]
<1>0. TypeOK /\ ExchangeShape /\ stage \in [Sessions -> Stages]
  BY DEF ExchangeInv, PairInv, TypeOK
<1> USE DEF credentials, creation, messages
<1>a. ASSUME NEW n, NEW r \in Sessions \cup {None}, NEW how, NEW d,
             NEW others \in [Sessions -> Stages], Publish(n, r, how, d, others),
             UNCHANGED remote, conn[s] # "nil"
      PROVE  remote'[s] = remote[s] /\ dials'[s] = dials[s]
  <2>1. stage[s] # "unborn"
    BY <1>0, <1>a DEF ExchangeShape, ConnShape
  <2>2. dials'[s] = dials[s]
    BY <1>0, <1>a, <2>1, PublishEffect
  <2> QED
    BY <1>a, <2>2
<1>1. ASSUME NEW n \in Nodes, Connect(n)
      PROVE  conn[s] # "nil" /\ remote'[s] = remote[s] /\ dials'[s] = dials[s]
  BY <1>0, <1>1, <1>a DEF Connect
<1>2. ASSUME NEW t \in Sessions, Create(t) \/ TakeToken(t) \/ Finish(t)
      PROVE  conn[s] # "nil" /\ remote'[s] = remote[s] /\ dials'[s] = dials[s]
  BY <1>2 DEF Create, Register, Refused, TakeToken, Finish
<1>3. ASSUME NEW r \in Sessions, Receive(r) \/ Lose(r)
      PROVE  conn[s] # "nil" /\ remote'[s] = remote[s] /\ dials'[s] = dials[s]
  <2>1. CASE Relay(r) \/ Follow(r) \/ Lose(r)
    BY <2>1 DEF Relay, Follow, Lose
  <2>2. CASE SetRemote(r)
    <3>1. conn'[s] = conn[s] /\ dials'[s] = dials[s] /\ conn[held[r]] = "nil"
      BY <2>2 DEF SetRemote
    <3>2. s # held[r] => remote'[s] = remote[s]
      BY <1>0, <2>2 DEF SetRemote, TypeOK
    <3> QED
      BY <3>1, <3>2
  <2>3. CASE Answer(r)
    BY <1>0, <1>a, <2>3 DEF Answer
  <2>4. CASE Replace(r)
    <3>1. [stage EXCEPT ![held[r]] = "over"] \in [Sessions -> Stages]
      BY <1>0 DEF Stages
    <3>2. conn[s] # "nil"
      BY <1>0, <2>4 DEF Replace, Close, TypeOK
    <3> QED
      BY <1>a, <2>4, <3>1, <3>2 DEF Replace
  <2> QED
    BY <1>3, <2>1, <2>2, <2>3, <2>4 DEF Receive
<1>4. ASSUME NEW t \in Sessions, Handshake(t)
      PROVE  \/ Handshake(s)
             \/ conn[s] # "nil" /\ remote'[s] = remote[s] /\ dials'[s] = dials[s]
  BY <1>0, <1>4 DEF Handshake, TypeOK
<1>5. ASSUME NEW t \in Sessions, End(t) \/ Fail(t) \/ Breaks(t)
      PROVE  conn[s] # "nil" /\ remote'[s] = remote[s] /\ dials'[s] = dials[s]
  BY <1>0, <1>5 DEF End, PeerCloses, ReceiveEnds, Fail, Breaks, Close, TypeOK
<1>6. CASE UNCHANGED vars
  BY <1>6 DEF vars
<1> QED
  BY <1>1, <1>2, <1>3, <1>4, <1>5, <1>6 DEF Next, Establish

LEMMA PartnerInductive ==
    ExchangeInv /\ PartnerShape /\ [Next]_vars => PartnerShape'
<1> SUFFICES ASSUME ExchangeInv, PartnerShape, [Next]_vars,
                    NEW s \in Sessions, conn'[s] # "nil"
             PROVE  IF dials'[s] THEN Settled(s)'
                    ELSE /\ remote'[s] # None /\ dials'[remote'[s]]
                         /\ Silent(s)' /\ Settled(remote[s])'
  BY DEF PartnerShape
<1>0. TypeOK /\ ExchangeShape /\ Steady
  BY StepSteady DEF ExchangeInv, PairInv
<1>1. CASE conn[s] # "nil" /\ remote'[s] = remote[s] /\ dials'[s] = dials[s]
  <2>1. CASE dials[s]
    BY <1>0, <1>1, <2>1, SteadySettles DEF PartnerShape
  <2>2. CASE ~dials[s]
    <3>1. /\ remote[s] # None /\ dials[remote[s]] /\ remote[s] \in Sessions
          /\ Silent(s) /\ Settled(remote[s])
      BY <1>0, <1>1, <2>2 DEF PartnerShape, TypeOK
    <3>2. dials'[remote[s]] /\ Silent(s)'
      BY <1>0, <3>1, SteadySettles DEF Steady
    <3>3. \A t \in Sessions : t = remote'[s] /\ Settled(t) => Settled(t)'
      BY <1>0, SteadySettles
    <3>4. Settled(remote[s])'
      BY <1>1, <3>1, <3>3
    <3> QED
      BY <1>1, <2>2, <3>1, <3>2, <3>4
  <2> QED
    BY <2>1, <2>2
<1>2. CASE Handshake(s)
  <2> DEFINE t == remote[s]
  <2>1. /\ t # None /\ remote[t] = s /\ dials[s] # dials[t]
        /\ UNCHANGED <<remote, dials, answers, msg>>
    BY <1>2 DEF Handshake, CanShake, Paired, credentials, creation, messages
  <2>2. t \in Sessions
    BY <1>0, <2>1 DEF TypeOK
  <2>3. CASE dials[s]
    <3>1. Settled(s)
      BY <2>1, <2>2, <2>3, <1>0, HandshakeSettles DEF TypeOK
    <3> QED
      BY <1>0, <2>1, <2>3, <3>1, SteadySettles
  <2>4. CASE ~dials[s]
    <3>1. dials[t] /\ Silent(s) /\ Settled(t)
      BY <2>1, <2>2, <2>4, <1>0, HandshakeSettles DEF TypeOK
    <3>2. Silent(s)' /\ Settled(remote[s])'
      BY <2>1, <3>1 DEF Silent, Settled
    <3> QED
      BY <2>1, <2>4, <3>1, <3>2
  <2> QED
    BY <2>3, <2>4
<1> QED
  BY <1>1, <1>2, StepConnects

-----------------------------------------------------------------------------
(* How many connections are lost, of how many diallers.                    *)

LEMMA SessionsFinite == IsFiniteSet(Sessions) /\ IsFiniteSet(Nodes)
                        /\ Cardinality(Nodes) = 2
<1>1. PICK a, b \in Nodes : a # b /\ Nodes = {a, b}
  BY NodeAssumption
<1>2. IsFiniteSet({a}) /\ Cardinality({a}) = 1
  BY FS_Singleton
<1>3. IsFiniteSet({a} \cup {b}) /\ Cardinality({a} \cup {b}) = 2
  BY <1>1, <1>2, FS_AddElement
<1>4. Nodes = {a} \cup {b}
  BY <1>1
<1>5. IsFiniteSet(1 .. MaxSessions)
  BY BoundAssumption, FS_Interval
<1>6. IsFiniteSet(Nodes) /\ Cardinality(Nodes) = 2
  BY <1>3, <1>4
<1> QED
  BY <1>5, <1>6, FS_Product DEF Sessions

\* Every attempt to connect has made a dialler, and nothing else does.
DialCount == Cardinality(Diallers) = connects

LEMMA DiallersFinite == IsFiniteSet(Diallers)
BY SessionsFinite, FS_Subset DEF Diallers

LEMMA DialCountInductive ==
    ExchangeInv /\ DialCount /\ [Next]_vars => DialCount'
<1> SUFFICES ASSUME ExchangeInv, DialCount, [Next]_vars PROVE DialCount'
  OBVIOUS
<1>0. TypeOK /\ ExchangeShape /\ stage \in [Sessions -> Stages]
  BY DEF ExchangeInv, PairInv, TypeOK
<1> USE DEF creation
<1>1. ASSUME NEW n \in Nodes, Connect(n) PROVE DialCount'
  <2>1. Publish(n, None, "none", 0, stage) /\ connects' = connects + 1
    BY <1>1 DEF Connect
  <2>2. PICK s \in Sessions :
            /\ stage[s] = "unborn"
            /\ \A t \in Sessions :
                  /\ t = s => (dials'[t] <=> TRUE)
                  /\ t # s => dials'[t] = dials[t]
    BY <1>0, <2>1, PublishEffect
  <2>3. s \notin Diallers /\ Diallers' = Diallers \cup {s}
    BY <1>0, <2>2 DEF ExchangeShape, BirthShape, Diallers
  <2>4. Cardinality(Diallers \cup {s}) = Cardinality(Diallers) + 1
    BY <2>3, DiallersFinite, FS_AddElement
  <2> QED
    BY <2>1, <2>3, <2>4 DEF DialCount
<1>2. ASSUME NEW n, NEW r \in Sessions, NEW how, NEW d,
             NEW others \in [Sessions -> Stages], Publish(n, r, how, d, others),
             UNCHANGED connects
      PROVE  DialCount'
  <2>1. PICK s \in Sessions :
            /\ stage[s] = "unborn"
            /\ \A t \in Sessions :
                  /\ t = s => (dials'[t] <=> r = None)
                  /\ t # s => dials'[t] = dials[t]
    BY <1>0, <1>2, PublishEffect
  <2>2. Diallers' = Diallers
    BY <1>0, <2>1, NoneAssumption DEF ExchangeShape, BirthShape, Diallers
  <2> QED
    BY <1>2, <2>2 DEF DialCount
<1>3. ASSUME UNCHANGED <<dials, connects>> PROVE DialCount'
  BY <1>3 DEF DialCount, Diallers
<1>4. ASSUME NEW r \in Sessions, Answer(r) \/ Replace(r) PROVE DialCount'
  <2>1. CASE Answer(r)
    BY <1>0, <1>2, <2>1 DEF Answer
  <2>2. CASE Replace(r)
    <3>1. [stage EXCEPT ![held[r]] = "over"] \in [Sessions -> Stages]
      BY <1>0 DEF Stages
    <3> QED
      BY <1>2, <2>2, <3>1 DEF Replace
  <2> QED
    BY <1>4, <2>1, <2>2
<1>5. ASSUME NEW r \in Sessions,
             Relay(r) \/ Follow(r) \/ SetRemote(r) \/ Lose(r) PROVE DialCount'
  BY <1>3, <1>5 DEF Relay, Follow, SetRemote, Lose
<1>6. ASSUME NEW s \in Sessions, Create(s) \/ Establish(s) PROVE DialCount'
  BY <1>3, <1>6 DEF Create, Register, Refused, Establish, TakeToken, Handshake, Finish
<1>7. ASSUME NEW s \in Sessions, End(s) \/ Fail(s) \/ Breaks(s) PROVE DialCount'
  BY <1>3, <1>7 DEF End, PeerCloses, ReceiveEnds, Fail, Breaks
<1>8. CASE UNCHANGED vars
  BY <1>3, <1>8 DEF vars
<1> QED
  BY <1>1, <1>4, <1>5, <1>6, <1>7, <1>8 DEF Next, Receive

\* The connections that were and are no more, by their sessions; the nodes that
\* have a session or whose goroutines wait for one.
Used == {s \in Sessions : conn[s] # "nil" /\ stage[s] = "over"}
Taken == {n \in Nodes : repo[n] # None \/ Leaders(n) # {}}

\* As soon as one is answered twice in a row, some session has been, of a
\* dialler that has no part in any connection.
DeepShape ==
    (\E s \in Sessions : depth[s] >= 2) => \E s \in Sessions : depth[s] = 2

LEMMA SomeoneIsUnsettled ==
    ASSUME ExchangeInv, DeepShape, NEW r \in Sessions, depth[r] >= 2
    PROVE  \E d \in Diallers : ~Settled(d)
<1>1. TypeOK /\ BirthShape
  BY DEF ExchangeInv, PairInv, ExchangeShape
<1>2. PICK s \in Sessions : depth[s] = 2
  BY DEF DeepShape
<1> DEFINE t == answers[s]
           d == answers[t]
<1>3. t \in Sessions /\ depth[t] = 1
  BY <1>1, <1>2 DEF TypeOK, BirthShape
<1> HIDE DEF t
<1>4. d \in Sessions /\ depth[d] = 0
  BY <1>1, <1>3 DEF TypeOK, BirthShape
<1>5. ~Settled(d)
  BY <1>2, <1>3 DEF Settled, Silent, t
<1>6. answers[d] = None
  <2>1. answers[d] # None => answers[d] \in Sessions
                             /\ depth[d] = depth[answers[d]] + 1
    BY <1>1, <1>4 DEF TypeOK, BirthShape
  <2> QED
    BY <1>1, <1>4, <2>1 DEF TypeOK
<1>7. stage[d] # "unborn"
  BY <1>1, <1>3, <1>4, NoneAssumption DEF BirthShape
<1>8. dials[d]
  BY <1>1, <1>4, <1>6, <1>7 DEF BirthShape
<1> QED
  BY <1>4, <1>5, <1>8 DEF Diallers

\* So the connections are of the other diallers, two sessions for each.
LEMMA UsedBound ==
    ASSUME ExchangeInv, PartnerShape, DialCount, DeepShape,
           NEW r \in Sessions, depth[r] >= 2
    PROVE  IsFiniteSet(Used) /\ Cardinality(Used) <= 2 * (connects - 1)
<1>0. TypeOK /\ ExchangeShape
  BY DEF ExchangeInv, PairInv
<1>1. PICK d \in Diallers : ~Settled(d)
  BY SomeoneIsUnsettled
<1> DEFINE D == Diallers \ {d}
           A == {s \in Used : dials[s]}
           B == {s \in Used : ~dials[s]}
<1>2. IsFiniteSet(D) /\ Cardinality(D) = connects - 1
  BY <1>1, DiallersFinite, FS_RemoveElement DEF DialCount
<1>3. A \in SUBSET D
  BY <1>1 DEF Used, PartnerShape, Diallers
<1>4. IsFiniteSet(A) /\ Cardinality(A) <= connects - 1
  <2> HIDE DEF A, D
  <2> QED
    BY <1>2, <1>3, FS_Subset
<1>5. [s \in B |-> remote[s]] \in Injection(B, D)
  <2>1. \A s \in B : remote[s] \in D /\ held[remote[s]] = s
    BY <1>0, <1>1 DEF Used, PartnerShape, Diallers, TypeOK, ExchangeShape, RemoteShape
  <2> HIDE DEF B, D
  <2> QED
    BY <2>1 DEF Injection, IsInjective
<1>6. IsFiniteSet(B) /\ Cardinality(B) <= connects - 1
  <2> HIDE DEF B, D
  <2> QED
    BY <1>2, <1>5, FS_Injection
<1>7. Used = A \cup B /\ A \cap B = {}
  OBVIOUS
<1> HIDE DEF A, B
<1>8. IsFiniteSet(A \cup B)
      /\ Cardinality(A \cup B) = Cardinality(A) + Cardinality(B) - Cardinality(A \cap B)
  BY <1>4, <1>6, FS_Union
<1>9. Cardinality(A \cap B) = 0
  BY <1>7, FS_EmptySet
<1>10. Cardinality(A) \in Nat /\ Cardinality(B) \in Nat /\ connects \in Nat
  BY <1>0, <1>4, <1>6, FS_CardinalityType, BoundAssumption DEF TypeOK
<1> QED
  BY <1>4, <1>6, <1>7, <1>8, <1>9, <1>10

-----------------------------------------------------------------------------
(* What it takes to answer.                                                *)

Potential == 2 * Cardinality(Used) + Cardinality(Taken)

\* A message in the air is no deeper than the connections lost and the nodes
\* taken allow, and less deep if it is about to replace one that is over.
DepthShape ==
    /\ \A r \in Pending : depth[r] <= Potential
    /\ \A r \in Sessions :
           msg[r] = "got" /\ held[r] \in Used => depth[r] < Potential

BoundInv == ExchangeInv /\ PartnerShape /\ DialCount /\ DeepShape /\ DepthShape

LEMMA UsedTakenFinite ==
    /\ IsFiniteSet(Used) /\ IsFiniteSet(Taken)
    /\ Cardinality(Used) \in Nat /\ Cardinality(Taken) \in Nat
    /\ Cardinality(Taken) <= 2
<1>1. Used \in SUBSET Sessions /\ Taken \in SUBSET Nodes
  BY DEF Used, Taken
<1>2. IsFiniteSet(Used) /\ IsFiniteSet(Taken) /\ Cardinality(Taken) <= 2
  BY <1>1, SessionsFinite, FS_Subset
<1> QED
  BY <1>2, FS_CardinalityType

LEMMA UsedTakenFiniteNext ==
    /\ IsFiniteSet(Used') /\ IsFiniteSet(Taken')
    /\ Cardinality(Used') \in Nat /\ Cardinality(Taken') \in Nat
<1>1. Used' \in SUBSET Sessions /\ Taken' \in SUBSET Nodes
  BY DEF Used, Taken
<1>2. IsFiniteSet(Used') /\ IsFiniteSet(Taken')
  BY <1>1, SessionsFinite, FS_Subset
<1> QED
  BY <1>2, FS_CardinalityType

LEMMA PotentialGrows ==
    ASSUME Used \subseteq Used', Taken \subseteq Taken'
    PROVE  /\ Potential \in Nat /\ Potential' \in Nat
           /\ Potential <= Potential'
           /\ Taken' # Taken => Potential < Potential'
           /\ Used' # Used => Potential < Potential'
<1>1. /\ Cardinality(Used) <= Cardinality(Used')
      /\ Cardinality(Used) = Cardinality(Used') => Used' = Used
  BY UsedTakenFiniteNext, FS_Subset
<1>2. /\ Cardinality(Taken) <= Cardinality(Taken')
      /\ Cardinality(Taken) = Cardinality(Taken') => Taken' = Taken
  BY UsedTakenFiniteNext, FS_Subset
<1> QED
  BY <1>1, <1>2, UsedTakenFinite, UsedTakenFiniteNext DEF Potential

\* A connection that is lost allows more than the node that is freed.
LEMMA PotentialGains ==
    ASSUME Used \subseteq Used', Used' # Used, NEW n, Taken \ {n} \subseteq Taken'
    PROVE  Potential \in Nat /\ Potential' \in Nat /\ Potential < Potential'
<1>1. /\ Cardinality(Used) <= Cardinality(Used')
      /\ Cardinality(Used) # Cardinality(Used')
  BY UsedTakenFiniteNext, FS_Subset
<1>2. /\ IsFiniteSet(Taken \ {n})
      /\ Cardinality(Taken) <= Cardinality(Taken \ {n}) + 1
      /\ Cardinality(Taken \ {n}) \in Nat
  BY UsedTakenFinite, FS_RemoveElement, FS_CardinalityType
<1>3. Cardinality(Taken \ {n}) <= Cardinality(Taken')
  BY <1>2, UsedTakenFiniteNext, FS_Subset
<1> QED
  BY <1>1, <1>2, <1>3, UsedTakenFinite, UsedTakenFiniteNext DEF Potential

\* A step that creates no session.
LEMMA DepthKeeps ==
    ASSUME TypeOK, DepthShape, depth' = depth,
           Potential \in Nat, Potential' \in Nat, Potential <= Potential',
           Pending' \subseteq Pending,
           \A r \in Sessions :
               msg'[r] = "got" /\ held'[r] \in Used' =>
                   \/ msg[r] = "got" /\ held[r] \in Used
                   \/ r \in Pending /\ Potential < Potential'
    PROVE  DepthShape'
<1>1. \A r \in Sessions : depth[r] \in Nat
  BY DEF TypeOK
<1>2. \A r \in Pending' : r \in Sessions /\ depth'[r] <= Potential'
  BY <1>1 DEF DepthShape, Pending
<1>3. \A r \in Sessions : msg'[r] = "got" /\ held'[r] \in Used'
                          => depth'[r] < Potential'
  BY <1>1 DEF DepthShape
<1> QED
  BY <1>2, <1>3 DEF DepthShape

\* A step that creates one.
LEMMA DepthPublishes ==
    ASSUME TypeOK, ExchangeShape, DepthShape, NEW n,
           NEW r \in Sessions \cup {None}, NEW how, NEW d \in Nat,
           NEW others \in [Sessions -> Stages], Publish(n, r, how, d, others),
           how # "got", r # None => r \in Pending, held' = held,
           Potential \in Nat, Potential' \in Nat, Potential <= Potential',
           Used' # Used => Potential < Potential', d <= Potential'
    PROVE  DepthShape'
<1>1. PICK s \in Sessions :
          /\ stage[s] = "unborn"
          /\ \A t \in Sessions :
                /\ depth'[t] = IF t = s THEN d ELSE depth[t]
                /\ msg'[t] = CASE t = s -> "wire" [] t = r -> how [] OTHER -> msg[t]
  BY PublishEffect
<1>2. \A t \in Sessions : depth[t] \in Nat
  BY DEF TypeOK
<1>3. \A t \in Pending' : t = s \/ t \in Pending
  BY <1>1, NoneAssumption DEF Pending
<1>4. \A t \in Pending' : t \in Sessions /\ depth'[t] <= Potential'
  BY <1>1, <1>2, <1>3 DEF DepthShape, Pending
<1>5. \A t \in Sessions : msg'[t] = "got" => msg[t] = "got" /\ t # s /\ t \in Pending
  BY <1>1 DEF Pending
<1>6. \A t \in Sessions : msg'[t] = "got" /\ held'[t] \in Used'
                          => depth'[t] < Potential'
  <2> TAKE t \in Sessions
  <2> HAVE msg'[t] = "got" /\ held'[t] \in Used'
  <2>1. msg[t] = "got" /\ depth'[t] = depth[t] /\ depth[t] <= Potential
    BY <1>1, <1>5 DEF DepthShape
  <2>2. CASE held[t] \in Used
    BY <1>2, <2>1, <2>2 DEF DepthShape
  <2>3. CASE held[t] \notin Used
    BY <1>2, <2>1, <2>3
  <2> QED
    BY <2>2, <2>3
<1> QED
  BY <1>4, <1>6 DEF DepthShape

\* Who waits for a session that is being created goes on waiting.
LEMMA PublishLeads ==
    ASSUME TypeOK, ExchangeShape, NEW n, NEW r \in Sessions \cup {None}, NEW how,
           NEW d, NEW others \in [Sessions -> Stages], Publish(n, r, how, d, others),
           r # None => msg[r] \in {"wire", "got"}
    PROVE  /\ \A m \in Nodes : Leaders(m) \subseteq Leaders(m)'
           /\ r # None /\ how = "leading" => r \in Leaders(Receiver(r))'
<1>1. PICK s \in Sessions :
          /\ stage[s] = "unborn"
          /\ \A t \in Sessions :
                msg'[t] = CASE t = s -> "wire" [] t = r -> how [] OTHER -> msg[t]
  BY PublishEffect
<1>2. msg[s] = "none"
  BY <1>1 DEF ExchangeShape, BirthShape
<1> QED
  BY <1>1, <1>2, NoneAssumption DEF Leaders, Receiver

\* Whoever is created to answer is one deeper than what it answers, and the
\* others stay where they are.
LEMMA StepDeepens ==
    ASSUME ExchangeInv, [Next]_vars
    PROVE  \/ depth' = depth
           \/ \E s \in Sessions :
                 /\ stage[s] = "unborn"
                 /\ depth'[s] = 0 \/ \E r \in Pending : depth'[s] = depth[r] + 1
                 /\ msg'[s] = "wire"
                 /\ \A t \in Sessions : t # s => depth'[t] = depth[t]
<1>0. TypeOK /\ ExchangeShape /\ stage \in [Sessions -> Stages]
  BY DEF ExchangeInv, PairInv, TypeOK
<1> USE DEF creation
<1>1. ASSUME NEW n \in Nodes, Connect(n)
      PROVE  \E s \in Sessions :
                 /\ stage[s] = "unborn" /\ depth'[s] = 0 /\ msg'[s] = "wire"
                 /\ \A t \in Sessions : t # s => depth'[t] = depth[t]
  <2>1. Publish(n, None, "none", 0, stage)
    BY <1>1 DEF Connect
  <2>2. PICK s \in Sessions :
            /\ stage[s] = "unborn"
            /\ \A t \in Sessions :
                  /\ depth'[t] = IF t = s THEN 0 ELSE depth[t]
                  /\ msg'[t] = CASE t = s -> "wire" [] t = None -> "none"
                                 [] OTHER -> msg[t]
    BY <1>0, <2>1, PublishEffect
  <2> QED
    BY <2>2, NoneAssumption
<1>2. ASSUME NEW r \in Sessions, Answer(r) \/ Replace(r)
      PROVE  \E s \in Sessions :
                 /\ stage[s] = "unborn" /\ depth'[s] = depth[r] + 1
                 /\ r \in Pending /\ msg'[s] = "wire"
                 /\ \A t \in Sessions : t # s => depth'[t] = depth[t]
  <2>1. PICK how \in {"leading", "creating"}, others \in [Sessions -> Stages] :
            Publish(Receiver(r), r, how, depth[r] + 1, others)
    <3>1. [stage EXCEPT ![held[r]] = "over"] \in [Sessions -> Stages]
      BY <1>0 DEF Stages
    <3> QED
      BY <1>0, <1>2, <3>1 DEF Answer, Replace
  <2>2. r \in Pending
    BY <1>2 DEF Answer, Replace, Pending
  <2>3. PICK s \in Sessions :
            /\ stage[s] = "unborn"
            /\ \A t \in Sessions :
                  /\ depth'[t] = IF t = s THEN depth[r] + 1 ELSE depth[t]
                  /\ msg'[t] = CASE t = s -> "wire" [] t = r -> how
                                 [] OTHER -> msg[t]
    BY <1>0, <2>1, PublishEffect
  <2>4. s # r
    BY <1>0, <2>2, <2>3 DEF ExchangeShape, BirthShape, Pending
  <2> QED
    BY <2>2, <2>3, <2>4
<1>3. ASSUME NEW r \in Sessions,
             Relay(r) \/ Follow(r) \/ SetRemote(r) \/ Lose(r) PROVE depth' = depth
  BY <1>3 DEF Relay, Follow, SetRemote, Lose
<1>4. ASSUME NEW s \in Sessions, Create(s) \/ Establish(s) PROVE depth' = depth
  BY <1>4 DEF Create, Register, Refused, Establish, TakeToken, Handshake, Finish
<1>5. ASSUME NEW s \in Sessions, End(s) \/ Fail(s) \/ Breaks(s) PROVE depth' = depth
  BY <1>5 DEF End, PeerCloses, ReceiveEnds, Fail, Breaks
<1>6. CASE UNCHANGED vars
  BY <1>6 DEF vars
<1> QED
  BY <1>1, <1>2, <1>3, <1>4, <1>5, <1>6 DEF Next, Receive

LEMMA DeepInductive == ExchangeInv /\ DeepShape /\ [Next]_vars => DeepShape'
<1> SUFFICES ASSUME ExchangeInv, DeepShape, [Next]_vars,
                    NEW u \in Sessions, depth'[u] >= 2
             PROVE  \E s \in Sessions : depth'[s] = 2
  BY DEF DeepShape
<1>0. /\ \A t \in Sessions : depth[t] \in Nat
      /\ \A t \in Sessions : stage[t] = "unborn" => depth[t] = 0
  BY DEF ExchangeInv, PairInv, TypeOK, ExchangeShape, BirthShape
<1>1. CASE depth' = depth
  BY <1>1 DEF DeepShape
<1>2. ASSUME NEW s \in Sessions, stage[s] = "unborn",
             depth'[s] = 0 \/ \E r \in Pending : depth'[s] = depth[r] + 1,
             \A t \in Sessions : t # s => depth'[t] = depth[t]
      PROVE  \E t \in Sessions : depth'[t] = 2
  <2>1. CASE \E t \in Sessions : depth[t] >= 2
    <3>1. PICK t \in Sessions : depth[t] = 2
      BY <2>1 DEF DeepShape
    <3>2. t # s
      BY <1>0, <1>2, <3>1
    <3> QED
      BY <1>2, <3>1, <3>2
  <2>2. CASE ~\E t \in Sessions : depth[t] >= 2
    <3>1. u = s
      BY <1>2, <2>2
    <3>2. PICK r \in Pending : depth'[s] = depth[r] + 1
      BY <1>2, <3>1
    <3>3. depth[r] \in Nat /\ ~(depth[r] >= 2)
      BY <1>0, <2>2 DEF Pending
    <3> QED
      BY <3>1, <3>2, <3>3
  <2> QED
    BY <2>1, <2>2
<1> QED
  BY <1>1, <1>2, StepDeepens

-----------------------------------------------------------------------------
LEMMA DepthInductive == ExchangeInv /\ DepthShape /\ [Next]_vars => DepthShape'
<1> SUFFICES ASSUME ExchangeInv, DepthShape, [Next]_vars PROVE DepthShape'
  OBVIOUS
<1>0. /\ TypeOK /\ RepoShape /\ ExchangeShape
      /\ stage \in [Sessions -> Stages]
      /\ \A r \in Sessions : depth[r] \in Nat /\ Receiver(r) \in Nodes
  BY ReceiverNode DEF ExchangeInv, PairInv, TypeOK
<1> USE DEF credentials, creation, messages
<1>1. ASSUME NEW n \in Nodes, Connect(n) PROVE DepthShape'
  <2>1. Publish(n, None, "none", 0, stage) /\ UNCHANGED <<repo, conn, held>>
    BY <1>1 DEF Connect
  <2>2. Used' = Used
    BY <1>0, <2>1, PublishEffect DEF Used
  <2>3. Taken \subseteq Taken'
    BY <1>0, <2>1, PublishLeads DEF Taken
  <2>4. Potential \in Nat /\ Potential' \in Nat /\ Potential <= Potential'
    BY <2>2, <2>3, PotentialGrows
  <2> QED
    BY <1>0, <2>1, <2>2, <2>4, DepthPublishes
<1>2. ASSUME NEW r \in Sessions, Answer(r) PROVE DepthShape'
  <2>1. /\ Publish(Receiver(r), r, "leading", depth[r] + 1, stage)
        /\ UNCHANGED <<repo, conn, held>> /\ msg[r] = "wire"
        /\ repo[Receiver(r)] = None /\ Leaders(Receiver(r)) = {}
    BY <1>2 DEF Answer
  <2>2. Used' = Used
    BY <1>0, <2>1, PublishEffect DEF Used
  <2>3. /\ \A m \in Nodes : Leaders(m) \subseteq Leaders(m)'
        /\ r \in Leaders(Receiver(r))'
    BY <1>0, <2>1, NoneAssumption, PublishLeads
  <2>4. Taken \subseteq Taken'
    BY <2>1, <2>3 DEF Taken
  <2>5. Receiver(r) \in Taken' /\ Receiver(r) \notin Taken
    BY <1>0, <2>1, <2>3 DEF Taken, Receiver
  <2>6. Potential \in Nat /\ Potential' \in Nat /\ Potential < Potential'
    BY <2>2, <2>4, <2>5, PotentialGrows
  <2>7. r \in Pending /\ depth[r] <= Potential
    BY <2>1 DEF Pending, DepthShape
  <2>8. depth[r] + 1 <= Potential' /\ depth[r] + 1 \in Nat /\ Potential <= Potential'
    BY <1>0, <2>6, <2>7
  <2> QED
    BY <1>0, <2>1, <2>2, <2>6, <2>7, <2>8, DepthPublishes
<1>3. ASSUME NEW r \in Sessions, Replace(r) PROVE DepthShape'
  <2> DEFINE h == held[r]
             others == [stage EXCEPT ![h] = "over"]
  <2>1. /\ h \in Sessions /\ msg[r] = "got" /\ conn[h] # "nil"
        /\ Publish(Receiver(r), r, "creating", depth[r] + 1, others)
        /\ held' = held /\ Close(h) /\ Remove(h)
    BY <1>0, <1>3 DEF Replace, TypeOK
  <2>2. others \in [Sessions -> Stages]
        /\ \A t \in Sessions : others[t] = IF t = h THEN "over" ELSE stage[t]
    BY <1>0, <2>1 DEF Stages
  <2>3. r \in Pending /\ depth[r] + 1 \in Nat
    BY <1>0, <2>1 DEF Pending
  <2>4. \A t \in Sessions : conn'[t] = "nil" <=> conn[t] = "nil"
    BY <1>0, <2>1 DEF Close, TypeOK
  <2>5. \A n \in Nodes : repo[n] # h => repo'[n] = repo[n]
    BY <1>0, <2>1, RemoveTyped
  <2> HIDE DEF others, h
  <2>6. \A m \in Nodes : Leaders(m) \subseteq Leaders(m)'
    BY <1>0, <2>1, <2>2, PublishLeads
  <2>7. PICK s \in Sessions :
            /\ stage[s] = "unborn"
            /\ \A t \in Sessions :
                  stage'[t] = IF t = s THEN "published" ELSE others[t]
    BY <1>0, <2>1, <2>2, PublishEffect
  <2>8. conn[s] = "nil"
    BY <1>0, <2>7 DEF ExchangeShape, ConnShape
  <2>9. Used' = Used \cup {h}
    BY <2>1, <2>2, <2>4, <2>7, <2>8 DEF Used
  <2>10. CASE h \in Used
    <3>1. \A n \in Nodes : repo[n] # h
      BY <1>0, <2>10, NoneAssumption DEF RepoShape, Entered, Used
    <3>2. Used' = Used /\ Taken \subseteq Taken'
      BY <2>5, <2>6, <2>9, <2>10, <3>1 DEF Taken
    <3>3. Potential \in Nat /\ Potential' \in Nat /\ Potential <= Potential'
      BY <3>2, PotentialGrows
    <3>4. depth[r] < Potential
      BY <2>1, <2>10 DEF DepthShape, h
    <3>5. depth[r] + 1 <= Potential'
      BY <1>0, <3>3, <3>4
    <3> QED
      BY <1>0, <2>1, <2>2, <2>3, <3>2, <3>3, <3>5, DepthPublishes
  <2>11. CASE h \notin Used
    <3>1. Used \subseteq Used' /\ Used' # Used
      BY <2>9, <2>11
    <3>2. \A n \in Nodes : n # Node(h) => repo[n] # h
      BY <1>0, <2>1, NoneAssumption DEF RepoShape
    <3>3. Taken \ {Node(h)} \subseteq Taken'
      BY <2>5, <2>6, <3>2 DEF Taken
    <3>4. Potential \in Nat /\ Potential' \in Nat /\ Potential < Potential'
      BY <3>1, <3>3, PotentialGains
    <3>5. depth[r] <= Potential
      BY <2>3 DEF DepthShape
    <3>6. depth[r] + 1 <= Potential' /\ Potential <= Potential'
      BY <1>0, <3>4, <3>5
    <3> QED
      BY <1>0, <2>1, <2>2, <2>3, <3>4, <3>6, DepthPublishes
  <2> QED
    BY <2>10, <2>11
<1>4. ASSUME NEW r \in Sessions,
             Relay(r) \/ Follow(r) \/ SetRemote(r) \/ Lose(r)
      PROVE  DepthShape'
  <2>1. /\ UNCHANGED <<repo, stage, conn, depth>>
        /\ msg[r] \in {"wire", "got"}
        /\ \A t \in Sessions : t # r => msg'[t] = msg[t] /\ held'[t] = held[t]
    BY <1>0, <1>4 DEF Relay, Follow, SetRemote, Lose, TypeOK
  <2>2. Used' = Used
    BY <2>1 DEF Used
  <2>3. Taken \subseteq Taken'
    BY <2>1 DEF Taken, Leaders, Receiver
  <2>4. Potential \in Nat /\ Potential' \in Nat /\ Potential <= Potential'
    BY <2>2, <2>3, PotentialGrows
  <2>5. Pending' \subseteq Pending
    BY <2>1 DEF Pending
  <2>6. msg'[r] = "got" => held'[r] \notin Used
    <3>1. CASE Relay(r)
      BY <1>0, <3>1 DEF Relay, TypeOK, RepoShape, Entered, Used
    <3>2. CASE Follow(r) \/ SetRemote(r) \/ Lose(r)
      BY <1>0, <3>2 DEF Follow, SetRemote, Lose, TypeOK
    <3> QED
      BY <1>4, <3>1, <3>2
  <2> QED
    BY <1>0, <2>1, <2>2, <2>4, <2>5, <2>6, DepthKeeps
<1>5. ASSUME NEW s \in Sessions, Create(s) PROVE DepthShape'
  <2>1. PICK to \in {"got", "done"} : Handed(s, to)
    BY <1>5 DEF Create, Register, Refused
  <2>2. /\ UNCHANGED <<conn, depth>>
        /\ stage[s] = "published" /\ conn[s] = "nil"
        /\ \A t \in Sessions : t # s => stage'[t] = stage[t]
    BY <1>0, <1>5 DEF Create, Register, Refused, Goto, ExchangeShape, ConnShape
  <2>3. repo'[Node(s)] # None /\ \A m \in Nodes : m # Node(s) => repo'[m] = repo[m]
    BY <1>0, <1>5, SessionNode, NoneAssumption DEF Create, Register, Refused, TypeOK
  <2>4. Used' = Used /\ s \notin Used
    BY <2>2 DEF Used
  <2> DEFINE u == answers[s]
             taken(t) == /\ u # None /\ msg'[t] = to /\ held'[t] = s
                         /\ t = u \/ (msg[t] = "following" /\ Receiver(t) = Receiver(u))
             left(t) == msg'[t] = msg[t] /\ held'[t] = held[t]
  <2>5. \A t \in Sessions : taken(t) \/ left(t)
    BY <1>0, <2>1, HandedEffect
  <2>6. u # None => msg[u] \in {"leading", "creating"} /\ Receiver(u) = Node(s)
    BY <1>0, <2>2 DEF ExchangeShape, ChildShape, HeldShape
  <2> HIDE DEF u
  <2>7. Taken \subseteq Taken'
    BY <2>3, <2>5, <2>6 DEF Taken, Leaders, Receiver
  <2>8. Pending' \subseteq Pending
    BY <2>5, <2>6 DEF Pending
  <2>9. Potential \in Nat /\ Potential' \in Nat /\ Potential <= Potential'
    BY <2>4, <2>7, PotentialGrows
  <2>10. \A t \in Sessions : msg'[t] = "got" /\ held'[t] \in Used
                             => msg[t] = "got" /\ held[t] \in Used
    BY <2>4, <2>5
  <2> QED
    BY <1>0, <2>2, <2>4, <2>8, <2>9, <2>10, DepthKeeps
<1>6. ASSUME UNCHANGED <<repo, depth, msg, held>>, Used' = Used PROVE DepthShape'
  <2>1. Taken' = Taken /\ Pending' = Pending
    BY <1>6 DEF Taken, Leaders, Receiver, Pending
  <2>2. Potential \in Nat /\ Potential' \in Nat /\ Potential <= Potential'
    BY <1>6, <2>1, PotentialGrows
  <2> QED
    BY <1>0, <1>6, <2>1, <2>2, DepthKeeps
<1>7. ASSUME NEW s \in Sessions, Establish(s) \/ PeerCloses(s) PROVE DepthShape'
  <2>1. UNCHANGED <<repo, depth, msg, held>>
    BY <1>7 DEF Establish, TakeToken, Handshake, Finish, PeerCloses
  <2>2. CASE TakeToken(s) \/ Finish(s)
    <3>1. Used' = Used
      BY <1>0, <2>2 DEF TakeToken, Finish, Goto, Used
    <3> QED
      BY <1>6, <2>1, <3>1
  <2>3. CASE Handshake(s)
    <3>1. /\ stage[s] = "dialing" /\ stage'[s] = "dialed"
          /\ \A t \in Sessions : t # s => stage'[t] = stage[t] /\ conn'[t] = conn[t]
      BY <1>0, <2>3 DEF Handshake, Goto, TypeOK
    <3>2. Used' = Used
      BY <3>1 DEF Used
    <3> QED
      BY <1>6, <2>1, <3>2
  <2>4. CASE PeerCloses(s)
    <3>1. stage' = stage /\ \A t \in Sessions : conn'[t] = "nil" <=> conn[t] = "nil"
      BY <1>0, <2>4 DEF PeerCloses, Close, TypeOK
    <3>2. Used' = Used
      BY <3>1 DEF Used
    <3> QED
      BY <1>6, <2>1, <3>2
  <2> QED
    BY <1>7, <2>2, <2>3, <2>4 DEF Establish
<1>8. ASSUME NEW s \in Sessions, ReceiveEnds(s) \/ Breaks(s) PROVE DepthShape'
  <2>1. /\ UNCHANGED <<depth, msg, held>> /\ Remove(s)
        /\ stage[s] = "up" /\ stage'[s] = "over" /\ conn[s] # "nil"
        /\ \A t \in Sessions : t # s => stage'[t] = stage[t]
    BY <1>0, <1>8 DEF ReceiveEnds, Breaks, Goto
  <2>2. \A t \in Sessions : conn'[t] = "nil" <=> conn[t] = "nil"
    BY <1>0, <1>8 DEF ReceiveEnds, Breaks, Close, TypeOK
  <2>3. Used' = Used \cup {s} /\ s \notin Used
    BY <2>1, <2>2 DEF Used
  <2>4. \A n \in Nodes : n # Node(s) => repo'[n] = repo[n]
    BY <1>0, <2>1, RemoveTyped, NoneAssumption DEF RepoShape
  <2>5. Taken \ {Node(s)} \subseteq Taken' /\ Pending' = Pending
    BY <2>1, <2>4 DEF Taken, Leaders, Receiver, Pending
  <2>6. Potential \in Nat /\ Potential' \in Nat /\ Potential < Potential'
    BY <2>3, <2>5, PotentialGains
  <2>7. Potential <= Potential'
    BY <2>6
  <2>8. \A t \in Sessions : msg[t] = "got" => t \in Pending
    BY DEF Pending
  <2> QED
    BY <1>0, <2>1, <2>5, <2>6, <2>7, <2>8, DepthKeeps
<1>9. ASSUME NEW s \in Sessions, Fail(s) PROVE DepthShape'
  BY <1>9 DEF Fail, DepthShape, Pending
<1>10. CASE UNCHANGED vars
  BY <1>6, <1>10 DEF vars, Used
<1> QED
  BY <1>1, <1>2, <1>3, <1>4, <1>5, <1>7, <1>8, <1>9, <1>10 DEF Next, Receive, End

-----------------------------------------------------------------------------
LEMMA BoundInit == Init => PartnerShape /\ DialCount /\ DeepShape /\ DepthShape
<1> SUFFICES ASSUME Init PROVE PartnerShape /\ DialCount /\ DeepShape /\ DepthShape
  OBVIOUS
<1>1. PartnerShape
  BY DEF Init, PartnerShape
<1>2. DialCount
  <2>1. Diallers = {} /\ connects = 0
    BY DEF Init, Diallers
  <2> QED
    BY <2>1, FS_EmptySet DEF DialCount
<1>3. DeepShape
  BY DEF Init, DeepShape
<1>4. DepthShape
  BY DEF Init, DepthShape, Pending
<1> QED
  BY <1>1, <1>2, <1>3, <1>4

LEMMA BoundInvariant == Spec => []BoundInv
<1>1. Init => PartnerShape /\ DialCount /\ DeepShape /\ DepthShape
  BY BoundInit
<1>2. ExchangeInv /\ PartnerShape /\ [Next]_vars => PartnerShape'
  BY PartnerInductive
<1>3. ExchangeInv /\ DialCount /\ [Next]_vars => DialCount'
  BY DialCountInductive
<1>4. ExchangeInv /\ DeepShape /\ [Next]_vars => DeepShape'
  BY DeepInductive
<1>5. ExchangeInv /\ DepthShape /\ [Next]_vars => DepthShape'
  BY DepthInductive
<1>6. BoundInv <=> ExchangeInv /\ PartnerShape /\ DialCount /\ DeepShape /\ DepthShape
  BY DEF BoundInv
<1> QED
  BY <1>1, <1>2, <1>3, <1>4, <1>5, <1>6, ExchangeInvariant, PTL DEF Spec

\* AnswersDieOut for the messages that can still be answered.
PendingBound == \A r \in Pending : depth[r] < 2 \/ depth[r] <= 4 * connects - 2

LEMMA PendingBounded == BoundInv => PendingBound
<1> SUFFICES ASSUME BoundInv, NEW r \in Pending, ~(depth[r] < 2)
             PROVE  depth[r] <= 4 * connects - 2
  BY DEF PendingBound
<1>1. /\ ExchangeInv /\ PartnerShape /\ DialCount /\ DeepShape /\ DepthShape
      /\ r \in Sessions /\ depth[r] \in Nat /\ connects \in Nat
  BY BoundAssumption DEF BoundInv, ExchangeInv, PairInv, TypeOK, Pending
<1>2. Cardinality(Used) <= 2 * (connects - 1)
  BY <1>1, UsedBound
<1>3. depth[r] <= 2 * Cardinality(Used) + Cardinality(Taken)
  BY <1>1 DEF DepthShape, Potential
<1> QED
  BY <1>1, <1>2, <1>3, UsedTakenFinite

\* Nobody forgets that it has dialled.
LEMMA ConnectsGrow ==
    BoundInv /\ BoundInv' /\ [Next]_vars => connects <= connects'
<1> SUFFICES ASSUME BoundInv, BoundInv', [Next]_vars PROVE connects <= connects'
  OBVIOUS
<1>1. Diallers \in SUBSET Diallers'
  BY StepSteady DEF BoundInv, Steady, Diallers
<1>2. Diallers' \in SUBSET Sessions
  BY DEF Diallers
<1>3. IsFiniteSet(Diallers')
  BY <1>2, SessionsFinite, FS_Subset
<1>4. Cardinality(Diallers) <= Cardinality(Diallers')
  BY <1>1, <1>3, FS_Subset
<1> QED
  BY <1>4 DEF BoundInv, DialCount

\* The nodes stop answering each other's answers, whatever sessions their
\* credentials meet, cross or replace: after two answers in a row to a first
\* attempt, and at most four more for each further one (receiveConnects, which
\* creates a session to answer and replaces one that has a connection,
\* network-serv.go 437-486).
THEOREM AnswersEnd == Spec => []AnswersDieOut
<1>1. Init => AnswersDieOut
  BY DEF Init, AnswersDieOut
<1>2. AnswersDieOut /\ BoundInv /\ BoundInv' /\ PendingBound' /\ [Next]_vars
      => AnswersDieOut'
  <2> SUFFICES ASSUME AnswersDieOut, BoundInv, BoundInv', PendingBound', [Next]_vars,
                      NEW u \in Sessions, ~(depth'[u] < 2)
               PROVE  depth'[u] <= 4 * connects' - 2
    BY DEF AnswersDieOut
  <2>1. connects \in Nat /\ connects' \in Nat /\ depth[u] \in Nat
    BY BoundAssumption DEF BoundInv, ExchangeInv, PairInv, TypeOK
  <2>2. connects <= connects'
    BY ConnectsGrow
  <2>3. CASE depth'[u] = depth[u]
    BY <2>1, <2>2, <2>3 DEF AnswersDieOut
  <2>4. CASE msg'[u] = "wire"
    BY <2>4 DEF PendingBound, Pending
  <2> QED
    BY <2>3, <2>4, StepDeepens DEF BoundInv
<1>3. BoundInv => PendingBound
  BY PendingBounded
<1> QED
  BY <1>1, <1>2, <1>3, BoundInvariant, PTL DEF Spec
=============================================================================
