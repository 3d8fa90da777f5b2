--------------------------- MODULE PeerPairProofs ---------------------------
(***************************************************************************)
(* Theorems about PeerPair, for any number of sessions and of attempts to  *)
(* connect: its types, and that a node has no two live connections.        *)
(***************************************************************************)
EXTENDS PeerPair, TLAPS

\* The sessions that registration has let in and nothing has ended.
Entered == {s \in Sessions : stage[s] \in {"waiting", "dialing", "dialed", "up"}}

\* They are in the repository, all the time: UpIsRegistered as it is kept.
EnteredAreRegistered == \A s \in Entered : repo[Node(s)] = s

PairInv == TypeOK /\ EnteredAreRegistered

-----------------------------------------------------------------------------
LEMMA SessionNode == \A s \in Sessions : Node(s) \in Nodes
BY DEF Sessions, Node

LEMMA OtherNode == \A n \in Nodes : Other(n) \in Nodes
BY NodeAssumption DEF Other

LEMMA ReceiverNode == \A r \in Sessions : Receiver(r) \in Nodes
BY SessionNode, OtherNode DEF Receiver

LEMMA NextIsUnborn ==
    ASSUME NEW n, Unborn(n) # {}
    PROVE  NextSession(n) \in Sessions /\ Node(NextSession(n)) = n
           /\ stage[NextSession(n)] = "unborn"
<1>1. NextSession(n) \in Unborn(n)
  BY DEF NextSession
<1>2. QED
  BY <1>1 DEF Unborn

\* What Publish does to the types, whoever calls it.
LEMMA PublishTyped ==
    ASSUME TypeOK, NEW n, NEW r \in Sessions \cup {None},
           NEW how \in {"none", "leading", "creating"}, NEW d \in Nat,
           NEW others \in [Sessions -> Stages], Publish(n, r, how, d, others)
    PROVE  /\ stage' \in [Sessions -> Stages]
           /\ dials' \in [Sessions -> BOOLEAN]
           /\ answers' \in [Sessions -> Sessions \cup {None}]
           /\ depth' \in [Sessions -> Nat]
           /\ msg' \in [Sessions -> MsgStates]
           /\ \A t \in Sessions : msg'[t] = "got" => msg[t] = "got"
<1> DEFINE s == NextSession(n)
<1>1. s \in Sessions
  BY NextIsUnborn DEF Publish
<1>2. stage' = [others EXCEPT ![s] = "published"]
  BY DEF Publish
<1>3. dials' = [dials EXCEPT ![s] = (r = None)]
  BY DEF Publish
<1>4. answers' = [answers EXCEPT ![s] = r] /\ depth' = [depth EXCEPT ![s] = d]
  BY DEF Publish
<1>5. msg' = [t \in Sessions |-> CASE t = s -> "wire" [] t = r -> how
                                    [] OTHER -> msg[t]]
  BY DEF Publish
<1> HIDE DEF s
<1>6. stage' \in [Sessions -> Stages]
  BY <1>1, <1>2 DEF Stages
<1>7. dials' \in [Sessions -> BOOLEAN]
  BY <1>1, <1>3 DEF TypeOK
<1>8. answers' \in [Sessions -> Sessions \cup {None}] /\ depth' \in [Sessions -> Nat]
  BY <1>1, <1>4 DEF TypeOK
<1>9. \A t \in Sessions : msg'[t] \in MsgStates /\ (msg'[t] = "got" => msg[t] = "got")
  <2> TAKE t \in Sessions
  <2>1. msg[t] \in MsgStates
    BY DEF TypeOK
  <2>2. CASE t = s
    BY <2>2, <1>5 DEF MsgStates
  <2>3. CASE t # s /\ t = r
    BY <2>3, <1>5 DEF MsgStates
  <2>4. CASE t # s /\ t # r
    BY <2>4, <2>1, <1>5
  <2>5. QED
    BY <2>2, <2>3, <2>4
<1>10. msg' \in [Sessions -> MsgStates]
  BY <1>5, <1>9
<1>11. QED
  BY <1>6, <1>7, <1>8, <1>9, <1>10

\* Publish adds no session to those that have entered.
LEMMA PublishEnters ==
    ASSUME TypeOK, NEW n, NEW r, NEW how, NEW d,
           NEW others \in [Sessions -> Stages], Publish(n, r, how, d, others)
    PROVE  \A s \in Sessions : stage'[s] # "published" => stage'[s] = others[s]
<1>1. NextSession(n) \in Sessions
  BY NextIsUnborn DEF Publish
<1>2. stage' = [others EXCEPT ![NextSession(n)] = "published"]
  BY DEF Publish
<1>3. QED
  BY <1>1, <1>2

\* Handed gives every goroutine that goes on a session.
LEMMA HandedTyped ==
    ASSUME TypeOK, NEW s \in Sessions, NEW to \in {"got", "done"}, Handed(s, to)
    PROVE  /\ msg' \in [Sessions -> MsgStates]
           /\ held' \in [Sessions -> Sessions \cup {None}]
           /\ \A r \in Sessions : msg'[r] = "got" => held'[r] # None
<1>1. CASE answers[s] = None
  BY <1>1 DEF Handed, messages, TypeOK
<1>2. CASE answers[s] # None
  <2> DEFINE F == Flight(answers[s])
  <2>1. msg' = [t \in Sessions |-> IF t \in F THEN to ELSE msg[t]]
    BY <1>2 DEF Handed
  <2>2. held' = [t \in Sessions |-> IF t \in F THEN s ELSE held[t]]
    BY <1>2 DEF Handed
  <2> HIDE DEF F
  <2>3. QED
    BY <2>1, <2>2, NoneAssumption DEF TypeOK, MsgStates
<1>3. QED
  BY <1>1, <1>2

\* Remove and Close change what they name, at most.
LEMMA RemoveTyped ==
    ASSUME TypeOK, NEW s \in Sessions, Remove(s)
    PROVE  /\ repo' \in [Nodes -> Sessions \cup {None}]
           /\ \A n \in Nodes : repo[n] # s => repo'[n] = repo[n]
BY SessionNode DEF Remove, TypeOK

LEMMA CloseTyped ==
    ASSUME TypeOK, NEW s \in Sessions, Close(s)
    PROVE  conn' \in [Sessions -> {"nil", "open", "closed"}]
BY DEF Close, TypeOK

LEMMA GotoTyped ==
    ASSUME TypeOK, NEW s \in Sessions, NEW from, NEW to \in Stages, Goto(s, from, to)
    PROVE  stage' \in [Sessions -> Stages]
BY DEF Goto, TypeOK

LEMMA DisturbTyped ==
    ASSUME TypeOK, NEW c \in BOOLEAN, Disturb(c)
    PROVE  disturbed' \in BOOLEAN
BY DEF Disturb, TypeOK

-----------------------------------------------------------------------------
\* Every variable keeps its type in every execution of two nodes, and a
\* goroutine that goes on with a session has one (receiveConnects,
\* network-serv.go 437-486).
THEOREM TypeCorrect == Spec => []TypeOK
<1>1. Init => TypeOK
  <2> SUFFICES ASSUME Init PROVE TypeOK
    OBVIOUS
  <2>1. connects \in 0 .. MaxConnects
    <3>1. connects = 0
      BY DEF Init
    <3>2. QED
      BY <3>1, BoundAssumption
  <2>2. /\ repo \in [Nodes -> Sessions \cup {None}]
        /\ remote \in [Sessions -> Sessions \cup {None}]
        /\ answers \in [Sessions -> Sessions \cup {None}]
        /\ held \in [Sessions -> Sessions \cup {None}]
    BY DEF Init
  <2>3. /\ stage \in [Sessions -> Stages]
        /\ conn \in [Sessions -> {"nil", "open", "closed"}]
        /\ msg \in [Sessions -> MsgStates]
        /\ \A r \in Sessions : msg[r] = "got" => held[r] # None
    BY DEF Init, Stages, MsgStates
  <2>4. dials \in [Sessions -> BOOLEAN] /\ token \in [Sessions -> BOOLEAN]
        /\ depth \in [Sessions -> Nat]
    BY DEF Init
  <2>5. disturbed \in BOOLEAN
    BY DEF Init
  <2>6. QED
    BY <2>1, <2>2, <2>3, <2>4, <2>5 DEF TypeOK
<1>2. TypeOK /\ [Next]_vars => TypeOK'
  <2> SUFFICES ASSUME TypeOK, [Next]_vars PROVE TypeOK'
    OBVIOUS
  <2> USE DEF credentials, creation, messages
  <2>1. ASSUME NEW n \in Nodes, Connect(n) PROVE TypeOK'
    <3>1. Publish(n, None, "none", 0, stage)
      BY <2>1 DEF Connect
    <3>2. connects' \in 0 .. MaxConnects
      BY <2>1, BoundAssumption DEF Connect, TypeOK
    <3>3. stage \in [Sessions -> Stages]
      BY DEF TypeOK
    <3> HIDE DEF creation
    <3>4. QED
      BY <2>1, <3>1, <3>2, <3>3, PublishTyped DEF Connect, TypeOK
  <2>2. ASSUME NEW s \in Sessions, Create(s) PROVE TypeOK'
    <3>1. CASE Register(s)
      <4>1. Handed(s, "got") /\ Goto(s, "published", "waiting")
        BY <3>1 DEF Register
      <4>2. repo' \in [Nodes -> Sessions \cup {None}]
        BY <3>1, SessionNode DEF Register, TypeOK
      <4>3. stage' \in [Sessions -> Stages]
        BY <4>1, GotoTyped DEF Stages
      <4>4. QED
        BY <3>1, <4>1, <4>2, <4>3, HandedTyped DEF Register, TypeOK
    <3>2. CASE Refused(s)
      <4>1. Handed(s, "done") /\ Goto(s, "published", "over")
        BY <3>2 DEF Refused
      <4>2. stage' \in [Sessions -> Stages]
        BY <4>1, GotoTyped DEF Stages
      <4>3. QED
        BY <3>2, <4>1, <4>2, HandedTyped DEF Refused, TypeOK
    <3>3. QED
      BY <2>2, <3>1, <3>2 DEF Create
  <2>3. ASSUME NEW r \in Sessions, Receive(r) PROVE TypeOK'
    <3>0. Receiver(r) \in Nodes
      BY ReceiverNode
    <3>1. CASE Relay(r)
      BY <3>0, <3>1 DEF Relay, TypeOK, MsgStates
    <3>2. CASE Answer(r)
      <4>1. Publish(Receiver(r), r, "leading", depth[r] + 1, stage)
        BY <3>2 DEF Answer
      <4>2. depth[r] + 1 \in Nat /\ stage \in [Sessions -> Stages]
        BY DEF TypeOK
      <4>3. disturbed' \in BOOLEAN
        BY <3>2, DisturbTyped DEF Answer
      <4>4. QED
        BY <3>2, <4>1, <4>2, <4>3, PublishTyped DEF Answer, TypeOK
    <3>3. CASE Follow(r)
      BY <3>3 DEF Follow, TypeOK, MsgStates
    <3>4. CASE Replace(r)
      <4>1. held[r] \in Sessions
        BY <3>4 DEF Replace, TypeOK
      <4> DEFINE others == [stage EXCEPT ![held[r]] = "over"]
      <4>2. Publish(Receiver(r), r, "creating", depth[r] + 1, others)
        BY <3>4 DEF Replace
      <4>3. depth[r] + 1 \in Nat /\ others \in [Sessions -> Stages]
        BY <4>1 DEF TypeOK, Stages
      <4>4. repo' \in [Nodes -> Sessions \cup {None}]
        BY <3>4, <4>1, RemoveTyped DEF Replace
      <4>5. conn' \in [Sessions -> {"nil", "open", "closed"}]
        BY <3>4, <4>1, CloseTyped DEF Replace
      <4> HIDE DEF others
      <4>6. QED
        BY <3>4, <4>2, <4>3, <4>4, <4>5, PublishTyped DEF Replace, TypeOK
    <3>5. CASE SetRemote(r)
      <4>1. held[r] \in Sessions
        BY <3>5 DEF SetRemote, TypeOK
      <4>2. remote' \in [Sessions -> Sessions \cup {None}]
            /\ token' \in [Sessions -> BOOLEAN]
        <5>1. CASE stage[held[r]] = "over"
          BY <3>5, <5>1 DEF SetRemote, TypeOK
        <5>2. CASE stage[held[r]] # "over"
          <6>1. /\ remote' = [remote EXCEPT ![held[r]] = r]
                /\ token' = [token EXCEPT ![held[r]] = TRUE]
            BY <3>5, <5>2 DEF SetRemote
          <6>2. QED
            BY <4>1, <6>1 DEF TypeOK
        <5>3. QED
          BY <5>1, <5>2
      <4>3. QED
        BY <3>5, <4>2 DEF SetRemote, TypeOK, MsgStates
    <3>6. QED
      BY <2>3, <3>1, <3>2, <3>3, <3>4, <3>5 DEF Receive
  <2>4. ASSUME NEW s \in Sessions, Establish(s) PROVE TypeOK'
    <3>1. stage' \in [Sessions -> Stages]
      BY <2>4, GotoTyped DEF Establish, TakeToken, Handshake, Finish, Stages
    <3>2. CASE TakeToken(s)
      BY <3>1, <3>2 DEF TakeToken, TypeOK
    <3>3. CASE Handshake(s)
      BY <3>1, <3>3 DEF Handshake, TypeOK
    <3>4. CASE Finish(s)
      BY <3>1, <3>4 DEF Finish, TypeOK
    <3>5. QED
      BY <2>4, <3>2, <3>3, <3>4 DEF Establish
  <2>5. ASSUME NEW s \in Sessions, End(s) PROVE TypeOK'
    <3>1. CASE PeerCloses(s)
      BY <3>1, CloseTyped DEF PeerCloses, TypeOK
    <3>2. CASE ReceiveEnds(s)
      <4>1. stage' \in [Sessions -> Stages]
        BY <3>2, GotoTyped DEF ReceiveEnds, Stages
      <4>2. QED
        BY <3>2, <4>1, RemoveTyped DEF ReceiveEnds, TypeOK
    <3>3. QED
      BY <2>5, <3>1, <3>2 DEF End
  <2>6. ASSUME NEW r \in Sessions, Lose(r) PROVE TypeOK'
    BY <2>6 DEF Lose, Disturb, TypeOK, MsgStates
  <2>7. ASSUME NEW s \in Sessions, Fail(s) PROVE TypeOK'
    <3>1. SomeoneGoesOn \in BOOLEAN
      BY DEF SomeoneGoesOn
    <3>2. disturbed' \in BOOLEAN
      BY <2>7, <3>1, DisturbTyped DEF Fail
    <3>3. stage' \in [Sessions -> Stages]
      BY <2>7, GotoTyped DEF Fail, Stages
    <3>4. QED
      BY <2>7, <3>2, <3>3, CloseTyped, RemoveTyped DEF Fail, TypeOK
  <2>8. ASSUME NEW s \in Sessions, Breaks(s) PROVE TypeOK'
    <3>1. disturbed' \in BOOLEAN
      BY <2>8, DisturbTyped DEF Breaks
    <3>2. stage' \in [Sessions -> Stages]
      BY <2>8, GotoTyped DEF Breaks, Stages
    <3>3. QED
      BY <2>8, <3>1, <3>2, CloseTyped, RemoveTyped DEF Breaks, TypeOK
  <2>9. CASE UNCHANGED vars
    BY <2>9 DEF vars, TypeOK
  <2>10. QED
    BY <2>1, <2>2, <2>3, <2>4, <2>5, <2>6, <2>7, <2>8, <2>9 DEF Next
<1>3. QED
  BY <1>1, <1>2, PTL DEF Spec

-----------------------------------------------------------------------------
\* A step that lets nobody in and takes out of the repository only who leaves.
LEMMA NobodyEnters ==
    ASSUME TypeOK, EnteredAreRegistered,
           \A s \in Sessions : s \in Entered' => s \in Entered,
           \A s \in Entered' : repo[Node(s)] = s => repo'[Node(s)] = s
    PROVE  EnteredAreRegistered'
BY DEF EnteredAreRegistered, Entered

\* The same for the steps that remove a session: it is over with them.
LEMMA OneLeaves ==
    ASSUME TypeOK, EnteredAreRegistered, NEW s \in Sessions, Remove(s),
           stage'[s] \in {"published", "over"},
           \A t \in Sessions :
               stage'[t] # stage[t] => stage'[t] \in {"published", "over"}
    PROVE  EnteredAreRegistered'
<1>1. \A t \in Sessions : t \in Entered' => t \in Entered /\ t # s
  BY DEF Entered
<1>2. \A t \in Entered' : repo[Node(t)] = t => repo'[Node(t)] = t
  BY <1>1, RemoveTyped, SessionNode DEF Entered
<1>3. QED
  BY <1>1, <1>2, NobodyEnters

LEMMA EnteredInductive == PairInv /\ [Next]_vars => EnteredAreRegistered'
<1> SUFFICES ASSUME TypeOK, EnteredAreRegistered, [Next]_vars
             PROVE  EnteredAreRegistered'
  BY DEF PairInv
<1>1. ASSUME NEW n \in Nodes, Connect(n) PROVE EnteredAreRegistered'
  <2>1. Publish(n, None, "none", 0, stage) /\ stage \in [Sessions -> Stages]
    BY <1>1 DEF Connect, TypeOK
  <2>2. \A s \in Sessions : s \in Entered' => s \in Entered
    BY <2>1, PublishEnters DEF Entered
  <2>3. QED
    BY <1>1, <2>2, NobodyEnters DEF Connect
<1>2. ASSUME NEW s \in Sessions, Create(s) PROVE EnteredAreRegistered'
  <2>1. CASE Register(s)
    <3>1. \A t \in Sessions : t # s => (t \in Entered' <=> t \in Entered)
      BY <2>1 DEF Register, Goto, Entered, TypeOK
    <3>2. repo[Node(s)] = None /\ repo' = [repo EXCEPT ![Node(s)] = s]
      BY <2>1 DEF Register
    <3>3. \A t \in Entered' : repo'[Node(t)] = t
      BY <3>1, <3>2, SessionNode, NoneAssumption
      DEF EnteredAreRegistered, Entered, TypeOK
    <3>4. QED
      BY <3>3 DEF EnteredAreRegistered
  <2>2. CASE Refused(s)
    <3>1. \A t \in Sessions : t \in Entered' => t \in Entered
      BY <2>2 DEF Refused, Goto, Entered, TypeOK
    <3>2. QED
      BY <2>2, <3>1, NobodyEnters DEF Refused
  <2>3. QED
    BY <1>2, <2>1, <2>2 DEF Create
<1>3. ASSUME NEW r \in Sessions, Receive(r) PROVE EnteredAreRegistered'
  <2>1. CASE Relay(r) \/ Follow(r) \/ SetRemote(r)
    BY <2>1 DEF Relay, Follow, SetRemote, EnteredAreRegistered, Entered
  <2>2. CASE Answer(r)
    <3>1. Publish(Receiver(r), r, "leading", depth[r] + 1, stage)
          /\ stage \in [Sessions -> Stages]
      BY <2>2 DEF Answer, TypeOK
    <3>2. \A s \in Sessions : s \in Entered' => s \in Entered
      BY <3>1, PublishEnters DEF Entered
    <3>3. QED
      BY <2>2, <3>2, NobodyEnters DEF Answer
  <2>3. CASE Replace(r)
    <3>1. held[r] \in Sessions
      BY <2>3 DEF Replace, TypeOK
    <3> DEFINE others == [stage EXCEPT ![held[r]] = "over"]
    <3>2. Publish(Receiver(r), r, "creating", depth[r] + 1, others)
          /\ others \in [Sessions -> Stages]
      BY <2>3, <3>1 DEF Replace, TypeOK, Stages
    <3> HIDE DEF others
    <3>3. \A t \in Sessions : stage'[t] # "published" => stage'[t] = others[t]
      BY <3>2, PublishEnters
    <3>4. stage'[held[r]] \in {"published", "over"}
      BY <3>1, <3>3 DEF TypeOK, others
    <3>5. \A t \in Sessions :
              stage'[t] # stage[t] => stage'[t] \in {"published", "over"}
      BY <3>1, <3>3 DEF TypeOK, others
    <3>6. QED
      BY <2>3, <3>1, <3>4, <3>5, OneLeaves DEF Replace
  <2>4. QED
    BY <1>3, <2>1, <2>2, <2>3 DEF Receive
<1>4. ASSUME NEW s \in Sessions, Establish(s) PROVE EnteredAreRegistered'
  <2>1. \A t \in Sessions : t \in Entered' => t \in Entered
    BY <1>4 DEF Establish, TakeToken, Handshake, Finish, Goto, Entered, TypeOK
  <2>2. repo' = repo
    BY <1>4 DEF Establish, TakeToken, Handshake, Finish
  <2>3. QED
    BY <2>1, <2>2, NobodyEnters
<1>5. ASSUME NEW s \in Sessions, End(s) PROVE EnteredAreRegistered'
  <2>1. CASE PeerCloses(s)
    BY <2>1 DEF PeerCloses, EnteredAreRegistered, Entered
  <2>2. CASE ReceiveEnds(s)
    BY <2>2, OneLeaves DEF ReceiveEnds, Goto, TypeOK
  <2>3. QED
    BY <1>5, <2>1, <2>2 DEF End
<1>6. ASSUME NEW r \in Sessions, Lose(r) PROVE EnteredAreRegistered'
  BY <1>6 DEF Lose, EnteredAreRegistered, Entered
<1>7. ASSUME NEW s \in Sessions, Fail(s) PROVE EnteredAreRegistered'
  BY <1>7, OneLeaves DEF Fail, Goto, TypeOK
<1>8. ASSUME NEW s \in Sessions, Breaks(s) PROVE EnteredAreRegistered'
  BY <1>8, OneLeaves DEF Breaks, Goto, TypeOK
<1>9. CASE UNCHANGED vars
  BY <1>9 DEF vars, EnteredAreRegistered, Entered
<1>10. QED
  BY <1>1, <1>2, <1>3, <1>4, <1>5, <1>6, <1>7, <1>8, <1>9 DEF Next

\* A node never has two live connections, whatever credentials cross, are lost
\* or replace each other: the one that is up is the one the repository has
\* (Add, session-repo.go; receiveConnects and resetSession, helpers.go).
THEOREM OneLiveConnection == Spec => []UpIsRegistered
<1>1. Init => EnteredAreRegistered
  BY DEF Init, EnteredAreRegistered, Entered
<1>2. TypeOK /\ EnteredAreRegistered /\ [Next]_vars => EnteredAreRegistered'
  BY EnteredInductive DEF PairInv
<1>3. EnteredAreRegistered => UpIsRegistered
  BY DEF EnteredAreRegistered, Entered, UpIsRegistered
<1>4. QED
  BY <1>1, <1>2, <1>3, TypeCorrect, PTL DEF Spec

-----------------------------------------------------------------------------
(* The exchange of credentials.                                            *)

\* Who has not begun has done nothing; who answers nobody has connected of its
\* own accord, and dials; who answers does not, and stands one deeper than the
\* message it answers, which has arrived.
BirthShape ==
    \A s \in Sessions :
        /\ stage[s] = "unborn" => ~dials[s] /\ msg[s] = "none" /\ answers[s] = None
        /\ answers[s] = None => depth[s] = 0 /\ (stage[s] # "unborn" => dials[s])
        /\ answers[s] # None =>
              /\ ~dials[s] /\ depth[s] = depth[answers[s]] + 1
              /\ msg[answers[s]] \notin {"none", "wire", "following"}

\* A connection comes with the handshake and is not forgotten.
ConnShape ==
    \A s \in Sessions :
        /\ conn[s] # "nil" => stage[s] \in {"dialed", "up", "over"}
        /\ stage[s] \in {"dialed", "up"} => conn[s] # "nil"

\* A message is for a session of its receiver.
HeldShape ==
    \A s \in Sessions :
        /\ held[s] # None => Node(held[s]) = Receiver(s)
        /\ answers[s] # None => Node(s) = Receiver(answers[s])

\* Credentials are in one session, for which their message was.
RemoteShape ==
    \A s \in Sessions :
        remote[s] # None => msg[remote[s]] = "done" /\ held[remote[s]] = s

\* A session that answers a message is being created for it, or is the one its
\* goroutine holds, or has had its connection; and it may hold no other's.
ChildShape ==
    \A s \in Sessions :
        LET r == answers[s] IN
        r # None =>
            /\ stage[s] = "published" => msg[r] \in {"leading", "creating"}
            /\ conn[s] # "nil" \/ stage[s] = "published" \/ held[r] = s
            /\ msg[r] \in {"got", "done"} => held[r] # None /\ answers[held[r]] = r

\* A message creates a second session only when the first was connected.
SiblingShape ==
    \A s, t \in Sessions :
        (s # t /\ answers[s] = answers[t] /\ answers[s] # None)
            => conn[s] # "nil" \/ conn[t] # "nil"

ExchangeShape ==
    /\ BirthShape /\ ConnShape /\ HeldShape /\ RemoteShape
    /\ ChildShape /\ SiblingShape

\* The repository has sessions of its node that nothing has ended.
RepoShape ==
    \A n \in Nodes :
        repo[n] # None => Node(repo[n]) = n /\ repo[n] \in Entered

Connected == {s \in Sessions : stage[s] \in {"dialed", "up"}}

\* EndsAgree, and every one that is connected has an other end.
LinkedShape ==
    \A s \in Connected :
        /\ remote[s] # None
        /\ remote[s] \in Connected =>
              remote[remote[s]] = s /\ dials[s] # dials[remote[s]]

ExchangeInv == PairInv /\ RepoShape /\ ExchangeShape /\ LinkedShape

\* Everything has its shape at first: nothing has begun.
LEMMA ExchangeInit == Init => RepoShape /\ ExchangeShape /\ LinkedShape
BY NoneAssumption
DEF Init, ExchangeShape, BirthShape, ConnShape, HeldShape, RemoteShape,
    ChildShape, SiblingShape, RepoShape, LinkedShape, Connected

\* Publish, session by session.
LEMMA PublishEffect ==
    ASSUME TypeOK, NEW n, NEW r \in Sessions \cup {None}, NEW how, NEW d,
           NEW others \in [Sessions -> Stages], Publish(n, r, how, d, others)
    PROVE  \E s \in Sessions :
              /\ Node(s) = n /\ stage[s] = "unborn"
              /\ \A t \in Sessions :
                    /\ stage'[t] = IF t = s THEN "published" ELSE others[t]
                    /\ t = s => (dials'[t] <=> r = None)
                    /\ t # s => dials'[t] = dials[t]
                    /\ answers'[t] = IF t = s THEN r ELSE answers[t]
                    /\ depth'[t] = IF t = s THEN d ELSE depth[t]
                    /\ msg'[t] = CASE t = s -> "wire" [] t = r -> how
                                   [] OTHER -> msg[t]
<1> DEFINE s == NextSession(n)
<1>1. s \in Sessions /\ Node(s) = n /\ stage[s] = "unborn"
  BY NextIsUnborn DEF Publish
<1>2. /\ stage' = [others EXCEPT ![s] = "published"]
      /\ dials' = [dials EXCEPT ![s] = (r = None)]
      /\ answers' = [answers EXCEPT ![s] = r]
      /\ depth' = [depth EXCEPT ![s] = d]
      /\ msg' = [t \in Sessions |-> CASE t = s -> "wire" [] t = r -> how
                                       [] OTHER -> msg[t]]
  BY DEF Publish
<1> HIDE DEF s
<1>3. \A t \in Sessions :
          /\ stage'[t] = IF t = s THEN "published" ELSE others[t]
          /\ answers'[t] = IF t = s THEN r ELSE answers[t]
          /\ depth'[t] = IF t = s THEN d ELSE depth[t]
          /\ msg'[t] = CASE t = s -> "wire" [] t = r -> how [] OTHER -> msg[t]
  BY <1>2 DEF TypeOK
<1>4. \A t \in Sessions :
          /\ t = s => (dials'[t] <=> r = None)
          /\ t # s => dials'[t] = dials[t]
  BY <1>2 DEF TypeOK
<1> QED
  BY <1>1, <1>3, <1>4

\* Handed, message by message.
LEMMA HandedEffect ==
    ASSUME TypeOK, NEW s \in Sessions, NEW to, Handed(s, to)
    PROVE  \A t \in Sessions :
              \/ /\ answers[s] # None /\ t \in Flight(answers[s])
                 /\ t = answers[s] \/ (msg[t] = "following"
                                        /\ Receiver(t) = Receiver(answers[s]))
                 /\ msg'[t] = to /\ held'[t] = s
              \/ /\ answers[s] = None \/ t # answers[s]
                 /\ msg'[t] = msg[t] /\ held'[t] = held[t]
<1>1. CASE answers[s] = None
  BY <1>1 DEF Handed, messages
<1>2. CASE answers[s] # None
  <2> DEFINE F == Flight(answers[s])
  <2>1. /\ msg' = [t \in Sessions |-> IF t \in F THEN to ELSE msg[t]]
        /\ held' = [t \in Sessions |-> IF t \in F THEN s ELSE held[t]]
    BY <1>2 DEF Handed
  <2>2. /\ answers[s] \in F
        /\ \A t \in F : t = answers[s] \/ (msg[t] = "following"
                                            /\ Receiver(t) = Receiver(answers[s]))
    BY DEF Flight
  <2> HIDE DEF F
  <2> QED
    BY <1>2, <2>1, <2>2 DEF F
<1> QED
  BY <1>1, <1>2

\* A session is created: to dial, or to answer a message that has none yet or
\* whose session has had its connection.
LEMMA PublishKeeps ==
    ASSUME TypeOK, ExchangeShape, NEW n, NEW r \in Sessions \cup {None}, NEW how,
           NEW d, NEW others \in [Sessions -> Stages], Publish(n, r, how, d, others),
           r = None => d = 0,
           r # None => /\ d = depth[r] + 1 /\ n = Receiver(r)
                       /\ how \in {"leading", "creating"}
                       /\ msg[r] = "wire" \/ (msg[r] = "got" /\ held[r] # None
                                               /\ conn[held[r]] # "nil"),
           \A t \in Sessions : others[t] = stage[t]
                                \/ (others[t] = "over" /\ conn[t] # "nil"),
           \A t \in Sessions : conn'[t] = "nil" <=> conn[t] = "nil",
           UNCHANGED <<remote, held>>
    PROVE  ExchangeShape'
<1>1. PICK s \in Sessions :
          /\ Node(s) = n /\ stage[s] = "unborn"
          /\ \A t \in Sessions :
                /\ stage'[t] = IF t = s THEN "published" ELSE others[t]
                /\ t = s => (dials'[t] <=> r = None)
                /\ t # s => dials'[t] = dials[t]
                /\ answers'[t] = IF t = s THEN r ELSE answers[t]
                /\ depth'[t] = IF t = s THEN d ELSE depth[t]
                /\ msg'[t] = CASE t = s -> "wire" [] t = r -> how [] OTHER -> msg[t]
  BY PublishEffect
<1>2. msg[s] = "none" /\ answers[s] = None /\ conn[s] = "nil"
  BY <1>1 DEF ExchangeShape, BirthShape, ConnShape
<1>3. \A t \in Sessions : answers[t] # s
  BY <1>2, NoneAssumption DEF ExchangeShape, BirthShape
<1>4. s # r
  BY <1>2, NoneAssumption
<1>5. \A t \in Sessions : answers[t] \in Sessions \cup {None}
                          /\ held[t] \in Sessions \cup {None}
                          /\ remote[t] \in Sessions \cup {None}
  BY DEF TypeOK
<1>6. \A t \in Sessions : r # None /\ answers[t] = r => conn[t] # "nil"
  BY NoneAssumption DEF ExchangeShape, BirthShape, ChildShape
<1>7. BirthShape'
  <2> SUFFICES ASSUME NEW t \in Sessions
               PROVE  /\ stage'[t] = "unborn" =>
                            ~dials'[t] /\ msg'[t] = "none" /\ answers'[t] = None
                      /\ answers'[t] = None =>
                            depth'[t] = 0 /\ (stage'[t] # "unborn" => dials'[t])
                      /\ answers'[t] # None =>
                            /\ ~dials'[t] /\ depth'[t] = depth'[answers'[t]] + 1
                            /\ msg'[answers'[t]] \notin {"none", "wire", "following"}
    BY DEF BirthShape
  <2>1. CASE t = s
    BY <1>1, <1>2, <1>4, <2>1, NoneAssumption
  <2>2. CASE t # s
    <3>1. /\ answers'[t] = answers[t] /\ depth'[t] = depth[t]
          /\ dials'[t] = dials[t] /\ stage'[t] = others[t]
          /\ stage'[t] = "unborn" <=> stage[t] = "unborn"
      BY <1>1, <2>2 DEF ExchangeShape, ConnShape
    <3>2. stage[t] = "unborn" => msg'[t] = "none"
      <4>1. stage[t] = "unborn" => msg[t] = "none" /\ t # r
        BY NoneAssumption DEF ExchangeShape, BirthShape
      <4> QED
        BY <1>1, <2>2, <4>1
    <3>3. answers[t] # None => msg'[answers[t]] \notin {"none", "wire", "following"}
                              /\ depth'[answers[t]] = depth[answers[t]]
      BY <1>1, <1>3, <1>5, <2>2 DEF ExchangeShape, BirthShape
    <3> QED
      BY <3>1, <3>2, <3>3 DEF ExchangeShape, BirthShape
  <2> QED
    BY <2>1, <2>2
<1>8. ConnShape'
  BY <1>1, <1>2 DEF ExchangeShape, ConnShape
<1>9. HeldShape'
  BY <1>1 DEF ExchangeShape, HeldShape, Receiver
<1>10. RemoteShape'
  BY <1>1, <1>2, <1>5 DEF ExchangeShape, RemoteShape
<1>11. ChildShape'
  <2> SUFFICES ASSUME NEW t \in Sessions, answers'[t] # None
               PROVE  /\ stage'[t] = "published" =>
                            msg'[answers'[t]] \in {"leading", "creating"}
                      /\ \/ conn'[t] # "nil" \/ stage'[t] = "published"
                         \/ held'[answers'[t]] = t
                      /\ msg'[answers'[t]] \in {"got", "done"} =>
                            /\ held'[answers'[t]] # None
                            /\ answers'[held'[answers'[t]]] = answers'[t]
    BY DEF ChildShape
  <2>1. CASE t = s
    BY <1>1, <1>4, <2>1
  <2>2. CASE t # s /\ answers[t] = r
    BY <1>1, <1>4, <1>6, <2>2 DEF ExchangeShape, ConnShape
  <2>3. CASE t # s /\ answers[t] # r
    <3> DEFINE u == answers[t]
    <3>1. answers'[t] = u /\ u \in Sessions /\ u # s /\ u # r
      BY <1>1, <1>3, <1>5, <2>3
    <3>2. msg'[u] = msg[u] /\ held'[u] = held[u]
      BY <1>1, <3>1
    <3>3. msg[u] \in {"got", "done"} => held[u] # s
      BY <1>2, <3>1, NoneAssumption DEF ExchangeShape, ChildShape
    <3>4. stage'[t] = stage[t] \/ conn[t] # "nil"
      BY <1>1, <2>3
    <3>5. stage'[t] = "published" => stage[t] = "published"
      BY <1>1, <2>3
    <3> HIDE DEF u
    <3> QED
      BY <1>1, <1>5, <2>3, <3>1, <3>2, <3>3, <3>4, <3>5
      DEF ExchangeShape, ChildShape, u
  <2> QED
    BY <2>1, <2>2, <2>3
<1>12. SiblingShape'
  BY <1>1, <1>6 DEF ExchangeShape, SiblingShape
<1> QED
  BY <1>7, <1>8, <1>9, <1>10, <1>11, <1>12 DEF ExchangeShape

\* Add answers: those who wait for the session go on with it, or without.
LEMMA HandedKeeps ==
    ASSUME TypeOK, ExchangeShape, NEW s \in Sessions, NEW to \in {"got", "done"},
           NEW next \in {"waiting", "over"}, Goto(s, "published", next), Handed(s, to),
           UNCHANGED <<conn, remote, dials, answers, depth>>
    PROVE  ExchangeShape'
<1>1. stage[s] = "published" /\ stage'[s] = next
      /\ \A t \in Sessions : t # s => stage'[t] = stage[t]
  BY DEF Goto, TypeOK
<1>2. conn[s] = "nil"
  BY <1>1 DEF ExchangeShape, ConnShape
<1>3. \A t \in Sessions : answers[t] \in Sessions \cup {None}
                          /\ remote[t] \in Sessions \cup {None}
  BY DEF TypeOK
<1> DEFINE taken(t) == /\ answers[s] # None
                       /\ t = answers[s] \/ (msg[t] = "following"
                                              /\ Receiver(t) = Receiver(answers[s]))
                       /\ msg'[t] = to /\ held'[t] = s
           left(t) == /\ answers[s] = None \/ t # answers[s]
                      /\ msg'[t] = msg[t] /\ held'[t] = held[t]
<1>4. \A t \in Sessions : taken(t) \/ left(t)
  BY HandedEffect
<1>5. answers[s] # None => msg[answers[s]] \in {"leading", "creating"}
  BY <1>1 DEF ExchangeShape, ChildShape
<1>6. BirthShape'
  <2>1. \A t \in Sessions : stage'[t] = "unborn" <=> stage[t] = "unborn"
    BY <1>1
  <2>2. \A t \in Sessions : msg[t] = "none" => msg'[t] = "none"
    BY <1>4, <1>5
  <2>3. \A t \in Sessions : msg[t] \notin {"none", "wire", "following"}
                            => msg'[t] \notin {"none", "wire", "following"}
    BY <1>4
  <2> QED
    BY <1>3, <2>1, <2>2, <2>3 DEF ExchangeShape, BirthShape
<1>7. ConnShape'
  BY <1>1, <1>2 DEF ExchangeShape, ConnShape
<1>8. HeldShape'
  BY <1>4 DEF ExchangeShape, HeldShape, Receiver
<1>9. RemoteShape'
  BY <1>3, <1>4, <1>5 DEF ExchangeShape, RemoteShape
<1>10. ChildShape'
  <2> SUFFICES ASSUME NEW t \in Sessions, answers[t] # None
               PROVE  /\ stage'[t] = "published" =>
                            msg'[answers[t]] \in {"leading", "creating"}
                      /\ \/ conn[t] # "nil" \/ stage'[t] = "published"
                         \/ held'[answers[t]] = t
                      /\ msg'[answers[t]] \in {"got", "done"} =>
                            /\ held'[answers[t]] # None
                            /\ answers[held'[answers[t]]] = answers[t]
    BY DEF ChildShape
  <2>1. CASE answers[t] = answers[s]
    <3>1. held'[answers[s]] = s /\ msg'[answers[s]] = to
      BY <1>3, <1>4, <2>1
    <3>2. t # s => conn[t] # "nil"
      BY <1>2, <2>1 DEF ExchangeShape, SiblingShape
    <3> QED
      BY <1>1, <2>1, <3>1, <3>2, NoneAssumption DEF ExchangeShape, ConnShape
  <2>2. CASE answers[t] # answers[s]
    <3>1. msg[answers[t]] # "following"
      BY DEF ExchangeShape, BirthShape
    <3>2. msg'[answers[t]] = msg[answers[t]] /\ held'[answers[t]] = held[answers[t]]
      BY <1>3, <1>4, <2>2, <3>1
    <3>3. stage'[t] = stage[t]
      BY <1>1, <2>2
    <3> QED
      BY <3>2, <3>3 DEF ExchangeShape, ChildShape
  <2> QED
    BY <2>1, <2>2
<1>11. SiblingShape'
  BY DEF ExchangeShape, SiblingShape
<1> QED
  BY <1>6, <1>7, <1>8, <1>9, <1>10, <1>11 DEF ExchangeShape

\* A step of a session that has entered, or none: no message moves.
LEMMA QuietKeeps ==
    ASSUME ExchangeShape, ConnShape',
           \A t \in Sessions :
               /\ stage'[t] = "unborn" <=> stage[t] = "unborn"
               /\ stage'[t] = "published" <=> stage[t] = "published"
               /\ conn[t] # "nil" => conn'[t] # "nil",
           UNCHANGED <<remote, dials, answers, depth, msg, held>>
    PROVE  ExchangeShape'
<1>1. BirthShape'
  BY DEF ExchangeShape, BirthShape
<1>2. HeldShape' /\ RemoteShape'
  BY DEF ExchangeShape, HeldShape, RemoteShape, Receiver
<1>3. ChildShape' /\ SiblingShape'
  BY DEF ExchangeShape, ChildShape, SiblingShape
<1> QED
  BY <1>1, <1>2, <1>3 DEF ExchangeShape

\* A message arrives, waits or is lost: no session answers it yet.
LEMMA MessageKeeps ==
    ASSUME TypeOK, ExchangeShape, NEW r \in Sessions, msg[r] = "wire",
           NEW to \in {"got", "following", "done"}, msg' = [msg EXCEPT ![r] = to],
           NEW h, h # None => Node(h) = Receiver(r),
           held' = [held EXCEPT ![r] = h],
           UNCHANGED <<stage, conn, remote, dials, answers, depth>>
    PROVE  ExchangeShape'
<1>1. \A t \in Sessions : msg'[t] = IF t = r THEN to ELSE msg[t]
  BY DEF TypeOK
<1>2. \A t \in Sessions : held'[t] = IF t = r THEN h ELSE held[t]
  BY DEF TypeOK
<1>3. \A t \in Sessions : /\ answers[t] \in Sessions \cup {None}
                          /\ remote[t] \in Sessions \cup {None}
                          /\ answers[t] # r \/ answers[t] = None
                          /\ remote[t] # r \/ remote[t] = None
  BY DEF TypeOK, ExchangeShape, BirthShape, RemoteShape
<1>4. BirthShape'
  BY <1>1, <1>3 DEF ExchangeShape, BirthShape
<1>5. HeldShape'
  BY <1>2 DEF ExchangeShape, HeldShape, Receiver
<1>6. RemoteShape'
  BY <1>1, <1>2, <1>3, NoneAssumption DEF ExchangeShape, RemoteShape
<1>7. ChildShape'
  BY <1>1, <1>2, <1>3, NoneAssumption DEF ExchangeShape, ChildShape
<1>8. ConnShape' /\ SiblingShape'
  BY DEF ExchangeShape, ConnShape, SiblingShape
<1> QED
  BY <1>4, <1>5, <1>6, <1>7, <1>8 DEF ExchangeShape

\* A session is given the credentials that its message has brought.
LEMMA SetRemoteKeeps ==
    ASSUME TypeOK, ExchangeShape, NEW r \in Sessions, SetRemote(r)
    PROVE  ExchangeShape'
<1>1. msg[r] = "got" /\ held[r] \in Sessions
  BY DEF SetRemote, TypeOK
<1>2. \A t \in Sessions : msg'[t] = IF t = r THEN "done" ELSE msg[t]
  BY DEF SetRemote, TypeOK
<1>3. \A t \in Sessions : remote'[t] = remote[t] \/ (t = held[r] /\ remote'[t] = r)
  BY <1>1 DEF SetRemote, TypeOK, credentials
<1>4. UNCHANGED <<stage, conn, dials, answers, depth, held>>
  BY DEF SetRemote, creation
<1>5. \A t \in Sessions : /\ answers[t] \in Sessions \cup {None}
                          /\ remote[t] \in Sessions \cup {None}
  BY DEF TypeOK
<1>6. BirthShape'
  BY <1>1, <1>2, <1>4, <1>5 DEF ExchangeShape, BirthShape
<1>7. RemoteShape'
  BY <1>2, <1>3, <1>4, <1>5 DEF ExchangeShape, RemoteShape
<1>8. ChildShape'
  BY <1>1, <1>2, <1>4, <1>5 DEF ExchangeShape, ChildShape
<1>9. HeldShape' /\ ConnShape' /\ SiblingShape'
  BY <1>4 DEF ExchangeShape, HeldShape, ConnShape, SiblingShape, Receiver
<1> QED
  BY <1>6, <1>7, <1>8, <1>9 DEF ExchangeShape

-----------------------------------------------------------------------------
LEMMA OtherOther ==
    \A m, n \in Nodes : (m = Other(n) => n = Other(m)) /\ Other(n) # n
<1>1. PICK a, b \in Nodes : a # b /\ Nodes = {a, b}
  BY NodeAssumption
<1>2. Other(a) = b /\ Other(b) = a
  BY <1>1 DEF Other
<1> QED
  BY <1>1, <1>2

\* Whose credentials a session has is of the other node.
LEMMA RemoteIsElsewhere ==
    ASSUME TypeOK, ExchangeShape, NEW s \in Sessions, remote[s] # None
    PROVE  remote[s] \in Sessions /\ Node(remote[s]) = Other(Node(s))
<1>1. remote[s] \in Sessions /\ held[remote[s]] = s
  BY DEF TypeOK, ExchangeShape, RemoteShape
<1>2. Node(s) = Other(Node(remote[s]))
  BY <1>1, NoneAssumption DEF ExchangeShape, HeldShape, Receiver
<1> QED
  BY <1>1, <1>2, OtherOther, SessionNode

\* A step that connects nobody and gives nobody connected other credentials.
LEMMA LinkedKeeps ==
    ASSUME TypeOK, LinkedShape,
           \A t \in Sessions :
               t \in Connected' => /\ t \in Connected
                                   /\ remote'[t] = remote[t]
                                   /\ dials'[t] = dials[t]
    PROVE  LinkedShape'
<1> SUFFICES ASSUME NEW s \in Connected'
             PROVE  /\ remote'[s] # None
                    /\ remote'[s] \in Connected' =>
                          /\ remote'[remote'[s]] = s
                          /\ dials'[s] # dials'[remote'[s]]
  BY DEF LinkedShape
<1>1. s \in Sessions /\ s \in Connected /\ remote'[s] = remote[s]
      /\ dials'[s] = dials[s]
  BY DEF Connected
<1>2. remote[s] \in Sessions
  BY <1>1 DEF LinkedShape, TypeOK
<1> QED
  BY <1>1, <1>2 DEF LinkedShape

\* A step in which the repository changes as Remove changes it.
LEMMA RepoKeeps ==
    ASSUME RepoShape,
           \A n \in Nodes : repo'[n] # None =>
               repo'[n] = repo[n] /\ (repo[n] \in Entered => repo[n] \in Entered')
    PROVE  RepoShape'
BY DEF RepoShape

\* Nobody is connected to an end that is connected to somebody else: a session
\* that dials or accepts is the registered one, and so is who it met.
LEMMA HandshakeLinks ==
    ASSUME ExchangeInv, NEW a \in Sessions, Handshake(a)
    PROVE  LinkedShape'
<1> DEFINE b == remote[a]
<1>1. TypeOK /\ EnteredAreRegistered /\ ExchangeShape /\ LinkedShape
  BY DEF ExchangeInv, PairInv
<1>2. /\ b # None /\ remote[b] = a /\ dials[a] # dials[b]
      /\ stage[a] = "dialing" /\ stage[b] \in {"dialing", "dialed"}
  BY DEF Handshake, CanShake, Paired
<1>3. UNCHANGED <<remote, dials>>
      /\ \A t \in Sessions : stage'[t] = IF t = a THEN "dialed" ELSE stage[t]
  BY <1>1 DEF Handshake, Goto, TypeOK, credentials, creation
<1>4. b \in Sessions /\ Node(b) = Other(Node(a)) /\ b \in Entered
  BY <1>1, <1>2, RemoteIsElsewhere DEF Entered
<1>5. ASSUME NEW s \in Sessions, s \in Connected, remote[s] = a PROVE s = b
  <2>1. Node(a) = Other(Node(s)) /\ a \in Nodes \X (1 .. MaxSessions)
    BY <1>1, <1>5, NoneAssumption, RemoteIsElsewhere DEF Sessions
  <2>2. Node(s) = Node(b)
    BY <1>4, <2>1, SessionNode, OtherOther DEF Sessions
  <2>3. s \in Entered
    BY <1>5 DEF Connected, Entered
  <2> QED
    BY <1>1, <1>4, <2>2, <2>3 DEF EnteredAreRegistered
<1> SUFFICES ASSUME NEW s \in Connected'
             PROVE  /\ remote[s] # None
                    /\ remote[s] \in Connected' =>
                          /\ remote[remote[s]] = s
                          /\ dials[s] # dials[remote[s]]
  BY <1>3 DEF LinkedShape
<1>6. s \in Sessions
  BY DEF Connected
<1> HIDE DEF b
<1>7. CASE s = a
  BY <1>2, <1>7 DEF b
<1>8. CASE s # a /\ remote[s] = a
  <2>1. s \in Connected
    BY <1>3, <1>6, <1>8 DEF Connected
  <2>2. s = b
    BY <1>5, <1>6, <1>8, <2>1
  <2>3. a # None /\ dials[a] # dials[s]
    BY <1>2, <2>2, NoneAssumption
  <2> QED
    BY <1>2, <1>8, <2>2, <2>3 DEF b
<1>9. CASE s # a /\ remote[s] # a
  BY <1>1, <1>3, <1>6, <1>9 DEF Connected, LinkedShape
<1> QED
  BY <1>7, <1>8, <1>9

\* All of it together is inductive.
LEMMA ExchangeInductive == ExchangeInv /\ [Next]_vars
                           => RepoShape' /\ ExchangeShape' /\ LinkedShape'
<1> SUFFICES ASSUME ExchangeInv, [Next]_vars
             PROVE  RepoShape' /\ ExchangeShape' /\ LinkedShape'
  OBVIOUS
<1>0. TypeOK /\ EnteredAreRegistered /\ RepoShape /\ ExchangeShape /\ LinkedShape
  BY DEF ExchangeInv, PairInv
<1>a. stage \in [Sessions -> Stages] /\ \A t \in Sessions : repo[Node(t)] # None
                                            => repo[Node(t)] \in Sessions
  BY <1>0, SessionNode DEF TypeOK
<1> USE DEF credentials, creation, messages
<1>1. ASSUME NEW n \in Nodes, Connect(n)
      PROVE  RepoShape' /\ ExchangeShape' /\ LinkedShape'
  <2>1. Publish(n, None, "none", 0, stage) /\ UNCHANGED <<repo, conn, remote, held>>
    BY <1>1 DEF Connect
  <2>2. ExchangeShape'
    BY <1>0, <1>a, <2>1, PublishKeeps
  <2>3. PICK s \in Sessions :
            /\ stage[s] = "unborn"
            /\ \A t \in Sessions :
                  /\ stage'[t] = IF t = s THEN "published" ELSE stage[t]
                  /\ t # s => dials'[t] = dials[t]
    BY <1>0, <1>a, <2>1, PublishEffect
  <2>4. RepoShape'
    BY <1>0, <2>1, <2>3, RepoKeeps DEF Entered
  <2>5. LinkedShape'
    BY <1>0, <2>1, <2>3, LinkedKeeps DEF Connected
  <2> QED
    BY <2>2, <2>4, <2>5
<1>2. ASSUME NEW s \in Sessions, Create(s)
      PROVE  RepoShape' /\ ExchangeShape' /\ LinkedShape'
  <2>1. PICK next \in {"waiting", "over"}, to \in {"got", "done"} :
            Goto(s, "published", next) /\ Handed(s, to)
    BY <1>2 DEF Create, Register, Refused
  <2>2. UNCHANGED <<conn, remote, dials, answers, depth>>
    BY <1>2 DEF Create, Register, Refused
  <2>3. ExchangeShape'
    BY <1>0, <2>1, <2>2, HandedKeeps
  <2>4. stage[s] = "published"
        /\ \A t \in Sessions : stage'[t] = IF t = s THEN next ELSE stage[t]
    BY <1>a, <2>1 DEF Goto
  <2>5. LinkedShape'
    BY <1>0, <2>2, <2>4, LinkedKeeps DEF Connected
  <2>6. RepoShape'
    <3>1. CASE Refused(s)
      BY <1>0, <2>4, <3>1, RepoKeeps DEF Refused, Entered
    <3>2. CASE Register(s)
      <4>1. repo' = [repo EXCEPT ![Node(s)] = s] /\ stage'[s] = "waiting"
        BY <1>a, <3>2 DEF Register, Goto
      <4>2. \A n \in Nodes : repo'[n] = IF n = Node(s) THEN s ELSE repo[n]
        BY <1>0, <4>1 DEF TypeOK
      <4>3. s \in Entered' /\ \A t \in Entered : t \in Entered'
        BY <2>4, <4>1 DEF Entered
      <4> QED
        BY <1>0, <4>2, <4>3 DEF RepoShape
    <3> QED
      BY <1>2, <3>1, <3>2 DEF Create
  <2> QED
    BY <2>3, <2>5, <2>6
<1>3. ASSUME NEW r \in Sessions, Receive(r) \/ Lose(r)
      PROVE  RepoShape' /\ ExchangeShape' /\ LinkedShape'
  <2>0. Receiver(r) \in Nodes /\ depth[r] \in Nat
    BY <1>0, ReceiverNode DEF TypeOK
  <2>1. ASSUME UNCHANGED <<repo, stage, remote, dials>>
        PROVE  RepoShape' /\ LinkedShape'
    BY <1>0, <2>1 DEF RepoShape, LinkedShape, Connected, Entered
  <2>2. CASE Relay(r)
    <3> DEFINE h == repo[Receiver(r)]
    <3>1. msg[r] = "wire" /\ msg' = [msg EXCEPT ![r] = "got"]
          /\ held' = [held EXCEPT ![r] = h]
          /\ UNCHANGED <<repo, stage, conn, remote, dials, answers, depth>>
      BY <2>2 DEF Relay
    <3>2. h # None => Node(h) = Receiver(r)
      BY <1>0, <2>0 DEF RepoShape
    <3> HIDE DEF h
    <3> QED
      BY <1>0, <2>1, <3>1, <3>2, MessageKeeps
  <2>3. CASE Follow(r) \/ Lose(r)
    <3>1. PICK to \in {"following", "done"} :
              msg[r] = "wire" /\ msg' = [msg EXCEPT ![r] = to]
      BY <2>3 DEF Follow, Lose
    <3>2. held' = [held EXCEPT ![r] = held[r]]
      BY <1>0, <2>3 DEF Follow, Lose, TypeOK
    <3>3. UNCHANGED <<repo, stage, conn, remote, dials, answers, depth>>
      BY <2>3 DEF Follow, Lose
    <3>4. held[r] # None => Node(held[r]) = Receiver(r)
      BY <1>0 DEF ExchangeShape, HeldShape
    <3> QED
      BY <1>0, <2>1, <3>1, <3>2, <3>3, <3>4, MessageKeeps
  <2>4. CASE Answer(r)
    <3>1. Publish(Receiver(r), r, "leading", depth[r] + 1, stage)
          /\ msg[r] = "wire" /\ UNCHANGED <<repo, conn, remote, held>>
      BY <2>4 DEF Answer
    <3>2. ExchangeShape'
      BY <1>0, <1>a, <3>1, NoneAssumption, PublishKeeps
    <3>3. PICK s \in Sessions :
              /\ stage[s] = "unborn"
              /\ \A t \in Sessions :
                    /\ stage'[t] = IF t = s THEN "published" ELSE stage[t]
                    /\ t # s => dials'[t] = dials[t]
      BY <1>0, <1>a, <3>1, PublishEffect
    <3>4. RepoShape'
      BY <1>0, <3>1, <3>3, RepoKeeps DEF Entered
    <3>5. LinkedShape'
      BY <1>0, <3>1, <3>3, LinkedKeeps DEF Connected
    <3> QED
      BY <3>2, <3>4, <3>5
  <2>5. CASE Replace(r)
    <3> DEFINE h == held[r]
               others == [stage EXCEPT ![h] = "over"]
    <3>1. h \in Sessions /\ h # None /\ msg[r] = "got" /\ conn[h] # "nil"
      BY <1>0, <2>5, NoneAssumption DEF Replace, TypeOK
    <3>2. Publish(Receiver(r), r, "creating", depth[r] + 1, others)
          /\ UNCHANGED <<remote, held>> /\ Close(h) /\ Remove(h)
      BY <2>5 DEF Replace
    <3>3. others \in [Sessions -> Stages]
          /\ \A t \in Sessions : others[t] = IF t = h THEN "over" ELSE stage[t]
      BY <1>a, <3>1 DEF Stages
    <3>4. \A t \in Sessions : conn'[t] = "nil" <=> conn[t] = "nil"
      BY <1>0, <3>1, <3>2 DEF Close, TypeOK
    <3> HIDE DEF others, h
    <3>5. ExchangeShape'
      <4>1. \A t \in Sessions : others[t] = stage[t]
                                \/ (others[t] = "over" /\ conn[t] # "nil")
        BY <3>1, <3>3
      <4> QED
        BY <1>0, <3>1, <3>2, <3>3, <3>4, <4>1, NoneAssumption, PublishKeeps DEF h
    <3>6. PICK s \in Sessions :
              /\ stage[s] = "unborn"
              /\ \A t \in Sessions :
                    /\ stage'[t] = IF t = s THEN "published" ELSE others[t]
                    /\ t # s => dials'[t] = dials[t]
      BY <1>0, <3>2, <3>3, PublishEffect
    <3>7. RepoShape'
      <4>1. \A n \in Nodes : repo'[n] # None => repo'[n] = repo[n] /\ repo'[n] # h
        BY <1>0, <3>1, <3>2, SessionNode DEF Remove, TypeOK, RepoShape
      <4>2. \A t \in Entered : t # h => t \in Entered'
        BY <3>3, <3>6 DEF Entered
      <4> QED
        BY <1>0, <4>1, <4>2, RepoKeeps
    <3>8. LinkedShape'
      BY <1>0, <3>2, <3>3, <3>6, LinkedKeeps DEF Connected
    <3> QED
      BY <3>5, <3>7, <3>8
  <2>6. CASE SetRemote(r)
    <3>1. ExchangeShape'
      BY <1>0, <2>6, SetRemoteKeeps
    <3>2. RepoShape'
      BY <1>0, <2>6 DEF SetRemote, RepoShape, Entered
    <3>3. held[r] \in Sessions /\ held[r] \notin Connected
      BY <1>0, <2>6 DEF SetRemote, TypeOK, ExchangeShape, ConnShape, Connected
    <3>4. \A t \in Sessions : t # held[r] => remote'[t] = remote[t]
      BY <1>0, <2>6, <3>3 DEF SetRemote, TypeOK
    <3>5. UNCHANGED <<stage, dials>>
      BY <2>6 DEF SetRemote
    <3>6. LinkedShape'
      BY <1>0, <3>3, <3>4, <3>5, LinkedKeeps DEF Connected
    <3> QED
      BY <3>1, <3>2, <3>6
  <2> QED
    BY <1>3, <2>2, <2>3, <2>4, <2>5, <2>6 DEF Receive
<1>b. ASSUME UNCHANGED <<remote, dials, answers, depth, msg, held>>, ConnShape',
             \A t \in Sessions : conn[t] # "nil" => conn'[t] # "nil",
             NEW s \in Sessions, NEW to \in {"dialing", "dialed", "up", "over"},
             stage[s] \in {"waiting", "dialing", "dialed", "up"},
             \A t \in Sessions : stage'[t] = IF t = s THEN to ELSE stage[t]
      PROVE  ExchangeShape'
  BY <1>0, <1>b, QuietKeeps
<1>4. ASSUME NEW s \in Sessions, Establish(s)
      PROVE  RepoShape' /\ ExchangeShape' /\ LinkedShape'
  <2>1. UNCHANGED <<repo, remote, dials, answers, depth, msg, held>>
    BY <1>4 DEF Establish, TakeToken, Handshake, Finish
  <2>2. PICK to \in {"dialing", "dialed", "up"} :
            /\ stage[s] \in {"waiting", "dialing", "dialed"}
            /\ conn'[s] # "nil" <=> to \in {"dialed", "up"}
            /\ \A t \in Sessions : stage'[t] = IF t = s THEN to ELSE stage[t]
            /\ \A t \in Sessions : t # s => conn'[t] = conn[t]
            /\ conn[s] # "nil" => to # "dialing"
    <3>1. CASE TakeToken(s)
      BY <1>0, <3>1 DEF TakeToken, Goto, TypeOK, ExchangeShape, ConnShape
    <3>2. CASE Handshake(s)
      BY <1>0, <3>2 DEF Handshake, Goto, TypeOK
    <3>3. CASE Finish(s)
      BY <1>0, <3>3 DEF Finish, CanFinish, Goto, TypeOK
    <3> QED
      BY <1>4, <3>1, <3>2, <3>3 DEF Establish
  <2>3. ConnShape'
    BY <1>0, <2>2 DEF ExchangeShape, ConnShape
  <2>4. ExchangeShape'
    BY <1>b, <2>1, <2>2, <2>3
  <2>5. RepoShape'
    BY <1>0, <2>1, <2>2, RepoKeeps DEF Entered
  <2>6. LinkedShape'
    <3>1. CASE Handshake(s)
      BY <3>1, HandshakeLinks
    <3>2. CASE TakeToken(s) \/ Finish(s)
      <4>1. \A t \in Sessions : t \in Connected' => t \in Connected
        BY <1>a, <3>2 DEF TakeToken, Finish, Goto, Connected
      <4> QED
        BY <1>0, <2>1, <4>1, LinkedKeeps
    <3> QED
      BY <1>4, <3>1, <3>2 DEF Establish
  <2> QED
    BY <2>4, <2>5, <2>6
<1>5. ASSUME NEW s \in Sessions, ReceiveEnds(s) \/ Fail(s) \/ Breaks(s)
      PROVE  RepoShape' /\ ExchangeShape' /\ LinkedShape'
  <2>1. /\ UNCHANGED <<remote, dials, answers, depth, msg, held>> /\ Remove(s)
        /\ stage[s] \in {"dialing", "dialed", "up"}
        /\ \A t \in Sessions : stage'[t] = IF t = s THEN "over" ELSE stage[t]
    BY <1>0, <1>5 DEF ReceiveEnds, Fail, Breaks, Goto, TypeOK
  <2>2. \A t \in Sessions : conn'[t] = "nil" <=> conn[t] = "nil"
    BY <1>0, <1>5 DEF ReceiveEnds, Fail, Breaks, Close, TypeOK
  <2>3. ConnShape'
    BY <1>0, <2>1, <2>2 DEF ExchangeShape, ConnShape
  <2>4. ExchangeShape'
    BY <1>b, <2>1, <2>2, <2>3
  <2>5. \A n \in Nodes : repo'[n] # None => repo'[n] = repo[n] /\ repo'[n] # s
    BY <1>0, <2>1, SessionNode DEF Remove, TypeOK, RepoShape
  <2>6. RepoShape'
    <3>1. \A t \in Entered : t # s => t \in Entered'
      BY <2>1 DEF Entered
    <3> QED
      BY <1>0, <2>5, <3>1, RepoKeeps
  <2>7. LinkedShape'
    BY <1>0, <2>1, LinkedKeeps DEF Connected
  <2> QED
    BY <2>4, <2>6, <2>7
<1>6. ASSUME NEW s \in Sessions, PeerCloses(s)
      PROVE  RepoShape' /\ ExchangeShape' /\ LinkedShape'
  <2>1. UNCHANGED <<repo, stage, remote, dials, answers, depth, msg, held>>
    BY <1>6 DEF PeerCloses
  <2>2. \A t \in Sessions : conn'[t] = "nil" <=> conn[t] = "nil"
    BY <1>0, <1>6 DEF PeerCloses, Close, TypeOK
  <2>3. ConnShape'
    BY <1>0, <2>1, <2>2 DEF ExchangeShape, ConnShape
  <2>4. ExchangeShape'
    BY <1>0, <2>1, <2>2, <2>3, QuietKeeps
  <2>5. RepoShape' /\ LinkedShape'
    BY <1>0, <2>1 DEF RepoShape, LinkedShape, Connected, Entered
  <2> QED
    BY <2>4, <2>5
<1>7. CASE UNCHANGED vars
  <2>1. ExchangeShape'
    BY <1>0, <1>7, QuietKeeps DEF vars, ExchangeShape, ConnShape
  <2>2. RepoShape' /\ LinkedShape'
    BY <1>0, <1>7 DEF vars, RepoShape, LinkedShape, Connected, Entered
  <2> QED
    BY <2>1, <2>2
<1> QED
  BY <1>1, <1>2, <1>3, <1>4, <1>5, <1>6, <1>7 DEF Next, End

LEMMA ExchangeInvariant == Spec => []ExchangeInv
<1>1. Init => EnteredAreRegistered
  BY DEF Init, EnteredAreRegistered, Entered
<1>2. Init => RepoShape /\ ExchangeShape /\ LinkedShape
  BY ExchangeInit
<1>3. TypeOK /\ EnteredAreRegistered /\ [Next]_vars => EnteredAreRegistered'
  BY EnteredInductive DEF PairInv
<1>4. /\ TypeOK /\ EnteredAreRegistered /\ RepoShape /\ ExchangeShape /\ LinkedShape
      /\ [Next]_vars
      => RepoShape' /\ ExchangeShape' /\ LinkedShape'
  BY ExchangeInductive DEF ExchangeInv, PairInv
<1>5. ExchangeInv <=> /\ TypeOK /\ EnteredAreRegistered /\ RepoShape
                      /\ ExchangeShape /\ LinkedShape
  BY DEF ExchangeInv, PairInv
<1> QED
  BY <1>1, <1>2, <1>3, <1>4, <1>5, TypeCorrect, PTL DEF Spec

\* Whatever crosses, comes again or is replaced in the middle of a handshake:
\* two sessions that are connected are each other's, one of them by dialling
\* (SetRemoteCredentials and the test of Conn in receiveConnects, Dial and
\* Accept in establishConnection, helpers.go 365-530).
THEOREM EndsMeanEachOther == Spec => []EndsAgree
<1>1. ExchangeInv => EndsAgree
  <2> SUFFICES ASSUME ExchangeInv, NEW s \in Sessions,
                      stage[s] \in {"dialed", "up"},
                      stage[remote[s]] \in {"dialed", "up"}
               PROVE  remote[remote[s]] = s /\ dials[s] # dials[remote[s]]
    BY DEF EndsAgree
  <2>1. TypeOK /\ LinkedShape
    BY DEF ExchangeInv, PairInv
  <2>2. s \in Connected
    BY DEF Connected
  <2>3. remote[s] \in Sessions
    BY <2>1, <2>2 DEF LinkedShape, TypeOK
  <2> QED
    BY <2>1, <2>2, <2>3 DEF LinkedShape, Connected
<1> QED
  BY <1>1, ExchangeInvariant, PTL
=============================================================================
