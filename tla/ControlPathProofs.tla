-------------------------- MODULE ControlPathProofs --------------------------
(***************************************************************************)
(* Proofs about ControlPath: its type invariant, the order of commands,    *)
(* and that the event loop task can subscribe as long as no logs share its *)
(* request channel, for any capacities and numbers of messages, HTTP       *)
(* requests and broken connections.                                        *)
(***************************************************************************)
EXTENDS ControlPath, TLAPS

-----------------------------------------------------------------------------
(* The channels as sequences.                                              *)

\* What is left of a channel after its oldest element is taken.
LEMMA Taken ==
  ASSUME NEW S, NEW s \in Seq(S), s # <<>>
  PROVE  /\ Head(s) \in S /\ Head(s) \in Elements(s)
         /\ Tail(s) \in Seq(S) /\ Len(Tail(s)) = Len(s) - 1
         /\ Elements(Tail(s)) \subseteq Elements(s)
<1>1. /\ Len(s) \in Nat \ {0} /\ Head(s) = s[1] /\ 1 \in DOMAIN s
      /\ DOMAIN s = 1 .. Len(s)
  OBVIOUS
<1>2. /\ Tail(s) \in Seq(S) /\ Len(Tail(s)) = Len(s) - 1
      /\ DOMAIN Tail(s) = 1 .. Len(s) - 1
      /\ \A i \in 1 .. Len(s) - 1 : Tail(s)[i] = s[i + 1] /\ i + 1 \in DOMAIN s
  BY <1>1
<1>3. Elements(Tail(s)) \subseteq Elements(s)
  BY <1>2 DEF Elements
<1>4. QED
  BY <1>1, <1>2, <1>3 DEF Elements

\* What a channel holds after a send.
LEMMA Sent ==
  ASSUME NEW S, NEW s \in Seq(S), NEW e \in S
  PROVE  /\ Append(s, e) \in Seq(S) /\ Len(Append(s, e)) = Len(s) + 1
         /\ Elements(Append(s, e)) = Elements(s) \cup {e}
<1>1. /\ Append(s, e) \in Seq(S) /\ Len(s) \in Nat
      /\ DOMAIN s = 1 .. Len(s) /\ DOMAIN Append(s, e) = 1 .. Len(s) + 1
      /\ \A i \in 1 .. Len(s) : Append(s, e)[i] = s[i]
      /\ Append(s, e)[Len(s) + 1] = e
  OBVIOUS
<1>2. \A i \in 1 .. Len(s) + 1 : i \in 1 .. Len(s) \/ i = Len(s) + 1
  BY <1>1
<1>3. 1 .. Len(s) \subseteq 1 .. Len(s) + 1 /\ Len(s) + 1 \in 1 .. Len(s) + 1
  BY <1>1
<1>4. Elements(Append(s, e)) = Elements(s) \cup {e}
  BY <1>1, <1>2, <1>3, Zenon DEF Elements
<1>5. QED
  BY <1>1, <1>4

\* A channel of a set is one of a larger set.
LEMMA Widened ==
  ASSUME NEW S, NEW T, S \subseteq T, NEW s \in Seq(S)
  PROVE  s \in Seq(T)
OBVIOUS

\* What is in a channel comes after what was taken from it.
LEMMA AscendingTaken ==
  ASSUME NEW S, NEW s \in Seq(S), s # <<>>, Ascending(s)
  PROVE  Ascending(Tail(s)) /\ Later(Elements(Tail(s)), {Head(s)})
<1>1. /\ Len(s) \in Nat \ {0} /\ Head(s) = s[1] /\ DOMAIN s = 1 .. Len(s)
      /\ DOMAIN Tail(s) = 1 .. Len(s) - 1
      /\ \A i \in 1 .. Len(s) - 1 : Tail(s)[i] = s[i + 1]
  OBVIOUS
<1>2. Ascending(Tail(s))
  <2> SUFFICES ASSUME NEW i \in DOMAIN Tail(s), NEW j \in DOMAIN Tail(s), i < j,
                      Tail(s)[i] \in Messages, Tail(s)[j] \in Messages
               PROVE  Tail(s)[i] < Tail(s)[j]
    BY DEF Ascending
  <2>1. i + 1 \in DOMAIN s /\ j + 1 \in DOMAIN s /\ i + 1 < j + 1
    BY <1>1
  <2>2. Tail(s)[i] = s[i + 1] /\ Tail(s)[j] = s[j + 1]
    BY <1>1
  <2>3. QED
    BY <2>1, <2>2 DEF Ascending
<1>3. Later(Elements(Tail(s)), {Head(s)})
  <2> SUFFICES ASSUME NEW i \in DOMAIN Tail(s), Tail(s)[i] \in Messages,
                      Head(s) \in Messages
               PROVE  Head(s) < Tail(s)[i]
    BY DEF Later, Elements
  <2>1. i + 1 \in DOMAIN s /\ 1 \in DOMAIN s /\ 1 < i + 1
    BY <1>1
  <2>2. Tail(s)[i] = s[i + 1]
    BY <1>1
  <2>3. QED
    BY <1>1, <2>1, <2>2 DEF Ascending
<1>4. QED
  BY <1>2, <1>3

\* A send keeps a channel in order if what it sends is later than all of it.
LEMMA AscendingSent ==
  ASSUME NEW S, NEW s \in Seq(S), NEW e, Ascending(s), Later({e}, Elements(s))
  PROVE  Ascending(Append(s, e))
<1>1. /\ Len(s) \in Nat /\ DOMAIN s = 1 .. Len(s)
      /\ DOMAIN Append(s, e) = 1 .. Len(s) + 1
      /\ \A i \in 1 .. Len(s) : Append(s, e)[i] = s[i]
      /\ Append(s, e)[Len(s) + 1] = e
  OBVIOUS
<1> SUFFICES ASSUME NEW i \in 1 .. Len(s) + 1, NEW j \in 1 .. Len(s) + 1, i < j,
                    Append(s, e)[i] \in Messages, Append(s, e)[j] \in Messages
             PROVE  Append(s, e)[i] < Append(s, e)[j]
  BY <1>1 DEF Ascending
<1>2. i \in DOMAIN s /\ Append(s, e)[i] = s[i]
  BY <1>1
<1>3. CASE j \in DOMAIN s
  BY <1>1, <1>2, <1>3 DEF Ascending
<1>4. CASE j = Len(s) + 1
  <2>1. s[i] \in Elements(s) /\ Append(s, e)[j] = e
    BY <1>1, <1>2, <1>4 DEF Elements
  <2>2. QED
    BY <1>2, <2>1 DEF Later
<1>5. QED
  BY <1>1, <1>3, <1>4

\* Nothing is in an empty channel.
LEMMA NothingIn == Elements(<<>>) = {} /\ Ascending(<<>>)
BY DEF Elements, Ascending

-----------------------------------------------------------------------------
(* Type correctness.                                                       *)

\* Flags stay flags.
LEMMA FlagsInit == Init => FlagsOK
BY DEF Init, FlagsOK

LEMMA FlagsStep == ASSUME FlagsOK, [Next]_vars PROVE FlagsOK'
<1> USE DEF FlagsOK, brokerVars, mqttVars, commandVars
<1>1. CASE Publish \/ Break \/ BrokerReturns \/ Log \/ PublishLog
  BY <1>1 DEF Publish, Break, BrokerReturns, Log, PublishLog
<1>2. CASE EventLoop
  BY <1>2 DEF EventLoop, StartEventLoop, Poll, PollConnects, PollCannotConnect,
              PollSends, PollReceives, PollFails, Wake, Subscribe, Forward
<1>3. CASE CommandLoop \/ \E c \in Clients : Http(c)
  BY <1>3 DEF CommandLoop, TakeCommand, RunCommand, SpawnTask,
              Http, HttpRequest, HttpSend, HttpTimeout, TaskEnds
<1>4. CASE UNCHANGED vars
  BY <1>4 DEF vars
<1>5. QED
  BY <1>1, <1>2, <1>3, <1>4 DEF Next, Environment

\* The other parts of the type invariant.
ChannelsOK == BrokerOK /\ EventLoopOK /\ RequestsOK /\ CommandsOK /\ HttpOK

LEMMA TypeInit == Init => ChannelsOK
<1> SUFFICES ASSUME Init PROVE ChannelsOK
  OBVIOUS
<1> USE DEF Init, Nobody
<1>1. BrokerOK
  BY BoundsAssumption DEF BrokerOK
<1>2. EventLoopOK
  BY DEF EventLoopOK
<1>3. RequestsOK
  BY CapacityAssumption DEF RequestsOK
<1>4. CommandsOK
  BY CapacityAssumption DEF CommandsOK
<1>5. HttpOK
  BY DEF HttpOK
<1>6. QED
  BY <1>1, <1>2, <1>3, <1>4, <1>5 DEF ChannelsOK

\* A step that leaves the variables of a part alone keeps the part.
LEMMA BrokerKept ==
  ASSUME BrokerOK, UNCHANGED <<published, breaks, inbox>> PROVE BrokerOK'
BY DEF BrokerOK

LEMMA EventLoopKept ==
  ASSUME EventLoopOK, UNCHANGED <<eventLoop, held, published>> PROVE EventLoopOK'
BY DEF EventLoopOK

LEMMA RequestsKept ==
  ASSUME RequestsOK, UNCHANGED <<requests, logs>> PROVE RequestsOK'
BY DEF RequestsOK

LEMMA CommandsKept ==
  ASSUME CommandsOK, UNCHANGED <<commands, executing, executed, published>>
  PROVE  CommandsOK'
BY DEF CommandsOK

LEMMA HttpKept == ASSUME HttpOK, UNCHANGED <<tasks, http>> PROVE HttpOK'
BY DEF HttpOK

LEMMA TypePublish == ASSUME ChannelsOK, Publish PROVE ChannelsOK'
<1> USE DEF Publish, mqttVars, commandVars
<1>1. /\ published \in Nat /\ published' = published + 1
      /\ published' \in 1 .. MaxMessages
  BY BoundsAssumption DEF ChannelsOK, BrokerOK
<1>2. /\ 1 .. published \subseteq 1 .. published'
      /\ 0 .. published \subseteq 0 .. published'
  BY <1>1
<1>3. inbox \in Seq(1 .. published)
  BY DEF ChannelsOK, BrokerOK
<1>4. inbox \in Seq(1 .. published')
  BY <1>2, <1>3, Widened, Zenon
<1>5. BrokerOK'
  <2>1. Append(inbox, published') \in Seq(1 .. published')
    BY <1>1, <1>4, Sent
  <2>2. inbox' \in Seq(1 .. published')
    BY <1>4, <2>1
  <2>3. breaks' \in 0 .. MaxBreaks
    BY DEF ChannelsOK, BrokerOK
  <2>4. QED
    BY <1>1, <2>2, <2>3 DEF BrokerOK
<1>6. EventLoopOK'
  BY <1>2 DEF ChannelsOK, EventLoopOK
<1>7. CommandsOK'
  <2> DEFINE Now == 1 .. published \cup Clients
             Then == 1 .. published' \cup Clients
  <2>1. Now \subseteq Then
    BY <1>2
  <2>2. commands \in Seq(Now)
    BY DEF ChannelsOK, CommandsOK
  <2>3. commands \in Seq(Then)
    <3> HIDE DEF Now, Then
    <3>1. QED
      BY <2>1, <2>2, Widened
  <2>4. QED
    BY <1>2, <2>3 DEF ChannelsOK, CommandsOK
<1>8. QED
  BY <1>5, <1>6, <1>7, RequestsKept, HttpKept DEF ChannelsOK

LEMMA TypeEnvironment ==
  ASSUME ChannelsOK, Break \/ BrokerReturns \/ Log \/ PublishLog
  PROVE  ChannelsOK'
<1> USE DEF brokerVars, mqttVars, commandVars
<1>1. BrokerOK'
  <2>1. CASE Break
    BY <2>1, BoundsAssumption DEF Break, ChannelsOK, BrokerOK
  <2>2. CASE BrokerReturns \/ Log \/ PublishLog
    BY <2>2, BrokerKept DEF BrokerReturns, Log, PublishLog, ChannelsOK
  <2>3. QED
    BY <2>1, <2>2
<1>2. RequestsOK'
  <2>1. CASE Break \/ BrokerReturns
    BY <2>1, RequestsKept DEF Break, BrokerReturns, ChannelsOK
  <2>2. CASE Log
    BY <2>2, CapacityAssumption DEF Log, ChannelsOK, RequestsOK
  <2>3. CASE PublishLog
    <3>1. /\ requests' \in Seq({"subscribe", "publish"})
          /\ Len(requests') = Len(requests) + 1
      BY <2>3, Sent DEF PublishLog, ChannelsOK, RequestsOK
    <3>2. Len(requests') <= RequestCap
      BY <2>3, <3>1, CapacityAssumption DEF PublishLog, HasRoom, ChannelsOK, RequestsOK
    <3>3. logs' \in 0 .. LogCap
      BY <2>3, CapacityAssumption DEF PublishLog, ChannelsOK, RequestsOK
    <3>4. QED
      BY <3>1, <3>2, <3>3 DEF RequestsOK
  <2>4. QED
    BY <2>1, <2>2, <2>3
<1>3. QED
  BY <1>1, <1>2, EventLoopKept, CommandsKept, HttpKept
     DEF Break, BrokerReturns, Log, PublishLog, ChannelsOK

LEMMA TypeEventLoop == ASSUME ChannelsOK, EventLoop PROVE ChannelsOK'
<1> USE DEF brokerVars, mqttVars, commandVars
<1>1. CASE StartEventLoop \/ PollCannotConnect \/ Wake
  <2>1. EventLoopOK'
    BY <1>1 DEF StartEventLoop, PollCannotConnect, Wake, ChannelsOK, EventLoopOK
  <2>2. QED
    BY <1>1, <2>1, BrokerKept, RequestsKept, CommandsKept, HttpKept
       DEF StartEventLoop, PollCannotConnect, Wake, ChannelsOK
<1>2. CASE PollConnects
  <2>1. EventLoopOK'
    BY <1>2 DEF PollConnects, OnConnAck, ChannelsOK, EventLoopOK
  <2>2. BrokerOK'
    BY <1>2 DEF PollConnects, KeptBySession, ChannelsOK, BrokerOK
  <2>3. QED
    BY <1>2, <2>1, <2>2, RequestsKept, CommandsKept, HttpKept DEF PollConnects, ChannelsOK
<1>3. CASE PollSends
  <2>1. /\ requests' \in Seq({"subscribe", "publish"})
        /\ Len(requests') = Len(requests) - 1
    BY <1>3, Taken DEF PollSends, ChannelsOK, RequestsOK
  <2>2. RequestsOK'
    BY <1>3, <2>1, CapacityAssumption DEF PollSends, ChannelsOK, RequestsOK
  <2>3. QED
    BY <1>3, <2>2, BrokerKept, EventLoopKept, CommandsKept, HttpKept
       DEF PollSends, ChannelsOK
<1>4. CASE PollReceives
  <2>1. Head(inbox) \in 1 .. published /\ Tail(inbox) \in Seq(1 .. published)
    BY <1>4, Taken DEF PollReceives, ChannelsOK, BrokerOK
  <2>2. BrokerOK'
    BY <1>4, <2>1 DEF PollReceives, ChannelsOK, BrokerOK
  <2>3. Head(inbox) \in 0 .. published /\ Head(inbox) # Nobody
    BY <2>1 DEF ChannelsOK, BrokerOK, Nobody
  <2>4. EventLoopOK'
    BY <1>4, <2>3 DEF PollReceives, EventLoopOK
  <2>5. QED
    BY <1>4, <2>2, <2>4, RequestsKept, CommandsKept, HttpKept DEF PollReceives, ChannelsOK
<1>5. CASE PollFails
  <2>1. RequestsOK'
    BY <1>5, CapacityAssumption DEF PollFails, AfterError, ChannelsOK, RequestsOK
  <2>2. BrokerOK'
    BY <1>5 DEF PollFails, ChannelsOK, BrokerOK
  <2>3. EventLoopOK'
    BY <1>5 DEF PollFails, ChannelsOK, EventLoopOK
  <2>4. QED
    BY <1>5, <2>1, <2>2, <2>3, CommandsKept, HttpKept DEF PollFails, ChannelsOK
<1>6. CASE Subscribe
  <2>1. /\ requests' \in Seq({"subscribe", "publish"})
        /\ Len(requests') = Len(requests) + 1
    BY <1>6, Sent DEF Subscribe, ChannelsOK, RequestsOK
  <2>2. RequestsOK'
    BY <1>6, <2>1, CapacityAssumption DEF Subscribe, HasRoom, ChannelsOK, RequestsOK
  <2>3. EventLoopOK'
    BY <1>6 DEF Subscribe, ChannelsOK, EventLoopOK
  <2>4. QED
    BY <1>6, <2>2, <2>3, BrokerKept, CommandsKept, HttpKept DEF Subscribe, ChannelsOK
<1>7. CASE Forward
  <2>1. held \in 0 .. published /\ held # 0 /\ 0 \in 0 .. published
    BY <1>7 DEF Forward, ChannelsOK, BrokerOK, EventLoopOK, Nobody
  <2>2. held \in 1 .. published \cup Clients
    BY <2>1 DEF ChannelsOK, BrokerOK
  <2>3. /\ commands' \in Seq(1 .. published \cup Clients)
        /\ Len(commands') = Len(commands) + 1
    BY <1>7, <2>2, Sent DEF Forward, ChannelsOK, CommandsOK
  <2>4. Len(commands') <= CommandCap
    BY <1>7, <2>3, CapacityAssumption DEF Forward, HasRoom, ChannelsOK, CommandsOK
  <2>5. CommandsOK'
    BY <1>7, <2>3, <2>4 DEF Forward, ChannelsOK, CommandsOK
  <2>6. EventLoopOK'
    BY <1>7, <2>1 DEF Forward, EventLoopOK, Nobody
  <2>7. QED
    BY <1>7, <2>5, <2>6, BrokerKept, RequestsKept, HttpKept DEF Forward, ChannelsOK
<1>8. QED
  BY <1>1, <1>2, <1>3, <1>4, <1>5, <1>6, <1>7 DEF EventLoop, Poll

LEMMA TypeHttp == ASSUME ChannelsOK, NEW c \in Clients, Http(c) PROVE ChannelsOK'
<1> USE DEF brokerVars, mqttVars
<1>1. HttpOK'
  BY DEF Http, HttpRequest, HttpSend, HttpTimeout, TaskEnds, Answered, ChannelsOK, HttpOK
<1>2. CommandsOK'
  <2>1. CASE HttpSend(c)
    <3>1. /\ commands' \in Seq(1 .. published \cup Clients)
          /\ Len(commands') = Len(commands) + 1
      BY <2>1, Sent DEF HttpSend, ChannelsOK, CommandsOK
    <3>2. QED
      BY <2>1, <3>1, CapacityAssumption DEF HttpSend, HasRoom, ChannelsOK, CommandsOK
  <2>2. CASE HttpRequest(c) \/ HttpTimeout(c) \/ TaskEnds(c)
    BY <2>2, CommandsKept DEF HttpRequest, HttpTimeout, TaskEnds, ChannelsOK
  <2>3. QED
    BY <2>1, <2>2 DEF Http
<1>3. QED
  BY <1>1, <1>2, BrokerKept, EventLoopKept, RequestsKept
     DEF Http, HttpRequest, HttpSend, HttpTimeout, TaskEnds, ChannelsOK

LEMMA TypeCommandLoop == ASSUME ChannelsOK, CommandLoop PROVE ChannelsOK'
<1> USE DEF brokerVars, mqttVars
<1>1. HttpOK'
  BY DEF CommandLoop, TakeCommand, RunCommand, SpawnTask, Answered, ChannelsOK, HttpOK
<1>2. CommandsOK'
  <2>1. CASE TakeCommand
    <3>1. /\ executing' \in 1 .. published \cup Clients
          /\ commands' \in Seq(1 .. published \cup Clients)
          /\ Len(commands') = Len(commands) - 1
      BY <2>1, Taken DEF TakeCommand, ChannelsOK, CommandsOK
    <3>2. 1 .. published \subseteq 0 .. published
      BY DEF ChannelsOK, BrokerOK
    <3>3. QED
      BY <2>1, <3>1, <3>2, CapacityAssumption DEF TakeCommand, ChannelsOK, CommandsOK
  <2>2. CASE RunCommand \/ SpawnTask
    <3>1. executing \in 0 .. published \cup Clients /\ executed \subseteq 1 .. published
      BY DEF ChannelsOK, CommandsOK
    <3>2. {executing} \cap Messages \subseteq 1 .. published
      BY <3>1, ClientsAssumption DEF Messages, Nobody, ChannelsOK, BrokerOK
    <3>3. executed' \subseteq 1 .. published /\ executing' = 0
      BY <2>2, <3>1, <3>2 DEF RunCommand, SpawnTask, Ran, Nobody
    <3>4. 0 \in 0 .. published
      BY DEF ChannelsOK, BrokerOK
    <3>5. QED
      BY <2>2, <3>3, <3>4 DEF RunCommand, SpawnTask, ChannelsOK, CommandsOK
  <2>3. QED
    BY <2>1, <2>2 DEF CommandLoop
<1>3. QED
  BY <1>1, <1>2, BrokerKept, EventLoopKept, RequestsKept
     DEF CommandLoop, TakeCommand, RunCommand, SpawnTask, ChannelsOK

LEMMA TypeStep == ASSUME ChannelsOK, [Next]_vars PROVE ChannelsOK'
<1>1. CASE Next
  BY <1>1, TypePublish, TypeEnvironment, TypeEventLoop, TypeHttp, TypeCommandLoop
     DEF Next, Environment
<1>2. CASE UNCHANGED vars
  BY <1>2, BrokerKept, EventLoopKept, RequestsKept, CommandsKept, HttpKept
     DEF ChannelsOK, vars, brokerVars, mqttVars, commandVars
<1>3. QED
  BY <1>1, <1>2

\* Every channel stays within its capacity and every request, message and
\* command is in a state the code gives it, for any capacities.
THEOREM TypeCorrect == Spec => []TypeOK
<1>1. Init => TypeOK
  BY FlagsInit, TypeInit DEF TypeOK, ChannelsOK
<1>2. TypeOK /\ [Next]_vars => TypeOK'
  BY FlagsStep, TypeStep DEF TypeOK, ChannelsOK
<1>3. QED
  BY <1>1, <1>2, PTL DEF Spec

-----------------------------------------------------------------------------
(* The order of messages.                                                  *)

LEMMA OrderInit == Init => InOrder
<1>1. \A S : Later(S, {}) /\ Later({}, S) /\ Later(S, {Nobody}) /\ Later({Nobody}, S)
  BY DEF Later, Messages
<1>2. QED
  BY <1>1, NothingIn DEF Init, InOrder, Later, Messages

\* Publishing appends the latest message to what is on its way.
LEMMA OrderPublish == ASSUME ChannelsOK, InOrder, Publish PROVE InOrder'
<1> DEFINE Ahead == executed \cup {executing} \cup Elements(commands) \cup {held}
<1>1. /\ published' = published + 1 /\ published \in Nat
      /\ inbox \in Seq(1 .. published) /\ inbox \in Seq(Nat)
  BY DEF ChannelsOK, BrokerOK, Publish
<1>2. Elements(inbox) \subseteq 1 .. published
  BY <1>1 DEF Elements
<1>3. Ahead \cap Messages \subseteq 1 .. published
  <2>1. Elements(commands) \subseteq 1 .. published \cup Clients
    BY DEF Elements, ChannelsOK, CommandsOK
  <2>2. {held, executing} \subseteq 0 .. published \cup Clients
    BY DEF ChannelsOK, EventLoopOK, CommandsOK
  <2>3. executed \subseteq 1 .. published
    BY DEF ChannelsOK, CommandsOK
  <2>4. QED
    BY <1>1, <2>1, <2>2, <2>3, ClientsAssumption DEF Messages, Nobody
<1>4. CASE inbox' = Append(inbox, published')
  <2>1. published' \in Nat
    BY <1>1
  <2>2. Elements(inbox') = Elements(inbox) \cup {published'}
    BY <1>1, <1>4, <2>1, Sent
  <2>3. Ascending(inbox')
    <3>1. Later({published'}, Elements(inbox))
      BY <1>1, <1>2 DEF Later
    <3>2. QED
      BY <1>1, <1>4, <3>1, AscendingSent DEF InOrder
  <2>4. Later({published'}, Ahead)
    <3> HIDE DEF Ahead
    <3>1. QED
      BY <1>1, <1>3 DEF Later
  <2>5. Later(Elements(inbox'), Ahead)
    <3>1. Later(Elements(inbox), Ahead)
      BY DEF InOrder
    <3> HIDE DEF Ahead
    <3>2. QED
      BY <2>2, <2>4, <3>1, Zenon DEF Later
  <2>6. QED
    BY <2>3, <2>5 DEF Publish, InOrder, mqttVars, commandVars
<1>5. CASE inbox' = inbox
  BY <1>5 DEF Publish, InOrder, mqttVars, commandVars
<1>6. QED
  BY <1>4, <1>5 DEF Publish

\* The inbox is emptied when the connection breaks and when a new one is made.
LEMMA OrderConnection ==
  ASSUME InOrder, PollConnects \/ PollFails PROVE InOrder'
<1>1. inbox' = <<>> /\ UNCHANGED <<commands, executing, executed, held>>
  BY DEF PollConnects, PollFails, KeptBySession, commandVars
<1>2. Ascending(inbox') /\ Elements(inbox') = {}
  BY <1>1, NothingIn
<1>3. \A S : Later(Elements(inbox'), S)
  BY <1>2 DEF Later
<1>4. QED
  BY <1>1, <1>2, <1>3, Zenon DEF InOrder

LEMMA OrderPollReceives == ASSUME ChannelsOK, InOrder, PollReceives PROVE InOrder'
<1> DEFINE Ahead == executed \cup {executing} \cup Elements(commands)
<1>1. /\ inbox \in Seq(1 .. published) /\ inbox # <<>>
      /\ held' = Head(inbox) /\ inbox' = Tail(inbox)
      /\ UNCHANGED <<commands, executing, executed>>
  BY DEF PollReceives, ChannelsOK, BrokerOK, commandVars
<1>2. /\ Head(inbox) \in Elements(inbox)
      /\ Elements(inbox') \subseteq Elements(inbox)
  BY <1>1, Taken
<1>3. Ascending(inbox') /\ Later(Elements(inbox'), {held'})
  BY <1>1, AscendingTaken DEF InOrder
<1>4. Later(Elements(inbox), Ahead)
  BY DEF InOrder, Later
<1>5. Later({held'}, Ahead) /\ Later(Elements(inbox'), Ahead \cup {held'})
  <2> HIDE DEF Ahead
  <2>1. QED
    BY <1>1, <1>2, <1>3, <1>4 DEF Later
<1>6. QED
  BY <1>1, <1>3, <1>5 DEF InOrder

LEMMA OrderForward == ASSUME ChannelsOK, InOrder, Forward PROVE InOrder'
<1> DEFINE Ahead == executed \cup {executing}
<1>1. /\ commands \in Seq(Elements(commands) \cup {held})
      /\ commands' = Append(commands, held) /\ held' = Nobody
      /\ UNCHANGED <<inbox, executing, executed>>
  <2>1. commands \in Seq(1 .. published \cup Clients)
    BY DEF ChannelsOK, CommandsOK
  <2>2. commands \in Seq(Elements(commands) \cup {held})
    BY <2>1 DEF Elements
  <2>3. QED
    BY <2>2 DEF Forward, brokerVars
<1>2. Elements(commands') = Elements(commands) \cup {held}
  BY <1>1, Sent
<1>3. /\ Later({held}, Ahead) /\ Later(Elements(commands), Ahead)
      /\ Later({held}, Elements(commands))
  BY DEF InOrder, Later
<1>4. Ascending(commands')
  BY <1>1, <1>3, AscendingSent DEF InOrder
<1>5. Later(Elements(commands'), Ahead)
  <2> HIDE DEF Ahead
  <2>1. QED
    BY <1>2, <1>3, Zenon DEF Later
<1>6. Later({held'}, Ahead \cup Elements(commands'))
  BY <1>1 DEF Later, Messages
<1>7. Later(Elements(inbox), Ahead \cup Elements(commands') \cup {held'})
  <2>1. Later(Elements(inbox), Ahead \cup Elements(commands) \cup {held})
    BY DEF InOrder
  <2>2. held' \notin Messages
    BY <1>1 DEF Messages
  <2> HIDE DEF Ahead
  <2>3. QED
    BY <1>2, <2>1, <2>2, Zenon DEF Later
<1>8. QED
  BY <1>1, <1>4, <1>5, <1>6, <1>7 DEF InOrder

\* A command of an HTTP client is no message.
LEMMA OrderHttpSend ==
  ASSUME ChannelsOK, InOrder, NEW c \in Clients, HttpSend(c) PROVE InOrder'
<1>1. /\ commands \in Seq(Elements(commands) \cup {c})
      /\ commands' = Append(commands, c)
      /\ UNCHANGED <<inbox, held, executing, executed>>
  <2>1. commands \in Seq(1 .. published \cup Clients)
    BY DEF ChannelsOK, CommandsOK
  <2>2. commands \in Seq(Elements(commands) \cup {c})
    BY <2>1 DEF Elements
  <2>3. QED
    BY <2>2 DEF HttpSend, brokerVars, mqttVars
<1>2. c \notin Messages
  BY ClientsAssumption DEF Messages
<1>3. /\ Elements(commands') = Elements(commands) \cup {c}
      /\ Ascending(commands')
  <2>1. Later({c}, Elements(commands))
    BY <1>2 DEF Later
  <2>2. QED
    BY <1>1, <2>1, Sent, AscendingSent DEF InOrder
<1>4. Elements(commands') \cap Messages = Elements(commands) \cap Messages
  BY <1>2, <1>3
<1>5. QED
  BY <1>1, <1>3, <1>4 DEF InOrder, Later

LEMMA OrderTakeCommand == ASSUME ChannelsOK, InOrder, TakeCommand PROVE InOrder'
<1>1. /\ commands \in Seq(1 .. published \cup Clients) /\ commands # <<>>
      /\ executing = Nobody
      /\ executing' = Head(commands) /\ commands' = Tail(commands)
      /\ UNCHANGED <<inbox, held, executed>>
  BY DEF TakeCommand, ChannelsOK, CommandsOK, brokerVars, mqttVars
<1>2. /\ executing' \in Elements(commands)
      /\ Elements(commands') \subseteq Elements(commands)
  BY <1>1, Taken
<1>3. Ascending(commands') /\ Later(Elements(commands'), {executing'})
  BY <1>1, AscendingTaken DEF InOrder
<1>4. Later(Elements(commands), executed)
  BY DEF InOrder, Later
<1>5. Later({executing'}, executed) /\ Later(Elements(commands'), executed \cup {executing'})
  BY <1>2, <1>3, <1>4 DEF Later
<1>6. Later({held}, executed \cup {executing'} \cup Elements(commands'))
  <2>1. Later({held}, executed \cup Elements(commands))
    BY DEF InOrder, Later
  <2>2. QED
    BY <1>2, <2>1, Zenon DEF Later
<1>7. Later(Elements(inbox), executed \cup {executing'} \cup Elements(commands') \cup {held})
  <2>1. Later(Elements(inbox), executed \cup Elements(commands) \cup {held})
    BY DEF InOrder, Later
  <2>2. QED
    BY <1>2, <2>1, Zenon DEF Later
<1>8. QED
  BY <1>1, <1>3, <1>5, <1>6, <1>7 DEF InOrder

LEMMA OrderRan ==
  ASSUME InOrder, Ran, UNCHANGED <<inbox, held, commands>> PROVE InOrder'
<1>1. (executed' \cup {executing'}) \cap Messages = (executed \cup {executing}) \cap Messages
  BY DEF Ran, Messages
<1>2. Later({executing'}, executed')
  BY DEF Ran, Later, Messages
<1>3. \A S, T : Later(S, executed \cup {executing} \cup T)
                  => Later(S, executed' \cup {executing'} \cup T)
  BY <1>1, Zenon DEF Later
<1>4. \A S : Later(S, executed \cup {executing}) => Later(S, executed' \cup {executing'})
  BY <1>1, Zenon DEF Later
<1>5. \A S, T, U : Later(S, executed \cup {executing} \cup T \cup U)
                  => Later(S, executed' \cup {executing'} \cup T \cup U)
  BY <1>1, Zenon DEF Later
<1>6. QED
  BY <1>2, <1>3, <1>4, <1>5, Zenon DEF InOrder

LEMMA OrderStep == ASSUME ChannelsOK, InOrder, [Next]_vars PROVE InOrder'
<1> USE DEF brokerVars, mqttVars, commandVars
<1>1. ASSUME UNCHANGED <<inbox, held, commands, executing, executed>>
      PROVE  InOrder'
  BY <1>1 DEF InOrder
<1>2. CASE Break \/ BrokerReturns \/ Log \/ PublishLog
  BY <1>1, <1>2 DEF Break, BrokerReturns, Log, PublishLog
<1>3. CASE StartEventLoop \/ PollCannotConnect \/ PollSends \/ Wake \/ Subscribe
  BY <1>1, <1>3 DEF StartEventLoop, PollCannotConnect, PollSends, Wake, Subscribe
<1>4. CASE \E c \in Clients : HttpRequest(c) \/ HttpTimeout(c) \/ TaskEnds(c)
  BY <1>1, <1>4 DEF HttpRequest, HttpTimeout, TaskEnds
<1>5. CASE RunCommand \/ SpawnTask
  BY <1>5, OrderRan DEF RunCommand, SpawnTask
<1>6. CASE UNCHANGED vars
  BY <1>1, <1>6 DEF vars
<1>7. QED
  BY <1>2, <1>3, <1>4, <1>5, <1>6, OrderPublish, OrderConnection, OrderPollReceives,
     OrderForward, OrderHttpSend, OrderTakeCommand
     DEF Next, Environment, EventLoop, Poll, CommandLoop, Http

-----------------------------------------------------------------------------
(* The requests of a daemon that publishes no logs.                        *)

LEMMA RequestsInit == Init => FewRequests
BY CapacityAssumption DEF Init, FewRequests

LEMMA RequestsStep ==
  ASSUME FlagsOK, ChannelsOK, FewRequests, [Next]_vars PROVE FewRequests'
<1> USE DEF FewRequests, brokerVars, mqttVars, commandVars
<1>1. requests \in Seq({"subscribe", "publish"}) /\ Len(requests) \in Nat
  BY DEF ChannelsOK, RequestsOK
<1>2. CASE Publish \/ Break \/ BrokerReturns
  BY <1>2 DEF Publish, Break, BrokerReturns
<1>3. CASE Log \/ PublishLog
  <2>1. logging
    BY <1>3 DEF Log, PublishLog, ChannelsOK, RequestsOK
  <2>2. UNCHANGED <<link, network, eventLoop, logging>>
    BY <1>3 DEF Log, PublishLog
  <2>3. QED
    BY <2>1, <2>2, Zenon
<1>4. CASE StartEventLoop \/ PollCannotConnect \/ Wake \/ PollConnects
  BY <1>1, <1>4 DEF StartEventLoop, PollCannotConnect, Wake, PollConnects, OnConnAck
<1>5. CASE PollSends
  <2>1. Len(requests') = Len(requests) - 1
    BY <1>1, <1>5, Taken DEF PollSends
  <2>2. QED
    BY <1>1, <1>5, <2>1 DEF PollSends
<1>6. CASE PollReceives \/ Forward
  BY <1>6 DEF PollReceives, Forward
<1>7. CASE PollFails
  <2>1. Len(requests') = 0
    BY <1>7 DEF PollFails, AfterError
  <2>2. QED
    BY <1>7, <2>1 DEF PollFails
<1>8. CASE Subscribe
  <2>1. Len(requests') = Len(requests) + 1
    BY <1>1, <1>8, Sent DEF Subscribe
  <2>2. network' /\ eventLoop' = "poll" /\ link' = link /\ logs' = logs /\ logging' = logging
    BY <1>8 DEF Subscribe
  <2>3. QED
    BY <1>1, <1>8, <2>1, <2>2 DEF Subscribe
<1>9. CASE CommandLoop \/ (\E c \in Clients : Http(c)) \/ UNCHANGED vars
  <2>1. UNCHANGED <<link, network, eventLoop, logging, logs, requests>>
    BY <1>9 DEF vars, CommandLoop, TakeCommand, RunCommand, SpawnTask,
                Http, HttpRequest, HttpSend, HttpTimeout, TaskEnds
  <2>2. QED
    BY <2>1, Zenon
<1>10. QED
  BY <1>2, <1>3, <1>4, <1>5, <1>6, <1>7, <1>8, <1>9
     DEF Next, Environment, EventLoop, Poll

-----------------------------------------------------------------------------
(* The theorems.                                                           *)

\* The way from the broker to the last command executed is in the order of
\* publication, and only logs can fill the request channel, for any numbers
\* of messages, HTTP requests and lost connections and any capacities.
THEOREM PipelineInvariant == Spec => []PipelineInv
<1>1. Init => TypeOK /\ PipelineInv
  BY FlagsInit, TypeInit, OrderInit, RequestsInit DEF TypeOK, ChannelsOK, PipelineInv
<1>2. TypeOK /\ PipelineInv /\ [Next]_vars => (TypeOK /\ PipelineInv)'
  <2>1. TypeOK <=> FlagsOK /\ ChannelsOK
    BY DEF TypeOK, ChannelsOK
  <2>2. TypeOK' <=> FlagsOK' /\ ChannelsOK'
    BY DEF TypeOK, ChannelsOK
  <2>3. QED
    BY <2>1, <2>2, FlagsStep, TypeStep, OrderStep, RequestsStep DEF PipelineInv
<1>3. QED
  BY <1>1, <1>2, PTL DEF Spec

\* Commands published over MQTT are executed in the order of their publication
\* and at most once, whatever connections break and however full the channels.
THEOREM ExecutedInOrder == Spec => CommandsInOrder
<1>1. TypeOK /\ PipelineInv /\ [Next]_vars
        => [executing' # executing /\ executing' \in Messages
              => \A k \in executed : k < executing']_vars
  <2> SUFFICES ASSUME TypeOK, PipelineInv, Next,
                      executing' # executing, executing' \in Messages,
                      NEW k \in executed
               PROVE  k < executing'
    BY DEF vars, commandVars
  <2> USE DEF brokerVars, mqttVars, commandVars
  <2>1. TakeCommand
    <3>1. ~RunCommand /\ ~SpawnTask
      BY DEF RunCommand, SpawnTask, Ran, Messages
    <3>2. ~Environment /\ ~EventLoop /\ ~PublishLog
      BY DEF Environment, Publish, Break, BrokerReturns, Log, PublishLog,
             EventLoop, StartEventLoop, Poll, PollConnects, PollCannotConnect,
             PollSends, PollReceives, PollFails, Wake, Subscribe, Forward
    <3>3. ~\E c \in Clients : Http(c)
      BY DEF Http, HttpRequest, HttpSend, HttpTimeout, TaskEnds
    <3>4. QED
      BY <3>1, <3>2, <3>3 DEF Next, CommandLoop
  <2>2. InOrder'
    BY <2>1, OrderTakeCommand DEF TypeOK, ChannelsOK, PipelineInv
  <2>3. executed' = executed /\ k \in Messages
    BY <2>1 DEF TakeCommand, TypeOK, CommandsOK, BrokerOK, Messages, Nobody
  <2>4. QED
    BY <2>2, <2>3 DEF InOrder, Later
<1>2. QED
  BY <1>1, TypeCorrect, PipelineInvariant, PTL DEF Spec, CommandsInOrder

\* A task that shares its client with nobody always finds room for the
\* subscription of a new connection, from two places in the channel on.
THEOREM AlwaysRoomToSubscribe == Spec => []RoomToSubscribe
<1>1. TypeOK /\ PipelineInv => RoomToSubscribe
  BY CapacityAssumption
     DEF TypeOK, RequestsOK, PipelineInv, FewRequests, RoomToSubscribe, HasRoom
<1>2. QED
  BY <1>1, TypeCorrect, PipelineInvariant, PTL

\* The event loop task waits for room that only its own polls would make.
Stuck == eventLoop = "subscribe" /\ ~HasRoom(requests, RequestCap)

\* Once logs have filled the request channel of a new connection the task
\* never polls again, whatever the broker, the publisher and the rest do: no
\* further command arrives over MQTT until the daemon is restarted.
THEOREM StuckForEver == Spec => [][Stuck => Stuck']_vars
<1>1. [Next]_vars => [Stuck => Stuck']_vars
  <2> SUFFICES ASSUME Next, Stuck PROVE Stuck'
    OBVIOUS
  <2> USE DEF Stuck, brokerVars, mqttVars, commandVars
  <2>1. CASE Environment
    BY <2>1 DEF Environment, Publish, Break, BrokerReturns, Log
  <2>2. CASE EventLoop \/ PublishLog
    BY <2>2 DEF EventLoop, StartEventLoop, Poll, PollConnects, PollCannotConnect,
       PollSends, PollReceives, PollFails, Wake, Subscribe, Forward, PublishLog
  <2>3. CASE CommandLoop \/ \E c \in Clients : Http(c)
    BY <2>3 DEF CommandLoop, TakeCommand, RunCommand, SpawnTask,
                Http, HttpRequest, HttpSend, HttpTimeout, TaskEnds
  <2>4. QED
    BY <2>1, <2>2, <2>3 DEF Next
<1>2. QED
  BY <1>1, PTL DEF Spec

\* Without MQTT logs the pipeline keeps its order and its room, for any
\* capacities, messages, requests and lost connections.
THEOREM PipelineIsSound == Spec => []PipelineSound
<1>1. TypeOK /\ PipelineInv /\ RoomToSubscribe => PipelineSound
  BY DEF PipelineSound
<1>2. QED BY <1>1, TypeCorrect, PipelineInvariant, AlwaysRoomToSubscribe, PTL
=============================================================================
