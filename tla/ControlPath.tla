----------------------------- MODULE ControlPath -----------------------------
(***************************************************************************)
(* How commands reach the daemon: the task that runs the MQTT event loop,  *)
(* HTTP handlers that wait for an answer, the command channel they share,  *)
(* and the command loop; and, if logs are published to MQTT, the publisher *)
(* that shares the client's request channel with the event loop task.      *)
(*                                                                         *)
(* rumqttc and the broker are external.  A poll of the event loop makes    *)
(* one step: it connects, sends the oldest request, receives a message or  *)
(* finds the connection broken.  Nothing but a poll empties the channel.   *)
(***************************************************************************)
EXTENDS Integers, Sequences

CONSTANTS
  Clients,     \* HTTP requests for commands
  RequestCap,  \* capacity of the MQTT client's request channel, 10
  LogCap,      \* capacity of the log channel, 100
  CommandCap,  \* capacity of the command channel, 100
  MaxMessages, \* bound: messages published on the command topic
  MaxBreaks    \* bound: connections lost

Nobody == 0
Messages == Nat \ {Nobody}

ASSUME ClientsAssumption == Clients \cap Nat = {}
ASSUME CapacityAssumption ==
  /\ RequestCap \in Nat /\ RequestCap >= 2
  /\ LogCap \in Nat \ {0} /\ CommandCap \in Nat \ {0}
ASSUME BoundsAssumption == MaxMessages \in Nat /\ MaxBreaks \in Nat

VARIABLES
  logging,     \* whether logging.mqtt_topic is configured
  broker,      \* whether the broker can be reached
  link,        \* whether the broker holds our connection
  subscribed,  \* whether the broker holds our subscription on it
  published,   \* messages published on the command topic so far
  inbox,       \* messages on their way to us
  breaks,      \* connections lost so far
  network,     \* whether the event loop has a connection
  requests,    \* the client's request channel
  eventLoop,   \* what process_mqtt_events does
  held,        \* the message it forwards
  logs,        \* entries in the log channel
  commands,    \* the command channel
  executing,   \* the command the command loop runs
  executed,    \* messages it has run
  tasks,       \* HTTP commands handed to a task of their own
  http         \* where each HTTP request is

brokerVars  == <<broker, link, subscribed, published, inbox, breaks>>
mqttVars    == <<network, requests, eventLoop, held>>
commandVars == <<commands, executing, executed, tasks, http>>
vars == <<logging, brokerVars, mqttVars, logs, commandVars>>

HasRoom(channel, capacity) == Len(channel) < capacity

\* connect_mqtt has queued the first subscribe and touched no network; the
\* log publisher runs already, the event loop is not polled yet.
Init ==
  /\ logging \in BOOLEAN
  /\ broker \in BOOLEAN
  /\ link = FALSE /\ subscribed = FALSE /\ published = 0 /\ breaks = 0
  /\ inbox = <<>>
  /\ network = FALSE /\ requests = <<"subscribe">>
  /\ eventLoop = "starting" /\ held = Nobody
  /\ logs = 0
  /\ commands = <<>> /\ executing = Nobody /\ executed = {} /\ tasks = {}
  /\ http = [c \in Clients |-> "idle"]

-----------------------------------------------------------------------------
(* The broker and the network.                                             *)

\* A message reaches the daemon only over a subscription.
Publish ==
  /\ published < MaxMessages
  /\ published' = published + 1
  /\ inbox' = IF subscribed THEN Append(inbox, published') ELSE inbox
  /\ UNCHANGED <<logging, broker, link, subscribed, breaks, mqttVars, logs,
                 commandVars>>

\* The connection is lost, with the broker or without it.  What has arrived
\* may still be read.
Break ==
  /\ link /\ breaks < MaxBreaks
  /\ breaks' = breaks + 1
  /\ broker' \in BOOLEAN
  /\ link' = FALSE /\ subscribed' = FALSE
  /\ UNCHANGED <<logging, published, inbox, mqttVars, logs, commandVars>>

BrokerReturns ==
  /\ ~broker /\ broker' = TRUE
  /\ UNCHANGED <<logging, link, subscribed, published, inbox, breaks, mqttVars,
                 logs, commandVars>>

-----------------------------------------------------------------------------
(* process_mqtt_events.                                                    *)

StartEventLoop ==
  /\ eventLoop = "starting" /\ eventLoop' = "poll"
  /\ UNCHANGED <<logging, brokerVars, network, requests, held, logs, commandVars>>

\* Mutated form of OnConnAck: the subscription is made once, at startup.
OnConnAckLogged == "poll"
OnConnAck == "subscribe"

\* Mutated form of KeptBySession: the session is not clean, and messages are
\* delivered again whose acknowledgement has not arrived.
KeptUnacknowledged == [i \in 1 .. published |-> i]
KeptBySession == <<>>

PollConnects ==
  /\ eventLoop = "poll" /\ ~network /\ broker
  /\ network' = TRUE /\ link' = TRUE
  /\ inbox' = KeptBySession
  /\ eventLoop' = OnConnAck
  /\ UNCHANGED <<logging, broker, subscribed, published, breaks, requests, held,
                 logs, commandVars>>

PollCannotConnect ==
  /\ eventLoop = "poll" /\ ~network /\ ~broker
  /\ eventLoop' = "sleep"
  /\ UNCHANGED <<logging, brokerVars, network, requests, held, logs, commandVars>>

PollSends ==
  /\ eventLoop = "poll" /\ network /\ link
  /\ requests # <<>>
  /\ requests' = Tail(requests)
  /\ subscribed' = (subscribed \/ Head(requests) = "subscribe")
  /\ UNCHANGED <<logging, broker, link, published, inbox, breaks, network,
                 eventLoop, held, logs, commandVars>>

PollReceives ==
  /\ eventLoop = "poll" /\ network
  /\ inbox # <<>>
  /\ held' = Head(inbox) /\ inbox' = Tail(inbox)
  /\ eventLoop' = "send"
  /\ UNCHANGED <<logging, broker, link, subscribed, published, breaks, network,
                 requests, logs, commandVars>>

AfterError == <<>>

\* The library empties the channel of a broken connection; what of it it may
\* send again on the next one is left out.
PollFails ==
  /\ eventLoop = "poll" /\ network /\ ~link
  /\ network' = FALSE /\ requests' = AfterError /\ inbox' = <<>>
  /\ eventLoop' = "sleep"
  /\ UNCHANGED <<logging, broker, link, subscribed, published, breaks, held,
                 logs, commandVars>>

Poll == \/ PollConnects \/ PollCannotConnect \/ PollSends
        \/ PollReceives \/ PollFails

\* Mutated form of Wake: a subscription is queued before each new attempt.
WakeSubscribing ==
  /\ eventLoop = "sleep" /\ HasRoom(requests, RequestCap)
  /\ requests' = Append(requests, "subscribe") /\ eventLoop' = "poll"
  /\ UNCHANGED <<logging, brokerVars, network, held, logs, commandVars>>
Wake ==
  /\ eventLoop = "sleep" /\ eventLoop' = "poll"
  /\ UNCHANGED <<logging, brokerVars, network, requests, held, logs, commandVars>>

\* The task awaits room in the channel that only its own polls empty.
Subscribe ==
  /\ eventLoop = "subscribe" /\ HasRoom(requests, RequestCap)
  /\ requests' = Append(requests, "subscribe")
  /\ eventLoop' = "poll"
  /\ UNCHANGED <<logging, brokerVars, network, held, logs, commandVars>>

\* Mutated form of Forward: the task does not wait for room.
ForwardOrDrop ==
  /\ eventLoop = "send"
  /\ commands' = IF HasRoom(commands, CommandCap) THEN Append(commands, held)
                 ELSE commands
  /\ held' = Nobody /\ eventLoop' = "poll"
  /\ UNCHANGED <<logging, brokerVars, network, requests, logs, executing,
                 executed, tasks, http>>
Forward ==
  /\ eventLoop = "send" /\ HasRoom(commands, CommandCap)
  /\ commands' = Append(commands, held)
  /\ held' = Nobody /\ eventLoop' = "poll"
  /\ UNCHANGED <<logging, brokerVars, network, requests, logs, executing,
                 executed, tasks, http>>

EventLoop == StartEventLoop \/ Poll \/ Wake \/ Subscribe \/ Forward

-----------------------------------------------------------------------------
(* Log lines.  Any task may write one at any time; it is dropped when the  *)
(* log channel is full.                                                    *)

Log ==
  /\ logging /\ logs < LogCap
  /\ logs' = logs + 1
  /\ UNCHANGED <<logging, brokerVars, mqttVars, commandVars>>

PublishLog ==
  /\ logs > 0 /\ HasRoom(requests, RequestCap)
  /\ logs' = logs - 1
  /\ requests' = Append(requests, "publish")
  /\ UNCHANGED <<logging, brokerVars, network, eventLoop, held, commandVars>>

-----------------------------------------------------------------------------
(* HTTP requests.  Only the wait for the answer is timed.                  *)

HttpRequest(c) ==
  /\ http[c] = "idle" /\ http' = [http EXCEPT ![c] = "sending"]
  /\ UNCHANGED <<logging, brokerVars, mqttVars, logs, commands, executing,
                 executed, tasks>>

HttpSend(c) ==
  /\ http[c] = "sending" /\ HasRoom(commands, CommandCap)
  /\ commands' = Append(commands, c)
  /\ http' = [http EXCEPT ![c] = "waiting"]
  /\ UNCHANGED <<logging, brokerVars, mqttVars, logs, executing, executed, tasks>>

\* Mutated form of HttpTimeout: the timer runs for the send only.
HttpSendTimeout(c) ==
  /\ http[c] = "sending" /\ http' = [http EXCEPT ![c] = "timed out"]
  /\ UNCHANGED <<logging, brokerVars, mqttVars, logs, commands, executing,
                 executed, tasks>>
HttpTimeout(c) ==
  /\ http[c] = "waiting" /\ http' = [http EXCEPT ![c] = "timed out"]
  /\ UNCHANGED <<logging, brokerVars, mqttVars, logs, commands, executing,
                 executed, tasks>>

\* deliver: an answer to a client that has given up is dropped.
Answered(c) ==
  IF c \in Clients /\ http[c] = "waiting"
    THEN [http EXCEPT ![c] = "answered"] ELSE http

-----------------------------------------------------------------------------
(* The command loop.                                                       *)

TakeCommand ==
  /\ executing = Nobody /\ commands # <<>>
  /\ executing' = Head(commands) /\ commands' = Tail(commands)
  /\ UNCHANGED <<logging, brokerVars, mqttVars, logs, executed, tasks, http>>

Ran == executed' = executed \cup ({executing} \cap Messages) /\ executing' = Nobody

\* The arm of the command answers, or takes the reply to a task: a play or a
\* precache.
RunCommand ==
  /\ executing # Nobody
  /\ Ran
  /\ http' = Answered(executing)
  /\ UNCHANGED <<logging, brokerVars, mqttVars, logs, commands, tasks>>

SpawnTask ==
  /\ executing # Nobody
  /\ Ran
  /\ tasks' = tasks \cup ({executing} \cap Clients)
  /\ UNCHANGED <<logging, brokerVars, mqttVars, logs, commands, http>>

TaskEnds(c) ==
  /\ c \in tasks /\ tasks' = tasks \ {c}
  /\ http' = Answered(c)
  /\ UNCHANGED <<logging, brokerVars, mqttVars, logs, commands, executing, executed>>

CommandLoop == TakeCommand \/ RunCommand \/ SpawnTask

-----------------------------------------------------------------------------
Environment == Publish \/ Break \/ BrokerReturns \/ Log
Http(c) == HttpRequest(c) \/ HttpSend(c) \/ HttpTimeout(c) \/ TaskEnds(c)

Next == \/ Environment \/ EventLoop \/ PublishLog \/ CommandLoop
        \/ \E c \in Clients : Http(c)

Spec == Init /\ [][Next]_vars

\* The tasks are scheduled and the command loop's arms return; senders get
\* room in the order they ask for it, so none waits for ever for a channel
\* that keeps being emptied; a timer fires.  Loads need not end.
FairSpec ==
  /\ Spec
  /\ WF_vars(StartEventLoop) /\ WF_vars(Poll) /\ WF_vars(Wake)
  /\ SF_vars(Subscribe) /\ SF_vars(Forward) /\ SF_vars(PublishLog)
  /\ WF_vars(CommandLoop)
  /\ \A c \in Clients : SF_vars(HttpSend(c)) /\ WF_vars(HttpTimeout(c))

-----------------------------------------------------------------------------
(* Properties.                                                             *)

\* Every variable holds a value the code could give it; channels are within
\* their capacities.
FlagsOK == {logging, broker, link, subscribed, network} \subseteq BOOLEAN
BrokerOK ==
  /\ published \in 0 .. MaxMessages /\ breaks \in 0 .. MaxBreaks
  /\ inbox \in Seq(1 .. published)
EventLoopOK ==
  /\ eventLoop \in {"starting", "poll", "subscribe", "send", "sleep"}
  /\ held \in 0 .. published /\ (held # Nobody <=> eventLoop = "send")
RequestsOK ==
  /\ requests \in Seq({"subscribe", "publish"}) /\ Len(requests) <= RequestCap
  /\ logs \in 0 .. LogCap
CommandsOK ==
  /\ commands \in Seq(1 .. published \cup Clients) /\ Len(commands) <= CommandCap
  /\ executing \in 0 .. published \cup Clients
  /\ executed \subseteq 1 .. published
HttpOK ==
  /\ tasks \subseteq Clients
  /\ http \in [Clients -> {"idle", "sending", "waiting", "answered", "timed out"}]
TypeOK == FlagsOK /\ BrokerOK /\ EventLoopOK /\ RequestsOK /\ CommandsOK /\ HttpOK

\* As long as only the event loop task uses its client, there is room for the
\* subscription it makes on a new connection, so making it cannot block the
\* task that polls, however often the connection breaks.
RoomToSubscribe ==
  ~logging /\ eventLoop = "subscribe" => HasRoom(requests, RequestCap)

\* Two stretches of the way of a message, the second before the first in
\* time: every message of the first is later than every one of the second.
Later(S, T) == \A m \in S \cap Messages, k \in T \cap Messages : k < m
Elements(s) == {s[i] : i \in DOMAIN s}
Ascending(s) == \A i, j \in DOMAIN s :
                  i < j /\ s[i] \in Messages /\ s[j] \in Messages => s[i] < s[j]

\* Messages stand in the order of their publication all the way from the
\* broker to those executed.
InOrder ==
  /\ Ascending(inbox) /\ Ascending(commands)
  /\ Later({executing}, executed)
  /\ Later(Elements(commands), executed \cup {executing})
  /\ Later({held}, executed \cup {executing} \cup Elements(commands))
  /\ Later(Elements(inbox),
           executed \cup {executing} \cup Elements(commands) \cup {held})

\* A daemon that publishes no logs has at most two requests queued, and one
\* when it connects.
FewRequests ==
  /\ link => network
  /\ eventLoop \in {"starting", "sleep"} => ~network
  /\ eventLoop = "subscribe" => network
  /\ ~logging => /\ logs = 0
                 /\ Len(requests) <= 2
                 /\ ~network \/ eventLoop = "subscribe" => Len(requests) <= 1

\* The inductive invariant of the way of a message and of the requests.
PipelineInv == InOrder /\ FewRequests

\* Commands published over MQTT are executed in the order of their publication
\* and at most once, across reconnects and a full command channel.
CommandsInOrder ==
  [][executing' # executing /\ executing' \in Messages
       => \A k \in executed : k < executing']_vars

\* A message that has been received is executed, whatever the HTTP clients
\* and the connection do.
ReceivedExecuted ==
  \A m \in 1 .. MaxMessages : (held = m) ~> (m \in executed)

\* An HTTP request for a command is answered or times out, even if its load
\* never ends and while MQTT is stuck.
HttpAnswered ==
  \A c \in Clients :
    (http[c] = "sending") ~> (http[c] \in {"answered", "timed out"})

\* A daemon whose broker stays reachable keeps getting its subscription back.
ResubscribedAlways == <>[]broker => []<>subscribed

\* The same of a daemon that does not publish its logs to MQTT.
Resubscribed == <>[](broker /\ ~logging) => []<>subscribed

\* The way of a command keeps its order at every queue, and the event loop
\* task always finds room for the subscription it makes.
PipelineSound == TypeOK /\ PipelineInv /\ RoomToSubscribe
=============================================================================
