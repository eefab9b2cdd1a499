----------------------------- MODULE MqttClient -----------------------------
(***************************************************************************)
(* The MQTT client of Internet/MQTT/MQTTClient.c with its background task  *)
(* (MQTT_TASK): calls of the application, which send a request and wait    *)
(* for the reply in cycle(), the task's own cycle(), the keep-alive, the   *)
(* timers, and a broker behind a TCP connection that may be lost.  Topics  *)
(* and payloads are left out: a packet is its type, its id and its QoS.    *)
(***************************************************************************)
EXTENDS Naturals, Sequences

CONSTANTS
  MaxPacketId,    \* MAX_PACKET_ID
  MaxHandlers,    \* MAX_MESSAGE_HANDLERS
  PublishQoS,     \* the QoS of the messages that the broker sends
  UpMax, DownMax  \* bounds: packets under way to the broker and to the client

ASSUME MqttAssumption ==
  MaxPacketId \in Nat \ {0} /\ MaxHandlers \in Nat /\ PublishQoS \subseteq 0 .. 2 /\ UpMax \in Nat \ {0} /\ DownMax \in Nat \ {0}

VARIABLES
  \* the client
  isconnected, ping_outstanding, next_packetid,
  handlers,       \* messageHandlers[] in use
  keepAlive,      \* keepAliveInterval # 0
  pingDue,        \* ping_timer has expired
  call,           \* the call that holds the mutex, op "none" when it is free
  expired,        \* the timer of that call has expired
  ret,            \* what the last call returned
  \* the connection and the broker
  net,            \* "up", "down", or "garbled": the broker cannot follow the stream any more
  up, down,       \* packets on their way to the broker and to the client
  \* observers
  late,           \* a call has timed out on this connection
  stolen          \* a reply was read by another than the call waiting for it

client == <<isconnected, next_packetid, handlers, keepAlive>>
vars == <<client, ping_outstanding, pingDue, call, expired, ret, net, up, down, late, stolen>>

Replies == {"CONNACK", "SUBACK", "UNSUBACK", "PUBACK", "PUBCOMP"}
Packet(t, i, q) == [type |-> t, id |-> i, qos |-> q]

NoResult == [rc |-> "none", clean |-> TRUE, own |-> TRUE]
NoCall == [op |-> "none", wait |-> "none", id |-> 0, clean |-> TRUE]

\* MQTTClientInit() on a new client
Init ==
  /\ isconnected = FALSE /\ ping_outstanding = FALSE /\ next_packetid = 1
  /\ handlers = 0 /\ keepAlive = FALSE /\ pingDue = FALSE
  /\ call = NoCall /\ expired = FALSE
  /\ ret = NoResult
  /\ net = "up" /\ up = <<>> /\ down = <<>>
  /\ late = FALSE /\ stolen = FALSE

-----------------------------------------------------------------------------
getNextPacketId == IF next_packetid = MaxPacketId THEN 1 ELSE next_packetid + 1

\* sendPacket(): all of p is written and the ping timer starts anew ...
SendOk(p) ==
  /\ net # "down" /\ Len(up) < UpMax
  /\ up' = (IF net = "up" THEN Append(up, p) ELSE up)
  /\ pingDue' = FALSE /\ UNCHANGED net

\* ... or not; after a partial write it asks for the whole length again and writes past the packet.
SendFails ==
  /\ net' \in {net} \union (IF net = "up" THEN {"garbled"} ELSE {})
  /\ UNCHANGED <<up, pingDue>>

\* keepalive(): a ping, if none is outstanding; its failure is not noticed.
Keepalive(outstanding) ==
  LET due == keepAlive /\ pingDue /\ ~outstanding
  IN \/ due /\ SendOk(Packet("PINGREQ", 0, 0)) /\ ping_outstanding' = TRUE
     \/ due /\ SendFails /\ ping_outstanding' = outstanding
     \/ ~due /\ ping_outstanding' = outstanding /\ UNCHANGED <<net, up, pingDue>>

\* The packet that cycle() sends for the one it has read.
Answer(p) ==
  CASE p.type = "PUBLISH" /\ p.qos = 1 -> {Packet("PUBACK", p.id, 0)}
    [] p.type = "PUBLISH" /\ p.qos = 2 -> {Packet("PUBREC", p.id, 0)}
    [] p.type = "PUBREC" -> {Packet("PUBREL", p.id, 0)}
    [] OTHER -> {}

\* Mutant: the answer to a ping is not noted.
CycleIgnoresPingresp(p) ==
  \/ Answer(p) = {} /\ Keepalive(ping_outstanding)
  \/ (\E a \in Answer(p) : SendOk(a) \/ SendFails) /\ UNCHANGED ping_outstanding

\* cycle(), when it has read p: a failing answer skips the keep-alive, a successful one has
\* restarted the ping timer.
Cycle(p) ==
  \/ Answer(p) = {} /\ Keepalive(ping_outstanding /\ p.type # "PINGRESP")
  \/ (\E a \in Answer(p) : SendOk(a) \/ SendFails) /\ UNCHANGED ping_outstanding

\* readPacket(): the next packet is taken from the connection.
Read == down # <<>> /\ down' = Tail(down)

-----------------------------------------------------------------------------
(* The calls: each locks the mutex, sends its request and waits in         *)
(* waitfor() until a packet of the awaited type is read or its timer has   *)
(* expired.  A call on a client that is not connected (MQTTConnect(): that *)
(* is) fails at once.                                                      *)

Return(rc) == ret' = [NoResult EXCEPT !.rc = rc]

Refused == Return("FAILURE") /\ UNCHANGED <<call, expired, next_packetid, net, up, pingDue>>

\* The packet is sent and the call waits; or it is not and the call fails.
Request(op, type, id, qos, wait) ==
  \/ /\ SendOk(Packet(type, id, qos)) /\ expired' = FALSE
     /\ call' = [op |-> op, wait |-> wait, id |-> id, clean |-> ~late]
     /\ ret' = NoResult
  \/ SendFails /\ Return("FAILURE") /\ UNCHANGED <<call, expired>>

MQTTConnect ==
  /\ call = NoCall
  /\ \/ isconnected /\ Refused /\ UNCHANGED keepAlive
     \/ ~isconnected /\ keepAlive' \in BOOLEAN /\ Request("connect", "CONNECT", 0, 0, "CONNACK")
        /\ UNCHANGED next_packetid
  /\ UNCHANGED <<isconnected, handlers, ping_outstanding, down, late, stolen>>

\* MQTTSubscribe(), MQTTUnsubscribe(), MQTTPublish() with QoS 1 and 2: a new packet id
IdRequest(op, type, qos, wait) ==
  /\ call = NoCall
  /\ \/ ~isconnected /\ Refused
     \/ /\ isconnected /\ next_packetid' = getNextPacketId
        /\ Request(op, type, next_packetid', qos, wait)
  /\ UNCHANGED <<isconnected, handlers, keepAlive, ping_outstanding, down, late, stolen>>

MQTTSubscribe == IdRequest("subscribe", "SUBSCRIBE", 0, "SUBACK")
MQTTUnsubscribe == IdRequest("unsubscribe", "UNSUBSCRIBE", 0, "UNSUBACK")
MQTTPublish == IdRequest("publish", "PUBLISH", 1, "PUBACK") \/ IdRequest("publish", "PUBLISH", 2, "PUBCOMP")

\* MQTTPublish() with QoS 0: no reply.
MQTTPublish0 ==
  /\ call = NoCall
  /\ \/ ~isconnected /\ Return("FAILURE") /\ UNCHANGED <<net, up, pingDue>>
     \/ isconnected /\ SendOk(Packet("PUBLISH", 0, 0)) /\ Return("SUCCESSS")
     \/ isconnected /\ SendFails /\ Return("FAILURE")
  /\ UNCHANGED <<client, ping_outstanding, call, expired, down, late, stolen>>

MQTTDisconnect ==
  /\ call = NoCall /\ isconnected' = FALSE
  /\ \/ SendOk(Packet("DISCONNECT", 0, 0)) /\ Return("SUCCESSS")
     \/ SendFails /\ Return("FAILURE")
  /\ UNCHANGED <<next_packetid, handlers, keepAlive, ping_outstanding, call, expired, down, late, stolen>>

\* What a call does with the reply it was waiting for: a refusal is its return code.
Finish(p) ==
  LET rc == IF p.qos = 0 THEN "SUCCESSS" ELSE "refused"
  IN /\ ret' = [rc |-> rc, clean |-> call.clean, own |-> p.id = call.id]
     /\ isconnected' = (isconnected \/ (call.op = "connect" /\ rc = "SUCCESSS"))
     /\ handlers' = (IF call.op = "subscribe" /\ rc = "SUCCESSS" /\ handlers < MaxHandlers
                       THEN handlers + 1 ELSE handlers)
     /\ call' = NoCall

\* Mutant: any packet ends the wait.
WaitReadAnyType ==
  /\ call # NoCall /\ ~expired
  /\ Read /\ Cycle(Head(down)) /\ Finish(Head(down))
  /\ UNCHANGED <<next_packetid, keepAlive, expired, late, stolen>>

\* One round of waitfor(): only the type of the packet is compared.
WaitRead ==
  /\ call # NoCall /\ ~expired
  /\ Read /\ Cycle(Head(down))
  /\ IF Head(down).type = call.wait THEN Finish(Head(down)) ELSE UNCHANGED <<call, ret, isconnected, handlers>>
  /\ UNCHANGED <<next_packetid, keepAlive, expired, late, stolen>>

\* A round in which nothing is read.
WaitNothing ==
  /\ call # NoCall /\ ~expired /\ down = <<>>
  /\ Keepalive(ping_outstanding)
  /\ UNCHANGED <<client, call, expired, ret, down, late, stolen>>

\* Mutant: waitfor() does not look at the timer.
WaitTimeoutIgnored ==
  /\ call # NoCall /\ expired /\ down = <<>>
  /\ Keepalive(ping_outstanding)
  /\ UNCHANGED <<client, call, expired, ret, down, late, stolen>>

WaitTimeout ==
  /\ call # NoCall /\ expired
  /\ Return("FAILURE") /\ call' = NoCall /\ expired' = FALSE /\ late' = TRUE
  /\ UNCHANGED <<client, ping_outstanding, pingDue, net, up, down, stolen>>

\* Mutant: the task does not take the mutex.
MQTTRunUnlocked ==
  /\ \/ /\ Read /\ Cycle(Head(down))
        /\ stolen' = (stolen \/ (call # NoCall /\ Head(down).type = call.wait))
     \/ down = <<>> /\ Keepalive(ping_outstanding) /\ UNCHANGED <<down, stolen>>
  /\ UNCHANGED <<client, call, expired, ret, late>>

\* One round of the task, or a call of MQTTYield(); what it reads, it drops.
MQTTRun ==
  /\ call = NoCall
  /\ \/ /\ Read /\ Cycle(Head(down))
        /\ stolen' = (stolen \/ (call # NoCall /\ Head(down).type = call.wait))
     \/ down = <<>> /\ Keepalive(ping_outstanding) /\ UNCHANGED <<down, stolen>>
  /\ UNCHANGED <<client, call, expired, ret, late>>

-----------------------------------------------------------------------------
(* The timers (mqtt_interface.h), the connection and the broker.           *)

TimerExpires ==
  /\ call # NoCall /\ ~expired /\ expired' = TRUE
  /\ UNCHANGED <<client, ping_outstanding, pingDue, call, ret, net, up, down, late, stolen>>

PingTimerExpires ==
  /\ keepAlive /\ ~pingDue /\ pingDue' = TRUE
  /\ UNCHANGED <<client, ping_outstanding, call, expired, ret, net, up, down, late, stolen>>

\* The broker's reply; CONNECT and SUBSCRIBE may be refused (qos 1 in the reply).
BrokerReply(p) ==
  CASE p.type = "CONNECT" -> {Packet("CONNACK", 0, q) : q \in {0, 1}}
    [] p.type = "SUBSCRIBE" -> {Packet("SUBACK", p.id, q) : q \in {0, 1}}
    [] p.type = "UNSUBSCRIBE" -> {Packet("UNSUBACK", p.id, 0)}
    [] p.type = "PUBLISH" /\ p.qos = 1 -> {Packet("PUBACK", p.id, 0)}
    [] p.type = "PUBLISH" /\ p.qos = 2 -> {Packet("PUBREC", p.id, 0)}
    [] p.type = "PUBREL" -> {Packet("PUBCOMP", p.id, 0)}
    [] p.type = "PUBREC" -> {Packet("PUBREL", p.id, 0)}
    [] p.type = "PINGREQ" -> {Packet("PINGRESP", 0, 0)}
    [] OTHER -> {}

BrokerStep ==
  /\ net = "up" /\ up # <<>> /\ up' = Tail(up)
  /\ \/ BrokerReply(Head(up)) = {} /\ UNCHANGED down
     \/ \E r \in BrokerReply(Head(up)) : Len(down) < DownMax /\ down' = Append(down, r)
  /\ UNCHANGED <<client, ping_outstanding, pingDue, call, expired, ret, net, late, stolen>>

BrokerPublishes ==
  /\ net = "up" /\ isconnected /\ Len(down) < DownMax
  /\ \E q \in PublishQoS : down' = Append(down, Packet("PUBLISH", 1, q))
  /\ UNCHANGED <<client, ping_outstanding, pingDue, call, expired, ret, net, up, late, stolen>>

ConnectionLost ==
  /\ net # "down" /\ net' = "down" /\ up' = <<>> /\ down' = <<>>
  /\ UNCHANGED <<client, ping_outstanding, pingDue, call, expired, ret, late, stolen>>

\* The application connects the network object again and starts over with MQTTClientInit().
Restart ==
  /\ net = "down" /\ call = NoCall /\ net' = "up"
  /\ isconnected' = FALSE /\ ping_outstanding' = FALSE /\ next_packetid' = 1 /\ handlers' = 0
  /\ late' = FALSE
  /\ UNCHANGED <<keepAlive, pingDue, call, expired, ret, up, down, stolen>>

Next ==
  \/ MQTTConnect \/ MQTTSubscribe \/ MQTTUnsubscribe \/ MQTTPublish \/ MQTTPublish0 \/ MQTTDisconnect
  \/ WaitRead \/ WaitNothing \/ WaitTimeout \/ MQTTRun
  \/ TimerExpires \/ PingTimerExpires
  \/ BrokerStep \/ BrokerPublishes \/ ConnectionLost \/ Restart

(* Time passes, a waiting call is scheduled, and so is the task when the   *)
(* mutex is free; nothing is assumed of the broker.                        *)
Spec ==
  /\ Init /\ [][Next]_vars
  /\ WF_vars(TimerExpires) /\ WF_vars(WaitRead \/ WaitNothing \/ WaitTimeout)

-----------------------------------------------------------------------------
Types == Replies \union {"CONNECT", "SUBSCRIBE", "UNSUBSCRIBE", "PUBLISH", "PUBREC", "PUBREL",
                         "PINGREQ", "PINGRESP", "DISCONNECT"}
Packets == [type : Types, id : 0 .. MaxPacketId, qos : 0 .. 2]
Calls == {"none", "connect", "subscribe", "unsubscribe", "publish", "disconnect"}

TypeOK ==
  /\ isconnected \in BOOLEAN /\ ping_outstanding \in BOOLEAN
  /\ next_packetid \in 1 .. MaxPacketId /\ handlers \in 0 .. MaxHandlers
  /\ keepAlive \in BOOLEAN /\ pingDue \in BOOLEAN
  /\ call \in [op : Calls, wait : Replies \union {"none"}, id : 0 .. MaxPacketId, clean : BOOLEAN]
  /\ expired \in BOOLEAN /\ stolen \in BOOLEAN
  /\ ret \in [rc : {"none", "SUCCESSS", "FAILURE", "refused"}, clean : BOOLEAN, own : BOOLEAN]
  /\ net \in {"up", "down", "garbled"}
  /\ up \in Seq(Packets) /\ down \in Seq(Packets)
  /\ Len(up) <= UpMax /\ Len(down) <= DownMax
  /\ late \in BOOLEAN

(* The reply to a request is read by the call that waits for it, never by  *)
(* the background task, which would drop it: the mutex is held from the    *)
(* sending of the request to its end.                                      *)
ReplyReachesCaller == ~stolen

(* waitfor() compares only the type of the packet, yet the reply that ends *)
(* a call carries the id of that call's own request, unless an earlier     *)
(* call has timed out on this connection (then its late reply may be taken *)
(* for the new one).                                                       *)
ReplyIsOwn == ret.clean => ret.own

(* While a ping is outstanding, the ping or its answer is under way, or    *)
(* the connection has failed: a flag that outlived its ping would end the  *)
(* keep-alive of a working connection.                                     *)
PingUnderWay ==
  ping_outstanding /\ net = "up" =>
     \/ \E k \in DOMAIN up : up[k].type = "PINGREQ"
     \/ \E k \in DOMAIN down : down[k].type = "PINGRESP"

(* Every call returns, whatever the broker does: its timer ends it.        *)
MqttCallsReturn == (call # NoCall) ~> (call = NoCall)
=============================================================================
