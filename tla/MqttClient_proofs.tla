-------------------------- MODULE MqttClient_proofs --------------------------
(***************************************************************************)
(* The MQTT client gives every reply to the call that asked for it, and    *)
(* never waits for the answer to a ping that is not under way, for any     *)
(* packet ids, any number of packets under way and any broker that answers *)
(* each packet once.                                                       *)
(***************************************************************************)
EXTENDS MqttClient, TLAPS

-----------------------------------------------------------------------------
(* Packets under way: a queue s, of which only those in a set T matter.    *)

\* A packet of T is under way in s; at most one is.
Has(s, T) == \E k \in 1 .. Len(s) : s[k] \in T
AtMostOne(s, T) == \A i, j \in 1 .. Len(s) : s[i] \in T /\ s[j] \in T => i = j

\* The packets of T in t are among those in s.
Keeps(s, t, T) ==
  /\ AtMostOne(s, T) => AtMostOne(t, T)
  /\ \A S \in SUBSET T : Has(t, S) => Has(s, S)

LEMMA EmptyQueue == \A T : ~Has(<<>>, T) /\ AtMostOne(<<>>, T)
BY DEF Has, AtMostOne

LEMMA AppendHas ==
  ASSUME NEW P, NEW s \in Seq(P), NEW p \in P, NEW T
  PROVE  /\ Has(Append(s, p), T) <=> Has(s, T) \/ p \in T
         /\ AtMostOne(s, T) /\ (~Has(s, T) \/ p \notin T) => AtMostOne(Append(s, p), T)
<1> DEFINE t == Append(s, p)
<1>1. /\ Len(s) \in Nat /\ Len(t) = Len(s) + 1 /\ t[Len(s) + 1] = p
      /\ \A k \in 1 .. Len(s) : t[k] = s[k]
  OBVIOUS
<1> HIDE DEF t
<1>2. \A k \in 1 .. Len(t) : (k \in 1 .. Len(s) /\ t[k] = s[k]) \/ (k = Len(s) + 1 /\ t[k] = p)
  BY <1>1
<1>3. Has(t, T) => Has(s, T) \/ p \in T
  BY <1>2 DEF Has
<1>4. Has(s, T) => Has(t, T)
  <2> SUFFICES ASSUME NEW k \in 1 .. Len(s), s[k] \in T PROVE Has(t, T)
    BY DEF Has
  <2>1. k \in 1 .. Len(t) /\ t[k] \in T
    BY <1>1
  <2> QED BY <2>1 DEF Has
<1>5. p \in T => Has(t, T)
  <2>1. Len(s) + 1 \in 1 .. Len(t)
    BY <1>1
  <2> QED BY <2>1, <1>1 DEF Has
<1>6. ASSUME AtMostOne(s, T), ~Has(s, T) \/ p \notin T PROVE AtMostOne(t, T)
  <2> SUFFICES ASSUME NEW i \in 1 .. Len(t), NEW j \in 1 .. Len(t), t[i] \in T, t[j] \in T PROVE i = j
    BY DEF AtMostOne
  <2>1. CASE p \notin T
    <3>1. i \in 1 .. Len(s) /\ s[i] \in T /\ j \in 1 .. Len(s) /\ s[j] \in T
      BY <2>1, <1>2
    <3> QED BY <3>1, <1>6 DEF AtMostOne
  <2>2. CASE ~Has(s, T)
    <3>1. i = Len(s) + 1 /\ j = Len(s) + 1
      BY <2>2, <1>2 DEF Has
    <3> QED BY <3>1
  <2> QED BY <1>6, <2>1, <2>2
<1> QED BY <1>3, <1>4, <1>5, <1>6 DEF t

LEMMA TailHas ==
  ASSUME NEW P, NEW s \in Seq(P), s # <<>>, NEW T
  PROVE  /\ Has(s, T) <=> Head(s) \in T \/ Has(Tail(s), T)
         /\ AtMostOne(s, T) => AtMostOne(Tail(s), T)
         /\ AtMostOne(s, T) /\ Head(s) \in T => ~Has(Tail(s), T)
<1> DEFINE t == Tail(s)
<1>1. /\ Len(s) \in Nat /\ Len(s) >= 1 /\ Len(t) = Len(s) - 1 /\ Head(s) = s[1]
      /\ \A k \in 1 .. Len(t) : t[k] = s[k + 1]
  OBVIOUS
<1> HIDE DEF t
<1>2. \A k \in 1 .. Len(t) : k + 1 \in 1 .. Len(s) /\ k + 1 # 1 /\ t[k] = s[k + 1]
  BY <1>1
<1>3. 1 \in 1 .. Len(s) /\ Head(s) = s[1]
  BY <1>1
<1>4. \A k \in 1 .. Len(s) : k = 1 \/ (k - 1 \in 1 .. Len(t) /\ t[k - 1] = s[k])
  BY <1>1
<1>5. Has(s, T) => Head(s) \in T \/ Has(t, T)
  BY <1>3, <1>4 DEF Has
<1>6. Has(t, T) => Has(s, T)
  BY <1>2 DEF Has
<1>7. Head(s) \in T => Has(s, T)
  BY <1>3 DEF Has
<1>8. ASSUME AtMostOne(s, T) PROVE AtMostOne(t, T)
  <2> SUFFICES ASSUME NEW i \in 1 .. Len(t), NEW j \in 1 .. Len(t), t[i] \in T, t[j] \in T PROVE i = j
    BY DEF AtMostOne
  <2>1. i + 1 = j + 1
    BY <1>2, <1>8 DEF AtMostOne
  <2> QED BY <2>1
<1>9. ASSUME AtMostOne(s, T), Head(s) \in T PROVE ~Has(t, T)
  <2> SUFFICES ASSUME NEW k \in 1 .. Len(t), t[k] \in T PROVE FALSE
    BY DEF Has
  <2> QED BY <1>2, <1>3, <1>9 DEF AtMostOne
<1> QED BY <1>5, <1>6, <1>7, <1>8, <1>9 DEF t

\* Leaving a queue alone, taking its head and appending what does not matter.
LEMMA KeepsSame == \A s, T : Keeps(s, s, T)
BY DEF Keeps

LEMMA KeepsEmpty == \A s, T : Keeps(s, <<>>, T)
BY EmptyQueue DEF Keeps

LEMMA KeepsAppend ==
  ASSUME NEW P, NEW s \in Seq(P), NEW p \in P, NEW T, p \notin T
  PROVE  Keeps(s, Append(s, p), T)
<1>1. AtMostOne(s, T) => AtMostOne(Append(s, p), T)
  BY AppendHas
<1>2. \A S \in SUBSET T : Has(Append(s, p), S) => Has(s, S)
  <2> TAKE S \in SUBSET T
  <2>1. p \notin S
    OBVIOUS
  <2> QED BY <2>1, AppendHas
<1> QED BY <1>1, <1>2 DEF Keeps

LEMMA KeepsTail ==
  ASSUME NEW P, NEW s \in Seq(P), s # <<>>, NEW T
  PROVE  Keeps(s, Tail(s), T)
<1>1. AtMostOne(s, T) => AtMostOne(Tail(s), T)
  BY TailHas
<1>2. \A S : Has(Tail(s), S) => Has(s, S)
  BY TailHas
<1> QED BY <1>1, <1>2 DEF Keeps

-----------------------------------------------------------------------------
(* The invariant.                                                          *)

\* The packets of an exchange that ends with a reply to the client's request.
Requests ==
  {p \in Packets : \/ p.type \in {"CONNECT", "SUBSCRIBE", "UNSUBSCRIBE", "PUBREL"}
                   \/ p.type = "PUBLISH" /\ p.qos # 0}
Responses == {p \in Packets : p.type \in Replies \union {"PUBREC"}}

\* Those that do not belong to the call with this id.
Foreign(T, id) == {p \in T : p.id # id}

\* Such an exchange has one packet at a time, and as long as no call has timed out it is
\* that of the call in progress.
ExchangeInv ==
  ~late =>
    /\ AtMostOne(up, Requests) /\ AtMostOne(down, Responses)
    /\ ~(Has(up, Requests) /\ Has(down, Responses))
    /\ call = NoCall => ~Has(up, Requests) /\ ~Has(down, Responses)
    /\ ~Has(up, Foreign(Requests, call.id)) /\ ~Has(down, Foreign(Responses, call.id))

\* Only MQTTConnect() sends a CONNECT.
OddConnects == {p \in Requests : p.type = "CONNECT" /\ p.id # 0}

\* A lost connection carries nothing; clean is what the call found when it began.
ConnectionInv ==
  /\ ~Has(up, OddConnects)
  /\ net = "down" => up = <<>> /\ down = <<>>
  /\ call # NoCall => call.clean = ~late

Pings == {p \in Packets : p.type = "PINGREQ"}
Pongs == {p \in Packets : p.type = "PINGRESP"}
PingInv == ping_outstanding /\ net = "up" => Has(up, Pings) \/ Has(down, Pongs)

IInv == TypeOK /\ ExchangeInv /\ ConnectionInv /\ ReplyReachesCaller /\ ReplyIsOwn /\ PingInv

-----------------------------------------------------------------------------
(* What is sent for what is read.                                          *)

Ping == Packet("PINGREQ", 0, 0)

LEMMA PacketType ==
  ASSUME NEW t \in Types, NEW i \in 0 .. MaxPacketId, NEW q \in 0 .. 2
  PROVE  /\ Packet(t, i, q) \in Packets
         /\ Packet(t, i, q).type = t /\ Packet(t, i, q).id = i /\ Packet(t, i, q).qos = q
BY DEF Packet, Packets

LEMMA PacketFields ==
  ASSUME NEW p \in Packets
  PROVE  p.type \in Types /\ p.id \in 0 .. MaxPacketId /\ p.qos \in 0 .. 2
BY DEF Packets

LEMMA PingPacket == Ping \in Pings /\ Ping \in Packets /\ Ping \notin Requests
<1>1. "PINGREQ" \in Types /\ 0 \in 0 .. MaxPacketId /\ 0 \in 0 .. 2
  BY MqttAssumption DEF Types
<1>2. Ping \in Packets /\ Ping.type = "PINGREQ"
  BY <1>1, PacketType DEF Ping
<1> QED BY <1>2 DEF Pings, Requests

\* cycle() carries an exchange on only for a PUBREC, and with the id it has read.
LEMMA AnswerResult ==
  ASSUME NEW p \in Packets, NEW a \in Answer(p)
  PROVE  /\ a \in Packets /\ p.type \in {"PUBLISH", "PUBREC"}
         /\ a \in Requests => p.type = "PUBREC" /\ a.type = "PUBREL" /\ a.id = p.id
<1>0. p.id \in 0 .. MaxPacketId /\ 0 \in 0 .. 2 /\ {"PUBACK", "PUBREC", "PUBREL"} \subseteq Types
  BY PacketFields DEF Types, Replies
<1>1. CASE p.type = "PUBLISH" /\ p.qos = 1
  <2>1. p.qos # 2
    BY <1>1
  <2>2. Answer(p) = {Packet("PUBACK", p.id, 0)}
    BY <2>1, <1>1, Zenon DEF Answer
  <2> QED BY <2>2, <1>0, <1>1, PacketType DEF Requests
<1>2. CASE p.type = "PUBLISH" /\ p.qos = 2
  <2>1. p.qos # 1
    BY <1>2
  <2>2. Answer(p) = {Packet("PUBREC", p.id, 0)}
    BY <2>1, <1>2, Zenon DEF Answer
  <2> QED BY <2>2, <1>0, <1>2, PacketType DEF Requests
<1>3. CASE p.type = "PUBREC"
  <2>1. Answer(p) = {Packet("PUBREL", p.id, 0)}
    BY <1>3, Zenon DEF Answer
  <2> QED BY <2>1, <1>0, <1>3, PacketType
<1>4. CASE ~(p.type = "PUBLISH" /\ p.qos = 1) /\ ~(p.type = "PUBLISH" /\ p.qos = 2) /\ p.type # "PUBREC"
  <2>1. Answer(p) = {}
    BY <1>4, Zenon DEF Answer
  <2> QED BY <2>1
<1> QED BY <1>1, <1>2, <1>3, <1>4

\* The broker answers a request with the same id, and nothing else with a response.
LEMMA BrokerResult ==
  ASSUME NEW p \in Packets, NEW r \in BrokerReply(p)
  PROVE  /\ r \in Packets
         /\ r \in Responses => p \in Requests /\ (r.id = p.id \/ (p.type = "CONNECT" /\ r.id = 0))
<1>0. /\ p.id \in 0 .. MaxPacketId /\ 0 \in 0 .. MaxPacketId /\ {0, 1} \subseteq 0 .. 2
      /\ {"CONNACK", "SUBACK", "UNSUBACK", "PUBACK", "PUBCOMP", "PUBREC", "PUBREL", "PINGRESP"} \subseteq Types
  BY PacketFields, MqttAssumption DEF Types, Replies
<1>1. CASE p.type = "CONNECT"
  <2>1. BrokerReply(p) = {Packet("CONNACK", 0, q) : q \in {0, 1}}
    BY <1>1, Zenon DEF BrokerReply
  <2> QED BY <2>1, <1>0, <1>1, PacketType DEF Requests, Replies
<1>2. CASE p.type = "SUBSCRIBE"
  <2>1. BrokerReply(p) = {Packet("SUBACK", p.id, q) : q \in {0, 1}}
    BY <1>2, Zenon DEF BrokerReply
  <2>2. p \in Requests
    BY <1>2 DEF Requests
  <2>3. r \in Packets /\ r.id = p.id
    BY <2>1, <1>0, PacketType
  <2> QED BY <2>2, <2>3
<1>3. CASE p.type = "UNSUBSCRIBE"
  <2>1. BrokerReply(p) = {Packet("UNSUBACK", p.id, 0)}
    BY <1>3, Zenon DEF BrokerReply
  <2>2. p \in Requests
    BY <1>3 DEF Requests
  <2>3. r \in Packets /\ r.id = p.id
    BY <2>1, <1>0, PacketType
  <2> QED BY <2>2, <2>3
<1>4. CASE p.type = "PUBLISH" /\ p.qos = 1
  <2>1. p.qos # 2
    BY <1>4
  <2>2. BrokerReply(p) = {Packet("PUBACK", p.id, 0)}
    BY <2>1, <1>4, Zenon DEF BrokerReply
  <2>3. p \in Requests
    BY <1>4 DEF Requests
  <2>4. r \in Packets /\ r.id = p.id
    BY <2>2, <1>0, PacketType
  <2> QED BY <2>3, <2>4
<1>5. CASE p.type = "PUBLISH" /\ p.qos = 2
  <2>1. p.qos # 1
    BY <1>5
  <2>2. BrokerReply(p) = {Packet("PUBREC", p.id, 0)}
    BY <2>1, <1>5, Zenon DEF BrokerReply
  <2>3. p \in Requests
    BY <1>5 DEF Requests
  <2>4. r \in Packets /\ r.id = p.id
    BY <2>2, <1>0, PacketType
  <2> QED BY <2>3, <2>4
<1>6. CASE p.type = "PUBREL"
  <2>1. BrokerReply(p) = {Packet("PUBCOMP", p.id, 0)}
    BY <1>6, Zenon DEF BrokerReply
  <2>2. p \in Requests
    BY <1>6 DEF Requests
  <2>3. r \in Packets /\ r.id = p.id
    BY <2>1, <1>0, PacketType
  <2> QED BY <2>2, <2>3
<1>7. CASE p.type = "PUBREC"
  <2>1. BrokerReply(p) = {Packet("PUBREL", p.id, 0)}
    BY <1>7, Zenon DEF BrokerReply
  <2> QED BY <2>1, <1>0, <1>7, PacketType DEF Responses, Replies
<1>8. CASE p.type = "PINGREQ"
  <2>1. BrokerReply(p) = {Packet("PINGRESP", 0, 0)}
    BY <1>8, Zenon DEF BrokerReply
  <2> QED BY <2>1, <1>0, <1>8, PacketType DEF Responses, Replies
<1>9. CASE /\ p.type \notin {"CONNECT", "SUBSCRIBE", "UNSUBSCRIBE", "PUBREL", "PUBREC", "PINGREQ"}
           /\ ~(p.type = "PUBLISH" /\ p.qos = 1) /\ ~(p.type = "PUBLISH" /\ p.qos = 2)
  <2>1. BrokerReply(p) = {}
    BY <1>9, Zenon DEF BrokerReply
  <2> QED BY <2>1
<1> QED BY <1>1, <1>2, <1>3, <1>4, <1>5, <1>6, <1>7, <1>8, <1>9

\* It answers every ping.
LEMMA BrokerPongs ==
  ASSUME NEW p \in Pings
  PROVE  BrokerReply(p) # {} /\ \A r \in BrokerReply(p) : r \in Pongs
<1>1. BrokerReply(p) = {Packet("PINGRESP", 0, 0)}
  BY Zenon DEF BrokerReply, Pings
<1>2. "PINGRESP" \in Types /\ 0 \in 0 .. MaxPacketId /\ 0 \in 0 .. 2
  BY MqttAssumption DEF Types
<1> QED BY <1>1, <1>2, PacketType DEF Pongs

-----------------------------------------------------------------------------
(* Sending.                                                                *)

Linked == up \in Seq(Packets) /\ Len(up) <= UpMax /\ net \in {"up", "down", "garbled"} /\ pingDue \in BOOLEAN

LEMMA SendResult ==
  ASSUME Linked, NEW a \in Packets, SendOk(a) \/ SendFails
  PROVE  /\ Linked' /\ (net' = "up" => net = "up") /\ (net' = "down" <=> net = "down")
         /\ up' = up \/ (up' = Append(up, a) /\ net # "down")
         /\ SendOk(a) /\ net' = "up" => up' = Append(up, a)
<1>1. CASE SendOk(a)
  <2>1. Append(up, a) \in Seq(Packets) /\ Len(Append(up, a)) = Len(up) + 1
    BY DEF Linked
  <2>2. Len(up) \in Nat /\ UpMax \in Nat
    BY MqttAssumption DEF Linked
  <2>3. up' = up \/ up' = Append(up, a)
    BY <1>1 DEF SendOk
  <2>4. Len(up') <= UpMax
    BY <1>1, <2>1, <2>2, <2>3 DEF SendOk
  <2> QED BY <1>1, <2>1, <2>3, <2>4 DEF SendOk, Linked
<1>2. CASE SendFails
  <2>1. up' = up /\ pingDue' = pingDue
    BY <1>2 DEF SendFails
  <2>2. net' = net \/ (net = "up" /\ net' = "garbled")
    <3>1. CASE net = "up"
      BY <1>2, <3>1 DEF SendFails
    <3>2. CASE net # "up"
      BY <1>2, <3>2 DEF SendFails
    <3> QED BY <3>1, <3>2
  <2>3. SendOk(a) /\ net' = "up" => up' = Append(up, a)
    BY <2>2 DEF SendOk
  <2> QED BY <2>1, <2>2, <2>3 DEF Linked
<1> QED BY <1>1, <1>2

LEMMA KeepaliveResult ==
  ASSUME Linked, NEW o \in BOOLEAN, Keepalive(o)
  PROVE  /\ Linked' /\ (net' = "up" => net = "up") /\ (net' = "down" <=> net = "down")
         /\ up' = up \/ (up' = Append(up, Ping) /\ net # "down")
         /\ ping_outstanding' \in BOOLEAN
         /\ ping_outstanding' /\ net' = "up" => o \/ up' = Append(up, Ping)
<1>1. CASE SendOk(Ping) /\ ping_outstanding' = TRUE
  BY <1>1, SendResult, PingPacket
<1>2. CASE SendFails /\ ping_outstanding' = o
  BY <1>2, SendResult, PingPacket
<1>3. CASE ping_outstanding' = o /\ UNCHANGED <<net, up, pingDue>>
  BY <1>3 DEF Linked
<1> QED BY <1>1, <1>2, <1>3 DEF Keepalive, Ping

\* A round of cycle() sends at most one packet, the answer to what it read or a ping.
LEMMA CycleResult ==
  ASSUME Linked, ping_outstanding \in BOOLEAN, NEW p \in Packets, Cycle(p)
  PROVE  /\ Linked' /\ (net' = "up" => net = "up") /\ (net' = "down" <=> net = "down")
         /\ up' = up \/ \E a \in Answer(p) \union {Ping} : up' = Append(up, a) /\ net # "down"
         /\ ping_outstanding' \in BOOLEAN
         /\ ping_outstanding' /\ net' = "up"
              => (ping_outstanding /\ p.type # "PINGRESP") \/ up' = Append(up, Ping)
<1>1. CASE Keepalive(ping_outstanding /\ p.type # "PINGRESP")
  BY <1>1, KeepaliveResult
<1>2. CASE (\E a \in Answer(p) : SendOk(a) \/ SendFails) /\ UNCHANGED ping_outstanding
  <2> PICK a \in Answer(p) : SendOk(a) \/ SendFails
    BY <1>2
  <2>1. a \in Packets /\ p.type # "PINGRESP"
    BY AnswerResult
  <2> QED BY <2>1, <1>2, SendResult
<1> QED BY <1>1, <1>2 DEF Cycle

-----------------------------------------------------------------------------
(* Steps that do not carry an exchange on.                                 *)

\* An exchange that only loses packets stays that of its call.
LEMMA SameExchange ==
  ASSUME ExchangeInv, Keeps(up, up', Requests), Keeps(down, down', Responses), late' = late, call' = call
  PROVE  ExchangeInv'
<1>1. Foreign(Requests, call.id) \in SUBSET Requests /\ Foreign(Responses, call.id) \in SUBSET Responses
  BY DEF Foreign
<1>2. Requests \in SUBSET Requests /\ Responses \in SUBSET Responses
  OBVIOUS
<1> QED BY <1>1, <1>2 DEF ExchangeInv, Keeps

LEMMA SameConnects ==
  ASSUME ~Has(up, OddConnects), Keeps(up, up', Requests)
  PROVE  ~Has(up', OddConnects)
BY DEF Keeps, OddConnects

LEMMA SentHas ==
  ASSUME up \in Seq(Packets), NEW a \in Packets, up' = up \/ up' = Append(up, a), NEW T
  PROVE  /\ Has(up', T) => Has(up, T) \/ a \in T
         /\ Has(up, T) => Has(up', T)
         /\ AtMostOne(up, T) /\ (~Has(up, T) \/ a \notin T) => AtMostOne(up', T)
<1>1. CASE up' = up
  BY <1>1
<1>2. CASE up' = Append(up, a)
  <2>1. /\ Has(Append(up, a), T) <=> Has(up, T) \/ a \in T
        /\ AtMostOne(up, T) /\ (~Has(up, T) \/ a \notin T) => AtMostOne(Append(up, a), T)
    BY AppendHas
  <2> QED BY <1>2, <2>1
<1> QED BY <1>1, <1>2

\* What has been sent is none of the exchange's packets.
LEMMA SentAside ==
  ASSUME up \in Seq(Packets), NEW a \in Packets \ Requests, up' = up \/ up' = Append(up, a)
  PROVE  Keeps(up, up', Requests)
BY KeepsSame, KeepsAppend

\* Sending leaves a ping under way where it is.
LEMMA PingSend ==
  ASSUME up \in Seq(Packets), PingInv, NEW a \in Packets, up' = up \/ up' = Append(up, a),
         net' = "up" => net = "up", UNCHANGED <<ping_outstanding, down>>
  PROVE  PingInv'
<1>1. Has(up, Pings) => Has(up', Pings)
  BY SentHas
<1> QED BY <1>1 DEF PingInv

LEMMA PingKeepalive ==
  ASSUME Linked, ping_outstanding \in BOOLEAN, PingInv, Keepalive(ping_outstanding), down' = down
  PROVE  PingInv'
<1>1. CASE up' = Append(up, Ping)
  <2>1. Has(up', Pings)
    BY <1>1, AppendHas, PingPacket DEF Linked
  <2> QED BY <2>1 DEF PingInv
<1>2. CASE up' # Append(up, Ping)
  <2>1. up' = up /\ (net' = "up" => net = "up") /\ (ping_outstanding' /\ net' = "up" => ping_outstanding)
    BY <1>2, KeepaliveResult
  <2> QED BY <2>1 DEF PingInv
<1> QED BY <1>1, <1>2

\* Reading takes only the answer to a ping away, and then the flag is reset.
LEMMA PingRead ==
  ASSUME Linked, ping_outstanding \in BOOLEAN, down \in Seq(Packets), PingInv, Read, Cycle(Head(down))
  PROVE  PingInv'
<1> DEFINE p == Head(down)
<1>1. down # <<>> /\ down' = Tail(down)
  BY DEF Read
<1>2. p \in Packets
  BY <1>1
<1>3. CASE up' = Append(up, Ping)
  <2>1. Has(up', Pings)
    BY <1>3, AppendHas, PingPacket DEF Linked
  <2> QED BY <2>1 DEF PingInv
<1>4. CASE up' # Append(up, Ping)
  <2>1. /\ net' = "up" => net = "up"
        /\ ping_outstanding' /\ net' = "up" => ping_outstanding /\ p.type # "PINGRESP"
        /\ up' = up \/ \E a \in Answer(p) : up' = Append(up, a)
    BY <1>2, <1>4, CycleResult
  <2>2. Has(up, Pings) => Has(up', Pings)
    <3>1. \A a \in Answer(p) : a \in Packets
      BY <1>2, AnswerResult
    <3>2. ASSUME NEW a \in Answer(p), up' = Append(up, a) PROVE Has(up, Pings) => Has(up', Pings)
      BY <3>1, <3>2, SentHas DEF Linked
    <3>3. CASE up' = up
      BY <3>3
    <3> QED BY <2>1, <3>2, <3>3
  <2>3. p.type # "PINGRESP" /\ Has(down, Pongs) => Has(down', Pongs)
    <3>1. p.type # "PINGRESP" => p \notin Pongs
      BY DEF Pongs
    <3> QED BY <3>1, <1>1, TailHas
  <2> QED BY <2>1, <2>2, <2>3 DEF PingInv
<1> QED BY <1>3, <1>4

-----------------------------------------------------------------------------
(* The calls.                                                              *)

Results == [rc : {"none", "SUCCESSS", "FAILURE", "refused"}, clean : BOOLEAN, own : BOOLEAN]
CallSet == [op : Calls, wait : Replies \union {"none"}, id : 0 .. MaxPacketId, clean : BOOLEAN]

LEMMA ReturnResult ==
  ASSUME NEW rc \in {"SUCCESSS", "FAILURE"}, Return(rc)
  PROVE  ret' \in Results /\ ret'.own
BY DEF Return, NoResult, Results

\* A request begins an exchange: none is under way, unless a call has timed out.
LEMMA RequestStep ==
  ASSUME IInv, call = NoCall, NEW op \in Calls \ {"none"}, NEW type, NEW id \in 0 .. MaxPacketId,
         NEW qos, NEW wait \in Replies,
         Packet(type, id, qos) \in Requests \ OddConnects, Packet(type, id, qos).id = id,
         Request(op, type, id, qos, wait), UNCHANGED <<ping_outstanding, down, late, stolen>>
  PROVE  /\ Linked' /\ call' \in CallSet /\ expired' \in BOOLEAN /\ ret' \in Results
         /\ ExchangeInv' /\ ConnectionInv' /\ ReplyIsOwn' /\ PingInv'
<1> DEFINE a == Packet(type, id, qos)
<1>0. /\ Linked /\ up \in Seq(Packets) /\ TypeOK /\ a \in Packets
      /\ ExchangeInv /\ ConnectionInv /\ ReplyIsOwn /\ PingInv
  BY DEF IInv, TypeOK, Linked, Requests
<1>1. SendOk(a) \/ SendFails
  BY DEF Request
<1>2. /\ Linked' /\ (net' = "up" => net = "up") /\ (net' = "down" <=> net = "down")
      /\ up' = up \/ (up' = Append(up, a) /\ net # "down")
  BY <1>0, <1>1, SendResult
<1>3. PingInv'
  BY <1>0, <1>2, PingSend
<1>4. ~Has(up', OddConnects)
  BY <1>0, <1>2, SentHas DEF ConnectionInv
<1>5. CASE SendFails /\ Return("FAILURE") /\ UNCHANGED <<call, expired>>
  <2>1. up' = up
    BY <1>5 DEF SendFails
  <2>2. ExchangeInv'
    BY <2>1, <1>0, <1>5, SameExchange, KeepsSame
  <2>3. ConnectionInv'
    BY <2>1, <1>0, <1>2, <1>4, <1>5 DEF ConnectionInv
  <2>4. ret' \in Results /\ ret'.own
    BY <1>5, ReturnResult
  <2> QED BY <2>2, <2>3, <2>4, <1>0, <1>2, <1>3, <1>5 DEF TypeOK, CallSet, ReplyIsOwn
<1>6. CASE /\ SendOk(a) /\ expired' = FALSE /\ ret' = NoResult
           /\ call' = [op |-> op, wait |-> wait, id |-> id, clean |-> ~late]
  <2>1. call' \in CallSet /\ call'.id = id /\ call'.clean = ~late /\ call'.op # "none"
    BY <1>6, <1>0 DEF CallSet, TypeOK
  <2>2. call' # NoCall
    BY <2>1 DEF NoCall
  <2>3. ret' \in Results /\ ret'.own
    BY <1>6 DEF NoResult, Results
  <2>4. ConnectionInv'
    BY <2>1, <1>0, <1>2, <1>4 DEF ConnectionInv
  <2>5. ExchangeInv'
    <3> SUFFICES ASSUME ~late'
                 PROVE  /\ AtMostOne(up, Requests)' /\ AtMostOne(down, Responses)'
                        /\ ~(Has(up, Requests) /\ Has(down, Responses))'
                        /\ (call = NoCall => ~Has(up, Requests) /\ ~Has(down, Responses))'
                        /\ ~Has(up, Foreign(Requests, call.id))' /\ ~Has(down, Foreign(Responses, call.id))'
      BY DEF ExchangeInv
    <3>1. /\ ~Has(up, Requests) /\ ~Has(down, Responses)
          /\ AtMostOne(up, Requests) /\ AtMostOne(down, Responses)
      BY <1>0 DEF ExchangeInv
    <3>2. AtMostOne(up', Requests)
      BY <3>1, <1>0, <1>2, SentHas
    <3>3. ~Has(up, Foreign(Requests, id)) /\ ~Has(down, Foreign(Responses, id))
      BY <3>1 DEF Has, Foreign
    <3>4. a \notin Foreign(Requests, id)
      BY DEF Foreign
    <3>5. ~Has(up', Foreign(Requests, id))
      BY <3>3, <3>4, <1>0, <1>2, SentHas
    <3> QED BY <3>1, <3>2, <3>3, <3>5, <2>1, <2>2
  <2> QED BY <2>1, <2>3, <2>4, <2>5, <1>2, <1>3, <1>6 DEF ReplyIsOwn
<1> QED BY <1>5, <1>6 DEF Request

\* Sending without an exchange, and a step that sends nothing.
LEMMA AsideStep ==
  ASSUME IInv, NEW a \in Packets \ Requests, up' = up \/ (up' = Append(up, a) /\ net # "down"),
         net' = "up" => net = "up", net' = "down" <=> net = "down",
         UNCHANGED <<ping_outstanding, call, down, late>>
  PROVE  ExchangeInv' /\ ConnectionInv' /\ PingInv'
<1>0. up \in Seq(Packets) /\ ExchangeInv /\ ConnectionInv /\ PingInv
  BY DEF IInv, TypeOK
<1>1. Keeps(up, up', Requests) /\ Keeps(down, down', Responses)
  BY <1>0, SentAside, KeepsSame
<1>2. ExchangeInv'
  BY <1>0, <1>1, SameExchange
<1>3. ~Has(up', OddConnects)
  BY <1>0, <1>1, SameConnects DEF ConnectionInv
<1>4. ConnectionInv'
  BY <1>0, <1>3 DEF ConnectionInv
<1>5. PingInv'
  BY <1>0, PingSend
<1> QED BY <1>2, <1>4, <1>5

\* A call on a client that is not connected.
LEMMA RefusedStep ==
  ASSUME IInv, Refused, UNCHANGED <<isconnected, handlers, ping_outstanding, down, late, stolen>>,
         keepAlive' \in BOOLEAN
  PROVE  IInv'
<1>0. UNCHANGED <<next_packetid, call, expired, net, up, pingDue>>
  BY DEF Refused
<1>1. ret' \in Results /\ ret'.own
  BY ReturnResult DEF Refused
<1>2. ExchangeInv' /\ ConnectionInv' /\ PingInv'
  BY <1>0, AsideStep, PingPacket
<1>3. TypeOK'
  BY <1>0, <1>1 DEF IInv, TypeOK, Results
<1> QED BY <1>0, <1>1, <1>2, <1>3 DEF IInv, ReplyIsOwn, ReplyReachesCaller

LEMMA ConnectStep == IInv /\ MQTTConnect => IInv'
<1> SUFFICES ASSUME IInv, MQTTConnect PROVE IInv'
  OBVIOUS
<1>0. TypeOK
  BY DEF IInv
<1>1. call = NoCall /\ UNCHANGED <<isconnected, handlers, ping_outstanding, down, late, stolen>>
  BY DEF MQTTConnect
<1>2. CASE isconnected /\ Refused /\ UNCHANGED keepAlive
  BY <1>0, <1>1, <1>2, RefusedStep DEF TypeOK
<1>3. CASE /\ keepAlive' \in BOOLEAN /\ Request("connect", "CONNECT", 0, 0, "CONNACK")
           /\ UNCHANGED next_packetid
  <2>1. /\ "CONNECT" \in Types /\ 0 \in 0 .. MaxPacketId /\ 0 \in 0 .. 2
        /\ "connect" \in Calls \ {"none"} /\ "CONNACK" \in Replies
    BY MqttAssumption DEF Types, Calls, Replies
  <2>2. Packet("CONNECT", 0, 0) \in Requests \ OddConnects /\ Packet("CONNECT", 0, 0).id = 0
    BY <2>1, PacketType DEF Requests, OddConnects
  <2>3. /\ Linked' /\ call' \in CallSet /\ expired' \in BOOLEAN /\ ret' \in Results
        /\ ExchangeInv' /\ ConnectionInv' /\ ReplyIsOwn' /\ PingInv'
    BY <1>1, <1>3, <2>1, <2>2, RequestStep
  <2>4. TypeOK'
    BY <1>0, <1>1, <1>3, <2>3 DEF TypeOK, Linked, CallSet, Results
  <2> QED BY <1>1, <2>3, <2>4 DEF IInv, ReplyReachesCaller
<1> QED BY <1>2, <1>3 DEF MQTTConnect

LEMMA IdStep ==
  ASSUME IInv, NEW op \in Calls \ {"none"}, NEW type \in {"SUBSCRIBE", "UNSUBSCRIBE", "PUBLISH"},
         NEW qos \in 0 .. 2, type = "PUBLISH" => qos # 0, NEW wait \in Replies,
         IdRequest(op, type, qos, wait)
  PROVE  IInv'
<1>0. TypeOK
  BY DEF IInv
<1>1. call = NoCall /\ UNCHANGED <<isconnected, handlers, keepAlive, ping_outstanding, down, late, stolen>>
  BY DEF IdRequest
<1>2. CASE Refused
  BY <1>0, <1>1, <1>2, RefusedStep DEF TypeOK
<1>3. CASE next_packetid' = getNextPacketId /\ Request(op, type, next_packetid', qos, wait)
  <2>1. next_packetid' \in 1 .. MaxPacketId
    BY <1>0, <1>3, MqttAssumption DEF getNextPacketId, TypeOK
  <2>2. next_packetid' \in 0 .. MaxPacketId /\ type \in Types
    BY <2>1, MqttAssumption DEF Types
  <2>3. Packet(type, next_packetid', qos) \in Requests \ OddConnects
        /\ Packet(type, next_packetid', qos).id = next_packetid'
    BY <2>2, PacketType DEF Requests, OddConnects
  <2>4. /\ Linked' /\ call' \in CallSet /\ expired' \in BOOLEAN /\ ret' \in Results
        /\ ExchangeInv' /\ ConnectionInv' /\ ReplyIsOwn' /\ PingInv'
    <3> DEFINE id == next_packetid'
    <3>1. id \in 0 .. MaxPacketId /\ Packet(type, id, qos) \in Requests \ OddConnects
          /\ Packet(type, id, qos).id = id /\ Request(op, type, id, qos, wait)
      BY <1>3, <2>2, <2>3
    <3> HIDE DEF id
    <3> QED BY <1>1, <3>1, RequestStep
  <2>5. TypeOK'
    BY <1>0, <1>1, <2>1, <2>4 DEF TypeOK, Linked, CallSet, Results
  <2> QED BY <1>1, <2>4, <2>5 DEF IInv, ReplyReachesCaller
<1> QED BY <1>2, <1>3 DEF IdRequest

\* The requests with an id.
LEMMA IdSteps == IInv /\ (MQTTSubscribe \/ MQTTUnsubscribe \/ MQTTPublish) => IInv'
<1>1. /\ {"subscribe", "unsubscribe", "publish"} \subseteq Calls \ {"none"}
      /\ {"SUBACK", "UNSUBACK", "PUBACK", "PUBCOMP"} \subseteq Replies /\ {0, 1, 2} \subseteq 0 .. 2
  BY DEF Calls, Replies
<1>2. IInv /\ MQTTSubscribe => IInv'
  BY <1>1, IdStep DEF MQTTSubscribe
<1>3. IInv /\ MQTTUnsubscribe => IInv'
  BY <1>1, IdStep DEF MQTTUnsubscribe
<1>4. IInv /\ MQTTPublish => IInv'
  BY <1>1, IdStep DEF MQTTPublish
<1> QED BY <1>2, <1>3, <1>4

\* The calls without a reply.
LEMMA OneWayStep == IInv /\ (MQTTPublish0 \/ MQTTDisconnect) => IInv'
<1> SUFFICES ASSUME IInv, MQTTPublish0 \/ MQTTDisconnect PROVE IInv'
  OBVIOUS
<1>0. TypeOK /\ Linked
  BY DEF IInv, TypeOK, Linked
<1>1. /\ UNCHANGED <<next_packetid, handlers, keepAlive, ping_outstanding, call, expired, down, late, stolen>>
      /\ isconnected' \in BOOLEAN
  BY <1>0 DEF MQTTPublish0, MQTTDisconnect, client, TypeOK
<1>2. ret' \in Results /\ ret'.own
  BY ReturnResult DEF MQTTPublish0, MQTTDisconnect
<1>3. \A a \in {Packet("PUBLISH", 0, 0), Packet("DISCONNECT", 0, 0)} : a \in Packets \ Requests
  <2>1. {"PUBLISH", "DISCONNECT"} \subseteq Types /\ 0 \in 0 .. MaxPacketId /\ 0 \in 0 .. 2
    BY MqttAssumption DEF Types
  <2> QED BY <2>1, PacketType DEF Requests
<1>4. \E a \in Packets \ Requests :
        SendOk(a) \/ SendFails \/ UNCHANGED <<net, up, pingDue>>
  BY <1>3 DEF MQTTPublish0, MQTTDisconnect
<1>5. PICK a \in Packets \ Requests : SendOk(a) \/ SendFails \/ UNCHANGED <<net, up, pingDue>>
  BY <1>4
<1>6. /\ Linked' /\ (net' = "up" => net = "up") /\ (net' = "down" <=> net = "down")
      /\ up' = up \/ (up' = Append(up, a) /\ net # "down")
  <2>1. CASE SendOk(a) \/ SendFails
    BY <1>0, <2>1, SendResult
  <2>2. CASE UNCHANGED <<net, up, pingDue>>
    BY <1>0, <2>2 DEF Linked
  <2> QED BY <1>5, <2>1, <2>2
<1>7. ExchangeInv' /\ ConnectionInv' /\ PingInv'
  BY <1>1, <1>6, AsideStep
<1>8. TypeOK'
  BY <1>0, <1>1, <1>2, <1>6 DEF TypeOK, Linked, Results
<1> QED BY <1>1, <1>2, <1>7, <1>8 DEF IInv, ReplyIsOwn, ReplyReachesCaller

-----------------------------------------------------------------------------
(* Reading.                                                                *)

\* What one round of readPacket() and cycle() does to the connection.
ReadEffect(p) ==
  /\ down # <<>> /\ p = Head(down) /\ p \in Packets /\ down' = Tail(down)
  /\ down' \in Seq(Packets) /\ Len(down') <= DownMax
  /\ Linked' /\ (net' = "up" => net = "up") /\ (net' = "down" <=> net = "down")
  /\ \E a \in Answer(p) \union {Ping} : up' = up \/ (up' = Append(up, a) /\ net # "down")
  /\ ping_outstanding' \in BOOLEAN /\ PingInv'

LEMMA ReadResult ==
  ASSUME IInv, Read, Cycle(Head(down))
  PROVE  ReadEffect(Head(down))
<1>0. /\ Linked /\ ping_outstanding \in BOOLEAN /\ down \in Seq(Packets) /\ Len(down) <= DownMax
      /\ PingInv
  BY DEF IInv, TypeOK, Linked
<1>1. down # <<>> /\ down' = Tail(down)
  BY DEF Read
<1>2. Head(down) \in Packets /\ down' \in Seq(Packets) /\ Len(down') <= DownMax
  <2>1. Head(down) \in Packets /\ Tail(down) \in Seq(Packets) /\ Len(Tail(down)) = Len(down) - 1
    BY <1>0, <1>1
  <2>2. Len(down) \in Nat /\ DownMax \in Nat
    BY <1>0, MqttAssumption
  <2> QED BY <2>1, <2>2, <1>0, <1>1
<1>3. PingInv'
  BY <1>0, PingRead
<1>4. /\ Linked' /\ (net' = "up" => net = "up") /\ (net' = "down" <=> net = "down")
      /\ up' = up \/ \E a \in Answer(Head(down)) \union {Ping} : up' = Append(up, a) /\ net # "down"
      /\ ping_outstanding' \in BOOLEAN
  BY <1>0, <1>2, CycleResult
<1> QED BY <1>1, <1>2, <1>3, <1>4 DEF ReadEffect

\* A lost connection stays empty, and no CONNECT is made up.
LEMMA ReadConnection ==
  ASSUME IInv, NEW p, ReadEffect(p), late' = late, call' \in {call, NoCall}
  PROVE  ConnectionInv'
<1>0. ConnectionInv /\ up \in Seq(Packets)
  BY DEF IInv, TypeOK
<1>1. net # "down" /\ net' # "down"
  BY <1>0 DEF ReadEffect, ConnectionInv
<1>2. PICK a \in Answer(p) \union {Ping} : up' = up \/ (up' = Append(up, a) /\ net # "down")
  BY DEF ReadEffect
<1>3. p \in Packets
  BY DEF ReadEffect
<1>4. a \in Packets /\ a \notin OddConnects
  BY <1>3, AnswerResult, PingPacket DEF OddConnects
<1>5. ~Has(up', OddConnects)
  BY <1>0, <1>2, <1>4, SentHas DEF ConnectionInv
<1> QED BY <1>0, <1>1, <1>5 DEF ConnectionInv

\* A packet that does not end the call in progress: at most it carries its exchange on.
LEMMA ReadOnStep ==
  ASSUME IInv, NEW p, ReadEffect(p), late' = late, call' = call
  PROVE  ExchangeInv'
<1>0. ExchangeInv /\ up \in Seq(Packets) /\ down \in Seq(Packets)
  BY DEF IInv, TypeOK
<1>1. p \in Packets /\ down # <<>> /\ p = Head(down) /\ down' = Tail(down)
  BY DEF ReadEffect
<1>2. PICK a \in Answer(p) \union {Ping} : up' = up \/ (up' = Append(up, a) /\ net # "down")
  BY DEF ReadEffect
<1>3. a \in Packets /\ (a \in Requests => p.type = "PUBREC" /\ a.id = p.id)
  BY <1>1, AnswerResult, PingPacket
<1>4. CASE a \notin Requests
  <2>1. Keeps(up, up', Requests)
    BY <1>0, <1>2, <1>3, <1>4, SentAside
  <2>2. Keeps(down, down', Responses)
    BY <1>0, <1>1, KeepsTail
  <2> QED BY <1>0, <2>1, <2>2, SameExchange
<1>5. CASE a \in Requests
  <2> SUFFICES ASSUME ~late'
               PROVE  /\ AtMostOne(up, Requests)' /\ AtMostOne(down, Responses)'
                      /\ ~(Has(up, Requests) /\ Has(down, Responses))'
                      /\ (call = NoCall => ~Has(up, Requests) /\ ~Has(down, Responses))'
                      /\ ~Has(up, Foreign(Requests, call.id))' /\ ~Has(down, Foreign(Responses, call.id))'
    BY DEF ExchangeInv
  <2>1. p \in Responses
    BY <1>1, <1>3, <1>5 DEF Responses
  <2>2. Has(down, Responses) /\ (Has(down, Foreign(Responses, call.id)) <=>
            p \in Foreign(Responses, call.id) \/ Has(down', Foreign(Responses, call.id)))
    BY <2>1, <1>0, <1>1, TailHas
  <2>3. /\ AtMostOne(up, Requests) /\ ~Has(up, Requests) /\ AtMostOne(down, Responses) /\ call # NoCall
        /\ ~Has(up, Foreign(Requests, call.id)) /\ ~Has(down, Foreign(Responses, call.id))
    BY <2>2, <1>0 DEF ExchangeInv
  <2>4. ~Has(down', Responses) /\ AtMostOne(down', Responses)
    BY <2>1, <2>3, <1>0, <1>1, TailHas
  <2>5. AtMostOne(up', Requests)
    BY <2>3, <1>0, <1>2, <1>3, SentHas
  <2>6. a \notin Foreign(Requests, call.id)
    BY <2>1, <2>2, <2>3, <1>3, <1>5 DEF Foreign
  <2>7. ~Has(up', Foreign(Requests, call.id))
    BY <2>3, <2>6, <1>0, <1>2, <1>3, SentHas
  <2> QED BY <2>2, <2>3, <2>4, <2>5, <2>7
<1> QED BY <1>4, <1>5

\* The reply: as long as no call has timed out, it has the call's own id, and the exchange is over.
LEMMA ReplyStep ==
  ASSUME IInv, NEW p, ReadEffect(p), late' = late, call # NoCall, p.type = call.wait, Finish(p)
  PROVE  ExchangeInv' /\ ReplyIsOwn'
<1>0. ExchangeInv /\ ConnectionInv /\ up \in Seq(Packets) /\ down \in Seq(Packets) /\ call \in CallSet
  BY DEF IInv, TypeOK, CallSet
<1>1. p \in Packets /\ down # <<>> /\ p = Head(down) /\ down' = Tail(down)
  BY DEF ReadEffect
<1>2. call' = NoCall /\ ret'.clean = call.clean /\ ret'.own = (p.id = call.id)
  BY DEF Finish
<1>3. p.type \in Replies
  <2>1. p.type \in Types /\ call.wait \in Replies \union {"none"}
    BY <1>0, <1>1, PacketFields DEF CallSet
  <2>2. "none" \notin Types
    BY DEF Types, Replies
  <2> QED BY <2>1, <2>2
<1>4. p \in Responses
  BY <1>1, <1>3 DEF Responses
<1>5. PICK a \in Answer(p) \union {Ping} : up' = up \/ (up' = Append(up, a) /\ net # "down")
  BY DEF ReadEffect
<1>6. a \in Packets \ Requests
  <2>1. p.type # "PUBREC"
    BY <1>3 DEF Replies
  <2> QED BY <2>1, <1>1, AnswerResult, PingPacket
<1>7. ASSUME ~late PROVE p.id = call.id
  <2>1. ~Has(down, Foreign(Responses, call.id))
    BY <1>0, <1>7 DEF ExchangeInv
  <2>2. p \notin Foreign(Responses, call.id)
    BY <2>1, <1>0, <1>1, TailHas
  <2> QED BY <2>2, <1>4 DEF Foreign
<1>8. ReplyIsOwn'
  BY <1>0, <1>2, <1>7 DEF ReplyIsOwn, ConnectionInv
<1>9. ExchangeInv'
  <2> SUFFICES ASSUME ~late'
               PROVE  /\ AtMostOne(up, Requests)' /\ AtMostOne(down, Responses)'
                      /\ ~(Has(up, Requests) /\ Has(down, Responses))'
                      /\ (call = NoCall => ~Has(up, Requests) /\ ~Has(down, Responses))'
                      /\ ~Has(up, Foreign(Requests, call.id))' /\ ~Has(down, Foreign(Responses, call.id))'
    BY DEF ExchangeInv
  <2>1. Has(down, Responses)
    BY <1>0, <1>1, <1>4, TailHas
  <2>2. AtMostOne(up, Requests) /\ ~Has(up, Requests) /\ AtMostOne(down, Responses)
    BY <2>1, <1>0 DEF ExchangeInv
  <2>3. ~Has(down', Responses) /\ AtMostOne(down', Responses)
    BY <2>2, <1>0, <1>1, <1>4, TailHas
  <2>4. ~Has(up', Requests) /\ AtMostOne(up', Requests)
    BY <2>2, <1>0, <1>5, <1>6, SentHas
  <2>5. ~Has(up', Foreign(Requests, call'.id)) /\ ~Has(down', Foreign(Responses, call'.id))
    BY <2>3, <2>4 DEF Has, Foreign
  <2> QED BY <2>3, <2>4, <2>5
<1> QED BY <1>8, <1>9

LEMMA WaitReadStep == IInv /\ WaitRead => IInv'
<1> SUFFICES ASSUME IInv, WaitRead PROVE IInv'
  OBVIOUS
<1> DEFINE p == Head(down)
<1>0. TypeOK
  BY DEF IInv
<1>1. ReadEffect(p)
  BY ReadResult DEF WaitRead
<1>2. call # NoCall /\ UNCHANGED <<next_packetid, keepAlive, expired, late, stolen>>
  BY DEF WaitRead
<1>3. PingInv' /\ Linked' /\ ping_outstanding' \in BOOLEAN /\ down' \in Seq(Packets) /\ Len(down') <= DownMax
  BY <1>1 DEF ReadEffect
<1>4. CASE p.type = call.wait /\ Finish(p)
  <2>1. call' = NoCall
    BY <1>4 DEF Finish
  <2>2. ExchangeInv' /\ ReplyIsOwn' /\ ConnectionInv'
    BY <1>1, <1>2, <1>4, <2>1, ReplyStep, ReadConnection
  <2>3. call' \in CallSet
    BY <2>1, MqttAssumption DEF NoCall, CallSet, Calls
  <2>4. ret' \in Results
    <3>1. ret' = [rc |-> IF p.qos = 0 THEN "SUCCESSS" ELSE "refused", clean |-> call.clean, own |-> p.id = call.id]
      BY <1>4 DEF Finish
    <3>2. call.clean \in BOOLEAN /\ (p.id = call.id) \in BOOLEAN
      BY <1>0 DEF TypeOK
    <3> QED BY <3>1, <3>2 DEF Results
  <2>5. isconnected' \in BOOLEAN
    BY <1>4, <1>0 DEF Finish, TypeOK
  <2>6. handlers' \in 0 .. MaxHandlers
    BY <1>4, <1>0, MqttAssumption DEF Finish, TypeOK
  <2>7. TypeOK'
    BY <1>0, <1>2, <1>3, <2>3, <2>4, <2>5, <2>6 DEF TypeOK, Linked, CallSet, Results
  <2> QED BY <1>2, <1>3, <2>2, <2>7 DEF IInv, ReplyReachesCaller
<1>5. CASE UNCHANGED <<call, ret, isconnected, handlers>>
  <2>1. ExchangeInv' /\ ConnectionInv'
    BY <1>1, <1>2, <1>5, ReadOnStep, ReadConnection
  <2>2. TypeOK'
    BY <1>0, <1>2, <1>3, <1>5 DEF TypeOK, Linked
  <2> QED BY <1>2, <1>3, <1>5, <2>1, <2>2 DEF IInv, ReplyIsOwn, ReplyReachesCaller
<1> QED BY <1>4, <1>5 DEF WaitRead

\* A round in which nothing is read, of a call or of the task.
LEMMA NothingStep ==
  ASSUME IInv, Keepalive(ping_outstanding), UNCHANGED <<client, call, expired, ret, down, late, stolen>>
  PROVE  IInv'
<1>0. TypeOK /\ Linked /\ ping_outstanding \in BOOLEAN /\ PingInv
  BY DEF IInv, TypeOK, Linked
<1>1. /\ Linked' /\ (net' = "up" => net = "up") /\ (net' = "down" <=> net = "down")
      /\ up' = up \/ (up' = Append(up, Ping) /\ net # "down")
      /\ ping_outstanding' \in BOOLEAN
  BY <1>0, KeepaliveResult
<1>2. ExchangeInv'
  <2>1. Keeps(up, up', Requests) /\ Keeps(down, down', Responses)
    BY <1>0, <1>1, PingPacket, SentAside, KeepsSame DEF Linked
  <2> QED BY <2>1, SameExchange DEF IInv
<1>3. ConnectionInv'
  <2>1. ~Has(up', OddConnects)
    BY <1>0, <1>1, PingPacket, SentAside, SameConnects DEF IInv, ConnectionInv, Linked
  <2> QED BY <2>1, <1>1 DEF IInv, ConnectionInv
<1>4. PingInv'
  BY <1>0, PingKeepalive
<1>5. TypeOK'
  BY <1>0, <1>1 DEF TypeOK, Linked, client
<1> QED BY <1>2, <1>3, <1>4, <1>5 DEF IInv, ReplyIsOwn, ReplyReachesCaller

\* The task reads only while no call waits.
LEMMA RunStep == IInv /\ MQTTRun => IInv'
<1> SUFFICES ASSUME IInv, MQTTRun PROVE IInv'
  OBVIOUS
<1>0. TypeOK /\ call = NoCall /\ UNCHANGED <<client, call, expired, ret, late>> /\ stolen' = stolen
  <2>1. TypeOK /\ stolen = FALSE
    BY DEF IInv, TypeOK, ReplyReachesCaller
  <2> QED BY <2>1 DEF MQTTRun
<1>1. CASE Read /\ Cycle(Head(down))
  <2>1. ReadEffect(Head(down))
    BY <1>1, ReadResult
  <2>2. ExchangeInv' /\ ConnectionInv'
    BY <1>0, <2>1, ReadOnStep, ReadConnection
  <2>3. PingInv' /\ Linked' /\ ping_outstanding' \in BOOLEAN /\ down' \in Seq(Packets) /\ Len(down') <= DownMax
    BY <2>1 DEF ReadEffect
  <2>4. TypeOK'
    BY <1>0, <2>3 DEF TypeOK, Linked, client
  <2> QED BY <1>0, <2>2, <2>3, <2>4 DEF IInv, ReplyIsOwn, ReplyReachesCaller
<1>2. CASE Keepalive(ping_outstanding) /\ down' = down
  BY <1>0, <1>2, NothingStep
<1> QED BY <1>1, <1>2 DEF MQTTRun

-----------------------------------------------------------------------------
(* The timers, the connection and the broker.                              *)

\* Steps that touch neither the connection nor the call's exchange.
LEMMA TimerStep ==
  ASSUME IInv, WaitNothing \/ WaitTimeout \/ TimerExpires \/ PingTimerExpires
  PROVE  IInv'
<1>0. TypeOK
  BY DEF IInv
<1>1. CASE WaitNothing
  BY <1>1, NothingStep DEF WaitNothing
<1>2. CASE WaitTimeout
  <2>1. /\ UNCHANGED <<client, ping_outstanding, pingDue, net, up, down, stolen>>
        /\ call' = NoCall /\ expired' = FALSE /\ late' = TRUE
    BY <1>2 DEF WaitTimeout
  <2>2. ret' \in Results /\ ret'.own
    BY <1>2, ReturnResult DEF WaitTimeout
  <2>3. NoCall \in CallSet
    BY MqttAssumption DEF NoCall, CallSet, Calls
  <2>4. TypeOK'
    BY <1>0, <2>1, <2>2, <2>3 DEF TypeOK, Results, CallSet, client
  <2> QED BY <2>1, <2>2, <2>4
          DEF IInv, ExchangeInv, ConnectionInv, PingInv, ReplyIsOwn, ReplyReachesCaller
<1>3. CASE TimerExpires \/ PingTimerExpires
  <2>1. /\ UNCHANGED <<client, ping_outstanding, call, ret, net, up, down, late, stolen>>
        /\ expired' \in BOOLEAN /\ pingDue' \in BOOLEAN
    BY <1>0, <1>3 DEF TimerExpires, PingTimerExpires, TypeOK
  <2>2. TypeOK'
    BY <1>0, <2>1 DEF TypeOK, client
  <2> QED BY <2>1, <2>2
          DEF IInv, ExchangeInv, ConnectionInv, PingInv, ReplyIsOwn, ReplyReachesCaller
<1> QED BY <1>1, <1>2, <1>3

\* The broker's answer takes the place of what it answers.
LEMMA BrokerAnswers ==
  ASSUME IInv, BrokerStep
  PROVE  IInv'
<1> DEFINE p == Head(up)
<1>0. /\ TypeOK /\ ExchangeInv /\ ConnectionInv /\ PingInv
      /\ up \in Seq(Packets) /\ down \in Seq(Packets) /\ up # <<>> /\ up' = Tail(up) /\ net = "up"
      /\ UNCHANGED <<client, ping_outstanding, pingDue, call, expired, ret, net, late, stolen>>
  BY DEF IInv, TypeOK, BrokerStep
<1>1. p \in Packets /\ up' \in Seq(Packets) /\ Len(up') <= UpMax
  <2>1. Head(up) \in Packets /\ Tail(up) \in Seq(Packets) /\ Len(Tail(up)) = Len(up) - 1
    BY <1>0
  <2>2. Len(up) \in Nat /\ UpMax \in Nat /\ Len(up) <= UpMax
    BY <1>0, MqttAssumption DEF TypeOK
  <2> QED BY <2>1, <2>2, <1>0
<1>2. Keeps(up, up', Requests)
  BY <1>0, KeepsTail
<1>3. ConnectionInv'
  BY <1>0, <1>2, SameConnects DEF ConnectionInv
<1>4. p \notin Pings /\ Has(up, Pings) => Has(up', Pings)
  BY <1>0, TailHas
<1>5. CASE BrokerReply(p) = {} /\ UNCHANGED down
  <2>1. ExchangeInv'
    BY <1>0, <1>2, <1>5, KeepsSame, SameExchange
  <2>2. p \notin Pings
    BY <1>5, BrokerPongs
  <2>3. PingInv'
    BY <2>2, <1>0, <1>4, <1>5 DEF PingInv
  <2>4. TypeOK'
    BY <1>0, <1>1, <1>5 DEF TypeOK, client
  <2> QED BY <1>0, <1>3, <2>1, <2>3, <2>4 DEF IInv, ReplyIsOwn, ReplyReachesCaller
<1>6. ASSUME NEW r \in BrokerReply(p), Len(down) < DownMax, down' = Append(down, r)
      PROVE  IInv'
  <2>1. /\ r \in Packets
        /\ r \in Responses => p \in Requests /\ (r.id = p.id \/ (p.type = "CONNECT" /\ r.id = 0))
    BY <1>1, BrokerResult
  <2>2. down' \in Seq(Packets) /\ Len(down') <= DownMax
    <3>1. Append(down, r) \in Seq(Packets) /\ Len(Append(down, r)) = Len(down) + 1
      BY <2>1, <1>0
    <3>2. Len(down) \in Nat /\ DownMax \in Nat
      BY <1>0, MqttAssumption
    <3> QED BY <3>1, <3>2, <1>6
  <2>3. PingInv'
    <3>1. p \in Pings => r \in Pongs
      BY BrokerPongs
    <3>2. (Has(down, Pongs) \/ r \in Pongs) => Has(down', Pongs)
      BY <2>1, <1>0, <1>6, AppendHas
    <3> QED BY <3>1, <3>2, <1>0, <1>4 DEF PingInv
  <2>4. ExchangeInv'
    <3>1. CASE r \notin Responses
      <4>1. Keeps(down, down', Responses)
        BY <3>1, <2>1, <1>0, <1>6, KeepsAppend
      <4> QED BY <4>1, <1>0, <1>2, SameExchange
    <3>2. CASE r \in Responses
      <4> SUFFICES ASSUME ~late'
                   PROVE  /\ AtMostOne(up, Requests)' /\ AtMostOne(down, Responses)'
                          /\ ~(Has(up, Requests) /\ Has(down, Responses))'
                          /\ (call = NoCall => ~Has(up, Requests) /\ ~Has(down, Responses))'
                          /\ ~Has(up, Foreign(Requests, call.id))' /\ ~Has(down, Foreign(Responses, call.id))'
        BY DEF ExchangeInv
      <4>1. p \in Requests /\ Has(up, Requests)
        BY <3>2, <2>1, <1>0, TailHas
      <4>2. /\ AtMostOne(up, Requests) /\ AtMostOne(down, Responses) /\ ~Has(down, Responses)
            /\ call # NoCall /\ ~Has(up, Foreign(Requests, call.id)) /\ ~Has(down, Foreign(Responses, call.id))
        BY <4>1, <1>0 DEF ExchangeInv
      <4>3. ~Has(up', Requests) /\ AtMostOne(up', Requests)
        BY <4>1, <4>2, <1>0, TailHas
      <4>4. AtMostOne(down', Responses)
        BY <4>2, <2>1, <1>0, <1>6, AppendHas
      <4>5. p \notin Foreign(Requests, call.id) /\ p \notin OddConnects
        BY <4>2, <1>0, TailHas DEF ConnectionInv
      <4>6. r.id = call.id
        BY <4>1, <4>5, <3>2, <2>1 DEF Foreign, OddConnects
      <4>7. ~Has(down', Foreign(Responses, call.id))
        <5>1. r \notin Foreign(Responses, call.id)
          BY <4>6 DEF Foreign
        <5> QED BY <5>1, <4>2, <2>1, <1>0, <1>6, AppendHas
      <4>8. ~Has(up', Foreign(Requests, call.id))
        BY <4>3 DEF Has, Foreign
      <4> QED BY <4>2, <4>3, <4>4, <4>7, <4>8, <1>0
    <3> QED BY <3>1, <3>2
  <2>5. TypeOK'
    BY <1>0, <1>1, <2>2 DEF TypeOK, client
  <2> QED BY <1>0, <1>3, <2>3, <2>4, <2>5 DEF IInv, ReplyIsOwn, ReplyReachesCaller
<1> QED BY <1>5, <1>6 DEF BrokerStep

\* A message of the broker's own belongs to no exchange of the client.
LEMMA PublishStep ==
  ASSUME IInv, BrokerPublishes
  PROVE  IInv'
<1>0. /\ TypeOK /\ ExchangeInv /\ ConnectionInv /\ PingInv /\ down \in Seq(Packets)
      /\ net = "up" /\ Len(down) < DownMax
      /\ UNCHANGED <<client, ping_outstanding, pingDue, call, expired, ret, net, up, late, stolen>>
  BY DEF IInv, TypeOK, BrokerPublishes
<1>1. PICK q \in PublishQoS : down' = Append(down, Packet("PUBLISH", 1, q))
  BY DEF BrokerPublishes
<1> DEFINE r == Packet("PUBLISH", 1, q)
<1>2. r \in Packets /\ r \notin Responses
  <2>1. "PUBLISH" \in Types /\ 1 \in 0 .. MaxPacketId /\ q \in 0 .. 2
    BY MqttAssumption DEF Types
  <2> QED BY <2>1, PacketType DEF Responses, Replies
<1>3. down' = Append(down, r)
  BY <1>1
<1> HIDE DEF r
<1>4. down' \in Seq(Packets) /\ Len(down') <= DownMax
  <2>1. Append(down, r) \in Seq(Packets) /\ Len(Append(down, r)) = Len(down) + 1
    BY <1>0, <1>2
  <2>2. Len(down) \in Nat /\ DownMax \in Nat
    BY <1>0, MqttAssumption
  <2> QED BY <2>1, <2>2, <1>0, <1>3
<1>5. ExchangeInv'
  <2>1. Keeps(down, down', Responses) /\ Keeps(up, up', Requests)
    BY <1>0, <1>2, <1>3, KeepsAppend, KeepsSame
  <2> QED BY <2>1, <1>0, SameExchange
<1>6. PingInv'
  <2>1. Has(down, Pongs) => Has(down', Pongs)
    BY <1>0, <1>2, <1>3, AppendHas
  <2> QED BY <2>1, <1>0 DEF PingInv
<1>7. TypeOK' /\ ConnectionInv'
  BY <1>0, <1>4 DEF TypeOK, ConnectionInv, client
<1> QED BY <1>0, <1>5, <1>6, <1>7 DEF IInv, ReplyIsOwn, ReplyReachesCaller

\* The end of a connection takes all packets with it.
LEMMA LostStep ==
  ASSUME IInv, ConnectionLost \/ Restart
  PROVE  IInv'
<1>0. TypeOK /\ ExchangeInv /\ ConnectionInv
  BY DEF IInv
<1>1. up' = <<>> /\ down' = <<>>
  BY <1>0 DEF ConnectionLost, Restart, ConnectionInv
<1>2. /\ UNCHANGED <<keepAlive, pingDue, call, expired, ret, stolen>>
      /\ net' \in {"up", "down"} /\ (net' = "up" => ~ping_outstanding')
      /\ isconnected' \in BOOLEAN /\ ping_outstanding' \in BOOLEAN /\ late' \in BOOLEAN
      /\ next_packetid' \in 1 .. MaxPacketId /\ handlers' \in 0 .. MaxHandlers
      /\ late' = late \/ call = NoCall
  <2>1. CASE ConnectionLost
    BY <1>0, <2>1 DEF ConnectionLost, client, TypeOK
  <2>2. CASE Restart
    <3>1. 1 \in 1 .. MaxPacketId /\ 0 \in 0 .. MaxHandlers
      BY MqttAssumption
    <3> QED BY <1>0, <2>2, <3>1 DEF Restart, client, TypeOK
  <2> QED BY <2>1, <2>2
<1>3. <<>> \in Seq(Packets) /\ Len(<<>>) = 0 /\ 0 <= UpMax /\ 0 <= DownMax
  BY MqttAssumption
<1>4. TypeOK'
  BY <1>0, <1>1, <1>2, <1>3 DEF TypeOK
<1>5. ExchangeInv'
  BY <1>1, EmptyQueue DEF ExchangeInv
<1>6. ConnectionInv'
  BY <1>0, <1>1, <1>2, EmptyQueue DEF ConnectionInv
<1>7. PingInv'
  BY <1>2 DEF PingInv
<1> QED BY <1>2, <1>4, <1>5, <1>6, <1>7 DEF IInv, ReplyIsOwn, ReplyReachesCaller

-----------------------------------------------------------------------------
\* A new client: nothing is under way.
LEMMA InitHolds == Init => IInv
<1> SUFFICES ASSUME Init PROVE IInv
  OBVIOUS
<1>1. up = <<>> /\ down = <<>> /\ <<>> \in Seq(Packets) /\ Len(<<>>) = 0
  BY DEF Init
<1>2. NoCall \in CallSet /\ NoResult \in Results
  BY MqttAssumption DEF NoCall, CallSet, NoResult, Results, Calls
<1>3. TypeOK
  <2>1. 1 \in 1 .. MaxPacketId /\ 0 \in 0 .. MaxHandlers /\ 0 <= UpMax /\ 0 <= DownMax
    BY MqttAssumption
  <2>2. call \in CallSet /\ ret \in Results
    BY <1>2 DEF Init
  <2> QED BY <1>1, <2>1, <2>2 DEF Init, TypeOK, CallSet, Results
<1>4. ExchangeInv
  BY <1>1, EmptyQueue DEF ExchangeInv
<1>5. ConnectionInv
  BY <1>1, EmptyQueue DEF Init, ConnectionInv
<1> QED BY <1>3, <1>4, <1>5 DEF Init, IInv, PingInv, ReplyIsOwn, ReplyReachesCaller, NoResult

\* Every step preserves the inductive invariant.
LEMMA Inductive == IInv /\ [Next]_vars => IInv'
<1> SUFFICES ASSUME IInv, [Next]_vars PROVE IInv'
  OBVIOUS
<1>1. CASE UNCHANGED vars
  <2>1. /\ UNCHANGED <<isconnected, next_packetid, handlers, keepAlive, ping_outstanding, pingDue, call>>
        /\ UNCHANGED <<expired, ret, net, up, down, late, stolen>>
    BY <1>1 DEF vars, client
  <2> QED BY <2>1
          DEF IInv, TypeOK, ExchangeInv, ConnectionInv, PingInv, ReplyIsOwn, ReplyReachesCaller
<1> QED BY <1>1, ConnectStep, IdSteps, OneWayStep, WaitReadStep, RunStep, TimerStep,
           BrokerAnswers, PublishStep, LostStep DEF Next

(* The client's variables and the packets under way keep their types.      *)
THEOREM TypeCorrect == Spec => []TypeOK
<1>1. IInv => TypeOK
  BY DEF IInv
<1> QED BY <1>1, InitHolds, Inductive, PTL DEF Spec

(* The background task never reads the reply a call waits for.             *)
THEOREM RepliesReachCallers == Spec => []ReplyReachesCaller
<1>1. IInv => ReplyReachesCaller
  BY DEF IInv
<1> QED BY <1>1, InitHolds, Inductive, PTL DEF Spec

(* For any packet ids, queues and QoS, although waitfor() compares only    *)
(* types: as long as no call has timed out on the connection, the reply    *)
(* that ends a call is the one to its own request.                         *)
THEOREM RepliesAreOwn == Spec => []ReplyIsOwn
<1>1. IInv => ReplyIsOwn
  BY DEF IInv
<1> QED BY <1>1, InitHolds, Inductive, PTL DEF Spec

(* Whatever is sent, lost or answered: while ping_outstanding is set on a  *)
(* working connection, the ping or its answer is under way.                *)
THEOREM PingsUnderWay == Spec => []PingUnderWay
<1>1. IInv => PingUnderWay
  <2> SUFFICES ASSUME IInv, ping_outstanding, net = "up"
               PROVE  \/ \E k \in DOMAIN up : up[k].type = "PINGREQ"
                      \/ \E k \in DOMAIN down : down[k].type = "PINGRESP"
    BY DEF PingUnderWay
  <2>1. DOMAIN up = 1 .. Len(up) /\ DOMAIN down = 1 .. Len(down)
    BY DEF IInv, TypeOK
  <2>2. Has(up, Pings) \/ Has(down, Pongs)
    BY DEF IInv, PingInv
  <2> QED BY <2>1, <2>2 DEF Has, Pings, Pongs
<1> QED BY <1>1, InitHolds, Inductive, PTL DEF Spec
=============================================================================
