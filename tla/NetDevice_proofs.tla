--------------------------- MODULE NetDevice_proofs ---------------------------
(***************************************************************************)
(* A client device reports its connections in turn, for any number of      *)
(* sockets, devices and samples of every kind, and any interleaving of the *)
(* polling loop with the chip, the peers, the cable and the application.   *)
(***************************************************************************)
EXTENDS NetDevice, TLAPS

\* A connection is under way, or its CON interrupt has not been looked at.
Pending(s) == s.sr \in {"INIT", "SYNSENT"} \/ "CON" \in s.ir

Listening(s) == s.sr \in {"LISTEN", "SYNRECV"}

\* No connection yet: a socket gets here only by being opened.
Early(s) == s.sr \in {"INIT", "SYNSENT", "LISTEN", "SYNRECV"}

\* Only a served slot has a socket, and a client never listens.
SlotsOK ==
  \A i \in Slots :
    /\ dev[i].kind = "NONE" => sock[i] = ClosedSocket
    /\ dev[i].kind = "TCPC" => ~Listening(sock[i])

\* What the round remembers of the status it has read: a slot with a device, a connection
\* that may have ended but not begun anew, and no client in listen().
RoundOK ==
  /\ pc.at \notin {"app", "serve"} => dev[pc.i].kind # "NONE"
  /\ pc.at = "con" => ~Early(sock[pc.i])
  /\ pc.at \in {"listen", "listen_sr"} => dev[pc.i].kind # "TCPC"

IInv == TypeOK /\ SlotsOK /\ RoundOK /\ ClientReportsInTurn

-----------------------------------------------------------------------------
(* What the operations of SocketOps do to a socket.                        *)

DevSocket == [sr : Status \union {"UDP"}, ir : SUBSET {"CON", "TIMEOUT"}, rx : BOOLEAN]

\* A step that begins nothing new: t is no further from a report than s.
Continues(s, t) ==
  /\ t \in DevSocket
  /\ Pending(t) => Pending(s) \/ Listening(s)
  /\ Listening(t) => Listening(s)
  /\ Early(t) => Early(s)

LEMMA SocketFields ==
  ASSUME NEW s \in DevSocket
  PROVE  /\ s.sr \in Status \union {"UDP"} /\ s.ir \in SUBSET {"CON", "TIMEOUT"} /\ s.rx \in BOOLEAN
         /\ s = [sr |-> s.sr, ir |-> s.ir, rx |-> s.rx]
BY DEF DevSocket

LEMMA CommandStatus ==
  \A x : /\ AfterCommand("LISTEN", x) = IF x = "INIT" THEN "LISTEN" ELSE x
         /\ AfterCommand("CONNECT", x) = IF x = "INIT" THEN "SYNSENT" ELSE x
         /\ AfterCommand("DISCON", x) \in {x, "CLOSED", "FIN_WAIT", "LAST_ACK"}
BY Zenon DEF AfterCommand

LEMMA CloseContinues ==
  ASSUME NEW s \in DevSocket
  PROVE  Continues(s, Close(s)) /\ Close(s).sr = "CLOSED" /\ Close(s).ir = {}
BY DEF DevSocket, Close, Continues, Pending, Listening, Early, Status

LEMMA ReopenFresh ==
  ASSUME NEW s \in DevSocket, NEW t \in {Reopen(s), [Reopen(s) EXCEPT !.sr = "UDP"]}
  PROVE  t \in DevSocket /\ ~Listening(t)
<1>1. Reopen(s) \in DevSocket /\ Reopen(s).sr = "INIT"
  BY DEF DevSocket, Reopen, Open, Close, Status
<1>2. [Reopen(s) EXCEPT !.sr = "UDP"] \in DevSocket /\ [Reopen(s) EXCEPT !.sr = "UDP"].sr = "UDP"
  BY <1>1 DEF DevSocket
<1> QED BY <1>1, <1>2 DEF Listening

LEMMA ResetContinues == \A s : Continues(s, ClosedSocket)
BY DEF DevSocket, ClosedSocket, Continues, Pending, Listening, Early, Status

LEMMA DataContinues ==
  ASSUME NEW s \in DevSocket, NEW b \in BOOLEAN
  PROVE  Continues(s, s) /\ Continues(s, [s EXCEPT !.rx = b])
BY DEF DevSocket, Continues, Pending, Listening, Early

LEMMA ClearContinues ==
  ASSUME NEW s \in DevSocket, NEW x \in {"CON", "TIMEOUT"}
  PROVE  /\ Continues(s, [s EXCEPT !.ir = @ \ {x}])
         /\ [s EXCEPT !.ir = @ \ {x}].sr = s.sr
         /\ [s EXCEPT !.ir = @ \ {x}].ir = s.ir \ {x}
<1>1. s.ir \ {x} \in SUBSET {"CON", "TIMEOUT"}
  BY SocketFields
<1> QED BY <1>1 DEF DevSocket, Continues, Pending, Listening, Early

LEMMA SendContinues ==
  ASSUME NEW s \in DevSocket, NEW t \in SendResults(s)
  PROVE  Continues(s, t)
BY CloseContinues, DataContinues DEF SendResults

LEMMA RecvContinues ==
  ASSUME NEW s \in DevSocket, NEW t \in RecvResults(s)
  PROVE  Continues(s, t)
BY CloseContinues, DataContinues DEF RecvResults

LEMMA DisconContinues ==
  ASSUME NEW s \in DevSocket
  PROVE  Continues(s, Command("DISCON", s))
<1>1. AfterCommand("DISCON", s.sr) \in {s.sr, "CLOSED", "FIN_WAIT", "LAST_ACK"}
  BY CommandStatus
<1>2. Command("DISCON", s) = [sr |-> AfterCommand("DISCON", s.sr), ir |-> s.ir, rx |-> s.rx]
  BY SocketFields DEF Command
<1> QED BY <1>1, <1>2, SocketFields DEF DevSocket, Continues, Pending, Listening, Early, Status

LEMMA ConnectContinues ==
  ASSUME NEW s \in DevSocket, s.sr = "INIT"
  PROVE  Continues(s, Command("CONNECT", s))
<1>1. AfterCommand("CONNECT", s.sr) = "SYNSENT"
  BY CommandStatus
<1>2. Command("CONNECT", s) = [sr |-> "SYNSENT", ir |-> s.ir, rx |-> s.rx]
  BY <1>1, SocketFields DEF Command
<1> QED BY <1>2, SocketFields DEF DevSocket, Continues, Pending, Listening, Early, Status

LEMMA NetContinues ==
  ASSUME NEW s \in DevSocket, NEW t \in NetSteps(s)
  PROVE  Continues(s, t) /\ s # ClosedSocket
<1>1. CASE t \in PeerConnects(s)
  <2>1. s.sr = "LISTEN" /\ t = [sr |-> "SYNRECV", ir |-> s.ir, rx |-> s.rx]
    BY <1>1, SocketFields DEF PeerConnects, When
  <2> QED BY <2>1, SocketFields DEF DevSocket, Status, Continues, Pending, Listening, Early, ClosedSocket
<1>2. CASE t \in HandshakeDone(s)
  <2>1. s.ir \union {"CON"} \in SUBSET {"CON", "TIMEOUT"}
    BY SocketFields
  <2>2. s.sr \in {"SYNSENT", "SYNRECV"} /\ t = [sr |-> "ESTABLISHED", ir |-> s.ir \union {"CON"}, rx |-> s.rx]
    BY <1>2, SocketFields DEF HandshakeDone, When
  <2> QED BY <2>1, <2>2, SocketFields DEF DevSocket, Status, Continues, Pending, Listening, Early, ClosedSocket
<1>3. CASE t \in DataArrives(s)
  <2>1. s.sr \in {"ESTABLISHED", "FIN_WAIT"} /\ t = [sr |-> s.sr, ir |-> s.ir, rx |-> TRUE]
    BY <1>3, SocketFields DEF DataArrives, When
  <2> QED BY <2>1, SocketFields DEF DevSocket, Status, Continues, Pending, Listening, Early, ClosedSocket
<1>4. CASE t \in PeerCloses(s)
  <2>1. s.sr = "ESTABLISHED" /\ t = [sr |-> "CLOSE_WAIT", ir |-> s.ir, rx |-> s.rx]
    BY <1>4, SocketFields DEF PeerCloses, When
  <2> QED BY <2>1, SocketFields DEF DevSocket, Status, Continues, Pending, Listening, Early, ClosedSocket
<1>5. CASE t \in ConnectionEnds(s)
  <2>1. s.ir \union {"TIMEOUT"} \in SUBSET {"CON", "TIMEOUT"}
    BY SocketFields
  <2>2. s.sr # "CLOSED"
    BY <1>5 DEF ConnectionEnds, When, Connecting, Connected, Closing
  <2>3. \/ t = [sr |-> "CLOSED", ir |-> s.ir, rx |-> s.rx]
        \/ t = [sr |-> "CLOSED", ir |-> s.ir \union {"TIMEOUT"}, rx |-> s.rx]
    BY <1>5, SocketFields DEF ConnectionEnds, When
  <2> QED BY <2>1, <2>2, <2>3, SocketFields
          DEF DevSocket, Status, Continues, Pending, Listening, Early, ClosedSocket
<1> QED BY <1>1, <1>2, <1>3, <1>4, <1>5 DEF NetSteps

-----------------------------------------------------------------------------
(* Steps that begin no connection and report none.                         *)

Device == [kind : Kinds \union {"NONE"}, established : BOOLEAN, resume : BOOLEAN, told : BOOLEAN]

Program == [at : Points, i : 0 .. SockNum, up : BOOLEAN]

LEMMA Fields ==
  ASSUME TypeOK
  PROVE  /\ sock \in [Slots -> DevSocket] /\ dev \in [Slots -> Device] /\ pc \in Program
         /\ pc.at \in Points /\ pc.i \in 0 .. SockNum /\ pc.up \in BOOLEAN
         /\ pc = [at |-> pc.at, i |-> pc.i, up |-> pc.up]
         /\ pc.at \notin {"app", "serve"} => pc.i \in Slots
BY DEF TypeOK, DevSocket, Device, Program

LEMMA DeviceFields ==
  ASSUME NEW d \in Device
  PROVE  /\ d.kind \in Kinds \union {"NONE"} /\ d.established \in BOOLEAN /\ d.resume \in BOOLEAN /\ d.told \in BOOLEAN
         /\ d = [kind |-> d.kind, established |-> d.established, resume |-> d.resume, told |-> d.told]
BY DEF Device

SocketsContinue ==
  /\ sock' \in [Slots -> DevSocket]
  /\ \A i \in Slots : Continues(sock[i], sock'[i]) /\ (dev[i].kind = "NONE" => sock'[i] = ClosedSocket)

\* Nothing is reported but ends of connections.
DevicesContinue ==
  /\ dev' \in [Slots -> Device]
  /\ \A i \in Slots : /\ dev'[i].kind = dev[i].kind
                      /\ dev'[i].told => dev[i].told
                      /\ dev'[i].established => dev[i].established

LinkContinues == link' \in BOOLEAN /\ isLinked' \in BOOLEAN /\ sipr' \in BOOLEAN /\ chkLinkTick' \in 0 .. ChkLinkTmr

PcContinues ==
  /\ pc' \in Program
  /\ pc'.at \notin {"app", "serve"} => pc'.i \in Slots

LEMMA OneSocket ==
  ASSUME TypeOK, SlotsOK, NEW i \in Slots, NEW t, Continues(sock[i], t), Set(i, t),
         dev[i].kind # "NONE"
  PROVE  SocketsContinue
<1>1. sock \in [Slots -> DevSocket] /\ t \in DevSocket
  BY Fields DEF Continues
<1>2. sock' \in [Slots -> DevSocket]
  BY <1>1 DEF Set
<1>3. ASSUME NEW j \in Slots
      PROVE  Continues(sock[j], sock'[j]) /\ (dev[j].kind = "NONE" => sock'[j] = ClosedSocket)
  <2>1. CASE j = i
    BY <2>1, <1>1 DEF Set
  <2>2. CASE j # i
    BY <2>2, <1>1, DataContinues DEF Set, SlotsOK
  <2> QED BY <2>1, <2>2
<1> QED BY <1>2, <1>3 DEF SocketsContinue

LEMMA NoSocket ==
  ASSUME TypeOK, SlotsOK, UNCHANGED sock
  PROVE  SocketsContinue
BY Fields, DataContinues DEF SocketsContinue, SlotsOK

LEMMA NoDeviceStep ==
  ASSUME TypeOK, UNCHANGED dev
  PROVE  DevicesContinue
BY Fields DEF DevicesContinue

LEMMA NoLink ==
  ASSUME TypeOK, UNCHANGED linkVars
  PROVE  LinkContinues
BY DEF LinkContinues, TypeOK, linkVars

LEMMA GotoStep ==
  ASSUME TypeOK, pc.i \in Slots, NEW p \in Points, Goto(p)
  PROVE  PcContinues /\ pc'.at = p /\ pc'.i = pc.i
BY Fields DEF Goto, PcContinues, Program

LEMMA NextSlotStep ==
  ASSUME TypeOK, pc.i \in Slots, NextSlot
  PROVE  PcContinues /\ pc'.at = "serve"
<1>1. pc.i + 1 \in 0 .. SockNum
  BY NetDeviceAssumption DEF Slots
<1>2. pc' = [at |-> "serve", i |-> pc.i + 1, up |-> pc.up]
  BY Fields DEF NextSlot
<1> QED BY <1>1, <1>2, Fields DEF PcContinues, Program, Points

LEMMA Types ==
  ASSUME SocketsContinue, DevicesContinue, LinkContinues, PcContinues
  PROVE  TypeOK'
BY DEF SocketsContinue, DevicesContinue, LinkContinues, PcContinues, TypeOK, DevSocket, Device, Program

\* Such a step keeps what is known of the slots, and of a round that looks at the same slot.
LEMMA SlotsContinue ==
  ASSUME IInv, SocketsContinue, DevicesContinue
  PROVE  SlotsOK' /\ ClientReportsInTurn'
<1>1. SlotsOK'
  BY DEF SocketsContinue, DevicesContinue, IInv, SlotsOK, Continues
<1>2. ClientReportsInTurn'
  BY DEF SocketsContinue, DevicesContinue, IInv, SlotsOK, Continues, ClientReportsInTurn, Pending
<1> QED BY <1>1, <1>2

LEMMA RoundContinues ==
  ASSUME IInv, SocketsContinue, DevicesContinue, UNCHANGED pc
  PROVE  RoundOK'
BY Fields DEF SocketsContinue, DevicesContinue, IInv, RoundOK, Continues

\* A step of the round that is done with its slot, or goes on to a point that says nothing of it.
LEMMA ServeStep ==
  ASSUME IInv, SocketsContinue, DevicesContinue, UNCHANGED linkVars, PcContinues,
         pc'.at \in {"app", "serve"} \/ (pc'.i = pc.i /\ pc.at \notin {"app", "serve"}),
         pc'.at \notin {"con", "listen", "listen_sr"}
  PROVE  IInv'
<1>1. TypeOK'
  BY NoLink, Types DEF IInv
<1>2. RoundOK'
  BY Fields DEF RoundOK, IInv, DevicesContinue, PcContinues
<1> QED BY <1>1, <1>2, SlotsContinue DEF IInv

-----------------------------------------------------------------------------
(* The application, the chip, the peers and the cable.                     *)

LEMMA NewDeviceStep == IInv /\ NewDevice => IInv'
<1> SUFFICES ASSUME IInv, NewDevice PROVE IInv'
  OBVIOUS
<1>1. TypeOK /\ SlotsOK /\ ClientReportsInTurn /\ pc.at = "app" /\ UNCHANGED <<sock, pc>> /\ UNCHANGED linkVars
  BY DEF IInv, NewDevice, linkVars
<1>2. PICK k \in Kinds, i \in Slots :
        dev[i].kind = "NONE" /\ dev' = [dev EXCEPT ![i] = [NoDevice EXCEPT !.kind = k]]
  BY DEF NewDevice
<1> DEFINE d == [NoDevice EXCEPT !.kind = k]
<1>3. d \in Device /\ d.kind = k /\ ~d.told /\ ~d.established
  BY DEF NoDevice, Device
<1>4. dev' \in [Slots -> Device] /\ dev'[i].kind = k /\ ~dev'[i].told /\ ~dev'[i].established
  <2> HIDE DEF d
  <2>1. dev' = [dev EXCEPT ![i] = d]
    BY <1>2 DEF d
  <2> QED BY <1>1, <1>3, <2>1, Fields
<1>5. \A j \in Slots \ {i} : dev'[j] = dev[j]
  BY <1>1, <1>2, Fields
<1>6. k # "NONE"
  BY NetDeviceAssumption
<1>7. TypeOK'
  BY <1>1, <1>4 DEF TypeOK, Device, linkVars
<1>8. sock'[i] = ClosedSocket /\ ~Listening(sock'[i])
  BY <1>1, <1>2 DEF SlotsOK, Listening, ClosedSocket
<1>9. SlotsOK'
  BY <1>1, <1>4, <1>5, <1>6, <1>8 DEF SlotsOK
<1>10. ClientReportsInTurn'
  BY <1>1, <1>4, <1>5 DEF ClientReportsInTurn
<1>11. RoundOK'
  BY <1>1 DEF RoundOK
<1> QED BY <1>7, <1>9, <1>10, <1>11 DEF IInv

LEMMA TcpClientOpenStep == IInv /\ TcpClientOpen => IInv'
<1> SUFFICES ASSUME IInv, TcpClientOpen PROVE IInv'
  OBVIOUS
<1>1. TypeOK /\ SlotsOK /\ pc.at = "app" /\ UNCHANGED sock /\ UNCHANGED pc /\ UNCHANGED linkVars
  BY DEF IInv, TcpClientOpen, linkVars
<1>2. PICK i \in Slots : dev' = [dev EXCEPT ![i].resume = TRUE]
  BY DEF TcpClientOpen
<1>3. DevicesContinue
  BY <1>1, <1>2, Fields DEF DevicesContinue, Device
<1> QED BY <1>1, <1>3, NoSocket, NoLink, Types, SlotsContinue, RoundContinues, Fields DEF IInv, PcContinues

LEMMA TcpClientCloseStep == IInv /\ TcpClientClose => IInv'
<1> SUFFICES ASSUME IInv, TcpClientClose PROVE IInv'
  OBVIOUS
<1>1. TypeOK /\ SlotsOK /\ pc.at = "app" /\ UNCHANGED pc /\ UNCHANGED linkVars
  BY DEF IInv, TcpClientClose, linkVars
<1>2. PICK i \in Slots : /\ dev[i].kind = "TCPC"
                         /\ Set(i, Close(sock[i])) /\ dev' = [dev EXCEPT ![i].resume = FALSE]
  BY DEF TcpClientClose
<1>3. DevicesContinue
  BY <1>1, <1>2, Fields DEF DevicesContinue, Device
<1>4. SocketsContinue
  <2>1. sock[i] \in DevSocket
    BY <1>1, Fields
  <2> QED BY <2>1, <1>1, <1>2, CloseContinues, OneSocket
<1> QED BY <1>1, <1>3, <1>4, NoLink, Types, SlotsContinue, RoundContinues, Fields DEF IInv, PcContinues

\* Steps that only move one socket on.
LEMMA SocketMoves ==
  ASSUME IInv, UNCHANGED dev, UNCHANGED linkVars, UNCHANGED pc,
         NEW i \in Slots, dev[i].kind # "NONE", NEW t, Continues(sock[i], t), Set(i, t)
  PROVE  IInv'
<1>1. TypeOK /\ SlotsOK
  BY DEF IInv
<1>2. SocketsContinue
  BY <1>1, OneSocket
<1> QED BY <1>1, <1>2, NoDeviceStep, NoLink, Types, SlotsContinue, RoundContinues, Fields DEF IInv, PcContinues

LEMMA DeviceSendStep == IInv /\ DeviceSend => IInv'
<1> SUFFICES ASSUME IInv, DeviceSend PROVE IInv'
  OBVIOUS
<1>1. TypeOK /\ UNCHANGED dev /\ UNCHANGED pc /\ UNCHANGED linkVars
  BY DEF IInv, DeviceSend, linkVars
<1>2. PICK i \in Slots :
         \/ dev[i].kind \in {"TCPC", "TCPS"} /\ \E t \in SendResults(sock[i]) : Set(i, t)
         \/ dev[i].kind = "UDP" /\ Set(i, Close(sock[i]))
  BY DEF DeviceSend
<1>3. sock[i] \in DevSocket
  BY <1>1, Fields
<1>4. CASE dev[i].kind \in {"TCPC", "TCPS"} /\ \E t \in SendResults(sock[i]) : Set(i, t)
  <2>1. PICK t \in SendResults(sock[i]) : Set(i, t)
    BY <1>4
  <2> QED BY <1>1, <1>3, <1>4, <2>1, SendContinues, SocketMoves
<1>5. CASE dev[i].kind = "UDP" /\ Set(i, Close(sock[i]))
  BY <1>1, <1>3, <1>5, CloseContinues, SocketMoves
<1> QED BY <1>2, <1>4, <1>5

LEMMA NetworkStep == IInv /\ (Network \/ DatagramArrives) => IInv'
<1> SUFFICES ASSUME IInv, Network \/ DatagramArrives PROVE IInv'
  OBVIOUS
<1>1. TypeOK /\ SlotsOK /\ UNCHANGED dev /\ UNCHANGED pc /\ UNCHANGED linkVars
  BY DEF IInv, Network, DatagramArrives, linkVars
<1>2. CASE Network
  <2>0. PICK i \in Slots : \E t \in NetSteps(sock[i]) : Set(i, t)
    BY <1>2 DEF Network
  <2>1. PICK t \in NetSteps(sock[i]) : Set(i, t)
    BY <2>0
  <2>2. Continues(sock[i], t) /\ sock[i] # ClosedSocket
    BY <1>1, Fields, NetContinues
  <2>3. dev[i].kind # "NONE"
    BY <1>1, <2>2 DEF SlotsOK
  <2> QED BY <1>1, <2>1, <2>2, <2>3, SocketMoves
<1>3. CASE DatagramArrives
  <2>1. PICK i \in Slots : sock[i].sr = "UDP" /\ Set(i, [sock[i] EXCEPT !.rx = TRUE])
    BY <1>3 DEF DatagramArrives
  <2>2. Continues(sock[i], [sock[i] EXCEPT !.rx = TRUE])
    BY <1>1, Fields, DataContinues
  <2>3. dev[i].kind # "NONE"
    BY <1>1, <2>1 DEF SlotsOK, ClosedSocket
  <2> QED BY <1>1, <2>1, <2>2, <2>3, SocketMoves
<1> QED BY <1>2, <1>3

LEMMA QuietStep == IInv /\ (LinkChanges \/ UNCHANGED vars) => IInv'
<1> SUFFICES ASSUME IInv, LinkChanges \/ UNCHANGED vars PROVE IInv'
  OBVIOUS
<1>1. UNCHANGED <<sock, dev, pc>> /\ TypeOK'
  BY DEF LinkChanges, vars, IInv, TypeOK
<1> QED BY <1>1 DEF IInv, SlotsOK, RoundOK, ClientReportsInTurn

-----------------------------------------------------------------------------
(* The round.                                                              *)

\* Where a status leads: "con" only from a connection, "listen" only in a server.
LeadsOn(kind, loop) ==
  \A x \in DOMAIN loop :
    /\ loop[x] \in {"con", "discon", "listen", "connect", "open", "rsr"}
    /\ loop[x] = "con" => x = "ESTABLISHED"
    /\ loop[x] = "listen" => kind # "TCPC"

LEMMA LoopLeadsOn ==
  ASSUME NEW kind \in Kinds
  PROVE  LeadsOn(kind, Loop(kind))
<1>1. CASE kind = "TCPS"
  <2>1. Loop(kind) = TcpSeverLoop
    BY <1>1 DEF Loop
  <2> QED BY <1>1, <2>1 DEF LeadsOn, TcpSeverLoop
<1>2. CASE kind = "TCPC"
  <2>1. Loop(kind) = TcpClientLoop
    BY <1>2 DEF Loop
  <2> QED BY <1>2, <2>1 DEF LeadsOn, TcpClientLoop
<1>3. CASE kind = "UDP"
  <2>1. Loop(kind) = TcpUdpLoop
    BY <1>3 DEF Loop
  <2> QED BY <1>3, <2>1 DEF LeadsOn, TcpUdpLoop
<1>4. CASE kind = "loopback_tcps"
  <2>1. Loop(kind) = loopback_tcps
    BY <1>4 DEF Loop
  <2> QED BY <1>4, <2>1 DEF LeadsOn, loopback_tcps
<1>5. CASE kind = "loopback_tcpc"
  <2>1. Loop(kind) = loopback_tcpc
    BY <1>5 DEF Loop
  <2> QED BY <1>5, <2>1 DEF LeadsOn, loopback_tcpc
<1>6. CASE kind = "loopback_udps"
  <2>1. Loop(kind) = loopback_udps
    BY <1>6 DEF Loop
  <2> QED BY <1>6, <2>1 DEF LeadsOn, loopback_udps
<1>7. CASE kind = "multicast"
  <2>1. Loop(kind) = multicast_recv
    BY <1>7 DEF Loop
  <2> QED BY <1>7, <2>1 DEF LeadsOn, multicast_recv
<1> QED BY <1>1, <1>2, <1>3, <1>4, <1>5, <1>6, <1>7, NetDeviceAssumption

LEMMA NetDevLoopStep == IInv /\ net_dev_loop => IInv'
<1> SUFFICES ASSUME IInv, net_dev_loop PROVE IInv'
  OBVIOUS
<1>1. TypeOK /\ SlotsOK /\ UNCHANGED dev /\ pc' = [at |-> "serve", i |-> 0, up |-> link]
  BY DEF IInv, net_dev_loop
<1>2. link \in BOOLEAN /\ sipr \in BOOLEAN /\ chkLinkTick \in 0 .. ChkLinkTmr
  BY <1>1 DEF TypeOK
<1>3. \/ UNCHANGED sock /\ chkLinkTick' \in 0 .. ChkLinkTmr
      \/ sock' = [i \in Slots |-> ClosedSocket] /\ chkLinkTick' = 0
  BY <1>2, NetDeviceAssumption DEF net_dev_loop, LinkOff
<1>4. SocketsContinue
  <2>1. CASE UNCHANGED sock
    BY <1>1, <2>1, NoSocket
  <2>2. CASE sock' = [i \in Slots |-> ClosedSocket]
    <3>1. \A i \in Slots : Continues(sock[i], ClosedSocket) /\ ClosedSocket \in DevSocket
      BY ResetContinues DEF Continues
    <3> QED BY <2>2, <3>1 DEF SocketsContinue
  <2> QED BY <1>3, <2>1, <2>2
<1>5. PcContinues /\ pc'.at = "serve"
  BY <1>1, <1>2, NetDeviceAssumption DEF PcContinues, Program, Points
<1>6. LinkContinues
  BY <1>2, <1>3, NetDeviceAssumption DEF LinkContinues, net_dev_loop
<1>7. DevicesContinue
  BY <1>1, NoDeviceStep
<1>8. RoundOK'
  BY <1>5 DEF RoundOK
<1> QED BY <1>4, <1>5, <1>6, <1>7, <1>8, Types, SlotsContinue DEF IInv

LEMMA EndRoundStep == IInv /\ EndRound => IInv'
<1> SUFFICES ASSUME IInv, EndRound PROVE IInv'
  OBVIOUS
<1>1. TypeOK /\ SlotsOK /\ UNCHANGED sock /\ UNCHANGED dev /\ UNCHANGED linkVars
  BY DEF IInv, EndRound, linkVars
<1>2. PcContinues /\ pc'.at = "app"
  BY NetDeviceAssumption DEF EndRound, PcContinues, Program, Points
<1> QED BY <1>1, <1>2, NoSocket, NoDeviceStep, ServeStep

LEMMA ReadStatusStep == IInv /\ ReadStatus => IInv'
<1> SUFFICES ASSUME IInv, ReadStatus PROVE IInv'
  OBVIOUS
<1>1. TypeOK /\ SlotsOK /\ UNCHANGED sock /\ UNCHANGED dev /\ UNCHANGED linkVars
  BY DEF IInv, ReadStatus, linkVars
<1>2. pc.i \in Slots
  BY <1>1, Fields, NetDeviceAssumption DEF ReadStatus, Slots
<1>3. SocketsContinue /\ DevicesContinue
  BY <1>1, NoSocket, NoDeviceStep
<1>4. CASE NextSlot
  BY <1>1, <1>2, <1>3, <1>4, NextSlotStep, ServeStep
<1>5. CASE /\ dev[pc.i].kind # "NONE" /\ sock[pc.i].sr \in DOMAIN Loop(dev[pc.i].kind)
           /\ Goto(Loop(dev[pc.i].kind)[sock[pc.i].sr])
  <2> DEFINE p == Loop(dev[pc.i].kind)[sock[pc.i].sr]
  <2>1. dev[pc.i].kind \in Kinds
    BY <1>1, <1>2, <1>5, Fields, DeviceFields
  <2>2. /\ p \in {"con", "discon", "listen", "connect", "open", "rsr"}
        /\ p = "con" => sock[pc.i].sr = "ESTABLISHED"
        /\ p = "listen" => dev[pc.i].kind # "TCPC"
    BY <1>5, <2>1, LoopLeadsOn DEF LeadsOn
  <2>3. Goto(p)
    BY <1>5
  <2> HIDE DEF p
  <2>4. p \in Points
    BY <2>2 DEF Points
  <2>5. PcContinues /\ pc'.at = p /\ pc'.i = pc.i
    BY <1>1, <1>2, <2>3, <2>4, GotoStep
  <2>6. RoundOK'
    BY <1>1, <1>5, <2>2, <2>5 DEF RoundOK, Early
  <2> QED BY <1>1, <1>3, <2>5, <2>6, NoLink, Types, SlotsContinue DEF IInv
<1> QED BY <1>4, <1>5 DEF ReadStatus

\* At every other point of the round a device is served.
LEMMA Served ==
  ASSUME IInv, pc.at \notin {"app", "serve"}
  PROVE  /\ TypeOK /\ SlotsOK /\ pc.i \in Slots
         /\ sock[pc.i] \in DevSocket /\ dev[pc.i] \in Device /\ dev[pc.i].kind \in Kinds /\ dev[pc.i].kind # "NONE"
<1>1. TypeOK /\ SlotsOK /\ dev[pc.i].kind # "NONE"
  BY DEF IInv, RoundOK
<1>2. pc.i \in Slots /\ sock[pc.i] \in DevSocket /\ dev[pc.i] \in Device
  BY <1>1, Fields
<1>3. dev[pc.i].kind \in Kinds
  BY <1>1, <1>2, DeviceFields
<1> QED BY <1>1, <1>2, <1>3

\* A step that ends the slot's turn, or goes on to a point that says nothing of the socket.
LEMMA SlotStep ==
  ASSUME IInv, pc.at \notin {"app", "serve"}, UNCHANGED linkVars,
         NEW t, Continues(sock[pc.i], t), Set(pc.i, t) \/ (UNCHANGED sock /\ t = sock[pc.i]),
         DevicesContinue,
         NextSlot \/ \E p \in Points \ {"app", "serve", "con", "listen", "listen_sr"} : Goto(p)
  PROVE  IInv'
<1>1. SocketsContinue
  BY Served, OneSocket, NoSocket
<1>2. CASE NextSlot
  BY <1>1, <1>2, Served, NextSlotStep, ServeStep
<1>3. CASE \E p \in Points \ {"app", "serve", "con", "listen", "listen_sr"} : Goto(p)
  <2>1. PICK p \in Points \ {"app", "serve", "con", "listen", "listen_sr"} : Goto(p)
    BY <1>3
  <2>2. PcContinues /\ pc'.at = p /\ pc'.i = pc.i
    BY <2>1, Served, GotoStep
  <2> QED BY <1>1, <2>2, ServeStep
<1> QED BY <1>2, <1>3

LEMMA CheckConStep == IInv /\ CheckCon => IInv'
<1> SUFFICES ASSUME IInv, CheckCon PROVE IInv'
  OBVIOUS
<1> DEFINE i == pc.i
           s == sock[i]
           t == [s EXCEPT !.ir = @ \ {"CON"}]
<1>1. pc.at = "con" /\ Goto("rsr") /\ UNCHANGED linkVars
  BY DEF CheckCon
<1>2. /\ TypeOK /\ SlotsOK /\ i \in Slots /\ s \in DevSocket /\ dev[i].kind \in Kinds /\ dev[i].kind # "NONE"
      /\ dev \in [Slots -> Device]
  BY <1>1, Served, Fields
<1>3. PcContinues /\ pc'.at = "rsr" /\ pc'.i = i
  BY <1>1, <1>2, GotoStep DEF Points
<1>4. CASE UNCHANGED <<sock, dev>>
  BY <1>1, <1>2, <1>3, <1>4, NoSocket, NoDeviceStep, ServeStep
<1>5. CASE /\ Set(i, t)
           /\ dev' = [dev EXCEPT ![i].established = dev[i].kind = "TCPC", ![i].told = dev[i].kind \in Devices]
  <2>1. Continues(s, t) /\ t.sr = s.sr /\ t.ir = s.ir \ {"CON"}
    BY <1>2, ClearContinues
  <2>2. ~Early(s)
    BY <1>1 DEF IInv, RoundOK
  <2>3. ~Pending(t)
    BY <2>1, <2>2 DEF Pending, Early
  <2> HIDE DEF t
  <2>4. SocketsContinue /\ sock'[i] = t
    BY <1>2, <1>5, <2>1, OneSocket, Fields DEF Set
  <2>5. dev' \in [Slots -> Device] /\ \A j \in Slots : dev'[j].kind = dev[j].kind
    <3> DEFINE e == dev[i].kind = "TCPC"
               b == dev[i].kind \in Devices
    <3>1. e \in BOOLEAN /\ b \in BOOLEAN /\ dev' = [dev EXCEPT ![i].established = e, ![i].told = b]
      BY <1>5
    <3> HIDE DEF e, b
    <3> QED BY <1>2, <3>1 DEF Device
  <2>6. \A j \in Slots \ {i} : dev'[j] = dev[j] /\ sock'[j] = sock[j]
    BY <1>2, <1>5, Fields DEF Set
  <2>7. TypeOK'
    BY <1>1, <1>2, <1>3, <2>4, <2>5, NoLink
       DEF TypeOK, SocketsContinue, PcContinues, LinkContinues, DevSocket, Device, Program
  <2>8. SlotsOK'
    BY <1>2, <2>4, <2>5 DEF SlotsOK, SocketsContinue, Continues
  <2>9. ClientReportsInTurn'
    BY <2>3, <2>4, <2>5, <2>6 DEF ClientReportsInTurn, IInv, Pending
  <2>10. RoundOK'
    BY <1>2, <1>3, <2>5 DEF RoundOK
  <2> QED BY <2>7, <2>8, <2>9, <2>10 DEF IInv
<1> QED BY <1>4, <1>5 DEF CheckCon

LEMMA CheckDataStep == IInv /\ CheckData => IInv'
<1> SUFFICES ASSUME IInv, CheckData PROVE IInv'
  OBVIOUS
<1> DEFINE s == sock[pc.i]
<1>1. pc.at = "rsr" /\ UNCHANGED dev /\ UNCHANGED linkVars
  BY DEF CheckData, linkVars
<1>2. s \in DevSocket /\ DevicesContinue
  BY <1>1, Served, NoDeviceStep
<1>3. NextSlot \/ \E p \in Points \ {"app", "serve", "con", "listen", "listen_sr"} : Goto(p)
  BY DEF CheckData, Points
<1>4. CASE UNCHANGED sock
  BY <1>1, <1>2, <1>3, <1>4, DataContinues, SlotStep
<1>5. CASE \E more \in BOOLEAN : Set(pc.i, [s EXCEPT !.rx = more])
  <2>1. PICK more \in BOOLEAN : Set(pc.i, [s EXCEPT !.rx = more])
    BY <1>5
  <2>2. Continues(s, [s EXCEPT !.rx = more])
    BY <1>2, DataContinues
  <2> QED BY <1>1, <1>2, <1>3, <2>1, <2>2, SlotStep
<1>6. CASE \E t \in RecvResults(s) : Set(pc.i, t)
  <2>1. PICK t \in RecvResults(s) : Set(pc.i, t)
    BY <1>6
  <2>2. Continues(s, t)
    BY <1>2, RecvContinues
  <2> QED BY <1>1, <1>2, <1>3, <2>1, <2>2, SlotStep
<1> QED BY <1>4, <1>5, <1>6 DEF CheckData

LEMMA EchoStep == IInv /\ Echo => IInv'
<1> SUFFICES ASSUME IInv, Echo PROVE IInv'
  OBVIOUS
<1>1. pc.at = "echo" /\ NextSlot /\ UNCHANGED dev /\ UNCHANGED linkVars
  BY DEF Echo, linkVars
<1>2. PICK t \in SendResults(sock[pc.i]) : Set(pc.i, t)
  BY DEF Echo
<1>3. Continues(sock[pc.i], t) /\ DevicesContinue
  BY <1>1, Served, SendContinues, NoDeviceStep
<1> QED BY <1>1, <1>2, <1>3, SlotStep

LEMMA DisconnectStep == IInv /\ Disconnect => IInv'
<1> SUFFICES ASSUME IInv, Disconnect PROVE IInv'
  OBVIOUS
<1>1. pc.at = "discon" /\ Goto("discon_wait") /\ UNCHANGED dev /\ UNCHANGED linkVars
  BY DEF Disconnect, linkVars
<1>2. Continues(sock[pc.i], Command("DISCON", sock[pc.i])) /\ DevicesContinue
  BY <1>1, Served, DisconContinues, NoDeviceStep
<1> QED BY <1>1, <1>2, SlotStep DEF Disconnect, Points

LEMMA DisconnectEndStep == IInv /\ DisconnectEnd => IInv'
<1> SUFFICES ASSUME IInv, DisconnectEnd PROVE IInv'
  OBVIOUS
<1> DEFINE s == sock[pc.i]
<1>1. pc.at = "discon_wait" /\ NextSlot /\ UNCHANGED linkVars
  BY DEF DisconnectEnd
<1>2. TypeOK /\ pc.i \in Slots /\ s \in DevSocket /\ dev[pc.i] \in Device
  BY <1>1, Served
<1>3. CASE UNCHANGED sock /\ dev' = [dev EXCEPT ![pc.i].told = @ /\ dev[pc.i].kind # "TCPS"]
  <2>1. DevicesContinue
    BY <1>2, <1>3, Fields DEF DevicesContinue, Device
  <2> QED BY <1>1, <1>2, <1>3, <2>1, DataContinues, SlotStep
<1>4. CASE Set(pc.i, Close(s)) /\ UNCHANGED dev
  BY <1>1, <1>2, <1>4, CloseContinues, NoDeviceStep, SlotStep
<1> QED BY <1>3, <1>4 DEF DisconnectEnd

LEMMA ConnectStep == IInv /\ Connect => IInv'
<1> SUFFICES ASSUME IInv, Connect PROVE IInv'
  OBVIOUS
<1> DEFINE s == sock[pc.i]
<1>1. pc.at = "connect" /\ UNCHANGED dev /\ UNCHANGED linkVars
  BY DEF Connect, linkVars
<1>2. s \in DevSocket /\ DevicesContinue
  BY <1>1, Served, NoDeviceStep
<1>3. CASE s.sr = "INIT" /\ Set(pc.i, Command("CONNECT", s)) /\ Goto("connect_wait")
  BY <1>1, <1>2, <1>3, ConnectContinues, SlotStep DEF Points
<1>4. CASE UNCHANGED sock /\ NextSlot
  BY <1>1, <1>2, <1>4, DataContinues, SlotStep
<1> QED BY <1>3, <1>4 DEF Connect

LEMMA ConnectEndStep == IInv /\ ConnectEnd => IInv'
<1> SUFFICES ASSUME IInv, ConnectEnd PROVE IInv'
  OBVIOUS
<1> DEFINE s == sock[pc.i]
           t == [s EXCEPT !.ir = @ \ {"TIMEOUT"}]
<1>1. pc.at = "connect_wait" /\ NextSlot /\ UNCHANGED dev /\ UNCHANGED linkVars
  BY DEF ConnectEnd, linkVars
<1>2. s \in DevSocket /\ DevicesContinue
  BY <1>1, Served, NoDeviceStep
<1>3. Continues(s, s) /\ Continues(s, t)
  BY <1>2, DataContinues, ClearContinues
<1>4. UNCHANGED sock \/ Set(pc.i, t)
  BY DEF ConnectEnd
<1> QED BY <1>1, <1>2, <1>3, <1>4, SlotStep

\* listen() opens the socket of a server to connections.
LEMMA ListenStep == IInv /\ Listen => IInv'
<1> SUFFICES ASSUME IInv, Listen PROVE IInv'
  OBVIOUS
<1> DEFINE i == pc.i
           s == sock[i]
           t == Command("LISTEN", s)
<1>1. pc.at = "listen" /\ UNCHANGED dev /\ UNCHANGED linkVars
  BY DEF Listen, linkVars
<1>2. TypeOK /\ SlotsOK /\ i \in Slots /\ s \in DevSocket /\ dev[i].kind # "NONE"
  BY <1>1, Served
<1>3. dev[i].kind # "TCPC"
  BY <1>1 DEF IInv, RoundOK
<1>4. DevicesContinue
  BY <1>2, <1>1, NoDeviceStep
<1>5. CASE Set(i, t) /\ Goto("listen_sr")
  <2>1. t \in DevSocket
    <3>1. t = [sr |-> AfterCommand("LISTEN", s.sr), ir |-> s.ir, rx |-> s.rx]
      BY <1>2, SocketFields DEF Command
    <3>2. AfterCommand("LISTEN", s.sr) \in {"LISTEN", s.sr}
      BY CommandStatus
    <3> QED BY <1>2, <3>1, <3>2, SocketFields DEF DevSocket, Status
  <2> HIDE DEF t
  <2>2. PcContinues /\ pc'.at = "listen_sr" /\ pc'.i = i
    BY <1>2, <1>5, GotoStep DEF Points
  <2>3. sock' \in [Slots -> DevSocket] /\ sock'[i] = t /\ \A j \in Slots \ {i} : sock'[j] = sock[j]
    BY <1>2, <1>5, <2>1, Fields DEF Set
  <2>4. TypeOK'
    BY <1>1, <1>2, <1>4, <2>2, <2>3, NoLink
       DEF TypeOK, DevicesContinue, PcContinues, LinkContinues, DevSocket, Device, Program
  <2>5. SlotsOK'
    BY <1>1, <1>2, <1>3, <2>3 DEF SlotsOK
  <2>6. ClientReportsInTurn'
    BY <1>1, <1>3, <2>3 DEF ClientReportsInTurn, IInv
  <2>7. RoundOK'
    BY <1>1, <1>2, <1>3, <2>2 DEF RoundOK
  <2> QED BY <2>4, <2>5, <2>6, <2>7 DEF IInv
<1>6. CASE UNCHANGED sock /\ NextSlot
  BY <1>1, <1>2, <1>4, <1>6, DataContinues, SlotStep
<1> QED BY <1>5, <1>6 DEF Listen

LEMMA ListenEndStep == IInv /\ ListenEnd => IInv'
<1> SUFFICES ASSUME IInv, ListenEnd PROVE IInv'
  OBVIOUS
<1>1. pc.at = "listen_sr" /\ NextSlot /\ UNCHANGED dev /\ UNCHANGED linkVars
  BY DEF ListenEnd, linkVars
<1>2. sock[pc.i] \in DevSocket /\ DevicesContinue
  BY <1>1, Served, NoDeviceStep
<1>3. UNCHANGED sock \/ Set(pc.i, Close(sock[pc.i]))
  BY DEF ListenEnd
<1> QED BY <1>1, <1>2, <1>3, DataContinues, CloseContinues, SlotStep

\* A closed socket is opened again only when its end has been reported.
LEMMA OpenSocketStep == IInv /\ OpenSocket => IInv'
<1> SUFFICES ASSUME IInv, OpenSocket PROVE IInv'
  OBVIOUS
<1> DEFINE i == pc.i
           s == sock[i]
<1>1. /\ pc.at = "open" /\ NextSlot /\ UNCHANGED linkVars
      /\ dev' = [dev EXCEPT ![i].established = FALSE, ![i].told = @ /\ dev[i].kind = "TCPS"]
  BY DEF OpenSocket
<1>2. /\ TypeOK /\ SlotsOK /\ i \in Slots /\ s \in DevSocket /\ dev[i] \in Device /\ dev[i].kind # "NONE"
      /\ dev \in [Slots -> Device]
  BY <1>1, Served, Fields
<1>3. DevicesContinue /\ dev'[i].established = FALSE /\ (dev[i].kind = "TCPC" => ~dev'[i].told)
  <2>1. PICK b \in BOOLEAN : /\ dev' = [dev EXCEPT ![i].established = FALSE, ![i].told = b]
                             /\ b <=> dev[i].told /\ dev[i].kind = "TCPS"
    BY <1>1, Zenon
  <2> QED BY <1>2, <2>1 DEF Device, DevicesContinue
<1> DEFINE udp == [Reopen(s) EXCEPT !.sr = "UDP"]
<1>4. PICK t : /\ t \in {udp, Reopen(s), s}
               /\ Set(i, t) \/ (UNCHANGED sock /\ t = s)
  BY DEF OpenSocket
<1>5. CASE t = s
  BY <1>1, <1>2, <1>3, <1>4, <1>5, DataContinues, SlotStep
<1>6. CASE t \in {udp, Reopen(s)} /\ Set(i, t)
  <2>1. t \in DevSocket /\ ~Listening(t)
    BY <1>2, <1>6, ReopenFresh
  <2>2. PcContinues /\ pc'.at = "serve"
    BY <1>1, <1>2, NextSlotStep
  <2>3. sock' \in [Slots -> DevSocket] /\ sock'[i] = t /\ \A j \in Slots \ {i} : sock'[j] = sock[j]
    BY <1>2, <1>6, <2>1, Fields DEF Set
  <2>4. TypeOK'
    BY <1>1, <1>2, <1>3, <2>2, <2>3, NoLink
       DEF TypeOK, DevicesContinue, PcContinues, LinkContinues, DevSocket, Device, Program
  <2>5. SlotsOK'
    BY <1>2, <1>3, <2>1, <2>3 DEF SlotsOK, DevicesContinue
  <2>6. ClientReportsInTurn'
    BY <1>3, <2>3 DEF ClientReportsInTurn, IInv, DevicesContinue
  <2>7. RoundOK'
    BY <2>2 DEF RoundOK
  <2> QED BY <2>4, <2>5, <2>6, <2>7 DEF IInv
<1> QED BY <1>4, <1>5, <1>6

-----------------------------------------------------------------------------

LEMMA InitHolds == Init => IInv
<1> SUFFICES ASSUME Init PROVE IInv
  OBVIOUS
<1>1. TypeOK
  <2>1. ClosedSocket \in DevSocket /\ NoDevice \in Device
    BY DEF ClosedSocket, DevSocket, Status, NoDevice, Device
  <2>2. pc \in Program /\ pc.at = "app"
    BY NetDeviceAssumption DEF Init, Program, Points
  <2>3. sock \in [Slots -> DevSocket] /\ dev \in [Slots -> Device]
    BY <2>1 DEF Init
  <2>4. 0 \in 0 .. ChkLinkTmr
    BY NetDeviceAssumption
  <2> QED BY <2>2, <2>3, <2>4 DEF Init, TypeOK, DevSocket, Device, Program
<1>2. \A i \in Slots : sock[i] = ClosedSocket /\ dev[i].kind = "NONE"
  BY DEF Init, NoDevice
<1>3. SlotsOK /\ RoundOK /\ ClientReportsInTurn
  BY <1>2 DEF Init, SlotsOK, RoundOK, ClientReportsInTurn
<1> QED BY <1>1, <1>3 DEF IInv

LEMMA Inductive == IInv /\ [Next]_vars => IInv'
BY NewDeviceStep, TcpClientOpenStep, TcpClientCloseStep, DeviceSendStep, NetDevLoopStep,
   EndRoundStep, ReadStatusStep, CheckConStep, CheckDataStep, EchoStep, DisconnectStep,
   DisconnectEndStep, ListenStep, ListenEndStep, ConnectStep, ConnectEndStep, OpenSocketStep,
   NetworkStep, QuietStep
DEF Next, RoundStep

(* The sockets, the devices and the round keep their types.                *)
THEOREM TypeCorrect == Spec => []TypeOK
<1>1. IInv => TypeOK
  BY DEF IInv
<1> QED BY <1>1, InitHolds, Inductive, PTL DEF Spec

(* For any number of sockets and devices: a client device's connection is  *)
(* reported as ended before its socket is opened again or another          *)
(* connection can be reported, whatever the peers, the link and the        *)
(* application do between two register accesses of the loop.               *)
THEOREM ReportsInTurn == Spec => []ClientReportsInTurn
<1>1. IInv => ClientReportsInTurn
  BY DEF IInv
<1> QED BY <1>1, InitHolds, Inductive, PTL DEF Spec
=============================================================================
