----------------------------- MODULE NetDevice -----------------------------
(***************************************************************************)
(* The devices of Ethernet/usr_layer and the loopback and multicast        *)
(* samples: sockets served one after the other by a polling loop, over the *)
(* stream sockets of SocketOps.  The chip and the peers move between any   *)
(* two register accesses of a poll; the application acts between rounds    *)
(* and in the callbacks.                                                   *)
(***************************************************************************)
EXTENDS Naturals, SocketOps

CONSTANTS
  SockNum,     \* _WIZCHIP_SOCK_NUM_
  Kinds,       \* the kinds of device and sample in use
  ChkLinkTmr   \* chkLinkTmr, in rounds of the loop

ASSUME NetDeviceAssumption ==
  /\ SockNum \in Nat \ {0} /\ ChkLinkTmr \in Nat
  /\ Kinds \subseteq {"TCPS", "TCPC", "UDP", "loopback_tcps", "loopback_tcpc", "loopback_udps", "multicast"}

Slots == 0 .. SockNum - 1

VARIABLES
  sock,        \* the sockets of the chip
  dev,         \* per slot: protocol, isEstablished, resumeTcpClient, and told: the last of
               \*   cb_connected (TRUE) and cb_closed (FALSE) the application has seen
  link, isLinked, chkLinkTick,   \* the PHY's link; what net_dev_loop() keeps of it
  sipr,        \* an own address is set (socket() refuses TCP without one)
  pc           \* at: the next step of the round, i: the slot served, up: the link at its start

vars == <<sock, dev, link, isLinked, chkLinkTick, sipr, pc>>
linkVars == <<link, isLinked, chkLinkTick, sipr>>

NoDevice == [kind |-> "NONE", established |-> FALSE, resume |-> FALSE, told |-> FALSE]

\* wizDev_setup(): the chip is reset and its network information set.
Init ==
  /\ sock = [i \in Slots |-> ClosedSocket] /\ dev = [i \in Slots |-> NoDevice]
  /\ link \in BOOLEAN /\ isLinked = FALSE /\ chkLinkTick = 0
  /\ sipr \in BOOLEAN
  /\ pc = [at |-> "app", i |-> 0, up |-> FALSE]

-----------------------------------------------------------------------------
(* What a poll does for each status of the socket; other statuses are      *)
(* passed over.                                                            *)

\* Mutant: no case for SOCK_CLOSED.
TcpSeverLoopNoReopen == [ESTABLISHED |-> "con", CLOSE_WAIT |-> "discon", INIT |-> "listen"]
TcpSeverLoop == [ESTABLISHED |-> "con", CLOSE_WAIT |-> "discon", INIT |-> "listen", CLOSED |-> "open"]
TcpClientLoop == [ESTABLISHED |-> "con", CLOSE_WAIT |-> "discon", INIT |-> "connect", CLOSED |-> "open"]
TcpUdpLoop == [UDP |-> "rsr", CLOSED |-> "open"]
loopback_tcps == [ESTABLISHED |-> "con", CLOSE_WAIT |-> "discon", INIT |-> "listen", CLOSED |-> "open"]
loopback_tcpc == [ESTABLISHED |-> "con", CLOSE_WAIT |-> "discon", INIT |-> "connect", CLOSED |-> "open"]
loopback_udps == [UDP |-> "rsr", CLOSED |-> "open"]
multicast_recv == [UDP |-> "rsr", CLOSED |-> "open"]

Loop(kind) ==
  CASE kind = "TCPS" -> TcpSeverLoop
    [] kind = "TCPC" -> TcpClientLoop
    [] kind = "UDP" -> TcpUdpLoop
    [] kind = "loopback_tcps" -> loopback_tcps
    [] kind = "loopback_tcpc" -> loopback_tcpc
    [] kind = "loopback_udps" -> loopback_udps
    [] kind = "multicast" -> multicast_recv

Datagram == {"UDP", "loopback_udps", "multicast"}
Devices == {"TCPS", "TCPC", "UDP"}   \* served by net_dev_loop(), the others by the main loop

Set(i, s) == sock' = [sock EXCEPT ![i] = s]
Goto(point) == pc' = [pc EXCEPT !.at = point]
NextSlot == pc' = [pc EXCEPT !.at = "serve", !.i = @ + 1]

-----------------------------------------------------------------------------
(* The application between rounds.                                         *)

\* net_newTcpServer(), net_newTcpClient(), net_newUdp(): the first free slot, none when full.
NewDevice ==
  /\ pc.at = "app"
  /\ \E k \in Kinds, i \in Slots :
       /\ dev[i].kind = "NONE" /\ \A j \in 0 .. i - 1 : dev[j].kind # "NONE"
       /\ dev' = [dev EXCEPT ![i] = [NoDevice EXCEPT !.kind = k]]
  /\ UNCHANGED <<sock, linkVars, pc>>

TcpClientOpen ==
  /\ pc.at = "app"
  /\ \E i \in Slots : dev[i].kind = "TCPC" /\ dev' = [dev EXCEPT ![i].resume = TRUE]
  /\ UNCHANGED <<sock, linkVars, pc>>

TcpClientClose ==
  /\ pc.at = "app"
  /\ \E i \in Slots :
       /\ dev[i].kind = "TCPC"
       /\ Set(i, Close(sock[i])) /\ dev' = [dev EXCEPT ![i].resume = FALSE]
  /\ UNCHANGED <<linkVars, pc>>

\* TcpClientSend(), TcpSeverSend(), TcpUdpSend(): an error closes the socket.
DeviceSend ==
  /\ pc.at = "app"
  /\ \E i \in Slots :
       \/ dev[i].kind \in {"TCPC", "TCPS"} /\ \E t \in SendResults(sock[i]) : Set(i, t)
       \/ dev[i].kind = "UDP" /\ Set(i, Close(sock[i]))
  /\ UNCHANGED <<dev, linkVars, pc>>

-----------------------------------------------------------------------------
(* One round: net_dev_loop() and the samples.                              *)

\* net_reLink(): the chip is reset, with all its sockets.
LinkOff ==
  \/ chkLinkTick < ChkLinkTmr /\ chkLinkTick' = chkLinkTick + 1 /\ UNCHANGED sock
  \/ chkLinkTick = ChkLinkTmr /\ chkLinkTick' = 0 /\ sock' = [i \in Slots |-> ClosedSocket]

net_dev_loop ==
  /\ pc.at = "app"
  /\ pc' = [at |-> "serve", i |-> 0, up |-> link]
  /\ isLinked' = link
  /\ \/ ~link /\ LinkOff
     \/ link /\ UNCHANGED <<sock, chkLinkTick>>
  /\ UNCHANGED <<dev, link, sipr>>

EndRound ==
  /\ pc.at = "serve" /\ pc.i = SockNum
  /\ pc' = [at |-> "app", i |-> 0, up |-> FALSE]
  /\ UNCHANGED <<sock, dev, linkVars>>

ReadStatus ==
  /\ pc.at = "serve" /\ pc.i < SockNum
  /\ LET d == dev[pc.i]  s == sock[pc.i]
         served == d.kind # "NONE" /\ (d.kind \in Devices => pc.up)
     IN \/ ~served /\ NextSlot
        \/ /\ served
           /\ \/ s.sr \in DOMAIN Loop(d.kind) /\ Goto(Loop(d.kind)[s.sr])
              \/ s.sr \notin DOMAIN Loop(d.kind) /\ NextSlot
  /\ UNCHANGED <<sock, dev, linkVars>>

\* A new connection: cb_connected.
CheckCon ==
  /\ pc.at = "con" /\ Goto("rsr")
  /\ \/ "CON" \notin sock[pc.i].ir /\ UNCHANGED <<sock, dev>>
     \/ /\ "CON" \in sock[pc.i].ir /\ Set(pc.i, [sock[pc.i] EXCEPT !.ir = @ \ {"CON"}])
        /\ dev' = [dev EXCEPT ![pc.i].established = dev[pc.i].kind = "TCPC",
                              ![pc.i].told = dev[pc.i].kind \in Devices]
  /\ UNCHANGED linkVars

\* Received data: cb_newRcv, in which the application may take it or not; the samples take it
\* and, over TCP, the loopbacks send it back (a datagram's echo leaves the socket as it is).
CheckData ==
  /\ pc.at = "rsr"
  /\ LET s == sock[pc.i]  kind == dev[pc.i].kind
     IN \/ ~s.rx /\ NextSlot /\ UNCHANGED sock
        \/ s.rx /\ kind \in Devices /\ NextSlot /\ UNCHANGED sock
        \/ s.rx /\ kind \in Datagram /\ NextSlot /\ \E more \in BOOLEAN : Set(pc.i, [s EXCEPT !.rx = more])
        \/ /\ s.rx /\ kind \notin Datagram
           /\ \E t \in RecvResults(s) : Set(pc.i, t)
           /\ IF kind \notin Devices /\ s.sr \in Connected THEN Goto("echo") ELSE NextSlot
  /\ UNCHANGED <<dev, linkVars>>

Echo ==
  /\ pc.at = "echo" /\ NextSlot
  /\ \E t \in SendResults(sock[pc.i]) : Set(pc.i, t)
  /\ UNCHANGED <<dev, linkVars>>

\* disconnect(), in blocking mode
Disconnect ==
  /\ pc.at = "discon" /\ Goto("discon_wait")
  /\ Set(pc.i, Command("DISCON", sock[pc.i]))
  /\ UNCHANGED <<dev, linkVars>>

\* A timed-out disconnect() closes and fails, unless it sees CLOSED first; a server then skips cb_closed.
DisconnectEnd ==
  /\ pc.at = "discon_wait" /\ NextSlot
  /\ LET s == sock[pc.i]  d == dev[pc.i]
     IN \/ /\ s.sr = "CLOSED" /\ UNCHANGED sock
           /\ dev' = [dev EXCEPT ![pc.i].told = @ /\ d.kind # "TCPS"]
        \/ "TIMEOUT" \in s.ir /\ Set(pc.i, Close(s)) /\ UNCHANGED dev
  /\ UNCHANGED linkVars

\* listen()
Listen ==
  /\ pc.at = "listen"
  /\ LET s == sock[pc.i]
     IN \/ s.sr = "INIT" /\ Set(pc.i, Command("LISTEN", s)) /\ Goto("listen_sr")
        \/ s.sr # "INIT" /\ UNCHANGED sock /\ NextSlot
  /\ UNCHANGED <<dev, linkVars>>

ListenEnd ==
  /\ pc.at = "listen_sr" /\ NextSlot
  /\ LET s == sock[pc.i]
     IN \/ s.sr = "LISTEN" /\ UNCHANGED sock
        \/ s.sr # "LISTEN" /\ Set(pc.i, Close(s))
  /\ UNCHANGED <<dev, linkVars>>

\* connect(), in blocking mode: it waits for ESTABLISHED, TIMEOUT or CLOSED
Connect ==
  /\ pc.at = "connect"
  /\ LET s == sock[pc.i]
     IN \/ s.sr = "INIT" /\ Set(pc.i, Command("CONNECT", s)) /\ Goto("connect_wait")
        \/ s.sr # "INIT" /\ UNCHANGED sock /\ NextSlot
  /\ UNCHANGED <<dev, linkVars>>

\* Mutant: the loop of connect() has no exit for CLOSED and TIMEOUT.
ConnectEndOnlyEstablished ==
  /\ pc.at = "connect_wait" /\ NextSlot
  /\ sock[pc.i].sr = "ESTABLISHED" /\ UNCHANGED sock
  /\ UNCHANGED <<dev, linkVars>>

ConnectEnd ==
  /\ pc.at = "connect_wait" /\ NextSlot
  /\ LET s == sock[pc.i]
     IN \/ s.sr = "ESTABLISHED" /\ UNCHANGED sock
        \/ s.sr # "ESTABLISHED" /\ "TIMEOUT" \in s.ir /\ Set(pc.i, [s EXCEPT !.ir = @ \ {"TIMEOUT"}])
        \/ s.sr = "CLOSED" /\ UNCHANGED sock
  /\ UNCHANGED <<dev, linkVars>>

\* Mutant: a client opens again without reporting the end.
OpenUnreported ==
  /\ pc.at = "open" /\ NextSlot
  /\ LET d == dev[pc.i]  opens == d.kind = "TCPC" => d.resume
     IN \/ opens /\ sipr /\ Set(pc.i, Reopen(sock[pc.i])) /\ UNCHANGED dev
        \/ ~(opens /\ sipr) /\ UNCHANGED <<sock, dev>>
  /\ UNCHANGED linkVars

\* CLOSED: cb_closed of a client or UDP device; then socket(), a client only when told to resume.
OpenSocket ==
  /\ pc.at = "open" /\ NextSlot
  /\ LET d == dev[pc.i]  s == sock[pc.i]
         opens == (d.kind = "TCPC" => d.resume) /\ (sipr \/ d.kind \in Datagram)
     IN /\ dev' = [dev EXCEPT ![pc.i].established = FALSE, ![pc.i].told = @ /\ d.kind = "TCPS"]
        /\ \/ opens /\ Set(pc.i, IF d.kind \in Datagram THEN [Reopen(s) EXCEPT !.sr = "UDP"] ELSE Reopen(s))
           \/ ~opens /\ UNCHANGED sock
  /\ UNCHANGED linkVars

RoundStep ==
  \/ EndRound \/ ReadStatus \/ CheckCon \/ CheckData \/ Echo
  \/ Disconnect \/ DisconnectEnd \/ Listen \/ ListenEnd \/ Connect \/ ConnectEnd \/ OpenSocket

-----------------------------------------------------------------------------
(* The chip, the peers and the cable.                                      *)

Network ==
  /\ \E i \in Slots : \E t \in NetSteps(sock[i]) : Set(i, t)
  /\ UNCHANGED <<dev, linkVars, pc>>

DatagramArrives ==
  /\ \E i \in Slots : sock[i].sr = "UDP" /\ Set(i, [sock[i] EXCEPT !.rx = TRUE])
  /\ UNCHANGED <<dev, linkVars, pc>>

LinkChanges == link' = ~link /\ UNCHANGED <<sock, dev, isLinked, chkLinkTick, sipr, pc>>

ChipSettles(i) ==
  /\ \E t \in Settles(sock[i]) : Set(i, t)
  /\ UNCHANGED <<dev, linkVars, pc>>

Next ==
  \/ NewDevice \/ TcpClientOpen \/ TcpClientClose \/ DeviceSend
  \/ net_dev_loop \/ RoundStep
  \/ Network \/ DatagramArrives \/ LinkChanges

(* The main loop calls net_dev_loop() again and again, the CPU runs the    *)
(* round it is in, and the chip's retransmissions are bounded.             *)
Spec ==
  /\ Init /\ [][Next]_vars
  /\ WF_vars(net_dev_loop) /\ WF_vars(RoundStep)
  /\ \A i \in Slots : WF_vars(ChipSettles(i))

-----------------------------------------------------------------------------
Points == {"app", "serve", "con", "rsr", "echo", "discon", "discon_wait", "listen", "listen_sr",
           "connect", "connect_wait", "open"}

TypeOK ==
  /\ sock \in [Slots -> [sr : Status \union {"UDP"}, ir : SUBSET {"CON", "TIMEOUT"}, rx : BOOLEAN]]
  /\ dev \in [Slots -> [kind : Kinds \union {"NONE"}, established : BOOLEAN, resume : BOOLEAN, told : BOOLEAN]]
  /\ link \in BOOLEAN /\ isLinked \in BOOLEAN /\ sipr \in BOOLEAN
  /\ chkLinkTick \in 0 .. ChkLinkTmr
  /\ pc \in [at : Points, i : 0 .. SockNum, up : BOOLEAN]
  /\ pc.at \notin {"app", "serve"} => pc.i \in Slots

(* A client device reports its connections in turn: over resets, half-     *)
(* closes, lost links, chip resets and calls of closeSession(), the end of *)
(* a connection is reported, and isEstablished cleared, before the socket  *)
(* is opened again or a new connection can be reported.                    *)
ClientReportsInTurn ==
  \A i \in Slots :
    dev[i].kind = "TCPC" /\ (sock[i].sr \in {"INIT", "SYNSENT"} \/ "CON" \in sock[i].ir)
       => ~dev[i].told /\ ~dev[i].established

\* A blocking connect() that missed ESTABLISHED because the peer closed at once.
Hung == pc.at = "connect_wait" /\ sock[pc.i].sr = "CLOSE_WAIT"

(* Every round of the loop ends, whatever the peers do, except in the      *)
(* known hang of connect(): no device can hold up the others otherwise.    *)
LoopReturns == (pc.at # "app") ~> (pc.at = "app" \/ Hung)

(* A server whose socket is closed, by the peer, an error or a reset of    *)
(* the chip after a lost link, opens it again, unless the link is down,    *)
(* there is no address or another device is hung in connect().             *)
ServerReopens ==
  \A i \in Slots :
    (dev[i].kind = "TCPS" /\ sock[i].sr = "CLOSED") ~> (sock[i].sr # "CLOSED" \/ ~link \/ ~sipr \/ Hung)
=============================================================================
