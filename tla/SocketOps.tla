----------------------------- MODULE SocketOps -----------------------------
(***************************************************************************)
(* A TCP socket of the chip as the code above socket.c sees it: its status *)
(* Sn_SR, the interrupt bits CON and TIMEOUT of Sn_IR, and whether         *)
(* received data waits (Sn_RX_RSR > 0).  TcpSocket shows that the calls of *)
(* socket.c, register access by register access, move a socket only in     *)
(* these ways; the programs built on sockets are modelled over them.       *)
(***************************************************************************)

\* Sn_SR; FIN_WAIT also stands for CLOSING and TIME_WAIT, which no driver code tells apart.
Status == {"CLOSED", "INIT", "LISTEN", "SYNSENT", "SYNRECV", "ESTABLISHED",
           "CLOSE_WAIT", "FIN_WAIT", "LAST_ACK"}

Connected == {"ESTABLISHED", "CLOSE_WAIT"}

Socket == [sr : Status, ir : SUBSET {"CON", "TIMEOUT"}, rx : BOOLEAN]

ClosedSocket == [sr |-> "CLOSED", ir |-> {}, rx |-> FALSE]

\* The status after a command that only moves the connection.
AfterCommand(c, s) ==
  CASE c = "CLOSE" -> "CLOSED"
    [] c = "LISTEN" /\ s = "INIT" -> "LISTEN"
    [] c = "CONNECT" /\ s = "INIT" -> "SYNSENT"
    [] c = "DISCON" /\ s = "ESTABLISHED" -> "FIN_WAIT"
    [] c = "DISCON" /\ s = "CLOSE_WAIT" -> "LAST_ACK"
    [] c = "DISCON" /\ s \in {"INIT", "LISTEN", "SYNSENT", "SYNRECV"} -> "CLOSED"
    [] OTHER -> s

Command(c, s) == [s EXCEPT !.sr = AfterCommand(c, s.sr)]

\* The OPEN command empties the buffers; Sn_IR is left as it is.
Open(s) == [s EXCEPT !.sr = "INIT", !.rx = FALSE]

\* close(): the CLOSE command, then all of Sn_IR is cleared.
Close(s) == [s EXCEPT !.sr = "CLOSED", !.ir = {}]

\* socket(): close(), then OPEN.
Reopen(s) == Open(Close(s))

\* The sockets that may result from a step of socket s, empty when the step cannot happen.
When(possible, results) == IF possible THEN results ELSE {}

\* recv() called when data waits: all or part of it is taken, or the connection is gone.
RecvResults(s) == IF s.sr \in Connected THEN {s, [s EXCEPT !.rx = FALSE]} ELSE {Close(s)}

\* send() repeated until all is sent; on an error the callers close the socket, as send() may have.
SendResults(s) == IF s.sr \in Connected THEN {s} ELSE {Close(s)}

\* What the peer and the chip do on their own.
PeerConnects(s) == When(s.sr = "LISTEN", {[s EXCEPT !.sr = "SYNRECV"]})

HandshakeDone(s) ==
  When(s.sr \in {"SYNSENT", "SYNRECV"}, {[s EXCEPT !.sr = "ESTABLISHED", !.ir = @ \union {"CON"}]})

DataArrives(s) == When(s.sr \in {"ESTABLISHED", "FIN_WAIT"}, {[s EXCEPT !.rx = TRUE]})

PeerCloses(s) == When(s.sr = "ESTABLISHED", {[s EXCEPT !.sr = "CLOSE_WAIT"]})

Closing == {"FIN_WAIT", "LAST_ACK"}
Connecting == {"SYNSENT", "SYNRECV"}

\* A reset by the peer or the end of a close; or retransmissions, or a keep-alive, go unanswered.
ConnectionEnds(s) ==
  When(s.sr \in Connecting \union Connected \union Closing,
       {[s EXCEPT !.sr = "CLOSED"], [s EXCEPT !.sr = "CLOSED", !.ir = @ \union {"TIMEOUT"}]})

NetSteps(s) ==
  PeerConnects(s) \union HandshakeDone(s) \union DataArrives(s) \union PeerCloses(s) \union ConnectionEnds(s)

\* A handshake or a close under way ends: the chip retransmits a bounded number of times.
Settles(s) ==
  HandshakeDone(s) \union When(s.sr \in Connecting \union Closing, ConnectionEnds(s))
=============================================================================
