---------------------------- MODULE StreamSocket ----------------------------
(***************************************************************************)
(* What a TCP socket promises to the code above socket.c, whatever calls   *)
(* it makes: its status moves only by the commands and the network steps   *)
(* of SocketOps, CON and TIMEOUT come only with the step they report and   *)
(* never outlive the use of the socket they belong to, and received data   *)
(* waits until it is taken or the socket is opened anew.                   *)
(***************************************************************************)
EXTENDS SocketOps

VARIABLE sock

Init == sock = ClosedSocket

GiveCommand == \E c \in {"CLOSE", "LISTEN", "CONNECT", "DISCON"} : sock' = Command(c, sock)

\* socket() opens only what it has closed and cleared.
OpenSocket == sock.sr = "CLOSED" /\ sock.ir = {} /\ sock' = Open(sock)

ClearInterrupts == \E i \in SUBSET sock.ir : sock' = [sock EXCEPT !.ir = i]

\* All that waits has been taken.
TakeData == sock' = [sock EXCEPT !.rx = FALSE]

Network == \E t \in NetSteps(sock) : sock' = t

Next == GiveCommand \/ OpenSocket \/ ClearInterrupts \/ TakeData \/ Network

Spec == Init /\ [][Next]_sock
=============================================================================
