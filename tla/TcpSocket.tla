----------------------------- MODULE TcpSocket -----------------------------
(***************************************************************************)
(* One hardware TCP socket: the calls of Ethernet/socket.c on it, register *)
(* access by register access, against the chip and the peer, which move    *)
(* between any two accesses.                                               *)
(*                                                                         *)
(* The driver is sequential: pc is the next register access of the call in *)
(* progress, "idle" between calls.  A command is written to Sn_CR and the  *)
(* chip clears the register when it has taken the command; the driver's    *)
(* busy-waits are guards.  Bytes are counted from the opening of the       *)
(* socket: byte number k of a direction is in the ring cell k % size, so   *)
(* the pointers are counters and the contents need no representation.      *)
(***************************************************************************)
EXTENDS Naturals, SocketOps

CONSTANTS
  TxMAX, RxMAX,   \* sizes of the socket's TX and RX buffers (Sn_TXBUF_SIZE, Sn_RXBUF_SIZE)
  Lens,           \* the lengths an application passes to send() and recv()
  Clearable,      \* the interrupts an application clears with ctlsocket(CS_CLR_INTERRUPT)
  MaxTx, MaxRx    \* bounds: bytes sent and received in one opening of the socket

ASSUME SizesAssumption ==
  /\ TxMAX \in Nat \ {0} /\ RxMAX \in Nat \ {0}
  /\ MaxTx \in Nat /\ MaxRx \in Nat
  /\ Lens \subseteq Nat
  /\ Clearable \subseteq {"CON", "SENDOK", "TIMEOUT"}

CommandCode == {"none", "OPEN", "CLOSE", "LISTEN", "CONNECT", "DISCON", "SEND", "SEND_KEEP", "RECV"}

\* The bits of Sn_IR that the driver tests (RECV and DISCON are not).
Interrupt == {"CON", "SENDOK", "TIMEOUT"}

VARIABLES
  \* the driver
  pc, ret,           \* where the call is; what the last call returned
  after,             \* what follows the close() in progress: "return" or "open"
  flag, len, size,   \* parameters flag and len; local freesize / recvsize
  io_mode,           \* bit sn of sock_io_mode: TRUE is non-blocking
  is_sending,        \* bit sn of sock_is_sending
  \* the chip
  mr, sr, cr, ir,    \* mr: Sn_MR has been set to TCP
  txWr, txRd,        \* bytes written by the host (TX_WR); handed over by SEND (TX_RD)
  txSent, txAck,     \* bytes whose SEND has completed (SENDOK); acknowledged by the peer
  rxWr, rxRd, rxDone \* bytes received; read by the host (RX_RD); released by RECV

args  == <<after, flag, len>>
drv   == <<io_mode, is_sending>>
tx    == <<txWr, txRd, txSent, txAck>>
rx    == <<rxWr, rxRd, rxDone>>
vars  == <<pc, ret, args, size, drv, mr, sr, cr, ir, tx, rx>>

TX_FSR == TxMAX - (txWr - txAck)
RX_RSR == rxWr - rxDone

Init ==
  /\ pc = "idle" /\ ret = "none"
  /\ after = "return" /\ flag = FALSE /\ len = 0 /\ size = 0
  /\ io_mode = FALSE /\ is_sending = FALSE
  /\ mr = FALSE /\ sr = "CLOSED" /\ cr = "none" /\ ir = {}
  /\ txWr = 0 /\ txRd = 0 /\ txSent = 0 /\ txAck = 0
  /\ rxWr = 0 /\ rxRd = 0 /\ rxDone = 0

-----------------------------------------------------------------------------
(* How the calls are put together.                                         *)

Goto(p) == pc' = p /\ UNCHANGED ret
Return(code) == pc' = "idle" /\ ret' = code

\* setSn_CR(sn, c), after which the call waits at p for Sn_CR to be cleared.
Issue(c, p) == cr' = c /\ pc' = p

\* A call of close(sn) on the way to returning code.
CloseThenReturn(code) ==
  Issue("CLOSE", "close_cr") /\ ret' = code /\ after' = "return" /\ UNCHANGED <<flag, len>>

\* CHECK_SOCKMODE(Sn_MR_TCP) at the head of listen, connect, disconnect, send, recv.
WrongModeCall ==
  /\ pc = "idle" /\ ~mr
  /\ Return("SOCKERR_SOCKMODE")
  /\ UNCHANGED <<args, size, drv, mr, sr, cr, ir, tx, rx>>

-----------------------------------------------------------------------------
(* close()                                                                 *)

CloseCall ==
  /\ pc = "idle"
  /\ CloseThenReturn("SOCK_OK")
  /\ UNCHANGED <<size, drv, mr, sr, ir, tx, rx>>

\* Mutant: the interrupts of the old connection are not cleared.
CloseClearKeepsIR ==
  /\ pc = "close_cr" /\ cr = "none"
  /\ io_mode' = FALSE /\ is_sending' = FALSE
  /\ Goto("close_sr")
  /\ UNCHANGED <<args, size, mr, sr, cr, ir, tx, rx>>

CloseClear ==
  /\ pc = "close_cr" /\ cr = "none"
  /\ ir' = {} /\ io_mode' = FALSE /\ is_sending' = FALSE
  /\ Goto("close_sr")
  /\ UNCHANGED <<args, size, mr, sr, cr, tx, rx>>

\* close() ends; socket() goes on with MR, PORT and OPEN.
CloseEnd ==
  /\ pc = "close_sr" /\ sr = "CLOSED"
  /\ \/ after = "return" /\ Return(ret) /\ UNCHANGED <<mr, cr>>
     \/ after = "open" /\ mr' = TRUE /\ Issue("OPEN", "open_cr") /\ UNCHANGED ret
  /\ UNCHANGED <<args, size, drv, sr, ir, tx, rx>>

-----------------------------------------------------------------------------
(* socket(sn, Sn_MR_TCP, port, flag): nonblock is SF_IO_NONBLOCK of flag.  *)
(* It fails at once if the source address SIPR is 0 (SOCKINIT), or on an   *)
(* invalid flag.                                                           *)

SocketCall ==
  /\ pc = "idle"
  /\ \/ \E e \in {"SOCKERR_SOCKINIT", "SOCKERR_SOCKFLAG"} : Return(e) /\ UNCHANGED <<args, cr>>
     \/ \E nonblock \in BOOLEAN :
          /\ Issue("CLOSE", "close_cr") /\ ret' = "none"
          /\ after' = "open" /\ flag' = nonblock /\ UNCHANGED len
  /\ UNCHANGED <<size, drv, mr, sr, ir, tx, rx>>

SocketOpened ==
  /\ pc = "open_cr" /\ cr = "none"
  /\ io_mode' = flag /\ is_sending' = FALSE
  /\ Goto("open_sr")
  /\ UNCHANGED <<args, size, mr, sr, cr, ir, tx, rx>>

SocketEnd ==
  /\ pc = "open_sr" /\ sr # "CLOSED"
  /\ Return("sn")
  /\ UNCHANGED <<args, size, drv, mr, sr, cr, ir, tx, rx>>

-----------------------------------------------------------------------------
(* listen()                                                                *)

ListenCall ==
  /\ pc = "idle" /\ mr
  /\ \/ sr # "INIT" /\ Return("SOCKERR_SOCKINIT") /\ UNCHANGED cr
     \/ sr = "INIT" /\ Issue("LISTEN", "listen_cr") /\ ret' = "none"
  /\ UNCHANGED <<args, size, drv, mr, sr, ir, tx, rx>>

\* One look at Sn_SR: anything but LISTEN closes the socket.
ListenEnd ==
  /\ pc = "listen_cr" /\ cr = "none"
  /\ \/ sr = "LISTEN" /\ Return("SOCK_OK") /\ UNCHANGED <<args, cr>>
     \/ sr # "LISTEN" /\ CloseThenReturn("SOCKERR_SOCKCLOSED")
  /\ UNCHANGED <<size, drv, mr, sr, ir, tx, rx>>

-----------------------------------------------------------------------------
(* connect(); which address and port are refused is left open.             *)

ConnectCall ==
  /\ pc = "idle" /\ mr
  /\ \/ sr # "INIT" /\ Return("SOCKERR_SOCKINIT") /\ UNCHANGED cr
     \/ sr = "INIT" /\ \E e \in {"SOCKERR_IPINVALID", "SOCKERR_PORTZERO"} : Return(e) /\ UNCHANGED cr
     \/ sr = "INIT" /\ Issue("CONNECT", "connect_cr") /\ ret' = "none"
  /\ UNCHANGED <<args, size, drv, mr, sr, ir, tx, rx>>

ConnectTaken ==
  /\ pc = "connect_cr" /\ cr = "none"
  /\ \/ io_mode /\ Return("SOCK_BUSY")
     \/ ~io_mode /\ Goto("connect_sr")
  /\ UNCHANGED <<args, size, drv, mr, sr, cr, ir, tx, rx>>

ConnectPollSR ==
  /\ pc = "connect_sr"
  /\ \/ sr = "ESTABLISHED" /\ Return("SOCK_OK")
     \/ sr # "ESTABLISHED" /\ Goto("connect_ir")
  /\ UNCHANGED <<args, size, drv, mr, sr, cr, ir, tx, rx>>

ConnectPollIR ==
  /\ pc = "connect_ir"
  /\ \/ "TIMEOUT" \in ir /\ ir' = ir \ {"TIMEOUT"} /\ Return("SOCKERR_TIMEOUT")
     \/ "TIMEOUT" \notin ir /\ Goto("connect_sr2") /\ UNCHANGED ir
  /\ UNCHANGED <<args, size, drv, mr, sr, cr, tx, rx>>

ConnectPollClosed ==
  /\ pc = "connect_sr2"
  /\ \/ sr = "CLOSED" /\ Return("SOCKERR_SOCKCLOSED")
     \/ sr # "CLOSED" /\ Goto("connect_sr")
  /\ UNCHANGED <<args, size, drv, mr, sr, cr, ir, tx, rx>>

-----------------------------------------------------------------------------
(* disconnect()                                                            *)

DisconnectCall ==
  /\ pc = "idle" /\ mr
  /\ Issue("DISCON", "discon_cr") /\ ret' = "none"
  /\ UNCHANGED <<args, size, drv, mr, sr, ir, tx, rx>>

DisconnectTaken ==
  /\ pc = "discon_cr" /\ cr = "none"
  /\ is_sending' = FALSE
  /\ \/ io_mode /\ Return("SOCK_BUSY")
     \/ ~io_mode /\ Goto("discon_sr")
  /\ UNCHANGED <<args, size, io_mode, mr, sr, cr, ir, tx, rx>>

DisconnectPollSR ==
  /\ pc = "discon_sr"
  /\ \/ sr = "CLOSED" /\ Return("SOCK_OK")
     \/ sr # "CLOSED" /\ Goto("discon_ir")
  /\ UNCHANGED <<args, size, drv, mr, sr, cr, ir, tx, rx>>

DisconnectPollIR ==
  /\ pc = "discon_ir"
  /\ \/ "TIMEOUT" \in ir /\ CloseThenReturn("SOCKERR_TIMEOUT")
     \/ "TIMEOUT" \notin ir /\ Goto("discon_sr") /\ UNCHANGED <<args, cr>>
  /\ UNCHANGED <<size, drv, mr, sr, ir, tx, rx>>

-----------------------------------------------------------------------------
(* send()                                                                  *)

Min2(a, b) == IF a <= b THEN a ELSE b

SendCall ==
  /\ pc = "idle" /\ mr
  /\ \E l \in Lens :
       \/ l = 0 /\ Return("SOCKERR_DATALEN") /\ UNCHANGED len
       \/ l > 0 /\ sr \notin Connected /\ Return("SOCKERR_SOCKSTATUS") /\ UNCHANGED len
       \/ /\ l > 0 /\ sr \in Connected
          /\ txWr + l <= MaxTx
          /\ len' = Min2(l, TxMAX)
          /\ pc' = (IF is_sending THEN "send_ir" ELSE "send_fsr") /\ ret' = "none"
  /\ UNCHANGED <<after, flag, size, drv, mr, sr, cr, ir, tx, rx>>

\* Mutant: SENDOK is taken but left set in Sn_IR.
SendPreviousKeepsSENDOK ==
  /\ pc = "send_ir"
  /\ \/ "SENDOK" \in ir /\ is_sending' = FALSE /\ Goto("send_fsr") /\ UNCHANGED <<args, cr, ir>>
     \/ /\ "SENDOK" \notin ir /\ "TIMEOUT" \in ir
        /\ CloseThenReturn("SOCKERR_TIMEOUT") /\ UNCHANGED <<is_sending, ir>>
     \/ /\ "SENDOK" \notin ir /\ "TIMEOUT" \notin ir
        /\ Return("SOCK_BUSY") /\ UNCHANGED <<args, cr, is_sending, ir>>
  /\ UNCHANGED <<size, io_mode, mr, sr, tx, rx>>

\* The previous send: done, timed out, or still under way.
SendPrevious ==
  /\ pc = "send_ir"
  /\ \/ /\ "SENDOK" \in ir
        /\ ir' = ir \ {"SENDOK"} /\ is_sending' = FALSE
        /\ Goto("send_fsr") /\ UNCHANGED <<args, cr>>
     \/ /\ "SENDOK" \notin ir /\ "TIMEOUT" \in ir
        /\ CloseThenReturn("SOCKERR_TIMEOUT") /\ UNCHANGED <<is_sending, ir>>
     \/ /\ "SENDOK" \notin ir /\ "TIMEOUT" \notin ir
        /\ Return("SOCK_BUSY") /\ UNCHANGED <<args, cr, is_sending, ir>>
  /\ UNCHANGED <<size, io_mode, mr, sr, tx, rx>>

SendReadFSR ==
  /\ pc = "send_fsr"
  /\ size' = TX_FSR
  /\ Goto("send_sr")
  /\ UNCHANGED <<args, drv, mr, sr, cr, ir, tx, rx>>

\* Mutant: the free size is not compared with the length.
SendCheckIgnoresSize ==
  /\ pc = "send_sr"
  /\ \/ sr \notin Connected /\ CloseThenReturn("SOCKERR_SOCKSTATUS")
     \/ sr \in Connected /\ Goto("send_write") /\ UNCHANGED <<args, cr>>
  /\ UNCHANGED <<size, drv, mr, sr, ir, tx, rx>>

SendCheck ==
  /\ pc = "send_sr"
  /\ \/ sr \notin Connected /\ CloseThenReturn("SOCKERR_SOCKSTATUS")
     \/ /\ sr \in Connected /\ UNCHANGED <<args, cr>>
        /\ \/ io_mode /\ len > size /\ Return("SOCK_BUSY")
           \/ ~io_mode /\ len > size /\ Goto("send_fsr")
           \/ len <= size /\ Goto("send_write")
  /\ UNCHANGED <<size, drv, mr, sr, ir, tx, rx>>

\* wiz_send_data() and the SEND command.
SendWrite ==
  /\ pc = "send_write"
  /\ txWr' = txWr + len
  /\ Issue("SEND", "send_cr") /\ UNCHANGED ret
  /\ UNCHANGED <<args, size, drv, mr, sr, ir, txRd, txSent, txAck, rx>>

SendEnd ==
  /\ pc = "send_cr" /\ cr = "none"
  /\ is_sending' = TRUE
  /\ Return("len")
  /\ UNCHANGED <<args, size, io_mode, mr, sr, cr, ir, tx, rx>>

-----------------------------------------------------------------------------
(* recv()                                                                  *)

RecvCall ==
  /\ pc = "idle" /\ mr
  /\ \E l \in Lens :
       \/ l = 0 /\ Return("SOCKERR_DATALEN") /\ UNCHANGED len
       \/ l > 0 /\ len' = Min2(l, RxMAX) /\ pc' = "recv_rsr" /\ ret' = "none"
  /\ UNCHANGED <<after, flag, size, drv, mr, sr, cr, ir, tx, rx>>

RecvReadRSR ==
  /\ pc = "recv_rsr"
  /\ size' = RX_RSR
  /\ Goto("recv_sr")
  /\ UNCHANGED <<args, drv, mr, sr, cr, ir, tx, rx>>

\* Mutant: an empty buffer is polled again in either mode.
RecvPollAlwaysWaits ==
  \/ size # 0 /\ Goto("recv_read")
  \/ size = 0 /\ Goto("recv_rsr")

\* The end of the polling loop: read, come back later, or poll again.
RecvPoll ==
  \/ size # 0 /\ Goto("recv_read")
  \/ size = 0 /\ io_mode /\ Return("SOCK_BUSY")
  \/ size = 0 /\ ~io_mode /\ Goto("recv_rsr")

\* Sn_SR, read after Sn_RX_RSR: the size may be out of date by then.
RecvCheck ==
  /\ pc = "recv_sr"
  /\ \/ sr \notin Connected /\ CloseThenReturn("SOCKERR_SOCKSTATUS")
     \/ /\ sr = "CLOSE_WAIT" /\ size = 0
        /\ Goto("recv_fsr") /\ UNCHANGED <<args, cr>>
     \/ /\ sr = "ESTABLISHED" \/ (sr = "CLOSE_WAIT" /\ size # 0)
        /\ RecvPoll /\ UNCHANGED <<args, cr>>
  /\ UNCHANGED <<size, drv, mr, sr, ir, tx, rx>>

\* Half closed and nothing to read: close once everything sent is acknowledged.
RecvHalfClosed ==
  /\ pc = "recv_fsr"
  /\ \/ TX_FSR = TxMAX /\ CloseThenReturn("SOCKERR_SOCKSTATUS")
     \/ TX_FSR # TxMAX /\ RecvPoll /\ UNCHANGED <<args, cr>>
  /\ UNCHANGED <<size, drv, mr, sr, ir, tx, rx>>

\* Mutant: the length is not cut down to what has been received.
RecvReadUnclipped ==
  /\ pc = "recv_read"
  /\ rxRd' = rxRd + len
  /\ Issue("RECV", "recv_cr") /\ UNCHANGED ret
  /\ UNCHANGED <<args, size, drv, mr, sr, ir, tx, rxWr, rxDone>>

\* wiz_recv_data() and the RECV command.
RecvRead ==
  /\ pc = "recv_read"
  /\ rxRd' = rxRd + Min2(size, len)
  /\ Issue("RECV", "recv_cr") /\ UNCHANGED ret
  /\ UNCHANGED <<args, size, drv, mr, sr, ir, tx, rxWr, rxDone>>

RecvEnd ==
  /\ pc = "recv_cr" /\ cr = "none"
  /\ Return("len")
  /\ UNCHANGED <<args, size, drv, mr, sr, cr, ir, tx, rx>>

-----------------------------------------------------------------------------
(* ctlsocket() and setsockopt(SO_KEEPALIVESEND)                            *)

SetIOMode ==
  /\ pc = "idle"
  /\ io_mode' \in BOOLEAN
  /\ Return("SOCK_OK")
  /\ UNCHANGED <<args, size, is_sending, mr, sr, cr, ir, tx, rx>>

ClearInterrupt ==
  /\ pc = "idle"
  /\ \E i \in SUBSET Clearable : ir' = ir \ i
  /\ Return("SOCK_OK")
  /\ UNCHANGED <<args, size, drv, mr, sr, cr, tx, rx>>

\* Refused while the chip sends keep-alives by itself (Sn_KPALVTR # 0).
KeepAliveCall ==
  /\ pc = "idle" /\ mr
  /\ \/ Return("SOCKERR_SOCKOPT") /\ UNCHANGED cr
     \/ Issue("SEND_KEEP", "keep_cr") /\ ret' = "none"
  /\ UNCHANGED <<args, size, drv, mr, sr, ir, tx, rx>>

KeepAlivePollCR ==
  /\ pc = "keep_cr"
  /\ \/ cr = "none" /\ Return("SOCK_OK")
     \/ cr # "none" /\ Goto("keep_ir")
  /\ UNCHANGED <<args, size, drv, mr, sr, cr, ir, tx, rx>>

KeepAlivePollIR ==
  /\ pc = "keep_ir"
  /\ \/ "TIMEOUT" \in ir /\ ir' = ir \ {"TIMEOUT"} /\ Return("SOCKERR_TIMEOUT")
     \/ "TIMEOUT" \notin ir /\ Goto("keep_cr") /\ UNCHANGED ir
  /\ UNCHANGED <<args, size, drv, mr, sr, cr, tx, rx>>

-----------------------------------------------------------------------------
(* The chip takes the command in Sn_CR (W5500/w5500.h, "Sn_CR values").    *)

host == <<pc, ret, args, size, drv>>

ChipOpen ==
  /\ cr = "OPEN" /\ cr' = "none" /\ sr' = "INIT"
  /\ txWr' = 0 /\ txRd' = 0 /\ txSent' = 0 /\ txAck' = 0
  /\ rxWr' = 0 /\ rxRd' = 0 /\ rxDone' = 0
  /\ UNCHANGED <<host, mr, ir>>

ChipConnection ==
  /\ cr \in {"CLOSE", "LISTEN", "CONNECT", "DISCON"}
  /\ cr' = "none" /\ sr' = AfterCommand(cr, sr)
  /\ UNCHANGED <<host, mr, ir, tx, rx>>

ChipSend ==
  /\ cr = "SEND" /\ cr' = "none"
  /\ txRd' = (IF sr \in Connected THEN txWr ELSE txRd)
  /\ UNCHANGED <<host, mr, sr, ir, txWr, txSent, txAck, rx>>

ChipRecv ==
  /\ cr = "RECV" /\ cr' = "none" /\ rxDone' = rxRd
  /\ UNCHANGED <<host, mr, sr, ir, tx, rxWr, rxRd>>

\* A keep-alive that the peer does not answer ends the connection.
ChipKeepAlive ==
  /\ cr = "SEND_KEEP" /\ cr' = "none"
  /\ \/ UNCHANGED <<sr, ir>>
     \/ sr \in Connected /\ sr' = "CLOSED" /\ ir' = ir \union {"TIMEOUT"}
  /\ UNCHANGED <<host, mr, tx, rx>>

ChipCommand == ChipOpen \/ ChipConnection \/ ChipSend \/ ChipRecv \/ ChipKeepAlive

-----------------------------------------------------------------------------
(* The chip and the peer on their own.                                     *)

ChipSendOk ==
  /\ sr \in Connected /\ txSent < txRd
  /\ txSent' = txRd /\ ir' = ir \union {"SENDOK"}
  /\ UNCHANGED <<host, mr, sr, cr, txWr, txRd, txAck, rx>>

\* Retransmissions are exhausted.
ChipTimeout ==
  /\ \/ sr \in {"SYNSENT", "SYNRECV", "FIN_WAIT", "LAST_ACK"}
     \/ sr \in Connected /\ (txSent < txRd \/ txAck < txRd)
  /\ sr' = "CLOSED" /\ ir' = ir \union {"TIMEOUT"}
  /\ UNCHANGED <<host, mr, cr, tx, rx>>

PeerAcksData ==
  /\ sr \in Connected
  /\ \E a \in txAck + 1 .. txRd : txAck' = a
  /\ UNCHANGED <<host, mr, sr, cr, ir, txWr, txRd, txSent, rx>>

PeerSendsData ==
  /\ sr \in {"ESTABLISHED", "FIN_WAIT"}
  /\ \E n \in 1 .. RxMAX - (rxWr - rxDone) : rxWr + n <= MaxRx /\ rxWr' = rxWr + n
  /\ UNCHANGED <<host, mr, sr, cr, ir, tx, rxRd, rxDone>>

ClientConnects ==
  /\ sr = "LISTEN" /\ sr' = "SYNRECV"
  /\ UNCHANGED <<host, mr, cr, ir, tx, rx>>

HandshakeEnds ==
  /\ sr \in {"SYNSENT", "SYNRECV"}
  /\ sr' = "ESTABLISHED" /\ ir' = ir \union {"CON"}
  /\ UNCHANGED <<host, mr, cr, tx, rx>>

PeerSendsFin ==
  /\ sr = "ESTABLISHED" /\ sr' = "CLOSE_WAIT"
  /\ UNCHANGED <<host, mr, cr, ir, tx, rx>>

PeerResets ==
  /\ sr \in {"SYNSENT", "SYNRECV", "FIN_WAIT", "LAST_ACK"} \union Connected
  /\ sr' = "CLOSED"
  /\ UNCHANGED <<host, mr, cr, ir, tx, rx>>

CloseAcknowledged ==
  /\ sr \in {"FIN_WAIT", "LAST_ACK"} /\ sr' = "CLOSED"
  /\ UNCHANGED <<host, mr, cr, ir, tx, rx>>

-----------------------------------------------------------------------------
ApplicationCall ==
  \/ WrongModeCall \/ CloseCall \/ SocketCall \/ ListenCall \/ ConnectCall
  \/ DisconnectCall \/ SendCall \/ RecvCall
  \/ SetIOMode \/ ClearInterrupt \/ KeepAliveCall

DriverStep ==
  \/ CloseClear \/ CloseEnd
  \/ SocketOpened \/ SocketEnd
  \/ ListenEnd
  \/ ConnectTaken \/ ConnectPollSR \/ ConnectPollIR \/ ConnectPollClosed
  \/ DisconnectTaken \/ DisconnectPollSR \/ DisconnectPollIR
  \/ SendPrevious \/ SendReadFSR \/ SendCheck \/ SendWrite \/ SendEnd
  \/ RecvReadRSR \/ RecvCheck \/ RecvHalfClosed \/ RecvRead \/ RecvEnd
  \/ KeepAlivePollCR \/ KeepAlivePollIR

Network ==
  \/ ChipSendOk \/ ChipTimeout \/ PeerAcksData \/ PeerSendsData
  \/ ClientConnects \/ HandshakeEnds \/ PeerSendsFin \/ PeerResets \/ CloseAcknowledged

Next == ApplicationCall \/ DriverStep \/ ChipCommand \/ Network

(* The CPU runs the call it is in, the chip takes every command, and it    *)
(* retransmits a bounded number of times (RCR): what waits for the peer    *)
(* ends in an answer or in a timeout.  Nothing is assumed of the peer.     *)
Spec ==
  /\ Init /\ [][Next]_vars
  /\ WF_vars(DriverStep) /\ WF_vars(ChipCommand)
  /\ WF_vars(PeerAcksData \/ ChipTimeout)
  /\ WF_vars(HandshakeEnds \/ CloseAcknowledged \/ ChipTimeout)

-----------------------------------------------------------------------------
CallPoint ==
  {"idle", "close_cr", "close_sr", "open_cr", "open_sr", "listen_cr",
   "connect_cr", "connect_sr", "connect_ir", "connect_sr2",
   "discon_cr", "discon_sr", "discon_ir",
   "send_ir", "send_fsr", "send_sr", "send_write", "send_cr",
   "recv_rsr", "recv_sr", "recv_fsr", "recv_read", "recv_cr", "keep_cr", "keep_ir"}

ConnectPoint == {"connect_cr", "connect_sr", "connect_ir", "connect_sr2"}
Receiving == {"recv_rsr", "recv_sr", "recv_fsr"}

ReturnCode ==
  {"none", "SOCK_OK", "SOCK_BUSY", "sn", "len", "SOCKERR_SOCKINIT", "SOCKERR_SOCKFLAG",
   "SOCKERR_SOCKMODE", "SOCKERR_SOCKCLOSED", "SOCKERR_IPINVALID", "SOCKERR_PORTZERO",
   "SOCKERR_TIMEOUT", "SOCKERR_DATALEN", "SOCKERR_SOCKSTATUS", "SOCKERR_SOCKOPT"}

TypeOK ==
  /\ pc \in CallPoint /\ ret \in ReturnCode
  /\ after \in {"return", "open"} /\ flag \in BOOLEAN
  /\ len \in Nat /\ size \in Nat
  /\ io_mode \in BOOLEAN /\ is_sending \in BOOLEAN
  /\ mr \in BOOLEAN /\ sr \in Status /\ cr \in CommandCode /\ ir \subseteq Interrupt
  /\ txWr \in Nat /\ txRd \in Nat /\ txSent \in Nat /\ txAck \in Nat
  /\ rxWr \in Nat /\ rxRd \in Nat /\ rxDone \in Nat

(* send() never overwrites bytes of the TX ring that the peer has not      *)
(* acknowledged, although it compares the length with a Sn_TX_FSR read     *)
(* some register accesses earlier.                                         *)
TxNeverOverrun == txWr - txAck <= TxMAX

(* recv() takes from the RX ring only bytes that were received, in order   *)
(* and once, although the size it works with is old.                       *)
RxNeverOverread == rxDone <= rxRd /\ rxRd <= rxWr /\ rxWr - rxDone <= RxMAX

(* On a live connection sock_is_sending is set exactly while a SEND is     *)
(* under way or its SENDOK waits to be collected: a later send() neither   *)
(* waits for a completion that cannot come (SOCK_BUSY for ever) nor takes  *)
(* the completion of another SEND, or of an earlier connection, for its    *)
(* own.  Between the SEND command and its last line send() is on its way   *)
(* to set the flag.                                                        *)
SendMatchesCompletion ==
  sr \in Connected /\ pc # "send_cr" =>
    (is_sending <=> (txSent < txRd \/ "SENDOK" \in ir))

(* A SEND command is given only when the one before has completed.         *)
OneSendOutstanding == cr = "SEND" /\ sr \in Connected => txSent = txRd /\ "SENDOK" \notin ir

(* A TIMEOUT that connect() finds in Sn_IR is that of its own attempt,     *)
(* never left over from an earlier use of the socket.                      *)
ConnectTimeoutIsOwn == pc \in ConnectPoint /\ "TIMEOUT" \in ir => sr = "CLOSED"

(* Every call returns, save a blocking connect() or recv(): socket(),      *)
(* close(), listen(), disconnect(), send() and the options wait only for   *)
(* the chip, or for what the chip ends by a timeout, and in non-blocking   *)
(* mode connect() and recv() wait for nothing else either.                 *)
CallsReturn ==
  (pc # "idle" /\ (io_mode \/ pc \notin ConnectPoint \union Receiving)) ~> (pc = "idle")

(* The socket seen from above: one stream socket, moved by the calls of    *)
(* socket.c only as SocketOps says, although a call takes many register    *)
(* accesses and the chip and the peer move in between.                     *)
View == [sr |-> sr, ir |-> ir \ {"SENDOK"}, rx |-> rxWr # rxDone]

Abstract == INSTANCE StreamSocket WITH sock <- View

ImplementsStreamSocket == Abstract!Spec

-----------------------------------------------------------------------------
(* What the documentation says of the calls, and the code does not do.     *)

(* socket.h, connect(): "In block io mode, it does not return until        *)
(* connection is completed."  Once the connection is completed it returns. *)
ConnectReturnsWhenEstablished ==
  (pc \in ConnectPoint /\ sr = "ESTABLISHED") ~> (pc = "idle")

(* socket.h, listen(): "If connection request is accepted successfully,    *)
(* the connection is established."  listen() does not close a connection   *)
(* that a client has just established.                                     *)
ListenKeepsConnection ==
  [][pc = "listen_cr" /\ pc' = "close_cr" => sr # "ESTABLISHED"]_vars

(* w5500.h, SOCK_CLOSE_WAIT: "This is half-closing status, and data can be *)
(* transferred."  recv() does not close the socket over unread data.       *)
RecvKeepsReceivedData ==
  [][pc = "recv_fsr" /\ pc' = "close_cr" => rxWr = rxRd]_vars
=============================================================================
