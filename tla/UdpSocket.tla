----------------------------- MODULE UdpSocket -----------------------------
(***************************************************************************)
(* One hardware socket in a datagram mode (UDP, IPRAW or MACRAW):          *)
(* sendto(), recvfrom() and what getsockopt() tells about the datagram     *)
(* being read (Ethernet/socket.c).                                         *)
(*                                                                         *)
(* The chip stores every datagram in the RX buffer behind a header that    *)
(* holds its length.  recvfrom() decodes the header when nothing remains   *)
(* of the datagram before, and takes as many bytes as the caller asks for; *)
(* the rest is left for the next call.  Whether it stays in step with the  *)
(* headers is the question: the buffer is a plain byte stream, here the    *)
(* function stream from positions to the datagram (position of its first   *)
(* byte, length of its data) that the byte belongs to.                     *)
(*                                                                         *)
(* The SPI transfer, the RECV command and its acknowledgement are one      *)
(* step: in these modes the chip changes nothing else meanwhile than by    *)
(* appending datagrams.  The command handshake itself is in TcpSocket.     *)
(***************************************************************************)
EXTENDS Integers, FiniteSets

CONSTANTS
  RxMAX,          \* size of the socket's RX buffer
  Sizes,          \* data sizes of the datagrams on the network
  Lens,           \* lengths passed to sendto() and recvfrom()
  MaxFrame,       \* largest MACRAW frame recvfrom() accepts (1514)
  Garbage,        \* lengths that bytes other than a header may spell
  MaxDatagrams    \* bound: datagrams received in one opening of the socket

ASSUME ConstantsAssumption ==
  /\ RxMAX \in Nat /\ MaxFrame \in Nat /\ MaxDatagrams \in Nat
  /\ Sizes \subseteq Nat /\ Lens \subseteq Nat /\ Garbage \subseteq Nat

Mode == {"UDP", "IPRAW", "MACRAW"}

\* What recvfrom() reads ahead of the data: address, port, length; address, length; length.
HeaderLen(m) == IF m = "UDP" THEN 8 ELSE IF m = "IPRAW" THEN 6 ELSE 2

VARIABLES
  pc, ret,                  \* where the call is; what the last call returned
  len, size,                \* parameter len; the size read from Sn_RX_RSR, or a getsockopt() result
  io_mode, remained,        \* sock_io_mode, sock_remained_size
  packFirst, packRemained,  \* PACK_FIRST and PACK_REMAINED of sock_pack_info
  from,                     \* the datagram whose header recvfrom() decoded last, or -1
  mode, open, ir, flight,   \* Sn_MR; Sn_SR # CLOSED; Sn_IR; a SEND is under way
  stream, rxWr, rxRd        \* the RX buffer

call  == <<pc, ret, len, size>>
drv   == <<io_mode, remained, packFirst, packRemained, from>>
rx    == <<stream, rxWr, rxRd>>
vars  == <<call, drv, mode, open, ir, flight, rx>>

Init ==
  /\ pc = "idle" /\ ret = "none" /\ len = 0 /\ size = 0
  /\ io_mode = FALSE /\ remained = 0 /\ packFirst = FALSE /\ packRemained = FALSE
  /\ from = -1
  /\ mode = "none" /\ open = FALSE /\ ir = {} /\ flight = FALSE
  /\ stream = [p \in {} |-> [first |-> 0, len |-> 0]] /\ rxWr = 0 /\ rxRd = 0

Min2(a, b) == IF a <= b THEN a ELSE b

Goto(p) == pc' = p /\ UNCHANGED <<ret, len, size>>
Return(code) == pc' = "idle" /\ ret' = code /\ len' = 0 /\ size' = 0

-----------------------------------------------------------------------------
(* socket() and close()                                                    *)

\* Mutant: what remains of a datagram is carried over to the next use of the socket.
ClearFlagsKeepsRemained ==
  /\ packFirst' = FALSE /\ packRemained' = FALSE /\ UNCHANGED remained
  /\ from' = -1

ClearFlags ==
  /\ remained' = 0 /\ packFirst' = FALSE /\ packRemained' = FALSE
  /\ from' = -1

Socket ==
  /\ pc = "idle"
  /\ \E m \in Mode, nonblock \in BOOLEAN :
       mode' = m /\ io_mode' = nonblock
  /\ ClearFlags
  /\ open' = TRUE /\ ir' = {} /\ flight' = FALSE
  /\ stream' = [p \in {} |-> [first |-> 0, len |-> 0]] /\ rxWr' = 0 /\ rxRd' = 0
  /\ Return("sn")

\* The work of close(), on its own or from within recvfrom().
DoClose(code) ==
  /\ ClearFlags
  /\ io_mode' = FALSE /\ open' = FALSE /\ ir' = {} /\ flight' = FALSE
  /\ Return(code)

Close ==
  /\ pc = "idle"
  /\ DoClose("SOCK_OK")
  /\ UNCHANGED <<mode, rx>>

-----------------------------------------------------------------------------
(* sendto(); which addresses and ports are refused is left open.  The      *)
(* length, which is clipped to the size of the TX buffer, is left out, and *)
(* the wait for free space ends at once, because every sendto() before has *)
(* waited for its datagram to leave (SendtoOutcomeIsOwn).                  *)

SendtoCall ==
  /\ pc = "idle"
  /\ \/ mode \notin Mode /\ Return("SOCKERR_SOCKMODE") /\ UNCHANGED flight
     \/ mode \in Mode /\ ~open /\ Return("SOCKERR_SOCKSTATUS") /\ UNCHANGED flight
     \/ /\ mode \in Mode
        /\ \/ Return("SOCKERR_DATALEN")
           \/ mode # "MACRAW" /\ \E e \in {"SOCKERR_IPINVALID", "SOCKERR_PORTZERO"} : Return(e)
        /\ UNCHANGED flight
     \/ mode \in Mode /\ open /\ flight' = TRUE /\ Goto("sendto_ir")
  /\ UNCHANGED <<drv, mode, open, ir, rx>>

\* Mutant: the interrupt that ends the wait is left set in Sn_IR.
SendtoEndKeepsIR ==
  /\ pc = "sendto_ir"
  /\ \/ "SENDOK" \in ir /\ Return("len")
     \/ "SENDOK" \notin ir /\ "TIMEOUT" \in ir /\ Return("SOCKERR_TIMEOUT")
  /\ UNCHANGED <<drv, mode, open, ir, flight, rx>>

\* Mutant: only SENDOK ends the loop over Sn_IR.
SendtoEndIgnoresTimeout ==
  /\ pc = "sendto_ir"
  /\ "SENDOK" \in ir /\ ir' = ir \ {"SENDOK"} /\ Return("len")
  /\ UNCHANGED <<drv, mode, open, flight, rx>>

\* The loop over Sn_IR: it leaves with the interrupt it found, cleared.
SendtoEnd ==
  /\ pc = "sendto_ir"
  /\ \/ "SENDOK" \in ir /\ ir' = ir \ {"SENDOK"} /\ Return("len")
     \/ /\ "SENDOK" \notin ir /\ "TIMEOUT" \in ir
        /\ ir' = ir \ {"TIMEOUT"} /\ Return("SOCKERR_TIMEOUT")
  /\ UNCHANGED <<drv, mode, open, flight, rx>>

-----------------------------------------------------------------------------
(* recvfrom()                                                              *)

RecvfromCall ==
  /\ pc = "idle"
  /\ \/ mode \notin Mode /\ Return("SOCKERR_SOCKMODE")
     \/ mode \in Mode /\ 0 \in Lens /\ Return("SOCKERR_DATALEN")
     \/ /\ mode \in Mode
        /\ \E l \in Lens \ {0} : len' = l
        /\ pc' = (IF remained = 0 THEN "recvfrom_rsr" ELSE "recvfrom_data")
        /\ ret' = "none" /\ UNCHANGED size
  /\ UNCHANGED <<io_mode, remained, packFirst, packRemained, from, mode, open, ir, flight, rx>>

RecvfromReadRSR ==
  /\ pc = "recvfrom_rsr"
  /\ size' = rxWr - rxRd
  /\ pc' = "recvfrom_sr" /\ UNCHANGED <<ret, len>>
  /\ UNCHANGED <<drv, mode, open, ir, flight, rx>>

\* Sn_SR is read after Sn_RX_RSR; the caller's mode decides whether to wait.
RecvfromCheck ==
  /\ pc = "recvfrom_sr"
  /\ \/ ~open /\ Return("SOCKERR_SOCKCLOSED")
     \/ open /\ io_mode /\ size = 0 /\ Return("SOCK_BUSY")
     \/ open /\ ~io_mode /\ size = 0 /\ Goto("recvfrom_rsr")
     \/ open /\ size # 0 /\ Goto("recvfrom_head")
  /\ UNCHANGED <<drv, mode, open, ir, flight, rx>>

\* The lengths that the header bytes at the read pointer may spell.
Decoded ==
  IF rxRd < rxWr /\ stream[rxRd].first = rxRd THEN {stream[rxRd].len} ELSE Garbage

\* Mutant: only the first six bytes of a header are skipped, whatever the mode.
RecvfromHeadShort ==
  /\ pc = "recvfrom_head"
  /\ rxRd' = rxRd + 6
  /\ \E n \in Decoded :
       \/ mode = "MACRAW" /\ n > MaxFrame /\ DoClose("SOCKFATAL_PACKLEN")
       \/ /\ ~(mode = "MACRAW" /\ n > MaxFrame)
          /\ remained' = n /\ packFirst' = TRUE /\ from' = rxRd
          /\ Goto("recvfrom_data") /\ UNCHANGED <<io_mode, packRemained, open, ir, flight>>
  /\ UNCHANGED <<mode, stream, rxWr>>

\* The header: address, port, and the length of the data that follows.
RecvfromHead ==
  /\ pc = "recvfrom_head"
  /\ rxRd' = rxRd + HeaderLen(mode)
  /\ \E n \in Decoded :
       \/ mode = "MACRAW" /\ n > MaxFrame /\ DoClose("SOCKFATAL_PACKLEN")
       \/ /\ ~(mode = "MACRAW" /\ n > MaxFrame)
          /\ remained' = n /\ packFirst' = TRUE /\ from' = rxRd
          /\ Goto("recvfrom_data") /\ UNCHANGED <<io_mode, packRemained, open, ir, flight>>
  /\ UNCHANGED <<mode, stream, rxWr>>

\* Mutant: PACK_REMAINED is not taken back when the datagram is complete.
RecvfromDataNeverCompleted ==
  /\ pc = "recvfrom_data"
  /\ rxRd' = rxRd + Min2(len, remained)
  /\ remained' = remained - Min2(len, remained)
  /\ UNCHANGED packFirst /\ packRemained' = (packRemained \/ remained' # 0)
  /\ Return("len")
  /\ UNCHANGED <<io_mode, from, mode, open, ir, flight, stream, rxWr>>

\* The data: at most len bytes of it; PACK_COMPLETED (no bit set) when nothing remains.
RecvfromData ==
  /\ pc = "recvfrom_data"
  /\ rxRd' = rxRd + Min2(len, remained)
  /\ remained' = remained - Min2(len, remained)
  /\ packFirst' = (packFirst /\ remained' # 0) /\ packRemained' = (remained' # 0)
  /\ Return("len")
  /\ UNCHANGED <<io_mode, from, mode, open, ir, flight, stream, rxWr>>

-----------------------------------------------------------------------------
(* getsockopt(SO_REMAINSIZE): the test "Sn_MR & Sn_MR_TCP" looks at bit 0  *)
(* of the protocol, which is set in IPRAW (3) as well as in TCP (1).       *)

Bit0OfMode(m) == m = "IPRAW"

GetRemainSize ==
  /\ pc = "idle"
  /\ size' = (IF Bit0OfMode(mode) THEN rxWr - rxRd ELSE remained)
  /\ pc' = "idle" /\ ret' = "SO_REMAINSIZE" /\ len' = 0
  /\ UNCHANGED <<drv, mode, open, ir, flight, rx>>

-----------------------------------------------------------------------------
(* The chip.                                                               *)

Datagrams == {p \in 0 .. rxWr - 1 : stream[p].first = p}

\* A datagram arrives and fits; one that does not fit is dropped.
Arrive ==
  /\ open
  /\ Cardinality(Datagrams) < MaxDatagrams
  /\ \E n \in Sizes :
       LET end == rxWr + HeaderLen(mode) + n IN
       /\ end - rxRd <= RxMAX
       /\ stream' = [p \in 0 .. end - 1 |->
                       IF p < rxWr THEN stream[p] ELSE [first |-> rxWr, len |-> n]]
       /\ rxWr' = end
  /\ UNCHANGED <<call, drv, mode, open, ir, flight, rxRd>>

\* The datagram is sent, or the destination does not answer the ARP request.
ChipSent ==
  /\ flight /\ flight' = FALSE
  /\ \E i \in {"SENDOK", "TIMEOUT"} : ir' = ir \union {i}
  /\ UNCHANGED <<call, drv, mode, open, rx>>

-----------------------------------------------------------------------------
DriverStep ==
  SendtoEnd \/ RecvfromReadRSR \/ RecvfromCheck \/ RecvfromHead \/ RecvfromData

Next ==
  \/ Socket \/ Close \/ SendtoCall \/ RecvfromCall \/ GetRemainSize
  \/ DriverStep \/ Arrive \/ ChipSent

\* The CPU runs the call; the chip ends every SEND with one of its interrupts.
Spec == Init /\ [][Next]_vars /\ WF_vars(DriverStep) /\ WF_vars(ChipSent)

-----------------------------------------------------------------------------
ReturnCode ==
  {"none", "sn", "len", "SOCK_OK", "SOCK_BUSY", "SO_REMAINSIZE", "SOCKERR_SOCKMODE",
   "SOCKERR_SOCKSTATUS", "SOCKERR_DATALEN", "SOCKERR_IPINVALID", "SOCKERR_PORTZERO",
   "SOCKERR_TIMEOUT", "SOCKERR_SOCKCLOSED", "SOCKFATAL_PACKLEN"}

TypeOK ==
  /\ pc \in {"idle", "sendto_ir", "recvfrom_rsr", "recvfrom_sr", "recvfrom_head", "recvfrom_data"}
  /\ ret \in ReturnCode /\ len \in Nat /\ size \in Nat
  /\ io_mode \in BOOLEAN /\ remained \in Nat /\ packFirst \in BOOLEAN /\ packRemained \in BOOLEAN
  /\ from \in Nat \union {-1}
  /\ mode \in Mode \union {"none"} /\ open \in BOOLEAN
  /\ ir \subseteq {"SENDOK", "TIMEOUT"} /\ flight \in BOOLEAN
  /\ rxWr \in Nat /\ rxRd \in Nat
  /\ stream \in [0 .. rxWr - 1 -> [first : Nat, len : Nat]]

\* Position p is the end of the buffer or the first byte of a header.
Boundary(p) == p = rxWr \/ (p \in 0 .. rxWr - 1 /\ stream[p].first = p)

(* recvfrom() stays in step with the headers: between calls what remains   *)
(* of the current datagram ends where the next header begins, or the       *)
(* buffer.  A caller may take a datagram in any number of pieces, new ones *)
(* may arrive at any moment, and the next one is still decoded correctly.  *)
InStepWithHeaders ==
  /\ pc = "recvfrom_head" => Boundary(rxRd) /\ rxRd < rxWr
  /\ open /\ pc # "recvfrom_head" => Boundary(rxRd + remained)

(* All data that recvfrom() will still return for this datagram belongs to *)
(* the datagram whose header it decoded last, and has arrived.             *)
RemainderOfReported ==
  open /\ remained # 0 =>
    /\ rxRd + remained <= rxWr
    /\ \A p \in rxRd .. rxRd + remained - 1 : stream[p].first = from

(* The result of sendto() is that of its own datagram: no interrupt and no *)
(* datagram of an earlier call is pending when a call begins.              *)
SendtoOutcomeIsOwn == pc # "sendto_ir" => ir = {} /\ ~flight

\* The header of a datagram was read by the call under way, and no data yet.
Unbegun == pc = "recvfrom_data" /\ rxRd = from + HeaderLen(mode)

\* Where the next datagram begins that no call has returned data of.
NextAt == IF Unbegun THEN from ELSE rxRd + remained

Waiting == IF open THEN {stream[p] : p \in {q \in Datagrams : NextAt <= q}} ELSE {}
Rest == IF Unbegun THEN 0 ELSE remained

Out ==
  IF flight THEN "under way"
  ELSE IF "SENDOK" \in ir THEN "SENDOK" ELSE IF "TIMEOUT" \in ir THEN "TIMEOUT" ELSE "none"

Abstract == INSTANCE DatagramSocket WITH waiting <- Waiting, rest <- Rest, more <- packRemained, out <- Out

(* Seen by its caller the socket is a DatagramSocket: the loops of         *)
(* recvfrom() and sendto() over headers, sizes and interrupts deliver      *)
(* every datagram that arrived once, whole and in order, recvfrom() as one *)
(* step, SO_PACKINFO says whether more of it is left, and a length or a    *)
(* timeout is returned only by a call that transferred its own datagram.   *)
ImplementsDatagramSocket == Abstract!Spec

(* sendto() returns, as the chip reports success or an ARP timeout, and    *)
(* recvfrom() returns in non-blocking mode or with data waiting.           *)
DatagramCallsReturn ==
  (pc # "idle" /\ (pc = "sendto_ir" \/ io_mode \/ rxRd < rxWr)) ~> (pc = "idle")
=============================================================================
