-------------------------- MODULE UdpSocket_proofs --------------------------
(***************************************************************************)
(* recvfrom() keeps the boundaries of datagrams, and sendto() reports its  *)
(* own outcome, for buffers, datagrams and reads of any size: the socket   *)
(* implements DatagramSocket.  The last section is about the reading of    *)
(* the sizes that both begin with.                                         *)
(***************************************************************************)
EXTENDS UdpSocket, SizeRegister, TLAPS

End(d) == d.first + HeaderLen(mode) + d.len

\* The chip stores whole datagrams one after the other.
StreamOK ==
  \A p \in 0 .. rxWr - 1 :
    /\ stream[p].first <= p /\ p < End(stream[p]) /\ End(stream[p]) <= rxWr
    /\ \A q \in stream[p].first .. End(stream[p]) - 1 : stream[q] = stream[p]
    /\ Boundary(End(stream[p]))

\* Where the read pointer may be.
PointerOK ==
  /\ rxRd + remained <= rxWr
  /\ ~open => remained = 0
  /\ pc \in {"recvfrom_rsr", "recvfrom_sr", "recvfrom_head"} => remained = 0
  /\ pc \in {"recvfrom_sr", "recvfrom_head"} => size <= rxWr - rxRd
  /\ pc = "recvfrom_head" => open /\ size # 0
  /\ pc # "idle" => mode \in Mode
  /\ open => mode \in Mode

IInv == TypeOK /\ StreamOK /\ PointerOK /\ InStepWithHeaders /\ RemainderOfReported

\* A header is never empty.
LEMMA HeaderLenType == \A m : HeaderLen(m) \in Nat /\ HeaderLen(m) > 0
BY DEF HeaderLen

\* The socket is closed and the RX buffer empty at the start.
LEMMA InitHolds == Init => IInv
<1> SUFFICES ASSUME Init PROVE IInv
  OBVIOUS
<1> USE DEF Init
<1>1. stream \in [0 .. rxWr - 1 -> [first : Nat, len : Nat]]
  <2>1. 0 .. rxWr - 1 = {}
    OBVIOUS
  <2> QED BY <2>1
<1>2. TypeOK
  BY <1>1 DEF TypeOK, ReturnCode, Mode
<1> QED BY <1>2 DEF IInv, StreamOK, PointerOK, InStepWithHeaders, RemainderOfReported, Mode

\* A step that leaves the buffer, the mode and the current datagram alone.
LEMMA BufferUnchanged ==
  ASSUME StreamOK, UNCHANGED <<stream, rxWr, mode>>
  PROVE  StreamOK' /\ \A p : Boundary(p)' <=> Boundary(p)
BY DEF StreamOK, Boundary, End

\* A new datagram is appended behind the others and moves no boundary.
LEMMA ArriveStep == IInv /\ Arrive => IInv'
<1> SUFFICES ASSUME IInv, Arrive PROVE IInv'
  OBVIOUS
<1> DEFINE h == HeaderLen(mode)
<1>1. h \in Nat /\ h > 0
  BY HeaderLenType
<1> PICK n \in Sizes :
       LET end == rxWr + HeaderLen(mode) + n IN
       /\ end - rxRd <= RxMAX
       /\ stream' = [p \in 0 .. end - 1 |->
                       IF p < rxWr THEN stream[p] ELSE [first |-> rxWr, len |-> n]]
       /\ rxWr' = end
  BY DEF Arrive
<1>2. n \in Nat /\ rxWr \in Nat /\ rxRd \in Nat /\ remained \in Nat
      /\ stream \in [0 .. rxWr - 1 -> [first : Nat, len : Nat]]
  BY ConstantsAssumption DEF IInv, TypeOK
<1>3. UNCHANGED <<pc, ret, len, size, io_mode, remained, packFirst, packRemained, from,
                  mode, open, ir, flight, rxRd>>
  BY DEF Arrive, call, drv
<1> HIDE DEF h
<1>4. rxWr' \in Nat /\ rxWr < rxWr'
  BY <1>1, <1>2 DEF h
<1>5. \A p \in 0 .. rxWr - 1 : p \in 0 .. rxWr' - 1 /\ stream'[p] = stream[p]
  BY <1>1, <1>2 DEF h
<1>6. \A p \in rxWr .. rxWr' - 1 : p \in 0 .. rxWr' - 1 /\ stream'[p] = [first |-> rxWr, len |-> n]
  BY <1>1, <1>2 DEF h
<1>7. stream' \in [0 .. rxWr' - 1 -> [first : Nat, len : Nat]]
  BY <1>1, <1>2 DEF h
<1>8. TypeOK'
  BY <1>3, <1>4, <1>7 DEF IInv, TypeOK
<1>9. rxWr' = rxWr + h + n
  BY DEF h
<1>10. \A d : End(d)' = d.first + h + d.len /\ End(d) = d.first + h + d.len
  BY <1>3 DEF End, h
<1>11. StreamOK'
  <2> SUFFICES ASSUME NEW p \in 0 .. rxWr' - 1
               PROVE  /\ stream'[p].first <= p /\ p < End(stream[p])' /\ End(stream[p])' <= rxWr'
                      /\ \A q \in stream'[p].first .. End(stream[p])' - 1 : stream'[q] = stream'[p]
                      /\ Boundary(End(stream[p]))'
    BY DEF StreamOK
  <2>1. CASE p < rxWr
    <3>1. p \in 0 .. rxWr - 1 /\ stream'[p] = stream[p]
      BY <2>1, <1>2, <1>4, <1>5
    <3>2. stream[p].first \in Nat /\ stream[p].len \in Nat /\ End(stream[p]) \in Nat
      BY <3>1, <1>1, <1>2, <1>10
    <3>3. End(stream[p])' = End(stream[p])
      BY <3>1, <1>10
    <3>4. /\ stream[p].first <= p /\ p < End(stream[p]) /\ End(stream[p]) <= rxWr
          /\ \A q \in stream[p].first .. End(stream[p]) - 1 : stream[q] = stream[p]
          /\ Boundary(End(stream[p]))
      BY <3>1 DEF IInv, StreamOK
    <3>5. \A q \in stream[p].first .. End(stream[p]) - 1 : stream'[q] = stream[p]
      <4>1. \A q \in stream[p].first .. End(stream[p]) - 1 : q \in 0 .. rxWr - 1
        <5>1. stream[p].first \in Nat /\ End(stream[p]) \in Nat /\ End(stream[p]) <= rxWr
          BY <3>2, <3>4
        <5> DEFINE a == stream[p].first
                   e == End(stream[p])
        <5>2. a \in Nat /\ e \in Nat /\ e <= rxWr
          BY <5>1
        <5> HIDE DEF a, e
        <5>3. \A q \in a .. e - 1 : q \in 0 .. rxWr - 1
          BY <5>2, <1>2
        <5> QED BY <5>3 DEF a, e
      <4>2. \A q \in 0 .. rxWr - 1 : stream'[q] = stream[q]
        BY <1>5
      <4> QED BY <4>1, <4>2, <3>4
    <3>6. Boundary(End(stream[p]))'
      <4> DEFINE e == End(stream[p])
      <4>1. e = rxWr \/ (e \in 0 .. rxWr - 1 /\ stream[e].first = e)
        BY <3>4 DEF Boundary
      <4> HIDE DEF e
      <4>2. e \in 0 .. rxWr' - 1
        BY <4>1, <1>2, <1>4
      <4>3. stream'[e].first = e
        <5>1. CASE e = rxWr
          <6>1. e \in rxWr .. rxWr' - 1
            BY <5>1, <1>2, <1>4
          <6>2. stream'[e] = [first |-> rxWr, len |-> n]
            BY <6>1, <1>6
          <6> QED BY <5>1, <6>2
        <5>2. CASE e \in 0 .. rxWr - 1 /\ stream[e].first = e
          BY <5>2, <1>5
        <5> QED BY <4>1, <5>1, <5>2
      <4>4. Boundary(e)'
        <5> DEFINE f == e'
        <5>1. f = e
          BY <3>3 DEF e
        <5> HIDE DEF f
        <5>2. f \in 0 .. rxWr' - 1 /\ stream'[f].first = f
          BY <4>2, <4>3, <5>1
        <5> QED BY <5>2 DEF Boundary, f
      <4> QED BY <4>4 DEF e
    <3>7. stream'[p].first <= p /\ p < End(stream[p])'
      BY <3>1, <3>3, <3>4
    <3>8. End(stream[p])' <= rxWr'
      BY <3>2, <3>3, <3>4, <1>2, <1>4
    <3>9. \A q \in stream'[p].first .. End(stream[p])' - 1 : stream'[q] = stream'[p]
      BY <3>1, <3>3, <3>5
    <3> QED BY <3>6, <3>7, <3>8, <3>9
  <2>2. CASE p >= rxWr
    <3>1. stream'[p] = [first |-> rxWr, len |-> n]
      BY <2>2, <1>2, <1>4, <1>6
    <3>2. End(stream[p])' = rxWr'
      <4>1. End(stream[p])' = stream'[p].first + h + stream'[p].len
        BY <1>3 DEF End, h
      <4>2. stream'[p].first = rxWr /\ stream'[p].len = n
        BY <3>1
      <4> QED BY <4>1, <4>2, <1>9
    <3> QED BY <3>1, <3>2, <2>2, <1>2, <1>4, <1>6 DEF Boundary
  <2>3. p < rxWr \/ p >= rxWr
    BY <1>2, <1>4
  <2> QED BY <2>1, <2>2, <2>3
<1>12. PointerOK'
  BY <1>2, <1>3, <1>4 DEF IInv, TypeOK, PointerOK
<1>13. InStepWithHeaders'
  <2>1. pc' = "recvfrom_head" => Boundary(rxRd)' /\ rxRd < rxWr'
    BY <1>2, <1>3, <1>4, <1>5, <1>6 DEF IInv, InStepWithHeaders, Boundary
  <2>2. ASSUME open, pc # "recvfrom_head" PROVE Boundary(rxRd + remained)'
    <3>1. Boundary(rxRd + remained)
      BY <2>2 DEF IInv, InStepWithHeaders
    <3> QED BY <3>1, <1>2, <1>3, <1>4, <1>5, <1>6 DEF Boundary
  <2> QED BY <2>1, <2>2, <1>3 DEF InStepWithHeaders, Boundary
<1>14. RemainderOfReported'
  <2> SUFFICES ASSUME open, remained # 0
               PROVE  /\ rxRd + remained <= rxWr'
                      /\ \A p \in rxRd .. rxRd + remained - 1 : stream'[p].first = from
    BY <1>3 DEF RemainderOfReported
  <2>1. /\ rxRd + remained <= rxWr
        /\ \A p \in rxRd .. rxRd + remained - 1 : stream[p].first = from
    BY DEF IInv, RemainderOfReported
  <2>2. \A p \in rxRd .. rxRd + remained - 1 : p \in 0 .. rxWr - 1
    BY <2>1, <1>2
  <2>3. rxRd + remained <= rxWr'
    BY <2>1, <1>2, <1>4
  <2>4. \A p \in rxRd .. rxRd + remained - 1 : stream'[p].first = from
    <3> TAKE p \in rxRd .. rxRd + remained - 1
    <3>1. stream[p].first = from
      BY <2>1
    <3>2. stream'[p] = stream[p]
      BY <2>2, <1>5
    <3> QED BY <3>1, <3>2
  <2> QED BY <2>3, <2>4
<1> QED BY <1>8, <1>11, <1>12, <1>13, <1>14 DEF IInv

\* Decoding a header: the datagram it begins lies in the buffer as a whole.
LEMMA HeadStep == IInv /\ RecvfromHead => IInv'
<1> SUFFICES ASSUME IInv, RecvfromHead PROVE IInv'
  OBVIOUS
<1> DEFINE d == stream[rxRd]
<1>1. /\ rxWr \in Nat /\ rxRd \in Nat /\ stream \in [0 .. rxWr - 1 -> [first : Nat, len : Nat]]
      /\ pc = "recvfrom_head" /\ open /\ mode \in Mode
  BY DEF RecvfromHead, IInv, TypeOK, PointerOK
<1>2. rxRd \in 0 .. rxWr - 1 /\ d.first = rxRd /\ d.len \in Nat
  BY <1>1 DEF IInv, InStepWithHeaders, Boundary
<1>3. UNCHANGED <<stream, rxWr, mode>> /\ rxRd' = rxRd + HeaderLen(mode)
  BY DEF RecvfromHead
<1>4. /\ End(d) = rxRd + HeaderLen(mode) + d.len /\ End(d) <= rxWr /\ Boundary(End(d))
      /\ \A q \in rxRd .. End(d) - 1 : stream[q] = d
  BY <1>2 DEF IInv, StreamOK, End
<1>5. HeaderLen(mode) \in Nat /\ HeaderLen(mode) > 0
  BY HeaderLenType
<1>6. StreamOK' /\ \A p : Boundary(p)' <=> Boundary(p)
  BY <1>3, BufferUnchanged DEF IInv
<1>7. Decoded = {d.len}
  BY <1>1, <1>2 DEF Decoded
<1>8. rxRd' \in Nat /\ rxRd' <= rxWr /\ rxRd' + d.len = End(d)
  BY <1>1, <1>2, <1>3, <1>4, <1>5
<1> HIDE DEF d
<1>9. CASE DoClose("SOCKFATAL_PACKLEN")
  <2>1. TypeOK'
    BY <1>3, <1>8, <1>9 DEF IInv, TypeOK, DoClose, ClearFlags, Return, ReturnCode
  <2> QED BY <2>1, <1>1, <1>3, <1>6, <1>8, <1>9
          DEF IInv, DoClose, ClearFlags, Return, PointerOK, InStepWithHeaders, RemainderOfReported
<1>10. CASE /\ remained' = d.len /\ packFirst' = TRUE /\ from' = rxRd
            /\ Goto("recvfrom_data") /\ UNCHANGED <<io_mode, packRemained, open, ir, flight>>
  <2>1. TypeOK'
    BY <1>1, <1>2, <1>3, <1>8, <1>10 DEF IInv, TypeOK, Goto
  <2>2. PointerOK'
    BY <1>1, <1>3, <1>4, <1>8, <1>10 DEF PointerOK, Goto
  <2>3. InStepWithHeaders'
    BY <1>3, <1>4, <1>8, <1>10 DEF InStepWithHeaders, Boundary, Goto
  <2>4. RemainderOfReported'
    <3>1. \A p \in rxRd' .. rxRd' + remained' - 1 : p \in rxRd .. End(d) - 1
      BY <1>1, <1>2, <1>3, <1>4, <1>5, <1>8, <1>10
    <3>2. \A p \in rxRd' .. rxRd' + remained' - 1 : stream'[p].first = from'
      BY <3>1, <1>2, <1>3, <1>4, <1>10
    <3> QED BY <3>2, <1>3, <1>4, <1>8, <1>10 DEF RemainderOfReported
  <2> QED BY <2>1, <2>2, <2>3, <2>4, <1>6 DEF IInv
<1> QED BY <1>7, <1>9, <1>10 DEF RecvfromHead

\* Taking data: the read pointer and what remains move by the same amount.
LEMMA DataStep == IInv /\ RecvfromData => IInv'
<1> SUFFICES ASSUME IInv, RecvfromData PROVE IInv'
  OBVIOUS
<1> DEFINE k == Min2(len, remained)
<1>1. k \in Nat /\ k <= remained /\ rxRd \in Nat /\ remained \in Nat /\ rxWr \in Nat
  BY DEF IInv, TypeOK, Min2
<1>2. rxRd' = rxRd + k /\ remained' = remained - k
  BY DEF RecvfromData
<1>3. /\ pc' = "idle" /\ ret' = "len" /\ len' = 0 /\ size' = 0
      /\ packFirst' \in BOOLEAN /\ packRemained' \in BOOLEAN
      /\ UNCHANGED <<io_mode, from, mode, open, ir, flight, stream, rxWr>>
  BY DEF RecvfromData, Return
<1>4. pc = "recvfrom_data"
  BY DEF RecvfromData
<1> HIDE DEF k
<1>5. rxRd' \in Nat /\ remained' \in Nat /\ rxRd' + remained' = rxRd + remained
  BY <1>1, <1>2
<1>6. TypeOK'
  BY <1>3, <1>5 DEF IInv, TypeOK, ReturnCode
<1>7. StreamOK' /\ \A p : Boundary(p)' <=> Boundary(p)
  BY <1>3, BufferUnchanged DEF IInv
<1>8. PointerOK'
  BY <1>1, <1>2, <1>3, <1>5 DEF IInv, PointerOK
<1>9. InStepWithHeaders'
  BY <1>3, <1>4, <1>5 DEF IInv, InStepWithHeaders, Boundary
<1>10. RemainderOfReported'
  <2> SUFFICES ASSUME open, remained' # 0
               PROVE  /\ rxRd' + remained' <= rxWr
                      /\ \A p \in rxRd' .. rxRd' + remained' - 1 : stream[p].first = from
    BY <1>3 DEF RemainderOfReported
  <2>1. remained # 0
    BY <1>1, <1>2
  <2>2. \A p \in rxRd' .. rxRd' + remained' - 1 : p \in rxRd .. rxRd + remained - 1
    BY <1>1, <1>2, <1>5
  <2> QED BY <2>1, <2>2, <1>5 DEF IInv, RemainderOfReported
<1> QED BY <1>6, <1>7, <1>8, <1>9, <1>10 DEF IInv

\* The steps that touch neither the buffer nor the datagram being read.
LEMMA QuietStep ==
  ASSUME IInv, TypeOK', PointerOK',
         UNCHANGED <<mode, open, remained, from, rx>>,
         pc' = "recvfrom_head" => rxRd < rxWr /\ remained = 0 /\ open,
         pc # "recvfrom_head"
  PROVE  IInv'
<1>1. UNCHANGED <<stream, rxWr, rxRd, mode, open, remained, from>>
  BY DEF rx
<1>2. StreamOK'
  BY <1>1, BufferUnchanged DEF IInv
<1>3. RemainderOfReported'
  BY <1>1 DEF IInv, RemainderOfReported
<1>4. InStepWithHeaders'
  BY <1>1 DEF IInv, TypeOK, InStepWithHeaders, Boundary
<1> QED BY <1>2, <1>3, <1>4 DEF IInv

\* The steps that leave the call in progress where it is as well.
LEMMA StutterStep ==
  ASSUME IInv, TypeOK', PointerOK', UNCHANGED <<pc, mode, open, remained, from, rx>>
  PROVE  IInv'
<1>1. UNCHANGED <<stream, rxWr, rxRd, mode, open, remained, from, pc>>
  BY DEF rx
<1>2. StreamOK'
  BY <1>1, BufferUnchanged DEF IInv
<1>3. RemainderOfReported'
  BY <1>1 DEF IInv, RemainderOfReported
<1>4. InStepWithHeaders'
  BY <1>1 DEF IInv, TypeOK, InStepWithHeaders, Boundary
<1> QED BY <1>2, <1>3, <1>4 DEF IInv

\* Every step preserves the inductive invariant.
LEMMA Inductive == IInv /\ [Next]_vars => IInv'
<1> SUFFICES ASSUME IInv, [Next]_vars PROVE IInv'
  OBVIOUS
<1>1. CASE Socket
  <2>1. /\ mode' \in Mode /\ io_mode' \in BOOLEAN
        /\ remained' = 0 /\ packFirst' = FALSE /\ packRemained' = FALSE
        /\ from' = -1
        /\ open' = TRUE /\ ir' = {} /\ flight' = FALSE /\ rxWr' = 0 /\ rxRd' = 0
        /\ pc' = "idle" /\ ret' = "sn" /\ len' = 0 /\ size' = 0
    BY <1>1 DEF Socket, ClearFlags, Return
  <2>2. stream' \in [0 .. rxWr' - 1 -> [first : Nat, len : Nat]]
    <3>1. 0 .. rxWr' - 1 = {}
      BY <2>1
    <3> QED BY <3>1, <1>1 DEF Socket
  <2>3. TypeOK'
    BY <2>1, <2>2 DEF TypeOK, ReturnCode
  <2> QED BY <2>1, <2>3 DEF IInv, StreamOK, PointerOK, InStepWithHeaders, RemainderOfReported, Boundary
<1>2. CASE Close
  <2>1. TypeOK'
    BY <1>2 DEF IInv, TypeOK, Close, DoClose, ClearFlags, Return, ReturnCode, rx
  <2>2. StreamOK'
    BY <1>2, BufferUnchanged DEF IInv, Close, rx
  <2> QED BY <1>2, <2>1, <2>2
          DEF IInv, TypeOK, Close, DoClose, ClearFlags, Return, rx,
              PointerOK, InStepWithHeaders, RemainderOfReported
<1>3. CASE SendtoCall
  <2>1. UNCHANGED <<io_mode, remained, packFirst, packRemained, from,
                    mode, open, ir, stream, rxWr, rxRd>>
    BY <1>3 DEF SendtoCall, drv, rx
  <2>2. /\ pc' \in {"idle", "sendto_ir"} /\ (pc' # "idle" => mode \in Mode)
        /\ len' \in Nat /\ size' \in Nat
    BY <1>3 DEF IInv, TypeOK, SendtoCall, Return, Goto
  <2>3. ret' \in ReturnCode /\ flight' \in BOOLEAN
    BY <1>3 DEF IInv, TypeOK, SendtoCall, Return, Goto, ReturnCode
  <2>4. TypeOK'
    BY <2>1, <2>2, <2>3 DEF IInv, TypeOK
  <2>5. PointerOK'
    BY <2>1, <2>2 DEF IInv, PointerOK
  <2>6. pc # "recvfrom_head"
    BY <1>3 DEF SendtoCall
  <2> QED BY <2>1, <2>2, <2>4, <2>5, <2>6, QuietStep DEF rx
<1>4. CASE SendtoEnd
  <2>1. UNCHANGED <<io_mode, remained, packFirst, packRemained, from,
                    mode, open, flight, stream, rxWr, rxRd>>
    BY <1>4 DEF SendtoEnd, drv, rx
  <2>2. pc = "sendto_ir" /\ pc' = "idle" /\ len' = 0 /\ size' = 0
    BY <1>4 DEF SendtoEnd, Return
  <2>3. ret' \in ReturnCode
    BY <1>4 DEF SendtoEnd, Return, ReturnCode
  <2>4. ir' \subseteq {"SENDOK", "TIMEOUT"}
    BY <1>4 DEF IInv, TypeOK, SendtoEnd
  <2>5. TypeOK'
    BY <2>1, <2>2, <2>3, <2>4 DEF IInv, TypeOK
  <2>6. PointerOK'
    BY <2>1, <2>2 DEF IInv, PointerOK
  <2> QED BY <2>1, <2>2, <2>5, <2>6, QuietStep DEF rx
<1>5. CASE RecvfromCall
  <2>1. TypeOK' /\ PointerOK'
    BY <1>5, ConstantsAssumption DEF IInv, TypeOK, PointerOK, RecvfromCall, Return, ReturnCode, rx
  <2> QED BY <1>5, <2>1, QuietStep DEF RecvfromCall, Return, rx
<1>6. CASE RecvfromReadRSR
  <2>1. TypeOK' /\ PointerOK'
    BY <1>6 DEF IInv, TypeOK, PointerOK, RecvfromReadRSR, drv, rx
  <2> QED BY <1>6, <2>1, QuietStep DEF RecvfromReadRSR, drv, rx
<1>7. CASE RecvfromCheck
  <2>1. TypeOK' /\ PointerOK'
    BY <1>7 DEF IInv, TypeOK, PointerOK, RecvfromCheck, Return, Goto, ReturnCode, drv, rx
  <2>2. pc' = "recvfrom_head" => rxRd < rxWr /\ remained = 0 /\ open
    BY <1>7 DEF IInv, TypeOK, PointerOK, RecvfromCheck, Return, Goto
  <2> QED BY <1>7, <2>1, <2>2, QuietStep DEF RecvfromCheck, drv, rx
<1>8. CASE GetRemainSize
  <2>1. TypeOK' /\ PointerOK'
    BY <1>8 DEF IInv, TypeOK, PointerOK, GetRemainSize, ReturnCode, drv, rx
  <2> QED BY <1>8, <2>1, QuietStep DEF GetRemainSize, drv, rx
<1>9. CASE ChipSent
  <2>1. UNCHANGED <<pc, ret, len, size, io_mode, remained, packFirst, packRemained, from,
                    mode, open, stream, rxWr, rxRd>>
    BY <1>9 DEF ChipSent, call, drv, rx
  <2>2. ir' \subseteq {"SENDOK", "TIMEOUT"} /\ flight' \in BOOLEAN
    BY <1>9 DEF IInv, TypeOK, ChipSent
  <2>3. TypeOK'
    BY <2>1, <2>2 DEF IInv, TypeOK
  <2>4. PointerOK'
    BY <2>1 DEF IInv, PointerOK
  <2> QED BY <2>1, <2>3, <2>4, StutterStep DEF rx
<1>10. CASE UNCHANGED vars
  <2>1. UNCHANGED <<pc, ret, len, size, io_mode, remained, packFirst, packRemained, from,
                    mode, open, ir, flight, stream, rxWr, rxRd>>
    BY <1>10 DEF vars, call, drv, rx
  <2>2. TypeOK'
    BY <2>1 DEF IInv, TypeOK
  <2>3. PointerOK'
    BY <2>1 DEF IInv, PointerOK
  <2> QED BY <2>1, <2>2, <2>3, StutterStep DEF rx
<1> QED BY <1>1, <1>2, <1>3, <1>4, <1>5, <1>6, <1>7, <1>8, <1>9, <1>10,
           ArriveStep, HeadStep, DataStep DEF Next, DriverStep

(* The driver's and the chip's variables keep their types; in particular   *)
(* the subtractions on sizes never go below zero.                          *)
THEOREM TypeCorrect == Spec => []TypeOK
<1>1. IInv => TypeOK
  BY DEF IInv
<1> QED BY <1>1, InitHolds, Inductive, PTL DEF Spec

(* Whatever the sizes of buffers, datagrams and reads: recvfrom() decodes  *)
(* headers only where a header is.                                         *)
THEOREM HeadersInStep == Spec => []InStepWithHeaders
<1>1. IInv => InStepWithHeaders
  BY DEF IInv
<1> QED BY <1>1, InitHolds, Inductive, PTL DEF Spec

(* recvfrom() hands out for a datagram only bytes of the datagram whose    *)
(* sender it reported, all of which have arrived.                          *)
THEOREM DatagramsKept == Spec => []RemainderOfReported
<1>1. IInv => RemainderOfReported
  BY DEF IInv
<1> QED BY <1>1, InitHolds, Inductive, PTL DEF Spec

-----------------------------------------------------------------------------
(* sendto(): while it waits, the chip owes it one interrupt or has set it; *)
(* at any other time nothing is owed and nothing is set.                   *)
OneOutcome ==
  /\ ir \in {{}, {"SENDOK"}, {"TIMEOUT"}}
  /\ flight => ir = {}

SendInv == OneOutcome /\ SendtoOutcomeIsOwn

\* Every step preserves it.
LEMMA SendInductive == SendInv /\ [Next]_vars => SendInv'
<1> SUFFICES ASSUME SendInv, [Next]_vars PROVE SendInv'
  OBVIOUS
<1> USE DEF SendInv, OneOutcome, SendtoOutcomeIsOwn
<1>1. CASE Socket
  BY <1>1 DEF Socket, Return
<1>2. CASE Close
  BY <1>2 DEF Close, DoClose, Return
<1>3. CASE SendtoCall
  BY <1>3 DEF SendtoCall, Return, Goto
<1>4. CASE SendtoEnd
  <2>1. ir # {} /\ ir' = {} /\ pc = "sendto_ir" /\ flight' = flight
    BY <1>4 DEF SendtoEnd
  <2> QED BY <2>1
<1>5. CASE RecvfromCall
  BY <1>5 DEF RecvfromCall, Return
<1>6. CASE RecvfromReadRSR
  BY <1>6 DEF RecvfromReadRSR
<1>7. CASE RecvfromCheck
  BY <1>7 DEF RecvfromCheck, Return, Goto
<1>8. CASE RecvfromHead
  <2>1. pc = "recvfrom_head" /\ ir' = {} /\ ~flight'
    BY <1>8 DEF RecvfromHead, DoClose
  <2> QED BY <2>1
<1>9. CASE RecvfromData
  BY <1>9 DEF RecvfromData, Return
<1>10. CASE GetRemainSize
  BY <1>10 DEF GetRemainSize
<1>11. CASE Arrive
  BY <1>11 DEF Arrive, call
<1>12. CASE ChipSent
  <2>1. pc = "sendto_ir" /\ ir = {} /\ pc' = pc /\ ~flight'
    BY <1>12 DEF ChipSent, call
  <2>2. ir' = {"SENDOK"} \/ ir' = {"TIMEOUT"}
    BY <2>1, <1>12 DEF ChipSent
  <2> QED BY <2>1, <2>2
<1>13. CASE UNCHANGED vars
  BY <1>13 DEF vars, call
<1> QED BY <1>1, <1>2, <1>3, <1>4, <1>5, <1>6, <1>7, <1>8, <1>9, <1>10, <1>11, <1>12, <1>13
        DEF Next, DriverStep

(* Over any sequence of calls, closes and reopenings: when sendto() begins *)
(* no interrupt and no datagram of an earlier call is pending, so the      *)
(* outcome it reports is that of its own datagram.                         *)
THEOREM OutcomeIsOwn == Spec => []SendtoOutcomeIsOwn
<1>1. Init => SendInv
  BY DEF Init, SendInv, OneOutcome, SendtoOutcomeIsOwn
<1>2. SendInv => SendtoOutcomeIsOwn
  BY DEF SendInv
<1> QED BY <1>1, <1>2, SendInductive, PTL DEF Spec

-----------------------------------------------------------------------------
(* The refinement: a call of recvfrom() shows in the step that returns     *)
(* data, so the header it reads before is not yet seen above.              *)

\* Which datagram is being read, and how far: data of it was returned by an earlier call,
\* or nothing of it has been taken but the header.
ReadInv ==
  /\ pc \in {"recvfrom_rsr", "recvfrom_sr", "recvfrom_head", "recvfrom_data"} => len # 0
  /\ remained # 0 \/ pc = "recvfrom_data" => from \in Datagrams
  /\ pc # "recvfrom_data" /\ remained # 0 => from + HeaderLen(mode) < rxRd
  /\ pc = "recvfrom_data" =>
       /\ open
       /\ \/ rxRd = from + HeaderLen(mode) /\ remained = stream[from].len
          \/ from + HeaderLen(mode) < rxRd /\ remained # 0

LEMMA ReadTypes ==
  ASSUME IInv
  PROVE  /\ rxWr \in Nat /\ rxRd \in Nat /\ remained \in Nat /\ len \in Nat /\ rxRd + remained <= rxWr
         /\ stream \in [0 .. rxWr - 1 -> [first : Nat, len : Nat]]
         /\ HeaderLen(mode) \in Nat /\ HeaderLen(mode) > 0
         /\ Datagrams \subseteq 0 .. rxWr - 1
         /\ \A p \in Datagrams : stream[p].first = p /\ stream[p].len \in Nat
<1>1. /\ rxWr \in Nat /\ rxRd \in Nat /\ remained \in Nat /\ len \in Nat /\ rxRd + remained <= rxWr
      /\ stream \in [0 .. rxWr - 1 -> [first : Nat, len : Nat]]
  BY DEF IInv, TypeOK, PointerOK
<1> QED BY <1>1, HeaderLenType DEF Datagrams

\* A datagram that arrives is added behind the others.
LEMMA ArriveAdds ==
  ASSUME IInv, Arrive
  PROVE  /\ rxWr \in Datagrams' /\ stream'[rxWr].first = rxWr
         /\ Datagrams' = Datagrams \union {rxWr}
         /\ \A p \in Datagrams : stream'[p] = stream[p]
<1> PICK n \in Sizes :
       LET end == rxWr + HeaderLen(mode) + n IN
       /\ end - rxRd <= RxMAX
       /\ stream' = [p \in 0 .. end - 1 |->
                       IF p < rxWr THEN stream[p] ELSE [first |-> rxWr, len |-> n]]
       /\ rxWr' = end
  BY DEF Arrive
<1> DEFINE end == rxWr + HeaderLen(mode) + n
<1>1. n \in Nat /\ rxWr \in Nat /\ end \in Nat /\ rxWr < end /\ rxWr' = end
  BY ReadTypes, ConstantsAssumption
<1>2. \A p \in 0 .. rxWr - 1 : p \in 0 .. end - 1 /\ stream'[p] = stream[p]
  BY <1>1
<1>3. \A p \in rxWr .. end - 1 : p \in 0 .. end - 1 /\ stream'[p].first = rxWr
  BY <1>1
<1>4. 0 .. end - 1 = (0 .. rxWr - 1) \union (rxWr .. end - 1) /\ rxWr \in rxWr .. end - 1
  BY <1>1
<1>5. Datagrams' = {p \in 0 .. end - 1 : stream'[p].first = p}
  BY <1>1 DEF Datagrams
<1> HIDE DEF end
<1>6. Datagrams' = Datagrams \union {rxWr}
  BY <1>2, <1>3, <1>4, <1>5 DEF Datagrams
<1> QED BY <1>2, <1>3, <1>4, <1>6 DEF Datagrams

\* Between calls and from call to call this stays so.
LEMMA ReadStep == IInv /\ ReadInv /\ [Next]_vars => ReadInv'
<1> SUFFICES ASSUME IInv, ReadInv, [Next]_vars PROVE ReadInv'
  OBVIOUS
<1>1. CASE Socket \/ Close
  BY <1>1 DEF Socket, Close, DoClose, ClearFlags, Return, ReadInv
<1>2. CASE UNCHANGED <<remained, from, mode, rx>> /\ pc' \in {"idle", "sendto_ir"} /\ pc # "recvfrom_data"
  BY <1>2 DEF ReadInv, Datagrams, rx
<1>3. CASE SendtoCall \/ SendtoEnd \/ GetRemainSize
  BY <1>2, <1>3 DEF SendtoCall, SendtoEnd, GetRemainSize, Return, Goto, drv
<1>4. CASE RecvfromCall
  <2>1. UNCHANGED <<remained, from, mode, open, stream, rxWr, rxRd>> /\ pc = "idle"
    BY <1>4 DEF RecvfromCall, rx
  <2>2. CASE pc' = "idle"
    BY <1>2, <2>1, <2>2 DEF rx
  <2>3. CASE len' # 0 /\ pc' = (IF remained = 0 THEN "recvfrom_rsr" ELSE "recvfrom_data")
    <3>1. remained # 0 => open
      BY DEF IInv, PointerOK
    <3> QED BY <2>1, <2>3, <3>1 DEF ReadInv, Datagrams
  <2> QED BY <1>4, <2>2, <2>3 DEF RecvfromCall, Return
<1>5. CASE RecvfromReadRSR \/ RecvfromCheck
  <2>1. UNCHANGED <<remained, from, mode, open, stream, rxWr, rxRd>> /\ pc \in {"recvfrom_rsr", "recvfrom_sr"}
    BY <1>5 DEF RecvfromReadRSR, RecvfromCheck, drv, rx
  <2>2. CASE pc' = "idle"
    BY <1>2, <2>1, <2>2 DEF rx
  <2>3. CASE pc' \in {"recvfrom_rsr", "recvfrom_sr", "recvfrom_head"} /\ len' = len
    BY <2>1, <2>3 DEF ReadInv, Datagrams
  <2> QED BY <1>5, <2>2, <2>3 DEF RecvfromReadRSR, RecvfromCheck, Return, Goto
<1>6. CASE RecvfromHead
  <2>1. /\ pc = "recvfrom_head" /\ UNCHANGED <<stream, rxWr, mode>> /\ rxRd' = rxRd + HeaderLen(mode)
        /\ open /\ rxRd \in Datagrams
    BY <1>6, ReadTypes DEF RecvfromHead, IInv, PointerOK, InStepWithHeaders, Boundary, Datagrams
  <2>2. CASE DoClose("SOCKFATAL_PACKLEN")
    BY <2>2 DEF DoClose, ClearFlags, Return, ReadInv
  <2>3. CASE /\ remained' = stream[rxRd].len /\ from' = rxRd /\ Goto("recvfrom_data") /\ UNCHANGED open
    BY <2>1, <2>3 DEF ReadInv, Goto, Datagrams
  <2>4. Decoded = {stream[rxRd].len}
    BY <2>1, ReadTypes DEF Decoded
  <2> QED BY <1>6, <2>2, <2>3, <2>4 DEF RecvfromHead
<1>7. CASE RecvfromData
  <2> DEFINE k == Min2(len, remained)
  <2>1. /\ pc = "recvfrom_data" /\ pc' = "idle" /\ UNCHANGED <<from, mode, stream, rxWr>>
        /\ rxRd' = rxRd + k /\ remained' = remained - k
    BY <1>7 DEF RecvfromData, Return
  <2>2. len # 0 /\ from \in Datagrams /\ from + HeaderLen(mode) <= rxRd
    BY <2>1, ReadTypes DEF ReadInv
  <2>3. k \in Nat /\ k <= remained /\ (remained # 0 => k > 0)
    BY <2>2, ReadTypes DEF Min2
  <2> HIDE DEF k
  <2>4. remained' # 0 => from + HeaderLen(mode) < rxRd'
    BY <2>1, <2>2, <2>3, ReadTypes
  <2> QED BY <2>1, <2>2, <2>4 DEF ReadInv, Datagrams
<1>8. CASE Arrive
  <2>1. UNCHANGED <<pc, len, remained, from, mode, open, rxRd>>
    BY <1>8 DEF Arrive, call, drv
  <2> QED BY <1>8, <2>1, ArriveAdds DEF ReadInv
<1>9. CASE ChipSent \/ UNCHANGED vars
  BY <1>9 DEF ChipSent, vars, call, drv, rx, ReadInv, Datagrams
<1> QED BY <1>1, <1>3, <1>4, <1>5, <1>6, <1>7, <1>8, <1>9 DEF Next, DriverStep

\* What is seen of the RX buffer changes with the place of the next datagram only.
LEMMA SameWaiting ==
  ASSUME UNCHANGED <<stream, rxWr, open, NextAt>>
  PROVE  Waiting' = Waiting
BY DEF Waiting, Datagrams

\* Steps that read nothing and end no header.
LEMMA SameView ==
  ASSUME UNCHANGED <<stream, rxWr, rxRd, open, remained>>, ~Unbegun, ~Unbegun'
  PROVE  Waiting' = Waiting /\ Rest' = Rest
<1>1. UNCHANGED NextAt
  BY DEF NextAt
<1> QED BY <1>1, SameWaiting DEF Rest

LEMMA OutBetweenCalls ==
  ASSUME SendInv
  PROVE  /\ pc # "sendto_ir" => Out = "none"
         /\ flight => Out = "under way"
         /\ ~flight /\ ir = {"SENDOK"} => Out = "SENDOK"
         /\ ~flight /\ ir = {"TIMEOUT"} => Out = "TIMEOUT"
BY DEF SendInv, SendtoOutcomeIsOwn, Out

\* A call of recvfrom() takes the oldest datagram that waits, or more of the one begun last.
LEMMA ReceiveStep ==
  ASSUME IInv, ReadInv, SendInv, RecvfromData
  PROVE  Abstract!Receive
<1> DEFINE k == Min2(len, remained)
           d == stream[from]
<1>1. /\ pc = "recvfrom_data" /\ pc' = "idle" /\ ret' = "len" /\ packRemained' = (remained' # 0)
      /\ UNCHANGED <<from, mode, open, ir, flight, stream, rxWr>>
      /\ rxRd' = rxRd + k /\ remained' = remained - k
  BY DEF RecvfromData, Return
<1>2. len # 0 /\ from \in Datagrams /\ open
  BY <1>1 DEF ReadInv
<1>3. k \in Nat /\ k <= remained /\ (k = 0 => remained = 0)
  BY <1>2, ReadTypes DEF Min2
<1> HIDE DEF k
<1>4. ~Unbegun' /\ Rest' = remained - k
  BY <1>1 DEF Unbegun, Rest
<1>5. NextAt' = rxRd + remained
  BY <1>1, <1>3, <1>4, ReadTypes DEF NextAt
<1>6. Out = "none" /\ Out' = Out
  BY <1>1, OutBetweenCalls DEF Out
<1>7. packRemained' = (Rest' # 0)
  BY <1>1, <1>4
<1>8. CASE ~Unbegun
  <2>1. NextAt' = NextAt /\ Rest = remained
    BY <1>5, <1>8 DEF NextAt, Rest
  <2>2. Waiting' = Waiting
    BY <1>1, <2>1, SameWaiting
  <2>3. remained # 0
    BY <1>1, <1>8 DEF ReadInv, Unbegun
  <2>4. k \in 1 .. Rest /\ Abstract!Take(Rest, k)
    BY <1>3, <1>4, <2>1, <2>3, ReadTypes DEF Abstract!Take
  <2> QED BY <1>1, <1>6, <1>7, <2>1, <2>2, <2>3, <2>4 DEF Abstract!Receive
<1>9. CASE Unbegun
  <2>1. rxRd = from + HeaderLen(mode) /\ remained = d.len /\ NextAt = from /\ Rest = 0
    BY <1>1, <1>9, ReadTypes DEF ReadInv, Unbegun, NextAt, Rest
  <2>2. from \in 0 .. rxWr - 1 /\ d.first = from /\ d.len \in Nat
    BY <1>2, ReadTypes
  <2>3. NextAt' = End(d)
    BY <1>5, <2>1, <2>2 DEF End
  <2>4. from < End(d) /\ End(d) \in Nat /\ \A q \in from .. End(d) - 1 : stream[q] = d
    BY <2>2, ReadTypes DEF IInv, StreamOK, End
  <2>5. \A q \in Datagrams : End(d) <= q <=> from <= q /\ q # from
    <3> SUFFICES ASSUME NEW q \in Datagrams PROVE End(d) <= q <=> from <= q /\ q # from
      OBVIOUS
    <3>1. q \in Nat /\ stream[q].first = q
      BY ReadTypes
    <3>2. q \in from .. End(d) - 1 => q = from
      BY <2>2, <2>4, <3>1
    <3> QED BY <2>2, <2>4, <3>1, <3>2
  <2>6. Datagrams' = Datagrams
    BY <1>1 DEF Datagrams
  <2>7. Waiting = {stream[p] : p \in {q \in Datagrams : from <= q}}
    BY <1>2, <2>1 DEF Waiting
  <2>8. Waiting' = {stream[p] : p \in {q \in Datagrams : from <= q /\ q # from}}
    BY <1>1, <1>2, <2>3, <2>5, <2>6 DEF Waiting
  <2>9. \A q \in Datagrams : stream[q] = d <=> q = from
    BY <2>2, ReadTypes
  <2>10. Waiting' = Waiting \ {d}
    BY <2>7, <2>8, <2>9
  <2>11. d \in Waiting /\ \A e \in Waiting : d.first <= e.first
    BY <1>2, <2>2, <2>7, ReadTypes
  <2>12. k \in 0 .. d.len /\ Abstract!Take(d.len, k)
    BY <1>3, <1>4, <2>1, <2>2 DEF Abstract!Take
  <2> HIDE DEF d
  <2> QED BY <1>1, <1>6, <1>7, <2>1, <2>10, <2>11, <2>12 DEF Abstract!Receive
<1> QED BY <1>8, <1>9

\* Reading a header changes nothing that is seen, unless recvfrom() closes the socket.
LEMMA HeaderHidden ==
  ASSUME IInv, SendInv, RecvfromHead
  PROVE  Abstract!Discard \/ UNCHANGED Abstract!vars
<1>1. /\ pc = "recvfrom_head" /\ UNCHANGED <<stream, rxWr, mode>> /\ rxRd' = rxRd + HeaderLen(mode)
      /\ remained = 0 /\ ~Unbegun /\ rxRd \in Nat
  BY ReadTypes DEF RecvfromHead, IInv, PointerOK, Unbegun
<1>2. Out = "none"
  BY <1>1, OutBetweenCalls
<1>3. CASE DoClose("SOCKFATAL_PACKLEN")
  <2>1. Waiting' = {} /\ Rest' = 0 /\ Out' = "none" /\ ~packRemained' /\ ret' = "SOCKFATAL_PACKLEN"
    BY <1>3 DEF DoClose, ClearFlags, Return, Waiting, Rest, Out, Unbegun
  <2> QED BY <1>2, <2>1 DEF Abstract!Discard, Abstract!Telling
<1>4. CASE from' = rxRd /\ Goto("recvfrom_data") /\ UNCHANGED <<packRemained, open, ir, flight>>
  <2>1. Unbegun'
    BY <1>1, <1>4 DEF Unbegun, Goto
  <2>2. NextAt = rxRd /\ NextAt' = rxRd /\ Rest = 0 /\ Rest' = 0
    BY <1>1, <1>4, <2>1 DEF NextAt, Rest
  <2>3. Waiting' = Waiting
    BY <1>1, <1>4, <2>2, SameWaiting
  <2>4. Out' = Out
    BY <1>4 DEF Out
  <2> QED BY <1>4, <2>2, <2>3, <2>4 DEF Abstract!vars, Goto
<1> QED BY <1>3, <1>4 DEF RecvfromHead

LEMMA ArriveSeen ==
  ASSUME IInv, ReadInv, Arrive
  PROVE  Abstract!Arrive
<1>1. UNCHANGED <<pc, ret, remained, packRemained, from, mode, open, ir, flight, rxRd>> /\ open
  BY DEF Arrive, call, drv
<1>2. UNCHANGED <<Unbegun, NextAt, Rest, Out>>
  BY <1>1 DEF Unbegun, NextAt, Rest, Out
<1>3. NextAt <= rxWr
  BY ReadTypes DEF NextAt, Unbegun, ReadInv
<1> DEFINE d == stream'[rxWr]
<1>4. d.first = rxWr /\ Datagrams' = Datagrams \union {rxWr} /\ \A p \in Datagrams : stream'[p] = stream[p]
  BY ArriveAdds
<1>5. Waiting = {stream[p] : p \in {q \in Datagrams : NextAt <= q}}
  BY <1>1 DEF Waiting
<1>6. Waiting' = {stream'[p] : p \in {q \in Datagrams' : NextAt <= q}}
  BY <1>1, <1>2 DEF Waiting
<1>7. Waiting' = Waiting \union {d}
  BY <1>3, <1>4, <1>5, <1>6
<1>8. \A e \in Waiting : e.first < d.first
  BY <1>4, <1>5, ReadTypes
<1>9. d \in Waiting'
  BY <1>7
<1> HIDE DEF d
<1> QED BY <1>1, <1>2, <1>7, <1>8, <1>9 DEF Abstract!Arrive

\* Every step is one of DatagramSocket or changes nothing that is seen.
LEMMA DatagramStep ==
  IInv /\ ReadInv /\ SendInv /\ SendInv' /\ [Next]_vars => [Abstract!Next]_(Abstract!vars)
<1> SUFFICES ASSUME IInv, ReadInv, SendInv, SendInv', [Next]_vars
             PROVE  Abstract!Next \/ UNCHANGED Abstract!vars
  OBVIOUS
<1>1. CASE Socket \/ Close
  <2>1. pc = "idle" /\ pc' = "idle" /\ ret' \in {"sn", "SOCK_OK"} /\ remained' = 0 /\ ~packRemained'
    BY <1>1 DEF Socket, Close, DoClose, ClearFlags, Return
  <2>2. Waiting' = {} /\ Rest' = 0
    BY <1>1, <2>1 DEF Socket, Close, DoClose, Waiting, Datagrams, Rest, Unbegun
  <2>3. Out = "none" /\ Out' = "none"
    BY <2>1, OutBetweenCalls DEF SendInv, SendtoOutcomeIsOwn, Out
  <2> QED BY <2>1, <2>2, <2>3 DEF Abstract!Next, Abstract!Discard, Abstract!Telling
<1>2. ASSUME UNCHANGED <<remained, packRemained, open, stream, rxWr, rxRd, ir, flight>>,
             ~Unbegun, ~Unbegun', pc # "sendto_ir",
             UNCHANGED ret \/ ret' \notin {"len", "SOCKERR_TIMEOUT"}
      PROVE  Abstract!Answer \/ UNCHANGED Abstract!vars
  <2>1. UNCHANGED <<Waiting, Rest, Out>> /\ Out = "none"
    BY <1>2, SameView, OutBetweenCalls DEF Out
  <2> QED BY <1>2, <2>1 DEF Abstract!Answer, Abstract!vars, Abstract!Telling
<1>3. CASE SendtoCall
  <2>1. /\ UNCHANGED <<remained, packRemained, open, stream, rxWr, rxRd, ir>> /\ pc = "idle"
        /\ pc' \in {"idle", "sendto_ir"} /\ ~Unbegun /\ ~Unbegun'
    BY <1>3 DEF SendtoCall, Return, Goto, drv, rx, Unbegun
  <2>2. CASE UNCHANGED flight /\ ret' \notin {"len", "SOCKERR_TIMEOUT"}
    BY <1>2, <2>1, <2>2 DEF Abstract!Next
  <2>3. CASE flight' = TRUE /\ UNCHANGED ret
    <3>1. Out = "none" /\ Out' = "under way"
      BY <2>1, <2>3, OutBetweenCalls DEF Out
    <3>2. UNCHANGED <<Waiting, Rest>>
      BY <2>1, SameView
    <3> QED BY <2>1, <2>3, <3>1, <3>2 DEF Abstract!Next, Abstract!Send
  <2> QED BY <1>3, <2>2, <2>3 DEF SendtoCall, Return, Goto
<1>4. CASE SendtoEnd
  <2>1. /\ UNCHANGED <<remained, packRemained, open, stream, rxWr, rxRd, flight>>
        /\ pc = "sendto_ir" /\ pc' = "idle" /\ ~Unbegun /\ ~Unbegun'
    BY <1>4 DEF SendtoEnd, Return, drv, rx, Unbegun
  <2>2. UNCHANGED <<Waiting, Rest>>
    BY <2>1, SameView
  <2>3. ir # {} /\ ir' = {} /\ ~flight
    BY <1>4, <2>1 DEF SendtoEnd, SendInv, OneOutcome
  <2>4. Out' = "none"
    BY <2>1, <2>3 DEF Out
  <2>5. \/ Out = "SENDOK" /\ ret' = "len"
        \/ Out = "TIMEOUT" /\ ret' = "SOCKERR_TIMEOUT"
    BY <1>4, <2>3 DEF SendtoEnd, Return, Out
  <2> QED BY <2>1, <2>2, <2>4, <2>5 DEF Abstract!Next, Abstract!Report
<1>5. CASE RecvfromCall
  <2>1. /\ UNCHANGED <<remained, packRemained, open, stream, rxWr, rxRd, ir, flight, from, mode>>
        /\ pc = "idle" /\ ret' \notin {"len", "SOCKERR_TIMEOUT"}
        /\ pc' = "recvfrom_data" => remained # 0
    BY <1>5 DEF RecvfromCall, Return, rx
  <2>2. ~Unbegun /\ ~Unbegun'
    BY <2>1, ReadTypes DEF Unbegun, ReadInv, IInv, TypeOK
  <2> QED BY <1>2, <2>1, <2>2 DEF Abstract!Next
<1>6. CASE RecvfromReadRSR \/ RecvfromCheck \/ GetRemainSize
  <2>1. /\ UNCHANGED <<remained, packRemained, open, stream, rxWr, rxRd, ir, flight>>
        /\ pc \notin {"sendto_ir", "recvfrom_data"} /\ pc' # "recvfrom_data"
        /\ UNCHANGED ret \/ ret' \notin {"len", "SOCKERR_TIMEOUT"}
    BY <1>6 DEF RecvfromReadRSR, RecvfromCheck, GetRemainSize, Return, Goto, drv, rx
  <2> QED BY <1>2, <2>1 DEF Unbegun, Abstract!Next
<1>7. CASE RecvfromHead
  BY <1>7, HeaderHidden DEF Abstract!Next
<1>8. CASE RecvfromData
  BY <1>8, ReceiveStep DEF Abstract!Next
<1>9. CASE Arrive
  BY <1>9, ArriveSeen DEF Abstract!Next
<1>10. CASE ChipSent
  <2>1. UNCHANGED <<pc, ret, remained, packRemained, from, mode, open, stream, rxWr, rxRd>> /\ flight /\ ~flight'
    BY <1>10 DEF ChipSent, call, drv, rx
  <2>2. UNCHANGED <<Waiting, Rest>>
    BY <2>1 DEF Waiting, Datagrams, Rest, NextAt, Unbegun
  <2>3. ir = {} /\ ir' \in {{"SENDOK"}, {"TIMEOUT"}}
    BY <1>10, <2>1 DEF ChipSent, SendInv, OneOutcome
  <2>4. Out = "under way" /\ Out' \in {"SENDOK", "TIMEOUT"}
    BY <2>1, <2>3 DEF Out
  <2> QED BY <2>1, <2>2, <2>4 DEF Abstract!Next, Abstract!Leave
<1>11. CASE UNCHANGED vars
  BY <1>11 DEF vars, call, drv, rx, Abstract!vars, Waiting, Datagrams, Rest, NextAt, Unbegun, Out
<1> QED BY <1>1, <1>3, <1>4, <1>5, <1>6, <1>7, <1>8, <1>9, <1>10, <1>11 DEF Next, DriverStep

(* For buffers, datagrams and reads of any size: the loops of recvfrom()   *)
(* and sendto() implement DatagramSocket. What arrived is received once,   *)
(* whole and in order, and every length or timeout is that of its call.    *)
THEOREM DatagramRefinement == Spec => ImplementsDatagramSocket
<1>1. Init => Abstract!Init
  BY DEF Init, Waiting, Rest, Unbegun, Out, Abstract!Init, Abstract!Telling
<1>2. Init => ReadInv /\ SendInv
  BY DEF Init, ReadInv, SendInv, OneOutcome, SendtoOutcomeIsOwn
<1> QED BY <1>1, <1>2, InitHolds, Inductive, ReadStep, SendInductive, DatagramStep, PTL
        DEF Spec, ImplementsDatagramSocket, Abstract!Spec

-----------------------------------------------------------------------------
(* The size registers that recvfrom() reads, for bytes of any width.  The  *)
(* register only grows during a call; so if the high byte is the same at   *)
(* the start of the first and of the second reading, it was the same when  *)
(* the first reading ended.                                                *)

\* What is known of the two readings at each point of the loop.
Readings ==
  /\ reading = "lo1" => val1[1] <= reg[1]
  /\ reading \in {"hi2", "lo2"} =>
       /\ val1[1] <= at1[1] /\ val1[2] = at1[2]
       /\ Leq(at1, reg)
       /\ val1 # Zero
  /\ reading = "lo2" => at1[1] <= val[1] /\ val[1] <= reg[1]

\* The inductive invariant.
RegisterInv == RegisterTypeOK /\ Readings /\ ResultWasHeld /\ NeverOverestimates

(* All variables of the read loop keep their types: every value the loop   *)
(* assembles is a 16-bit value.                                            *)
THEOREM RegisterTypes == RegisterSpec => []RegisterTypeOK
<1>1. RegisterInit => RegisterTypeOK
  BY ByteMaxAssumption DEF RegisterInit, RegisterTypeOK, Word, Byte, Zero
<1>2. RegisterTypeOK /\ [RegisterNext]_(registerVars) => RegisterTypeOK'
  <2> SUFFICES ASSUME RegisterTypeOK, [RegisterNext]_(registerVars) PROVE RegisterTypeOK'
    OBVIOUS
  <2> USE ByteMaxAssumption DEF RegisterTypeOK, Word, Byte, Zero
  <2>1. CASE Call BY <2>1 DEF Call
  <2>2. CASE ReadHi1 BY <2>2 DEF ReadHi1
  <2>3. CASE ReadLo1 BY <2>3 DEF ReadLo1, Finish
  <2>4. CASE ReadHi2 BY <2>4 DEF ReadHi2
  <2>5. CASE ReadLo2 BY <2>5 DEF ReadLo2, Finish
  <2>6. CASE ChipGrow BY <2>6 DEF ChipGrow
  <2>7. CASE HostCommand BY <2>7 DEF HostCommand
  <2>8. CASE UNCHANGED registerVars BY <2>8 DEF registerVars
  <2> QED BY <2>1, <2>2, <2>3, <2>4, <2>5, <2>6, <2>7, <2>8 DEF RegisterNext, Reader
<1> QED BY <1>1, <1>2, PTL DEF RegisterSpec

\* Every step preserves the inductive invariant.
LEMMA RegisterInductive ==
  RegisterInv /\ RegisterTypeOK' /\ [RegisterNext]_(registerVars)
  => RegisterInv'
<1> SUFFICES ASSUME RegisterInv, RegisterTypeOK',
                    [RegisterNext]_(registerVars)
             PROVE  RegisterInv'
  OBVIOUS
<1> USE ByteMaxAssumption DEF RegisterInv, RegisterTypeOK, Readings, ResultWasHeld,
       NeverOverestimates, Word, Byte, Zero, Leq
<1>1. CASE Call BY <1>1 DEF Call
<1>2. CASE ReadHi1 BY <1>2 DEF ReadHi1
<1>3. CASE ReadLo1 BY <1>3 DEF ReadLo1, Finish
<1>4. CASE ReadHi2 BY <1>4 DEF ReadHi2
<1>5. CASE ReadLo2 BY <1>5 DEF ReadLo2, Finish
<1>6. CASE ChipGrow BY <1>6 DEF ChipGrow
<1>7. CASE HostCommand BY <1>7 DEF HostCommand
<1>8. CASE UNCHANGED registerVars BY <1>8 DEF registerVars
<1> QED BY <1>1, <1>2, <1>3, <1>4, <1>5, <1>6, <1>7, <1>8 DEF RegisterNext, Reader

\* Nothing is read or returned at the start.
LEMMA RegisterInitHolds == RegisterInit => RegisterInv
BY ByteMaxAssumption DEF RegisterInit, RegisterInv, RegisterTypeOK, Readings, ResultWasHeld,
       NeverOverestimates, Word, Byte, Zero, Leq

(* For bytes of any width: a nonzero result was held by the register while *)
(* the call ran, however the two bytes of a reading were torn.             *)
THEOREM SizeReadSafe == RegisterSpec => []ResultWasHeld
<1>1. RegisterInv => ResultWasHeld
  BY DEF RegisterInv
<1> QED BY <1>1, RegisterInitHolds, RegisterTypes, RegisterInductive, PTL DEF RegisterSpec

(* For bytes of any width: no result exceeds what the register holds.      *)
THEOREM SizeReadLow == RegisterSpec => []NeverOverestimates
<1>1. RegisterInv => NeverOverestimates
  BY DEF RegisterInv
<1> QED BY <1>1, RegisterInitHolds, RegisterTypes, RegisterInductive, PTL DEF RegisterSpec
=============================================================================
