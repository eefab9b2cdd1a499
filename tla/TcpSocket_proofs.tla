-------------------------- MODULE TcpSocket_proofs --------------------------
(***************************************************************************)
(* Safety of the TCP socket driver for buffers of any size, any lengths    *)
(* and any number of bytes.                                                *)
(***************************************************************************)
EXTENDS TcpSocket, TLAPS

\* The order of the TX and RX pointers.
Pointers ==
  /\ txAck <= txRd /\ txSent <= txRd /\ txRd <= txWr
  /\ TxNeverOverrun /\ RxNeverOverread
  /\ rxRd # rxDone => pc = "recv_cr" /\ cr = "RECV"

\* The sizes the calls have read are at most what the registers hold now.
Sizes ==
  /\ pc \in {"send_ir", "send_fsr", "send_sr", "send_write"} => 0 < len
  /\ pc \in {"send_sr", "send_write"} => size <= TX_FSR
  /\ pc = "send_write" => len <= size
  /\ pc \in {"recv_sr", "recv_fsr", "recv_read"} => size <= rxWr - rxRd

\* Which command may be in Sn_CR, and what it has done once it is taken.
Commands ==
  /\ pc = "close_cr"   => cr = "CLOSE" \/ (cr = "none" /\ sr = "CLOSED")
  /\ pc = "close_sr"   => cr = "none" /\ sr = "CLOSED"
  /\ pc = "open_cr"    => (cr = "OPEN" /\ sr = "CLOSED") \/ (cr = "none" /\ sr = "INIT")
  /\ pc = "open_sr"    => cr = "none" /\ sr = "INIT"
  /\ pc = "listen_cr"  => cr \in {"LISTEN", "none"}
  /\ pc = "connect_cr" => cr \in {"CONNECT", "none"}
  /\ pc = "discon_cr"  => cr = "DISCON" \/ (cr = "none" /\ sr \in {"FIN_WAIT", "LAST_ACK", "CLOSED"})
  /\ pc = "send_cr"    => cr \in {"SEND", "none"}
  /\ pc = "recv_cr"    => cr \in {"RECV", "none"}
  /\ pc \notin {"close_cr", "open_cr", "listen_cr", "connect_cr", "discon_cr", "send_cr", "recv_cr"}
       => cr \in {"none", "SEND_KEEP"}
  /\ pc \in {"send_ir", "send_fsr", "send_sr", "send_write", "send_cr"} =>
       sr \in Connected \union {"CLOSED"}

\* Nothing of an earlier connection is left when a new one begins.
Fresh ==
  /\ pc \in {"close_sr", "open_cr", "open_sr"} => ir = {} /\ ~is_sending
  /\ sr \in {"INIT", "LISTEN", "SYNSENT", "SYNRECV"} =>
       /\ "SENDOK" \notin ir /\ "TIMEOUT" \notin ir /\ ~is_sending
       /\ txSent = txRd

\* The SEND command and its completion, as send() goes along.
Sending ==
  /\ pc \in {"send_fsr", "send_sr", "send_write", "send_cr"} => ~is_sending
  /\ sr \in Connected /\ "SENDOK" \in ir => txSent = txRd
  /\ pc = "send_cr" /\ cr = "SEND" => txRd < txWr
  /\ pc = "send_cr" /\ cr = "SEND" /\ sr \in Connected => txSent = txRd /\ "SENDOK" \notin ir
  /\ pc = "send_cr" /\ cr = "none" /\ sr \in Connected => txSent < txRd \/ "SENDOK" \in ir

BufferInv == TypeOK /\ Pointers /\ Sizes /\ Commands

\* The initial state satisfies all parts.
LEMMA InitHolds == Init => BufferInv /\ Fresh /\ Sending /\ SendMatchesCompletion /\ ConnectTimeoutIsOwn
<1> SUFFICES ASSUME Init
             PROVE  BufferInv /\ Fresh /\ Sending /\ SendMatchesCompletion /\ ConnectTimeoutIsOwn
  OBVIOUS
<1> USE SizesAssumption DEF Init
<1>1. TypeOK
  BY DEF TypeOK, CallPoint, ReturnCode, Status, CommandCode
<1>2. Pointers /\ Sizes /\ Commands
  BY DEF Pointers, Sizes, Commands, TxNeverOverrun, RxNeverOverread, TX_FSR
<1>3. Fresh /\ Sending /\ SendMatchesCompletion /\ ConnectTimeoutIsOwn
  BY DEF Fresh, Sending, SendMatchesCompletion, ConnectTimeoutIsOwn, Connected
<1> QED BY <1>1, <1>2, <1>3 DEF BufferInv

\* Every step preserves the order of the pointers and what the calls know of them.
LEMMA BufferStep == BufferInv /\ [Next]_vars => BufferInv'
<1> SUFFICES ASSUME BufferInv, [Next]_vars PROVE BufferInv'
  OBVIOUS
<1> USE SizesAssumption
    DEF BufferInv, TypeOK, Pointers, Sizes, Commands, TxNeverOverrun, RxNeverOverread, TX_FSR, RX_RSR,
        CallPoint, ReturnCode, Status, CommandCode, Connected,
        Goto, Return, Issue, CloseThenReturn, args, drv, tx, rx
<1>1. CASE WrongModeCall BY <1>1 DEF WrongModeCall
<1>2. CASE CloseCall BY <1>2 DEF CloseCall
<1>3. CASE SocketCall BY <1>3 DEF SocketCall
<1>4. CASE ListenCall BY <1>4 DEF ListenCall
<1>5. CASE ConnectCall BY <1>5 DEF ConnectCall
<1>6. CASE DisconnectCall BY <1>6 DEF DisconnectCall
<1>7. CASE SendCall BY <1>7 DEF SendCall, Min2
<1>8. CASE RecvCall BY <1>8 DEF RecvCall, Min2
<1>9. CASE SetIOMode BY <1>9 DEF SetIOMode
<1>10. CASE ClearInterrupt
  <2>1. ir' \subseteq Interrupt BY <1>10 DEF ClearInterrupt, Interrupt
  <2> QED BY <1>10, <2>1 DEF ClearInterrupt
<1>11. CASE KeepAliveCall BY <1>11 DEF KeepAliveCall
<1>12. CASE CloseClear
  <2>1. /\ pc = "close_cr" /\ cr = "none" /\ sr = "CLOSED"
        /\ pc' = "close_sr" /\ ir' = {} /\ io_mode' = FALSE /\ is_sending' = FALSE
        /\ UNCHANGED <<ret, args, size, mr, sr, cr, tx, rx>>
    BY <1>12 DEF CloseClear
  <2>2. TypeOK' BY <2>1
  <2>3. Pointers' BY <2>1
  <2>4. Sizes' BY <2>1
  <2>5. Commands' BY <2>1
  <2> QED BY <2>2, <2>3, <2>4, <2>5
<1>13. CASE CloseEnd
  <2>1. CASE after = "return"
    <3>1. pc' = "idle" /\ UNCHANGED <<ret, args, size, drv, mr, sr, cr, ir, tx, rx>>
      BY <1>13, <2>1 DEF CloseEnd
    <3>2. TypeOK' BY <3>1
    <3>3. Pointers' /\ Sizes' /\ Commands' BY <1>13, <3>1 DEF CloseEnd
    <3> QED BY <3>2, <3>3
  <2>2. CASE after = "open"
    <3>1. /\ pc = "close_sr" /\ pc' = "open_cr" /\ cr' = "OPEN" /\ mr' = TRUE /\ sr = "CLOSED"
          /\ UNCHANGED <<ret, args, size, drv, sr, ir, tx, rx>>
      BY <1>13, <2>2 DEF CloseEnd
    <3>2. TypeOK' BY <3>1
    <3>3. Pointers'
      <4>1. txAck <= txRd /\ txSent <= txRd /\ txRd <= txWr /\ TxNeverOverrun /\ RxNeverOverread
        OBVIOUS
      <4>2. UNCHANGED <<txWr, txRd, txSent, txAck, rxWr, rxRd, rxDone>> BY <3>1
      <4>3. rxRd = rxDone BY <3>1
      <4> QED BY <4>1, <4>2, <4>3
    <3>4. Sizes' BY <3>1
    <3>5. Commands' BY <3>1
    <3> QED BY <3>2, <3>3, <3>4, <3>5
  <2> QED BY <2>1, <2>2
<1>14. CASE SocketOpened
  <2>1. /\ pc = "open_cr" /\ cr = "none" /\ sr = "INIT"
        /\ pc' = "open_sr" /\ io_mode' = flag /\ is_sending' = FALSE
        /\ UNCHANGED <<ret, args, size, mr, sr, cr, ir, tx, rx>>
    BY <1>14 DEF SocketOpened
  <2>2. TypeOK' BY <2>1
  <2>3. Pointers' BY <2>1
  <2>4. Sizes' BY <2>1
  <2>5. Commands' BY <2>1
  <2> QED BY <2>2, <2>3, <2>4, <2>5
<1>15. CASE SocketEnd BY <1>15 DEF SocketEnd
<1>16. CASE ListenEnd BY <1>16 DEF ListenEnd
<1>17. CASE ConnectTaken BY <1>17 DEF ConnectTaken
<1>18. CASE ConnectPollSR BY <1>18 DEF ConnectPollSR
<1>19. CASE ConnectPollIR
  <2>1. ir' \subseteq Interrupt BY <1>19 DEF ConnectPollIR, Interrupt
  <2> QED BY <1>19, <2>1 DEF ConnectPollIR
<1>20. CASE ConnectPollClosed BY <1>20 DEF ConnectPollClosed
<1>21. CASE DisconnectTaken
  <2>1. TypeOK'
    <3>1. (pc \in CallPoint /\ ret \in ReturnCode)' BY <1>21 DEF DisconnectTaken
    <3>2. (is_sending \in BOOLEAN)' BY <1>21 DEF DisconnectTaken
    <3>3. UNCHANGED <<args, size, io_mode, mr, sr, cr, ir, tx, rx>> BY <1>21 DEF DisconnectTaken
    <3> QED BY <3>1, <3>2, <3>3
  <2>2. Pointers' BY <1>21 DEF DisconnectTaken
  <2>3. Sizes' /\ Commands' BY <1>21 DEF DisconnectTaken
  <2> QED BY <2>1, <2>2, <2>3
<1>22. CASE DisconnectPollSR BY <1>22 DEF DisconnectPollSR
<1>23. CASE DisconnectPollIR BY <1>23 DEF DisconnectPollIR
<1>24. CASE SendPrevious
  <2>1. ir' \subseteq Interrupt BY <1>24 DEF SendPrevious, Interrupt
  <2>2. CASE "SENDOK" \in ir
    <3>1. /\ pc = "send_ir" /\ pc' = "send_fsr" /\ is_sending' = FALSE
          /\ UNCHANGED <<ret, args, cr, size, io_mode, mr, sr, tx, rx>>
      BY <1>24, <2>2 DEF SendPrevious
    <3>2. TypeOK'
      <4>1. (pc \in CallPoint)' BY <3>1
      <4>2. (ret \in ReturnCode)' BY <3>1
      <4>3. (after \in {"return", "open"} /\ flag \in BOOLEAN /\ len \in Nat /\ size \in Nat)' BY <3>1
      <4>4. (io_mode \in BOOLEAN /\ mr \in BOOLEAN)' BY <3>1
      <4>5. (is_sending \in BOOLEAN)' BY <3>1
      <4>6. (sr \in Status /\ cr \in CommandCode)' BY <3>1
      <4>7. (txWr \in Nat /\ txRd \in Nat /\ txSent \in Nat /\ txAck \in Nat /\ rxWr \in Nat /\ rxRd \in Nat /\ rxDone \in Nat)' BY <3>1
      <4> QED BY <2>1, <4>1, <4>2, <4>3, <4>4, <4>5, <4>6, <4>7 DEF TypeOK
    <3>3. Pointers' /\ Sizes' /\ Commands' BY <3>1
    <3> QED BY <3>2, <3>3
  <2>3. CASE "SENDOK" \notin ir /\ "TIMEOUT" \in ir BY <1>24, <2>1, <2>3 DEF SendPrevious
  <2>4. CASE "SENDOK" \notin ir /\ "TIMEOUT" \notin ir BY <1>24, <2>1, <2>4 DEF SendPrevious
  <2> QED BY <2>2, <2>3, <2>4
<1>25. CASE SendReadFSR BY <1>25 DEF SendReadFSR
<1>26. CASE SendCheck BY <1>26 DEF SendCheck
<1>27. CASE SendWrite BY <1>27 DEF SendWrite
<1>28. CASE SendEnd BY <1>28 DEF SendEnd
<1>29. CASE RecvReadRSR BY <1>29 DEF RecvReadRSR
<1>30. CASE RecvCheck BY <1>30 DEF RecvCheck, RecvPoll
<1>31. CASE RecvHalfClosed BY <1>31 DEF RecvHalfClosed, RecvPoll
<1>32. CASE RecvRead BY <1>32 DEF RecvRead, Min2
<1>33. CASE RecvEnd BY <1>33 DEF RecvEnd
<1>34. CASE KeepAlivePollCR BY <1>34 DEF KeepAlivePollCR
<1>35. CASE KeepAlivePollIR
  <2>1. ir' \subseteq Interrupt BY <1>35 DEF KeepAlivePollIR, Interrupt
  <2> QED BY <1>35, <2>1 DEF KeepAlivePollIR
<1>36. CASE ChipOpen BY <1>36 DEF ChipOpen, host
<1>37. CASE ChipConnection BY <1>37 DEF ChipConnection, AfterCommand, host
<1>38. CASE ChipSend BY <1>38 DEF ChipSend, host
<1>39. CASE ChipRecv BY <1>39 DEF ChipRecv, host
<1>40. CASE ChipKeepAlive
  <2>1. ir' \subseteq Interrupt BY <1>40 DEF ChipKeepAlive, Interrupt
  <2> QED BY <1>40, <2>1 DEF ChipKeepAlive, host
<1>41. CASE ChipSendOk
  <2>1. ir' \subseteq Interrupt BY <1>41 DEF ChipSendOk, Interrupt
  <2> QED BY <1>41, <2>1 DEF ChipSendOk, host
<1>42. CASE ChipTimeout
  <2>1. ir' \subseteq Interrupt BY <1>42 DEF ChipTimeout, Interrupt
  <2> QED BY <1>42, <2>1 DEF ChipTimeout, host
<1>43. CASE PeerAcksData BY <1>43 DEF PeerAcksData, host
<1>44. CASE PeerSendsData BY <1>44 DEF PeerSendsData, host
<1>45. CASE ClientConnects BY <1>45 DEF ClientConnects, host
<1>46. CASE HandshakeEnds
  <2>1. ir' \subseteq Interrupt BY <1>46 DEF HandshakeEnds, Interrupt
  <2> QED BY <1>46, <2>1 DEF HandshakeEnds, host
<1>47. CASE PeerSendsFin BY <1>47 DEF PeerSendsFin, host
<1>48. CASE PeerResets BY <1>48 DEF PeerResets, host
<1>49. CASE CloseAcknowledged BY <1>49 DEF CloseAcknowledged, host
<1>50. CASE UNCHANGED vars BY <1>50 DEF vars
<1> QED
  BY <1>1, <1>2, <1>3, <1>4, <1>5, <1>6, <1>7, <1>8, <1>9, <1>10, <1>11, 
     <1>12, <1>13, <1>14, <1>15, <1>16, <1>17, <1>18, <1>19, <1>20, 
     <1>21, <1>22, <1>23, <1>24, <1>25, <1>26, <1>27, <1>28, <1>29, 
     <1>30, <1>31, <1>32, <1>33, <1>34, <1>35, <1>36, <1>37, <1>38, 
     <1>39, <1>40, <1>41, <1>42, <1>43, <1>44, <1>45, <1>46, <1>47, 
     <1>48, <1>49, <1>50
  DEF Next, ApplicationCall, DriverStep, ChipCommand, Network

\* Every step keeps a new connection free of the interrupts of an earlier one.
LEMMA FreshStep ==
  BufferInv /\ Fresh /\ ConnectTimeoutIsOwn /\ [Next]_vars => Fresh' /\ ConnectTimeoutIsOwn'
<1> SUFFICES ASSUME BufferInv, Fresh, ConnectTimeoutIsOwn, [Next]_vars
             PROVE  Fresh' /\ ConnectTimeoutIsOwn'
  OBVIOUS
<1> USE DEF BufferInv, TypeOK, Commands, Fresh, ConnectTimeoutIsOwn, ConnectPoint, Status, CommandCode,
            Connected, Goto, Return, Issue, CloseThenReturn, args, drv, tx, rx
<1>1. CASE WrongModeCall BY <1>1 DEF WrongModeCall
<1>2. CASE CloseCall BY <1>2 DEF CloseCall
<1>3. CASE SocketCall BY <1>3 DEF SocketCall
<1>4. CASE ListenCall BY <1>4 DEF ListenCall
<1>5. CASE ConnectCall BY <1>5 DEF ConnectCall
<1>6. CASE DisconnectCall BY <1>6 DEF DisconnectCall
<1>7. CASE SendCall BY <1>7 DEF SendCall, Min2
<1>8. CASE RecvCall BY <1>8 DEF RecvCall, Min2
<1>9. CASE SetIOMode BY <1>9 DEF SetIOMode
<1>10. CASE ClearInterrupt BY <1>10 DEF ClearInterrupt
<1>11. CASE KeepAliveCall BY <1>11 DEF KeepAliveCall
<1>12. CASE CloseClear BY <1>12 DEF CloseClear
<1>13. CASE CloseEnd BY <1>13 DEF CloseEnd
<1>14. CASE SocketOpened BY <1>14 DEF SocketOpened
<1>15. CASE SocketEnd BY <1>15 DEF SocketEnd
<1>16. CASE ListenEnd BY <1>16 DEF ListenEnd
<1>17. CASE ConnectTaken BY <1>17 DEF ConnectTaken
<1>18. CASE ConnectPollSR BY <1>18 DEF ConnectPollSR
<1>19. CASE ConnectPollIR BY <1>19 DEF ConnectPollIR
<1>20. CASE ConnectPollClosed BY <1>20 DEF ConnectPollClosed
<1>21. CASE DisconnectTaken BY <1>21 DEF DisconnectTaken
<1>22. CASE DisconnectPollSR BY <1>22 DEF DisconnectPollSR
<1>23. CASE DisconnectPollIR BY <1>23 DEF DisconnectPollIR
<1>24. CASE SendPrevious BY <1>24 DEF SendPrevious
<1>25. CASE SendReadFSR BY <1>25 DEF SendReadFSR
<1>26. CASE SendCheck BY <1>26 DEF SendCheck
<1>27. CASE SendWrite BY <1>27 DEF SendWrite
<1>28. CASE SendEnd BY <1>28 DEF SendEnd
<1>29. CASE RecvReadRSR BY <1>29 DEF RecvReadRSR
<1>30. CASE RecvCheck BY <1>30 DEF RecvCheck, RecvPoll
<1>31. CASE RecvHalfClosed BY <1>31 DEF RecvHalfClosed, RecvPoll
<1>32. CASE RecvRead BY <1>32 DEF RecvRead, Min2
<1>33. CASE RecvEnd BY <1>33 DEF RecvEnd
<1>34. CASE KeepAlivePollCR BY <1>34 DEF KeepAlivePollCR
<1>35. CASE KeepAlivePollIR BY <1>35 DEF KeepAlivePollIR
<1>36. CASE ChipOpen BY <1>36 DEF ChipOpen, host
<1>37. CASE ChipConnection BY <1>37 DEF ChipConnection, AfterCommand, host
<1>38. CASE ChipSend BY <1>38 DEF ChipSend, host
<1>39. CASE ChipRecv BY <1>39 DEF ChipRecv, host
<1>40. CASE ChipKeepAlive BY <1>40 DEF ChipKeepAlive, host
<1>41. CASE ChipSendOk BY <1>41 DEF ChipSendOk, host
<1>42. CASE ChipTimeout BY <1>42 DEF ChipTimeout, host
<1>43. CASE PeerAcksData BY <1>43 DEF PeerAcksData, host
<1>44. CASE PeerSendsData BY <1>44 DEF PeerSendsData, host
<1>45. CASE ClientConnects BY <1>45 DEF ClientConnects, host
<1>46. CASE HandshakeEnds BY <1>46 DEF HandshakeEnds, host
<1>47. CASE PeerSendsFin BY <1>47 DEF PeerSendsFin, host
<1>48. CASE PeerResets BY <1>48 DEF PeerResets, host
<1>49. CASE CloseAcknowledged BY <1>49 DEF CloseAcknowledged, host
<1>50. CASE UNCHANGED vars BY <1>50 DEF vars
<1> QED
  BY <1>1, <1>2, <1>3, <1>4, <1>5, <1>6, <1>7, <1>8, <1>9, <1>10, <1>11, 
     <1>12, <1>13, <1>14, <1>15, <1>16, <1>17, <1>18, <1>19, <1>20, 
     <1>21, <1>22, <1>23, <1>24, <1>25, <1>26, <1>27, <1>28, <1>29, 
     <1>30, <1>31, <1>32, <1>33, <1>34, <1>35, <1>36, <1>37, <1>38, 
     <1>39, <1>40, <1>41, <1>42, <1>43, <1>44, <1>45, <1>46, <1>47, 
     <1>48, <1>49, <1>50
  DEF Next, ApplicationCall, DriverStep, ChipCommand, Network

\* Every step keeps sock_is_sending in agreement with the chip.
LEMMA SendingStep ==
  ASSUME "SENDOK" \notin Clearable
  PROVE  BufferInv /\ Fresh /\ Sending /\ SendMatchesCompletion /\ [Next]_vars
           => Sending' /\ SendMatchesCompletion'
<1> SUFFICES ASSUME BufferInv, Fresh, Sending, SendMatchesCompletion, [Next]_vars
             PROVE  Sending' /\ SendMatchesCompletion'
  OBVIOUS
<1> USE SizesAssumption
    DEF BufferInv, TypeOK, Pointers, Sizes, Commands, Fresh, Sending, SendMatchesCompletion, Status,
        CommandCode, Connected, Goto, Return, Issue, CloseThenReturn, args, drv, tx, rx
<1>1. CASE WrongModeCall BY <1>1 DEF WrongModeCall
<1>2. CASE CloseCall BY <1>2 DEF CloseCall
<1>3. CASE SocketCall BY <1>3 DEF SocketCall
<1>4. CASE ListenCall BY <1>4 DEF ListenCall
<1>5. CASE ConnectCall BY <1>5 DEF ConnectCall
<1>6. CASE DisconnectCall BY <1>6 DEF DisconnectCall
<1>7. CASE SendCall BY <1>7 DEF SendCall, Min2
<1>8. CASE RecvCall BY <1>8 DEF RecvCall, Min2
<1>9. CASE SetIOMode BY <1>9 DEF SetIOMode
<1>10. CASE ClearInterrupt BY <1>10 DEF ClearInterrupt
<1>11. CASE KeepAliveCall BY <1>11 DEF KeepAliveCall
<1>12. CASE CloseClear BY <1>12 DEF CloseClear
<1>13. CASE CloseEnd BY <1>13 DEF CloseEnd
<1>14. CASE SocketOpened BY <1>14 DEF SocketOpened
<1>15. CASE SocketEnd BY <1>15 DEF SocketEnd
<1>16. CASE ListenEnd BY <1>16 DEF ListenEnd
<1>17. CASE ConnectTaken BY <1>17 DEF ConnectTaken
<1>18. CASE ConnectPollSR BY <1>18 DEF ConnectPollSR
<1>19. CASE ConnectPollIR BY <1>19 DEF ConnectPollIR
<1>20. CASE ConnectPollClosed BY <1>20 DEF ConnectPollClosed
<1>21. CASE DisconnectTaken BY <1>21 DEF DisconnectTaken
<1>22. CASE DisconnectPollSR BY <1>22 DEF DisconnectPollSR
<1>23. CASE DisconnectPollIR BY <1>23 DEF DisconnectPollIR
<1>24. CASE SendPrevious
  <2>2. CASE "SENDOK" \in ir
    <3>1. /\ pc = "send_ir" /\ pc' = "send_fsr" /\ is_sending' = FALSE
          /\ ir' = ir \ {"SENDOK"}
          /\ UNCHANGED <<ret, args, cr, size, io_mode, mr, sr, tx, rx>>
      BY <1>24, <2>2 DEF SendPrevious
    <3>2. Sending' BY <3>1
    <3>3. "SENDOK" \notin ir' BY <3>1
    <3>4. sr \in Connected => ~(txSent < txRd) BY <2>2, <3>1
    <3> QED BY <3>1, <3>2, <3>3, <3>4
  <2>3. CASE "SENDOK" \notin ir /\ "TIMEOUT" \in ir BY <1>24, <2>3 DEF SendPrevious
  <2>4. CASE "SENDOK" \notin ir /\ "TIMEOUT" \notin ir BY <1>24, <2>4 DEF SendPrevious
  <2> QED BY <2>2, <2>3, <2>4
<1>25. CASE SendReadFSR BY <1>25 DEF SendReadFSR
<1>26. CASE SendCheck BY <1>26 DEF SendCheck
<1>27. CASE SendWrite BY <1>27 DEF SendWrite
<1>28. CASE SendEnd BY <1>28 DEF SendEnd
<1>29. CASE RecvReadRSR BY <1>29 DEF RecvReadRSR
<1>30. CASE RecvCheck BY <1>30 DEF RecvCheck, RecvPoll
<1>31. CASE RecvHalfClosed BY <1>31 DEF RecvHalfClosed, RecvPoll
<1>32. CASE RecvRead BY <1>32 DEF RecvRead, Min2
<1>33. CASE RecvEnd BY <1>33 DEF RecvEnd
<1>34. CASE KeepAlivePollCR BY <1>34 DEF KeepAlivePollCR
<1>35. CASE KeepAlivePollIR BY <1>35 DEF KeepAlivePollIR
<1>36. CASE ChipOpen BY <1>36 DEF ChipOpen, host
<1>37. CASE ChipConnection BY <1>37 DEF ChipConnection, AfterCommand, host
<1>38. CASE ChipSend BY <1>38 DEF ChipSend, host
<1>39. CASE ChipRecv BY <1>39 DEF ChipRecv, host
<1>40. CASE ChipKeepAlive BY <1>40 DEF ChipKeepAlive, host
<1>41. CASE ChipSendOk BY <1>41 DEF ChipSendOk, host
<1>42. CASE ChipTimeout BY <1>42 DEF ChipTimeout, host
<1>43. CASE PeerAcksData BY <1>43 DEF PeerAcksData, host
<1>44. CASE PeerSendsData BY <1>44 DEF PeerSendsData, host
<1>45. CASE ClientConnects BY <1>45 DEF ClientConnects, host
<1>46. CASE HandshakeEnds BY <1>46 DEF HandshakeEnds, host
<1>47. CASE PeerSendsFin BY <1>47 DEF PeerSendsFin, host
<1>48. CASE PeerResets BY <1>48 DEF PeerResets, host
<1>49. CASE CloseAcknowledged BY <1>49 DEF CloseAcknowledged, host
<1>50. CASE UNCHANGED vars BY <1>50 DEF vars
<1> QED
  BY <1>1, <1>2, <1>3, <1>4, <1>5, <1>6, <1>7, <1>8, <1>9, <1>10, <1>11, 
     <1>12, <1>13, <1>14, <1>15, <1>16, <1>17, <1>18, <1>19, <1>20, 
     <1>21, <1>22, <1>23, <1>24, <1>25, <1>26, <1>27, <1>28, <1>29, 
     <1>30, <1>31, <1>32, <1>33, <1>34, <1>35, <1>36, <1>37, <1>38, 
     <1>39, <1>40, <1>41, <1>42, <1>43, <1>44, <1>45, <1>46, <1>47, 
     <1>48, <1>49, <1>50
  DEF Next, ApplicationCall, DriverStep, ChipCommand, Network

(* The variables of the driver and of the chip keep their types; in       *)
(* particular no size that a call reads is negative (in C: wraps around). *)
THEOREM TypeCorrect == Spec => []TypeOK
<1>1. BufferInv => TypeOK
  BY DEF BufferInv
<1> QED BY <1>1, InitHolds, BufferStep, PTL DEF Spec

(* For buffers and lengths of every size: send() overwrites no byte that   *)
(* the peer has not acknowledged.                                          *)
THEOREM SendSafe == Spec => []TxNeverOverrun
<1>1. BufferInv => TxNeverOverrun
  BY DEF BufferInv, Pointers
<1> QED BY <1>1, InitHolds, BufferStep, PTL DEF Spec

(* For buffers and lengths of every size: recv() reads no byte that was    *)
(* not received.                                                           *)
THEOREM RecvSafe == Spec => []RxNeverOverread
<1>1. BufferInv => RxNeverOverread
  BY DEF BufferInv, Pointers
<1> QED BY <1>1, InitHolds, BufferStep, PTL DEF Spec

(* A TIMEOUT that connect() sees is its own.                               *)
THEOREM ConnectTimeoutFresh == Spec => []ConnectTimeoutIsOwn
<1> QED BY InitHolds, BufferStep, FreshStep, PTL DEF Spec

(* If the application never clears SENDOK behind the driver's back, the    *)
(* sending flag agrees with the chip on every live connection and SEND     *)
(* commands never overlap.                                                 *)
THEOREM SendFlagSound ==
  ASSUME "SENDOK" \notin Clearable
  PROVE  Spec => [](SendMatchesCompletion /\ OneSendOutstanding)
<1>1. BufferInv /\ Sending => OneSendOutstanding
  BY DEF BufferInv, Sending, Commands, OneSendOutstanding
<1>2. BufferInv /\ Fresh /\ Sending /\ SendMatchesCompletion /\ [Next]_vars
        => Sending' /\ SendMatchesCompletion'
  BY SendingStep
<1> QED BY <1>1, <1>2, InitHolds, BufferStep, FreshStep, PTL DEF Spec

\* The steps that neither move the connection nor touch what is seen of it.
LEMMA QuietStep ==
  ASSUME \/ ApplicationCall /\ ~ClearInterrupt
         \/ DriverStep /\ ~CloseClear /\ ~ConnectPollIR /\ ~KeepAlivePollIR
         \/ ChipSend \/ ChipSendOk \/ PeerAcksData \/ UNCHANGED vars
  PROVE  View' = View
<1> USE DEF View, Goto, Return, Issue, CloseThenReturn, args, drv, tx, rx, host
<1>1. CASE ApplicationCall /\ ~ClearInterrupt
  BY <1>1 DEF ApplicationCall, WrongModeCall, CloseCall, SocketCall, ListenCall, ConnectCall,
              DisconnectCall, SendCall, RecvCall, SetIOMode, KeepAliveCall
<1>2. CASE DriverStep /\ ~CloseClear /\ ~ConnectPollIR /\ ~KeepAlivePollIR
  <2>1. CASE SendPrevious BY <2>1 DEF SendPrevious
  <2>2. CASE ~SendPrevious
    BY <1>2, <2>2
    DEF DriverStep, CloseEnd, SocketOpened, SocketEnd, ListenEnd, ConnectTaken, ConnectPollSR,
        ConnectPollClosed, DisconnectTaken, DisconnectPollSR, DisconnectPollIR, SendReadFSR,
        SendCheck, SendWrite, SendEnd, RecvReadRSR, RecvCheck, RecvHalfClosed, RecvRead, RecvEnd,
        KeepAlivePollCR
  <2> QED BY <2>1, <2>2
<1>3. CASE ChipSend BY <1>3 DEF ChipSend
<1>4. CASE ChipSendOk BY <1>4 DEF ChipSendOk
<1>5. CASE PeerAcksData BY <1>5 DEF PeerAcksData
<1>6. CASE UNCHANGED vars BY <1>6 DEF vars
<1> QED BY <1>1, <1>2, <1>3, <1>4, <1>5, <1>6

\* What the abstract socket's record holds.
Views == [sr : Status, ir : SUBSET Interrupt, rx : BOOLEAN]

\* The record built from the registers is one of these.
LEMMA ViewType ==
  ASSUME BufferInv, [Next]_vars
  PROVE  View \in Views /\ View' \in Views
<1>1. TypeOK /\ TypeOK'
  BY BufferStep DEF BufferInv
<1>2. sr \in Status /\ ir \ {"SENDOK"} \in SUBSET Interrupt /\ (rxWr # rxDone) \in BOOLEAN
  BY <1>1 DEF TypeOK
<1>3. sr' \in Status /\ ir' \ {"SENDOK"} \in SUBSET Interrupt /\ (rxWr' # rxDone') \in BOOLEAN
  BY <1>1 DEF TypeOK
<1> QED BY <1>2, <1>3 DEF View, Views

\* Every step of the driver, the chip and the peer is a step of the abstract socket, or none.
LEMMA SocketStep ==
  BufferInv /\ Fresh /\ [Next]_vars => [Abstract!Next]_View
<1> SUFFICES ASSUME BufferInv, Fresh, [Next]_vars
             PROVE  Abstract!Next \/ View' = View
  OBVIOUS
<1>0. View \in Views /\ View' \in Views
  BY ViewType
<1>1. CASE CloseClear \/ ConnectPollIR \/ KeepAlivePollIR \/ ClearInterrupt
  <2>1. /\ ir' \subseteq ir /\ UNCHANGED <<sr, rxWr, rxDone>>
    BY <1>1 DEF CloseClear, ConnectPollIR, KeepAlivePollIR, ClearInterrupt, rx
  <2>2. View' = [View EXCEPT !.ir = ir' \ {"SENDOK"}] /\ ir' \ {"SENDOK"} \in SUBSET View.ir
    BY <2>1 DEF View
  <2> QED BY <2>2 DEF Abstract!Next, Abstract!ClearInterrupts
<1>2. CASE ChipOpen
  <2>1. sr = "CLOSED" /\ ir = {}
    BY <1>2 DEF ChipOpen, BufferInv, TypeOK, CallPoint, Commands, Fresh
  <2>2. sr' = "INIT" /\ ir' = ir /\ (rxWr' # rxDone') = FALSE
    BY <1>2 DEF ChipOpen
  <2>3. View.sr = "CLOSED" /\ View.ir = {}
    BY <2>1 DEF View
  <2>4. View'.sr = "INIT" /\ View'.ir = View.ir /\ View'.rx = FALSE /\ "INIT" \in Status
    BY <2>2 DEF View, Status
  <2>5. View' = [View EXCEPT !.sr = "INIT", !.rx = FALSE]
    BY <1>0, <2>4 DEF Views
  <2> QED BY <2>3, <2>5 DEF Abstract!Next, Abstract!OpenSocket, Abstract!Open
<1>3. CASE ChipConnection
  <2>1. cr \in {"CLOSE", "LISTEN", "CONNECT", "DISCON"} /\ View' = Abstract!Command(cr, View)
    BY <1>3 DEF ChipConnection, View, rx, AfterCommand, Abstract!Command, Abstract!AfterCommand
  <2> QED BY <2>1 DEF Abstract!Next, Abstract!GiveCommand
<1>4. CASE ChipRecv
  <2>1. sr' = sr /\ ir' = ir
    BY <1>4 DEF ChipRecv
  <2>2. (rxWr' # rxDone') = (rxWr # rxDone) \/ (rxWr' # rxDone') = FALSE
    BY <1>4 DEF ChipRecv, BufferInv, TypeOK, Pointers, RxNeverOverread
  <2>3. CASE (rxWr' # rxDone') = (rxWr # rxDone)
    BY <2>1, <2>3 DEF View
  <2>4. CASE (rxWr' # rxDone') = FALSE
    <3>1. View'.sr = View.sr /\ View'.ir = View.ir /\ View'.rx = FALSE
      BY <2>1, <2>4 DEF View
    <3>2. View' = [View EXCEPT !.rx = FALSE]
      BY <1>0, <3>1 DEF Views
    <3> QED BY <3>2 DEF Abstract!Next, Abstract!TakeData
  <2> QED BY <2>2, <2>3, <2>4
<1>5. CASE ChipKeepAlive \/ ChipTimeout \/ PeerResets \/ CloseAcknowledged
  <2>1. /\ UNCHANGED <<rxWr, rxDone>>
        /\ \/ UNCHANGED <<sr, ir>>
           \/ /\ sr \in {"SYNSENT", "SYNRECV", "FIN_WAIT", "LAST_ACK"} \union Connected
              /\ sr' = "CLOSED" /\ ir' \in {ir, ir \union {"TIMEOUT"}}
    BY <1>5 DEF ChipKeepAlive, ChipTimeout, PeerResets, CloseAcknowledged, rx
  <2>2. (ir \union {"TIMEOUT"}) \ {"SENDOK"} = (ir \ {"SENDOK"}) \union {"TIMEOUT"}
    OBVIOUS
  <2>3. CASE UNCHANGED <<sr, ir>>
    BY <2>1, <2>3 DEF View
  <2>4. CASE ~UNCHANGED <<sr, ir>>
    <3>1. /\ View.sr \in Abstract!Connecting \union Abstract!Connected \union Abstract!Closing
          /\ View'.sr = "CLOSED" /\ View'.rx = View.rx
          /\ View'.ir = View.ir \/ View'.ir = View.ir \union {"TIMEOUT"}
      BY <2>1, <2>2, <2>4 DEF View, Connected, Abstract!Connecting, Abstract!Connected, Abstract!Closing
    <3>2. "CLOSED" \in Status /\ "TIMEOUT" \in Interrupt
      BY DEF Status, Interrupt
    <3>3. View'.ir = View.ir => View' = [View EXCEPT !.sr = "CLOSED"]
      BY <1>0, <3>1, <3>2 DEF Views
    <3>4. View'.ir = View.ir \union {"TIMEOUT"}
          => View' = [View EXCEPT !.sr = "CLOSED", !.ir = @ \union {"TIMEOUT"}]
      BY <1>0, <3>1, <3>2 DEF Views
    <3> QED
      BY <3>1, <3>3, <3>4
      DEF Abstract!Next, Abstract!Network, Abstract!NetSteps, Abstract!ConnectionEnds, Abstract!When
  <2> QED BY <2>1, <2>3, <2>4
<1>6. CASE PeerSendsData
  <2>1. sr' = sr /\ ir' = ir /\ sr \in {"ESTABLISHED", "FIN_WAIT"}
    BY <1>6 DEF PeerSendsData
  <2>2. (rxWr' # rxDone') = TRUE
    BY <1>6, SizesAssumption DEF PeerSendsData, BufferInv, TypeOK, Pointers, RxNeverOverread
  <2>3. View.sr \in {"ESTABLISHED", "FIN_WAIT"} /\ View'.sr = View.sr /\ View'.ir = View.ir /\ View'.rx = TRUE
    BY <2>1, <2>2 DEF View
  <2>4. View' = [View EXCEPT !.rx = TRUE]
    BY <1>0, <2>3 DEF Views
  <2> QED BY <2>3, <2>4 DEF Abstract!Next, Abstract!Network, Abstract!NetSteps, Abstract!DataArrives, Abstract!When
<1>7. CASE ClientConnects
  <2>1. View.sr = "LISTEN" /\ View' = [View EXCEPT !.sr = "SYNRECV"]
    BY <1>7 DEF ClientConnects, View, rx
  <2> QED BY <2>1 DEF Abstract!Next, Abstract!Network, Abstract!NetSteps, Abstract!PeerConnects, Abstract!When
<1>8. CASE HandshakeEnds
  <2>1. (ir \union {"CON"}) \ {"SENDOK"} = (ir \ {"SENDOK"}) \union {"CON"}
    OBVIOUS
  <2>2. /\ View.sr \in {"SYNSENT", "SYNRECV"} /\ View'.sr = "ESTABLISHED"
        /\ View'.ir = View.ir \union {"CON"} /\ View'.rx = View.rx
    BY <1>8, <2>1 DEF HandshakeEnds, View, rx
  <2>3. "ESTABLISHED" \in Status /\ "CON" \in Interrupt
    BY DEF Status, Interrupt
  <2>4. View' = [View EXCEPT !.sr = "ESTABLISHED", !.ir = @ \union {"CON"}]
    BY <1>0, <2>2, <2>3 DEF Views
  <2> QED BY <2>2, <2>4 DEF Abstract!Next, Abstract!Network, Abstract!NetSteps, Abstract!HandshakeDone, Abstract!When
<1>9. CASE PeerSendsFin
  <2>1. View.sr = "ESTABLISHED" /\ View' = [View EXCEPT !.sr = "CLOSE_WAIT"]
    BY <1>9 DEF PeerSendsFin, View, rx
  <2> QED BY <2>1 DEF Abstract!Next, Abstract!Network, Abstract!NetSteps, Abstract!PeerCloses, Abstract!When
<1> QED
  BY <1>1, <1>2, <1>3, <1>4, <1>5, <1>6, <1>7, <1>8, <1>9, QuietStep
  DEF Next, ChipCommand, Network

(* The calls of socket.c, register access by register access and with the  *)
(* chip and the peer moving in between, implement the abstract socket on   *)
(* which the devices and servers are built, for buffers of every size.     *)
THEOREM Refinement == Spec => ImplementsStreamSocket
<1>1. Init => Abstract!Init
  BY DEF Init, View, Abstract!Init, Abstract!ClosedSocket
<1> QED
  BY <1>1, InitHolds, BufferStep, FreshStep, SocketStep, PTL
  DEF Spec, ImplementsStreamSocket, Abstract!Spec

(***************************************************************************)
(* The memory that the stream goes through                                 *)
(***************************************************************************)

Memory == INSTANCE BufferMemory

\* A division has a quotient and a remainder.
LEMMA Division ==
  ASSUME NEW a \in Nat, NEW m \in Nat \ {0}
  PROVE  \E q \in Nat, r \in 0 .. m - 1 : q = a \div m /\ r = a % m /\ a = m * q + r
<1>1. a \div m \in Nat /\ (a % m) \in 0 .. m - 1
  OBVIOUS
<1>2. a = m * (a \div m) + (a % m)
  OBVIOUS
<1> QED BY <1>1, <1>2

\* The remainder of a number that is given as a multiple and a rest.
LEMMA RemainderIs ==
  ASSUME NEW m \in Nat \ {0}, NEW q \in Nat, NEW r \in 0 .. m - 1
  PROVE  (m * q + r) % m = r
OBVIOUS

\* A pointer that wraps at a multiple of the window finds the same place as the count of all bytes.
LEMMA PointerIsCount ==
  ASSUME NEW max \in Nat \ {0}, NEW k \in Nat, NEW wrap \in Nat \ {0}, wrap = max * k,
         NEW count \in Nat
  PROVE  (count % wrap) % max = count % max
<1>1. PICK h \in Nat, p \in 0 .. wrap - 1 : h = count \div wrap /\ p = count % wrap /\ count = wrap * h + p
  BY Division, Zenon
<1>2. PICK q \in Nat, r \in 0 .. max - 1 : q = p \div max /\ r = p % max /\ p = max * q + r
  <2>1. p \in Nat
    OBVIOUS
  <2> QED BY <2>1, Division, Zenon
<1>3. count = max * (k * h + q) + r
  <2>1. wrap * h = max * (k * h)
    <3>1. (max * k) * h = max * (k * h)
      OBVIOUS
    <3> QED BY <3>1
  <2>2. max * (k * h) + max * q = max * (k * h + q)
    OBVIOUS
  <2>3. k * h \in Nat /\ max * (k * h) \in Nat /\ max * q \in Nat
    <3>1. k * h \in Nat /\ max * q \in Nat
      OBVIOUS
    <3> QED BY <3>1
  <2>4. count = max * (k * h) + (max * q + r)
    BY <1>1, <1>2, <2>1
  <2>5. ASSUME NEW a \in Nat, NEW b \in Nat PROVE a + (b + r) = (a + b) + r
    OBVIOUS
  <2> QED BY <2>2, <2>3, <2>4, <2>5
<1>4. k * h + q \in Nat
  <2>1. k * h \in Nat
    OBVIOUS
  <2> QED BY <2>1
<1>5. count % max = r
  <2>1. PICK w \in Nat : w = k * h + q
    BY <1>4
  <2>2. count = max * w + r
    BY <1>3, <2>1
  <2>3. (max * w + r) % max = r
    BY RemainderIs
  <2> QED BY <2>2, <2>3
<1> QED BY <1>1, <1>2, <1>5

(***************************************************************************)
(* A copy by wiz_send_data() or wiz_recv_data() of the chips with a flat   *)
(* address space, of at most as many bytes as the window of the socket     *)
(* holds, stays in the window, and byte i of it goes to or comes from cell *)
(* (count + i) modulo the size of the window, where count is the number of *)
(* bytes copied before: the buffer is a ring, also when the pointer, a     *)
(* register that wraps at 2^16, has wrapped.  This holds for every window  *)
(* whose size divides the number at which the pointer wraps, as the sizes  *)
(* of 1, 2, 4, 8 and 16 KB divide 2^16.                                    *)
(***************************************************************************)
THEOREM CopyIsRing ==
  ASSUME NEW base \in Nat, NEW max \in Nat \ {0}, NEW k \in Nat, NEW wrap \in Nat \ {0}, wrap = max * k,
         NEW count \in Nat, NEW ptr, ptr = count % wrap, NEW n \in 0 .. max
  PROVE  /\ \A piece \in Memory!Pieces(base, max, ptr, n) : Memory!Inside(piece, base, max)
         /\ Memory!Copied(Memory!Pieces(base, max, ptr, n))
              = {base + ((count + i) % max) : i \in 0 .. n - 1}
<1>1. PICK q \in Nat, r \in 0 .. max - 1 : q = count \div max /\ r = count % max /\ count = max * q + r
  BY Division, Zenon
<1> DEFINE pieces == Memory!Pieces(base, max, ptr, n)
           Cell(i) == base + ((count + i) % max)
           Place(i) == base + (IF r + i < max THEN r + i ELSE r + i - max)
           Copied(a) == a \in Memory!Copied(pieces)
<1>2. pieces = IF r + n > max THEN {<<base + r, max - r>>, <<base, n - (max - r)>>} ELSE {<<base + r, n>>}
  <2>1. ptr % max = r
    <3>1. (count % wrap) % max = count % max
      BY PointerIsCount
    <3> QED BY <1>1, <3>1
  <2> QED BY <2>1 DEF Memory!Pieces
<1>3. ASSUME NEW i \in 0 .. n - 1 PROVE Cell(i) = Place(i)
  <2>1. max * q \in Nat
    OBVIOUS
  <2>2. CASE r + i < max
    <3>1. PICK s \in 0 .. max - 1 : s = r + i
      BY <2>2
    <3>2. count + i = max * q + s
      BY <1>1, <2>1, <3>1
    <3>3. (max * q + s) % max = s
      BY RemainderIs
    <3> QED BY <2>2, <3>1, <3>2, <3>3
  <2>3. CASE ~(r + i < max)
    <3>1. PICK s \in 0 .. max - 1 : s = r + i - max
      BY <2>3
    <3>2. max * (q + 1) = max * q + max
      OBVIOUS
    <3>3. count + i = max * (q + 1) + s
      BY <1>1, <2>1, <3>1, <3>2
    <3>4. (max * (q + 1) + s) % max = s
      BY RemainderIs
    <3> QED BY <2>3, <3>1, <3>3, <3>4
  <2> QED BY <2>2, <2>3
<1> HIDE DEF pieces, Cell, Place, Copied
<1>4. ASSUME r + n > max
      PROVE  /\ \A piece \in pieces : Memory!Inside(piece, base, max)
             /\ \A a : Copied(a) <=> \E i \in 0 .. n - 1 : a = Place(i)
  <2>1. pieces = {<<base + r, max - r>>, <<base, n - (max - r)>>}
    BY <1>2, <1>4
  <2>2. ASSUME NEW piece \in pieces PROVE Memory!Inside(piece, base, max)
    <3>1. CASE piece = <<base + r, max - r>>
      BY <3>1 DEF Memory!Inside
    <3>2. CASE piece = <<base, n - (max - r)>>
      BY <3>2 DEF Memory!Inside
    <3> QED BY <2>1, <3>1, <3>2
  <2>3. ASSUME NEW a
        PROVE  Copied(a) <=> \/ a \in base + r .. base + r + (max - r) - 1
                              \/ a \in base .. base + (n - (max - r)) - 1
    BY <2>1 DEF Copied, Memory!Copied
  <2>4. ASSUME NEW a \in base + r .. base + r + (max - r) - 1 PROVE \E i \in 0 .. n - 1 : a = Place(i)
    <3>1. PICK i \in 0 .. n - 1 : i = a - base - r
      BY <1>4
    <3>2. a = Place(i)
      BY <3>1 DEF Place
    <3> QED BY <3>2
  <2>5. ASSUME NEW a \in base .. base + (n - (max - r)) - 1 PROVE \E i \in 0 .. n - 1 : a = Place(i)
    <3>1. PICK i \in 0 .. n - 1 : i = a - base + max - r
      BY <1>4
    <3>2. a = Place(i)
      BY <3>1 DEF Place
    <3> QED BY <3>2
  <2>6. ASSUME NEW i \in 0 .. n - 1 PROVE Copied(Place(i))
    <3>1. Place(i) \in base + r .. base + r + (max - r) - 1 \/ Place(i) \in base .. base + (n - (max - r)) - 1
      BY <1>4 DEF Place
    <3> QED BY <2>3, <3>1
  <2>7. ASSUME NEW a PROVE Copied(a) <=> \E i \in 0 .. n - 1 : a = Place(i)
    <3>1. CASE Copied(a)
      BY <2>3, <2>4, <2>5, <3>1
    <3>2. ASSUME NEW i \in 0 .. n - 1, a = Place(i) PROVE Copied(a)
      BY <2>6, <3>2
    <3> QED BY <3>1, <3>2
  <2> QED BY <2>2, <2>7
<1>5. ASSUME ~(r + n > max)
      PROVE  /\ \A piece \in pieces : Memory!Inside(piece, base, max)
             /\ \A a : Copied(a) <=> \E i \in 0 .. n - 1 : a = Place(i)
  <2>1. pieces = {<<base + r, n>>}
    BY <1>2, <1>5
  <2>2. ASSUME NEW piece \in pieces PROVE Memory!Inside(piece, base, max)
    <3>1. piece = <<base + r, n>>
      BY <2>1
    <3> QED BY <1>5, <3>1 DEF Memory!Inside
  <2>3. ASSUME NEW a PROVE Copied(a) <=> a \in base + r .. base + r + n - 1
    BY <2>1 DEF Copied, Memory!Copied
  <2>4. ASSUME NEW a \in base + r .. base + r + n - 1 PROVE \E i \in 0 .. n - 1 : a = Place(i)
    <3>1. PICK i \in 0 .. n - 1 : i = a - base - r
      BY <1>5
    <3>2. a = Place(i)
      BY <1>5, <3>1 DEF Place
    <3> QED BY <3>2
  <2>5. ASSUME NEW i \in 0 .. n - 1 PROVE Copied(Place(i))
    <3>1. Place(i) \in base + r .. base + r + n - 1
      BY <1>5 DEF Place
    <3> QED BY <2>3, <3>1
  <2>6. ASSUME NEW a PROVE Copied(a) <=> \E i \in 0 .. n - 1 : a = Place(i)
    <3>1. CASE Copied(a)
      BY <2>3, <2>4, <3>1
    <3>2. ASSUME NEW i \in 0 .. n - 1, a = Place(i) PROVE Copied(a)
      BY <2>5, <3>2
    <3> QED BY <3>1, <3>2
  <2> QED BY <2>2, <2>6
<1>6. \A a : Copied(a) <=> \E i \in 0 .. n - 1 : a = Cell(i)
  <2>1. \A a : Copied(a) <=> \E i \in 0 .. n - 1 : a = Place(i)
    BY <1>4, <1>5
  <2> QED BY <1>3, <2>1
<1>7. Memory!Copied(pieces) = {Cell(i) : i \in 0 .. n - 1}
  BY <1>6 DEF Copied
<1>8. \A piece \in pieces : Memory!Inside(piece, base, max)
  BY <1>4, <1>5
<1>9. {Cell(i) : i \in 0 .. n - 1} = {base + ((count + i) % max) : i \in 0 .. n - 1}
  BY DEF Cell
<1> HIDE DEF Cell
<1>10. Memory!Copied(pieces) = {base + ((count + i) % max) : i \in 0 .. n - 1}
  BY <1>7, <1>9, Zenon
<1> QED BY <1>8, <1>10 DEF pieces

=============================================================================
