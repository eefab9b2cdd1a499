-------------------------- MODULE Servers_proofs --------------------------
(***************************************************************************)
(* The two servers of src/Internet.  The FTP server announces the port it  *)
(* listens on, and greets a client before it executes a command of it, for *)
(* any number of passive ports; the web server reads a content only where  *)
(* it lies, for contents of any length and any number of sockets: under    *)
(* any interleaving with the chip and the clients.                         *)
(***************************************************************************)
EXTENDS FtpServer, HttpServer, TLAPS

\* The points of ftpd_run() at which the round serves a greeted connection.
Serving == {"rsr", "recv", "proc"}

\* The control socket never connects by itself, and connect_state_control is set on a
\* connection only if the banner was sent on it; listen() makes it stale until it has
\* looked at the status.
CtrlInv ==
  /\ ctrl.sr # "SYNSENT"
  /\ pc # "ctrl_listening" /\ ctrl.sr \in {"LISTEN", "SYNRECV"} => ~greeted
  /\ pc # "ctrl_listening" /\ ctrl.sr \in Connected /\ greeted => seen.banner
  /\ pc \in Serving => greeted

\* A port is announced before the data socket opens with it: until then it is the next
\* port, and from then on that of the socket.
DataInv ==
  /\ pc = "pasv_wait" => seen.announced = local_port /\ data.sr \notin {"INIT", "LISTEN", "SYNRECV"}
  /\ ftp.mode = "PASSIVE" /\ ftp.dsock = "READY" => seen.announced = local_port
  /\ ftp.mode = "PASSIVE" /\ data.sr = "INIT" => seen.bound = seen.announced
  /\ PassivePortAnnounced

IInv == TypeOK /\ CtrlInv /\ DataInv

-----------------------------------------------------------------------------
(* What the operations of SocketOps do to the status of a socket.          *)

\* Where a step of the chip or the peer may take a socket.
Moves(s, t) ==
  \/ t.sr \in {s.sr, "CLOSED"}
  \/ s.sr = "LISTEN" /\ t.sr = "SYNRECV"
  \/ s.sr \in {"SYNSENT", "SYNRECV"} /\ t.sr = "ESTABLISHED"
  \/ s.sr = "ESTABLISHED" /\ t.sr = "CLOSE_WAIT"

LEMMA SocketFields ==
  ASSUME NEW s \in Socket
  PROVE  /\ s.sr \in Status /\ s.ir \in SUBSET {"CON", "TIMEOUT"} /\ s.rx \in BOOLEAN
         /\ s = [sr |-> s.sr, ir |-> s.ir, rx |-> s.rx]
BY DEF Socket

LEMMA AfterListen == \A x : AfterCommand("LISTEN", x) = IF x = "INIT" THEN "LISTEN" ELSE x
BY Zenon DEF AfterCommand

LEMMA AfterConnect == \A x : AfterCommand("CONNECT", x) = IF x = "INIT" THEN "SYNSENT" ELSE x
BY Zenon DEF AfterCommand

LEMMA AfterDiscon ==
  \A x : /\ x \in {"INIT", "LISTEN", "SYNSENT", "SYNRECV"} => AfterCommand("DISCON", x) = "CLOSED"
         /\ AfterCommand("DISCON", x) \in {x, "CLOSED", "FIN_WAIT", "LAST_ACK"}
BY Zenon DEF AfterCommand

LEMMA CommandResult ==
  ASSUME NEW s \in Socket, NEW c \in {"LISTEN", "CONNECT", "DISCON"}
  PROVE  Command(c, s) \in Socket /\ Command(c, s).sr = AfterCommand(c, s.sr)
<1>1. s.sr \in Status
  BY SocketFields
<1>2. AfterCommand(c, s.sr) \in Status
  <2>1. CASE c = "LISTEN"
    BY <2>1, <1>1, AfterListen DEF Status
  <2>2. CASE c = "CONNECT"
    BY <2>2, <1>1, AfterConnect DEF Status
  <2>3. CASE c = "DISCON"
    BY <2>3, <1>1, AfterDiscon DEF Status
  <2> QED BY <2>1, <2>2, <2>3
<1> QED BY <1>2 DEF Socket, Command

LEMMA CloseResult ==
  ASSUME NEW s \in Socket
  PROVE  /\ Close(s) \in Socket /\ Close(s).sr = "CLOSED"
         /\ Reopen(s) \in Socket /\ Reopen(s).sr = "INIT"
BY DEF Socket, Close, Reopen, Open, Status

LEMMA SendResult ==
  ASSUME NEW s \in Socket, NEW t \in Send(s)
  PROVE  t \in Socket /\ t.sr \in {s.sr, "CLOSED"}
BY CloseResult DEF Send, When

LEMMA RecvResult ==
  ASSUME NEW s \in Socket, NEW t \in RecvResults(s)
  PROVE  t \in Socket /\ t.sr \in {s.sr, "CLOSED"}
<1>1. [s EXCEPT !.rx = FALSE] \in Socket /\ [s EXCEPT !.rx = FALSE].sr = s.sr
  BY DEF Socket
<1> QED BY <1>1, CloseResult DEF RecvResults

LEMMA NetResult ==
  ASSUME NEW s \in Socket, NEW t \in NetSteps(s)
  PROVE  Quiet(t) \in Socket /\ Quiet(t).sr = t.sr /\ Moves(s, t)
<1>1. t \in Socket /\ Moves(s, t)
  <2>1. CASE t \in PeerConnects(s)
    BY <2>1 DEF PeerConnects, When, Socket, Status, Moves
  <2>2. CASE t \in HandshakeDone(s)
    <3>1. s.ir \union {"CON"} \in SUBSET {"CON", "TIMEOUT"}
      BY SocketFields
    <3>2. s.sr \in {"SYNSENT", "SYNRECV"} /\ t = [s EXCEPT !.sr = "ESTABLISHED", !.ir = s.ir \union {"CON"}]
      BY <2>2 DEF HandshakeDone, When
    <3> QED BY <3>1, <3>2 DEF Socket, Status, Moves
  <2>3. CASE t \in DataArrives(s)
    BY <2>3 DEF DataArrives, When, Socket, Status, Moves
  <2>4. CASE t \in PeerCloses(s)
    BY <2>4 DEF PeerCloses, When, Socket, Status, Moves
  <2>5. CASE t \in ConnectionEnds(s)
    <3>1. s.ir \union {"TIMEOUT"} \in SUBSET {"CON", "TIMEOUT"}
      BY SocketFields
    <3>2. \/ t = [s EXCEPT !.sr = "CLOSED"]
          \/ t = [s EXCEPT !.sr = "CLOSED", !.ir = s.ir \union {"TIMEOUT"}]
      BY <2>5 DEF ConnectionEnds, When
    <3> QED BY <3>1, <3>2 DEF Socket, Status, Moves
  <2> QED BY <2>1, <2>2, <2>3, <2>4, <2>5 DEF NetSteps
<1>2. Quiet(t) \in Socket /\ Quiet(t).sr = t.sr
  BY <1>1 DEF Quiet, Socket
<1> QED BY <1>1, <1>2

-----------------------------------------------------------------------------
(* Types.                                                                  *)

LEMMA FtpFields ==
  ASSUME TypeOK
  PROVE  /\ ftp.state \in {"NOT_LOGIN", "LOGIN"} /\ ftp.cmd \in {"NO", "SEND", "STOR"}
         /\ ftp.mode \in {"ACTIVE", "PASSIVE"} /\ ftp.dsock \in {"IDLE", "READY", "START"}
         /\ seen.banner \in BOOLEAN
         /\ seen.announced \in 0 .. PasvPorts - 1 /\ seen.bound \in 0 .. PasvPorts - 1
         /\ ctrl.sr \in Status /\ data.sr \in Status
BY DEF TypeOK, Socket

\* Where the statuses of the two sockets lead.
LEMMA CasePoints ==
  /\ \A x \in DOMAIN CtrlCase : CtrlCase[x] \in {"greet", "ctrl_discon", "ctrl_open", "ctrl_listen"}
  /\ \A x \in DOMAIN DataCase : DataCase[x] \in {"transfer", "data_discon", "data_open", "data_init"}
BY DEF CtrlCase, DataCase

LEMMA NextPortType == TypeOK => NextPort \in 0 .. PasvPorts - 1
<1> SUFFICES ASSUME TypeOK PROVE NextPort \in 0 .. PasvPorts - 1
  OBVIOUS
<1>1. PasvPorts \in Nat /\ PasvPorts > 0 /\ local_port + 1 \in Nat
  BY FtpAssumption DEF TypeOK
<1>2. \A x, n \in Nat : n > 0 => x % n \in 0 .. n - 1
  OBVIOUS
<1> QED BY <1>1, <1>2 DEF NextPort

-----------------------------------------------------------------------------
(* Steps that touch one of the sockets only.                               *)

\* Steps that open, close or leave the control socket and are not about the banner.
LEMMA CtrlAside ==
  ASSUME CtrlInv,
         ctrl'.sr \in {ctrl.sr, "CLOSED", "INIT", "FIN_WAIT", "LAST_ACK"},
         greeted' = greeted, seen'.banner = seen.banner,
         pc' = "ctrl_listening" <=> pc = "ctrl_listening",
         pc' \in Serving => pc \in Serving
  PROVE  CtrlInv'
BY DEF CtrlInv, Connected

\* Steps that close or leave the data socket and are not about its port or mode.
LEMMA DataAside ==
  ASSUME DataInv,
         data'.sr \in {data.sr, "CLOSED", "FIN_WAIT", "LAST_ACK"},
         ftp'.mode = ftp.mode, ftp'.dsock = ftp.dsock, local_port' = local_port,
         seen'.announced = seen.announced, seen'.bound = seen.bound,
         pc' = "pasv_wait" => pc = "pasv_wait"
  PROVE  DataInv'
BY DEF DataInv, PassivePortAnnounced

-----------------------------------------------------------------------------
(* The actions on the control socket.                                      *)

LEMMA ControlStep ==
  ASSUME IInv, ReadCtrlStatus \/ Greet \/ ReadCommand \/ CtrlDisconnect \/ CtrlOpen \/ CtrlListen
  PROVE  IInv'
<1>0. TypeOK /\ CtrlInv /\ DataInv /\ ctrl \in Socket
  BY DEF IInv, TypeOK
<1>1. /\ UNCHANGED <<data, ftp, local_port, remote, whole>>
      /\ seen'.announced = seen.announced /\ seen'.bound = seen.bound
      /\ pc # "pasv_wait" /\ pc' # "pasv_wait"
  <2>1. CASE ReadCtrlStatus
    BY <2>1, CasePoints DEF ReadCtrlStatus, Goto, state
  <2>2. CASE Greet
    BY <2>2, <1>0 DEF Greet, Goto, state, TypeOK
  <2>3. CASE ReadCommand \/ CtrlDisconnect \/ CtrlOpen \/ CtrlListen
    BY <2>3 DEF ReadCommand, CtrlDisconnect, CtrlOpen, CtrlListen, Goto, state
  <2> QED BY <2>1, <2>2, <2>3
<1>2. DataInv'
  BY <1>0, <1>1, DataAside
<1>3. CASE ReadCtrlStatus
  <2>1. ctrl' = ctrl /\ greeted' = greeted /\ seen' = seen /\ pc = "run"
        /\ pc' \in {"greet", "ctrl_discon", "ctrl_open", "ctrl_listen", "data"}
    BY <1>3, CasePoints DEF ReadCtrlStatus, Goto
  <2>2. TypeOK'
    BY <2>1, <1>0, <1>1 DEF TypeOK, Points
  <2>3. CtrlInv'
    BY <2>1, <1>0, CtrlAside DEF Serving
  <2> QED BY <1>2, <2>2, <2>3 DEF IInv
<1>4. CASE Greet
  <2>1. pc = "greet"
    BY <1>4 DEF Greet
  <2>2. CASE greeted /\ Goto("rsr") /\ UNCHANGED <<ctrl, greeted, seen>>
    <3>1. TypeOK'
      BY <2>2, <1>0, <1>1 DEF TypeOK, Points, Goto
    <3>2. CtrlInv'
      BY <2>1, <2>2, <1>0 DEF CtrlInv, Goto
    <3> QED BY <1>2, <3>1, <3>2 DEF IInv
  <2>3. CASE /\ ~greeted /\ ctrl.sr \in Connected /\ Goto("rsr") /\ greeted' = TRUE
             /\ seen' = [seen EXCEPT !.banner = TRUE] /\ UNCHANGED ctrl
    <3>1. seen'.banner = TRUE
      BY <2>3, <1>0 DEF TypeOK
    <3>2. TypeOK'
      BY <2>3, <1>0, <1>1 DEF TypeOK, Points, Goto
    <3>3. CtrlInv'
      BY <2>1, <2>3, <3>1, <1>0 DEF CtrlInv, Connected, Goto
    <3> QED BY <1>2, <3>2, <3>3 DEF IInv
  <2>4. CASE Goto("run") /\ ctrl' = Close(ctrl) /\ UNCHANGED <<greeted, seen>>
    <3>1. ctrl' \in Socket /\ ctrl'.sr = "CLOSED" /\ pc' = "run"
      BY <2>4, <1>0, CloseResult DEF Goto
    <3>2. TypeOK'
      BY <2>4, <3>1, <1>0, <1>1 DEF TypeOK, Points
    <3>3. CtrlInv'
      BY <2>1, <2>4, <3>1, <1>0, CtrlAside DEF Serving
    <3> QED BY <1>2, <3>2, <3>3 DEF IInv
  <2> QED BY <1>4, <2>2, <2>3, <2>4 DEF Greet
<1>5. CASE ReadCommand
  <2>1. ctrl' \in Socket /\ ctrl'.sr \in {ctrl.sr, "CLOSED"}
    BY <1>5, <1>0, RecvResult DEF ReadCommand
  <2>2. greeted' = greeted /\ seen' = seen /\ pc \in {"rsr", "recv"} /\ pc' \in {"recv", "proc", "data", "run"}
    BY <1>5 DEF ReadCommand, Goto
  <2>3. TypeOK'
    BY <2>1, <2>2, <1>0, <1>1 DEF TypeOK, Points
  <2>4. CtrlInv'
    BY <2>1, <2>2, <1>0, CtrlAside DEF Serving
  <2> QED BY <1>2, <2>3, <2>4 DEF IInv
<1>6. CASE CtrlDisconnect
  <2>1. ctrl' \in Socket /\ ctrl'.sr \in {ctrl.sr, "CLOSED", "FIN_WAIT", "LAST_ACK"}
    BY <1>6, <1>0, CommandResult, CloseResult, AfterDiscon DEF CtrlDisconnect
  <2>2. greeted' = greeted /\ seen' = seen /\ pc \in {"ctrl_discon", "ctrl_wait", "quit_wait"}
        /\ pc' \in {"ctrl_wait", "data", "run"}
    BY <1>6 DEF CtrlDisconnect, Goto
  <2>3. TypeOK'
    BY <2>1, <2>2, <1>0, <1>1 DEF TypeOK, Points
  <2>4. CtrlInv'
    BY <2>1, <2>2, <1>0, CtrlAside DEF Serving
  <2> QED BY <1>2, <2>3, <2>4 DEF IInv
<1>7. CASE CtrlOpen
  <2>1. ctrl' \in Socket /\ ctrl'.sr = "INIT"
    BY <1>7, <1>0, CloseResult DEF CtrlOpen
  <2>2. greeted' = greeted /\ seen' = seen /\ pc = "ctrl_open" /\ pc' = "data"
    BY <1>7 DEF CtrlOpen, Goto
  <2>3. TypeOK'
    BY <2>1, <2>2, <1>0, <1>1 DEF TypeOK, Points
  <2>4. CtrlInv'
    BY <2>1, <2>2, <1>0, CtrlAside DEF Serving
  <2> QED BY <1>2, <2>3, <2>4 DEF IInv
<1>8. CASE CtrlListen
  <2>1. seen' = seen /\ pc \in {"ctrl_listen", "ctrl_listening"} /\ pc' \in {"ctrl_listening", "data", "run"}
        /\ greeted' \in BOOLEAN
    BY <1>8, <1>0 DEF CtrlListen, Goto, TypeOK
  <2>2. ctrl' \in Socket
    BY <1>8, <1>0, CommandResult, CloseResult DEF CtrlListen
  <2>3. TypeOK'
    BY <2>1, <2>2, <1>0, <1>1 DEF TypeOK, Points
  <2>4. \/ pc' = "ctrl_listening" /\ ctrl'.sr = "LISTEN"
        \/ pc' # "ctrl_listening" /\ ctrl'.sr = "LISTEN" /\ ~greeted'
        \/ pc' # "ctrl_listening" /\ ctrl'.sr = "CLOSED"
    BY <1>8, <1>0, CommandResult, CloseResult, AfterListen DEF CtrlListen, Goto
  <2>5. CtrlInv'
    BY <2>1, <2>4 DEF CtrlInv, Connected, Serving
  <2> QED BY <1>2, <2>3, <2>5 DEF IInv
<1> QED BY <1>3, <1>4, <1>5, <1>6, <1>7, <1>8

-----------------------------------------------------------------------------
(* The commands.                                                           *)

\* PASV ends the use of the data socket before it announces the next port.
LEMMA CommandStep == IInv /\ proc_ftpd => IInv'
<1> SUFFICES ASSUME IInv, proc_ftpd PROVE IInv'
  OBVIOUS
<1>0. TypeOK /\ CtrlInv /\ DataInv /\ ctrl \in Socket /\ data \in Socket
  BY DEF IInv, TypeOK
<1>1. pc = "proc" /\ greeted' = greeted /\ whole' = whole /\ local_port' = local_port
      /\ seen'.banner = seen.banner
  BY <1>0 DEF proc_ftpd, Answered, UserCmd, ftplogin, QuitCmd, TransferCmd, StorCmd, pport, PasvCmd,
              state, TypeOK
<1>2. pc' \in {"data", "quit_wait", "stor_connect", "pasv_wait"}
  BY DEF proc_ftpd, Answered, UserCmd, ftplogin, QuitCmd, TransferCmd, StorCmd, pport, PasvCmd, Goto
<1>3. ctrl' \in Socket /\ ctrl'.sr \in {ctrl.sr, "CLOSED", "FIN_WAIT", "LAST_ACK"}
  <2>1. CASE ctrl' \in Send(ctrl)
    BY <2>1, <1>0, SendResult
  <2>2. CASE UserCmd
    BY <2>2, <1>0, CloseResult DEF UserCmd
  <2>3. CASE QuitCmd
    <3> PICK t \in Send(ctrl) : ctrl' = Command("DISCON", t)
      BY <2>3 DEF QuitCmd
    <3>1. t \in Socket /\ t.sr \in {ctrl.sr, "CLOSED"}
      BY <1>0, SendResult
    <3> QED BY <3>1, CommandResult, AfterDiscon
  <2> QED BY <2>1, <2>2, <2>3
          DEF proc_ftpd, Answered, ftplogin, TransferCmd, StorCmd, pport, PasvCmd
<1>4. CtrlInv'
  BY <1>0, <1>1, <1>2, <1>3, CtrlAside DEF Serving
<1>5. CASE Answered \/ UserCmd \/ QuitCmd
  <2>1. UNCHANGED <<data, ftp, remote, seen>> /\ pc' # "pasv_wait"
    BY <1>5 DEF Answered, UserCmd, QuitCmd, Goto, state
  <2>2. TypeOK'
    BY <2>1, <1>0, <1>1, <1>2, <1>3 DEF TypeOK, Points
  <2>3. DataInv'
    BY <2>1, <1>0, <1>1, DataAside
  <2> QED BY <1>4, <2>2, <2>3 DEF IInv
<1>6. CASE ftplogin \/ TransferCmd
  <2>1. UNCHANGED <<data, remote, seen>> /\ pc' # "pasv_wait"
    BY <1>6 DEF ftplogin, TransferCmd, Goto
  <2>2. ftp' = [ftp EXCEPT !.state = "LOGIN"] \/ ftp' = [ftp EXCEPT !.cmd = "SEND"]
    BY <1>6 DEF ftplogin, TransferCmd
  <2>3. TypeOK'
    BY <2>1, <2>2, <1>0, <1>1, <1>2, <1>3 DEF TypeOK, Points
  <2>4. ftp'.mode = ftp.mode /\ ftp'.dsock = ftp.dsock
    BY <2>2, <1>0 DEF TypeOK
  <2>5. DataInv'
    BY <2>1, <2>4, <1>0, <1>1, DataAside
  <2> QED BY <1>4, <2>3, <2>5 DEF IInv
<1>7. CASE StorCmd
  <2>1. UNCHANGED <<remote, seen>> /\ pc' # "pasv_wait" /\ ftp' = [ftp EXCEPT !.cmd = "STOR"]
    BY <1>7 DEF StorCmd, Goto
  <2>2. data' \in Socket /\ data'.sr \in {data.sr, "SYNSENT"}
    BY <1>7, <1>0, CommandResult, AfterConnect DEF StorCmd
  <2>3. TypeOK'
    BY <2>1, <2>2, <1>0, <1>1, <1>2, <1>3 DEF TypeOK, Points
  <2>4. ftp'.mode = ftp.mode /\ ftp'.dsock = ftp.dsock
    BY <2>1, <1>0 DEF TypeOK
  <2>5. DataInv'
    BY <2>1, <2>2, <2>4, <1>0, <1>1 DEF DataInv, PassivePortAnnounced
  <2> QED BY <1>4, <2>3, <2>5 DEF IInv
<1>8. CASE pport
  <2>1. UNCHANGED <<data, seen>> /\ remote' = TRUE /\ pc' # "pasv_wait"
        /\ ftp' = [ftp EXCEPT !.mode = "ACTIVE", !.dsock = "READY"]
    BY <1>8 DEF pport, Goto
  <2>2. TypeOK'
    BY <2>1, <1>0, <1>1, <1>2, <1>3 DEF TypeOK, Points
  <2>3. ftp'.mode = "ACTIVE"
    BY <2>1, <1>0 DEF TypeOK
  <2>4. DataInv'
    BY <2>1, <2>3, <1>0, <1>1 DEF DataInv, PassivePortAnnounced
  <2> QED BY <1>4, <2>2, <2>4 DEF IInv
<1>9. CASE PasvCmd
  <2>1. ftp' = ftp /\ remote' = remote /\ pc' = "pasv_wait"
        /\ seen' = [seen EXCEPT !.announced = local_port] /\ data' = Command("DISCON", data)
    BY <1>9 DEF PasvCmd, Goto, state
  <2>2. data' \in Socket /\ data'.sr \notin {"INIT", "LISTEN", "SYNRECV"}
    BY <2>1, <1>0, CommandResult, AfterDiscon
  <2>3. TypeOK'
    BY <2>1, <2>2, <1>0, <1>1, <1>2, <1>3 DEF TypeOK, Points
  <2>4. seen'.announced = local_port'
    BY <2>1, <1>0, <1>1 DEF TypeOK
  <2>5. DataInv'
    BY <2>1, <2>2, <2>4 DEF DataInv, PassivePortAnnounced
  <2> QED BY <1>4, <2>3, <2>5 DEF IInv
<1> QED BY <1>5, <1>6, <1>7, <1>8, <1>9 DEF proc_ftpd

-----------------------------------------------------------------------------
(* The actions on the data socket.                                         *)

\* The steps of a transfer and of the end of a connection: they never open the socket.
Transferring ==
  ReadDataStatus \/ Transfer \/ SendFile \/ StorLoop \/ StorStatus \/ Finish \/ FinishEnd
  \/ Reply226 \/ DataDisconnect \/ DataListen \/ DataConnect

LEMMA TransferStep == IInv /\ Transferring => IInv'
<1> SUFFICES ASSUME IInv, Transferring PROVE IInv'
  OBVIOUS
<1> USE DEF Transferring
<1>0. TypeOK /\ CtrlInv /\ DataInv /\ ctrl \in Socket /\ data \in Socket
  BY DEF IInv, TypeOK
<1>1. UNCHANGED <<local_port, remote, greeted, seen>>
  BY DEF ReadDataStatus, Transfer, SendFile, StorLoop, StorStatus, Finish, FinishEnd, Reply226,
         DataDisconnect, DataListen, DataConnect, state
<1>2. pc \notin Serving /\ pc \notin {"ctrl_listening", "pasv_wait"}
  BY DEF ReadDataStatus, Transfer, SendFile, StorLoop, StorStatus, Finish, FinishEnd, Reply226,
         DataDisconnect, DataListen, DataConnect, Serving
<1>3. pc' \in Points /\ pc' \notin Serving /\ pc' \notin {"ctrl_listening", "pasv_wait"}
  <2>1. CASE ReadDataStatus
    BY <2>1, CasePoints DEF ReadDataStatus, Goto, Points, Serving
  <2>2. CASE Transfer
    <3>1. ftp.cmd \in {"NO", "SEND", "STOR"}
      BY <1>0, FtpFields
    <3>2. pc' \in {"run", "send", "stor"}
      BY <2>2, <3>1, Zenon DEF Transfer, Goto
    <3> QED BY <3>2 DEF Points, Serving
  <2>3. CASE SendFile \/ StorLoop \/ StorStatus \/ Finish \/ FinishEnd
    BY <2>3 DEF SendFile, StorLoop, StorStatus, Finish, FinishEnd, Goto, When, Points, Serving
  <2>4. CASE Reply226 \/ DataDisconnect \/ DataListen \/ DataConnect
    BY <2>4 DEF Reply226, DataDisconnect, DataListen, DataConnect, Goto, Points, Serving
  <2> QED BY <2>1, <2>2, <2>3, <2>4
<1>4. ctrl' \in Socket /\ ctrl'.sr \in {ctrl.sr, "CLOSED"}
  <2>1. CASE Reply226
    BY <2>1, <1>0, SendResult DEF Reply226
  <2> QED BY <2>1, <1>0 DEF ReadDataStatus, Transfer, SendFile, StorLoop, StorStatus, Finish, FinishEnd,
                            DataDisconnect, DataListen, DataConnect
<1>5. data' \in Socket /\ data'.sr \in {data.sr, "CLOSED", "FIN_WAIT", "LAST_ACK"}
  <2>1. CASE ReadDataStatus \/ Transfer \/ StorStatus \/ Reply226
    BY <2>1, <1>0 DEF ReadDataStatus, Transfer, StorStatus, Reply226
  <2>2. CASE SendFile
    BY <2>2, <1>0, SendResult DEF SendFile
  <2>3. CASE StorLoop
    BY <2>3, <1>0, RecvResult DEF StorLoop
  <2>4. CASE Finish \/ FinishEnd \/ DataDisconnect \/ DataListen
    BY <2>4, <1>0, CommandResult, CloseResult, AfterDiscon DEF Finish, FinishEnd, DataDisconnect, DataListen
  <2>5. CASE DataConnect
    <3>1. [data EXCEPT !.ir = data.ir \ {"TIMEOUT"}] \in Socket
          /\ [data EXCEPT !.ir = data.ir \ {"TIMEOUT"}].sr = data.sr
      BY <1>0 DEF Socket
    <3>2. data' = data \/ data' = [data EXCEPT !.ir = data.ir \ {"TIMEOUT"}]
      BY <2>5 DEF DataConnect
    <3> QED BY <3>1, <3>2, <1>0
  <2> QED BY <2>1, <2>2, <2>3, <2>4, <2>5
<1>6. whole' \in BOOLEAN
  <2>1. CASE SendFile
    BY <2>1 DEF SendFile
  <2>2. CASE StorStatus
    BY <2>2, <1>0 DEF StorStatus, TypeOK
  <2>3. CASE ~(SendFile \/ StorStatus)
    <3>1. whole' = whole
      BY <2>3 DEF ReadDataStatus, Transfer, StorLoop, Finish, FinishEnd, Reply226,
                  DataDisconnect, DataListen, DataConnect
    <3> QED BY <3>1, <1>0 DEF TypeOK
  <2> QED BY <2>1, <2>2, <2>3
<1>7. ftp' = ftp \/ ftp' = [ftp EXCEPT !.cmd = "NO"]
  BY DEF ReadDataStatus, Transfer, SendFile, StorLoop, StorStatus, Finish, FinishEnd, Reply226,
         DataDisconnect, DataListen, DataConnect, state
<1>8. ftp'.mode = ftp.mode /\ ftp'.dsock = ftp.dsock
  BY <1>0, <1>7 DEF TypeOK
<1>9. TypeOK'
  BY <1>0, <1>1, <1>3, <1>4, <1>5, <1>6, <1>7 DEF TypeOK
<1>10. CtrlInv'
  BY <1>0, <1>1, <1>2, <1>3, <1>4, CtrlAside
<1>11. DataInv'
  BY <1>0, <1>1, <1>3, <1>5, <1>8, DataAside
<1> QED BY <1>9, <1>10, <1>11 DEF IInv

\* The steps that open the data socket, or put it to use.
LEMMA OpenStep == IInv /\ (PasvEnd \/ DataOpen \/ DataInit) => IInv'
<1> SUFFICES ASSUME IInv, PasvEnd \/ DataOpen \/ DataInit PROVE IInv'
  OBVIOUS
<1>0. TypeOK /\ CtrlInv /\ DataInv /\ ctrl \in Socket /\ data \in Socket
  BY DEF IInv, TypeOK
<1>1. UNCHANGED <<ctrl, remote, greeted, whole>>
  BY DEF PasvEnd, DataOpen, DataInit, state
<1>2. seen'.banner = seen.banner
  BY <1>0 DEF PasvEnd, DataOpen, DataInit, TypeOK
<1>3. /\ pc \in {"pasv_wait", "data_open", "data_init"}
      /\ pc' \in {"data", "run", "data_listening", "data_connect"}
  BY DEF PasvEnd, DataOpen, DataInit, Goto
<1>4. CtrlInv'
  BY <1>0, <1>1, <1>2, <1>3, CtrlAside DEF Serving
<1>5. CASE PasvEnd
  <2>1. pc = "pasv_wait" /\ UNCHANGED <<local_port, seen>>
        /\ ftp' = [ftp EXCEPT !.mode = "PASSIVE", !.dsock = "READY"]
    BY <1>5 DEF PasvEnd
  <2>2. data' \in Socket /\ data'.sr = "CLOSED"
    BY <1>5, <1>0, CloseResult DEF PasvEnd
  <2>3. TypeOK'
    BY <2>1, <2>2, <1>0, <1>1, <1>3 DEF TypeOK, Points
  <2>4. DataInv'
    BY <2>1, <2>2, <1>0, <1>3 DEF DataInv, PassivePortAnnounced
  <2> QED BY <1>4, <2>3, <2>4 DEF IInv
<1>6. CASE DataOpen
  <2>1. CASE UNCHANGED <<data, state, seen>>
    <3>1. TypeOK'
      BY <2>1, <1>0, <1>1, <1>3 DEF TypeOK, Points, state
    <3>2. DataInv'
      BY <2>1, <1>0, <1>3, DataAside DEF state
    <3> QED BY <1>4, <3>1, <3>2 DEF IInv
  <2>2. CASE ftp.dsock = "READY" /\ data' = Reopen(data) /\ ftp' = [ftp EXCEPT !.dsock = "START"]
    <3>1. data' \in Socket /\ data'.sr = "INIT"
      BY <2>2, <1>0, CloseResult
    <3>2. ftp'.mode = ftp.mode /\ ftp'.dsock = "START"
      BY <2>2, <1>0 DEF TypeOK
    <3>3. CASE ftp.mode = "PASSIVE" /\ local_port' = NextPort /\ seen' = [seen EXCEPT !.bound = local_port]
      <4>1. TypeOK'
        BY <2>2, <3>1, <3>3, <1>0, <1>1, <1>3, NextPortType DEF TypeOK, Points
      <4>2. seen'.bound = local_port /\ seen'.announced = seen.announced
        BY <3>3, <1>0 DEF TypeOK
      <4>3. DataInv'
        BY <2>2, <3>1, <3>2, <3>3, <4>2, <1>0, <1>3 DEF DataInv, PassivePortAnnounced
      <4> QED BY <1>4, <4>1, <4>3 DEF IInv
    <3>4. CASE ftp.mode = "ACTIVE" /\ UNCHANGED <<local_port, seen>>
      <4>1. TypeOK'
        BY <2>2, <3>1, <3>4, <1>0, <1>1, <1>3 DEF TypeOK, Points
      <4>2. DataInv'
        BY <3>1, <3>2, <3>4, <1>0, <1>3 DEF DataInv, PassivePortAnnounced
      <4> QED BY <1>4, <4>1, <4>2 DEF IInv
    <3> QED BY <1>6, <2>2, <3>3, <3>4 DEF DataOpen
  <2> QED BY <1>6, <2>1, <2>2 DEF DataOpen
<1>7. CASE DataInit
  <2>1. UNCHANGED <<ftp, local_port, seen>>
    BY <1>7 DEF DataInit, state
  <2>2. data' \in Socket
    BY <1>7, <1>0, CommandResult DEF DataInit
  <2>3. \/ data'.sr \in {data.sr, "SYNSENT"}
        \/ ftp.mode = "PASSIVE" /\ data.sr = "INIT" /\ data'.sr = "LISTEN"
    BY <1>7, <1>0, CommandResult, AfterListen, AfterConnect DEF DataInit
  <2>4. TypeOK'
    BY <2>1, <2>2, <1>0, <1>1, <1>3 DEF TypeOK, Points
  <2>5. DataInv'
    BY <2>1, <2>3, <1>0, <1>3 DEF DataInv, PassivePortAnnounced
  <2> QED BY <1>4, <2>4, <2>5 DEF IInv
<1> QED BY <1>5, <1>6, <1>7

-----------------------------------------------------------------------------
(* The chip and the client.                                                *)

LEMMA NetworkStep == IInv /\ Network => IInv'
<1> SUFFICES ASSUME IInv, Network PROVE IInv'
  OBVIOUS
<1>0. TypeOK /\ CtrlInv /\ DataInv /\ ctrl \in Socket /\ data \in Socket
  BY DEF IInv, TypeOK
<1>1. CASE CtrlNet(NetSteps(ctrl))
  <2> PICK t \in NetSteps(ctrl) :
         ctrl' = Quiet(t) /\ seen' = [seen EXCEPT !.banner = seen.banner /\ ctrl.sr # "SYNRECV"]
    BY <1>1 DEF CtrlNet
  <2>1. UNCHANGED <<data, ftp, local_port, remote, greeted, pc, whole>>
    BY <1>1 DEF CtrlNet, state
  <2>2. ctrl' \in Socket /\ ctrl'.sr = t.sr /\ Moves(ctrl, t)
    BY <1>0, NetResult
  <2>3. /\ seen'.banner = (seen.banner /\ ctrl.sr # "SYNRECV") /\ seen'.announced = seen.announced
        /\ seen'.bound = seen.bound
    BY <1>0 DEF TypeOK
  <2>4. TypeOK'
    BY <2>1, <2>2, <1>0 DEF TypeOK
  <2>5. CtrlInv'
    BY <2>1, <2>2, <2>3, <1>0 DEF CtrlInv, Connected, Moves
  <2>6. DataInv'
    BY <2>1, <2>3, <1>0, DataAside
  <2> QED BY <2>4, <2>5, <2>6 DEF IInv
<1>2. CASE DataNet(NetSteps(data))
  <2> PICK t \in NetSteps(data) : data' = Quiet(t)
    BY <1>2 DEF DataNet
  <2>1. UNCHANGED <<ctrl, ftp, local_port, remote, greeted, pc, seen, whole>>
    BY <1>2 DEF DataNet, state
  <2>2. data' \in Socket /\ data'.sr = t.sr /\ Moves(data, t)
    BY <1>0, NetResult
  <2>3. TypeOK'
    BY <2>1, <2>2, <1>0 DEF TypeOK
  <2>4. CtrlInv'
    BY <2>1, <1>0, CtrlAside
  <2>5. DataInv'
    BY <2>1, <2>2, <1>0 DEF DataInv, PassivePortAnnounced, Moves
  <2> QED BY <2>3, <2>4, <2>5 DEF IInv
<1> QED BY <1>1, <1>2 DEF Network

\* ftpd_init() opens the control socket and leaves the data socket closed.
LEMMA InitHolds == Init => IInv
<1> SUFFICES ASSUME Init PROVE IInv
  OBVIOUS
<1>0. ClosedSocket \in Socket
  BY DEF ClosedSocket, Socket, Status
<1>1. ctrl \in Socket /\ ctrl.sr = "INIT"
  BY <1>0, CloseResult DEF Init
<1>2. data \in Socket /\ data.sr = "CLOSED"
  BY <1>0 DEF Init, ClosedSocket
<1>3. 0 \in 0 .. PasvPorts - 1
  BY FtpAssumption
<1>4. TypeOK
  BY <1>1, <1>2, <1>3 DEF Init, TypeOK, Points
<1> QED BY <1>1, <1>2, <1>4 DEF Init, IInv, CtrlInv, DataInv, PassivePortAnnounced, Connected, Serving

\* Every step preserves the inductive invariant.
LEMMA Inductive == IInv /\ [Next]_vars => IInv'
<1> SUFFICES ASSUME IInv, [Next]_vars PROVE IInv'
  OBVIOUS
<1>1. CASE UNCHANGED vars
  <2>1. UNCHANGED <<ctrl, data, ftp, local_port, remote, greeted, pc, seen, whole>>
    BY <1>1 DEF vars
  <2> QED BY <2>1 DEF IInv, TypeOK, CtrlInv, DataInv, PassivePortAnnounced
<1> QED BY <1>1, ControlStep, CommandStep, TransferStep, OpenStep, NetworkStep
        DEF Next, ftpd_run, Transferring

(* The server's and the sockets' variables keep their types.               *)
THEOREM TypeCorrect == Spec => []TypeOK
<1>1. IInv => TypeOK
  BY DEF IInv
<1> QED BY <1>1, InitHolds, Inductive, PTL DEF Spec

(* For any number of passive ports and any history of PASV, PORT and       *)
(* aborted transfers: a data socket that listens does so on the port of    *)
(* the last 227 reply.                                                     *)
THEOREM PassivePortSound == Spec => []PassivePortAnnounced
<1>1. IInv => PassivePortAnnounced
  BY DEF IInv, DataInv
<1> QED BY <1>1, InitHolds, Inductive, PTL DEF Spec

(* Whatever became of earlier connections: a command is executed only on a *)
(* connection on which the banner was sent.                                *)
THEOREM GreetedFirst == Spec => []BannerFirst
<1>1. IInv => BannerFirst
  BY DEF IInv, CtrlInv, BannerFirst, Serving
<1> QED BY <1>1, InitHolds, Inductive, PTL DEF Spec

-----------------------------------------------------------------------------
(* The web server.  A status that a response leaves behind describes       *)
(* either no content or a position within one, whoever the next client is; *)
(* so every part that is read lies within its content.                     *)

\* A response is under way in h: more of the content is left to send.
Partial(h) ==
  /\ h.start \in DOMAIN web_content
  /\ h.len = web_content[h.start] /\ h.offset < h.len

HttpFile == [status : {"IDLE", "INPROC", "DONE"}, start : Nat, len : Nat, offset : Nat]

HttpTypes ==
  /\ http \in [Sockets -> HttpFile]
  /\ web_content \in Seq(Lens)
  /\ httpPc \in [at : HttpPoints, seq : Sockets]

\* What a status remembers, whichever client comes next: a response under way is within its
\* content, and an idle socket has none, except between the first part and the status it sets.
HttpFilesOK ==
  \A i \in Sockets :
    /\ http[i].status = "INPROC" => Partial(http[i])
    /\ http[i].status = "IDLE" /\ ~(httpPc.at = "wait" /\ httpPc.seq = i) => http[i] = NoFile

\* What a call of httpServer_run() knows of its socket's status.
HttpCallOK ==
  LET h == http[httpPc.seq]
  IN /\ httpPc.at \in {"rsr", "recv", "handle", "wait"} => h.status = "IDLE"
     /\ httpPc.at = "body" => h.status = "INPROC"
     /\ httpPc.at = "wait" => h.len = 0 \/ Partial(h)

HttpReadOK ==
  read.num # 0 => read.num \in DOMAIN web_content /\ read.end <= web_content[read.num]

HttpInv == HttpTypes /\ HttpFilesOK /\ HttpCallOK /\ HttpReadOK

\* The fields of the variables, as the provers need them.
LEMMA HttpFields ==
  ASSUME HttpTypes
  PROVE  /\ httpPc.at \in HttpPoints /\ httpPc.seq \in Sockets
         /\ httpPc.seq \in 1 .. Cnt /\ Cnt \in Nat
         /\ http[httpPc.seq] \in HttpFile
         /\ \A n \in DOMAIN web_content : web_content[n] \in Nat /\ n \in Nat \ {0}
<1>1. httpPc.at \in HttpPoints /\ httpPc.seq \in Sockets /\ http[httpPc.seq] \in HttpFile
  BY DEF HttpTypes
<1>2. httpPc.seq \in 1 .. Cnt /\ Cnt \in Nat
  BY <1>1, HttpAssumption DEF Sockets
<1>3. \A n \in DOMAIN web_content : web_content[n] \in Nat /\ n \in Nat \ {0}
  <2>1. \A n \in DOMAIN web_content : n \in Nat \ {0} /\ web_content[n] \in Lens
    BY DEF HttpTypes
  <2> QED BY <2>1, HttpAssumption
<1> QED BY <1>1, <1>2, <1>3

\* The fields of a response that is kept.
LEMMA HttpFileFields ==
  ASSUME NEW h \in HttpFile
  PROVE  /\ h.status \in {"IDLE", "INPROC", "DONE"} /\ h.start \in Nat /\ h.len \in Nat /\ h.offset \in Nat
BY DEF HttpFile

Moved(h, start, len, offset) == [h EXCEPT !.start = start, !.len = len, !.offset = offset]

LEMMA MovedFields ==
  ASSUME NEW h \in HttpFile, NEW a, NEW b, NEW c
  PROVE  /\ Moved(h, a, b, c).status = h.status
         /\ Moved(h, a, b, c).start = a /\ Moved(h, a, b, c).len = b /\ Moved(h, a, b, c).offset = c
         /\ a \in Nat /\ b \in Nat /\ c \in Nat => Moved(h, a, b, c) \in HttpFile
BY DEF HttpFile, Moved

\* A step to the next point of the round of a socket.
LEMMA HttpGotoStep ==
  ASSUME HttpTypes, NEW p \in HttpPoints, HttpGoto(p)
  PROVE  httpPc' \in [at : HttpPoints, seq : Sockets] /\ httpPc'.at = p /\ httpPc'.seq = httpPc.seq
BY DEF HttpTypes, HttpGoto

\* The end of the round of a socket.
LEMMA HttpReturn ==
  ASSUME HttpTypes, Return
  PROVE  httpPc' \in [at : HttpPoints, seq : Sockets] /\ httpPc'.at = "run"
<1>1. (httpPc.seq % Cnt) + 1 \in Sockets
  BY HttpFields, HttpAssumption DEF Sockets
<1> QED BY <1>1 DEF Return, HttpPoints

\* A step that leaves the responses alone and does not enter a response.
LEMMA HttpQuietStep ==
  ASSUME HttpInv, UNCHANGED <<http, web_content, read>>, httpPc' \in [at : HttpPoints, seq : Sockets],
         UNCHANGED httpPc \/ (httpPc.at # "wait" /\ httpPc'.at \notin {"rsr", "recv", "handle", "wait", "body"})
  PROVE  HttpInv'
<1>1. HttpTypes' /\ HttpReadOK'
  BY DEF HttpInv, HttpTypes, HttpReadOK
<1>2. HttpFilesOK'
  BY DEF HttpInv, HttpFilesOK, Partial
<1>3. HttpCallOK'
  BY DEF HttpInv, HttpCallOK, Partial
<1> QED BY <1>1, <1>2, <1>3 DEF HttpInv

\* A content is registered: the ones before it stay where they are.
LEMMA HttpRegisterStep == HttpInv /\ reg_httpServer_webContent => HttpInv'
<1> SUFFICES ASSUME HttpInv, reg_httpServer_webContent PROVE HttpInv'
  OBVIOUS
<1>1. HttpTypes /\ HttpFilesOK /\ HttpReadOK /\ UNCHANGED <<http, httpPc, read>> /\ httpPc.at = "run"
  BY DEF HttpInv, reg_httpServer_webContent
<1>2. PICK n \in Lens : web_content' = Append(web_content, n)
  BY DEF reg_httpServer_webContent
<1>3. /\ web_content' \in Seq(Lens)
      /\ \A k \in DOMAIN web_content : k \in DOMAIN web_content' /\ web_content'[k] = web_content[k]
  BY <1>1, <1>2 DEF HttpTypes
<1>4. \A i \in Sockets : Partial(http[i]) => Partial(http[i])'
  BY <1>1, <1>3 DEF Partial
<1>5. HttpFilesOK'
  BY <1>1, <1>4 DEF HttpFilesOK
<1> QED BY <1>1, <1>3, <1>5 DEF HttpInv, HttpTypes, HttpCallOK, HttpReadOK

\* The look at Sn_SR, and at the status the last round left.
LEMMA HttpStatusStep == HttpInv /\ ReadStatus => HttpInv'
<1> SUFFICES ASSUME HttpInv, ReadStatus PROVE HttpInv'
  OBVIOUS
<1> DEFINE step == [IDLE |-> "rsr", INPROC |-> "body", DONE |-> "done"]
           h == http[httpPc.seq]
<1>1. HttpTypes /\ HttpFilesOK /\ HttpCallOK /\ HttpReadOK /\ UNCHANGED <<http, web_content, read>> /\ httpPc.at = "run"
  BY DEF HttpInv, ReadStatus
<1>2. h.status \in {"IDLE", "INPROC", "DONE"} /\ httpPc.seq \in Sockets
  BY <1>1, HttpFields, HttpFileFields
<1>3. CASE HttpGoto(step[h.status])
  <2> DEFINE p == step[h.status]
  <2>1. /\ p \in {"rsr", "body", "done"}
        /\ p = "rsr" => h.status = "IDLE"
        /\ p = "body" => h.status = "INPROC"
    BY <1>2
  <2>2. HttpGoto(p)
    BY <1>3
  <2> HIDE DEF p
  <2>3. p \in HttpPoints
    BY <2>1 DEF HttpPoints
  <2>4. httpPc' \in [at : HttpPoints, seq : Sockets] /\ httpPc'.at = p /\ httpPc'.seq = httpPc.seq
    BY <1>1, <2>2, <2>3, HttpGotoStep
  <2>5. HttpTypes' /\ HttpReadOK'
    BY <1>1, <2>4 DEF HttpTypes, HttpReadOK
  <2>6. HttpFilesOK'
    BY <1>1 DEF HttpFilesOK, Partial
  <2>7. HttpCallOK'
    BY <1>1, <2>1, <2>4 DEF HttpCallOK
  <2> QED BY <2>5, <2>6, <2>7 DEF HttpInv
<1>4. CASE \E p \in {"discon", "open", "listen"} : HttpGoto(p)
  <2>1. PICK p \in {"discon", "open", "listen"} : HttpGoto(p)
    BY <1>4
  <2>2. httpPc' \in [at : HttpPoints, seq : Sockets] /\ httpPc'.at = p
    BY <1>1, <2>1, HttpGotoStep DEF HttpPoints
  <2> QED BY <1>1, <2>2, HttpQuietStep
<1>5. CASE Return
  BY <1>1, <1>5, HttpReturn, HttpQuietStep
<1>6. \/ HttpGoto(step[h.status])
      \/ \E p \in {"discon", "open", "listen"} : HttpGoto(p)
      \/ Return
  BY DEF ReadStatus
<1> QED BY <1>3, <1>4, <1>5, <1>6

\* The socket is idle as long as its request is read.
LEMMA HttpRequestStep == HttpInv /\ (ReadSize \/ Receive) => HttpInv'
<1> SUFFICES ASSUME HttpInv, ReadSize \/ Receive PROVE HttpInv'
  OBVIOUS
<1>1. /\ HttpTypes /\ HttpFilesOK /\ HttpCallOK /\ HttpReadOK /\ UNCHANGED <<http, web_content, read>>
      /\ httpPc.at \in {"rsr", "recv"}
  BY DEF HttpInv, ReadSize, Receive
<1>2. CASE Return
  BY <1>1, <1>2, HttpReturn, HttpQuietStep
<1>3. CASE \E p \in {"recv", "handle"} : HttpGoto(p)
  <2>1. PICK p \in {"recv", "handle"} : HttpGoto(p)
    BY <1>3
  <2>2. httpPc' \in [at : HttpPoints, seq : Sockets] /\ httpPc'.at = p /\ httpPc'.seq = httpPc.seq
    BY <1>1, <2>1, HttpGotoStep DEF HttpPoints
  <2>3. HttpFilesOK'
    BY <1>1, <2>2 DEF HttpFilesOK, Partial
  <2>4. HttpCallOK'
    BY <1>1, <2>2 DEF HttpCallOK
  <2> QED BY <1>1, <2>2, <2>3, <2>4 DEF HttpInv, HttpTypes, HttpReadOK
<1> QED BY <1>2, <1>3 DEF ReadSize, Receive

\* The first part of a response lies within the content, and what is kept of it starts behind it.
LEMMA FirstPartFits ==
  ASSUME HttpTypes, NEW num \in DOMAIN web_content,
         NEW part, part = FirstPart(NoFile, num),
         NEW next, next = AfterPart(NoFile, part, Kept(web_content[num]))
  PROVE  /\ part.start = num /\ part.offset + part.len <= web_content[num]
         /\ next \in HttpFile /\ next.status = "IDLE"
         /\ next.len = 0 \/ Partial(next)
<1> DEFINE n == web_content[num]
           k == Smaller(n, PartMax)
           kept == Kept(n)
<1>1. n \in Nat /\ num \in Nat \ {0} /\ PartMax \in Nat \ {0}
  BY HttpFields, HttpAssumption
<1>2. k \in Nat /\ k <= n /\ k <= PartMax /\ (n > PartMax => k = PartMax)
  BY <1>1 DEF Smaller
<1>3. part.len = k /\ part.start = num /\ part.offset = 0 /\ part.last = (n = 0)
  BY DEF FirstPart, NoFile
<1>4. kept \in Nat /\ (kept = n \/ kept = 0) /\ (kept # 0 => n > PartMax)
  BY <1>1 DEF Kept
<1> HIDE DEF n, k, kept
<1>5. next = AfterPart(NoFile, part, kept)
  BY DEF kept, n
<1>9. NoFile \in HttpFile /\ NoFile.status = "IDLE" /\ NoFile.start = 0 /\ NoFile.offset = 0
  BY DEF NoFile, HttpFile
<1>6. CASE n = 0
  <2>1. next = Moved(NoFile, 0, 0, 0)
    BY <1>3, <1>5, <1>6 DEF AfterPart, Moved
  <2>2. next \in HttpFile /\ next.status = "IDLE" /\ next.len = 0
    BY <2>1, <1>9, MovedFields
  <2> QED BY <1>1, <1>2, <1>3, <2>2 DEF n
<1>7. CASE n # 0
  <2> DEFINE start == IF kept = 0 THEN 0 ELSE num
  <2>0. start \in Nat
    BY <1>1
  <2>1. next = Moved(NoFile, start, kept, k)
    <3>1. next = [NoFile EXCEPT !.start = IF kept = 0 THEN NoFile.start ELSE part.start,
                                !.len = kept, !.offset = NoFile.offset + part.len]
      BY <1>3, <1>5, <1>7 DEF AfterPart
    <3>2. NoFile.offset + part.len = k
      BY <1>2, <1>3, <1>9
    <3> QED BY <1>3, <1>9, <3>1, <3>2 DEF Moved
  <2> HIDE DEF start
  <2>2. next \in HttpFile /\ next.status = "IDLE" /\ next.len = kept /\ next.offset = k /\ next.start = start
    <3>1. kept \in Nat /\ k \in Nat
      BY <1>2, <1>4
    <3> DEFINE m == Moved(NoFile, start, kept, k)
    <3>2. m \in HttpFile /\ m.status = NoFile.status /\ m.len = kept /\ m.offset = k /\ m.start = start
      BY <1>9, <2>0, <3>1, MovedFields
    <3> QED BY <1>9, <2>1, <3>2
  <2>3. kept # 0 => Partial(next)
    BY <1>1, <1>2, <1>4, <2>2 DEF Partial, n, start
  <2> QED BY <1>1, <1>2, <1>3, <2>2, <2>3 DEF n
<1> QED BY <1>6, <1>7

\* A further part lies within the content too; after it the response is over or still within it.
LEMMA RestPartFits ==
  ASSUME HttpTypes, NEW h \in HttpFile, Partial(h),
         NEW part, part = RestPart(h), NEW next, next = AfterPart(h, part, h.len)
  PROVE  /\ part.start = h.start /\ part.offset + part.len <= web_content[h.start]
         /\ next \in HttpFile /\ next.status = h.status
         /\ next.len = 0 \/ Partial(next)
<1> DEFINE r == h.len - h.offset
           k == Smaller(r, PartMax)
<1>1. h.start \in Nat \ {0} /\ h.len \in Nat /\ h.offset \in Nat /\ h.offset < h.len /\ PartMax \in Nat \ {0}
  BY HttpFileFields, HttpFields, HttpAssumption DEF Partial
<1>2. h.start \in DOMAIN web_content /\ h.len = web_content[h.start]
  BY DEF Partial
<1>3. r \in Nat /\ h.offset + r = h.len
  BY <1>1
<1>4. part.len = k /\ part.start = h.start /\ part.offset = h.offset /\ part.last = (r <= PartMax)
  BY DEF RestPart
<1> HIDE DEF r
<1>5. k \in Nat /\ k <= r /\ (r > PartMax => k = PartMax)
  BY <1>1, <1>3 DEF Smaller
<1> HIDE DEF k
<1>6. h.offset + k <= h.len /\ (r > PartMax => h.offset + k < h.len)
  BY <1>1, <1>3, <1>5
<1>7. CASE r <= PartMax
  <2>1. next = Moved(h, 0, 0, 0)
    BY <1>4, <1>7 DEF AfterPart, Moved
  <2>2. next \in HttpFile /\ next.status = h.status /\ next.len = 0
    BY <2>1, MovedFields
  <2> QED BY <1>2, <1>4, <1>6, <2>2
<1>8. CASE ~(r <= PartMax)
  <2> DEFINE o == h.offset + k
  <2>1. next = Moved(h, h.start, h.len, o)
    BY <1>1, <1>4, <1>8 DEF AfterPart, Moved
  <2>2. o \in Nat /\ o < h.len
    BY <1>1, <1>3, <1>5, <1>6, <1>8
  <2> HIDE DEF o
  <2>3. next \in HttpFile /\ next.status = h.status /\ next.len = h.len /\ next.offset = o /\ next.start = h.start
    <3>1. h.start \in Nat /\ h.len \in Nat
      BY <1>1
    <3> DEFINE m == Moved(h, h.start, h.len, o)
    <3>2. m \in HttpFile /\ m.status = h.status /\ m.len = h.len /\ m.offset = o /\ m.start = h.start
      BY <2>2, <3>1, MovedFields
    <3> QED BY <2>1, <3>2
  <2> QED BY <1>2, <1>4, <1>6, <2>2, <2>3 DEF Partial
<1> QED BY <1>7, <1>8

\* The request is answered with the first part of its content.
LEMMA HttpHandlerStep == HttpInv /\ http_process_handler => HttpInv'
<1> SUFFICES ASSUME HttpInv, http_process_handler PROVE HttpInv'
  OBVIOUS
<1> DEFINE i == httpPc.seq
           h == http[i]
<1>1. /\ HttpTypes /\ HttpFilesOK /\ HttpCallOK /\ HttpReadOK /\ UNCHANGED web_content
      /\ httpPc.at = "handle" /\ HttpGoto("wait")
  BY DEF HttpInv, http_process_handler
<1>2. i \in Sockets
  BY <1>1, HttpFields
<1>3. h.status = "IDLE" /\ h = NoFile
  BY <1>1, <1>2 DEF HttpCallOK, HttpFilesOK
<1>4. httpPc' \in [at : HttpPoints, seq : Sockets] /\ httpPc'.at = "wait" /\ httpPc'.seq = i
  BY <1>1, HttpGotoStep DEF HttpPoints
<1>5. CASE UNCHANGED <<http, read>>
  <2>1. HttpFilesOK'
    BY <1>1, <1>4, <1>5 DEF HttpFilesOK, Partial
  <2>2. HttpCallOK'
    BY <1>3, <1>4, <1>5 DEF HttpCallOK, NoFile
  <2> QED BY <1>1, <1>4, <1>5, <2>1, <2>2 DEF HttpInv, HttpTypes, HttpReadOK
<1>6. ASSUME NEW num \in DOMAIN web_content, SendPart(FirstPart(h, num)),
             http' = [http EXCEPT ![i] = AfterPart(h, FirstPart(h, num), Kept(web_content[num]))]
      PROVE  HttpInv'
  <2> DEFINE part == FirstPart(NoFile, num)
             next == AfterPart(NoFile, part, Kept(web_content[num]))
  <2>1. /\ part.start = num /\ part.offset + part.len <= web_content[num]
        /\ next \in HttpFile /\ next.status = "IDLE"
        /\ next.len = 0 \/ Partial(next)
    BY <1>1, FirstPartFits
  <2>2. read' = [num |-> num, end |-> part.offset + part.len]
    BY <1>3, <1>6, <2>1 DEF SendPart
  <2>3. http' = [http EXCEPT ![i] = next]
    BY <1>3, <1>6
  <2> HIDE DEF part, next
  <2>4. HttpReadOK'
    BY <1>1, <2>1, <2>2 DEF HttpReadOK
  <2>5. HttpTypes' /\ http'[i] = next /\ \A j \in Sockets \ {i} : http'[j] = http[j]
    BY <1>1, <1>2, <1>4, <2>1, <2>3 DEF HttpTypes
  <2>6. HttpFilesOK'
    BY <1>1, <1>4, <2>1, <2>5 DEF HttpFilesOK, Partial
  <2>7. HttpCallOK'
    BY <1>1, <1>4, <2>1, <2>5 DEF HttpCallOK, Partial
  <2> QED BY <2>4, <2>5, <2>6, <2>7 DEF HttpInv
<1>7. PICK m \in Methods, t \in Types, found \in find_userReg_webContent \union {0} :
        \/ UNCHANGED <<http, read>>
        \/ /\ Body(m, t, found) # 0 /\ SendPart(FirstPart(h, Body(m, t, found)))
           /\ http' = [http EXCEPT ![i] = AfterPart(h, FirstPart(h, Body(m, t, found)),
                                                       Kept(web_content[Body(m, t, found)]))]
  BY <1>2, <1>1, Zenon DEF http_process_handler, HttpTypes
<1>8. Body(m, t, found) # 0 => Body(m, t, found) \in DOMAIN web_content
  BY DEF Body, find_userReg_webContent
<1> QED BY <1>5, <1>6, <1>7, <1>8

\* The end of the wait for the TX buffer: a response with a length is remembered as begun.
LEMMA HttpWaitSentStep == HttpInv /\ WaitSent => HttpInv'
<1> SUFFICES ASSUME HttpInv, WaitSent PROVE HttpInv'
  OBVIOUS
<1> DEFINE i == httpPc.seq
           h == http[i]
           status == IF h.len > 0 THEN "INPROC" ELSE "DONE"
           next == [h EXCEPT !.status = status]
<1>1. /\ HttpTypes /\ HttpFilesOK /\ HttpCallOK /\ HttpReadOK /\ UNCHANGED <<web_content, read>>
      /\ httpPc.at = "wait" /\ Return /\ http' = [http EXCEPT ![i].status = status]
  BY DEF HttpInv, WaitSent
<1>2. i \in Sockets /\ h \in HttpFile /\ h.len \in Nat
  BY <1>1, HttpFields, HttpFileFields
<1>3. next \in HttpFile /\ next.status = status /\ next.start = h.start /\ next.len = h.len /\ next.offset = h.offset
  BY <1>2 DEF HttpFile
<1>4. status \in {"INPROC", "DONE"} /\ (status = "INPROC" => Partial(h))
  BY <1>1, <1>2 DEF HttpCallOK
<1>5. http' = [http EXCEPT ![i] = next]
  BY <1>1, <1>2 DEF HttpTypes
<1> HIDE DEF next, status
<1>6. httpPc' \in [at : HttpPoints, seq : Sockets] /\ httpPc'.at = "run"
  BY <1>1, HttpReturn
<1>7. HttpTypes' /\ http'[i] = next /\ \A j \in Sockets \ {i} : http'[j] = http[j]
  BY <1>1, <1>2, <1>3, <1>5, <1>6 DEF HttpTypes
<1>8. HttpFilesOK'
  BY <1>1, <1>3, <1>4, <1>6, <1>7 DEF HttpFilesOK, Partial
<1>9. HttpCallOK'
  BY <1>6 DEF HttpCallOK
<1> QED BY <1>1, <1>7, <1>8, <1>9 DEF HttpInv, HttpReadOK

\* The next part of a content.
LEMMA HttpSendRestStep == HttpInv /\ SendRest => HttpInv'
<1> SUFFICES ASSUME HttpInv, SendRest PROVE HttpInv'
  OBVIOUS
<1> DEFINE i == httpPc.seq
           h == http[i]
           part == RestPart(h)
           rest == AfterPart(h, part, h.len)
           status == IF rest.len = 0 THEN "DONE" ELSE rest.status
           next == [rest EXCEPT !.status = status]
<1>1. /\ HttpTypes /\ HttpFilesOK /\ HttpCallOK /\ HttpReadOK /\ UNCHANGED web_content
      /\ httpPc.at = "body" /\ Return /\ SendPart(part)
      /\ http' = [http EXCEPT ![i] = [rest EXCEPT !.status = IF rest.len = 0 THEN "DONE" ELSE @]]
  BY DEF HttpInv, SendRest
<1>2. i \in Sockets /\ h \in HttpFile /\ h.status = "INPROC" /\ Partial(h)
  BY <1>1, HttpFields DEF HttpCallOK, HttpFilesOK
<1>3. /\ part.start = h.start /\ part.offset + part.len <= web_content[h.start]
      /\ rest \in HttpFile /\ rest.status = "INPROC"
      /\ rest.len = 0 \/ Partial(rest)
  BY <1>1, <1>2, RestPartFits
<1>4. http' = [http EXCEPT ![i] = next] /\ read' = [num |-> h.start, end |-> part.offset + part.len]
  BY <1>1, <1>3 DEF SendPart
<1>5. status \in {"INPROC", "DONE"} /\ (status = "INPROC" => rest.len # 0)
  BY <1>3
<1> HIDE DEF rest, part, status
<1>6. /\ next \in HttpFile /\ next.status = status /\ next.start = rest.start
      /\ next.len = rest.len /\ next.offset = rest.offset
  BY <1>3, <1>5 DEF HttpFile
<1> HIDE DEF next
<1>7. HttpReadOK'
  BY <1>1, <1>2, <1>3, <1>4 DEF HttpReadOK, Partial
<1>8. httpPc' \in [at : HttpPoints, seq : Sockets] /\ httpPc'.at = "run"
  BY <1>1, HttpReturn
<1>9. HttpTypes' /\ http'[i] = next /\ \A j \in Sockets \ {i} : http'[j] = http[j]
  BY <1>1, <1>2, <1>4, <1>6, <1>8 DEF HttpTypes
<1>10. HttpFilesOK'
  BY <1>1, <1>3, <1>5, <1>6, <1>8, <1>9 DEF HttpFilesOK, Partial
<1>11. HttpCallOK'
  BY <1>8 DEF HttpCallOK
<1> QED BY <1>7, <1>9, <1>10, <1>11 DEF HttpInv

\* The response that was sent whole is forgotten.
LEMMA HttpDoneStep == HttpInv /\ Done => HttpInv'
<1> SUFFICES ASSUME HttpInv, Done PROVE HttpInv'
  OBVIOUS
<1> DEFINE i == httpPc.seq
<1>1. /\ HttpTypes /\ HttpFilesOK /\ HttpCallOK /\ HttpReadOK /\ UNCHANGED <<web_content, read>>
      /\ httpPc.at = "done" /\ Return /\ http' = [http EXCEPT ![i] = NoFile]
  BY DEF HttpInv, Done
<1>2. i \in Sockets
  BY <1>1, HttpFields
<1>3. NoFile \in HttpFile /\ NoFile.status = "IDLE"
  BY DEF NoFile, HttpFile
<1>4. httpPc' \in [at : HttpPoints, seq : Sockets] /\ httpPc'.at = "run"
  BY <1>1, HttpReturn
<1>5. HttpTypes' /\ http'[i] = NoFile /\ \A j \in Sockets \ {i} : http'[j] = http[j]
  BY <1>1, <1>2, <1>3, <1>4 DEF HttpTypes
<1>6. HttpFilesOK'
  BY <1>1, <1>3, <1>4, <1>5 DEF HttpFilesOK, Partial
<1>7. HttpCallOK'
  BY <1>4 DEF HttpCallOK
<1> QED BY <1>1, <1>5, <1>6, <1>7 DEF HttpInv, HttpReadOK

\* The rest of httpServer_run(), the chip, the clients and the timer leave the responses alone.
LEMMA HttpOtherStep ==
  /\ HttpInv
  /\ \/ Disconnect \/ DisconnectEnd \/ OpenSocket \/ Listen
     \/ (\E i \in Sockets : Net(i, NetSteps(sock[i]))) \/ Acknowledged
     \/ httpServer_time_handler \/ UNCHANGED httpVars
  => HttpInv'
<1> SUFFICES ASSUME HttpInv,
                    \/ Disconnect \/ DisconnectEnd \/ OpenSocket \/ Listen
                    \/ (\E i \in Sockets : Net(i, NetSteps(sock[i]))) \/ Acknowledged
                    \/ httpServer_time_handler \/ UNCHANGED httpVars
             PROVE  HttpInv'
  OBVIOUS
<1>1. HttpTypes /\ UNCHANGED <<http, web_content, read>>
  BY DEF HttpInv, Disconnect, DisconnectEnd, OpenSocket, Listen, Net,
         Acknowledged, httpServer_time_handler, httpVars
<1>2. \/ UNCHANGED httpPc
      \/ /\ httpPc.at \in {"discon", "discon_wait", "open", "listen", "listen_sr"}
         /\ Return \/ HttpGoto("discon_wait") \/ HttpGoto("listen_sr")
  BY DEF Disconnect, DisconnectEnd, OpenSocket, Listen, Net,
         Acknowledged, httpServer_time_handler, httpVars
<1>3. CASE UNCHANGED httpPc
  BY <1>1, <1>3, HttpQuietStep DEF HttpTypes
<1>4. CASE Return /\ httpPc.at # "wait"
  BY <1>1, <1>4, HttpReturn, HttpQuietStep
<1>5. CASE (HttpGoto("discon_wait") \/ HttpGoto("listen_sr")) /\ httpPc.at # "wait"
  BY <1>1, <1>5, HttpGotoStep, HttpQuietStep DEF HttpPoints
<1> QED BY <1>2, <1>3, <1>4, <1>5

\* Init establishes the invariant,
LEMMA HttpInitHolds == HttpInit => HttpInv
<1> SUFFICES ASSUME HttpInit PROVE HttpInv
  OBVIOUS
<1>1. NoFile \in HttpFile /\ NoFile.status = "IDLE" /\ 1 \in Sockets
  BY HttpAssumption DEF NoFile, HttpFile, Sockets
<1>2. HttpTypes /\ \A i \in Sockets : http[i] = NoFile
  BY <1>1 DEF HttpInit, HttpTypes, HttpPoints
<1>3. HttpFilesOK /\ HttpCallOK /\ HttpReadOK
  BY <1>1, <1>2 DEF HttpInit, HttpFilesOK, HttpCallOK, HttpReadOK
<1> QED BY <1>2, <1>3 DEF HttpInv

\* and every step preserves it.
LEMMA HttpInductive == HttpInv /\ [HttpNext]_(httpVars) => HttpInv'
BY HttpRegisterStep, HttpStatusStep, HttpRequestStep, HttpHandlerStep, HttpWaitSentStep,
   HttpSendRestStep, HttpDoneStep, HttpOtherStep
DEF HttpNext, httpServer_run

(* For any number of sockets, and contents and parts of any length: no     *)
(* part read of a content goes beyond its end, whichever client meets the  *)
(* position and the status that a response left behind.                    *)
THEOREM PartsWithinContent == HttpSpec => []ReadsWithinContent
<1>1. HttpInit => HttpInv
  BY HttpInitHolds
<1>2. HttpInv /\ [HttpNext]_(httpVars) => HttpInv'
  BY HttpInductive
<1>3. HttpInv => ReadsWithinContent
  BY DEF HttpInv, HttpReadOK, ReadsWithinContent
<1> QED BY <1>1, <1>2, <1>3, PTL DEF HttpSpec
=============================================================================
