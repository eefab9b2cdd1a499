----------------------------- MODULE FtpServer -----------------------------
(***************************************************************************)
(* The FTP server of Internet/FTPServer/ftpd.c, in its default build       *)
(* (without F_FILESYSTEM): ftpd_run(), called again and again, looks first *)
(* at the control socket and then at the data socket, while the chip and   *)
(* the client move between any two accesses.  A command is its name; of a  *)
(* file only whether all of it was transferred is kept.                    *)
(***************************************************************************)
EXTENDS Naturals, SocketOps

CONSTANT PasvPorts   \* the ports 35000 .. 50000 of passive mode, counted from 0

ASSUME FtpAssumption == PasvPorts \in Nat \ {0}

VARIABLES
  ctrl, data,   \* the sockets CTRL_SOCK and DATA_SOCK
  ftp,          \* state, current_cmd, dsock_mode and dsock_state of struct ftpd
  local_port,   \* the port of the next passive data connection
  remote,       \* remote_ip is set
  greeted,      \* connect_state_control
  pc,           \* the next step of ftpd_run()
  \* observers
  seen,         \* banner: it was sent on this control connection; announced: the port of the
                \*   last 227 reply; bound: the port the data socket was opened with
  whole         \* the last transfer reported as successful was complete

vars == <<ctrl, data, ftp, local_port, remote, greeted, pc, seen, whole>>
state == <<ftp, local_port, remote>>

\* What ftpd_run() does first, and second, for each status of its two sockets.
CtrlCase == [ESTABLISHED |-> "greet", CLOSE_WAIT |-> "ctrl_discon", CLOSED |-> "ctrl_open", INIT |-> "ctrl_listen"]
DataCase == [ESTABLISHED |-> "transfer", CLOSE_WAIT |-> "data_discon", CLOSED |-> "data_open", INIT |-> "data_init"]

\* ftpd_init()
Init ==
  /\ ctrl = Reopen(ClosedSocket) /\ data = ClosedSocket
  /\ ftp = [state |-> "NOT_LOGIN", cmd |-> "NO", mode |-> "ACTIVE", dsock |-> "IDLE"]
  /\ local_port = 0 /\ remote = FALSE /\ greeted = FALSE
  /\ pc = "run"
  /\ seen = [banner |-> FALSE, announced |-> 0, bound |-> 0] /\ whole = TRUE

Goto(point) == pc' = point

\* send() whose result is ignored: a pending TIMEOUT makes it close the socket.
Send(s) == {s} \union When("TIMEOUT" \in s.ir, {Close(s)})

-----------------------------------------------------------------------------
(* The control socket.                                                     *)

ReadCtrlStatus ==
  /\ pc = "run"
  /\ Goto(IF ctrl.sr \in DOMAIN CtrlCase THEN CtrlCase[ctrl.sr] ELSE "data")
  /\ UNCHANGED <<ctrl, data, state, greeted, seen, whole>>

\* The banner, once per connection; a failing send() closes and ends the round.
Greet ==
  /\ pc = "greet"
  /\ \/ greeted /\ Goto("rsr") /\ UNCHANGED <<ctrl, greeted, seen>>
     \/ /\ ~greeted /\ ctrl.sr \in Connected
        /\ Goto("rsr") /\ greeted' = TRUE /\ seen' = [seen EXCEPT !.banner = TRUE] /\ UNCHANGED ctrl
     \/ /\ ~greeted /\ (ctrl.sr \notin Connected \/ "TIMEOUT" \in ctrl.ir)
        /\ Goto("run") /\ ctrl' = Close(ctrl) /\ UNCHANGED <<greeted, seen>>
  /\ UNCHANGED <<data, state, whole>>

ReadCommand ==
  /\ \/ pc = "rsr" /\ Goto(IF ctrl.rx THEN "recv" ELSE "data") /\ UNCHANGED ctrl
     \/ /\ pc = "recv" /\ \E t \in RecvResults(ctrl) : ctrl' = t
        /\ Goto(IF ctrl.sr \in Connected THEN "proc" ELSE "run")
  /\ UNCHANGED <<data, state, greeted, seen, whole>>

\* disconnect(), in blocking mode: the command, then the wait for CLOSED or TIMEOUT.
CtrlDisconnect ==
  /\ \/ pc = "ctrl_discon" /\ Goto("ctrl_wait") /\ ctrl' = Command("DISCON", ctrl)
     \/ pc \in {"ctrl_wait", "quit_wait"} /\ ctrl.sr = "CLOSED" /\ Goto("data") /\ UNCHANGED ctrl
     \/ /\ pc \in {"ctrl_wait", "quit_wait"} /\ "TIMEOUT" \in ctrl.ir
        /\ Goto(IF pc = "ctrl_wait" THEN "run" ELSE "data") /\ ctrl' = Close(ctrl)
  /\ UNCHANGED <<data, state, greeted, seen, whole>>

CtrlOpen ==
  /\ pc = "ctrl_open" /\ Goto("data") /\ ctrl' = Reopen(ctrl)
  /\ UNCHANGED <<data, state, greeted, seen, whole>>

\* Mutant: the flag of the last connection stays set.
CtrlListenKeepsFlag ==
  /\ \/ pc = "ctrl_listen" /\ ctrl.sr = "INIT" /\ ctrl' = Command("LISTEN", ctrl) /\ Goto("ctrl_listening")
     \/ pc = "ctrl_listening" /\ ctrl.sr = "LISTEN" /\ Goto("data") /\ UNCHANGED ctrl
     \/ pc = "ctrl_listening" /\ ctrl.sr # "LISTEN" /\ Goto("run") /\ ctrl' = Close(ctrl)
  /\ UNCHANGED <<data, state, greeted, seen, whole>>

\* listen() and the look at the status after it; only its success resets connect_state_control.
CtrlListen ==
  /\ \/ /\ pc = "ctrl_listen" /\ ctrl.sr = "INIT" /\ ctrl' = Command("LISTEN", ctrl)
        /\ Goto("ctrl_listening") /\ UNCHANGED greeted
     \/ pc = "ctrl_listening" /\ ctrl.sr = "LISTEN" /\ Goto("data") /\ greeted' = FALSE /\ UNCHANGED ctrl
     \/ pc = "ctrl_listening" /\ ctrl.sr # "LISTEN" /\ Goto("run") /\ ctrl' = Close(ctrl) /\ UNCHANGED greeted
  /\ UNCHANGED <<data, state, seen, whole>>

-----------------------------------------------------------------------------
(* proc_ftpd(): the commands.                                              *)

\* Other commands, and any but USER, PASS and QUIT before the login, are only answered.
Answered ==
  /\ pc = "proc" /\ Goto("data") /\ ctrl' \in Send(ctrl)
  /\ UNCHANGED <<data, state, greeted, seen, whole>>

\* USER: the only reply whose failure closes the connection.
UserCmd ==
  /\ pc = "proc" /\ Goto("data")
  /\ \/ ctrl.sr \in Connected /\ UNCHANGED ctrl
     \/ (ctrl.sr \notin Connected \/ "TIMEOUT" \in ctrl.ir) /\ ctrl' = Close(ctrl)
  /\ UNCHANGED <<data, state, greeted, seen, whole>>

\* PASS: any password logs in.
ftplogin ==
  /\ pc = "proc" /\ Goto("data") /\ ctrl' \in Send(ctrl)
  /\ ftp' = [ftp EXCEPT !.state = "LOGIN"]
  /\ UNCHANGED <<data, local_port, remote, greeted, seen, whole>>

QuitCmd ==
  /\ pc = "proc" /\ Goto("quit_wait")
  /\ \E t \in Send(ctrl) : ctrl' = Command("DISCON", t)
  /\ UNCHANGED <<data, state, greeted, seen, whole>>

\* RETR, LIST and MLSD only note the command ...
TransferCmd ==
  /\ pc = "proc" /\ ftp.state = "LOGIN" /\ Goto("data") /\ ctrl' \in Send(ctrl)
  /\ ftp' = [ftp EXCEPT !.cmd = "SEND"]
  /\ UNCHANGED <<data, local_port, remote, greeted, seen, whole>>

\* ... STOR and APPE also connect a socket that is open, to the address of the last PORT.
StorCmd ==
  /\ pc = "proc" /\ ftp.state = "LOGIN" /\ ctrl' \in Send(ctrl)
  /\ ftp' = [ftp EXCEPT !.cmd = "STOR"]
  /\ \/ data.sr = "INIT" /\ remote /\ data' = Command("CONNECT", data) /\ Goto("stor_connect")
     \/ ~(data.sr = "INIT" /\ remote) /\ Goto("data") /\ UNCHANGED data
  /\ UNCHANGED <<local_port, remote, greeted, seen, whole>>

\* PORT with an address; a malformed one is answered.
pport ==
  /\ pc = "proc" /\ ftp.state = "LOGIN" /\ Goto("data") /\ ctrl' \in Send(ctrl)
  /\ ftp' = [ftp EXCEPT !.mode = "ACTIVE", !.dsock = "READY"] /\ remote' = TRUE
  /\ UNCHANGED <<data, local_port, greeted, seen, whole>>

\* Mutant: an open data socket is kept.
PasvCmdKeepsSocket ==
  /\ pc = "proc" /\ ftp.state = "LOGIN" /\ Goto("data") /\ ctrl' \in Send(ctrl)
  /\ seen' = [seen EXCEPT !.announced = local_port]
  /\ ftp' = [ftp EXCEPT !.mode = "PASSIVE", !.dsock = "READY"]
  /\ UNCHANGED <<data, local_port, remote, greeted, whole>>

\* PASV: the port is announced, then the data connection closed ...
PasvCmd ==
  /\ pc = "proc" /\ ftp.state = "LOGIN" /\ Goto("pasv_wait") /\ ctrl' \in Send(ctrl)
  /\ seen' = [seen EXCEPT !.announced = local_port]
  /\ data' = Command("DISCON", data)
  /\ UNCHANGED <<state, greeted, whole>>

\* ... and passive mode entered.
PasvEnd ==
  /\ pc = "pasv_wait" /\ Goto("data")
  /\ \/ data.sr = "CLOSED" /\ UNCHANGED data
     \/ "TIMEOUT" \in data.ir /\ data' = Close(data)
  /\ ftp' = [ftp EXCEPT !.mode = "PASSIVE", !.dsock = "READY"]
  /\ UNCHANGED <<ctrl, local_port, remote, greeted, seen, whole>>

proc_ftpd ==
  Answered \/ UserCmd \/ ftplogin \/ QuitCmd \/ TransferCmd \/ StorCmd \/ pport \/ PasvCmd

-----------------------------------------------------------------------------
(* The data socket.                                                        *)

ReadDataStatus ==
  /\ pc = "data"
  /\ Goto(IF data.sr \in DOMAIN DataCase THEN DataCase[data.sr] ELSE "run")
  /\ UNCHANGED <<ctrl, data, state, greeted, seen, whole>>

Transfer ==
  /\ pc = "transfer"
  /\ Goto(CASE ftp.cmd = "NO" -> "run" [] ftp.cmd = "SEND" -> "send" [] ftp.cmd = "STOR" -> "stor")
  /\ UNCHANGED <<ctrl, data, state, greeted, seen, whole>>

\* LIST, MLSD, RETR: the result of send() is ignored.
SendFile ==
  /\ pc = "send" /\ Goto("finish") /\ data' \in Send(data)
  /\ whole' = (data.sr \in Connected)
  /\ UNCHANGED <<ctrl, state, greeted, seen>>

\* STOR: while data waits, it is received; a failing recv() does not end the inner loop
\* (remain_datasize -= ret makes it grow), until the difference happens to become 0.
StorLoop ==
  /\ \/ pc = "stor" /\ Goto(IF data.rx THEN "stor_recv" ELSE "stor_sr") /\ UNCHANGED data
     \/ /\ pc = "stor_recv" /\ \E t \in RecvResults(data) : data' = t
        /\ pc' \in {"stor"} \union When(data.sr \notin Connected, {pc})
  /\ UNCHANGED <<ctrl, state, greeted, seen, whole>>

\* Nothing waits: a connection that is no longer ESTABLISHED ends the transfer.
StorStatus ==
  /\ pc = "stor_sr"
  /\ \/ data.sr = "ESTABLISHED" /\ Goto("stor") /\ UNCHANGED whole
     \/ /\ data.sr # "ESTABLISHED" /\ Goto("finish")
        /\ whole' = (data.sr = "CLOSE_WAIT" /\ ~data.rx)
  /\ UNCHANGED <<ctrl, data, state, greeted, seen>>

\* The command is forgotten, the data connection closed, and 226 sent.
Finish ==
  /\ pc = "finish" /\ Goto("finish_wait")
  /\ ftp' = [ftp EXCEPT !.cmd = "NO"] /\ data' = Command("DISCON", data)
  /\ UNCHANGED <<ctrl, local_port, remote, greeted, seen, whole>>

FinishEnd ==
  /\ pc = "finish_wait" /\ Goto("reply226")
  /\ \/ data.sr = "CLOSED" /\ UNCHANGED data
     \/ "TIMEOUT" \in data.ir /\ data' = Close(data)
  /\ UNCHANGED <<ctrl, state, greeted, seen, whole>>

Reply226 ==
  /\ pc = "reply226" /\ Goto("run") /\ ctrl' \in Send(ctrl)
  /\ UNCHANGED <<data, state, greeted, seen, whole>>

DataDisconnect ==
  /\ \/ pc = "data_discon" /\ Goto("data_wait") /\ data' = Command("DISCON", data)
     \/ pc = "data_wait" /\ data.sr = "CLOSED" /\ Goto("run") /\ UNCHANGED data
     \/ pc = "data_wait" /\ "TIMEOUT" \in data.ir /\ Goto("run") /\ data' = Close(data)
  /\ UNCHANGED <<ctrl, state, greeted, seen, whole>>

\* The next passive port, after 50000 the first again
NextPort == (local_port + 1) % PasvPorts

DataOpen ==
  /\ pc = "data_open" /\ Goto("run")
  /\ \/ ftp.dsock # "READY" /\ UNCHANGED <<data, state, seen>>
     \/ /\ ftp.dsock = "READY" /\ data' = Reopen(data)
        /\ ftp' = [ftp EXCEPT !.dsock = "START"]
        /\ \/ ftp.mode = "PASSIVE" /\ local_port' = NextPort /\ seen' = [seen EXCEPT !.bound = local_port]
           \/ ftp.mode = "ACTIVE" /\ UNCHANGED <<local_port, seen>>
        /\ UNCHANGED remote
  /\ UNCHANGED <<ctrl, greeted, whole>>

\* An open data socket: listen() in passive mode, connect() in active mode.
DataInit ==
  /\ pc = "data_init"
  /\ \/ ftp.mode = "PASSIVE" /\ Goto("data_listening") /\ data' = Command("LISTEN", data)
     \/ ftp.mode = "ACTIVE" /\ remote /\ Goto("data_connect") /\ data' = Command("CONNECT", data)
     \/ ftp.mode = "ACTIVE" /\ ~remote /\ Goto("run") /\ UNCHANGED data
  /\ UNCHANGED <<ctrl, state, greeted, seen, whole>>

DataListen ==
  /\ pc = "data_listening" /\ Goto("run")
  /\ \/ data.sr = "LISTEN" /\ UNCHANGED data
     \/ data.sr # "LISTEN" /\ data' = Close(data)
  /\ UNCHANGED <<ctrl, state, greeted, seen, whole>>

\* Mutant: a refused connection does not end the wait.
DataConnectRefused ==
  /\ pc \in {"data_connect", "stor_connect"}
  /\ Goto(IF pc = "data_connect" THEN "run" ELSE "data")
  /\ \/ data.sr = "ESTABLISHED" /\ UNCHANGED data
     \/ data.sr # "ESTABLISHED" /\ "TIMEOUT" \in data.ir /\ data' = [data EXCEPT !.ir = @ \ {"TIMEOUT"}]
  /\ UNCHANGED <<ctrl, state, greeted, seen, whole>>

\* The wait of connect(), from the data switch or from STOR.
DataConnect ==
  /\ pc \in {"data_connect", "stor_connect"}
  /\ Goto(IF pc = "data_connect" THEN "run" ELSE "data")
  /\ \/ data.sr \in {"ESTABLISHED", "CLOSED"} /\ UNCHANGED data
     \/ data.sr # "ESTABLISHED" /\ "TIMEOUT" \in data.ir /\ data' = [data EXCEPT !.ir = @ \ {"TIMEOUT"}]
  /\ UNCHANGED <<ctrl, state, greeted, seen, whole>>

ftpd_run ==
  \/ ReadCtrlStatus \/ Greet \/ ReadCommand \/ CtrlDisconnect \/ CtrlOpen \/ CtrlListen
  \/ proc_ftpd \/ PasvEnd
  \/ ReadDataStatus \/ Transfer \/ SendFile \/ StorLoop \/ StorStatus \/ Finish \/ FinishEnd \/ Reply226
  \/ DataDisconnect \/ DataOpen \/ DataInit \/ DataListen \/ DataConnect

-----------------------------------------------------------------------------
(* The chip and the client; the CON interrupt is never looked at.          *)

Quiet(s) == [s EXCEPT !.ir = @ \ {"CON"}]

CtrlNet(steps) ==
  /\ \E t \in steps :
       /\ ctrl' = Quiet(t)
       /\ seen' = [seen EXCEPT !.banner = @ /\ ctrl.sr # "SYNRECV"]
  /\ UNCHANGED <<data, state, greeted, pc, whole>>

DataNet(steps) ==
  /\ \E t \in steps : data' = Quiet(t)
  /\ UNCHANGED <<ctrl, state, greeted, pc, seen, whole>>

Network == CtrlNet(NetSteps(ctrl)) \/ DataNet(NetSteps(data))

Next == ftpd_run \/ Network

(* ftpd_run() is called again and again, and the chip's retransmissions    *)
(* are bounded; nothing is assumed of the client.                          *)
Spec ==
  /\ Init /\ [][Next]_vars
  /\ WF_vars(ftpd_run) /\ WF_vars(CtrlNet(Settles(ctrl))) /\ WF_vars(DataNet(Settles(data)))

-----------------------------------------------------------------------------
Points == {"run", "greet", "rsr", "recv", "proc", "ctrl_discon", "ctrl_wait", "quit_wait", "ctrl_open",
           "ctrl_listen", "ctrl_listening", "pasv_wait", "stor_connect",
           "data", "transfer", "send", "stor", "stor_recv", "stor_sr", "finish", "finish_wait", "reply226",
           "data_discon", "data_wait", "data_open", "data_init", "data_listening", "data_connect"}

TypeOK ==
  /\ ctrl \in Socket /\ data \in Socket
  /\ ftp \in [state : {"NOT_LOGIN", "LOGIN"}, cmd : {"NO", "SEND", "STOR"},
              mode : {"ACTIVE", "PASSIVE"}, dsock : {"IDLE", "READY", "START"}]
  /\ local_port \in 0 .. PasvPorts - 1
  /\ remote \in BOOLEAN /\ greeted \in BOOLEAN /\ whole \in BOOLEAN
  /\ pc \in Points
  /\ seen \in [banner : BOOLEAN, announced : 0 .. PasvPorts - 1, bound : 0 .. PasvPorts - 1]

(* A data socket that listens does so on the port of the last 227 reply,   *)
(* over repeated PASV and PORT commands, unused and aborted data           *)
(* connections and the wrap of local_port: the announcement comes before   *)
(* the socket is opened, and the port is counted on afterwards.            *)
PassivePortAnnounced ==
  data.sr \in {"LISTEN", "SYNRECV"} => seen.bound = seen.announced

(* No command of a control connection is executed before the banner was    *)
(* sent on that very connection, whatever became of earlier ones.          *)
BannerFirst == pc = "proc" /\ ctrl.sr \in Connected => seen.banner

\* The client holds up ftpd_run(): an upload without data or end, a failing recv() in its loop,
\* or a connect() that missed ESTABLISHED.
HeldUp ==
  \/ pc \in {"stor", "stor_recv", "stor_sr"}
  \/ pc \in {"data_connect", "stor_connect"} /\ data.sr = "CLOSE_WAIT"

(* A control socket that is closed, by the client, an error or QUIT, is    *)
(* opened again, unless the data connection holds up the server.           *)
ControlReopens == (ctrl.sr = "CLOSED") ~> (ctrl.sr # "CLOSED" \/ HeldUp)

(* "226 Successfully transferred" is sent only for a complete transfer.    *)
SuccessMeansWhole == pc = "reply226" => whole
=============================================================================
