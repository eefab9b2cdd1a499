----------------------------- MODULE HttpServer -----------------------------
(***************************************************************************)
(* The web server of Internet/httpServer, in its default build (content in *)
(* code flash): httpServer_run() serves the HTTP sockets in turn, one step *)
(* of a response per call, while the chip and the clients move between any *)
(* two accesses.  A request is its method, its type and the content it     *)
(* names; of a content only the length is kept.                            *)
(***************************************************************************)
EXTENDS Naturals, Sequences, SocketOps

CONSTANTS
  Cnt,           \* the number of sockets given to httpServer_init()
  MaxContents,   \* MAX_CONTENT_CALLBACK
  PartMax,       \* DATA_BUF_SIZE - 1, the longest part of a body sent at once
  Lens           \* the lengths of contents

ASSUME HttpAssumption ==
  /\ Cnt \in Nat \ {0}
  /\ MaxContents \in Nat /\ PartMax \in Nat \ {0} /\ Lens \subseteq Nat

VARIABLES
  sock,          \* the sockets of the chip, by sequence number
  tx,            \* per socket: sent data is not acknowledged yet
  http,          \* HTTPSock_Status[]: sock_status, file_start, file_len, file_offset
  web_content,   \* the lengths of the registered contents
  httpPc,        \* at: the next step of httpServer_run(), seq: its argument
  late,          \* more than 3 ticks have passed in the wait for the TX buffer
  \* observers
  read,          \* the last read of a content: its number and the end of the part
  answered       \* per socket: a request of this connection was answered

httpVars == <<sock, tx, http, web_content, httpPc, late, read, answered>>

\* HTTPSock_Num[]: the socket with sequence number i is called i.
Sockets == 1 .. Cnt
NoFile == [status |-> "IDLE", start |-> 0, len |-> 0, offset |-> 0]

\* httpServer_init()
HttpInit ==
  /\ sock = [s \in Sockets |-> ClosedSocket] /\ tx = [s \in Sockets |-> FALSE]
  /\ http = [i \in Sockets |-> NoFile] /\ web_content = <<>>
  /\ httpPc = [at |-> "run", seq |-> 1] /\ late = FALSE
  /\ read = [num |-> 0, end |-> 0] /\ answered = [s \in Sockets |-> FALSE]

Set(s) == sock' = [sock EXCEPT ![httpPc.seq] = s]
HttpGoto(point) == httpPc' = [httpPc EXCEPT !.at = point]
Return == httpPc' = [at |-> "run", seq |-> (httpPc.seq % Cnt) + 1]

\* The application registers a content, between two calls; beyond the limit it is ignored.
reg_httpServer_webContent ==
  /\ httpPc.at = "run" /\ Len(web_content) < MaxContents
  /\ \E n \in Lens : web_content' = Append(web_content, n)
  /\ UNCHANGED <<sock, tx, http, httpPc, late, read, answered>>

-----------------------------------------------------------------------------
(* The request and the way it is answered.                                 *)

\* parse_http_request(): anything else, and a request without URI, is METHOD_ERR.
Methods == {"GET", "HEAD", "POST", "ERR"}

\* find_http_uri_type(), as far as the answer differs.
Types == {"CGI", "other"}

\* The contents found by name, or none
find_userReg_webContent == DOMAIN web_content

\* The content sent in answer to a request, 0 for an answer that is one send(): a page of the
\* CGI handlers, "400" for an unknown method, "404" for the rest.
Body(method, type, found) == IF method \in {"GET", "HEAD"} /\ type # "CGI" THEN found ELSE 0

-----------------------------------------------------------------------------
(* send_http_response_body(): one part of the content.                     *)

Smaller(a, b) == IF a < b THEN a ELSE b

\* Mutant: every part but the first is sent as a full one.
RestPartTooLong(h) ==
  [len |-> PartMax, start |-> h.start, offset |-> h.offset, last |-> h.len - h.offset <= PartMax]

\* The next part of the content in h.
RestPart(h) ==
  [len |-> Smaller(h.len - h.offset, PartMax), start |-> h.start, offset |-> h.offset,
   last |-> h.len - h.offset <= PartMax]

\* The first part of content num; a content that fits in it leaves file_len 0.
FirstPart(h, num) ==
  [len |-> Smaller(web_content[num], PartMax), start |-> num, offset |-> h.offset,
   last |-> web_content[num] = 0]

\* file_len of a content after its first part
Kept(len) == IF len > PartMax THEN len ELSE 0

\* Mutant: the position is not advanced.
AfterPartStays(h, part, len) ==
  IF part.last THEN [h EXCEPT !.start = 0, !.len = 0, !.offset = 0]
  ELSE [h EXCEPT !.start = IF len = 0 THEN @ ELSE part.start, !.len = len]

\* What is kept after a part; the last one clears it.
AfterPart(h, part, len) ==
  IF part.last THEN [h EXCEPT !.start = 0, !.len = 0, !.offset = 0]
  ELSE [h EXCEPT !.start = IF len = 0 THEN @ ELSE part.start, !.len = len, !.offset = @ + part.len]

\* read_userReg_webContent() and send(), whose result is ignored.
SendPart(part) ==
  /\ read' = [num |-> part.start, end |-> part.offset + part.len]
  /\ tx' = [tx EXCEPT ![httpPc.seq] = @ \/ sock[httpPc.seq].sr \in Connected]

-----------------------------------------------------------------------------
(* httpServer_run(seqnum).                                                 *)

\* The CON interrupt is only cleared here, so it is left out.
ReadStatus ==
  /\ httpPc.at = "run"
  /\ LET s == sock[httpPc.seq]
         step == [IDLE |-> "rsr", INPROC |-> "body", DONE |-> "done"]
     IN CASE s.sr = "ESTABLISHED" -> HttpGoto(step[http[httpPc.seq].status])
          [] s.sr = "CLOSE_WAIT" -> HttpGoto("discon")
          [] s.sr = "CLOSED" -> HttpGoto("open")
          [] s.sr = "INIT" -> HttpGoto("listen")
          [] OTHER -> Return
  /\ UNCHANGED <<sock, tx, http, web_content, late, read, answered>>

ReadSize ==
  /\ httpPc.at = "rsr"
  /\ IF sock[httpPc.seq].rx THEN HttpGoto("recv") ELSE Return
  /\ UNCHANGED <<sock, tx, http, web_content, late, read, answered>>

\* recv(); an error is taken for a length, and what is in the buffer for a request.
Receive ==
  /\ httpPc.at = "recv" /\ HttpGoto("handle")
  /\ \E t \in RecvResults(sock[httpPc.seq]) : Set(t)
  /\ UNCHANGED <<tx, http, web_content, late, read, answered>>

\* http_process_handler(): the header and the first part of the body, or a short answer.
http_process_handler ==
  /\ httpPc.at = "handle" /\ HttpGoto("wait") /\ late' = FALSE
  /\ answered' = [answered EXCEPT ![httpPc.seq] = TRUE]
  /\ \E m \in Methods, t \in Types, found \in find_userReg_webContent \union {0} :
       LET num == Body(m, t, found)
       IN \/ /\ num = 0 /\ tx' = [tx EXCEPT ![httpPc.seq] = @ \/ sock[httpPc.seq].sr \in Connected]
             /\ UNCHANGED <<http, read>>
          \/ /\ num # 0 /\ SendPart(FirstPart(http[httpPc.seq], num))
             /\ http' = [http EXCEPT ![httpPc.seq] =
                           AfterPart(@, FirstPart(@, num), Kept(web_content[num]))]
  /\ UNCHANGED <<sock, web_content>>

\* Mutant: the wait ends only when all is acknowledged.
WaitSentNoTimeout ==
  /\ httpPc.at = "wait" /\ ~tx[httpPc.seq] /\ Return
  /\ http' = [http EXCEPT ![httpPc.seq].status = IF http[httpPc.seq].len > 0 THEN "INPROC" ELSE "DONE"]
  /\ UNCHANGED <<sock, tx, web_content, late, read, answered>>

\* The wait until the TX buffer is empty, at most 3 s.
WaitSent ==
  /\ httpPc.at = "wait" /\ (~tx[httpPc.seq] \/ late) /\ Return
  /\ http' = [http EXCEPT ![httpPc.seq].status = IF http[httpPc.seq].len > 0 THEN "INPROC" ELSE "DONE"]
  /\ UNCHANGED <<sock, tx, web_content, late, read, answered>>

\* STATE_HTTP_RES_INPROC
SendRest ==
  /\ httpPc.at = "body" /\ Return
  /\ LET part == RestPart(http[httpPc.seq])
         next == AfterPart(http[httpPc.seq], part, http[httpPc.seq].len)
     IN /\ SendPart(part)
        /\ http' = [http EXCEPT ![httpPc.seq] = [next EXCEPT !.status = IF next.len = 0 THEN "DONE" ELSE @]]
  /\ UNCHANGED <<sock, web_content, late, answered>>

\* STATE_HTTP_RES_DONE, with http_disconnect(), which does not wait
Done ==
  /\ httpPc.at = "done" /\ Return
  /\ http' = [http EXCEPT ![httpPc.seq] = NoFile]
  /\ Set(Command("DISCON", sock[httpPc.seq]))
  /\ UNCHANGED <<tx, web_content, late, read, answered>>

Disconnect ==
  /\ httpPc.at = "discon" /\ HttpGoto("discon_wait") /\ Set(Command("DISCON", sock[httpPc.seq]))
  /\ UNCHANGED <<tx, http, web_content, late, read, answered>>

DisconnectEnd ==
  /\ httpPc.at = "discon_wait" /\ Return
  /\ \/ sock[httpPc.seq].sr = "CLOSED" /\ UNCHANGED sock
     \/ "TIMEOUT" \in sock[httpPc.seq].ir /\ Set(Close(sock[httpPc.seq]))
  /\ UNCHANGED <<tx, http, web_content, late, read, answered>>

OpenSocket ==
  /\ httpPc.at = "open" /\ Return /\ Set(Reopen(sock[httpPc.seq]))
  /\ tx' = [tx EXCEPT ![httpPc.seq] = FALSE] /\ answered' = [answered EXCEPT ![httpPc.seq] = FALSE]
  /\ UNCHANGED <<http, web_content, late, read>>

Listen ==
  /\ \/ httpPc.at = "listen" /\ HttpGoto("listen_sr") /\ Set(Command("LISTEN", sock[httpPc.seq]))
     \/ httpPc.at = "listen_sr" /\ Return /\ sock[httpPc.seq].sr = "LISTEN" /\ UNCHANGED sock
     \/ httpPc.at = "listen_sr" /\ Return /\ sock[httpPc.seq].sr # "LISTEN" /\ Set(Close(sock[httpPc.seq]))
  /\ UNCHANGED <<tx, http, web_content, late, read, answered>>

httpServer_run ==
  \/ ReadStatus \/ ReadSize \/ Receive \/ http_process_handler \/ WaitSent \/ SendRest \/ Done
  \/ Disconnect \/ DisconnectEnd \/ OpenSocket \/ Listen

-----------------------------------------------------------------------------
(* The chip, the clients and the timer.                                    *)

Net(s, steps) ==
  /\ \E t \in steps : sock' = [sock EXCEPT ![s] = [t EXCEPT !.ir = @ \ {"CON"}]]
  /\ UNCHANGED <<tx, http, web_content, httpPc, late, read, answered>>

Acknowledged ==
  /\ \E s \in Sockets : tx[s] /\ tx' = [tx EXCEPT ![s] = FALSE]
  /\ UNCHANGED <<sock, http, web_content, httpPc, late, read, answered>>

\* httpServer_time_handler(), called every second
httpServer_time_handler ==
  /\ httpPc.at = "wait" /\ ~late /\ late' = TRUE
  /\ UNCHANGED <<sock, tx, http, web_content, httpPc, read, answered>>

HttpNext ==
  \/ httpServer_run \/ reg_httpServer_webContent
  \/ (\E s \in Sockets : Net(s, NetSteps(sock[s]))) \/ Acknowledged \/ httpServer_time_handler

(* The main loop calls httpServer_run() for each socket in turn, the timer *)
(* runs, and the chip's retransmissions are bounded; a client need not     *)
(* acknowledge anything.                                                   *)
HttpSpec ==
  /\ HttpInit /\ [][HttpNext]_httpVars
  /\ WF_httpVars(httpServer_run) /\ WF_httpVars(httpServer_time_handler)
  /\ \A s \in Sockets : WF_httpVars(Net(s, Settles(sock[s])))

-----------------------------------------------------------------------------
HttpPoints == {"run", "rsr", "recv", "handle", "wait", "body", "done", "discon", "discon_wait", "open",
               "listen", "listen_sr"}

HttpTypeOK ==
  /\ sock \in [Sockets -> Socket] /\ tx \in [Sockets -> BOOLEAN]
  /\ http \in [Sockets -> [status : {"IDLE", "INPROC", "DONE"}, start : 0 .. MaxContents,
                           len : Nat, offset : Nat]]
  /\ web_content \in Seq(Lens) /\ Len(web_content) <= MaxContents
  /\ httpPc \in [at : HttpPoints, seq : Sockets] /\ late \in BOOLEAN
  /\ read \in [num : 0 .. MaxContents, end : Nat] /\ answered \in [Sockets -> BOOLEAN]

(* The parts that are read of a content lie within it, also when a client  *)
(* leaves in the middle of a response and the remembered file, position    *)
(* and status are met by the next one, and contents are registered         *)
(* meanwhile.                                                              *)
ReadsWithinContent == read.num # 0 => read.end <= web_content[read.num]

(* A response under way comes to its end, its connection ends, or both:    *)
(* the position moves on with every part.                                  *)
ResponseEnds ==
  \A i \in Sockets :
    (http[i].status = "INPROC") ~> (http[i].status # "INPROC" \/ sock[i].sr # "ESTABLISHED")

(* No client can hold up the others: each socket is served again and       *)
(* again, whether its client acknowledges, closes or does neither.         *)
EverySocketServed == \A i \in Sockets : []<>(httpPc.seq = i /\ httpPc.at = "run")

(* The remaining parts of a response go to the client that asked for it:   *)
(* a body is continued only on a connection whose request was answered.    *)
RestGoesToItsClient ==
  httpPc.at = "body" /\ sock[httpPc.seq].sr = "ESTABLISHED" => answered[httpPc.seq]
=============================================================================
