----------------------------- MODULE DnsClient -----------------------------
(***************************************************************************)
(* The DNS client of Internet/DNS/dns.c: DNS_run() opens a UDP socket on a *)
(* fresh local port, sends one query and polls for the reply, a one second *)
(* interrupt counting the time.                                            *)
(*                                                                         *)
(* Neither the message ID nor the sender of a reply is compared with the   *)
(* query: what ties a reply to its query is the local port alone, which    *)
(* socket() takes from a counter that wraps.  Queries and replies may be   *)
(* lost, delayed and duplicated.  A name or an address is the number of    *)
(* the query it belongs to (DNS_MSGID counted from 0).                     *)
(***************************************************************************)
EXTENDS Naturals

CONSTANTS
  MAX_DNS_RETRY, DNS_WAIT_TIME,
  NumPorts,       \* number of ports sock_any_port runs through (0xE000 .. 0xFFEF)
  MaxQueries      \* bound: calls of DNS_run(); no reply is delayed over more of them

ASSUME ConstantsAssumption ==
  /\ MAX_DNS_RETRY \in Nat /\ DNS_WAIT_TIME \in Nat \ {0}
  /\ NumPorts \in Nat \ {0} /\ MaxQueries \in Nat

\* How a reply parses: an address; no error but no address (an empty answer, another
\* record type); an error code; a name longer than MAXCNAME.
Kind == {"address", "empty", "rcode", "toolong"}
Reply == [port : 0 .. NumPorts - 1, id : Nat, kind : Kind]

VARIABLES
  pc, ret,            \* where DNS_run() is; what it returned last
  dns_1s_tick, retry_count,
  DNS_MSGID,
  sock_any_port,      \* the next free local port, less 0xE000
  port, open,         \* the socket
  len,                \* local variable len: TRUE iff it holds the length of the query
  ip_from_dns,        \* the query whose answer the caller's buffer holds; 0: as before the call
  rx,                 \* the reply at the head of the RX buffer, as a set of at most one
  asked, replies,     \* queries that reached the server; replies it sent, which may arrive any time
  checked, elapsed,    \* observed: the timer was checked since the last tick; seconds since the call
  copies              \* observed: how often the query was handed to the chip

sock == <<sock_any_port, port, open, rx>>
net  == <<asked, replies>>
vars == <<pc, ret, dns_1s_tick, retry_count, DNS_MSGID, sock, len, ip_from_dns, net,
          checked, elapsed, copies>>

Init ==
  /\ pc = "idle" /\ ret = "none" /\ dns_1s_tick = 0 /\ retry_count = 0 /\ DNS_MSGID = 0
  /\ sock_any_port = 0 /\ port = 0 /\ open = FALSE /\ len = FALSE /\ ip_from_dns = 0
  /\ rx = {} /\ asked = {} /\ replies = {}
  /\ checked = FALSE /\ elapsed = 0 /\ copies = 0

-----------------------------------------------------------------------------
\* Mutant: the port of the socket is not taken from the counter.
SocketSamePort ==
  /\ port' = port /\ UNCHANGED sock_any_port
  /\ open' = TRUE /\ rx' = {}

\* socket(DNS_SOCKET, Sn_MR_UDP, 0, 0): the next port, an empty buffer.
Socket ==
  /\ port' = sock_any_port /\ sock_any_port' = (sock_any_port + 1) % NumPorts
  /\ open' = TRUE /\ rx' = {}

\* sendto() of a query that then reaches the server or is lost.
Transmit(p, id) == asked' \in {asked, asked \union {[port |-> p, id |-> id]}}

DNS_run ==
  /\ pc = "idle" /\ DNS_MSGID < MaxQueries
  /\ retry_count' = 0 /\ dns_1s_tick' = 0
  /\ Socket
  /\ DNS_MSGID' = DNS_MSGID + 1 /\ len' = TRUE
  /\ Transmit(port', DNS_MSGID')
  /\ copies' = 1 /\ elapsed' = 0 /\ checked' = TRUE
  /\ ip_from_dns' = 0 /\ pc' = "poll" /\ ret' = "none"
  /\ UNCHANGED replies

\* close(DNS_SOCKET), or wizchip_close(): the end of the call.
CloseAndReturn(code) == open' = FALSE /\ rx' = {} /\ pc' = "idle" /\ ret' = code

\* What parseDNSMSG() makes of a message: no error code is a success.
Parsed(m) == IF m.kind = "toolong" THEN "-1" ELSE IF m.kind = "rcode" THEN "0" ELSE "1"

\* Mutant: recvfrom() is called, and waits, with nothing received.
PollSocketWaits ==
  /\ pc = "poll"
  /\ \E m \in rx :
       /\ ip_from_dns' = (IF m.kind = "address" THEN m.id ELSE ip_from_dns)
       /\ CloseAndReturn(Parsed(m))
  /\ len' = FALSE
  /\ UNCHANGED <<dns_1s_tick, retry_count, DNS_MSGID, sock_any_port, port, net, checked, elapsed, copies>>

\* Sn_RX_RSR is read into len; a message is taken and ends the call.
PollSocket ==
  /\ pc = "poll"
  /\ \/ \E m \in rx :
          /\ ip_from_dns' = (IF m.kind = "address" THEN m.id ELSE ip_from_dns)
          /\ CloseAndReturn(Parsed(m))
     \/ rx = {} /\ pc' = "timer" /\ UNCHANGED <<ret, open, rx, ip_from_dns>>
  /\ len' = FALSE
  /\ UNCHANGED <<dns_1s_tick, retry_count, DNS_MSGID, sock_any_port, port, net, checked, elapsed, copies>>

-----------------------------------------------------------------------------
(* check_DNS_timeout(), and what DNS_run() does about its result.          *)

NotYet ==
  /\ pc = "timer" /\ dns_1s_tick < DNS_WAIT_TIME
  /\ pc' = "poll" /\ checked' = TRUE
  /\ UNCHANGED <<ret, dns_1s_tick, retry_count, DNS_MSGID, sock, len, ip_from_dns, net,
                 elapsed, copies>>

\* Mutant: the retries are not counted.
RequeryUncounted ==
  /\ pc = "timer" /\ dns_1s_tick >= DNS_WAIT_TIME /\ retry_count < MAX_DNS_RETRY
  /\ dns_1s_tick' = 0 /\ pc' = "poll" /\ checked' = TRUE
  /\ UNCHANGED <<ret, retry_count, DNS_MSGID, sock, len, ip_from_dns, net, elapsed, copies>>

\* sendto(DNS_SOCKET, pDNSMSG, len, ...): with len = 0 it returns SOCKERR_DATALEN.
Requery ==
  /\ pc = "timer" /\ dns_1s_tick >= DNS_WAIT_TIME /\ retry_count < MAX_DNS_RETRY
  /\ dns_1s_tick' = 0 /\ retry_count' = retry_count + 1 /\ pc' = "poll" /\ checked' = TRUE
  /\ IF len THEN Transmit(port, DNS_MSGID) /\ copies' = copies + 1 ELSE UNCHANGED <<asked, copies>>
  /\ UNCHANGED <<ret, DNS_MSGID, sock, len, ip_from_dns, replies, elapsed>>

GiveUp ==
  /\ pc = "timer" /\ dns_1s_tick >= DNS_WAIT_TIME /\ retry_count >= MAX_DNS_RETRY
  /\ dns_1s_tick' = 0 /\ retry_count' = 0
  /\ CloseAndReturn("0")
  /\ UNCHANGED <<DNS_MSGID, sock_any_port, port, len, ip_from_dns, net, checked, elapsed, copies>>

-----------------------------------------------------------------------------
\* The loop of DNS_run() checks the timer at least once a second.
DNS_time_handler ==
  /\ pc # "idle" /\ checked
  /\ dns_1s_tick' = dns_1s_tick + 1 /\ elapsed' = elapsed + 1 /\ checked' = FALSE
  /\ UNCHANGED <<pc, ret, retry_count, DNS_MSGID, sock, len, ip_from_dns, net, copies>>

ServerReplies ==
  /\ \E q \in asked, k \in Kind :
       replies' = replies \union {[port |-> q.port, id |-> q.id, kind |-> k]}
  /\ UNCHANGED <<pc, ret, dns_1s_tick, retry_count, DNS_MSGID, sock, len, ip_from_dns, asked,
                 checked, elapsed, copies>>

\* A reply reaches the port it was sent to while the socket is open there.
Deliver ==
  /\ open /\ rx = {}
  /\ \E m \in replies : m.port = port /\ rx' = {m}
  /\ UNCHANGED <<pc, ret, dns_1s_tick, retry_count, DNS_MSGID, sock_any_port, port, open, len,
                 ip_from_dns, net, checked, elapsed, copies>>

DriverStep == PollSocket \/ NotYet \/ Requery \/ GiveUp
Next == DNS_run \/ DriverStep \/ DNS_time_handler \/ ServerReplies \/ Deliver

\* The CPU runs the loop and the timer ticks; nothing is assumed of the server.
Spec == Init /\ [][Next]_vars /\ WF_vars(DriverStep) /\ WF_vars(DNS_time_handler)

-----------------------------------------------------------------------------
TypeOK ==
  /\ pc \in {"idle", "poll", "timer"} /\ ret \in {"none", "-1", "0", "1"}
  /\ dns_1s_tick \in Nat /\ retry_count \in 0 .. MAX_DNS_RETRY /\ DNS_MSGID \in 0 .. MaxQueries
  /\ sock_any_port \in 0 .. NumPorts - 1 /\ port \in 0 .. NumPorts - 1
  /\ open \in BOOLEAN /\ len \in BOOLEAN /\ checked \in BOOLEAN
  /\ ip_from_dns \in Nat
  /\ rx \subseteq Reply /\ replies \subseteq Reply
  /\ asked \subseteq [port : 0 .. NumPorts - 1, id : Nat]
  /\ elapsed \in Nat /\ copies \in Nat

(* The address a call returns is the answer to the query of that call,     *)
(* although replies are not compared with it: a late reply to an earlier   *)
(* query, even a duplicate, comes to a port that is not used any more.     *)
(* (Up to NumPorts calls: then the port numbers are used again.)           *)
AnswerIsOwn == ip_from_dns \in {0, DNS_MSGID}

(* DNS_run() blocks for no longer than its first wait and one wait for     *)
(* each retry.                                                             *)
DeadlineKept == pc # "idle" => elapsed <= (MAX_DNS_RETRY + 1) * DNS_WAIT_TIME

(* DNS_run() returns, whatever the server and the network do.              *)
DnsRunReturns == (pc # "idle") ~> (pc = "idle")

-----------------------------------------------------------------------------
(* What dns.h says, and the code does not do.                              *)

(* MAX_DNS_RETRY: "Requery Count": each retry asks the server once more.   *)
RetriesAskAgain == pc # "idle" => copies = retry_count + 1
=============================================================================
