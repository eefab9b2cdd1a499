-------------------------- MODULE DnsClient_proofs --------------------------
(***************************************************************************)
(* The DNS client for any number of retries, any waiting time and as many  *)
(* calls as there are local ports.                                         *)
(***************************************************************************)
EXTENDS DnsClient, TLAPS

\* A wait is over when the timer says so, and every retry has had its wait.
Spent(n) == n * DNS_WAIT_TIME
TimerInv ==
  pc # "idle" =>
    /\ elapsed = Spent(retry_count) + dns_1s_tick
    /\ dns_1s_tick <= DNS_WAIT_TIME
    /\ checked => dns_1s_tick < DNS_WAIT_TIME

\* The port tells the query: call number k uses port k - 1.
PortInv ==
  /\ DNS_MSGID < NumPorts => sock_any_port = DNS_MSGID
  /\ \A q \in asked : q.port + 1 = q.id
  /\ \A m \in replies : m.port + 1 = m.id
  /\ \A m \in rx : m.id = DNS_MSGID
  /\ open => port + 1 = DNS_MSGID
  /\ ~open => rx = {}
  /\ pc # "idle" => open

\* One more wait takes DNS_WAIT_TIME seconds more.
LEMMA SpentGrows ==
  ASSUME NEW n \in Nat
  PROVE  Spent(n) \in Nat /\ Spent(n + 1) = Spent(n) + DNS_WAIT_TIME /\ Spent(0) = 0
BY ConstantsAssumption DEF Spent

\* The port counter as long as it does not wrap.
LEMMA NextPort ==
  ASSUME NEW x \in Nat, NEW n \in Nat \ {0}
  PROVE  (x + 1) % n \in 0 .. n - 1 /\ (x + 1 < n => (x + 1) % n = x + 1)
OBVIOUS

\* The initial state.
LEMMA InitHolds == Init => TypeOK /\ TimerInv /\ PortInv
<1> SUFFICES ASSUME Init PROVE TypeOK /\ TimerInv /\ PortInv
  OBVIOUS
<1>1. TypeOK
  <2>1. /\ retry_count \in 0 .. MAX_DNS_RETRY /\ DNS_MSGID \in 0 .. MaxQueries
        /\ sock_any_port \in 0 .. NumPorts - 1 /\ port \in 0 .. NumPorts - 1
    BY ConstantsAssumption DEF Init
  <2> QED BY <2>1 DEF Init, TypeOK
<1>2. TimerInv /\ PortInv
  BY DEF Init, TimerInv, PortInv
<1> QED BY <1>1, <1>2

\* Every step keeps the types.
LEMMA TypeStep == TypeOK /\ [Next]_vars => TypeOK'
<1> SUFFICES ASSUME TypeOK, [Next]_vars PROVE TypeOK'
  OBVIOUS
<1> USE ConstantsAssumption DEF TypeOK, sock, net
<1>1. CASE DNS_run
  <2>1. port' \in 0 .. NumPorts - 1 /\ sock_any_port' \in 0 .. NumPorts - 1 /\ rx' = {} /\ open' = TRUE
    BY <1>1, NextPort DEF DNS_run, Socket
  <2>2. DNS_MSGID' \in 0 .. MaxQueries /\ DNS_MSGID' \in Nat
    BY <1>1 DEF DNS_run
  <2>3. asked' \subseteq [port : 0 .. NumPorts - 1, id : Nat]
    BY <1>1, <2>1, <2>2 DEF DNS_run, Transmit
  <2>4. retry_count' \in 0 .. MAX_DNS_RETRY
    BY <1>1 DEF DNS_run
  <2>5. /\ pc' = "poll" /\ ret' = "none" /\ dns_1s_tick' = 0 /\ len' = TRUE /\ checked' = TRUE
        /\ ip_from_dns' = 0 /\ elapsed' = 0 /\ copies' = 1 /\ replies' = replies
    BY <1>1 DEF DNS_run
  <2> QED BY <2>1, <2>2, <2>3, <2>4, <2>5
<1>2. CASE PollSocket
  <2>1. UNCHANGED <<dns_1s_tick, retry_count, DNS_MSGID, sock_any_port, port, asked, replies,
                    checked, elapsed, copies>>
    BY <1>2 DEF PollSocket
  <2>2. /\ pc' \in {"idle", "timer"} /\ ret' \in {"none", "-1", "0", "1"}
        /\ rx' \subseteq Reply /\ len' = FALSE
    BY <1>2 DEF PollSocket, CloseAndReturn, Parsed
  <2>3. ip_from_dns' \in Nat /\ open' \in BOOLEAN
    BY <1>2 DEF PollSocket, CloseAndReturn, Reply
  <2> QED BY <2>1, <2>2, <2>3
<1>3. CASE NotYet
  BY <1>3 DEF NotYet
<1>4. CASE Requery
  <2>1. UNCHANGED <<ret, DNS_MSGID, sock_any_port, port, open, rx, len, ip_from_dns, replies, elapsed>>
    BY <1>4 DEF Requery
  <2>2. /\ pc' = "poll" /\ checked' = TRUE /\ dns_1s_tick' = 0
        /\ retry_count' \in 0 .. MAX_DNS_RETRY /\ copies' \in Nat
    BY <1>4 DEF Requery
  <2>3. [port |-> port, id |-> DNS_MSGID] \in [port : 0 .. NumPorts - 1, id : Nat]
    OBVIOUS
  <2>4. asked' \subseteq [port : 0 .. NumPorts - 1, id : Nat]
    BY <1>4, <2>3 DEF Requery, Transmit
  <2> QED BY <2>1, <2>2, <2>4
<1>5. CASE GiveUp
  <2>1. UNCHANGED <<DNS_MSGID, sock_any_port, port, len, ip_from_dns, asked, replies,
                    checked, elapsed, copies>>
    BY <1>5 DEF GiveUp
  <2>2. /\ pc' = "idle" /\ ret' = "0" /\ dns_1s_tick' = 0 /\ retry_count' = 0
        /\ open' = FALSE /\ rx' = {}
    BY <1>5 DEF GiveUp, CloseAndReturn
  <2>3. retry_count' \in 0 .. MAX_DNS_RETRY
    BY <2>2
  <2> QED BY <2>1, <2>2, <2>3
<1>6. CASE DNS_time_handler
  <2>1. dns_1s_tick' \in Nat /\ elapsed' \in Nat
    BY <1>6 DEF DNS_time_handler
  <2>2. checked' \in BOOLEAN
    BY <1>6 DEF DNS_time_handler
  <2>3. UNCHANGED <<pc, ret, retry_count, DNS_MSGID, sock_any_port, port, open, rx, len, ip_from_dns,
                    asked, replies, copies>>
    BY <1>6 DEF DNS_time_handler
  <2> QED BY <2>1, <2>2, <2>3
<1>7. CASE ServerReplies
  <2>1. replies' \subseteq Reply
    BY <1>7 DEF ServerReplies, Reply
  <2> QED BY <1>7, <2>1 DEF ServerReplies
<1>8. CASE Deliver
  BY <1>8 DEF Deliver
<1>9. CASE UNCHANGED vars
  BY <1>9 DEF vars
<1> QED BY <1>1, <1>2, <1>3, <1>4, <1>5, <1>6, <1>7, <1>8, <1>9 DEF Next, DriverStep

\* Every step keeps the account of the time.
LEMMA TimerStep == TypeOK /\ TypeOK' /\ TimerInv /\ [Next]_vars => TimerInv'
<1> SUFFICES ASSUME TypeOK, TypeOK', TimerInv, [Next]_vars PROVE TimerInv'
  OBVIOUS
<1> USE ConstantsAssumption
<1>0. /\ retry_count \in Nat /\ dns_1s_tick \in Nat /\ elapsed \in Nat /\ Spent(retry_count) \in Nat
      /\ Spent(retry_count + 1) = Spent(retry_count) + DNS_WAIT_TIME /\ Spent(0) = 0
  <2>1. retry_count \in Nat /\ dns_1s_tick \in Nat /\ elapsed \in Nat
    BY DEF TypeOK
  <2> QED BY <2>1, SpentGrows
<1>1. CASE DNS_run
  <2>1. dns_1s_tick' = 0 /\ elapsed' = 0 /\ retry_count' = 0
    BY <1>1 DEF DNS_run
  <2>2. Spent(retry_count)' = 0
    BY <2>1, <1>0 DEF Spent
  <2> QED BY <2>1, <2>2 DEF TimerInv
<1>2. ASSUME UNCHANGED <<elapsed, retry_count, dns_1s_tick, checked>>, pc # "idle" PROVE TimerInv'
  BY <1>2 DEF TimerInv, Spent
<1>3. CASE PollSocket
  BY <1>2, <1>3 DEF PollSocket
<1>4. CASE NotYet
  BY <1>0, <1>4 DEF NotYet, TimerInv, Spent
<1>5. CASE Requery
  <2>1. /\ dns_1s_tick' = 0 /\ retry_count' = retry_count + 1 /\ elapsed' = elapsed
        /\ pc = "timer" /\ dns_1s_tick >= DNS_WAIT_TIME
    BY <1>5 DEF Requery
  <2>2. Spent(retry_count)' = Spent(retry_count + 1)
    BY <2>1 DEF Spent
  <2>3. dns_1s_tick = DNS_WAIT_TIME /\ elapsed = Spent(retry_count) + dns_1s_tick
    BY <1>0, <2>1 DEF TimerInv
  <2> QED BY <1>0, <2>1, <2>2, <2>3 DEF TimerInv
<1>6. CASE GiveUp
  BY <1>6 DEF GiveUp, CloseAndReturn, TimerInv
<1>7. CASE DNS_time_handler
  <2>1. /\ pc # "idle" /\ checked /\ dns_1s_tick' = dns_1s_tick + 1 /\ elapsed' = elapsed + 1
        /\ checked' = FALSE /\ retry_count' = retry_count
    BY <1>7 DEF DNS_time_handler
  <2>2. Spent(retry_count)' = Spent(retry_count)
    BY <2>1 DEF Spent
  <2>3. elapsed = Spent(retry_count) + dns_1s_tick /\ dns_1s_tick < DNS_WAIT_TIME
    BY <2>1 DEF TimerInv
  <2> QED BY <1>0, <2>1, <2>2, <2>3 DEF TimerInv
<1>8. CASE ServerReplies \/ Deliver \/ UNCHANGED vars
  <2>1. UNCHANGED <<pc, elapsed, retry_count, dns_1s_tick, checked>>
    BY <1>8 DEF ServerReplies, Deliver, vars
  <2> QED BY <2>1 DEF TimerInv, Spent
<1> QED BY <1>1, <1>3, <1>4, <1>5, <1>6, <1>7, <1>8 DEF Next, DriverStep

\* Every step keeps ports and queries together, while the ports are not used again.
LEMMA PortStep ==
  ASSUME MaxQueries <= NumPorts, TypeOK, PortInv, AnswerIsOwn, [Next]_vars
  PROVE  PortInv' /\ AnswerIsOwn'
<1> USE ConstantsAssumption
<1>0. DNS_MSGID \in Nat /\ port \in Nat /\ NumPorts \in Nat \ {0} /\ MaxQueries \in Nat
  BY DEF TypeOK
<1>1. CASE DNS_run
  <2>1. DNS_MSGID < NumPorts /\ sock_any_port = DNS_MSGID /\ DNS_MSGID' = DNS_MSGID + 1
    BY <1>0, <1>1 DEF DNS_run, PortInv
  <2>2. port' = DNS_MSGID /\ rx' = {} /\ open' = TRUE
    BY <1>1, <2>1 DEF DNS_run, Socket
  <2>3. sock_any_port' = (DNS_MSGID + 1) % NumPorts
    BY <1>1, <2>1 DEF DNS_run, Socket
  <2>4. DNS_MSGID' < NumPorts => sock_any_port' = DNS_MSGID'
    BY <1>0, <2>1, <2>3, NextPort
  <2>5. \A q \in asked' : q.port + 1 = q.id
    BY <1>1, <2>1, <2>2 DEF DNS_run, Transmit, PortInv
  <2>6. \A m \in replies' : m.port + 1 = m.id
    BY <1>1 DEF DNS_run, PortInv
  <2>7. AnswerIsOwn'
    BY <1>1 DEF DNS_run, AnswerIsOwn
  <2> QED BY <2>1, <2>2, <2>4, <2>5, <2>6, <2>7 DEF PortInv
<1>2. CASE PollSocket
  <2>1. UNCHANGED <<DNS_MSGID, sock_any_port, port, asked, replies>>
    BY <1>2 DEF PollSocket, net
  <2>2. ip_from_dns' \in {ip_from_dns, DNS_MSGID}
    BY <1>2 DEF PollSocket, PortInv
  <2>3. (open' = FALSE /\ rx' = {} /\ pc' = "idle") \/ (UNCHANGED <<open, rx>> /\ pc # "idle")
    BY <1>2 DEF PollSocket, CloseAndReturn
  <2> QED BY <2>1, <2>2, <2>3 DEF PortInv, AnswerIsOwn
<1>3. CASE NotYet
  BY <1>3 DEF NotYet, sock, net, PortInv, AnswerIsOwn
<1>4. CASE Requery
  <2>1. UNCHANGED <<DNS_MSGID, sock_any_port, port, open, rx, replies, ip_from_dns>> /\ pc' = "poll"
    BY <1>4 DEF Requery, sock
  <2>2. asked' = asked \/ (len /\ asked' \in {asked, asked \union {[port |-> port, id |-> DNS_MSGID]}})
    BY <1>4 DEF Requery, Transmit
  <2>3. open
    BY <1>4 DEF Requery, PortInv
  <2>4. \A q \in asked' : q.port + 1 = q.id
    BY <2>2, <2>3 DEF PortInv
  <2> QED BY <2>1, <2>3, <2>4 DEF PortInv, AnswerIsOwn
<1>5. CASE GiveUp
  BY <1>5 DEF GiveUp, CloseAndReturn, net, PortInv, AnswerIsOwn
<1>6. CASE DNS_time_handler
  BY <1>6 DEF DNS_time_handler, sock, net, PortInv, AnswerIsOwn
<1>7. CASE ServerReplies
  <2>1. UNCHANGED <<DNS_MSGID, sock_any_port, port, open, rx, asked, ip_from_dns, pc>>
    BY <1>7 DEF ServerReplies, sock
  <2>2. \A m \in replies' : m.port + 1 = m.id
    BY <1>7 DEF ServerReplies, PortInv
  <2> QED BY <2>1, <2>2 DEF PortInv, AnswerIsOwn
<1>8. CASE Deliver
  <2>1. UNCHANGED <<DNS_MSGID, sock_any_port, port, open, asked, replies, ip_from_dns, pc>> /\ open
    BY <1>8 DEF Deliver, net
  <2>2. \A m \in rx' : m.port = port /\ m.port + 1 = m.id
    BY <1>8 DEF Deliver, PortInv
  <2> QED BY <2>1, <2>2 DEF PortInv, AnswerIsOwn
<1>9. CASE UNCHANGED vars
  BY <1>9 DEF vars, sock, net, PortInv, AnswerIsOwn
<1> QED BY <1>1, <1>2, <1>3, <1>4, <1>5, <1>6, <1>7, <1>8, <1>9 DEF Next, DriverStep

(* The client's variables keep their types; the retry counter never passes *)
(* MAX_DNS_RETRY.                                                          *)
THEOREM TypeCorrect == Spec => []TypeOK
BY InitHolds, TypeStep, PTL DEF Spec

(* For any number of retries and any waiting time, DNS_run() is over after *)
(* one wait for the query and one for each retry.                          *)
THEOREM DeadlineHolds == Spec => []DeadlineKept
<1>1. TypeOK /\ TimerInv => DeadlineKept
  <2> SUFFICES ASSUME TypeOK, TimerInv, pc # "idle"
               PROVE  elapsed <= (MAX_DNS_RETRY + 1) * DNS_WAIT_TIME
    BY DEF DeadlineKept
  <2>1. /\ elapsed = Spent(retry_count) + dns_1s_tick /\ dns_1s_tick <= DNS_WAIT_TIME
        /\ retry_count \in Nat /\ dns_1s_tick \in Nat /\ retry_count <= MAX_DNS_RETRY
    BY ConstantsAssumption DEF TimerInv, TypeOK
  <2>2. \A w \in Nat : retry_count * w <= MAX_DNS_RETRY * w
    BY <2>1, ConstantsAssumption
  <2>3. Spent(retry_count) <= Spent(MAX_DNS_RETRY)
    BY <2>2, ConstantsAssumption DEF Spent
  <2>4. /\ Spent(retry_count) \in Nat /\ Spent(MAX_DNS_RETRY) \in Nat
        /\ Spent(MAX_DNS_RETRY + 1) = Spent(MAX_DNS_RETRY) + DNS_WAIT_TIME
    BY <2>1, ConstantsAssumption, SpentGrows
  <2>5. elapsed <= Spent(MAX_DNS_RETRY + 1)
    BY <2>1, <2>3, <2>4, ConstantsAssumption
  <2> QED BY <2>5 DEF Spent
<1> QED BY <1>1, InitHolds, TypeStep, TimerStep, PTL DEF Spec

(* Until the local ports are used again, the address DNS_run() returns is  *)
(* the answer to its own query, although no ID is compared.                *)
THEOREM AnswersMatch == ASSUME MaxQueries <= NumPorts PROVE Spec => []AnswerIsOwn
<1>1. Init => AnswerIsOwn
  BY DEF Init, AnswerIsOwn
<1>2. TypeOK /\ PortInv /\ AnswerIsOwn /\ [Next]_vars => PortInv' /\ AnswerIsOwn'
  BY PortStep
<1> QED BY <1>1, <1>2, InitHolds, TypeStep, PTL DEF Spec
=============================================================================
