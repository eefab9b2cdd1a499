-------------------------- MODULE DhcpClient_proofs --------------------------
(***************************************************************************)
(* Safety of the DHCP client for any servers, addresses, lease times and   *)
(* retry parameters.                                                       *)
(***************************************************************************)
EXTENDS DhcpClient, TLAPS

\* The wait after a DECLINE happens in REQUEST, before the state is left.
DeclineInRequest == declined # -1 => dhcp_state = "REQUEST"

\* The address a REQUEST asks for comes from an OFFER.
RequestedOffered == dhcp_state = "REQUEST" => allocated \in Addresses

\* Once DHCP_run() has been called in LEASED, renewal is not due.
LeasedTimer ==
  dhcp_state = "LEASED" /\ dhcp_lease_time # Infinite =>
    /\ dhcp_tick_1s <= dhcp_lease_time \div 2 + 1
    /\ ran => dhcp_tick_1s <= dhcp_lease_time \div 2

\* How much time the retries counted so far can have taken.
Spent(n) == n * (DHCP_WAIT_TIME + 1)

RerequestTimer ==
  dhcp_state = "REREQUEST" =>
    /\ elapsed <= Spent(dhcp_retry_count) + dhcp_tick_1s
    /\ dhcp_tick_1s <= DHCP_WAIT_TIME + 1
    /\ ran => dhcp_tick_1s <= DHCP_WAIT_TIME
    /\ dhcp_retry_count = MAX_DHCP_RETRY => dhcp_tick_1s <= 1 /\ (ran => dhcp_tick_1s = 0)

AddressInv == TypeOK /\ DeclineInRequest /\ RequestedOffered /\ LeasedAddressInUse /\ LeaseFromOfferer
TimerInv == LeasedTimer /\ RerequestTimer
IInv == AddressInv /\ TimerInv

\* The fields of a message, as far as its type promises them.
LEMMA ReplyFields ==
  \A m \in Reply :
    /\ m.type \in {"none", "OFFER", "ACK", "NAK"}
    /\ m.type # "none" => m.from \in Servers
    /\ m.type \in {"OFFER", "ACK"} => m.yiaddr \in Addresses
    /\ m.lease # -1 => m.lease \in LeaseTimes \union {Infinite}
BY DEF Reply, NoReply

\* Parsing keeps types, and a server once set is not replaced.
LEMMA Parsing ==
  ASSUME TypeOK, NEW m \in Reply
  PROVE  /\ ParsedSip(m) \in Servers \union {Zero}
         /\ sip # Zero => ParsedSip(m) = sip
         /\ TypeOf(m) # "none" => ParsedSip(m) = m.from /\ m.from \in Servers
         /\ TypeOf(m) \in {"OFFER", "ACK"} => m.yiaddr \in Addresses
         /\ ParseLease(m) => dhcp_lease_time' \in LeaseTimes \union {Infinite}
BY ReplyFields DEF ParsedSip, TypeOf, Accepted, ParseLease, TypeOK

\* The timer after check_DHCP_timeout(): in every case of it.
LEMMA TimeoutStep ==
  ASSUME TypeOK, NEW m \in Reply, check_DHCP_timeout(m),
         dhcp_state \in {"DISCOVER", "REQUEST", "REREQUEST"}
  PROVE  /\ dhcp_retry_count' \in 0 .. MAX_DHCP_RETRY
         /\ dhcp_tick_1s' \in Nat /\ dhcp_tick_next' = DHCP_WAIT_TIME
         /\ elapsed' \in Nat /\ waited' \in Nat
         /\ ret' \in {"DHCP_RUNNING", "DHCP_FAILED"}
         /\ sip' \in {Zero, ParsedSip(m)}
         /\ \/ dhcp_state' = dhcp_state /\ (dhcp_state # "DISCOVER" => sip' = ParsedSip(m))
            \/ dhcp_state' \in {"INIT", "DISCOVER"}
<1> USE ConstantsAssumption DEF TypeOK
<1>1. CASE Resend(m)
  BY <1>1 DEF Resend, SendDiscover, SendToServer, Stay
<1>2. CASE Wait(m)
  BY <1>2 DEF Wait, SendNothing, Stay, timer
<1>3. CASE GiveUp(m)
  BY <1>3 DEF GiveUp, Enter, SendNothing, SendDiscover, reset_DHCP_timeout
<1> QED BY <1>1, <1>2, <1>3 DEF check_DHCP_timeout

\* The initial state satisfies the inductive invariant.
LEMMA InitHolds == Init => IInv
<1> SUFFICES ASSUME Init PROVE IInv
  OBVIOUS
<1>1. dhcp_retry_count \in 0 .. MAX_DHCP_RETRY
  BY ConstantsAssumption DEF Init
<1>2. TypeOK
  BY <1>1, ConstantsAssumption DEF Init, TypeOK, State
<1>3. DeclineInRequest /\ RequestedOffered /\ LeasedAddressInUse /\ LeaseFromOfferer
  BY DEF Init, DeclineInRequest, RequestedOffered, LeasedAddressInUse, LeaseFromOfferer
<1>4. TimerInv
  BY DEF Init, TimerInv, LeasedTimer, RerequestTimer
<1> QED BY <1>2, <1>3, <1>4 DEF IInv, AddressInv

\* DHCP_run() keeps the address part, state by state.
LEMMA RunAddress == AddressInv /\ DHCP_run => AddressInv'
<1> SUFFICES ASSUME AddressInv, DHCP_run PROVE AddressInv'
  OBVIOUS
<1> USE ConstantsAssumption
<1>0. TypeOK /\ declined = -1 /\ ran' = TRUE
  BY DEF AddressInv, DHCP_run
<1>1. CASE RunStopped
  BY <1>0, <1>1 DEF RunStopped, AddressInv, TypeOK, DeclineInRequest, RequestedOffered,
                    LeasedAddressInUse, LeaseFromOfferer, timer
<1>2. ASSUME NEW m \in Reply, ParseLease(m), RunInit(m) PROVE AddressInv'
  <2>1. dhcp_lease_time' \in LeaseTimes \union {Infinite}
    BY <1>0, <1>2, Parsing
  <2> QED BY <1>0, <1>2, <2>1
          DEF RunInit, Enter, SendDiscover, AddressInv, TypeOK, State, DeclineInRequest,
              RequestedOffered, LeasedAddressInUse, LeaseFromOfferer, timer
<1>3. ASSUME NEW m \in Reply, ParseLease(m), RunDiscover(m) PROVE AddressInv'
  <2>1. /\ dhcp_lease_time' \in LeaseTimes \union {Infinite}
        /\ ParsedSip(m) \in Servers \union {Zero}
    BY <1>0, <1>3, Parsing
  <2>2. UNCHANGED <<old, declined, sipr, acked>> /\ dhcp_state = "DISCOVER"
    BY <1>3 DEF RunDiscover
  <2>3. CASE TypeOf(m) = "OFFER"
    <3>1. m.yiaddr \in Addresses /\ m.from \in Servers /\ ParsedSip(m) = m.from
      BY <1>0, <2>3, Parsing
    <3> QED BY <1>0, <1>3, <2>1, <2>2, <2>3, <3>1
            DEF RunDiscover, SendToServer, Enter, AddressInv, TypeOK, State, DeclineInRequest,
                RequestedOffered, LeasedAddressInUse, LeaseFromOfferer, timer
  <2>4. CASE TypeOf(m) # "OFFER"
    <3>1. check_DHCP_timeout(m) /\ UNCHANGED <<allocated, offerer>>
      BY <1>3, <2>4 DEF RunDiscover
    <3> QED BY <1>0, <2>1, <2>2, <3>1, TimeoutStep
            DEF AddressInv, TypeOK, State, DeclineInRequest, RequestedOffered,
                LeasedAddressInUse, LeaseFromOfferer
  <2> QED BY <2>3, <2>4
<1>4. ASSUME NEW m \in Reply, ParseLease(m), RunRequest(m) PROVE AddressInv'
  <2>1. /\ dhcp_lease_time' \in LeaseTimes \union {Infinite}
        /\ sip # Zero /\ ParsedSip(m) = sip /\ dhcp_state = "REQUEST" /\ allocated \in Addresses
    BY <1>0, <1>4, Parsing DEF RunRequest, AddressInv, LeaseFromOfferer, RequestedOffered
  <2>2. UNCHANGED <<allocated, old, offerer>>
    BY <1>4 DEF RunRequest
  <2>3. CASE RequestAck(m)
    <3>1. m.yiaddr \in Addresses
      BY <1>0, <2>3, Parsing DEF RequestAck
    <3> QED BY <1>0, <2>1, <2>2, <2>3, <3>1
            DEF RequestAck, SendNothing, SendToServer, Enter, Stay, reset_DHCP_timeout, timer,
                AddressInv, TypeOK, State, DeclineInRequest, RequestedOffered,
                LeasedAddressInUse, LeaseFromOfferer
  <2>4. CASE Refused(m) /\ ret' = "DHCP_RUNNING" /\ UNCHANGED <<sipr, acked, declined>>
    BY <1>0, <2>1, <2>2, <2>4
       DEF Refused, SendNothing, Enter, reset_DHCP_timeout, AddressInv, TypeOK, State,
           DeclineInRequest, RequestedOffered, LeasedAddressInUse, LeaseFromOfferer
  <2>5. CASE check_DHCP_timeout(m) /\ UNCHANGED <<sipr, acked, declined>>
    BY <1>0, <2>1, <2>2, <2>5, TimeoutStep
       DEF AddressInv, TypeOK, State, DeclineInRequest, RequestedOffered,
           LeasedAddressInUse, LeaseFromOfferer
  <2> QED BY <1>4, <2>3, <2>4, <2>5 DEF RunRequest
<1>5. ASSUME NEW m \in Reply, ParseLease(m), RunLeased(m) PROVE AddressInv'
  <2>1. /\ dhcp_lease_time' \in LeaseTimes \union {Infinite}
        /\ sip # Zero /\ ParsedSip(m) = sip /\ dhcp_state = "LEASED"
    BY <1>0, <1>5, Parsing DEF RunLeased, AddressInv, LeaseFromOfferer
  <2> QED BY <1>0, <1>5, <2>1
          DEF RunLeased, SendNothing, SendToServer, Enter, Stay, reset_DHCP_timeout, timer,
              AddressInv, TypeOK, State, DeclineInRequest, RequestedOffered,
              LeasedAddressInUse, LeaseFromOfferer
<1>6. ASSUME NEW m \in Reply, ParseLease(m), RunRerequest(m) PROVE AddressInv'
  <2>1. /\ dhcp_lease_time' \in LeaseTimes \union {Infinite}
        /\ sip # Zero /\ ParsedSip(m) = sip /\ dhcp_state = "REREQUEST"
    BY <1>0, <1>6, Parsing DEF RunRerequest, AddressInv, LeaseFromOfferer
  <2>2. UNCHANGED <<allocated, old, declined, offerer>>
    BY <1>6 DEF RunRerequest
  <2>3. CASE TypeOf(m) = "ACK"
    <3>1. /\ acked' \in Addresses /\ sipr' \in {allocated, sipr} /\ sip' = sip
          /\ ret' \in {"DHCP_IP_CHANGED", "DHCP_IP_LEASED"}
          /\ reset_DHCP_timeout /\ Enter("LEASED") /\ UNCHANGED waited
      BY <1>0, <1>6, <2>1, <2>3, Parsing DEF RunRerequest, Refused, SendNothing
    <3> QED BY <1>0, <2>1, <2>2, <3>1
            DEF Enter, reset_DHCP_timeout, AddressInv, TypeOK, State, DeclineInRequest,
                RequestedOffered, LeasedAddressInUse, LeaseFromOfferer
  <2>4. CASE Refused(m) /\ ret' = "DHCP_IP_LEASED" /\ UNCHANGED <<sipr, acked>>
    BY <1>0, <2>1, <2>2, <2>4
       DEF Refused, SendNothing, Enter, reset_DHCP_timeout, AddressInv, TypeOK, State,
           DeclineInRequest, RequestedOffered, LeasedAddressInUse, LeaseFromOfferer
  <2>5. CASE check_DHCP_timeout(m) /\ UNCHANGED <<sipr, acked>>
    BY <1>0, <2>1, <2>2, <2>5, TimeoutStep
       DEF AddressInv, TypeOK, State, DeclineInRequest, RequestedOffered,
           LeasedAddressInUse, LeaseFromOfferer
  <2> QED BY <1>6, <2>3, <2>4, <2>5 DEF RunRerequest
<1> QED BY <1>1, <1>2, <1>3, <1>4, <1>5, <1>6 DEF DHCP_run

\* Every step keeps the address part of the invariant.
LEMMA AddressStep == AddressInv /\ [Next]_vars => AddressInv'
<1> SUFFICES ASSUME AddressInv, [Next]_vars PROVE AddressInv'
  OBVIOUS
<1> USE ConstantsAssumption
    DEF AddressInv, TypeOK, State, DeclineInRequest, RequestedOffered,
        LeasedAddressInUse, LeaseFromOfferer, timer, Enter, reset_DHCP_timeout
<1>1. CASE DeclineWaited
  BY <1>1 DEF DeclineWaited
<1>2. CASE DHCP_init
  BY <1>2 DEF DHCP_init
<1>3. CASE DHCP_stop
  BY <1>3 DEF DHCP_stop
<1>4. CASE DHCP_time_handler
  <2>1. dhcp_tick_1s' \in Nat /\ elapsed' \in Nat /\ waited' \in Nat /\ ran' \in BOOLEAN
    <3>1. dhcp_tick_1s \in Nat /\ elapsed \in Nat /\ waited \in Nat
      OBVIOUS
    <3>2. /\ dhcp_tick_1s' = dhcp_tick_1s + 1 /\ ran' = FALSE
          /\ elapsed' \in {elapsed, elapsed + 1} /\ waited' \in {waited, waited + 1}
      BY <1>4 DEF DHCP_time_handler
    <3>3. dhcp_tick_1s' \in Nat /\ elapsed' \in Nat /\ waited' \in Nat
      BY <3>1, <3>2
    <3>4. ran' \in BOOLEAN
      BY <3>2
    <3> QED BY <3>3, <3>4
  <2>2. UNCHANGED <<dhcp_state, dhcp_retry_count, dhcp_tick_next, dhcp_lease_time, allocated, old,
                    sip, ret, declined, sipr, offerer, acked>>
    BY <1>4 DEF DHCP_time_handler
  <2> QED BY <2>1, <2>2
<1>5. CASE UNCHANGED vars
  BY <1>5 DEF vars, observed
<1> QED BY <1>1, <1>2, <1>3, <1>4, <1>5, RunAddress DEF Next

\* One more retry may take DHCP_WAIT_TIME + 1 seconds more, and none has taken none.
LEMMA SpentGrows ==
  ASSUME NEW n \in Nat
  PROVE  Spent(n) \in Nat /\ Spent(n + 1) = Spent(n) + DHCP_WAIT_TIME + 1 /\ Spent(0) = 0
BY ConstantsAssumption DEF Spent

\* Half of a lease is a number of seconds.
LEMMA Half == \A n \in Nat : n \div 2 \in Nat
OBVIOUS

\* More retries take no less time.
LEMMA SpentMonotone ==
  ASSUME NEW a \in Nat, NEW b \in Nat, a <= b
  PROVE  Spent(a) <= Spent(b)
<1>1. \A w \in Nat : a * w <= b * w
  OBVIOUS
<1> QED BY <1>1, ConstantsAssumption DEF Spent

\* Every step keeps the timer part of the invariant.
LEMMA TimerStep == AddressInv /\ AddressInv' /\ TimerInv /\ [Next]_vars => TimerInv'
<1> SUFFICES ASSUME AddressInv, AddressInv', TimerInv, [Next]_vars PROVE TimerInv'
  OBVIOUS
<1> USE ConstantsAssumption
<1>1. TypeOK /\ TypeOK' /\ LeasedTimer /\ RerequestTimer
  BY DEF AddressInv, TimerInv
<1>2. /\ dhcp_retry_count \in Nat /\ Spent(dhcp_retry_count) \in Nat
      /\ dhcp_lease_time' \div 2 \in Nat /\ dhcp_tick_1s \in Nat /\ dhcp_tick_1s' \in Nat
  <2>1. dhcp_retry_count \in Nat /\ dhcp_tick_1s \in Nat /\ dhcp_tick_1s' \in Nat
    BY <1>1 DEF TypeOK
  <2>2. dhcp_lease_time' \in Nat
    BY <1>1 DEF TypeOK
  <2> QED BY <2>1, <2>2, SpentGrows, Half
\* Entering a state with the timer reset.
<1>3. ASSUME dhcp_tick_1s' = 0, dhcp_retry_count' = 0, elapsed' = 0 PROVE TimerInv'
  <2>1. LeasedTimer'
    BY <1>2, <1>3 DEF LeasedTimer
  <2>2. Spent(0) = 0
    BY SpentGrows
  <2>3. RerequestTimer'
    BY <1>3, <2>2 DEF RerequestTimer, Spent
  <2> QED BY <2>1, <2>3 DEF TimerInv
\* Leaving both timed states.
<1>4. ASSUME dhcp_state' \notin {"LEASED", "REREQUEST"} PROVE TimerInv'
  BY <1>4 DEF TimerInv, LeasedTimer, RerequestTimer
<1>5. CASE DHCP_run
  <2>1. ran' = TRUE
    BY <1>5 DEF DHCP_run
  <2>2. CASE RunStopped
    BY <1>4, <2>2 DEF RunStopped
  <2>3. ASSUME NEW m \in Reply, RunInit(m) \/ RunDiscover(m) PROVE TimerInv'
    <3>1. dhcp_state' \notin {"LEASED", "REREQUEST"}
      BY <1>1, <2>3, TimeoutStep DEF RunInit, RunDiscover, Enter
    <3> QED BY <3>1, <1>4
  <2>4. ASSUME NEW m \in Reply, RunRequest(m) PROVE TimerInv'
    <3>1. CASE RequestAck(m) /\ dhcp_state' = "LEASED"
      BY <3>1, <2>4, <1>3 DEF RequestAck, RunRequest, Enter, Stay, reset_DHCP_timeout
    <3>2. CASE ~(RequestAck(m) /\ dhcp_state' = "LEASED")
      <4>1. dhcp_state' \notin {"LEASED", "REREQUEST"}
        BY <1>1, <2>4, <3>2, TimeoutStep DEF RunRequest, RequestAck, Refused, Enter, Stay
      <4> QED BY <4>1, <1>4
    <3> QED BY <3>1, <3>2
  <2>5. ASSUME NEW m \in Reply, ParseLease(m), RunLeased(m) PROVE TimerInv'
    <3>1. CASE RenewalDue
      BY <1>3, <2>5, <3>1 DEF RunLeased, Enter, reset_DHCP_timeout
    <3>2. CASE ~RenewalDue
      <4>1. dhcp_state' = "LEASED" /\ UNCHANGED dhcp_tick_1s
        BY <2>5, <3>2 DEF RunLeased, Stay, timer
      <4>2. dhcp_lease_time' # Infinite => dhcp_tick_1s <= dhcp_lease_time' \div 2
        BY <1>2, <3>2 DEF RenewalDue
      <4>3. LeasedTimer'
        BY <1>2, <4>1, <4>2 DEF LeasedTimer
      <4> QED BY <4>1, <4>3 DEF TimerInv, RerequestTimer
    <3> QED BY <3>1, <3>2
  <2>6. ASSUME NEW m \in Reply, RunRerequest(m) PROVE TimerInv'
    <3>1. dhcp_state = "REREQUEST"
      BY <2>6 DEF RunRerequest
    <3>2. CASE TypeOf(m) = "ACK"
      BY <1>3, <2>6, <3>2 DEF RunRerequest, Refused, Enter, reset_DHCP_timeout
    <3>3. CASE Refused(m)
      BY <1>4, <3>3 DEF Refused, Enter
    <3>4. CASE Resend(m)
      <4>1. /\ dhcp_state' = "REREQUEST" /\ dhcp_tick_1s' = 0 /\ elapsed' = elapsed
            /\ dhcp_retry_count' = dhcp_retry_count + 1
        BY <3>1, <3>4 DEF Resend, Stay
      <4>2. elapsed <= Spent(dhcp_retry_count) + dhcp_tick_1s /\ dhcp_tick_1s <= DHCP_WAIT_TIME + 1
        BY <1>1, <3>1 DEF RerequestTimer
      <4>3. Spent(dhcp_retry_count + 1) = Spent(dhcp_retry_count) + DHCP_WAIT_TIME + 1
        BY <1>2, SpentGrows
      <4>4. elapsed \in Nat /\ dhcp_tick_1s \in Nat
        BY <1>1 DEF TypeOK
      <4>5. elapsed <= Spent(dhcp_retry_count + 1)
        BY <1>2, <4>2, <4>3, <4>4
      <4>6. Spent(dhcp_retry_count)' = Spent(dhcp_retry_count + 1)
        BY <4>1 DEF Spent
      <4>7. RerequestTimer'
        BY <1>1, <1>2, <4>1, <4>3, <4>4, <4>5, <4>6 DEF RerequestTimer
      <4> QED BY <4>1, <4>7 DEF TimerInv, LeasedTimer
    <3>5. CASE Wait(m)
      <4>1. UNCHANGED <<dhcp_state, elapsed, dhcp_retry_count, dhcp_tick_1s>>
        BY <3>5 DEF Wait, Stay, timer
      <4>2. dhcp_tick_1s <= DHCP_WAIT_TIME /\ dhcp_retry_count # MAX_DHCP_RETRY
        BY <1>1, <3>5 DEF Wait, TypeOK
      <4>3. Spent(dhcp_retry_count)' = Spent(dhcp_retry_count)
        BY <4>1 DEF Spent
      <4>4. RerequestTimer'
        BY <1>1, <3>1, <4>1, <4>2, <4>3 DEF RerequestTimer, TypeOK
      <4> QED BY <3>1, <4>1, <4>4 DEF TimerInv, LeasedTimer
    <3>6. CASE GiveUp(m)
      BY <1>4, <3>1, <3>6 DEF GiveUp, Enter
    <3> QED BY <2>6, <3>2, <3>3, <3>4, <3>5, <3>6 DEF RunRerequest, check_DHCP_timeout
  <2> QED BY <1>5, <2>2, <2>3, <2>4, <2>5, <2>6 DEF DHCP_run
<1>6. CASE DeclineWaited
  BY <1>4, <1>6 DEF DeclineWaited, Enter
<1>7. CASE DHCP_init
  BY <1>4, <1>7 DEF DHCP_init, Enter
<1>8. CASE DHCP_stop
  BY <1>4, <1>8 DEF DHCP_stop, Enter
<1>9. CASE DHCP_time_handler
  <2>1. /\ dhcp_tick_1s' = dhcp_tick_1s + 1 /\ ran' = FALSE
        /\ UNCHANGED <<dhcp_state, dhcp_retry_count, dhcp_lease_time>>
    BY <1>9 DEF DHCP_time_handler
  <2>2. dhcp_state \in {"LEASED", "REREQUEST"} => ran
    BY <1>9 DEF DHCP_time_handler, AddressInv, DeclineInRequest
  <2>3. LeasedTimer'
    <3> SUFFICES ASSUME dhcp_state = "LEASED", dhcp_lease_time # Infinite
                 PROVE  dhcp_tick_1s + 1 <= dhcp_lease_time \div 2 + 1
      BY <2>1 DEF LeasedTimer
    <3>1. dhcp_tick_1s <= dhcp_lease_time \div 2
      BY <1>1, <2>2 DEF LeasedTimer
    <3>2. dhcp_tick_1s \in Nat /\ dhcp_lease_time \in Nat
      BY <1>1 DEF TypeOK
    <3> QED BY <3>1, <3>2
  <2>4. dhcp_state = "REREQUEST" => elapsed' = elapsed + 1
    BY <1>9 DEF DHCP_time_handler
  <2>5. Spent(dhcp_retry_count)' = Spent(dhcp_retry_count)
    BY <2>1 DEF Spent
  <2>6. RerequestTimer'
    BY <1>1, <1>2, <2>1, <2>2, <2>4, <2>5 DEF RerequestTimer, TypeOK
  <2> QED BY <2>3, <2>6 DEF TimerInv
<1>10. CASE UNCHANGED vars
  BY <1>1, <1>10 DEF vars, timer, observed, TimerInv, LeasedTimer, RerequestTimer, Spent
<1> QED BY <1>5, <1>6, <1>7, <1>8, <1>9, <1>10 DEF Next

(* The client's variables keep their types: in particular the retry        *)
(* counter never passes MAX_DHCP_RETRY.                                    *)
THEOREM TypeCorrect == Spec => []TypeOK
<1>1. IInv => TypeOK /\ AddressInv
  BY DEF IInv, AddressInv
<1>2. AddressInv => TypeOK
  BY DEF AddressInv
<1> QED BY <1>1, <1>2, InitHolds, AddressStep, PTL DEF Spec

(* For any servers and addresses: a leased address is in the chip and free *)
(* of conflict.                                                            *)
THEOREM LeaseInUse == Spec => []LeasedAddressInUse
<1>1. IInv => AddressInv
  BY DEF IInv
<1>2. AddressInv => LeasedAddressInUse
  BY DEF AddressInv
<1> QED BY <1>1, <1>2, InitHolds, AddressStep, PTL DEF Spec

(* For any servers and addresses: a lease was confirmed by the server that *)
(* offered it.                                                             *)
THEOREM LeaseSound == Spec => []LeaseFromOfferer
<1>1. IInv => AddressInv
  BY DEF IInv
<1>2. AddressInv => LeaseFromOfferer
  BY DEF AddressInv
<1> QED BY <1>1, <1>2, InitHolds, AddressStep, PTL DEF Spec

(* For any lease times and retry parameters: renewal starts within a       *)
(* second after half of the lease, and is given up after its retries.      *)
THEOREM RenewalBounded == Spec => []RenewalOnTime
<1>1. IInv /\ [Next]_vars => IInv'
  BY AddressStep, TimerStep DEF IInv
<1>2. IInv => RenewalOnTime
  <2> SUFFICES ASSUME IInv PROVE RenewalOnTime
    OBVIOUS
  <2>1. TypeOK /\ LeasedTimer /\ RerequestTimer
    BY DEF IInv, AddressInv, TimerInv
  <2>2. ASSUME dhcp_state = "REREQUEST" PROVE elapsed <= Spent(MAX_DHCP_RETRY) + 1
    <3>1. /\ dhcp_retry_count \in Nat /\ dhcp_tick_1s \in Nat /\ elapsed \in Nat
          /\ dhcp_retry_count <= MAX_DHCP_RETRY
      BY <2>1, ConstantsAssumption DEF TypeOK
    <3>2. /\ elapsed <= Spent(dhcp_retry_count) + dhcp_tick_1s
          /\ dhcp_tick_1s <= DHCP_WAIT_TIME + 1
          /\ dhcp_retry_count = MAX_DHCP_RETRY => dhcp_tick_1s <= 1
      BY <2>1, <2>2 DEF RerequestTimer
    <3>3. CASE dhcp_retry_count = MAX_DHCP_RETRY
      BY <3>1, <3>2, <3>3, SpentGrows
    <3>4. CASE dhcp_retry_count # MAX_DHCP_RETRY
      <4>1. dhcp_retry_count + 1 <= MAX_DHCP_RETRY
        BY <3>1, <3>4, ConstantsAssumption
      <4>2. Spent(dhcp_retry_count + 1) <= Spent(MAX_DHCP_RETRY)
        BY <3>1, <4>1, ConstantsAssumption, SpentMonotone
      <4>3. /\ Spent(dhcp_retry_count + 1) = Spent(dhcp_retry_count) + DHCP_WAIT_TIME + 1
            /\ Spent(dhcp_retry_count) \in Nat /\ Spent(MAX_DHCP_RETRY) \in Nat
        BY <3>1, ConstantsAssumption, SpentGrows
      <4> QED BY <3>1, <3>2, <4>2, <4>3, ConstantsAssumption
    <3> QED BY <3>3, <3>4
  <2> QED BY <2>1, <2>2 DEF RenewalOnTime, LeasedTimer, Spent
<1> QED BY <1>1, <1>2, InitHolds, PTL DEF Spec
=============================================================================
