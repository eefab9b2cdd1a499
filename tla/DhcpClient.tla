----------------------------- MODULE DhcpClient -----------------------------
(***************************************************************************)
(* The DHCP client of Internet/DHCP/dhcp.c: the state machine that the     *)
(* main loop drives with DHCP_run(), the retry timer that the one second   *)
(* interrupt DHCP_time_handler() counts, and the address in the chip.      *)
(*                                                                         *)
(* DHCP_run() takes at most one message from its UDP socket.  The servers  *)
(* and the network between are left entirely open: any reply of any server *)
(* may be the next one, or none, so replies may be late, lost, duplicated, *)
(* reordered or meant for an earlier request.  A call is one step, except  *)
(* for the busy-wait after a DECLINE, which only timer ticks end.          *)
(*                                                                         *)
(* A server stands for its address and its server identifier (DHCP_SIP and *)
(* DHCP_REAL_SIP); subnet, gateway and DNS addresses are left out.         *)
(***************************************************************************)
EXTENDS Integers

CONSTANTS
  Servers, Addresses,  \* servers that answer, addresses they give
  Taken,               \* addresses another host on the network already uses
  LeaseTimes,          \* finite lease times, in seconds
  Infinite,            \* INFINITE_LEASETIME
  MAX_DHCP_RETRY, DHCP_WAIT_TIME,
  Zero,                \* the address 0.0.0.0, and no server
  MaxTick              \* bound: seconds counted without a reset

ASSUME ConstantsAssumption ==
  /\ MAX_DHCP_RETRY \in Nat /\ DHCP_WAIT_TIME \in Nat /\ MaxTick \in Nat
  /\ LeaseTimes \subseteq Nat /\ Infinite \in Nat
  /\ Zero \notin Servers /\ Zero \notin Addresses /\ Taken \subseteq Addresses

State == {"INIT", "DISCOVER", "REQUEST", "LEASED", "REREQUEST", "STOP"}

\* What recvfrom() may deliver; a NAK carries no lease time (-1), nothing has arrived (none).
NoReply == [type |-> "none", from |-> Zero, yiaddr |-> Zero, lease |-> -1]
Reply ==
  [type : {"OFFER", "ACK"}, from : Servers, yiaddr : Addresses, lease : LeaseTimes \union {Infinite}]
    \union [type : {"NAK"}, from : Servers, yiaddr : {Zero}, lease : {-1}]
    \union {NoReply}

VARIABLES
  dhcp_state, dhcp_retry_count,
  dhcp_tick_1s, dhcp_tick_next,
  dhcp_lease_time,
  allocated, old,   \* DHCP_allocated_ip, OLD_allocated_ip
  sip,              \* DHCP_SIP
  ret,              \* what DHCP_run() returned last
  declined,         \* the tick at which the wait after a DECLINE began, or -1
  sipr,             \* the address in the chip's SIPR
  \* observed, not part of the code
  ran,              \* DHCP_run() has been called since the last tick
  offerer,          \* the server whose OFFER the client has taken
  acked,            \* the address in the last ACK the client has taken
  elapsed,          \* seconds since the current state was entered
  waited            \* seconds since the last message to a server

timer    == <<dhcp_retry_count, dhcp_tick_1s, dhcp_tick_next>>
observed == <<ran, offerer, acked, elapsed, waited>>
vars     == <<dhcp_state, timer, dhcp_lease_time, allocated, old, sip, ret, declined, sipr, observed>>

-----------------------------------------------------------------------------
reset_DHCP_timeout ==
  dhcp_tick_1s' = 0 /\ dhcp_tick_next' = DHCP_WAIT_TIME /\ dhcp_retry_count' = 0

Init ==
  /\ dhcp_state = "INIT" /\ dhcp_retry_count = 0
  /\ dhcp_tick_1s = 0 /\ dhcp_tick_next = DHCP_WAIT_TIME
  /\ dhcp_lease_time = Infinite /\ allocated = Zero /\ old = Zero /\ sip = Zero
  /\ ret = "none" /\ declined = -1 /\ sipr = Zero
  /\ ran = FALSE /\ offerer = Zero /\ acked = Zero /\ elapsed = 0 /\ waited = 0

\* A change of state; the time in a state is counted from there.
Enter(s) == dhcp_state' = s /\ elapsed' = 0
Stay == UNCHANGED <<dhcp_state, elapsed>>

-----------------------------------------------------------------------------
(* parseDHCPMSG(): only the server in DHCP_SIP is listened to, if one is   *)
(* set; the transaction number is not compared.  What the options hold is  *)
(* stored before the state machine looks at the type.                      *)

\* Mutant: messages of every server are accepted.
AcceptedFromAll(m) == m.type # "none"

Accepted(m) == m.type # "none" /\ (sip = Zero \/ m.from = sip)
TypeOf(m) == IF Accepted(m) THEN m.type ELSE "none"
ParsedSip(m) == IF Accepted(m) THEN m.from ELSE sip
ParseLease(m) ==
  dhcp_lease_time' = IF Accepted(m) /\ m.lease # -1 THEN m.lease ELSE dhcp_lease_time

\* send_DHCP_DISCOVER() forgets the server; REQUEST and DECLINE keep it.
SendDiscover == sip' = Zero /\ waited' = 0
SendToServer(m) == sip' = ParsedSip(m) /\ waited' = 0
SendNothing(m) == sip' = ParsedSip(m) /\ UNCHANGED waited

-----------------------------------------------------------------------------
(* check_DHCP_timeout()                                                    *)

Resend(m) ==
  /\ dhcp_retry_count < MAX_DHCP_RETRY /\ dhcp_tick_next < dhcp_tick_1s
  /\ IF dhcp_state = "DISCOVER" THEN SendDiscover ELSE SendToServer(m)
  /\ dhcp_tick_1s' = 0 /\ dhcp_tick_next' = DHCP_WAIT_TIME
  /\ dhcp_retry_count' = dhcp_retry_count + 1
  /\ ret' = "DHCP_RUNNING" /\ Stay

Wait(m) ==
  /\ dhcp_retry_count < MAX_DHCP_RETRY /\ ~(dhcp_tick_next < dhcp_tick_1s)
  /\ SendNothing(m) /\ ret' = "DHCP_RUNNING" /\ Stay /\ UNCHANGED timer

GiveUp(m) ==
  /\ dhcp_retry_count >= MAX_DHCP_RETRY
  /\ \/ dhcp_state = "DISCOVER" /\ Enter("INIT") /\ SendNothing(m) /\ ret' = "DHCP_FAILED"
     \/ dhcp_state # "DISCOVER" /\ Enter("DISCOVER") /\ SendDiscover /\ ret' = "DHCP_RUNNING"
  /\ reset_DHCP_timeout

check_DHCP_timeout(m) == Resend(m) \/ Wait(m) \/ GiveUp(m)

-----------------------------------------------------------------------------
(* DHCP_run(), by state.                                                   *)

RunInit(m) ==
  /\ dhcp_state = "INIT"
  /\ allocated' = Zero /\ SendDiscover /\ Enter("DISCOVER") /\ ret' = "DHCP_RUNNING"
  /\ UNCHANGED <<timer, old, declined, sipr, offerer, acked>>

\* Mutant: the timeout is not checked while waiting for an offer.
RunDiscoverNoTimeout(m) ==
  /\ dhcp_state = "DISCOVER"
  /\ \/ /\ TypeOf(m) = "OFFER"
        /\ allocated' = m.yiaddr /\ offerer' = m.from
        /\ SendToServer(m) /\ Enter("REQUEST") /\ ret' = "DHCP_RUNNING"
     \/ /\ TypeOf(m) # "OFFER"
        /\ Stay /\ SendNothing(m) /\ ret' = "DHCP_RUNNING" /\ UNCHANGED <<allocated, offerer>>
  /\ UNCHANGED <<timer, old, declined, sipr, acked>>

RunDiscover(m) ==
  /\ dhcp_state = "DISCOVER"
  /\ \/ /\ TypeOf(m) = "OFFER"
        /\ allocated' = m.yiaddr /\ offerer' = m.from
        /\ SendToServer(m) /\ Enter("REQUEST") /\ ret' = "DHCP_RUNNING"
        /\ UNCHANGED timer
     \/ /\ TypeOf(m) # "OFFER"
        /\ check_DHCP_timeout(m) /\ UNCHANGED <<allocated, offerer>>
  /\ UNCHANGED <<old, declined, sipr, acked>>

\* NAK in REQUEST and REREQUEST: back to DISCOVER, without sending one.
Refused(m) ==
  /\ TypeOf(m) = "NAK"
  /\ reset_DHCP_timeout /\ Enter("DISCOVER") /\ SendNothing(m)

\* Mutant: an ARP answer is taken for the proof that the address is free.
RequestAckUnchecked(m) ==
  /\ TypeOf(m) = "ACK" /\ acked' = m.yiaddr /\ ret' = "DHCP_RUNNING"
  /\ SendNothing(m) /\ sipr' = allocated
  /\ reset_DHCP_timeout /\ Enter("LEASED") /\ UNCHANGED declined

\* ACK in REQUEST: check_DHCP_leasedIP() asks by ARP whether another host has the
\* address.  If not it is assigned; if so it is declined and the wait begins.
RequestAck(m) ==
  /\ TypeOf(m) = "ACK" /\ acked' = m.yiaddr /\ ret' = "DHCP_RUNNING"
  /\ \/ /\ allocated \notin Taken /\ SendNothing(m)
        /\ sipr' = allocated
        /\ reset_DHCP_timeout /\ Enter("LEASED") /\ UNCHANGED declined
     \/ /\ allocated \in Taken /\ SendToServer(m)
        /\ declined' = dhcp_tick_1s
        /\ Stay /\ UNCHANGED <<timer, sipr>>

RunRequest(m) ==
  /\ dhcp_state = "REQUEST"
  /\ \/ RequestAck(m)
     \/ Refused(m) /\ ret' = "DHCP_RUNNING" /\ UNCHANGED <<sipr, acked, declined>>
     \/ TypeOf(m) \notin {"ACK", "NAK"} /\ check_DHCP_timeout(m) /\ UNCHANGED <<sipr, acked, declined>>
  /\ UNCHANGED <<allocated, old, offerer>>

\* Mutant: the whole lease passes before it is renewed.
RenewalLate == dhcp_lease_time' # Infinite /\ dhcp_lease_time' < dhcp_tick_1s

\* Half of the lease has passed; the lease is the one just parsed.
RenewalDue == dhcp_lease_time' # Infinite /\ dhcp_lease_time' \div 2 < dhcp_tick_1s

RunLeased(m) ==
  /\ dhcp_state = "LEASED"
  /\ \/ /\ RenewalDue
        /\ old' = allocated /\ SendToServer(m) /\ reset_DHCP_timeout /\ Enter("REREQUEST")
     \/ ~RenewalDue /\ SendNothing(m) /\ Stay /\ UNCHANGED <<timer, old>>
  /\ ret' = "DHCP_IP_LEASED"
  /\ UNCHANGED <<allocated, declined, sipr, offerer, acked>>

\* ACK in REREQUEST compares the address with the one before; no path stores a new one.
RunRerequest(m) ==
  /\ dhcp_state = "REREQUEST"
  /\ \/ /\ TypeOf(m) = "ACK" /\ acked' = m.yiaddr
        /\ sipr' = (IF old # allocated THEN allocated ELSE sipr)
        /\ ret' = (IF old # allocated THEN "DHCP_IP_CHANGED" ELSE "DHCP_IP_LEASED")
        /\ reset_DHCP_timeout /\ Enter("LEASED") /\ SendNothing(m)
     \/ Refused(m) /\ ret' = "DHCP_IP_LEASED" /\ UNCHANGED <<sipr, acked>>
     \/ TypeOf(m) \notin {"ACK", "NAK"} /\ check_DHCP_timeout(m) /\ UNCHANGED <<sipr, acked>>
  /\ UNCHANGED <<allocated, old, declined, offerer>>

RunStopped ==
  /\ dhcp_state = "STOP" /\ ret' = "DHCP_STOPPED"
  /\ UNCHANGED <<dhcp_state, timer, dhcp_lease_time, allocated, old, sip, declined, sipr,
                 offerer, acked, elapsed, waited>>

DHCP_run ==
  /\ declined = -1 /\ ran' = TRUE
  /\ \/ RunStopped
     \/ \E m \in Reply :
          /\ ParseLease(m)
          /\ RunInit(m) \/ RunDiscover(m) \/ RunRequest(m) \/ RunLeased(m) \/ RunRerequest(m)

\* The wait for two ticks ends, DHCP_run() goes on: dhcp_ip_conflict() resets the chip
\* (default_ip_conflict) or does nothing (w5500_dhcp_conflict).
DeclineWaited ==
  /\ declined # -1 /\ dhcp_tick_1s - declined >= 2
  /\ declined' = -1 /\ ran' = TRUE
  /\ reset_DHCP_timeout /\ Enter("INIT")
  /\ sipr' \in {Zero, sipr}
  /\ UNCHANGED <<dhcp_lease_time, allocated, old, sip, ret, offerer, acked, waited>>

-----------------------------------------------------------------------------
DHCP_init ==
  /\ declined = -1
  /\ sipr' = Zero /\ reset_DHCP_timeout /\ Enter("INIT") /\ waited' = 0
  /\ UNCHANGED <<dhcp_lease_time, allocated, old, sip, ret, declined, ran, offerer, acked>>

DHCP_stop ==
  /\ declined = -1 /\ dhcp_state # "STOP"
  /\ Enter("STOP")
  /\ UNCHANGED <<timer, dhcp_lease_time, allocated, old, sip, ret, declined, sipr, ran, offerer, acked, waited>>

\* The main task calls DHCP_run() at least once a second, unless it is inside the call.
DHCP_time_handler ==
  /\ ran \/ declined # -1
  /\ dhcp_tick_1s < MaxTick
  /\ dhcp_tick_1s' = dhcp_tick_1s + 1 /\ ran' = FALSE
  /\ elapsed' = (IF dhcp_state \in {"LEASED", "STOP"} THEN elapsed ELSE elapsed + 1)
  /\ waited' = (IF dhcp_state \in {"LEASED", "STOP"} THEN waited ELSE waited + 1)
  /\ UNCHANGED <<dhcp_state, dhcp_retry_count, dhcp_tick_next, dhcp_lease_time, allocated, old,
                 sip, ret, declined, sipr, offerer, acked>>

Next == DHCP_run \/ DeclineWaited \/ DHCP_init \/ DHCP_stop \/ DHCP_time_handler

\* The main loop and the timer run on; nothing is assumed of the servers.
Spec ==
  /\ Init /\ [][Next]_vars
  /\ WF_vars(DHCP_run) /\ WF_vars(DeclineWaited) /\ WF_vars(DHCP_time_handler)

-----------------------------------------------------------------------------
TypeOK ==
  /\ dhcp_state \in State /\ dhcp_retry_count \in 0 .. MAX_DHCP_RETRY
  /\ dhcp_tick_1s \in Nat /\ dhcp_tick_next = DHCP_WAIT_TIME
  /\ dhcp_lease_time \in LeaseTimes \union {Infinite}
  /\ allocated \in Addresses \union {Zero} /\ old \in Addresses \union {Zero}
  /\ sip \in Servers \union {Zero} /\ sipr \in Addresses \union {Zero}
  /\ ret \in {"none", "DHCP_RUNNING", "DHCP_FAILED", "DHCP_IP_LEASED", "DHCP_IP_CHANGED", "DHCP_STOPPED"}
  /\ declined \in Nat \union {-1} /\ ran \in BOOLEAN
  /\ offerer \in Servers \union {Zero} /\ acked \in Addresses \union {Zero}
  /\ elapsed \in Nat /\ waited \in Nat

(* While the client holds a lease the chip uses the address it holds the   *)
(* lease for, and that address is one that no other host answered for.     *)
LeasedAddressInUse ==
  dhcp_state \in {"LEASED", "REREQUEST"} => sipr = allocated /\ allocated \in Addresses \ Taken

(* A lease is confirmed only by the server whose offer was accepted,       *)
(* although replies of other servers, and late ones, keep arriving and     *)
(* are parsed in every state.                                              *)
LeaseFromOfferer ==
  dhcp_state \in {"REQUEST", "LEASED", "REREQUEST"} => sip = offerer /\ offerer # Zero

(* The lease is renewed in time: at the latest one second after half of it *)
(* has passed the client asks for it again, and it stops holding on to a   *)
(* lease that is not confirmed after its retries.                          *)
RenewalOnTime ==
  /\ dhcp_state = "LEASED" /\ dhcp_lease_time # Infinite =>
       dhcp_tick_1s <= dhcp_lease_time \div 2 + 1
  /\ dhcp_state = "REREQUEST" => elapsed <= MAX_DHCP_RETRY * (DHCP_WAIT_TIME + 1) + 1

(* The client waits for no server for ever: every waiting state is left,   *)
(* whatever the servers answer.                                            *)
NeverStuck ==
  \A s \in {"DISCOVER", "REQUEST", "REREQUEST"} : (dhcp_state = s) ~> (dhcp_state # s)

-----------------------------------------------------------------------------
(* What dhcp.h says, and the code does not do.                             *)

(* DHCP_WAIT_TIME: "Wait Time 10s".  A server is given that time to answer *)
(* before the client gives up on it.                                       *)
WaitsBeforeGivingUp ==
  [][dhcp_state = "REQUEST" /\ dhcp_state' = "DISCOVER" /\ sip' = Zero
       => waited >= DHCP_WAIT_TIME]_vars

(* DHCP_IP_CHANGED: "Change IP address by new ip from DHCP".               *)
ChangeReported ==
  [][dhcp_state = "REREQUEST" /\ dhcp_state' = "LEASED" /\ acked' # allocated
       => ret' = "DHCP_IP_CHANGED"]_vars
=============================================================================
