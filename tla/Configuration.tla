---------------------------- MODULE Configuration ----------------------------
(***************************************************************************)
(* The module's configuration and the two ways it is changed: AT commands  *)
(* typed on the serial line (atcmd.c, cmdrun.c) and requests of the        *)
(* configuration tool (ConfigMessage.c).  ConfigData.c keeps the           *)
(* configuration in RAM (s2e_packet), copies it to the chip (Net_Conf) and *)
(* saves it to a ROM in two writes, check code first.                      *)
(*                                                                         *)
(* A typed line is its length, and its content, chosen when the line ends, *)
(* is the command it is parsed into: a command that is refused before it   *)
(* changes anything is Refused.  A request whose header is a leftover of   *)
(* the datagram before it is as arbitrary as any other, so datagrams have  *)
(* no state.  The check code is the configuration it was computed from.    *)
(* The password, the module name and the firmware version are left out:    *)
(* whether a request is authorised is a choice of its sender.  The pins    *)
(* (FIODIR, FIOVAL) belong to board code outside the repository.           *)
(***************************************************************************)
EXTENDS Integers, FiniteSetsExt

CONSTANTS
    ATCMD_BUF_SIZE,     \* bytes of the line buffer
    PREVBUF_MAX_SIZE,   \* bytes the stored lines may take
    PREVBUF_MAX_NUM,    \* stored lines
    Macs,               \* hardware addresses one may set
    NoMac,              \* all zero, as s2e_packet starts
    Addrs,              \* IP addresses
    FactoryAddr,        \* 192.168.11.100
    Serials,            \* serial line settings
    FactorySerial,      \* 115200 8N1
    Blank               \* the content of a ROM never written

ASSUME SizesAssumption == /\ PREVBUF_MAX_NUM \in Nat \ {0, 1}
                          /\ ATCMD_BUF_SIZE \in Nat \ {0, 1}
                          /\ PREVBUF_MAX_SIZE \in Nat
ASSUME ValuesAssumption == /\ NoMac \notin Macs
                           /\ FactoryAddr \in Addrs /\ FactorySerial \in Serials

VARIABLES
    packet,     \* s2e_packet: [mac, ip, dhcp, serial]
    chip,       \* SHAR, SIPR and the DHCP mode: [mac, ip, dhcp]
    uart,       \* the settings the serial line works with
    rom,        \* [check, data], each a configuration or Blank
    line,       \* buflen
    hist,       \* [buf, idx, cnt, len]: prevbuf, previdx, prevcnt, prevlen
    pc          \* where the main loop is

vars == <<packet, chip, uart, rom, line, hist, pc>>

Packets == [mac : Macs \cup {NoMac}, ip : Addrs, dhcp : BOOLEAN, serial : Serials]
Null == 0                             \* a free entry; a stored line is its length
Slots == 0..PREVBUF_MAX_NUM-1

(***************************************************************************)
(* Start.  setup_S2E_Packet() assigns S2E_romRead to itself and drops its  *)
(* parameter, so load_S2E_Packet_from_storage() never finds a ROM to read  *)
(* and always takes the factory values, which name no hardware address.    *)
(***************************************************************************)
set_S2E_Packet_to_factory_value(p) ==
    [p EXCEPT !.ip = FactoryAddr, !.dhcp = FALSE, !.serial = FactorySerial]

load_S2E_Packet_from_storage(p) == set_S2E_Packet_to_factory_value(p)

Net_Conf(p) == [mac |-> p.mac, ip |-> p.ip, dhcp |-> p.dhcp]

FirstPacket == load_S2E_Packet_from_storage(
    [mac |-> NoMac, ip |-> FactoryAddr, dhcp |-> FALSE, serial |-> FactorySerial])

EmptyHistory == [buf |-> [s \in Slots |-> Null], idx |-> 0, cnt |-> 0, len |-> 0]

Init == /\ packet = FirstPacket
        /\ chip = Net_Conf(FirstPacket)
        /\ uart = FactorySerial
        /\ rom = [check |-> Blank, data |-> Blank]
        /\ line = 0
        /\ hist = EmptyHistory
        /\ pc = "idle"

(* NVIC_SystemReset(), or the power going at any point, a save included.   *)
Restart == /\ packet' = FirstPacket
           /\ chip' = Net_Conf(FirstPacket)
           /\ uart' = FactorySerial
           /\ line' = 0
           /\ hist' = EmptyHistory
           /\ pc' = "idle"
           /\ rom' = rom

-----------------------------------------------------------------------------
(* atc_run(): one character of the line; the last byte of the buffer is    *)
(* for the end of the string.                                              *)
Character == /\ pc = "idle"
             /\ line < ATCMD_BUF_SIZE - 1
             /\ line' = line + 1
             /\ UNCHANGED <<packet, chip, uart, rom, hist, pc>>

Backspace == /\ pc = "idle"
             /\ line > 0
             /\ line' = line - 1
             /\ UNCHANGED <<packet, chip, uart, rom, hist, pc>>

LineFeed == /\ pc = "idle"
            /\ line > 0
            /\ pc' = "make_room"
            /\ UNCHANGED <<packet, chip, uart, rom, line, hist>>

(***************************************************************************)
(* cmd_set_prev(): the line is stored in a ring, the oldest lines making   *)
(* room, for its entry first and then for malloc() when it fails.          *)
(***************************************************************************)
\* Mutant: one entry too far.
OldestSlotOffByOne(h) == (h.idx + PREVBUF_MAX_NUM - h.cnt + 1) % PREVBUF_MAX_NUM

OldestSlot(h) == (h.idx + PREVBUF_MAX_NUM - h.cnt) % PREVBUF_MAX_NUM

NeedsRoom(h) == \/ h.cnt >= PREVBUF_MAX_NUM
                \/ h.cnt > 0 /\ h.len + line > PREVBUF_MAX_SIZE - 1

FreeOldest(h) == LET s == OldestSlot(h) IN
    [h EXCEPT !.buf[s] = Null, !.cnt = @ - 1, !.len = @ - (h.buf[s] + 1)]

(* A ring whose oldest entry is missing stops the module: CRITICAL_ERR.    *)
Evict(next) == /\ IF hist.buf[OldestSlot(hist)] # Null
                  THEN hist' = FreeOldest(hist) /\ pc' = next
                  ELSE hist' = hist /\ pc' = "ring_error"
               /\ UNCHANGED <<packet, chip, uart, rom, line>>

MakeRoom == pc = "make_room" /\ NeedsRoom(hist) /\ Evict("make_room")

CallsMalloc == \/ pc = "make_room" /\ ~NeedsRoom(hist)
               \/ pc = "retry"

Store == /\ CallsMalloc
         /\ hist' = [hist EXCEPT !.buf[hist.idx] = line,
                                 !.idx = IF @ = PREVBUF_MAX_NUM - 1 THEN 0 ELSE @ + 1,
                                 !.cnt = @ + 1,
                                 !.len = @ + line + 1]
         /\ line' = 0
         /\ pc' = "command"
         /\ UNCHANGED <<packet, chip, uart, rom>>

MallocFails == /\ CallsMalloc
               /\ pc' = IF hist.cnt = 0 THEN "no_memory" ELSE "free_one"
               /\ UNCHANGED <<packet, chip, uart, rom, line, hist>>

FreeAndRetry == pc = "free_one" /\ Evict("retry")

(* cmd_divide(), "AT?": the entry printed is the one before the last.      *)
LineBefore(h) == IF h.idx < 2 THEN h.idx + PREVBUF_MAX_NUM - 2 ELSE h.idx - 2

-----------------------------------------------------------------------------
(***************************************************************************)
(* The commands, cmd_assign() and the handlers it calls.                   *)
(***************************************************************************)
Commanded == pc = "command"

(* A wrong name, sign or argument, and the queries (AT, AT?, MSTAT, NSTAT, *)
(* NSET?, NMAC?, MUSART?), change nothing.                                 *)
Refused == /\ Commanded
           /\ pc' = "idle"
           /\ UNCHANGED <<packet, chip, uart, rom, line, hist>>

\* Mutant: the chip keeps its address.
act_nset_aKeepsChip(mode, ip) ==
    LET new == [packet EXCEPT !.dhcp = mode, !.ip = ip]
    IN packet' = new /\ chip' = [chip EXCEPT !.dhcp = mode]

(* NSET: hdl_nset() hands on the fields that were given, act_nset_a() puts *)
(* them into the configuration and Net_Conf() writes all of it to the chip.*)
act_nset_a(mode, ip) ==
    LET new == [packet EXCEPT !.dhcp = mode, !.ip = ip]
    IN packet' = new /\ chip' = Net_Conf(new)

Nset == /\ Commanded
        /\ \E mode \in BOOLEAN, ip \in Addrs : act_nset_a(mode, ip)
        /\ pc' = "idle"
        /\ UNCHANGED <<uart, rom, line, hist>>

\* Mutant: the new address is not saved.
NmacUnsaved == /\ Commanded
               /\ \E m \in Macs : packet' = [packet EXCEPT !.mac = m]
               /\ pc' = "nmac_end"
               /\ UNCHANGED <<chip, uart, rom, line, hist>>

(* NMAC=: the address goes into the configuration, which is saved before   *)
(* the chip gets it (NmacEnd).                                             *)
Nmac == /\ Commanded
        /\ \E m \in Macs : packet' = [packet EXCEPT !.mac = m]
        /\ pc' = "save_nmac"
        /\ UNCHANGED <<chip, uart, rom, line, hist>>

NmacEnd == /\ pc = "nmac_end"
           /\ chip' = [chip EXCEPT !.mac = packet.mac]
           /\ pc' = "idle"
           /\ UNCHANGED <<packet, uart, rom, line, hist>>

(* MUSARTn= and MUSARTn-: the settings are stored argument by argument; an *)
(* argument refused later on leaves the earlier ones stored and unapplied. *)
Musart == /\ Commanded
          /\ \E s \in Serials :
                /\ packet' = [packet EXCEPT !.serial = s]
                /\ uart' \in {s, uart}
          /\ pc' = "idle"
          /\ UNCHANGED <<chip, rom, line, hist>>

Msave == /\ Commanded
         /\ pc' = "save_done"
         /\ UNCHANGED <<packet, chip, uart, rom, line, hist>>

Mrst == Commanded /\ Restart

-----------------------------------------------------------------------------
(***************************************************************************)
(* save_S2E_Packet_to_storage(): the check code, then the configuration.   *)
(* What follows a save is part of its program point.                       *)
(***************************************************************************)
AfterSave == [save_nmac |-> "nmac_end", save_done |-> "idle", save_reset |-> "reset"]
Payload == [save_nmac |-> "data_nmac", save_done |-> "data_done", save_reset |-> "data_reset"]
Saving == DOMAIN AfterSave

SaveCheck == /\ pc \in Saving
             /\ rom' = [rom EXCEPT !.check = packet]
             /\ pc' = Payload[pc]
             /\ UNCHANGED <<packet, chip, uart, line, hist>>

SavePayload == \E s \in Saving :
    /\ pc = Payload[s]
    /\ rom' = [rom EXCEPT !.data = packet]
    /\ pc' = AfterSave[s]
    /\ UNCHANGED <<packet, chip, uart, line, hist>>

-----------------------------------------------------------------------------
(***************************************************************************)
(* do_udp_config(): the requests of the tool, between two characters of a  *)
(* line.  Discovery and GET_INFO answer and change nothing, like whatever  *)
(* has a wrong length, password or destination.  The others change and     *)
(* save the configuration, answer, and restart the module.                 *)
(***************************************************************************)
process_discovery == UNCHANGED <<packet, pc>>

process_get_info == UNCHANGED <<packet, pc>>

process_set_info == \E new \in Packets : packet' = new /\ pc' = "save_reset"

process_firmware_upload_init ==
    /\ packet' = [load_S2E_Packet_from_storage(packet) EXCEPT !.mac = packet.mac,
                                                              !.ip = packet.ip]
    /\ pc' = "save_reset"

process_factory_reset == /\ packet' = set_S2E_Packet_to_factory_value(packet)
                         /\ pc' = "save_reset"

process_remote_reset == packet' = packet /\ pc' = "reset"

do_udp_config == /\ pc = "idle"
                 /\ \/ process_discovery
                    \/ process_get_info
                    \/ process_set_info
                    \/ process_firmware_upload_init
                    \/ process_factory_reset
                    \/ process_remote_reset
                 /\ UNCHANGED <<chip, uart, rom, line, hist>>

Reset == pc = "reset" /\ Restart

(* The environment: a DHCP server leases an address (dhcp.c writes it to   *)
(* the chip only), the power goes.                                         *)
Leased == /\ pc = "idle"
          /\ chip.dhcp
          /\ \E a \in Addrs : chip' = [chip EXCEPT !.ip = a]
          /\ UNCHANGED <<packet, uart, rom, line, hist, pc>>

PowerLoss == Restart

Next == \/ Character \/ Backspace \/ LineFeed
        \/ MakeRoom \/ Store \/ MallocFails \/ FreeAndRetry
        \/ Refused \/ Nset \/ Nmac \/ NmacEnd \/ Musart \/ Msave \/ Mrst
        \/ SaveCheck \/ SavePayload
        \/ do_udp_config \/ Reset \/ Leased \/ PowerLoss

Spec == Init /\ [][Next]_vars

-----------------------------------------------------------------------------
(* The k-th youngest stored line is in this slot.                          *)
Youngest(k) == (hist.idx + PREVBUF_MAX_NUM - k) % PREVBUF_MAX_NUM

(***************************************************************************)
(* cmd_set_prev() keeps the ring exact through evictions and failing       *)
(* malloc() calls: the stored lines are the prevcnt entries before         *)
(* previdx and every other entry is free, prevlen is what they take and    *)
(* stays in its bound, "AT?" prints the line before the last, and the      *)
(* "ring buf" errors are never reached.                                    *)
(***************************************************************************)
Taken == {Youngest(k) : k \in 1..hist.cnt}

HistoryExact ==
    /\ hist.cnt \in 0..PREVBUF_MAX_NUM
    /\ \A s \in Slots : hist.buf[s] # Null <=> s \in Taken
    /\ pc # "ring_error"
    /\ hist.cnt >= 2 => LineBefore(hist) = Youngest(2)
    /\ hist.len = MapThenSumSet(LAMBDA s : hist.buf[s] + 1, Taken)
    /\ hist.cnt > 1 => hist.len <= PREVBUF_MAX_SIZE

(***************************************************************************)
(* Between commands the chip works with the configuration: its hardware    *)
(* address and DHCP mode are those of s2e_packet, and so is its IP address *)
(* unless a DHCP server gave it another (act_nset_a, act_nmac_a,           *)
(* Net_Conf; the requests of the tool restart the module).                 *)
(***************************************************************************)
ConfigApplied ==
    pc = "idle" => /\ chip.mac = packet.mac
                   /\ chip.dhcp = packet.dhcp
                   /\ ~chip.dhcp => chip.ip = packet.ip

(***************************************************************************)
(* A hardware address that was set is in the ROM, under a check code that  *)
(* fits, whenever the main loop is between commands: act_nmac_a() saves    *)
(* what it has set, and a save cut short by the power ends in a restart    *)
(* that forgets the address.                                               *)
(***************************************************************************)
MacStored ==
    pc = "idle" /\ packet.mac # NoMac =>
        rom.data \in Packets /\ rom.check = rom.data /\ rom.data.mac = packet.mac

TypeOK ==
    /\ packet \in Packets
    /\ chip \in [mac : Macs \cup {NoMac}, ip : Addrs, dhcp : BOOLEAN]
    /\ uart \in Serials
    /\ rom \in [check : Packets \cup {Blank}, data : Packets \cup {Blank}]
    /\ line \in 0..ATCMD_BUF_SIZE - 1
    /\ hist \in [buf : [Slots -> 0..ATCMD_BUF_SIZE - 1], idx : Slots,
                 cnt : 0..PREVBUF_MAX_NUM, len : Nat]
    /\ pc \in {"idle", "make_room", "free_one", "retry", "ring_error",
               "no_memory", "command",
               "nmac_end", "reset", "save_nmac", "save_done", "save_reset",
               "data_nmac", "data_done", "data_reset"}
=============================================================================
