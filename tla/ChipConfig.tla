----------------------------- MODULE ChipConfig -----------------------------
(***************************************************************************)
(* The registers of a chip as the accessor macros and wizchip_conf.c use   *)
(* them.  The chip is one of the five of ChipRegisters, chosen at the      *)
(* start; its registers are bytes at addresses, a byte being the set of    *)
(* its one bits.  Each action is one call: a set macro, or a function of   *)
(* wizchip_conf.c or of the chip's own .c file, with all the register      *)
(* accesses it makes.                                                      *)
(***************************************************************************)
EXTENDS ChipRegisters, BufferMemory, FiniteSetsExt

CONSTANTS MaxCalls,      \* calls in a behaviour, before a transfer
          FirstSizes,    \* buffer sizes wizchip_init() is given for socket 0, in KB
          OtherSizes     \* and for all the others

ASSUME CallsAssumption == MaxCalls \in Nat \ {0}
ASSUME SizesAssumption == FirstSizes \subseteq 0..63 /\ OtherSizes \subseteq 0..63

Layouts == FirstSizes \X OtherSizes

VARIABLES chip,      \* _WIZCHIP_
          mem,       \* the bytes of the registers that are not zero
          last,      \* what each accessor last stored, as far as it should still be there
          planned,   \* the buffer layouts in force since the last reset, if only wizchip_init() set them
          asked,     \* the interrupt mask, PHY configuration and power mode last set, if still in force
          copied,    \* the pieces of buffer memory the last transfer touched
          calls      \* calls made

vars == <<chip, mem, last, planned, asked, copied, calls>>

Bits(n) == {b \in 0..7 : (n \div 2^b) % 2 = 1}
Num(byte) == MapThenSumSet(LAMBDA b : 2^b, byte)
Num16(v) == 256 * Num(v[1]) + Num(v[2])

SockNum(c) == IF c \in {"W5100", "W5100S"} THEN 4 ELSE 8
Sockets(c) == 0 .. SockNum(c) - 1

BlockBase == [W5100 |-> 1024, W5100S |-> 1024, W5200 |-> 16384, W5300 |-> 512]
BlockSize == [W5100 |-> 256, W5100S |-> 256, W5200 |-> 256, W5300 |-> 64]

\* The buffer sizes share registers: two bits per socket, or one byte of a word.
SizeFields(c, r) == r \in {"Sn_RXBUF_SIZE", "Sn_TXBUF_SIZE"} /\ c \in {"W5100", "W5100S"}

SizeRegister(c, r) ==
  IF c = "W5300" THEN IF r = "Sn_TXBUF_SIZE" THEN "TMS01R" ELSE "RMS01R"
  ELSE IF r = "Sn_TXBUF_SIZE" THEN "TMSR" ELSE "RMSR"

\* The address of a register's first byte; sn also numbers the pins of the Pn_ registers.
Address(c, r, sn) ==
  CASE SizeFields(c, r) -> CommonAt[c][SizeRegister(c, r)]
    [] c = "W5300" /\ r \in {"Sn_RXBUF_SIZE", "Sn_TXBUF_SIZE"} -> CommonAt[c][SizeRegister(c, r)] + sn
    [] c = "W5300" /\ r \in {"Pn_BRDYR", "Pn_BDPTHR"} -> CommonAt[c][r] + 4 * sn
    [] c = "W5500" /\ r \in DOMAIN CommonAt[c] -> CommonAt[c][r] * 256
    [] c = "W5500" /\ r \in DOMAIN SocketAt[c] -> SocketAt[c][r] * 256 + (1 + 4 * sn) * 8
    [] c # "W5500" /\ Target(c, r) \in DOMAIN CommonAt[c] -> CommonAt[c][Target(c, r)]
    [] OTHER -> BlockBase[c] + BlockSize[c] * sn + SocketAt[c][Target(c, r)]

\* WIZCHIP_OFFSET_INC: the address n bytes further.
OffsetInc(c, addr, n) == addr + IF c = "W5500" THEN n * 256 ELSE n

Byte(m, addr) == IF addr \in DOMAIN m THEN m[addr] ELSE {}

\* The masks some set and get macros apply.
Masked(c, r, v) ==
  CASE c \in {"W5100", "W5200"} /\ r = "IR" -> <<v[1] \intersect {5, 7}>>
    [] c = "W5200" /\ r = "IMR" -> <<v[1] \intersect {5, 7}>>
    [] c = "W5100S" /\ r = "IR" -> <<v[1] \intersect 5..7>>
    [] c = "W5500" /\ r = "IR" -> <<v[1] \intersect 4..7>>
    [] c = "W5300" /\ r \in {"IR", "IMR"} -> <<v[1] \intersect 4..7, v[2]>>
    [] c = "W5300" /\ r = "Pn_BRDYR" -> <<v[1] \ {3, 4}>>
    [] c = "W5500" /\ r \in {"Sn_IR", "Sn_IMR"} -> <<v[1] \intersect 0..4>>
    [] OTHER -> v

\* The W5300 keeps these in one half of a word, whose other half is another register.
InWord(c, r) ==
  c = "W5300" /\ r \in {"Sn_RXBUF_SIZE", "Sn_TXBUF_SIZE", "Sn_KPALVTR"}

\* The bytes a set macro writes for value v, at their distance from the register's address.
Stored(c, r, v) ==
  CASE c = "W5300" /\ r = "Sn_DHAR" -> [i \in 0..5 |-> v[1 + (i % 2)]]
    [] c = "W5300" /\ r = "Sn_PROTOR" -> [i \in {1} |-> v[1]]
    [] c = "W5300" /\ Len(v) = 1 /\ ~InWord(c, r) -> [i \in 0..1 |-> IF i = 0 THEN {} ELSE v[1]]
    [] c = "W5100S" /\ r = "PHYDIR" -> [i \in 0..1 |-> v[2 - i]]
    [] OTHER -> [i \in 0 .. Len(v) - 1 |-> v[i + 1]]

SetReg(m, c, r, sn, v) ==
  LET at == Address(c, r, sn)
      w == Stored(c, r, Masked(c, r, v))
      f == {2 * sn, 2 * sn + 1}
  IN IF SizeFields(c, r)
     THEN (at :> ((Byte(m, at) \ f) \union {b + 2 * sn : b \in v[1]})) @@ m
     ELSE [a \in {OffsetInc(c, at, i) : i \in DOMAIN w}
             |-> w[CHOOSE i \in DOMAIN w : OffsetInc(c, at, i) = a]] @@ m

\* The distances from the register's address at which a get macro finds the bytes of its result.
Fetched(c, r, width) ==
  CASE c = "W5300" /\ r = "Sn_TX_WRSR" -> <<0, 1, 1, 2>>
    [] c = "W5300" /\ width = 1 /\ ~InWord(c, r) -> <<1>>
    [] c = "W5100S" /\ r \in {"PHYDIR", "PHYDOR"} -> <<1, 0>>
    [] OTHER -> [i \in 1..width |-> i - 1]

Width(c, r) == (Access[c].rw @@ Access[c].hw)[r]

GetReg(m, c, r, sn) ==
  LET at == Address(c, r, sn)
      from == Fetched(c, r, Width(c, r))
  IN IF SizeFields(c, r)
     THEN <<{b \in 0..1 : b + 2 * sn \in Byte(m, at)}>>
     ELSE Masked(c, r, [i \in DOMAIN from |-> Byte(m, OffsetInc(c, at, from[i]))])


(* Buffer memory *)

KB == 1024

\* getSn_TxMAX() and getSn_RxMAX(): a size in KB, or on the older chips its logarithm.
MaxOf(m, c, r, sn) ==
  LET v == Num(GetReg(m, c, r, sn)[1])
  IN KB * IF SizeFields(c, r) THEN 2^v ELSE v

TxMAX(m, c, sn) == MaxOf(m, c, "Sn_TXBUF_SIZE", sn)
RxMAX(m, c, sn) == MaxOf(m, c, "Sn_RXBUF_SIZE", sn)

Flat == {"W5100", "W5100S", "W5200"}    \* chips whose driver computes addresses in the buffers

TXBUF == [W5100 |-> 16384, W5100S |-> 16384, W5200 |-> 32768]
RXBUF == [W5100 |-> 24576, W5100S |-> 24576, W5200 |-> 49152]

TxBASE(m, c, sn) == TXBUF[c] + MapThenSumSet(LAMBDA i : TxMAX(m, c, i), 0 .. sn - 1)
RxBASE(m, c, sn) == RXBUF[c] + MapThenSumSet(LAMBDA i : RxMAX(m, c, i), 0 .. sn - 1)

(* The state after a reset, and the state of a test *)

\* External: a reset of the chip gives every socket 2 KB (8 KB on the W5300) and clears the rest.
AfterReset(c) ==
  CASE c \in {"W5100", "W5100S"} -> [a \in {CommonAt[c].RMSR, CommonAt[c].TMSR} |-> Bits(85)]
    [] OTHER -> [a \in {Address(c, r, sn) : r \in {"Sn_RXBUF_SIZE", "Sn_TXBUF_SIZE"}, sn \in Sockets(c)}
                   |-> Bits(IF c = "W5300" THEN 8 ELSE 2)]

DefaultLayout(c) == IF c = "W5300" THEN <<8, 8>> ELSE <<2, 2>>

\* A setting that may be missing is the set of the one value it has, or empty.
Unset == {}
NothingAsked == [mask |-> Unset, phy |-> Unset, power |-> Unset]

Init ==
  /\ chip \in Chips
  /\ mem = AfterReset(chip)
  /\ last = << >>
  /\ planned = {[tx |-> DefaultLayout(chip), rx |-> DefaultLayout(chip)]}
  /\ asked = NothingAsked
  /\ copied = {}
  /\ calls = 0

Call ==
  /\ calls < MaxCalls
  /\ calls' = calls + 1
  /\ UNCHANGED chip

Indexes(c, r) ==
  CASE r \in {"Pn_BRDYR", "Pn_BDPTHR"} -> {0, 1, 3}
    [] r \in DOMAIN CommonAt[c] \/ Target(c, r) \in DOMAIN CommonAt[c] -> {0}
    [] OTHER -> {0, 1, SockNum(c) - 1}

\* Bytes that differ from call to call and within a value; a buffer size is a small number.
Value(r, width) ==
  IF r \in {"Sn_RXBUF_SIZE", "Sn_TXBUF_SIZE"} THEN <<Bits(calls + 1)>>
  ELSE [i \in 1..width |-> Bits(255 - (16 * calls + i))]

Forget(f, keys) == [k \in DOMAIN f \ keys |-> f[k]]

(* The set macros, and the chip changing a register of its own *)

SetMacro ==
  /\ Call
  /\ \E r \in DOMAIN Access[chip].rw : \E sn \in Indexes(chip, r) :
       LET v == Value(r, Access[chip].rw[r])
       IN /\ mem' = SetReg(mem, chip, r, sn, v)
          /\ last' = (<<r, sn>> :> Masked(chip, r, v)) @@ last
          /\ planned' = IF r \in {"Sn_RXBUF_SIZE", "Sn_TXBUF_SIZE"} THEN Unset ELSE planned
          /\ asked' = [asked EXCEPT !.mask = IF r \in {"IMR", "SIMR"} THEN Unset ELSE @,
                                    !.phy = IF r = "PHYCFGR" THEN Unset ELSE @,
                                    !.power = IF r = "PHYCFGR" THEN Unset ELSE @]
  /\ copied' = {}

ChipChanges ==
  /\ Call
  /\ \E r \in DOMAIN Access[chip].hw : \E sn \in Indexes(chip, r) :
       LET v == Value(r, Access[chip].hw[r])
           at == Address(chip, r, sn)
           from == Fetched(chip, r, Width(chip, r))
       IN /\ r # "MR"
          /\ mem' = [a \in {OffsetInc(chip, at, from[i]) : i \in DOMAIN from}
                       |-> v[CHOOSE i \in DOMAIN from : OffsetInc(chip, at, from[i]) = a]] @@ mem
          /\ last' = (<<r, sn>> :> Masked(chip, r, v)) @@ last
  /\ copied' = {}
  /\ UNCHANGED <<planned, asked>>

(* wizchip_conf.c *)

NetRegisters == {"SHAR", "GAR", "SUBR", "SIPR"}

SetAll(m, c, values) ==   \* the set macros of several common registers
  FoldSet(LAMBDA r, acc : SetReg(acc, c, r, 0, values[r]), m, DOMAIN values)

\* Mutant: the subnet mask is not set again after the reset.
ResetForgetsMask(m, c) ==
  SetAll(AfterReset(c), c, [r \in NetRegisters \ {"SUBR"} |-> GetReg(m, c, r, 0)])

\* wizchip_sw_reset(): the addresses are read, MR.RST resets the chip, the addresses are set again.
Reset(m, c) == SetAll(AfterReset(c), c, [r \in NetRegisters |-> GetReg(m, c, r, 0)])

AddressesOnly(f) == Forget(f, {k \in DOMAIN f : k[1] \notin NetRegisters})

wizchip_sw_reset ==
  /\ Call
  /\ mem' = Reset(mem, chip)
  /\ last' = AddressesOnly(last)
  /\ planned' = {[tx |-> DefaultLayout(chip), rx |-> DefaultLayout(chip)]}
  /\ asked' = NothingAsked
  /\ copied' = {}

SizeOf(l, sn) == IF sn = 0 THEN l[1] ELSE l[2]

Int8(n) == ((n + 128) % 256) - 128

\* The sum so far, in an int8_t.
Tmp(c, l) ==
  LET t[k \in 0 .. SockNum(c)] == IF k = 0 THEN 0 ELSE Int8(t[k - 1] + SizeOf(l, k - 1)) IN t

\* Mutant: each size is compared with the limit instead of the sum.
AcceptedOneByOne(c, l) == \A sn \in Sockets(c) : SizeOf(l, sn) <= IF SockNum(c) = 8 THEN 16 ELSE 8

Accepted(c, l) ==
  CASE c = "W5300" -> /\ \A sn \in Sockets(c) : SizeOf(l, sn) < 64
                      /\ Tmp(c, l)[SockNum(c)] % 8 = 0
    [] c = "W5200" \/ c = "W5500" -> \A k \in 1 .. SockNum(c) : Tmp(c, l)[k] <= 16
    [] OTHER -> \A k \in 1 .. SockNum(c) : Tmp(c, l)[k] <= 8

\* The number of shifts that bring a size down to 1.
Shifts(n) == CHOOSE j \in 0..7 : n \div 2^j = 1

SizeCode(c, n) == IF c \in {"W5100", "W5100S"} THEN Shifts(n) ELSE n

\* The sizes of all sockets set; on the W5300 they are checked only.
SetSizes(m, c, r, l) ==
  IF c = "W5300" THEN m
  ELSE FoldSet(LAMBDA sn, acc : SetReg(acc, c, r, sn, <<Bits(SizeCode(c, SizeOf(l, sn)))>>),
               m, Sockets(c))

Honoured(c, l) == IF c = "W5300" THEN DefaultLayout(c) ELSE l

\* A size of zero has no logarithm: on the older chips the call is made with nonzero sizes only.
Callable(c, l) == c \in {"W5100", "W5100S"} => l[1] > 0 /\ l[2] > 0

wizchip_init ==
  /\ Call
  /\ \E tx, rx \in {l \in Layouts : Callable(chip, l)} :
       LET m0 == Reset(mem, chip)
           m1 == IF Accepted(chip, tx) THEN SetSizes(m0, chip, "Sn_TXBUF_SIZE", tx) ELSE m0
           both == Accepted(chip, tx) /\ Accepted(chip, rx)
       IN /\ mem' = IF both THEN SetSizes(m1, chip, "Sn_RXBUF_SIZE", rx) ELSE m1
          /\ planned' = {[tx |-> IF Accepted(chip, tx) THEN Honoured(chip, tx) ELSE DefaultLayout(chip),
                          rx |-> IF both THEN Honoured(chip, rx) ELSE DefaultLayout(chip)]}
  /\ last' = AddressesOnly(last)
  /\ asked' = NothingAsked
  /\ copied' = {}

\* The set macros of common registers, called by one of the functions below.
Setting(values) ==
  /\ Call
  /\ mem' = SetAll(mem, chip, values)
  /\ last' = [k \in {<<r, 0>> : r \in DOMAIN values} |-> Masked(chip, k[1], values[k[1]])] @@ last
  /\ copied' = {}
  /\ UNCHANGED planned

wizchip_setnetinfo ==
  /\ Setting([r \in NetRegisters |-> Value(r, Access[chip].rw[r])])
  /\ UNCHANGED asked

wizchip_settimeout ==
  /\ Setting([r \in {"RCR", "RTR"} |-> Value(r, Access[chip].rw[r])])
  /\ UNCHANGED asked

\* The mode bits are added to those in MR, taken as one byte; a bit outside the list is refused.
wizchip_setnetmode ==
  /\ Call
  /\ \E nm \in SUBSET (IF chip = "W5500" THEN {1, 3, 4, 5} ELSE {3, 4, 5}) :
       LET old == GetReg(mem, chip, "MR", 0)
           new == Append([i \in 1 .. Len(old) - 1 |-> {}], Last(old) \union nm)
       IN /\ mem' = SetReg(mem, chip, "MR", 0, new)
          /\ last' = (<<"MR", 0>> :> new) @@ last
  /\ copied' = {}
  /\ UNCHANGED <<planned, asked>>

\* Interrupts are numbered as in intr_kind: 4..7 the common ones, 8.. the sockets.
Kinds(c) ==
  CASE c = "W5500" -> 4..15
    [] c = "W5300" -> 5..15
    [] c = "W5200" -> {5, 7} \union 8..15
    [] c = "W5100S" -> 5..11
    [] OTHER -> {5, 6, 7} \union 8..11

Shift(bits, n) == {b - n : b \in bits}

MaskRegisters(c, intr) ==
  LET imr == (intr \intersect 4..7) \ (IF c = "W5500" THEN {} ELSE IF c = "W5200" THEN {4, 6} ELSE {4})
      simr == Shift(intr \intersect 8..15, 8)
  IN CASE c \in {"W5100", "W5100S"} -> [IMR |-> <<imr \union (simr \intersect 0..3)>>]
       [] c = "W5300" -> [IMR |-> <<imr, simr>>]
       [] OTHER -> [IMR |-> <<imr>>, SIMR |-> <<simr>>]

wizchip_setinterruptmask ==
  \E intr \in {Kinds(chip), {5, 8}, {7, 9}} :
    /\ Setting(MaskRegisters(chip, intr))
    /\ asked' = [asked EXCEPT !.mask = {intr}]

wizchip_getinterruptmask(m, c) ==
  LET v == GetReg(m, c, "IMR", 0)
      simr == CASE c \in {"W5100", "W5100S"} -> v[1] \intersect 0..3
                [] c = "W5300" -> v[2]
                [] OTHER -> GetReg(m, c, "SIMR", 0)[1]
  IN (v[1] \ (IF c = "W5500" THEN {} ELSE IF c = "W5200" THEN {4, 6} ELSE {4}))
       \union Shift(simr, -8)

\* setINTLEVEL() by ctlwizchip(CW_SET_INTRTIME)
CW_SET_INTRTIME ==
  /\ chip \in {"W5200", "W5500"}
  /\ Setting([INTLEVEL |-> Value("INTLEVEL", 2)])
  /\ UNCHANGED asked

\* A one written to an interrupt register clears that interrupt.
ClearBits(m, c, r, sn, v) ==
  LET old == GetReg(m, c, r, sn)
      w == Masked(c, r, v)
  IN SetReg(m, c, r, sn, [i \in DOMAIN old |-> old[i] \ w[i]])

\* The fragment MTU interrupt of the W5300 is cleared whether asked for or not.
AlsoCleared == IF chip = "W5300" THEN {4} ELSE {}

wizchip_clrinterrupt ==
  /\ Call
  /\ \E intr \in {Kinds(chip), {5, 8}, {7, 9}} :
       LET ir == (intr \intersect 4..7) \union (IF chip = "W5500" THEN {} ELSE {4})
                   \union (IF chip = "W5200" THEN {6} ELSE {})
           sir == Shift(intr \intersect 8..15, 8)
           word == CASE chip = "W5300" -> <<ir, sir>>
                     [] chip \in {"W5100", "W5100S"} -> <<ir \union (sir \intersect 0..3)>>
                     [] OTHER -> <<ir>>
           common == ClearBits(mem, chip, "IR", 0, word)
           sockets == IF chip \in {"W5200", "W5500"} THEN sir ELSE {}
           cleared == {<<"Sn_IR", sn>> : sn \in sockets}
       IN /\ mem' = FoldSet(LAMBDA sn, acc : ClearBits(acc, chip, "Sn_IR", sn, <<0..7>>), common, sockets)
          /\ last' = [k \in DOMAIN last |->
                        CASE k \in cleared -> <<{}>>
                          [] k[1] = "IR" -> [i \in DOMAIN last[k] |->
                               last[k][i] \ (IF i = 1 THEN (intr \intersect 4..7) \union AlsoCleared ELSE sir)]
                          [] OTHER -> last[k]]
  /\ copied' = {}
  /\ UNCHANGED <<planned, asked>>

(* The PHY: PHYCFGR on the W5500, the BMCR register behind the MDIO interface on the W5100S *)

PhyConf == [by : {"HW", "SW"}, mode : {"AUTONEGO", "MANUAL"}, speed : {10, 100}, duplex : {"FULL", "HALF"}]

OPMDC == 3..5
ALLA == 3..5
PDOWN == {4, 5}
\* Mutant: full and half duplex exchanged at 100 Mbit/s.
ManualSwapped == [s \in {10, 100}, d \in {"FULL", "HALF"} |->
             IF s = 100 THEN IF d = "FULL" THEN {4} ELSE {3, 4}
             ELSE IF d = "FULL" THEN {3} ELSE {}]
Manual == [s \in {10, 100}, d \in {"FULL", "HALF"} |->
             IF s = 100 THEN IF d = "FULL" THEN {3, 4} ELSE {4}
             ELSE IF d = "FULL" THEN {3} ELSE {}]

\* wizphy_reset() of the W5500: the reset bit, low active, is pulsed; the rest of PHYCFGR stays.
PhyReset(phycfgr) == phycfgr \union {7}

BMCR == -1   \* stands for the address of BMCR inside the PHY

\* wiz_mdio_read() and wiz_mdio_write() of BMCR: the register number, the data and a command.
MdioRead(m) ==
  LET c == "W5100S" IN SetReg(SetReg(m, c, "PHYRAR", 0, <<{}>>), c, "PHYDOR", 0,
                              <<Shift(Byte(m, BMCR) \intersect 8..15, 8), Byte(m, BMCR) \intersect 0..7>>)

MdioWrite(m, v) ==
  LET c == "W5100S"
      r == SetReg(m, c, "PHYRAR", 0, <<{}>>)
  IN (BMCR :> v) @@ SetReg(r, c, "PHYDIR", 0, <<v \intersect 0..7, Shift(v \intersect 8..15, 8)>>)

MdioScratch == {<<"PHYRAR", 0>>, <<"PHYDIR", 0>>, <<"PHYDOR", 0>>}

SPEED == 13
AUTONEGO == 12
PWDN == 11
DUP == 8

wizphy_setphyconf ==
  /\ Call
  /\ \E conf \in PhyConf :
       /\ \/ /\ chip = "W5500"
             /\ mem' = SetReg(mem, chip, "PHYCFGR", 0,
                  <<PhyReset((IF conf.by = "SW" THEN {6} ELSE {})
                     \union (IF conf.mode = "AUTONEGO" THEN ALLA ELSE Manual[conf.speed, conf.duplex]))>>)
             /\ last' = Forget(last, {<<"PHYCFGR", 0>>})
             /\ asked' = [asked EXCEPT !.phy = {conf}, !.power = Unset]
          \/ /\ chip = "W5100S"
             /\ LET old == Byte(mem, BMCR)
                    new == IF conf.mode = "AUTONEGO" THEN old \union {AUTONEGO}
                           ELSE (old \ {AUTONEGO, DUP, SPEED})
                                  \union (IF conf.duplex = "FULL" THEN {DUP} ELSE {})
                                  \union (IF conf.speed = 100 THEN {SPEED} ELSE {})
                IN mem' = MdioWrite(MdioRead(mem), new)
             /\ last' = Forget(last, MdioScratch)
             /\ asked' = [asked EXCEPT !.phy = {conf}]
  /\ copied' = {}
  /\ UNCHANGED planned

\* wizphy_getphyconf(); what it leaves as it was is Unset.
wizphy_getphyconf(m, c) ==
  LET cfg == GetReg(m, c, "PHYCFGR", 0)[1]
      op == cfg \intersect OPMDC
      bmcr == Byte(m, BMCR)
      auto == AUTONEGO \in bmcr
  IN IF c = "W5500"
     THEN [by |-> IF 6 \in cfg THEN "SW" ELSE "HW",
           mode |-> IF op \in {ALLA, {5}} THEN "AUTONEGO" ELSE "MANUAL",
           speed |-> IF op \in {{5}, {3, 4}, {4}} THEN 100 ELSE 10,
           duplex |-> IF op \in {{5}, {3, 4}, {3}} THEN "FULL" ELSE "HALF"]
     ELSE [by |-> "SW",
           mode |-> IF auto THEN "AUTONEGO" ELSE "MANUAL",
           speed |-> IF auto THEN Unset ELSE IF SPEED \in bmcr THEN 100 ELSE 10,
           duplex |-> IF auto THEN Unset ELSE IF DUP \in bmcr THEN "FULL" ELSE "HALF"]

\* On the W5500 only a PHY configured by software changes; normal power means auto-negotiation.
wizphy_setphypmode ==
  /\ Call
  /\ \E down \in BOOLEAN :
       \/ /\ chip = "W5500"
          /\ LET cfg == GetReg(mem, chip, "PHYCFGR", 0)[1]
             IN IF 6 \notin cfg THEN UNCHANGED <<mem, last, asked>>
                ELSE /\ mem' = SetReg(mem, chip, "PHYCFGR", 0,
                                 <<PhyReset((cfg \ OPMDC) \union (IF down THEN PDOWN ELSE ALLA))>>)
                     /\ last' = Forget(last, {<<"PHYCFGR", 0>>})
                     /\ asked' = [asked EXCEPT !.phy = Unset, !.power = {down}]
       \/ /\ chip = "W5100S"
          /\ LET old == Byte(mem, BMCR)
             IN mem' = MdioRead(MdioWrite(MdioRead(mem), IF down THEN old \union {PWDN} ELSE old \ {PWDN}))
          /\ last' = Forget(last, MdioScratch)
          /\ asked' = [asked EXCEPT !.power = {down}]
  /\ copied' = {}
  /\ UNCHANGED planned

wizphy_getphypmode(m, c) == GetReg(m, c, "PHYCFGR", 0)[1] \intersect OPMDC = PDOWN

\* On the W5100S the PHY returns to its defaults; the W5500 keeps its configuration.
wizphy_reset ==
  /\ Call
  /\ \/ /\ chip = "W5500"
        /\ mem' = SetReg(mem, chip, "PHYCFGR", 0, <<PhyReset(GetReg(mem, chip, "PHYCFGR", 0)[1])>>)
        /\ last' = Forget(last, {<<"PHYCFGR", 0>>})
        /\ UNCHANGED asked
     \/ /\ chip = "W5100S"
        /\ mem' = MdioRead(MdioWrite(MdioRead(mem), {}))
        /\ last' = Forget(last, MdioScratch)
        /\ asked' = [asked EXCEPT !.phy = Unset, !.power = Unset]
  /\ copied' = {}
  /\ UNCHANGED planned

(* Copying between the host and the buffers of a socket *)

\* A transfer is the last call of a behaviour.
Transfer(pointer, base, max, sn) ==
  /\ calls <= MaxCalls
  /\ calls' = MaxCalls + 1
  /\ UNCHANGED chip
  /\ max > 0
  /\ \E len \in {1, max} :
       LET ptr == Num16(GetReg(mem, chip, pointer, sn))
           next == (ptr + len) % 65536
           v == <<Bits(next \div 256), Bits(next % 256)>>
       IN /\ copied' = Pieces(base, max, ptr, len)
          /\ mem' = SetReg(mem, chip, pointer, sn, v)
          /\ last' = (<<pointer, sn>> :> v) @@ last
  /\ UNCHANGED <<planned, asked>>

\* wiz_send_data() and wiz_recv_data() where the driver computes the addresses.
wiz_send_data ==
  /\ chip \in Flat
  /\ \E sn \in Indexes(chip, "Sn_TX_WR") :
       Transfer("Sn_TX_WR", TxBASE(mem, chip, sn), TxMAX(mem, chip, sn), sn)

wiz_recv_data ==
  /\ chip \in Flat
  /\ \E sn \in Indexes(chip, "Sn_RX_RD") :
       Transfer("Sn_RX_RD", RxBASE(mem, chip, sn), RxMAX(mem, chip, sn), sn)

\* The calls of a behaviour are over.
Finished == calls >= MaxCalls /\ UNCHANGED vars

Next ==
  \/ SetMacro \/ ChipChanges
  \/ wizchip_sw_reset \/ wizchip_init
  \/ wizchip_setnetinfo \/ wizchip_settimeout \/ wizchip_setnetmode
  \/ wizchip_setinterruptmask \/ CW_SET_INTRTIME \/ wizchip_clrinterrupt
  \/ wizphy_setphyconf \/ wizphy_setphypmode \/ wizphy_reset
  \/ wiz_send_data \/ wiz_recv_data
  \/ Finished

Spec == Init /\ [][Next]_vars

-----------------------------------------------------------------------------

\* Accessor pairs that do not give back what was set, whatever happens in between: setSn_DHAR() of
\* the W5300 repeats the first two bytes, its getSn_TX_WRSR() reads one byte further instead of
\* two, and the W5100S writes and reads PHYDOR in opposite byte orders.
Unequal == {<<"W5300", "Sn_DHAR">>, <<"W5300", "Sn_TX_WRSR">>, <<"W5100S", "PHYDOR">>}

(***************************************************************************)
(* Every register keeps what was last stored in it: no accessor of a chip  *)
(* touches a byte of another register or of another socket, and the        *)
(* functions of wizchip_conf.c change only what they are about.  In        *)
(* particular the addresses survive wizchip_sw_reset() and wizchip_init(), *)
(* and wizchip_clrinterrupt() leaves other interrupts pending, save for    *)
(* AlsoCleared.                                                            *)
(***************************************************************************)
RegistersKept ==
  \A k \in DOMAIN last :
    <<chip, k[1]>> \notin Unequal => GetReg(mem, chip, k[1], k[2]) = last[k]

MaxTotal(c) ==
  CASE c = "W5300" -> 64 * KB
    [] c = "W5200" \/ c = "W5500" -> 16 * KB
    [] OTHER -> 8 * KB

TxTotal == MapThenSumSet(LAMBDA sn : TxMAX(mem, chip, sn), Sockets(chip))
RxTotal == MapThenSumSet(LAMBDA sn : RxMAX(mem, chip, sn), Sockets(chip))

(***************************************************************************)
(* As long as only wizchip_init() deals out the buffer memory, each socket *)
(* has the windows it was given, the windows fit into the chip's memory,   *)
(* also after a call that failed halfway, and a copy to or from a socket's *)
(* buffer, wrapped at its end, stays inside the window of one socket.      *)
(***************************************************************************)
WindowsHold ==
  \A p \in planned :
    /\ \A sn \in Sockets(chip) : /\ TxMAX(mem, chip, sn) = KB * SizeOf(p.tx, sn)
                                 /\ RxMAX(mem, chip, sn) = KB * SizeOf(p.rx, sn)
    /\ TxTotal <= MaxTotal(chip) /\ RxTotal <= MaxTotal(chip)
    /\ copied # {} =>
         \E sn \in Sockets(chip) :
           \/ \A piece \in copied : Inside(piece, TxBASE(mem, chip, sn), TxMAX(mem, chip, sn))
           \/ \A piece \in copied : Inside(piece, RxBASE(mem, chip, sn), RxMAX(mem, chip, sn))

(***************************************************************************)
(* What the set functions of wizchip_conf.c are given, the get functions   *)
(* give back: the interrupt mask (the kinds the chip has, and on the W5300 *)
(* without fragment MTU), the PHY configuration and the power mode of the  *)
(* PHY, through all other calls up to the next reset.                      *)
(***************************************************************************)
SettingsReadBack ==
  /\ \A intr \in asked.mask :
       wizchip_getinterruptmask(mem, chip) \intersect Kinds(chip) = intr
  /\ \A phy \in asked.phy :
       LET conf == wizphy_getphyconf(mem, chip)
       IN /\ conf.mode = phy.mode
          /\ chip = "W5500" => conf.by = phy.by
          /\ conf.mode = "MANUAL" => conf.speed = phy.speed /\ conf.duplex = phy.duplex
  /\ chip = "W5500" => \A down \in asked.power : wizphy_getphypmode(mem, chip) = down

=============================================================================
