--------------------------- MODULE ChipRegisters ---------------------------
(***************************************************************************)
(* The register maps of the five chips the driver is written for, and the  *)
(* accessor macros over them.  An address record gives the offset of each  *)
(* register from the start of its block; an accessor record gives the      *)
(* width in bytes of what the get and set macros move: rw for the          *)
(* registers the host writes and reads back, hw for those the chip itself  *)
(* changes (commands, interrupts, statuses).  Macros that name a register  *)
(* no header defines do not compile and are left out.                      *)
(***************************************************************************)
EXTENDS Integers, SequencesExt

Chips == {"W5100", "W5100S", "W5200", "W5300", "W5500"}

Merge(a, b) == [rw |-> a.rw @@ b.rw, hw |-> a.hw @@ b.hw]

MergeAll(parts) == FoldLeft(Merge, [rw |-> << >>, hw |-> << >>], parts)

(* W5100 *)

W5100_Common ==
  [MR |-> 0, GAR |-> 1, SUBR |-> 5, SHAR |-> 9, SIPR |-> 15, IR |-> 21, IMR |-> 22, RTR |-> 23,
   RCR |-> 25, RMSR |-> 26, TMSR |-> 27, PATR |-> 28, PTIMER |-> 40, PMAGIC |-> 41]

W5100_Sn_Control ==
  [Sn_MR |-> 0, Sn_CR |-> 1, Sn_IR |-> 2, Sn_SR |-> 3, Sn_PORT |-> 4, Sn_DHAR |-> 6,
   Sn_DIPR |-> 12, Sn_DPORT |-> 16, Sn_MSSR |-> 18, Sn_PROTO |-> 20, Sn_TOS |-> 21]

W5100_Sn_Buffer ==
  [Sn_TTL |-> 22, Sn_TX_FSR |-> 32, Sn_TX_RD |-> 34, Sn_TX_WR |-> 36, Sn_RX_RSR |-> 38,
   Sn_RX_RD |-> 40, Sn_RX_WR |-> 42]

W5100_CommonAccess ==
  [rw |-> [GAR |-> 4, SUBR |-> 4, SHAR |-> 6, SIPR |-> 4, IMR |-> 1], hw |-> [MR |-> 1, IR |-> 1]]

W5100_TimerAccess ==
  [rw |-> [RTR |-> 2, RCR |-> 1, PTIMER |-> 1, PMAGIC |-> 1], hw |-> [PATR |-> 2]]

W5100_Sn_ControlAccess ==
  [rw |-> [Sn_MR |-> 1, Sn_PORT |-> 2, Sn_DHAR |-> 6, Sn_DIPR |-> 4, Sn_DPORT |-> 2],
   hw |-> [Sn_CR |-> 1, Sn_IR |-> 1, Sn_SR |-> 1]]

W5100_Sn_OptionAccess ==
  [rw |-> [Sn_MSSR |-> 2, Sn_TOS |-> 1, Sn_TTL |-> 1, Sn_RXBUF_SIZE |-> 1, Sn_TXBUF_SIZE |-> 1],
   hw |-> << >>]

W5100_Sn_BufferAccess ==
  [rw |-> [Sn_TX_WR |-> 2, Sn_RX_RD |-> 2, Sn_RX_WR |-> 2],
   hw |-> [Sn_TX_FSR |-> 2, Sn_TX_RD |-> 2, Sn_RX_RSR |-> 2]]

(* W5100S *)

W5100S_Common ==
  [MR |-> 0, GAR |-> 1, SUBR |-> 5, SHAR |-> 9, SIPR |-> 15, IR |-> 21, IMR |-> 22, RTR |-> 23,
   RCR |-> 25, RMSR |-> 26, TMSR |-> 27, IR2 |-> 32, IMR2 |-> 33]

W5100S_Services ==
  [PTIMER |-> 40, PMAGIC |-> 41, UIPR |-> 42, UPORTR |-> 46, MR2 |-> 48, PHAR |-> 50,
   PSIDR |-> 56, PMRUR |-> 58, PHYSR |-> 60, PHYSR1 |-> 61, PHYAR |-> 62, PHYRAR |-> 63,
   PHYDIR |-> 64, PHYDOR |-> 66, PHYACR |-> 68, PHYDIVR |-> 69, PHYCR0 |-> 70, PHYCR1 |-> 71]

W5100S_Socketless ==
  [SLRTR |-> 77, SLRCR |-> 79, SLPIPR |-> 80, SLPHAR |-> 84, PINGSEQR |-> 90, PINGIDR |-> 92,
   SLIMR |-> 94, SLIR |-> 95, NICMAXCOLR |-> 99, VERR |-> 128, TCNTR |-> 130]

W5100S_Sn_Control ==
  [Sn_MR |-> 0, Sn_CR |-> 1, Sn_IR |-> 2, Sn_SR |-> 3, Sn_PORT |-> 4, Sn_DHAR |-> 6,
   Sn_DIPR |-> 12, Sn_DPORT |-> 16, Sn_MSSR |-> 18, Sn_PROTO |-> 20, Sn_TOS |-> 21, Sn_TTL |-> 22]

W5100S_Sn_Buffer ==
  [Sn_TX_FSR |-> 32, Sn_TX_RD |-> 34, Sn_TX_WR |-> 36, Sn_RX_RSR |-> 38, Sn_RX_RD |-> 40,
   Sn_RX_WR |-> 42, Sn_IMR |-> 44, Sn_FRAGR |-> 45, Sn_MR2 |-> 47, Sn_KPALVTR |-> 48,
   Sn_RTR |-> 50, Sn_RCR |-> 52]

W5100S_CommonAccess ==
  [rw |-> [GAR |-> 4, SUBR |-> 4, SHAR |-> 6, SIPR |-> 4, IMR |-> 1], hw |-> [MR |-> 1, IR |-> 1]]

W5100S_TimerAccess ==
  [rw |-> [RTR |-> 2, RCR |-> 1, PTIMER |-> 1, PMAGIC |-> 1], hw |-> << >>]

W5100S_ServiceAccess ==
  [rw |-> [IMR2 |-> 1, UIPR |-> 4, UPORTR |-> 2, MR2 |-> 1, PHAR |-> 6, PSIDR |-> 2, PMRUR |-> 2],
   hw |-> [IR2 |-> 1]]

W5100S_PhyAccess ==
  [rw |-> [PHYRAR |-> 1, PHYDIR |-> 2, PHYDOR |-> 2, PHYDIVR |-> 1],
   hw |-> [PHYSR |-> 1, PHYSR1 |-> 1, PHYAR |-> 1, PHYACR |-> 1]]

W5100S_SocketlessAccess ==
  [rw |-> [PHYCR0 |-> 1, PHYCR1 |-> 1, SLRTR |-> 2, SLRCR |-> 1, SLPIPR |-> 4, SLPHAR |-> 6,
           PINGSEQR |-> 2],
   hw |-> << >>]

W5100S_LockAccess ==
  [rw |-> [PINGIDR |-> 2, SLIMR |-> 1, NICMAXCOLR |-> 1],
   hw |-> [SLIR |-> 1, VERR |-> 1, TCNTR |-> 2]]

W5100S_Sn_ControlAccess ==
  [rw |-> [Sn_MR |-> 1, Sn_PORT |-> 2, Sn_DHAR |-> 6, Sn_DIPR |-> 4, Sn_DPORT |-> 2],
   hw |-> [Sn_CR |-> 1, Sn_IR |-> 1, Sn_SR |-> 1]]

W5100S_Sn_OptionAccess ==
  [rw |-> [Sn_MSSR |-> 2, Sn_PROTO |-> 1, Sn_TOS |-> 1, Sn_TTL |-> 1, Sn_RXBUF_SIZE |-> 1,
           Sn_TXBUF_SIZE |-> 1],
   hw |-> << >>]

W5100S_Sn_BufferAccess ==
  [rw |-> [Sn_TX_WR |-> 2, Sn_RX_RD |-> 2, Sn_RX_WR |-> 2, Sn_FRAGR |-> 2],
   hw |-> [Sn_TX_FSR |-> 2, Sn_TX_RD |-> 2, Sn_RX_RSR |-> 2]]

W5100S_Sn_TimerAccess ==
  [rw |-> [Sn_IMR |-> 1, Sn_MR2 |-> 1, Sn_KPALVTR |-> 1, Sn_RTR |-> 2, Sn_RCR |-> 1], hw |-> << >>]

(* W5200 *)

W5200_Common ==
  [MR |-> 0, GAR |-> 1, SUBR |-> 5, SHAR |-> 9, SIPR |-> 15, IR |-> 21, IMR |-> 22, RTR |-> 23,
   RCR |-> 25, PATR |-> 28, PPPALGO |-> 30, VERSIONR |-> 31, PTIMER |-> 40, PMAGIC |-> 41,
   INTLEVEL |-> 48]

W5200_Interrupts == [IR2 |-> 52, PHYSTATUS |-> 53, IMR2 |-> 54]

W5200_Sn_Control ==
  [Sn_MR |-> 0, Sn_CR |-> 1, Sn_IR |-> 2, Sn_SR |-> 3, Sn_PORT |-> 4, Sn_DHAR |-> 6,
   Sn_DIPR |-> 12, Sn_DPORT |-> 16, Sn_MSSR |-> 18, Sn_PROTO |-> 20, Sn_TOS |-> 21, Sn_TTL |-> 22]

W5200_Sn_Buffer ==
  [Sn_RXBUF_SIZE |-> 30, Sn_TXBUF_SIZE |-> 31, Sn_TX_FSR |-> 32, Sn_TX_RD |-> 34,
   Sn_TX_WR |-> 36, Sn_RX_RSR |-> 38, Sn_RX_RD |-> 40, Sn_RX_WR |-> 42, Sn_IMR |-> 44,
   Sn_FRAG |-> 45]

W5200_CommonAccess ==
  [rw |-> [GAR |-> 4, SUBR |-> 4, SHAR |-> 6, SIPR |-> 4, IMR |-> 1], hw |-> [MR |-> 1, IR |-> 1]]

W5200_TimerAccess ==
  [rw |-> [RTR |-> 2, RCR |-> 1, PTIMER |-> 1, PMAGIC |-> 1, INTLEVEL |-> 2],
   hw |-> [PATR |-> 2, PPPALGO |-> 1, VERSIONR |-> 1]]

W5200_InterruptAccess == [rw |-> [SIMR |-> 1], hw |-> [SIR |-> 1, PHYSTATUS |-> 1]]

W5200_Sn_ControlAccess ==
  [rw |-> [Sn_MR |-> 1, Sn_IMR |-> 1, Sn_PORT |-> 2, Sn_DHAR |-> 6, Sn_DIPR |-> 4],
   hw |-> [Sn_CR |-> 1, Sn_IR |-> 1, Sn_SR |-> 1]]

W5200_Sn_OptionAccess ==
  [rw |-> [Sn_DPORT |-> 2, Sn_MSSR |-> 2, Sn_PROTO |-> 1, Sn_TOS |-> 1, Sn_TTL |-> 1,
           Sn_RXBUF_SIZE |-> 1, Sn_TXBUF_SIZE |-> 1],
   hw |-> << >>]

W5200_Sn_BufferAccess ==
  [rw |-> [Sn_TX_WR |-> 2, Sn_RX_RD |-> 2, Sn_RX_WR |-> 2, Sn_FRAG |-> 2],
   hw |-> [Sn_TX_FSR |-> 2, Sn_TX_RD |-> 2, Sn_RX_RSR |-> 2]]

\* On this chip the socket mask is at IMR and the mask of the common interrupts at IMR2.
W5200_Target == [IMR |-> "IMR2", SIMR |-> "IMR", SIR |-> "IR2"]

(* W5300 *)

W5300_Common ==
  [MR |-> 0, IR |-> 2, IMR |-> 4, SHAR |-> 8, GAR |-> 16, SUBR |-> 20, SIPR |-> 24, RTR |-> 28,
   RCR |-> 30]

W5300_Memory == [TMS01R |-> 32, RMS01R |-> 40]

W5300_Services ==
  [MTYPER |-> 48, PATR |-> 50, PTIMER |-> 54, PMAGICR |-> 56, PSIDR |-> 60, PDHAR |-> 64, UIPR |-> 72,
   UPORTR |-> 76, FMTUR |-> 78, Pn_BRDYR |-> 96, Pn_BDPTHR |-> 98, IDR |-> 254]

W5300_Sn_Control ==
  [Sn_MR |-> 0, Sn_CR |-> 2, Sn_IMR |-> 4, Sn_IR |-> 6, Sn_SSR |-> 8, Sn_PORTR |-> 10,
   Sn_DHAR |-> 12, Sn_DPORTR |-> 18, Sn_DIPR |-> 20, Sn_MSSR |-> 24, Sn_KPALVTR |-> 26]

W5300_Sn_Buffer ==
  [Sn_PROTOR |-> 26, Sn_TOSR |-> 28, Sn_TTLR |-> 30, Sn_TX_WRSR |-> 32, Sn_TX_FSR |-> 36,
   Sn_RX_RSR |-> 40, Sn_FRAGR |-> 44]

W5300_CommonAccess ==
  [rw |-> [IMR |-> 2, SHAR |-> 6, GAR |-> 4, SUBR |-> 4], hw |-> [MR |-> 2, IR |-> 2]]

W5300_MemoryAccess ==
  [rw |-> [SIPR |-> 4, RTR |-> 2, RCR |-> 1, Sn_TXBUF_SIZE |-> 1], hw |-> << >>]

W5300_ServiceAccess ==
  [rw |-> [Sn_RXBUF_SIZE |-> 1, MTYPER |-> 2, PTIMER |-> 1], hw |-> [PATR |-> 2]]

W5300_PinAccess ==
  [rw |-> [Pn_BRDYR |-> 1, Pn_BDPTHR |-> 2],
   hw |-> [PSIDR |-> 2, PDHAR |-> 6, UIPR |-> 4, UPORTR |-> 2, FMTUR |-> 2, IDR |-> 2]]

W5300_Sn_ControlAccess ==
  [rw |-> [Sn_MR |-> 2, Sn_IMR |-> 1, Sn_PORTR |-> 2, Sn_DHAR |-> 6],
   hw |-> [Sn_CR |-> 1, Sn_IR |-> 1, Sn_SSR |-> 1]]

W5300_Sn_OptionAccess ==
  [rw |-> [Sn_DPORTR |-> 2, Sn_DIPR |-> 4, Sn_MSSR |-> 2, Sn_KPALVTR |-> 1, Sn_PROTOR |-> 1,
           Sn_TX_WRSR |-> 4],
   hw |-> << >>]

W5300_Sn_BufferAccess ==
  [rw |-> [Sn_TOSR |-> 1, Sn_TTLR |-> 1, Sn_FRAGR |-> 1], hw |-> [Sn_TX_FSR |-> 4, Sn_RX_RSR |-> 4]]

(* W5500 *)

W5500_Common ==
  [MR |-> 0, GAR |-> 1, SUBR |-> 5, SHAR |-> 9, SIPR |-> 15, INTLEVEL |-> 19, IR |-> 21,
   IMR |-> 22, SIR |-> 23, SIMR |-> 24, RTR |-> 25, RCR |-> 27, PTIMER |-> 28, PMAGIC |-> 29,
   PHAR |-> 30, PSID |-> 36, PMRU |-> 38]

W5500_Services == [UIPR |-> 40, UPORTR |-> 44, PHYCFGR |-> 46, VERSIONR |-> 57]

W5500_Sn_Control ==
  [Sn_MR |-> 0, Sn_CR |-> 1, Sn_IR |-> 2, Sn_SR |-> 3, Sn_PORT |-> 4, Sn_DHAR |-> 6,
   Sn_DIPR |-> 12, Sn_DPORT |-> 16, Sn_MSSR |-> 18, Sn_TOS |-> 21, Sn_TTL |-> 22,
   Sn_RXBUF_SIZE |-> 30]

W5500_Sn_Buffer ==
  [Sn_TXBUF_SIZE |-> 31, Sn_TX_FSR |-> 32, Sn_TX_RD |-> 34, Sn_TX_WR |-> 36, Sn_RX_RSR |-> 38,
   Sn_RX_RD |-> 40, Sn_RX_WR |-> 42, Sn_IMR |-> 44, Sn_FRAG |-> 45, Sn_KPALVTR |-> 47]

W5500_CommonAccess ==
  [rw |-> [GAR |-> 4, SUBR |-> 4, SHAR |-> 6, SIPR |-> 4, INTLEVEL |-> 2, IMR |-> 1],
   hw |-> [MR |-> 1, IR |-> 1]]

W5500_TimerAccess ==
  [rw |-> [SIMR |-> 1, RTR |-> 2, RCR |-> 1, PTIMER |-> 1, PMAGIC |-> 1, PHAR |-> 6],
   hw |-> [SIR |-> 1]]

W5500_PhyAccess ==
  [rw |-> [PSID |-> 2, PMRU |-> 2, PHYCFGR |-> 1], hw |-> [UIPR |-> 4, UPORTR |-> 2, VERSIONR |-> 1]]

W5500_Sn_ControlAccess ==
  [rw |-> [Sn_MR |-> 1, Sn_IMR |-> 1, Sn_PORT |-> 2, Sn_DHAR |-> 6, Sn_DIPR |-> 4],
   hw |-> [Sn_CR |-> 1, Sn_IR |-> 1, Sn_SR |-> 1]]

W5500_Sn_OptionAccess ==
  [rw |-> [Sn_DPORT |-> 2, Sn_MSSR |-> 2, Sn_TOS |-> 1, Sn_TTL |-> 1, Sn_RXBUF_SIZE |-> 1,
           Sn_TXBUF_SIZE |-> 1],
   hw |-> << >>]

W5500_Sn_BufferAccess ==
  [rw |-> [Sn_TX_WR |-> 2, Sn_RX_RD |-> 2, Sn_FRAG |-> 2, Sn_KPALVTR |-> 1],
   hw |-> [Sn_TX_FSR |-> 2, Sn_TX_RD |-> 2, Sn_RX_RSR |-> 2, Sn_RX_WR |-> 2]]

(* The maps of all chips *)

CommonAt ==
  [W5100 |-> W5100_Common,
   W5100S |-> W5100S_Common @@ W5100S_Services @@ W5100S_Socketless,
   W5200 |-> W5200_Common @@ W5200_Interrupts,
   W5300 |-> W5300_Common @@ W5300_Memory @@ W5300_Services,
   W5500 |-> W5500_Common @@ W5500_Services]

SocketAt ==
  [W5100 |-> W5100_Sn_Control @@ W5100_Sn_Buffer, W5100S |-> W5100S_Sn_Control @@ W5100S_Sn_Buffer,
   W5200 |-> W5200_Sn_Control @@ W5200_Sn_Buffer, W5300 |-> W5300_Sn_Control @@ W5300_Sn_Buffer,
   W5500 |-> W5500_Sn_Control @@ W5500_Sn_Buffer]

Access ==
  [W5100 |-> MergeAll(<<W5100_CommonAccess, W5100_TimerAccess, W5100_Sn_ControlAccess,
                        W5100_Sn_OptionAccess, W5100_Sn_BufferAccess>>),
   W5100S |-> MergeAll(<<W5100S_CommonAccess, W5100S_TimerAccess, W5100S_ServiceAccess,
                         W5100S_PhyAccess, W5100S_SocketlessAccess, W5100S_LockAccess,
                         W5100S_Sn_ControlAccess, W5100S_Sn_OptionAccess,
                         W5100S_Sn_BufferAccess, W5100S_Sn_TimerAccess>>),
   W5200 |-> MergeAll(<<W5200_CommonAccess, W5200_TimerAccess, W5200_InterruptAccess,
                        W5200_Sn_ControlAccess, W5200_Sn_OptionAccess, W5200_Sn_BufferAccess>>),
   W5300 |-> MergeAll(<<W5300_CommonAccess, W5300_MemoryAccess, W5300_ServiceAccess,
                        W5300_PinAccess, W5300_Sn_ControlAccess, W5300_Sn_OptionAccess,
                        W5300_Sn_BufferAccess>>),
   W5500 |-> MergeAll(<<W5500_CommonAccess, W5500_TimerAccess, W5500_PhyAccess,
                        W5500_Sn_ControlAccess, W5500_Sn_OptionAccess, W5500_Sn_BufferAccess>>)]

\* The register a macro pair really names, where it is not the one the pair is called after.
Target(c, r) ==
  IF c = "W5200" /\ r \in DOMAIN W5200_Target THEN W5200_Target[r] ELSE r

=============================================================================
