---------------------------- MODULE SizeRegister ----------------------------
(***************************************************************************)
(* The 16-bit size registers Sn_TX_FSR and Sn_RX_RSR are read over SPI one *)
(* byte at a time while the chip keeps updating them.  getSn_TX_FSR and    *)
(* getSn_RX_RSR (W5500/w5500.c) are the same loop: read the register,      *)
(* and unless it was zero read it a second time, until both readings       *)
(* agree.  This module is that loop against a register that the chip may   *)
(* change between any two byte reads.                                      *)
(*                                                                         *)
(* A register value is the pair <<hi, lo>> of its bytes.  While a read is  *)
(* under way the register only grows: free TX space grows with every ACK,  *)
(* received data with every segment; it is the host's own SEND and RECV    *)
(* commands, never issued during a read, that lower it.                    *)
(***************************************************************************)
EXTENDS Naturals

CONSTANT ByteMax    \* the largest value of a byte (255 in the chip)

ASSUME ByteMaxAssumption == ByteMax \in Nat \ {0}

Byte == 0 .. ByteMax
Word == Byte \X Byte

Zero == <<0, 0>>

\* The order of the 16-bit values, byte by byte.
Leq(v, w) == v[1] < w[1] \/ (v[1] = w[1] /\ v[2] <= w[2])

VARIABLES
  reading,      \* the next step of the reader, or "idle"
  reg,     \* the register
  val1,    \* the first reading of a round; its low byte is stale until "lo1" is done
  val,     \* the second reading; kept from round to round, as in the code
  result,  \* the value the last call returned
  at1      \* history: the register when the first reading of the round ended

registerVars == <<reading, reg, val1, val, result, at1>>

RegisterInit ==
  /\ reading = "idle"
  /\ reg \in Word
  /\ val1 = Zero /\ val = Zero /\ result = Zero
  /\ at1 = reg

-----------------------------------------------------------------------------
(* The reader: one step per byte read.                                     *)

Call ==
  /\ reading = "idle"
  /\ reading' = "hi1"
  /\ val1' = Zero /\ val' = Zero
  /\ UNCHANGED <<reg, result, at1>>

ReadHi1 ==
  /\ reading = "hi1"
  /\ reading' = "lo1"
  /\ val1' = <<reg[1], val1[2]>>
  /\ UNCHANGED <<reg, val, result, at1>>

\* Mutant: The comparison is inverted: the loop goes on while the readings agree.
FinishInverted(v, v1) ==
  IF v # v1
  THEN reading' = "idle" /\ result' = v
  ELSE reading' = "hi1" /\ UNCHANGED result

\* The loop's exit test: both readings agree.
Finish(v, v1) ==
  IF v = v1
  THEN reading' = "idle" /\ result' = v
  ELSE reading' = "hi1" /\ UNCHANGED result

\* Mutant: Return after the first reading.
ReadLo1Unconfirmed ==
  /\ reading = "lo1"
  /\ val1' = <<val1[1], reg[2]>>
  /\ at1' = reg
  /\ reading' = "idle" /\ result' = val1'
  /\ UNCHANGED <<reg, val>>

\* A first reading of zero is not confirmed by a second one.
ReadLo1 ==
  /\ reading = "lo1"
  /\ val1' = <<val1[1], reg[2]>>
  /\ at1' = reg
  /\ IF val1' # Zero
     THEN reading' = "hi2" /\ UNCHANGED result
     ELSE Finish(val, val1')
  /\ UNCHANGED <<reg, val>>

ReadHi2 ==
  /\ reading = "hi2"
  /\ reading' = "lo2"
  /\ val' = <<reg[1], val[2]>>
  /\ UNCHANGED <<reg, val1, result, at1>>

\* Mutant: The second pass reads only the high byte again, and nothing is compared.
ReadLo2HighOnly ==
  /\ reading = "lo2"
  /\ val' = <<reg[1], val1[2]>>
  /\ reading' = "idle" /\ result' = val'
  /\ UNCHANGED <<reg, val1, at1>>

ReadLo2 ==
  /\ reading = "lo2"
  /\ val' = <<val[1], reg[2]>>
  /\ Finish(val', val1)
  /\ UNCHANGED <<reg, val1, at1>>

-----------------------------------------------------------------------------
(* The chip.                                                               *)

\* An ACK frees TX space, or a segment adds received data.
ChipGrow ==
  /\ \E w \in Word : Leq(reg, w) /\ w # reg /\ reg' = w
  /\ UNCHANGED <<reading, val1, val, result, at1>>

\* A SEND or RECV command of the host, which is not reading the register then.
HostCommand ==
  /\ reading = "idle"
  /\ \E w \in Word : Leq(w, reg) /\ w # reg /\ reg' = w
  /\ result' = Zero      \* the caller has used the size it read
  /\ UNCHANGED <<reading, val1, val, at1>>

-----------------------------------------------------------------------------
Reader == ReadHi1 \/ ReadLo1 \/ ReadHi2 \/ ReadLo2

RegisterNext == Call \/ Reader \/ ChipGrow \/ HostCommand

\* The CPU executes the loop; nothing obliges the chip to change the register.
RegisterSpec == RegisterInit /\ [][RegisterNext]_registerVars /\ WF_registerVars(Reader)

-----------------------------------------------------------------------------
RegisterTypeOK ==
  /\ reading \in {"idle", "hi1", "lo1", "hi2", "lo2"}
  /\ reg \in Word /\ val1 \in Word /\ val \in Word
  /\ result \in Word /\ at1 \in Word

(* A nonzero size returned by getSn_TX_FSR / getSn_RX_RSR is a value the   *)
(* register really held, at the moment the first reading ended: no torn    *)
(* combination of two values gets through the comparison.                  *)
ResultWasHeld == reading = "idle" /\ result # Zero => result = at1

(* The returned size never exceeds what the register holds now, so a send  *)
(* of that many bytes fits and a receive of that many bytes was received,  *)
(* whatever the chip did in the meantime.                                  *)
NeverOverestimates == reading = "idle" => Leq(result, reg)

(* Every call of the size getters returns: the chip can make the two       *)
(* readings differ only as often as the register can grow.                 *)
ReadReturns == (reading # "idle") ~> (reading = "idle")
=============================================================================
