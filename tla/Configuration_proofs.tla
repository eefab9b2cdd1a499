------------------------ MODULE Configuration_proofs ------------------------
(***************************************************************************)
(* Proofs about Configuration: the ring of stored command lines stays      *)
(* exact, the chip works with the configuration and a hardware address     *)
(* that was set is in the ROM, for any sizes of the buffers and any sets   *)
(* of addresses and settings.                                              *)
(*                                                                         *)
(* What the stored lines take, prevlen, is a sum over a set, defined by    *)
(* recursion.  The library's induction theorems take an operator the       *)
(* provers cannot instantiate, so the recursion is reasoned about through  *)
(* smallest counterexamples: Nat is well-founded, which is a statement     *)
(* about sets (NatLessThanWellFounded and WFMin).                          *)
(***************************************************************************)
EXTENDS Configuration, WellFoundedInduction, TLAPS

\* What the lines in the slots of T take in b, each with the end of its string.
Weight(b, T) == MapThenSumSet(LAMBDA s : b[s] + 1, T)

\* Program points at which a restart is certain, whatever was changed.
Restarting == pc \in {"save_reset", "data_reset", "reset"}
StoresMac == pc \in {"save_nmac", "data_nmac", "nmac_end"}

(* The chip works with the configuration, but for an address NMAC has not  *)
(* written yet and the time before a restart.                              *)
ChipInv ==
    ~Restarting => /\ chip.dhcp = packet.dhcp
                   /\ ~chip.dhcp => chip.ip = packet.ip
                   /\ ~StoresMac => chip.mac = packet.mac

Stored == rom.data \in Packets /\ rom.check = rom.data /\ rom.data.mac = packet.mac

(* Half way through a save the check code is that of the configuration;    *)
(* the address is in the ROM from the end of NMAC's save on.               *)
StoreInv ==
    /\ pc \in {"data_nmac", "data_done", "data_reset"} => rom.check = packet
    /\ pc = "nmac_end" => Stored
    /\ pc \in {"idle", "make_room", "free_one", "retry", "command"} /\ packet.mac # NoMac => Stored

(* The line about to be stored is not empty, and the ring has room for it  *)
(* once the oldest lines are gone.                                         *)
RoomInv ==
    /\ pc \in {"make_room", "free_one", "retry"} => line > 0
    /\ pc = "free_one" => hist.cnt > 0
    /\ pc = "retry" => hist.cnt < PREVBUF_MAX_NUM
    /\ pc \in {"free_one", "retry"} /\ hist.cnt > 0 => hist.len + line <= PREVBUF_MAX_SIZE - 1

\* The k-th slot before i, and the c slots before it.
SlotBefore(i, k) == IF k <= i THEN i - k ELSE i + PREVBUF_MAX_NUM - k
SlotsBefore(i, c) == {SlotBefore(i, k) : k \in 1 .. c}

Hists == [buf : [Slots -> 0 .. ATCMD_BUF_SIZE - 1], idx : Slots,
          cnt : 0 .. PREVBUF_MAX_NUM, len : Nat]

\* What HistoryExact says of the ring h.
Exact(h) ==
    LET T == SlotsBefore(h.idx, h.cnt)
    IN  /\ \A s \in Slots : h.buf[s] # Null <=> s \in T
        /\ h.len = Weight(h.buf, T)
        /\ h.cnt > 1 => h.len <= PREVBUF_MAX_SIZE

RingInv == pc # "ring_error" /\ Exact(hist)

IInv == TypeOK /\ ChipInv /\ StoreInv /\ RoomInv /\ RingInv

-----------------------------------------------------------------------------
(* The lemmas about sums.                                                  *)

\* A set of numbers has a smallest one.
LEMMA Least ==
  ASSUME NEW T \in SUBSET Nat, T # {}
  PROVE  \E x \in T : \A y \in T : x <= y
<1>1. \E x \in T : \A y \in T : <<y, x>> \notin OpToRel(<, Nat)
  BY NatLessThanWellFounded, WFMin
<1>2. \A x, y \in T : <<y, x>> \notin OpToRel(<, Nat) => x <= y
  BY DEF OpToRel
<1> QED BY <1>1, <1>2

\* F sums up the slots below n, whichever of them is taken first.
Additive(F, b, n) ==
    /\ F \in [SUBSET (0 .. n - 1) -> Nat]
    /\ F[{}] = 0
    /\ \A U \in SUBSET (0 .. n - 1) : \A x \in U : F[U] = b[x] + 1 + F[U \ {x}]

\* There is such a sum: one slot at a time.
LEMMA AdditiveExists ==
  ASSUME NEW N \in Nat, NEW b, \A s \in 0 .. N - 1 : b[s] \in Nat
  PROVE  \E F : Additive(F, b, N)
<1> DEFINE Bad == {n \in 0 .. N : ~ \E F : Additive(F, b, n)}
<1> SUFFICES ASSUME ~ \E F : Additive(F, b, N) PROVE FALSE
  OBVIOUS
<1>0. N \in Bad
  <2>1. N \in 0 .. N
    OBVIOUS
  <2> QED BY <2>1
<1>1. PICK m \in Bad : \A y \in Bad : m <= y
  <2>1. Bad \in SUBSET Nat
    OBVIOUS
  <2> HIDE DEF Bad
  <2>2. Bad # {}
    BY <1>0
  <2> QED BY <2>1, <2>2, Least
<1>2. m \in 0 .. N /\ ~ \E F : Additive(F, b, m)
  OBVIOUS
<1>3. m # 0
  <2>1. 0 .. 0 - 1 = {}
    OBVIOUS
  <2>2. Additive([U \in SUBSET (0 .. 0 - 1) |-> 0], b, 0)
    BY <2>1 DEF Additive
  <2> QED BY <2>2, <1>2
<1>4. PICK F : Additive(F, b, m - 1)
  <2>1. m - 1 \in 0 .. N /\ ~ (m <= m - 1)
    BY <1>2, <1>3
  <2>2. m - 1 \notin Bad
    BY <2>1, <1>1
  <2> QED BY <2>1, <2>2
<1> DEFINE e == m - 1
           G == [U \in SUBSET (0 .. e) |-> F[U \ {e}] + (IF e \in U THEN b[e] + 1 ELSE 0)]
<1>5. /\ e \in Nat /\ b[e] \in Nat /\ e \in 0 .. e
      /\ \A U \in SUBSET (0 .. e) : U \ {e} \in SUBSET (0 .. e - 1)
      /\ \A s \in 0 .. e : b[s] \in Nat
  BY <1>2, <1>3
<1>6. /\ F \in [SUBSET (0 .. e - 1) -> Nat] /\ F[{}] = 0
      /\ \A U \in SUBSET (0 .. e - 1) : \A x \in U : F[U] = b[x] + 1 + F[U \ {x}]
  BY <1>4 DEF Additive
<1> HIDE DEF e
<1>7. G \in [SUBSET (0 .. e) -> Nat] /\ G[{}] = 0
  <2>1. {} \ {e} = {} /\ e \notin {} /\ {} \in SUBSET (0 .. e)
    OBVIOUS
  <2>2. \A U \in SUBSET (0 .. e) : F[U \ {e}] \in Nat
    BY <1>5, <1>6
  <2> QED BY <2>1, <2>2, <1>5, <1>6
<1>8. ASSUME NEW U \in SUBSET (0 .. e), NEW x \in U
      PROVE  G[U] = b[x] + 1 + G[U \ {x}]
  <2>1. /\ U \ {x} \in SUBSET (0 .. e) /\ x \in 0 .. e /\ b[x] \in Nat
        /\ F[U \ {e}] \in Nat /\ F[(U \ {x}) \ {e}] \in Nat
    BY <1>5, <1>6
  <2>2. CASE x = e
    <3>1. (U \ {x}) \ {e} = U \ {e} /\ e \in U /\ e \notin U \ {x}
      BY <2>2
    <3> QED BY <3>1, <2>1, <2>2
  <2>3. CASE x # e
    <3>1. /\ (U \ {x}) \ {e} = (U \ {e}) \ {x} /\ x \in U \ {e}
          /\ (e \in U <=> e \in U \ {x})
      BY <2>3
    <3>2. F[U \ {e}] = b[x] + 1 + F[(U \ {x}) \ {e}]
      BY <3>1, <1>5, <1>6
    <3> QED BY <3>1, <3>2, <2>1, <1>5
  <2> QED BY <2>2, <2>3
<1>9. Additive(G, b, m)
  <2> HIDE DEF G
  <2> QED BY <1>7, <1>8 DEF Additive, e
<1> QED BY <1>9, <1>2

\* Weight is the sum, although it takes the slots in an order of its own.
LEMMA WeightIsSum ==
  ASSUME NEW N \in Nat, NEW b, \A s \in 0 .. N - 1 : b[s] \in Nat,
         NEW F, Additive(F, b, N), NEW T \in SUBSET (0 .. N - 1)
  PROVE  Weight(b, T) = F[T]
<1> DEFINE First(s) == CHOOSE x \in s : TRUE
           Eq(g) == g = [s \in SUBSET T |-> IF s = {} THEN 0
                                            ELSE b[First(s)] + 1 + g[s \ {First(s)}]]
           H == [s \in SUBSET T |-> F[s]]
<1>1. \A s \in SUBSET T : /\ s \in SUBSET (0 .. N - 1) /\ F[s] \in Nat
                          /\ s # {} => First(s) \in s /\ s \ {First(s)} \in SUBSET T
  BY DEF Additive
<1>2. Eq(H)
  <2>1. ASSUME NEW s \in SUBSET T
        PROVE  F[s] = IF s = {} THEN 0 ELSE b[First(s)] + 1 + H[s \ {First(s)}]
    <3> HIDE DEF First
    <3> QED BY <1>1 DEF Additive
  <2> HIDE DEF First
  <2> QED BY <2>1
<1>3. PICK g : Eq(g) /\ Weight(b, T) = g[T]
  <2>1. PICK g : /\ (\E h : Eq(h)) => Eq(g)
                 /\ Weight(b, T) = g[T]
    BY Zenon DEF Weight, MapThenSumSet, MapThenFoldSet
  <2> QED BY <2>1, <1>2
<1> DEFINE Bad == {F[s] : s \in {u \in SUBSET T : g[u] # F[u]}}
<1>4. Bad = {}
  <2> SUFFICES ASSUME Bad # {} PROVE FALSE
    OBVIOUS
  <2>1. Bad \in SUBSET Nat
    BY <1>1
  <2>2. PICK k \in Bad : \A y \in Bad : k <= y
    <3> HIDE DEF Bad
    <3> QED BY <2>1, Least
  <2>3. PICK u \in SUBSET T : g[u] # F[u] /\ F[u] = k
    BY <2>2
  <2> DEFINE x == First(u)
             v == u \ {x}
  <2>4. u # {}
    BY <2>3, <1>3 DEF Additive
  <2>5. x \in u /\ x \in 0 .. N - 1 /\ v \in SUBSET T /\ b[x] \in Nat /\ F[u] \in Nat /\ F[v] \in Nat
    <3>1. x \in u /\ v \in SUBSET T
      BY <2>4, <1>1
    <3> HIDE DEF x, v
    <3> QED BY <3>1, <1>1
  <2>6. F[u] = b[x] + 1 + F[v]
    <3> u \in SUBSET (0 .. N - 1)
      OBVIOUS
    <3> HIDE DEF x
    <3> QED BY <2>5 DEF Additive
  <2>7. g[u] = b[x] + 1 + g[v]
    BY <2>4, <1>3
  <2> HIDE DEF x, v, First
  <2>8. g[v] = F[v]
    <3>1. F[v] < k
      BY <2>3, <2>5, <2>6
    <3>2. F[v] \notin Bad
      <4> HIDE DEF Bad
      <4> QED BY <3>1, <2>1, <2>2, <2>5
    <3> QED BY <3>2, <2>5
  <2> QED BY <2>3, <2>6, <2>7, <2>8
<1>5. g[T] = F[T]
  <2>1. T \in SUBSET T
    OBVIOUS
  <2>2. g[T] # F[T] => F[T] \in Bad
    BY <2>1
  <2> QED BY <2>2, <1>4
<1>6. Weight(b, T) = g[T]
  BY <1>3
<1> QED BY <1>5, <1>6

Numbers(b, n) == \A s \in 0 .. n - 1 : b[s] \in Nat

LEMMA WeightSteps ==
  ASSUME NEW N \in Nat, NEW b, Numbers(b, N), NEW T \in SUBSET (0 .. N - 1)
  PROVE  /\ Weight(b, {}) = 0 /\ Weight(b, T) \in Nat
         /\ \A x \in T : Weight(b, T) = b[x] + 1 + Weight(b, T \ {x})
<1>1. PICK F : Additive(F, b, N)
  BY AdditiveExists DEF Numbers
<1>2. \A U \in SUBSET (0 .. N - 1) : Weight(b, U) = F[U]
  BY <1>1, WeightIsSum DEF Numbers
<1> QED BY <1>1, <1>2 DEF Additive

\* Slots outside T do not count.
LEMMA SameWeight ==
  ASSUME NEW N \in Nat, NEW b, NEW c, NEW T \in SUBSET (0 .. N - 1),
         Numbers(b, N), Numbers(c, N), \A s \in T : b[s] = c[s]
  PROVE  Weight(b, T) = Weight(c, T)
<1> DEFINE Bad == {Weight(b, s) : s \in {u \in SUBSET T : Weight(b, u) # Weight(c, u)}}
<1>1. \A u \in SUBSET T : u \in SUBSET (0 .. N - 1)
  OBVIOUS
<1>2. /\ Weight(b, {}) = 0 /\ Weight(c, {}) = 0
      /\ \A u \in SUBSET T : /\ Weight(b, u) \in Nat
                             /\ \A x \in u : /\ Weight(b, u) = b[x] + 1 + Weight(b, u \ {x})
                                             /\ Weight(c, u) = c[x] + 1 + Weight(c, u \ {x})
  BY <1>1, WeightSteps
<1>3. Bad = {}
  <2> SUFFICES ASSUME Bad # {} PROVE FALSE
    OBVIOUS
  <2>1. Bad \in SUBSET Nat
    BY <1>2
  <2>2. PICK k \in Bad : \A y \in Bad : k <= y
    <3> HIDE DEF Bad
    <3> QED BY <2>1, Least
  <2>3. PICK u \in SUBSET T : Weight(b, u) # Weight(c, u) /\ Weight(b, u) = k
    BY <2>2
  <2>4. PICK x \in u : TRUE
    BY <2>3, <1>2
  <2>5. u \ {x} \in SUBSET T /\ b[x] = c[x] /\ b[x] \in Nat
    BY <2>4 DEF Numbers
  <2>6. Weight(b, u \ {x}) = Weight(c, u \ {x})
    <3>1. Weight(b, u \ {x}) \in Nat /\ Weight(b, u \ {x}) < k
      BY <1>2, <2>3, <2>5
    <3>2. Weight(b, u \ {x}) \notin Bad
      <4> HIDE DEF Bad
      <4> QED BY <3>1, <2>1, <2>2
    <3> QED BY <3>2, <2>5
  <2> QED BY <1>2, <2>3, <2>5, <2>6
<1> QED BY <1>3

-----------------------------------------------------------------------------
(* The lemmas about the ring.                                              *)

StoreLine(h, n) == [h EXCEPT !.buf[h.idx] = n,
                             !.idx = IF @ = PREVBUF_MAX_NUM - 1 THEN 0 ELSE @ + 1,
                             !.cnt = @ + 1,
                             !.len = @ + n + 1]

\* One line less, and a change of another line.
LEMMA WeightWithout ==
  ASSUME NEW b, \A s \in Slots : b[s] \in Nat, NEW T \in SUBSET Slots, NEW x \in T
  PROVE  Weight(b, T) = b[x] + 1 + Weight(b, T \ {x})
<1>1. PREVBUF_MAX_NUM \in Nat
  BY SizesAssumption
<1>2. Numbers(b, PREVBUF_MAX_NUM) /\ T \in SUBSET (0 .. PREVBUF_MAX_NUM - 1)
  BY DEF Slots, Numbers
<1> QED BY <1>1, <1>2, WeightSteps

LEMMA WeightOther ==
  ASSUME NEW b, \A s \in Slots : b[s] \in Nat, NEW c, \A s \in Slots : c[s] \in Nat,
         NEW T \in SUBSET Slots, \A s \in T : b[s] = c[s]
  PROVE  Weight(b, T) = Weight(c, T) /\ Weight(b, T) \in Nat
<1>1. PREVBUF_MAX_NUM \in Nat
  BY SizesAssumption
<1>2. /\ Numbers(b, PREVBUF_MAX_NUM) /\ Numbers(c, PREVBUF_MAX_NUM)
      /\ T \in SUBSET (0 .. PREVBUF_MAX_NUM - 1)
  BY DEF Slots, Numbers
<1>3. Weight(b, T) = Weight(c, T)
  BY <1>1, <1>2, SameWeight
<1>4. Weight(b, T) \in Nat
  BY <1>1, <1>2, WeightSteps
<1> QED BY <1>3, <1>4

\* A remainder, where at most one round is too much.
LEMMA OneRound ==
  ASSUME NEW m \in Nat \ {0}, NEW a \in 0 .. 2 * m - 1
  PROVE  a % m = IF a < m THEN a ELSE a - m
  OBVIOUS

LEMMA SlotIs ==
  ASSUME NEW i \in Slots, NEW k \in 0 .. PREVBUF_MAX_NUM
  PROVE  /\ k > 0 => /\ (i + PREVBUF_MAX_NUM - k) % PREVBUF_MAX_NUM = SlotBefore(i, k)
                     /\ SlotBefore(i, k) \in Slots
         /\ SlotsBefore(i, k) \in SUBSET Slots
<1>0. PREVBUF_MAX_NUM \in Nat \ {0}
  BY SizesAssumption
<1>1. \A j \in 1 .. PREVBUF_MAX_NUM : SlotBefore(i, j) \in Slots
  BY <1>0 DEF SlotBefore, Slots
<1>2. k > 0 => (i + PREVBUF_MAX_NUM - k) % PREVBUF_MAX_NUM = SlotBefore(i, k)
  <2> SUFFICES ASSUME k > 0
               PROVE  (i + PREVBUF_MAX_NUM - k) % PREVBUF_MAX_NUM = SlotBefore(i, k)
    OBVIOUS
  <2> DEFINE a == i + PREVBUF_MAX_NUM - k
  <2>1. a \in 0 .. 2 * PREVBUF_MAX_NUM - 1
    BY <1>0 DEF Slots
  <2>2. (IF a < PREVBUF_MAX_NUM THEN a ELSE a - PREVBUF_MAX_NUM) = SlotBefore(i, k)
    BY <1>0 DEF SlotBefore, Slots
  <2> HIDE DEF a
  <2>3. a % PREVBUF_MAX_NUM = IF a < PREVBUF_MAX_NUM THEN a ELSE a - PREVBUF_MAX_NUM
    BY <2>1, <1>0, OneRound
  <2>4. a % PREVBUF_MAX_NUM = SlotBefore(i, k)
    BY <2>2, <2>3
  <2> QED BY <2>4 DEF a
<1>3. SlotsBefore(i, k) \in SUBSET Slots
  BY <1>0, <1>1 DEF SlotsBefore
<1> QED BY <1>0, <1>1, <1>2, <1>3

\* The oldest line leaves its slot ...
LEMMA OldestLeaves ==
  ASSUME NEW i \in Slots, NEW c \in 1 .. PREVBUF_MAX_NUM
  PROVE  /\ SlotBefore(i, c) \in SlotsBefore(i, c)
         /\ SlotsBefore(i, c - 1) = SlotsBefore(i, c) \ {SlotBefore(i, c)}
<1>1. \A k \in 1 .. c - 1 : SlotBefore(i, k) # SlotBefore(i, c)
  BY SizesAssumption DEF SlotBefore, Slots
<1>2. 1 .. c = (1 .. c - 1) \cup {c}
  BY SizesAssumption
<1> HIDE DEF SlotBefore
<1> QED BY <1>1, <1>2 DEF SlotsBefore

\* ... and the new one takes slot i, which becomes the slot before the next.
LEMMA NewestEnters ==
  ASSUME NEW i \in Slots, NEW c \in 0 .. PREVBUF_MAX_NUM - 1
  PROVE  LET j == IF i = PREVBUF_MAX_NUM - 1 THEN 0 ELSE i + 1
         IN  /\ j \in Slots
             /\ SlotsBefore(j, c + 1) = SlotsBefore(i, c) \cup {i}
             /\ i \notin SlotsBefore(i, c)
<1> DEFINE j == IF i = PREVBUF_MAX_NUM - 1 THEN 0 ELSE i + 1
<1>1. j \in Slots
  BY SizesAssumption DEF Slots
<1>2. /\ SlotBefore(j, 1) = i
      /\ \A k \in 1 .. c : SlotBefore(j, k + 1) = SlotBefore(i, k) /\ SlotBefore(i, k) # i
  BY SizesAssumption DEF SlotBefore, Slots
<1>3. 1 .. c + 1 = {1} \cup {k + 1 : k \in 1 .. c}
  <2>1. c \in Nat
    BY SizesAssumption
  <2>2. ASSUME NEW n \in 1 .. c + 1
        PROVE  n = 1 \/ \E k \in 1 .. c : n = k + 1
    <3>1. n # 1 => n - 1 \in 1 .. c /\ n = (n - 1) + 1
      BY <2>1
    <3> QED BY <3>1
  <2> QED BY <2>1, <2>2
<1> HIDE DEF j
<1>4. SlotsBefore(j, c + 1) = SlotsBefore(i, c) \cup {i}
  <2> HIDE DEF SlotBefore
  <2>1. ASSUME NEW s
        PROVE  (\E n \in 1 .. c + 1 : s = SlotBefore(j, n))
                 <=> s = SlotBefore(j, 1) \/ \E k \in 1 .. c : s = SlotBefore(j, k + 1)
    BY Zenon, <1>3
  <2>2. ASSUME NEW s
        PROVE  s \in SlotsBefore(j, c + 1) <=> s \in SlotsBefore(i, c) \/ s = i
    BY <2>1, <1>2 DEF SlotsBefore
  <2> QED BY <2>2
<1>5. i \notin SlotsBefore(i, c)
  BY <1>2 DEF SlotsBefore
<1> QED BY <1>1, <1>4, <1>5 DEF j

\* Freeing the oldest line of an exact ring leaves an exact ring, and there
\* is a line to free.
LEMMA FreeOldestExact ==
  ASSUME NEW h \in Hists, Exact(h), h.cnt > 0
  PROVE  /\ h.buf[OldestSlot(h)] # Null
         /\ FreeOldest(h) \in Hists /\ Exact(FreeOldest(h))
         /\ FreeOldest(h).cnt = h.cnt - 1 /\ FreeOldest(h).len < h.len
<1> DEFINE s == OldestSlot(h)
           T == SlotsBefore(h.idx, h.cnt)
           R == SlotsBefore(h.idx, h.cnt - 1)
           g == FreeOldest(h)
<1>1. /\ h.idx \in Slots /\ h.cnt \in 1 .. PREVBUF_MAX_NUM /\ h.cnt - 1 \in 0 .. PREVBUF_MAX_NUM
      /\ h.len \in Nat /\ h.buf \in [Slots -> 0 .. ATCMD_BUF_SIZE - 1]
      /\ PREVBUF_MAX_NUM \in Nat /\ ATCMD_BUF_SIZE \in Nat
  BY SizesAssumption DEF Hists
<1>2. s = SlotBefore(h.idx, h.cnt) /\ s \in Slots /\ T \in SUBSET Slots /\ R \in SUBSET Slots
  BY <1>1, SlotIs DEF OldestSlot
<1>3. s \in T /\ R = T \ {s}
  BY <1>1, <1>2, OldestLeaves
<1> HIDE DEF s, T, R
<1>4. /\ g.buf = [h.buf EXCEPT ![s] = Null] /\ g.idx = h.idx
      /\ g.cnt = h.cnt - 1 /\ g.len = h.len - (h.buf[s] + 1)
  BY <1>1, <1>2 DEF FreeOldest, Hists, s
<1>5. /\ \A x \in Slots : h.buf[x] # Null <=> x \in T
      /\ h.len = Weight(h.buf, T)
      /\ h.cnt > 1 => h.len <= PREVBUF_MAX_SIZE
  BY DEF Exact, T
<1>6. /\ g.buf \in [Slots -> 0 .. ATCMD_BUF_SIZE - 1]
      /\ g.buf[s] = Null /\ \A x \in Slots : x # s => g.buf[x] = h.buf[x]
  BY <1>1, <1>2, <1>4 DEF Null
<1>7. g.len = Weight(g.buf, R) /\ g.len \in Nat /\ g.len < h.len
  <2>1. (\A x \in Slots : h.buf[x] \in Nat) /\ (\A x \in Slots : g.buf[x] \in Nat)
    BY <1>1, <1>6
  <2>2. Weight(h.buf, T) = h.buf[s] + 1 + Weight(h.buf, R)
    BY <2>1, <1>2, <1>3, WeightWithout
  <2>3. \A x \in R : h.buf[x] = g.buf[x]
    BY <1>2, <1>3, <1>6
  <2>4. Weight(h.buf, R) = Weight(g.buf, R) /\ Weight(h.buf, R) \in Nat
    <3> HIDE DEF g
    <3> QED BY <2>1, <2>3, <1>2, WeightOther
  <2>5. h.buf[s] \in Nat
    BY <2>1, <1>2
  <2> QED BY <2>2, <2>4, <2>5, <1>1, <1>4, <1>5
<1>8. g \in Hists
  <2>1. /\ s \in Slots /\ Null \in 0 .. ATCMD_BUF_SIZE - 1
        /\ h.cnt - 1 \in 0 .. PREVBUF_MAX_NUM /\ h.len - (h.buf[s] + 1) \in Nat
    BY <1>1, <1>2, <1>4, <1>6, <1>7
  <2> HIDE DEF Null
  <2> QED BY <2>1 DEF FreeOldest, s, Hists
<1>9. Exact(g)
  <2>1. SlotsBefore(g.idx, g.cnt) = R
    BY <1>4 DEF R
  <2>2. \A x \in Slots : g.buf[x] # Null <=> x \in R
    BY <1>3, <1>5, <1>6
  <2>3. g.cnt > 1 => g.len <= PREVBUF_MAX_SIZE
    BY <1>1, <1>4, <1>5, <1>7, SizesAssumption
  <2> HIDE DEF g
  <2> QED BY <2>1, <2>2, <2>3, <1>7 DEF Exact
<1>10. h.buf[s] # Null
  BY <1>2, <1>3, <1>5
<1> QED BY <1>4, <1>7, <1>8, <1>9, <1>10 DEF s

\* Storing a line that there is room for keeps the ring exact.
LEMMA StoreExact ==
  ASSUME NEW h \in Hists, Exact(h), h.cnt < PREVBUF_MAX_NUM,
         NEW n \in 1 .. ATCMD_BUF_SIZE - 1,
         h.cnt > 0 => h.len + n <= PREVBUF_MAX_SIZE - 1
  PROVE  StoreLine(h, n) \in Hists /\ Exact(StoreLine(h, n))
<1> DEFINE i == h.idx
           j == IF i = PREVBUF_MAX_NUM - 1 THEN 0 ELSE i + 1
           T == SlotsBefore(i, h.cnt)
           R == SlotsBefore(j, h.cnt + 1)
           g == StoreLine(h, n)
<1>1. /\ i \in Slots /\ h.cnt \in 0 .. PREVBUF_MAX_NUM - 1 /\ h.cnt \in 0 .. PREVBUF_MAX_NUM
      /\ h.cnt + 1 \in 0 .. PREVBUF_MAX_NUM
      /\ h.len \in Nat /\ h.buf \in [Slots -> 0 .. ATCMD_BUF_SIZE - 1]
      /\ PREVBUF_MAX_NUM \in Nat /\ ATCMD_BUF_SIZE \in Nat
      /\ n \in Nat \ {0} /\ n \in 0 .. ATCMD_BUF_SIZE - 1
  BY SizesAssumption DEF Hists
<1>2. j \in Slots /\ R = T \cup {i} /\ i \notin T
  BY <1>1, NewestEnters
<1>3. T \in SUBSET Slots /\ R \in SUBSET Slots
  BY <1>1, <1>2, SlotIs
<1>4. /\ g.buf = [h.buf EXCEPT ![i] = n] /\ g.idx = j
      /\ g.cnt = h.cnt + 1 /\ g.len = h.len + n + 1
  BY <1>1 DEF StoreLine, Hists
<1> HIDE DEF i, j, T, R
<1>5. /\ \A x \in Slots : h.buf[x] # Null <=> x \in T
      /\ h.len = Weight(h.buf, T)
  BY DEF Exact, T, i
<1>6. /\ g.buf \in [Slots -> 0 .. ATCMD_BUF_SIZE - 1]
      /\ g.buf[i] = n /\ \A x \in Slots : x # i => g.buf[x] = h.buf[x]
  BY <1>1, <1>4
<1>7. g.len = Weight(g.buf, R)
  <2>1. (\A x \in Slots : h.buf[x] \in Nat) /\ (\A x \in Slots : g.buf[x] \in Nat)
    BY <1>1, <1>6
  <2>2. i \in R /\ R \ {i} = T
    BY <1>2
  <2>3. Weight(g.buf, R) = g.buf[i] + 1 + Weight(g.buf, R \ {i})
    <3> HIDE DEF g
    <3> QED BY <2>1, <2>2, <1>3, WeightWithout
  <2>4. \A x \in T : h.buf[x] = g.buf[x]
    BY <1>2, <1>3, <1>6
  <2>5. Weight(h.buf, T) = Weight(g.buf, T) /\ Weight(h.buf, T) \in Nat
    <3> HIDE DEF g
    <3> QED BY <2>1, <2>4, <1>3, WeightOther
  <2> HIDE DEF g
  <2>6. Weight(g.buf, R) = n + 1 + Weight(g.buf, T)
    BY Zenon, <2>2, <2>3, <1>6
  <2>7. g.len = h.len + n + 1 /\ h.len = Weight(g.buf, T) /\ n \in Nat /\ h.len \in Nat
    BY <1>1, <1>4, <1>5, <2>5
  <2> QED BY <2>6, <2>7
<1>8. g \in Hists
  <2>1. i \in Slots /\ h.cnt + 1 \in 0 .. PREVBUF_MAX_NUM /\ h.len + n + 1 \in Nat
    BY <1>1
  <2> QED BY <2>1, <1>1, <1>2 DEF StoreLine, i, j, Hists
<1>9. Exact(g)
  <2>1. SlotsBefore(g.idx, g.cnt) = R
    BY <1>4 DEF R
  <2>2. \A x \in Slots : g.buf[x] # Null <=> x \in R
    BY <1>1, <1>2, <1>5, <1>6 DEF Null
  <2>3. g.cnt > 1 => g.len <= PREVBUF_MAX_SIZE
    BY <1>1, <1>4, SizesAssumption
  <2> HIDE DEF g
  <2> QED BY <2>1, <2>2, <2>3, <1>7 DEF Exact
<1> QED BY <1>8, <1>9

\* The ring of a module that has just started.
LEMMA EmptyExact == EmptyHistory \in Hists /\ Exact(EmptyHistory)
<1>1. PREVBUF_MAX_NUM \in Nat \ {0} /\ 0 \in Slots /\ 0 \in 0 .. ATCMD_BUF_SIZE - 1
  BY SizesAssumption DEF Slots
<1>2. EmptyHistory \in Hists
  BY <1>1 DEF EmptyHistory, Hists, Null
<1>3. SlotsBefore(EmptyHistory.idx, EmptyHistory.cnt) = {}
  BY DEF SlotsBefore, EmptyHistory
<1>4. Weight(EmptyHistory.buf, {}) = 0
  <2>1. Numbers(EmptyHistory.buf, PREVBUF_MAX_NUM)
    BY DEF Numbers, EmptyHistory, Null, Slots
  <2> QED BY <2>1, <1>1, WeightSteps
<1>5. (\A s \in Slots : EmptyHistory.buf[s] = Null) /\ EmptyHistory.cnt = 0 /\ EmptyHistory.len = 0
  BY DEF EmptyHistory
<1> QED BY <1>2, <1>3, <1>4, <1>5 DEF Exact

-----------------------------------------------------------------------------
(* The steps.                                                              *)

LEMMA Typed ==
  ASSUME TypeOK
  PROVE  /\ hist \in Hists /\ packet \in Packets
         /\ PREVBUF_MAX_NUM \in Nat /\ ATCMD_BUF_SIZE \in Nat /\ PREVBUF_MAX_SIZE \in Nat
         /\ line \in Nat /\ hist.cnt \in Nat /\ hist.len \in Nat
  BY SizesAssumption DEF TypeOK, Hists

LEMMA Stutter ==
  ASSUME IInv, UNCHANGED vars
  PROVE  IInv'
<1>1. UNCHANGED <<packet, chip, uart, rom, line, hist, pc>>
  BY DEF vars
<1>2. TypeOK'
  BY <1>1 DEF IInv, TypeOK
<1>3. (ChipInv /\ StoreInv /\ RoomInv /\ RingInv)'
  BY <1>1 DEF IInv, ChipInv, StoreInv, RoomInv, RingInv, Restarting, StoresMac, Stored
<1> QED BY <1>2, <1>3 DEF IInv

\* A restart, whatever came before it: only the ROM is left.
LEMMA RestartStep ==
  ASSUME IInv, Restart
  PROVE  IInv'
<1>0. TypeOK
  BY DEF IInv
<1>1. /\ packet' = [mac |-> NoMac, ip |-> FactoryAddr, dhcp |-> FALSE, serial |-> FactorySerial]
      /\ chip' = [mac |-> NoMac, ip |-> FactoryAddr, dhcp |-> FALSE]
      /\ uart' = FactorySerial /\ line' = 0 /\ hist' = EmptyHistory /\ pc' = "idle" /\ rom' = rom
  BY DEF Restart, FirstPacket, load_S2E_Packet_from_storage,
         set_S2E_Packet_to_factory_value, Net_Conf
<1>2. EmptyHistory \in Hists /\ Exact(EmptyHistory)
  BY EmptyExact
<1>3. TypeOK'
  BY <1>0, <1>1, <1>2, SizesAssumption, ValuesAssumption DEF TypeOK, Packets, Hists
<1>4. (ChipInv /\ StoreInv /\ RoomInv)'
  BY <1>1 DEF ChipInv, StoreInv, RoomInv
<1> QED BY <1>1, <1>2, <1>3, <1>4 DEF IInv, RingInv

LEMMA InitHolds == Init => IInv
<1> SUFFICES ASSUME Init PROVE IInv
  OBVIOUS
<1>1. /\ packet = [mac |-> NoMac, ip |-> FactoryAddr, dhcp |-> FALSE, serial |-> FactorySerial]
      /\ chip = [mac |-> NoMac, ip |-> FactoryAddr, dhcp |-> FALSE]
      /\ uart = FactorySerial /\ line = 0 /\ hist = EmptyHistory /\ pc = "idle"
      /\ rom = [check |-> Blank, data |-> Blank]
  BY DEF Init, FirstPacket, load_S2E_Packet_from_storage,
         set_S2E_Packet_to_factory_value, Net_Conf
<1>2. EmptyHistory \in Hists /\ Exact(EmptyHistory)
  BY EmptyExact
<1>3. TypeOK
  BY <1>1, <1>2, SizesAssumption, ValuesAssumption DEF TypeOK, Packets, Hists
<1>4. ChipInv /\ StoreInv /\ RoomInv
  BY <1>1 DEF ChipInv, StoreInv, RoomInv
<1> QED BY <1>1, <1>2, <1>3, <1>4 DEF IInv, RingInv

\* The line grows and shrinks, and ends; a command changes nothing or begins a save.
LEMMA LineStep ==
  ASSUME IInv, Character \/ Backspace \/ LineFeed \/ Refused \/ Msave
  PROVE  IInv'
<1>0. TypeOK /\ ChipInv /\ StoreInv /\ RoomInv /\ RingInv
  BY DEF IInv
<1>1. UNCHANGED <<packet, chip, uart, rom, hist>>
  BY DEF Character, Backspace, LineFeed, Refused, Msave
<1>2. /\ line' \in 0 .. ATCMD_BUF_SIZE - 1
      /\ pc' \in {"idle", "make_room", "save_done"} /\ (pc' = "make_room" => line' > 0)
      /\ pc \in {"idle", "command"}
  BY <1>0, SizesAssumption DEF Character, Backspace, LineFeed, Refused, Commanded, Msave, TypeOK
<1>3. TypeOK'
  BY <1>0, <1>1, <1>2 DEF TypeOK
<1>4. (ChipInv /\ StoreInv /\ RoomInv /\ RingInv)'
  BY <1>0, <1>1, <1>2 DEF ChipInv, StoreInv, RoomInv, RingInv, Restarting, StoresMac, Stored
<1> QED BY <1>3, <1>4 DEF IInv

\* The oldest line leaves the ring: there is one, so the error is never reached.
LEMMA EvictStep ==
  ASSUME IInv, MakeRoom \/ FreeAndRetry
  PROVE  IInv'
<1>0. TypeOK /\ ChipInv /\ StoreInv /\ RoomInv /\ RingInv
  BY DEF IInv
<1>1. PICK next \in {"make_room", "retry"} :
         /\ Evict(next) /\ hist.cnt > 0 /\ line > 0
         /\ pc = IF next = "retry" THEN "free_one" ELSE "make_room"
  BY <1>0, SizesAssumption, Typed DEF MakeRoom, FreeAndRetry, NeedsRoom, RoomInv
<1>2. /\ hist \in Hists /\ Exact(hist)
  BY <1>0, Typed DEF RingInv
<1>3. /\ hist.buf[OldestSlot(hist)] # Null
      /\ FreeOldest(hist) \in Hists /\ Exact(FreeOldest(hist))
      /\ FreeOldest(hist).cnt = hist.cnt - 1 /\ FreeOldest(hist).len < hist.len
  BY <1>1, <1>2, FreeOldestExact
<1>4. /\ hist' \in Hists /\ Exact(hist') /\ hist'.cnt = hist.cnt - 1 /\ hist'.len < hist.len
      /\ pc' = next /\ UNCHANGED <<packet, chip, uart, rom, line>>
  BY <1>1, <1>3 DEF Evict
<1>5. TypeOK'
  BY <1>0, <1>1, <1>4 DEF TypeOK, Hists
<1>6. RoomInv'
  <2>1. /\ hist.cnt \in 0 .. PREVBUF_MAX_NUM /\ hist.len \in Nat /\ hist'.len \in Nat
        /\ line \in Nat /\ PREVBUF_MAX_SIZE \in Nat /\ PREVBUF_MAX_NUM \in Nat
    BY <1>0, <1>2, <1>4, Typed DEF Hists
  <2> QED BY <2>1, <1>0, <1>1, <1>4 DEF RoomInv
<1>7. (ChipInv /\ StoreInv /\ RingInv)'
  BY <1>0, <1>1, <1>4 DEF ChipInv, StoreInv, RingInv, Restarting, StoresMac, Stored
<1> QED BY <1>5, <1>6, <1>7 DEF IInv

\* The line is stored, or malloc() fails.
LEMMA StoreStep ==
  ASSUME IInv, Store
  PROVE  IInv'
<1>0. TypeOK /\ ChipInv /\ StoreInv /\ RoomInv /\ RingInv
  BY DEF IInv
<1>1. /\ hist \in Hists /\ Exact(hist) /\ line \in 1 .. ATCMD_BUF_SIZE - 1
      /\ hist.cnt < PREVBUF_MAX_NUM
      /\ hist.cnt > 0 => hist.len + line <= PREVBUF_MAX_SIZE - 1
  <2>1. /\ hist \in Hists /\ hist.cnt \in Nat /\ hist.len \in Nat /\ line \in Nat
        /\ PREVBUF_MAX_NUM \in Nat /\ PREVBUF_MAX_SIZE \in Nat
    BY <1>0, Typed
  <2>2. hist.cnt < PREVBUF_MAX_NUM /\ (hist.cnt > 0 => hist.len + line <= PREVBUF_MAX_SIZE - 1)
    BY <1>0, <2>1 DEF Store, CallsMalloc, NeedsRoom, RoomInv
  <2>3. line > 0 /\ line \in 0 .. ATCMD_BUF_SIZE - 1 /\ ATCMD_BUF_SIZE \in Nat
    BY <1>0, SizesAssumption DEF Store, CallsMalloc, RoomInv, TypeOK
  <2> QED BY <2>1, <2>2, <2>3, <1>0 DEF RingInv
<1>2. /\ hist' = StoreLine(hist, line) /\ line' = 0 /\ pc' = "command"
      /\ pc \in {"make_room", "retry"} /\ UNCHANGED <<packet, chip, uart, rom>>
  BY DEF Store, StoreLine, CallsMalloc
<1>3. hist' \in Hists /\ Exact(hist')
  BY <1>1, <1>2, StoreExact
<1>4. TypeOK'
  BY <1>0, <1>2, <1>3, SizesAssumption DEF TypeOK, Hists
<1>5. (ChipInv /\ StoreInv /\ RoomInv /\ RingInv)'
  BY <1>0, <1>2, <1>3 DEF ChipInv, StoreInv, RoomInv, RingInv, Restarting, StoresMac, Stored
<1> QED BY <1>4, <1>5 DEF IInv

LEMMA MallocStep ==
  ASSUME IInv, MallocFails
  PROVE  IInv'
<1>0. TypeOK /\ ChipInv /\ StoreInv /\ RoomInv /\ RingInv
  BY DEF IInv
<1>1. /\ UNCHANGED <<packet, chip, uart, rom, line, hist>> /\ pc \in {"make_room", "retry"}
      /\ pc' \in {"no_memory", "free_one"} /\ (pc' = "free_one" => hist.cnt # 0)
  BY DEF MallocFails, CallsMalloc
<1>2. TypeOK'
  BY <1>0, <1>1 DEF TypeOK
<1>3. RoomInv'
  <2>1. /\ hist.cnt \in Nat /\ hist.len \in Nat /\ line \in Nat
        /\ PREVBUF_MAX_NUM \in Nat /\ PREVBUF_MAX_SIZE \in Nat
    BY <1>0, Typed
  <2>2. hist.cnt > 0 => hist.len + line <= PREVBUF_MAX_SIZE - 1
    BY <1>0, <2>1 DEF MallocFails, CallsMalloc, NeedsRoom, RoomInv
  <2> QED BY <2>1, <2>2, <1>0, <1>1 DEF RoomInv
<1>4. (ChipInv /\ StoreInv /\ RingInv)'
  BY <1>0, <1>1 DEF ChipInv, StoreInv, RingInv, Restarting, StoresMac, Stored
<1> QED BY <1>2, <1>3, <1>4 DEF IInv

Chips == [mac : Macs \cup {NoMac}, ip : Addrs, dhcp : BOOLEAN]

\* A command or a request that changes the configuration: what it has to leave right.
LEMMA ChangeStep ==
  ASSUME IInv, pc \in {"idle", "command", "nmac_end"},
         packet' \in Packets, chip' \in Chips, uart' \in Serials,
         UNCHANGED <<rom, line, hist>>,
         pc' \in {"idle", "save_nmac", "save_reset", "reset"},
         pc' = "idle" => /\ chip' = [mac |-> packet'.mac, ip |-> chip'.ip, dhcp |-> packet'.dhcp]
                         /\ ~chip'.dhcp => chip'.ip = packet'.ip
                         /\ packet'.mac = packet.mac,
         pc' = "save_nmac" => /\ chip' = chip /\ packet'.dhcp = packet.dhcp
                              /\ packet'.ip = packet.ip
  PROVE  IInv'
<1>0. TypeOK /\ ChipInv /\ StoreInv /\ RoomInv /\ RingInv
  BY DEF IInv
<1>1. TypeOK'
  BY <1>0 DEF TypeOK, Chips
<1>2. ChipInv'
  <2>1. chip.dhcp = packet.dhcp /\ (~chip.dhcp => chip.ip = packet.ip)
    BY <1>0 DEF ChipInv, Restarting
  <2>2. CASE pc' = "idle"
    <3>1. chip'.mac = packet'.mac /\ chip'.dhcp = packet'.dhcp /\ (~chip'.dhcp => chip'.ip = packet'.ip)
      BY <2>2
    <3> QED BY <2>2, <3>1 DEF ChipInv, Restarting, StoresMac
  <2>3. CASE pc' = "save_nmac"
    BY <2>1, <2>3 DEF ChipInv, Restarting, StoresMac
  <2>4. CASE pc' \in {"save_reset", "reset"}
    BY <2>4 DEF ChipInv, Restarting
  <2> QED BY <2>2, <2>3, <2>4
<1>3. (StoreInv /\ RoomInv /\ RingInv)'
  BY <1>0 DEF StoreInv, RoomInv, RingInv, Stored
<1> QED BY <1>1, <1>2, <1>3 DEF IInv

LEMMA NsetStep ==
  ASSUME IInv, Nset
  PROVE  IInv'
<1>0. TypeOK
  BY DEF IInv
<1>1. PICK mode \in BOOLEAN, ip \in Addrs : act_nset_a(mode, ip)
  BY DEF Nset
<1>2. packet' = [packet EXCEPT !.dhcp = mode, !.ip = ip]
  BY <1>1 DEF act_nset_a
<1>3. packet' \in Packets /\ packet'.mac = packet.mac
  BY <1>0, <1>2 DEF TypeOK, Packets
<1>4. chip' = [mac |-> packet'.mac, ip |-> packet'.ip, dhcp |-> packet'.dhcp]
  BY <1>1, <1>2 DEF act_nset_a, Net_Conf
<1>5. chip' \in Chips /\ chip'.ip = packet'.ip
  BY <1>3, <1>4 DEF Packets, Chips
<1>6. pc = "command" /\ pc' = "idle" /\ UNCHANGED <<uart, rom, line, hist>> /\ uart \in Serials
  BY <1>0 DEF Nset, Commanded, TypeOK
<1> QED BY <1>3, <1>4, <1>5, <1>6, ChangeStep

LEMMA NmacStep ==
  ASSUME IInv, Nmac
  PROVE  IInv'
<1>0. TypeOK
  BY DEF IInv
<1>1. PICK m \in Macs : packet' = [packet EXCEPT !.mac = m]
  BY DEF Nmac
<1>2. packet' \in Packets /\ packet'.dhcp = packet.dhcp /\ packet'.ip = packet.ip
  BY <1>0, <1>1 DEF TypeOK, Packets
<1>3. /\ pc = "command" /\ pc' = "save_nmac" /\ UNCHANGED <<chip, uart, rom, line, hist>>
      /\ chip \in Chips /\ uart \in Serials
  BY <1>0 DEF Nmac, Commanded, TypeOK, Chips
<1> QED BY <1>2, <1>3, ChangeStep

\* The chip gets the address that has been saved.
LEMMA NmacEndStep ==
  ASSUME IInv, NmacEnd
  PROVE  IInv'
<1>0. TypeOK /\ ChipInv /\ StoreInv /\ RoomInv /\ RingInv
  BY DEF IInv
<1>1. /\ pc = "nmac_end" /\ pc' = "idle" /\ UNCHANGED <<packet, uart, rom, line, hist>>
      /\ chip' = [chip EXCEPT !.mac = packet.mac]
  BY DEF NmacEnd
<1>2. /\ chip' \in Chips /\ packet \in Packets
      /\ chip'.mac = packet.mac /\ chip'.dhcp = chip.dhcp /\ chip'.ip = chip.ip
  BY <1>0, <1>1 DEF TypeOK, Packets, Chips
<1>3. TypeOK'
  BY <1>0, <1>1, <1>2 DEF TypeOK, Chips
<1>4. (ChipInv /\ StoreInv /\ RoomInv /\ RingInv)'
  BY <1>0, <1>1, <1>2 DEF ChipInv, StoreInv, RoomInv, RingInv, Restarting, StoresMac, Stored
<1> QED BY <1>3, <1>4 DEF IInv

LEMMA MusartStep ==
  ASSUME IInv, Musart
  PROVE  IInv'
<1>0. TypeOK /\ ChipInv
  BY DEF IInv
<1>1. PICK s \in Serials : packet' = [packet EXCEPT !.serial = s] /\ uart' \in {s, uart}
  BY DEF Musart
<1>2. /\ packet' \in Packets /\ packet'.mac = packet.mac
      /\ packet'.dhcp = packet.dhcp /\ packet'.ip = packet.ip /\ uart' \in Serials
  BY <1>0, <1>1 DEF TypeOK, Packets
<1>3. /\ pc = "command" /\ pc' = "idle" /\ UNCHANGED <<chip, rom, line, hist>> /\ chip \in Chips
      /\ chip = [mac |-> chip.mac, ip |-> chip.ip, dhcp |-> chip.dhcp]
  BY <1>0 DEF Musart, Commanded, TypeOK, Chips
<1>4. chip.mac = packet.mac /\ chip.dhcp = packet.dhcp /\ (~chip.dhcp => chip.ip = packet.ip)
  BY <1>0, <1>3 DEF ChipInv, Restarting, StoresMac
<1>5. chip' = [mac |-> packet'.mac, ip |-> chip'.ip, dhcp |-> packet'.dhcp]
  BY <1>2, <1>3, <1>4
<1> QED BY <1>2, <1>3, <1>4, <1>5, ChangeStep

\* A lease changes the chip's address only, under DHCP.
LEMMA LeasedStep ==
  ASSUME IInv, Leased
  PROVE  IInv'
<1>0. TypeOK /\ ChipInv
  BY DEF IInv
<1>1. PICK a \in Addrs : chip' = [chip EXCEPT !.ip = a]
  BY DEF Leased
<1>2. /\ pc = "idle" /\ chip.dhcp /\ UNCHANGED <<packet, uart, rom, line, hist, pc>>
      /\ packet \in Packets /\ uart \in Serials
  BY <1>0 DEF Leased, TypeOK
<1>3. chip' \in Chips /\ chip'.mac = chip.mac /\ chip'.dhcp = chip.dhcp
  BY <1>0, <1>1 DEF TypeOK, Chips
<1>4. chip.mac = packet.mac /\ chip.dhcp = packet.dhcp
  BY <1>0, <1>2 DEF ChipInv, Restarting, StoresMac
<1>5. chip' = [mac |-> packet'.mac, ip |-> chip'.ip, dhcp |-> packet'.dhcp]
  <2>1. chip' = [mac |-> chip'.mac, ip |-> chip'.ip, dhcp |-> chip'.dhcp]
    BY <1>3 DEF Chips
  <2> QED BY <2>1, <1>2, <1>3, <1>4
<1> QED BY <1>2, <1>3, <1>4, <1>5, ChangeStep

\* The requests of the configuration tool.
LEMMA RequestStep ==
  ASSUME IInv, do_udp_config
  PROVE  IInv'
<1>0. TypeOK /\ ChipInv
  BY DEF IInv
<1>1. /\ pc = "idle" /\ UNCHANGED <<chip, uart, rom, line, hist>>
      /\ packet \in Packets /\ chip \in Chips /\ uart \in Serials
  BY <1>0 DEF do_udp_config, TypeOK, Chips
<1>2. CASE process_discovery \/ process_get_info
  <2>1. UNCHANGED vars
    BY <1>1, <1>2 DEF process_discovery, process_get_info, vars
  <2> QED BY <2>1, Stutter
<1>3. CASE process_set_info \/ process_firmware_upload_init \/ process_factory_reset \/ process_remote_reset
  <2>1. pc' \in {"save_reset", "reset"}
    BY <1>3 DEF process_set_info, process_firmware_upload_init, process_factory_reset,
                process_remote_reset
  <2>2. packet' \in Packets
    <3>1. /\ [packet EXCEPT !.ip = FactoryAddr, !.dhcp = FALSE, !.serial = FactorySerial] \in Packets
          /\ [[packet EXCEPT !.ip = FactoryAddr, !.dhcp = FALSE, !.serial = FactorySerial]
                EXCEPT !.mac = packet.mac, !.ip = packet.ip] \in Packets
      BY <1>1, ValuesAssumption DEF Packets
    <3> QED BY <3>1, <1>1, <1>3
            DEF process_set_info, process_firmware_upload_init, process_factory_reset,
                process_remote_reset, load_S2E_Packet_from_storage, set_S2E_Packet_to_factory_value
  <2> QED BY <2>1, <2>2, <1>1, ChangeStep
<1> QED BY <1>2, <1>3 DEF do_udp_config

\* A save: the check code, then the configuration it was computed from.
LEMMA SaveStep ==
  ASSUME IInv, SaveCheck \/ SavePayload
  PROVE  IInv'
<1>0. TypeOK /\ ChipInv /\ StoreInv /\ RoomInv /\ RingInv
  BY DEF IInv
<1>1. CASE SaveCheck
  <2>1. /\ rom' = [rom EXCEPT !.check = packet] /\ UNCHANGED <<packet, chip, uart, line, hist>>
        /\ \/ pc = "save_nmac" /\ pc' = "data_nmac"
           \/ pc = "save_done" /\ pc' = "data_done"
           \/ pc = "save_reset" /\ pc' = "data_reset"
    BY <1>1 DEF SaveCheck, Saving, AfterSave, Payload
  <2>2. TypeOK' /\ rom'.check = packet
    BY <1>0, <2>1 DEF TypeOK
  <2>3. (ChipInv /\ StoreInv /\ RoomInv /\ RingInv)'
    BY <1>0, <2>1, <2>2 DEF ChipInv, StoreInv, RoomInv, RingInv, Restarting, StoresMac
  <2> QED BY <2>2, <2>3 DEF IInv
<1>2. CASE SavePayload
  <2>1. /\ rom' = [rom EXCEPT !.data = packet] /\ UNCHANGED <<packet, chip, uart, line, hist>>
        /\ \/ pc = "data_nmac" /\ pc' = "nmac_end"
           \/ pc = "data_done" /\ pc' = "idle"
           \/ pc = "data_reset" /\ pc' = "reset"
    BY <1>2 DEF SavePayload, Saving, AfterSave, Payload
  <2>2. TypeOK' /\ rom'.check = packet /\ rom'.data = packet /\ packet \in Packets
    BY <1>0, <2>1 DEF TypeOK, StoreInv
  <2>3. (ChipInv /\ StoreInv /\ RoomInv /\ RingInv)'
    BY <1>0, <2>1, <2>2 DEF ChipInv, StoreInv, RoomInv, RingInv, Restarting, StoresMac, Stored
  <2> QED BY <2>2, <2>3 DEF IInv
<1> QED BY <1>1, <1>2

\* Every step preserves the inductive invariant.
LEMMA Inductive == IInv /\ [Next]_vars => IInv'
  BY LineStep, EvictStep, StoreStep, MallocStep, NsetStep, NmacStep, NmacEndStep, MusartStep,
     SaveStep, RequestStep, LeasedStep, RestartStep, Stutter DEF Next, Mrst, Reset, PowerLoss

\* The ring is what HistoryExact says.
LEMMA ExactRing == TypeOK /\ RingInv => HistoryExact
<1> SUFFICES ASSUME TypeOK, RingInv PROVE HistoryExact
  OBVIOUS
<1>1. /\ hist.idx \in Slots /\ hist.cnt \in 0 .. PREVBUF_MAX_NUM
      /\ PREVBUF_MAX_NUM \in Nat \ {0, 1} /\ pc # "ring_error"
  BY SizesAssumption DEF TypeOK, RingInv
<1>2. \A k \in 1 .. hist.cnt : Youngest(k) = SlotBefore(hist.idx, k)
  BY <1>1, SlotIs DEF Youngest
<1>3. Taken = SlotsBefore(hist.idx, hist.cnt)
  BY <1>2 DEF Taken, SlotsBefore
<1>4. hist.cnt >= 2 => LineBefore(hist) = Youngest(2)
  BY <1>1, <1>2 DEF LineBefore, SlotBefore, Slots
<1>5. /\ \A s \in Slots : hist.buf[s] # Null <=> s \in Taken
      /\ hist.len = Weight(hist.buf, Taken)
      /\ hist.cnt > 1 => hist.len <= PREVBUF_MAX_SIZE
  BY <1>3 DEF RingInv, Exact
<1> QED BY <1>1, <1>4, <1>5 DEF HistoryExact, Weight

(* The configuration, the ROM, the ring and the program points keep their  *)
(* types: the line never leaves its buffer.                                *)
THEOREM TypeCorrect == Spec => []TypeOK
<1>1. IInv => TypeOK
  BY DEF IInv
<1> QED BY <1>1, InitHolds, Inductive, PTL DEF Spec

(* For any sizes of the buffers and any malloc() failures: the ring of     *)
(* stored lines is exact, prevlen is the sum of what they take, and the    *)
(* "ring buf" errors are never reached.                                    *)
THEOREM RingExact == Spec => []HistoryExact
<1>1. IInv => HistoryExact
  BY ExactRing DEF IInv
<1> QED BY <1>1, InitHolds, Inductive, PTL DEF Spec

(* Between commands the chip works with the configuration.                 *)
THEOREM ChipFollows == Spec => []ConfigApplied
<1>1. IInv => ConfigApplied
  BY DEF IInv, ChipInv, ConfigApplied, Restarting, StoresMac
<1> QED BY <1>1, InitHolds, Inductive, PTL DEF Spec

(* An address that was set is in the ROM, under a fitting check code, even *)
(* when the power goes between the two writes of a save.                   *)
THEOREM MacKept == Spec => []MacStored
<1>1. IInv => MacStored
  BY DEF IInv, StoreInv, MacStored, Stored
<1> QED BY <1>1, InitHolds, Inductive, PTL DEF Spec
=============================================================================
