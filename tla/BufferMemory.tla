---------------------------- MODULE BufferMemory ----------------------------
(***************************************************************************)
(* How wiz_send_data() and wiz_recv_data() of the chips with a flat        *)
(* address space find their way in a socket's window of buffer memory.     *)
(***************************************************************************)
EXTENDS Integers

\* The pieces <<address, length>> that a copy of len bytes at pointer ptr is made in.
Pieces(base, max, ptr, len) ==
  LET mask == ptr % max
  IN IF mask + len > max
     THEN {<<base + mask, max - mask>>, <<base, len - (max - mask)>>}
     ELSE {<<base + mask, len>>}

\* All of a piece lies in the window of max bytes that starts at base.
Inside(piece, base, max) == piece[2] > 0 => base <= piece[1] /\ piece[1] + piece[2] <= base + max

\* The addresses that are copied.
Copied(pieces) == UNION {piece[1] .. piece[1] + piece[2] - 1 : piece \in pieces}
=============================================================================
