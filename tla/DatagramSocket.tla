--------------------------- MODULE DatagramSocket ---------------------------
(***************************************************************************)
(* What a datagram socket promises to the code above socket.c, whatever    *)
(* calls it makes and whatever arrives meanwhile: datagrams are received   *)
(* in the order of their arrival, each from its first byte to its last, in *)
(* as many pieces as the caller likes and none of them twice; a call that  *)
(* reports data has taken some, unless the datagram is empty; and one      *)
(* datagram is sent at a time, whose own outcome is reported.              *)
(***************************************************************************)
EXTENDS Naturals

VARIABLES
  waiting,   \* the datagrams not yet begun: where each lies in the order of arrival, its length
  rest,      \* the bytes still to be received of the one begun last
  more,      \* PACK_REMAINED of SO_PACKINFO
  out,       \* the datagram being sent: "none", "under way", or its outcome
  ret        \* what the last call returned; "len" also stands for 0

vars == <<waiting, rest, more, out, ret>>

\* What only a successful call, and only a datagram that did not leave, may return.
Telling == {"len", "SOCKERR_TIMEOUT"}

Init == waiting = {} /\ rest = 0 /\ ~more /\ out = "none" /\ ret \notin Telling

\* socket(), close(), or a frame that makes recvfrom() close the socket: all is given up.
Discard ==
  /\ out = "none" /\ UNCHANGED out
  /\ waiting' = {} /\ rest' = 0 /\ ~more' /\ ret' \notin Telling

\* A call that begins, or returns without having done anything.
Answer ==
  /\ out = "none" /\ ret' \notin Telling
  /\ UNCHANGED <<waiting, rest, more, out>>

\* The network: a datagram comes after those that wait.
Arrive ==
  /\ \E d \in waiting' :
       waiting' = waiting \union {d} /\ \A e \in waiting : e.first < d.first
  /\ UNCHANGED <<rest, more, out, ret>>

\* Taking k bytes of n: at least one, unless there is none.
Take(n, k) ==
  /\ k \in 0 .. n /\ (k = 0 => n = 0)
  /\ rest' = n - k

\* recvfrom(): of the datagram begun last, or else of the oldest that waits.
Receive ==
  /\ out = "none" /\ UNCHANGED out
  /\ \/ rest # 0 /\ (\E k \in 1 .. rest : Take(rest, k)) /\ UNCHANGED waiting
     \/ /\ rest = 0
        /\ \E d \in waiting :
             /\ \A e \in waiting : d.first <= e.first
             /\ \E k \in 0 .. d.len : Take(d.len, k)
             /\ waiting' = waiting \ {d}
  /\ more' = (rest' # 0) /\ ret' = "len"

\* sendto(): the datagram is handed to the chip,
Send == out = "none" /\ out' = "under way" /\ UNCHANGED <<waiting, rest, more, ret>>

\* leaves it or does not,
Leave ==
  /\ out = "under way" /\ out' \in {"SENDOK", "TIMEOUT"}
  /\ UNCHANGED <<waiting, rest, more, ret>>

\* and the call returns what became of it.
Report ==
  /\ out \in {"SENDOK", "TIMEOUT"} /\ out' = "none"
  /\ ret' = (IF out = "SENDOK" THEN "len" ELSE "SOCKERR_TIMEOUT")
  /\ UNCHANGED <<waiting, rest, more>>

Next == Discard \/ Answer \/ Arrive \/ Receive \/ Send \/ Leave \/ Report

Spec == Init /\ [][Next]_vars
=============================================================================
