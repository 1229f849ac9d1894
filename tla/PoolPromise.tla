----------------------------- MODULE PoolPromise -----------------------------
(***************************************************************************)
(* What mbedtls may expect of the allocator it is given: a block it asks   *)
(* for lies in the arena, aligned, apart from every block it still holds,  *)
(* and is as long as asked.  A request that fails changes nothing.         *)
(***************************************************************************)
EXTENDS Integers

CONSTANTS PoolBytes

VARIABLE live   \* the length of each block held, by its address

Align == 8

Apart(p, m, q, n) == p + m <= q \/ q + n <= p

Init == live = [p \in {} |-> 0]

Places == {p \in 1..PoolBytes : p % Align = 0}

Alloc(p, n) ==
    /\ \A q \in DOMAIN live : Apart(p, n, q, live[q])
    /\ live' = [q \in DOMAIN live \cup {p} |-> IF q = p THEN n ELSE live[q]]

Free(p) ==
    /\ p \in DOMAIN live
    /\ live' = [q \in DOMAIN live \ {p} |-> live[q]]

Reset == live' = [p \in {} |-> 0]

Next ==
    \/ \E p \in Places : \E n \in 1..(PoolBytes - p) : Alloc(p, n)
    \/ \E p \in DOMAIN live : Free(p)
    \/ Reset

Spec == Init /\ [][Next]_live
=============================================================================
