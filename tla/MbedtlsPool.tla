----------------------------- MODULE MbedtlsPool -----------------------------
(***************************************************************************)
(* userland/libc/mbedtls_alloc.c: the pool mbedtls allocates from.  First  *)
(* fit over a doubly linked list of blocks that lie in the pool, each      *)
(* behind its header; a block is split when it is taken and merged with    *)
(* free neighbours when it is freed, one merge per step.  Addresses are    *)
(* offsets in the pool; sizes are size_t, so additions wrap at Word.       *)
(***************************************************************************)
EXTENDS Integers, FiniteSets

CONSTANTS
    PoolBytes,     \* EYN_MBEDTLS_POOL_BYTES
    HeaderBytes,   \* sizeof(eyn_mbedtls_block_t)
    Word,          \* SIZE_MAX + 1
    Requests       \* the pairs <<nmemb, size>> that are asked for

Align == 8         \* EYN_MBEDTLS_ALIGN
Null == -1

ASSUME PoolAssumption ==
    /\ HeaderBytes \in Nat \ {0} /\ HeaderBytes % Align = 0
    /\ PoolBytes \in Nat /\ PoolBytes % Align = 0
    /\ PoolBytes > HeaderBytes
    /\ Word \in Nat /\ PoolBytes + Align <= Word
ASSUME RequestsAssumption ==
    Requests \subseteq {<<n, s>> : n \in 0..(Word - 1), s \in 0..(Word - 1)}

VARIABLES
    ready,   \* g_pool_initialized
    block,   \* the blocks of the list that starts at g_head, by address
    live,    \* history: the bytes asked for, by the pointer returned
    pc,      \* "idle", or what eyn_mbedtls_free is merging
    at       \* the block it merges forward

vars == <<ready, block, live, pc, at>>

Header == [size : Nat, free : BOOLEAN, next : Nat \cup {Null},
           prev : Nat \cup {Null}]

Nothing == [p \in {} |-> 0]

\* eyn_mbedtls_pool_init: one free block.
Fresh == [b \in {0} |-> [size |-> PoolBytes - HeaderBytes, free |-> TRUE,
                         next |-> Null, prev |-> Null]]
Pool == IF ready THEN block ELSE Fresh

Init ==
    /\ ready = FALSE /\ block = Nothing /\ live = Nothing
    /\ pc = "idle" /\ at = 0

End(b) == b + HeaderBytes + block[b].size

----------------------------------------------------------------------------
(* eyn_mbedtls_calloc.                                                     *)

Wrap(x) == IF x < Word THEN x ELSE x - Word

AlignUp(v) == (Wrap(v + (Align - 1)) \div Align) * Align

\* Mutated form: the product is not checked, and wraps.
Asked_Unchecked(n, s) == AlignUp((n * s) % Word)

\* The bytes to find, 0 when the request is refused at once.
Asked(n, s) ==
    IF n = 0 \/ s = 0 THEN 0
    ELSE IF n > (Word - 1) \div s THEN 0 ELSE AlignUp(n * s)

\* Mutated form: the block after the new one keeps its back link.
Split_NoBackLink(b, need) ==
    LET old == Pool[b]
        r == b + HeaderBytes + need
        right == [size |-> old.size - need - HeaderBytes, free |-> TRUE,
                  next |-> old.next, prev |-> b]
    IN  IF old.size <= need + HeaderBytes + Align
        THEN [Pool EXCEPT ![b].free = FALSE]
        ELSE [a \in DOMAIN Pool \cup {r} |->
                  CASE a = b -> [old EXCEPT !.size = need, !.next = r,
                                            !.free = FALSE]
                    [] a = r -> right
                    [] OTHER -> Pool[a]]

\* eyn_mbedtls_split_block, and block->free = 0: what is left of the block
\* becomes a free block unless it is too small for one.
Split(b, need) ==
    LET old == Pool[b]
        r == b + HeaderBytes + need
        right == [size |-> old.size - need - HeaderBytes, free |-> TRUE,
                  next |-> old.next, prev |-> b]
    IN  IF old.size <= need + HeaderBytes + Align
        THEN [Pool EXCEPT ![b].free = FALSE]
        ELSE [a \in DOMAIN Pool \cup {r} |->
                  CASE a = b -> [old EXCEPT !.size = need, !.next = r,
                                            !.free = FALSE]
                    [] a = r -> right
                    [] a = old.next /\ a # b /\ a # r ->
                           [Pool[a] EXCEPT !.prev = r]
                    [] OTHER -> Pool[a]]

Fits(b, need) == Pool[b].free /\ Pool[b].size >= need
FirstFit(b, need) ==
    /\ b \in DOMAIN Pool /\ Fits(b, need)
    /\ \A a \in DOMAIN Pool : a < b => ~Fits(a, need)

Calloc(n, s) ==
    /\ pc = "idle"
    /\ Asked(n, s) # 0
    /\ \E b \in DOMAIN Pool :
           /\ FirstFit(b, Asked(n, s))
           /\ block' = Split(b, Asked(n, s))
           /\ live' = [p \in DOMAIN live \cup {b + HeaderBytes} |->
                           IF p = b + HeaderBytes THEN n * s ELSE live[p]]
    /\ ready' = TRUE
    /\ UNCHANGED <<pc, at>>

\* NULL: nothing is asked for, the size overflows, or no block is large
\* enough.
CallocFails(n, s) ==
    /\ pc = "idle"
    /\ \/ Asked(n, s) = 0 /\ UNCHANGED <<ready, block>>
       \/ /\ Asked(n, s) # 0
          /\ \A b \in DOMAIN Pool : ~Fits(b, Asked(n, s))
          /\ ready' = TRUE /\ block' = Pool
    /\ UNCHANGED <<live, pc, at>>

----------------------------------------------------------------------------
(* eyn_mbedtls_free and eyn_mbedtls_coalesce_forward.                      *)

\* mbedtls frees what it holds, once.
Free(p) ==
    /\ pc = "idle" /\ p \in DOMAIN live
    /\ block' = [block EXCEPT ![p - HeaderBytes].free = TRUE]
    /\ live' = [q \in DOMAIN live \ {p} |-> live[q]]
    /\ pc' = "self" /\ at' = p - HeaderBytes
    /\ UNCHANGED ready

Mergeable(b) == block[b].next # Null /\ block[block[b].next].free

\* One turn of the loop: the next block goes into this one.
Merge ==
    /\ pc \in {"self", "prev"} /\ Mergeable(at)
    /\ LET right == block[at].next
       IN  block' = [a \in DOMAIN block \ {right} |->
               CASE a = at -> [block[at] EXCEPT
                         !.size = @ + (HeaderBytes + block[right].size),
                         !.next = block[right].next]
                 [] a # at /\ a = block[right].next ->
                         [block[a] EXCEPT !.prev = at]
                 [] OTHER -> block[a]]
    /\ UNCHANGED <<ready, live, pc, at>>

\* Mutated form: only the blocks after the freed one are merged.
SelfMerged_NoPrev ==
    /\ pc = "self" /\ ~Mergeable(at)
    /\ pc' = "idle"
    /\ UNCHANGED <<ready, block, live, at>>

\* Then the block before it, if that is free, takes it in.
SelfMerged ==
    /\ pc = "self" /\ ~Mergeable(at)
    /\ IF block[at].prev # Null /\ block[block[at].prev].free
       THEN pc' = "prev" /\ at' = block[at].prev
       ELSE pc' = "idle" /\ UNCHANGED at
    /\ UNCHANGED <<ready, block, live>>

PrevMerged ==
    /\ pc = "prev" /\ ~Mergeable(at)
    /\ pc' = "idle"
    /\ UNCHANGED <<ready, block, live, at>>

----------------------------------------------------------------------------
\* eyn_mbedtls_alloc_reset, before each connection: whatever was held is
\* forgotten.
Reset ==
    /\ pc = "idle"
    /\ ready' = FALSE /\ block' = Nothing /\ live' = Nothing
    /\ UNCHANGED <<pc, at>>

Freeing == Merge \/ SelfMerged \/ PrevMerged

Next ==
    \/ \E r \in Requests : Calloc(r[1], r[2]) \/ CallocFails(r[1], r[2])
    \/ \E p \in DOMAIN live : Free(p)
    \/ Freeing
    \/ Reset

Spec == Init /\ [][Next]_vars

\* eyn_mbedtls_free runs to its end once it is called.
FairSpec == Spec /\ WF_vars(Freeing)

----------------------------------------------------------------------------
Addresses == {b \in 0..PoolBytes : b % Align = 0}

BlocksOK ==
    /\ DOMAIN block \subseteq Addresses
    /\ \A b \in DOMAIN block :
           block[b] \in Header /\ block[b].size > 0 /\ block[b].size % Align = 0

\* The types, with the alignment of blocks and sizes.
TypeOK ==
    /\ ready \in BOOLEAN /\ (~ready => block = Nothing)
    /\ BlocksOK
    /\ block = [b \in DOMAIN block |-> block[b]]
    /\ live = [p \in DOMAIN live |-> live[p]]
    /\ \A p \in DOMAIN live : p \in Nat /\ live[p] \in Nat \ {0}
    /\ pc \in {"idle", "self", "prev"} /\ at \in Addresses

\* The list covers the pool: from the start each block ends where the next
\* one begins, the last one at the end of the pool, and every back link
\* leads to the block before.
Tiled ==
    ready =>
        /\ 0 \in DOMAIN block /\ block[0].prev = Null
        /\ \A b \in DOMAIN block :
               IF End(b) = PoolBytes THEN block[b].next = Null
               ELSE /\ block[b].next = End(b)
                    /\ End(b) \in DOMAIN block
                    /\ block[End(b)].prev = b
        /\ \A a, b \in DOMAIN block : a < b => End(a) <= b

\* Between two calls no two neighbours are both free: a pool never fails a
\* request for want of a merge.
Coalesced ==
    pc = "idle" => \A b \in DOMAIN block :
        block[b].free /\ block[b].next # Null => ~block[block[b].next].free

\* When mbedtls has freed everything, in whatever order, the pool is one
\* free block again and serves what a fresh pool serves.
EmptyPoolIsWhole ==
    pc = "idle" /\ ready /\ DOMAIN live = {} => block = Fresh

\* The pool keeps the promise: blocks in the arena, aligned, as long as
\* asked and apart from all others.
Promise == INSTANCE PoolPromise
ImplementsPromise == Promise!Spec

=============================================================================
