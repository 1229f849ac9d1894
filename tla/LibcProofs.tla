------------------------------ MODULE LibcProofs ------------------------------
(***************************************************************************)
(* Proofs about the two parts of userland/libc that are modelled.          *)
(*                                                                         *)
(* MbedtlsPool: the headers stay in order, the pool is coalesced between   *)
(* calls and implements PoolPromise, for every pool size, header size,     *)
(* word and set of requests.                                               *)
(*                                                                         *)
(* SocketFds: nothing leaks and nothing of another process is closed, for  *)
(* any processes and any size of the pool of sockets and of the tables.    *)
(***************************************************************************)
EXTENDS MbedtlsPool, SocketFds, FiniteSetTheorems, TLAPS

----------------------------------------------------------------------------
(* MbedtlsPool *)

\* The overflow test of calloc, n <= SIZE_MAX / s, bounds the product.
LEMMA TimesLeq ==
    ASSUME NEW x \in Nat, NEW s \in Nat \ {0}, NEW n \in Nat, n <= x \div s
    PROVE  n * s <= x
<1> DEFINE q == x \div s
<1>1. q \in Nat /\ q * s <= x
  OBVIOUS
<1>2. ASSUME NEW k \in Nat, n + k = q PROVE n * s <= q * s
  <2>1. k * s \in Nat
    OBVIOUS
  <2>2. q * s = n * s + k * s
    BY <1>2
  <2> QED BY <2>1, <2>2
<1>3. q - n \in Nat /\ n + (q - n) = q
  BY <1>1
<1>4. n * s <= q * s
  BY <1>2, <1>3
<1> HIDE DEF q
<1> QED BY <1>1, <1>4

\* Sums and differences of aligned numbers are aligned.
LEMMA Multiples ==
    ASSUME NEW a \in Int, NEW b \in Int, a % Align = 0, b % Align = 0
    PROVE  (a + b) % Align = 0 /\ (a - b) % Align = 0
BY DEF Align

\* A size that align_up does not wrap is aligned and no smaller.
LEMMA AlignUpRounds ==
    ASSUME NEW v \in 0..(Word - 1), AlignUp(v) # 0
    PROVE  AlignUp(v) \in Nat /\ AlignUp(v) >= v /\ AlignUp(v) % Align = 0
BY PoolAssumption DEF AlignUp, Wrap, Align

----------------------------------------------------------------------------
(* The inductive invariant, said of the pool as the next call finds it: a  *)
(* pool that is not ready yet counts as one free block.                    *)

Stop(f, b) == b + HeaderBytes + f[b].size

Well(f) ==
    /\ f = [b \in DOMAIN f |-> f[b]]
    /\ DOMAIN f \subseteq Addresses
    /\ \A b \in DOMAIN f :
           f[b] \in Header /\ f[b].size > 0 /\ f[b].size % Align = 0

Linked(f, b) ==
    IF Stop(f, b) = PoolBytes THEN f[b].next = Null
    ELSE /\ f[b].next = Stop(f, b)
         /\ Stop(f, b) \in DOMAIN f
         /\ f[Stop(f, b)].prev = b

InOrder(f) == \A a, b \in DOMAIN f : a < b => Stop(f, a) <= b

Backed(f, b) == f[b].prev \in DOMAIN f /\ Stop(f, f[b].prev) = b

Chain(f) ==
    /\ 0 \in DOMAIN f /\ f[0].prev = Null
    /\ \A b \in DOMAIN f : Linked(f, b)
    /\ InOrder(f)
    /\ \A b \in DOMAIN f \ {0} : Backed(f, b)

\* What mbedtls holds is what is not free.
Held(f, l) ==
    /\ l = [p \in DOMAIN l |-> l[p]]
    /\ \A b \in DOMAIN f : f[b].free <=> b + HeaderBytes \notin DOMAIN l
    /\ \A p \in DOMAIN l :
           /\ p \in Int /\ p - HeaderBytes \in DOMAIN f
           /\ l[p] \in Nat \ {0} /\ l[p] <= f[p - HeaderBytes].size

\* Two free neighbours are the ones that are being merged.
Touching(f, b) == f[b].free /\ f[b].next # Null /\ f[f[b].next].free

Near(f) ==
    \A b \in DOMAIN f : Touching(f, b) =>
        \/ pc = "self" /\ at \in {b, f[b].next}
        \/ pc = "prev" /\ at = b

Control ==
    /\ ready \in BOOLEAN
    /\ ~ready => block = Nothing /\ live = Nothing /\ pc = "idle"
    /\ pc \in {"idle", "self", "prev"} /\ at \in Addresses
    /\ pc # "idle" => at \in DOMAIN block /\ block[at].free

IInv == Control /\ Well(Pool) /\ Chain(Pool) /\ Held(Pool, live) /\ Near(Pool)

\* The pool after eyn_mbedtls_pool_init.
LEMMA FreshIsGood == Well(Fresh) /\ Chain(Fresh) /\ Held(Fresh, Nothing)
<1>1. HeaderBytes \in Nat /\ PoolBytes \in Nat /\ PoolBytes - HeaderBytes \in Nat
      /\ PoolBytes - HeaderBytes > 0 /\ 0 \in Addresses
  BY PoolAssumption DEF Addresses, Align
<1>2. (PoolBytes - HeaderBytes) % Align = 0
  BY PoolAssumption, Multiples
<1>3. DOMAIN Fresh = {0} /\ Fresh[0].size = PoolBytes - HeaderBytes
      /\ Fresh[0].free = TRUE /\ Fresh[0].next = Null /\ Fresh[0].prev = Null
      /\ Fresh[0] \in Header
  BY <1>1 DEF Fresh, Header
<1>4. Stop(Fresh, 0) = PoolBytes
  BY <1>1, <1>3 DEF Stop
<1>5. Well(Fresh)
  BY <1>1, <1>2, <1>3 DEF Well, Fresh
<1>6. Chain(Fresh)
  BY <1>3, <1>4 DEF Chain, Linked, InOrder, Backed
<1>7. Held(Fresh, Nothing)
  BY <1>3 DEF Held, Nothing
<1> QED BY <1>5, <1>6, <1>7

\* The invariant holds at the start, when the pool is not ready yet.
LEMMA InitInvariant == Init => IInv
<1> SUFFICES ASSUME Init PROVE IInv
  OBVIOUS
<1>1. Pool = Fresh
  BY DEF Init, Pool
<1>0. 0 \in Addresses
  BY PoolAssumption DEF Addresses, Align
<1>2. Control
  BY <1>0 DEF Init, Control
<1>3. Near(Fresh)
  BY DEF Near, Touching, Fresh
<1> QED BY <1>1, <1>2, <1>3, FreshIsGood DEF Init, IInv

----------------------------------------------------------------------------
(* A block is taken.                                                       *)

\* Splitting a block that fits keeps the list in order and the block as long as asked.
LEMMA SplitIsGood ==
    ASSUME NEW n \in Nat, NEW s \in Nat, Asked(n, s) # 0,
           NEW b \in DOMAIN Pool, Fits(b, Asked(n, s)),
           Asked(n, s) \in Nat, Asked(n, s) % Align = 0,
           n * s \in Nat \ {0}, n * s <= Asked(n, s),
           Well(Pool), Chain(Pool), Held(Pool, live),
           \A a \in DOMAIN Pool : ~Touching(Pool, a)
    PROVE  LET f == Split(b, Asked(n, s))
               l == [p \in DOMAIN live \cup {b + HeaderBytes} |->
                         IF p = b + HeaderBytes THEN n * s ELSE live[p]]
           IN  /\ Well(f) /\ Chain(f) /\ Held(f, l)
               /\ \A a \in DOMAIN f : ~Touching(f, a)
<1> DEFINE g == Pool
           need == Asked(n, s)
           f == Split(b, need)
           l == [p \in DOMAIN live \cup {b + HeaderBytes} |->
                     IF p = b + HeaderBytes THEN n * s ELSE live[p]]
           r == b + HeaderBytes + need
<1>0. /\ HeaderBytes \in Nat \ {0} /\ HeaderBytes % Align = 0
      /\ PoolBytes \in Nat /\ need \in Nat \ {0} /\ need % Align = 0
      /\ 0 % Align = 0
  BY PoolAssumption DEF Align
<1>1. /\ b \in Nat /\ b % Align = 0 /\ b <= PoolBytes
      /\ g[b] \in Header /\ g[b].size \in Nat /\ g[b].size >= need
      /\ g[b].free = TRUE /\ g[b].size % Align = 0
  BY DEF Well, Addresses, Fits, Header
<1>2. \A a \in DOMAIN g : a \in Nat /\ a % Align = 0 /\ a <= PoolBytes
                          /\ g[a] \in Header /\ g[a].size \in Nat \ {0}
                          /\ g[a].size % Align = 0
  BY DEF Well, Addresses, Header
<1>3. \A a \in DOMAIN g : Stop(g, a) <= PoolBytes /\ Stop(g, a) > a
  <2> TAKE a \in DOMAIN g
  <2>1. Linked(g, a)
    BY DEF Chain
  <2>2. Stop(g, a) = PoolBytes \/ Stop(g, a) \in DOMAIN g
    BY <2>1 DEF Linked
  <2>3. Stop(g, a) > a
    BY <1>0, <1>2 DEF Stop
  <2> QED BY <1>0, <1>2, <2>2, <2>3
<1>4. b + HeaderBytes \notin DOMAIN live
  BY <1>1 DEF Held
<1>5. /\ DOMAIN l = DOMAIN live \cup {b + HeaderBytes}
      /\ l[b + HeaderBytes] = n * s
      /\ \A p \in DOMAIN live : l[p] = live[p]
      /\ l = [p \in DOMAIN l |-> l[p]]
  BY <1>4
<1>6. CASE g[b].size <= need + HeaderBytes + Align
  <2>1. f = [g EXCEPT ![b].free = FALSE]
    BY <1>6 DEF Split
  <2>2. /\ DOMAIN f = DOMAIN g
        /\ f[b] = [g[b] EXCEPT !.free = FALSE]
        /\ \A a \in DOMAIN g : a # b => f[a] = g[a]
        /\ f = [a \in DOMAIN f |-> f[a]]
    BY <2>1 DEF Well
  <2> HIDE DEF f, l
  <2>3. \A a \in DOMAIN g : f[a] \in Header /\ f[a].size = g[a].size
            /\ f[a].next = g[a].next /\ f[a].prev = g[a].prev
            /\ f[a].free = (IF a = b THEN FALSE ELSE g[a].free)
    <3> TAKE a \in DOMAIN g
    <3>1. CASE a = b
      BY <3>1, <1>1, <2>2 DEF Header
    <3>2. CASE a # b
      BY <3>2, <1>2, <2>2
    <3> QED BY <3>1, <3>2
  <2>4. \A a \in DOMAIN g : Stop(f, a) = Stop(g, a)
    BY <2>3 DEF Stop
  <2>5. Well(f)
    BY <1>2, <2>2, <2>3 DEF Well
  <2>6. Chain(f)
    BY <2>2, <2>3, <2>4 DEF Chain, Linked, InOrder, Backed
  <2>7. Held(f, l)
    <3>1. ASSUME NEW a \in DOMAIN f
          PROVE  f[a].free <=> a + HeaderBytes \notin DOMAIN l
      <4>1. a # b => a + HeaderBytes # b + HeaderBytes
        <5>1. a \in Nat
          BY <1>2, <2>2
        <5> QED BY <5>1, <1>0, <1>1
      <4> QED BY <4>1, <1>5, <2>2, <2>3 DEF Held
    <3>2. ASSUME NEW p \in DOMAIN l
          PROVE  /\ p \in Int /\ p - HeaderBytes \in DOMAIN f
                 /\ l[p] \in Nat \ {0} /\ l[p] <= f[p - HeaderBytes].size
      <4>1. CASE p = b + HeaderBytes
        <5>1. p \in Int /\ p - HeaderBytes = b
          BY <1>0, <1>1, <4>1
        <5>2. l[p] = n * s /\ f[b].size = g[b].size
          BY <1>5, <2>3, <4>1
        <5>3. n * s <= g[b].size
          BY <1>0, <1>1
        <5> QED BY <5>1, <5>2, <5>3, <2>2
      <4>2. CASE p # b + HeaderBytes
        BY <4>2, <1>5, <2>2, <2>3 DEF Held
      <4> QED BY <4>1, <4>2
    <3>3. l = [p \in DOMAIN l |-> l[p]]
      BY DEF l
    <3>4. \A a \in DOMAIN f : f[a].free <=> a + HeaderBytes \notin DOMAIN l
      BY <3>1
    <3>5. \A p \in DOMAIN l :
              /\ p \in Int /\ p - HeaderBytes \in DOMAIN f
              /\ l[p] \in Nat \ {0} /\ l[p] <= f[p - HeaderBytes].size
      BY <3>2
    <3> QED BY <3>3, <3>4, <3>5, Zenon DEF Held
  <2>8. \A a \in DOMAIN f : ~Touching(f, a)
    <3> SUFFICES ASSUME NEW a \in DOMAIN f, Touching(f, a) PROVE FALSE
      OBVIOUS
    <3>1. f[a].free /\ f[a].next # Null /\ f[f[a].next].free
      BY DEF Touching
    <3>2. g[a].next \in DOMAIN g /\ g[a].free /\ g[a].next # Null
      <4>1. a \in DOMAIN g /\ f[a].next = g[a].next
        BY <2>2, <2>3
      <4>2. Linked(g, a)
        BY <4>1 DEF Chain
      <4>3. a # b
        BY <3>1, <2>3, <4>1
      <4>4. g[a].free
        BY <3>1, <2>2, <4>1, <4>3
      <4> QED BY <3>1, <4>1, <4>2, <4>4 DEF Linked
    <3>3. g[g[a].next].free
      BY <3>1, <3>2, <2>2, <2>3
    <3> QED BY <3>2, <3>3, <2>2 DEF Touching
  <2> QED BY <2>5, <2>6, <2>7, <2>8 DEF f, l
<1>7. CASE ~(g[b].size <= need + HeaderBytes + Align)
  <2> DEFINE x == g[b].next
             rest == g[b].size - need - HeaderBytes
             left == [g[b] EXCEPT !.size = need, !.next = r, !.free = FALSE]
             right == [size |-> rest, free |-> TRUE, next |-> x, prev |-> b]
  <2>1. /\ rest \in Nat \ {0} /\ rest % Align = 0
        /\ r \in Nat /\ r % Align = 0 /\ b < r /\ r < Stop(g, b)
        /\ r + HeaderBytes + rest = Stop(g, b)
        /\ r <= PoolBytes
    <3>1. rest \in Nat \ {0} /\ r \in Nat /\ b < r /\ r < Stop(g, b)
          /\ r + HeaderBytes + rest = Stop(g, b)
      BY <1>0, <1>1, <1>7 DEF Stop, Align
    <3>2. r <= PoolBytes
      BY <1>0, <1>1, <1>3, <3>1 DEF Stop
    <3>3. (b + HeaderBytes) % Align = 0 /\ (g[b].size - need) % Align = 0
      <4>1. b \in Int /\ HeaderBytes \in Int /\ g[b].size \in Int /\ need \in Int
        BY <1>0, <1>1
      <4> HIDE DEF g, need
      <4> QED BY <4>1, <1>0, <1>1, Multiples
    <3>4. r % Align = 0 /\ rest % Align = 0
      <4>1. b + HeaderBytes \in Int /\ g[b].size - need \in Int
            /\ HeaderBytes \in Int /\ need \in Int
        BY <1>0, <1>1
      <4> HIDE DEF g, need
      <4> QED BY <4>1, <1>0, <3>3, Multiples
    <3> QED BY <3>1, <3>2, <3>4
  <2>2. r \notin DOMAIN g
    <3> SUFFICES ASSUME r \in DOMAIN g PROVE FALSE
      OBVIOUS
    <3>1. Stop(g, b) <= r
      BY <2>1 DEF Chain, InOrder
    <3> QED BY <3>1, <2>1, <1>0, <1>1 DEF Stop
  <2>3. \/ x = Null
        \/ x = Stop(g, b) /\ x \in DOMAIN g /\ g[x].prev = b
    BY DEF Chain, Linked
  <2>4. x # b /\ x # r /\ (x = Null <=> Stop(g, b) = PoolBytes)
    <3>1. Null \notin Nat /\ PoolBytes # Null
      BY <1>0 DEF Null
    <3>2. Stop(g, b) > b /\ Stop(g, b) \in Nat
      BY <1>0, <1>1, <1>3 DEF Stop
    <3>3. Linked(g, b)
      BY DEF Chain
    <3> QED BY <3>1, <3>2, <3>3, <2>1, <2>3, <1>1 DEF Linked
  <2>5. f = [a \in DOMAIN g \cup {r} |->
                CASE a = b -> left
                  [] a = r -> right
                  [] a = x /\ a # b /\ a # r -> [g[a] EXCEPT !.prev = r]
                  [] OTHER -> g[a]]
    BY <1>7 DEF Split
  <2> HIDE DEF f, l
  <2>6. /\ DOMAIN f = DOMAIN g \cup {r} /\ f = [a \in DOMAIN f |-> f[a]]
        /\ f[b] = left /\ f[r] = right
        /\ \A a \in DOMAIN g \ {b} :
               f[a] = IF a = x THEN [g[a] EXCEPT !.prev = r] ELSE g[a]
    BY <2>1, <2>2, <2>4, <2>5, <1>1
  <2>7. /\ left \in Header /\ left.size = need /\ left.free = FALSE
        /\ left.next = r /\ left.prev = g[b].prev
    BY <1>0, <1>1, <2>1 DEF Header
  <2>8. /\ right \in Header /\ right.size = rest /\ right.free = TRUE
        /\ right.next = x /\ right.prev = b
    BY <1>1, <2>1 DEF Header
  <2>9. \A a \in DOMAIN g \ {b} :
            /\ f[a] \in Header /\ f[a].size = g[a].size
            /\ f[a].free = g[a].free /\ f[a].next = g[a].next
            /\ f[a].prev = IF a = x THEN r ELSE g[a].prev
    BY <1>2, <2>1, <2>6 DEF Header
  <2>10. /\ Stop(f, b) = r /\ Stop(f, r) = Stop(g, b)
         /\ \A a \in DOMAIN g \ {b} : Stop(f, a) = Stop(g, a)
    BY <2>1, <2>6, <2>7, <2>8, <2>9 DEF Stop
  <2> HIDE DEF left, right
  <2>11. Well(f)
    <3>1. ASSUME NEW a \in DOMAIN f
          PROVE  /\ a \in Addresses /\ f[a] \in Header
                 /\ f[a].size > 0 /\ f[a].size % Align = 0
      <4>1. CASE a = b
        BY <4>1, <1>0, <1>1, <2>6, <2>7 DEF Addresses
      <4>2. CASE a = r
        BY <4>2, <2>1, <2>6, <2>8 DEF Addresses
      <4>3. CASE a \in DOMAIN g \ {b}
        BY <4>3, <1>2, <2>9 DEF Addresses
      <4> QED BY <4>1, <4>2, <4>3, <2>6
    <3> QED BY <3>1, <2>6 DEF Well
  <2>12. \A a \in DOMAIN f : Linked(f, a)
    <3> TAKE a \in DOMAIN f
    <3>1. CASE a = b
      BY <3>1, <2>1, <2>6, <2>7, <2>8, <2>10, <1>0, <1>1, <1>3
         DEF Linked, Stop
    <3>2. CASE a = r
      <4>1. CASE Stop(g, b) = PoolBytes
        BY <4>1, <3>2, <2>4, <2>6, <2>8, <2>10 DEF Linked
      <4>2. CASE Stop(g, b) # PoolBytes
        BY <4>2, <3>2, <2>3, <2>4, <2>6, <2>8, <2>9, <2>10 DEF Linked
      <4> QED BY <4>1, <4>2
    <3>3. CASE a \in DOMAIN g \ {b}
      <4>1. Linked(g, a) /\ Stop(f, a) = Stop(g, a) /\ f[a].next = g[a].next
        BY <3>3, <2>9, <2>10 DEF Chain
      <4>2. CASE Stop(g, a) = PoolBytes
        BY <4>1, <4>2 DEF Linked
      <4>3. CASE Stop(g, a) # PoolBytes
        <5> DEFINE c == Stop(g, a)
        <5>1. g[a].next = c /\ c \in DOMAIN g /\ g[c].prev = a
          BY <4>1, <4>3 DEF Linked
        <5>2. c # x
          <6> SUFFICES ASSUME c = x PROVE FALSE
            OBVIOUS
          <6>1. x # Null
            BY <5>1, <1>2 DEF Null
          <6> QED BY <6>1, <5>1, <2>3, <3>3
        <5>3. f[c].prev = a
          <6>1. CASE c = b
            BY <6>1, <5>1, <2>6, <2>7
          <6>2. CASE c # b
            BY <6>2, <5>1, <5>2, <2>9
          <6> QED BY <6>1, <6>2
        <5> QED BY <4>1, <4>3, <5>1, <5>3, <2>6 DEF Linked
      <4> QED BY <4>2, <4>3
    <3> QED BY <3>1, <3>2, <3>3, <2>6
  <2>13. InOrder(f)
    <3> SUFFICES ASSUME NEW a \in DOMAIN f, NEW c \in DOMAIN f, a < c
                 PROVE  Stop(f, a) <= c
      BY DEF InOrder
    <3>1. \A d, e \in DOMAIN g : d < e => Stop(g, d) <= e
      BY DEF Chain, InOrder
    <3>2. \A d \in DOMAIN g : d < r => d <= b
      <4> SUFFICES ASSUME NEW d \in DOMAIN g, d < r, ~(d <= b) PROVE FALSE
        OBVIOUS
      <4>1. Stop(g, b) <= d
        BY <3>1, <1>1, <1>2
      <4> QED BY <4>1, <2>1, <1>0, <1>1, <1>2 DEF Stop
    <3>3. CASE a = b
      <4>1. CASE c = r
        BY <3>3, <4>1, <2>1, <2>10
      <4>2. CASE c \in DOMAIN g
        BY <3>2, <3>3, <4>2, <2>1, <2>10, <1>1, <1>2
      <4> QED BY <4>1, <4>2, <2>6
    <3>4. CASE a = r
      <4>1. c \in DOMAIN g /\ b < c
        BY <3>4, <2>1, <2>6, <1>1, <1>2
      <4> QED BY <3>1, <3>4, <4>1, <2>10
    <3>5. CASE a \in DOMAIN g \ {b}
      <4>1. CASE c = r
        <5>1. a < b
          BY <3>2, <3>5, <4>1, <1>1, <1>2
        <5>2. Stop(g, a) <= b
          BY <3>1, <3>5, <5>1
        <5> QED BY <3>5, <4>1, <5>2, <2>1, <2>10, <1>0, <1>1, <1>2 DEF Stop
      <4>2. CASE c \in DOMAIN g
        BY <3>1, <3>5, <4>2, <2>10
      <4> QED BY <4>1, <4>2, <2>6
    <3> QED BY <3>3, <3>4, <3>5, <2>6
  <2>14. \A a \in DOMAIN f \ {0} : Backed(f, a)
    <3> TAKE a \in DOMAIN f \ {0}
    <3>1. CASE a = r
      BY <3>1, <2>6, <2>8, <2>10 DEF Backed
    <3>2. CASE a \in DOMAIN g
      <4>1. g[a].prev \in DOMAIN g /\ Stop(g, g[a].prev) = a
        BY <3>2 DEF Chain, Backed
      <4>2. CASE a = x
        <5>1. x # b /\ f[x].prev = r /\ Stop(f, r) = x
          BY <4>2, <3>2, <2>3, <2>4, <2>9, <2>10, <1>2 DEF Null
        <5> QED BY <4>2, <5>1, <2>6 DEF Backed
      <4>3. CASE a # x
        <5>1. g[a].prev # b
          <6> SUFFICES ASSUME g[a].prev = b PROVE FALSE
            OBVIOUS
          <6>1. Stop(g, b) = a
            BY <4>1
          <6>2. x = Null
            BY <6>1, <4>3, <2>3
          <6>3. Stop(g, b) = PoolBytes
            BY <6>2, <2>4
          <6>4. Stop(g, a) > PoolBytes
            BY <6>1, <6>3, <3>2, <1>3
          <6>5. Stop(g, a) <= PoolBytes /\ Stop(g, a) \in Nat
            BY <3>2, <1>0, <1>2, <1>3 DEF Stop
          <6> QED BY <6>4, <6>5, <1>0
        <5>2. f[a].prev = g[a].prev
          BY <4>3, <3>2, <2>6, <2>7, <2>9
        <5> QED BY <5>1, <5>2, <4>1, <2>6, <2>10 DEF Backed
      <4> QED BY <4>2, <4>3
    <3> QED BY <3>1, <3>2, <2>6
  <2>15. 0 \in DOMAIN f /\ f[0].prev = Null
    <3>1. 0 \in DOMAIN g /\ g[0].prev = Null
      BY DEF Chain
    <3>2. 0 # x
      BY <2>3, <2>4, <1>1, <1>2, <1>3 DEF Null
    <3>3. CASE b = 0
      BY <3>1, <3>3, <2>6, <2>7
    <3>4. CASE b # 0
      BY <3>1, <3>2, <3>4, <2>6, <2>9
    <3> QED BY <3>3, <3>4
  <2>16. Held(f, l)
    <3>1. ASSUME NEW a \in DOMAIN f
          PROVE  f[a].free <=> a + HeaderBytes \notin DOMAIN l
      <4>1. CASE a = b
        BY <4>1, <1>5, <2>6, <2>7
      <4>2. CASE a = r
        <5>1. r + HeaderBytes # b + HeaderBytes
          BY <1>0, <1>1, <2>1
        <5>2. r + HeaderBytes \notin DOMAIN live
          <6> SUFFICES ASSUME r + HeaderBytes \in DOMAIN live PROVE FALSE
            OBVIOUS
          <6>1. (r + HeaderBytes) - HeaderBytes \in DOMAIN g
            BY DEF Held
          <6> QED BY <6>1, <2>1, <2>2, <1>0
        <5> QED BY <4>2, <5>1, <5>2, <1>5, <2>6, <2>8
      <4>3. CASE a \in DOMAIN g \ {b}
        <5>1. a + HeaderBytes # b + HeaderBytes
          BY <4>3, <1>0, <1>1, <1>2
        <5>2. g[a].free <=> a + HeaderBytes \notin DOMAIN live
          BY <4>3 DEF Held
        <5>3. f[a].free = g[a].free
          BY <4>3, <2>9
        <5> QED BY <5>1, <5>2, <5>3, <1>5
      <4> QED BY <4>1, <4>2, <4>3, <2>6
    <3>2. ASSUME NEW p \in DOMAIN l
          PROVE  /\ p \in Int /\ p - HeaderBytes \in DOMAIN f
                 /\ l[p] \in Nat \ {0} /\ l[p] <= f[p - HeaderBytes].size
      <4>1. CASE p = b + HeaderBytes
        <5>1. p \in Int /\ p - HeaderBytes = b
          BY <1>0, <1>1, <4>1
        <5>2. l[p] = n * s /\ f[b].size = need
          BY <1>5, <2>6, <2>7, <4>1
        <5> QED BY <5>1, <5>2, <2>6
      <4>2. CASE p # b + HeaderBytes
        <5>1. /\ p \in Int /\ p - HeaderBytes \in DOMAIN g
              /\ live[p] \in Nat \ {0} /\ live[p] <= g[p - HeaderBytes].size
              /\ l[p] = live[p]
          BY <4>2, <1>5 DEF Held
        <5>2. p - HeaderBytes # b
          BY <4>2, <5>1, <1>0, <1>1
        <5> QED BY <5>1, <5>2, <2>6, <2>9
      <4> QED BY <4>1, <4>2
    <3>3. l = [p \in DOMAIN l |-> l[p]]
      BY DEF l
    <3>4. \A a \in DOMAIN f : f[a].free <=> a + HeaderBytes \notin DOMAIN l
      BY <3>1
    <3>5. \A p \in DOMAIN l :
              /\ p \in Int /\ p - HeaderBytes \in DOMAIN f
              /\ l[p] \in Nat \ {0} /\ l[p] <= f[p - HeaderBytes].size
      BY <3>2
    <3> QED BY <3>3, <3>4, <3>5, Zenon DEF Held
  <2>17. Chain(f)
    BY <2>12, <2>13, <2>14, <2>15 DEF Chain
  <2>18. \A a \in DOMAIN f : ~Touching(f, a)
    <3> SUFFICES ASSUME NEW a \in DOMAIN f, Touching(f, a) PROVE FALSE
      OBVIOUS
    <3>1. f[a].free /\ f[a].next # Null /\ f[f[a].next].free
      BY DEF Touching
    <3>2. CASE a = b
      BY <3>1, <3>2, <2>6, <2>7
    <3>3. CASE a = r
      <4>1. x # Null /\ f[x].free
        BY <3>1, <3>3, <2>6, <2>8
      <4>2. x \in DOMAIN g /\ g[x].free
        BY <4>1, <2>3, <2>4, <2>9
      <4> QED BY <4>1, <4>2, <1>1 DEF Touching
    <3>4. CASE a \in DOMAIN g \ {b}
      <4>1. g[a].next \in DOMAIN g /\ g[a].free /\ g[a].next # Null
        BY <3>1, <3>4, <2>9 DEF Chain, Linked
      <4>2. f[g[a].next].free
        BY <3>1, <3>4, <2>9
      <4>3. g[a].next # b
        BY <4>2, <2>6, <2>7
      <4>4. g[g[a].next].free
        BY <4>1, <4>2, <4>3, <2>9
      <4> QED BY <3>4, <4>1, <4>4 DEF Touching
    <3> QED BY <3>2, <3>3, <3>4, <2>6
  <2> QED BY <2>11, <2>16, <2>17, <2>18 DEF f, l
<1> QED BY <1>6, <1>7

\* A calloc that succeeds keeps the invariant.
LEMMA CallocInvariant ==
    ASSUME IInv, NEW n \in 0..(Word - 1), NEW s \in 0..(Word - 1), Calloc(n, s)
    PROVE  IInv'
<1> DEFINE need == Asked(n, s)
<1>1. PICK b \in DOMAIN Pool :
          /\ Fits(b, need)
          /\ block' = Split(b, need)
          /\ live' = [p \in DOMAIN live \cup {b + HeaderBytes} |->
                          IF p = b + HeaderBytes THEN n * s ELSE live[p]]
  BY DEF Calloc, FirstFit
<1>2. pc = "idle" /\ pc' = "idle" /\ at' = at /\ ready' = TRUE /\ need # 0
  BY DEF Calloc
<1>3. n \in Nat \ {0} /\ s \in Nat \ {0} /\ n <= (Word - 1) \div s
      /\ need = AlignUp(n * s)
  <2>1. Word - 1 \in Nat
    BY PoolAssumption DEF Align
  <2> QED BY <1>2, <2>1 DEF Asked
<1>4. n * s <= Word - 1 /\ n * s \in Nat \ {0}
  <2>1. n * s <= Word - 1
    BY <1>3, TimesLeq, PoolAssumption DEF Align
  <2>2. n * s \in Nat \ {0}
    BY <1>3
  <2> QED BY <2>1, <2>2
<1>5. need \in Nat /\ need >= n * s /\ need % Align = 0
  <2>1. n * s \in 0..(Word - 1)
    BY <1>4, PoolAssumption
  <2> QED BY <1>2, <1>3, <2>1, AlignUpRounds
<1>6. \A a \in DOMAIN Pool : ~Touching(Pool, a)
  BY <1>2 DEF IInv, Near
<1>7. /\ Well(block') /\ Chain(block') /\ Held(block', live')
      /\ \A a \in DOMAIN block' : ~Touching(block', a)
  <2> HIDE DEF need
  <2>1. n \in Nat /\ s \in Nat /\ n * s <= need
    BY <1>3, <1>4, <1>5
  <2> USE DEF need
  <2> QED BY <1>1, <1>2, <1>4, <1>5, <1>6, <2>1, SplitIsGood DEF IInv
<1>8. Pool' = block'
  BY <1>2 DEF Pool
<1>9. Control'
  BY <1>2 DEF IInv, Control
<1>10. (Well(Pool) /\ Chain(Pool) /\ Held(Pool, live) /\ Near(Pool))'
  BY <1>7, <1>8 DEF Near, Well, Chain, Held, Touching, Linked, InOrder, Backed, Stop
<1> QED BY <1>9, <1>10 DEF IInv

\* So does one that returns NULL.
LEMMA CallocFailsInvariant ==
    ASSUME IInv, NEW n, NEW s, CallocFails(n, s)
    PROVE  IInv'
<1>1. pc = "idle" /\ UNCHANGED <<live, pc, at>>
  BY DEF CallocFails
<1>2. Pool' = Pool
  BY DEF CallocFails, Pool
<1>3. Control'
  BY <1>1, <1>2 DEF CallocFails, IInv, Control
<1>4. (Well(Pool) /\ Chain(Pool) /\ Held(Pool, live) /\ Near(Pool))'
  BY <1>1, <1>2 DEF IInv, Near, Well, Chain, Held, Touching, Linked, InOrder,
                    Backed, Stop
<1> QED BY <1>3, <1>4 DEF IInv

----------------------------------------------------------------------------
(* A block is freed and merged with its neighbours.                        *)

\* Marking a block free keeps it: only its neighbours may now want a merge.
LEMMA FreeInvariant ==
    ASSUME IInv, NEW p \in DOMAIN live, Free(p)
    PROVE  IInv'
<1> DEFINE b == p - HeaderBytes
<1>1. ready = TRUE /\ ready' = TRUE /\ pc = "idle" /\ pc' = "self" /\ at' = b
  <2>1. ready = TRUE
    BY DEF IInv, Control, Nothing
  <2> QED BY <2>1 DEF Free
<1>2. Pool = block /\ Pool' = block'
  BY <1>1 DEF Pool
<1>3. block' = [block EXCEPT ![b].free = TRUE]
      /\ live' = [q \in DOMAIN live \ {p} |-> live[q]]
  BY DEF Free
<1>4. Well(block) /\ Chain(block) /\ Held(block, live)
      /\ \A a \in DOMAIN block : ~Touching(block, a)
  BY <1>1, <1>2 DEF IInv, Near
<1>5. b \in DOMAIN block /\ p \in Int /\ HeaderBytes \in Nat /\ b \in Nat
      /\ b + HeaderBytes = p /\ b \in Addresses
  BY <1>4, PoolAssumption DEF Held, Well, Addresses
<1> HIDE DEF b
<1>6. DOMAIN block' = DOMAIN block /\ block' = [a \in DOMAIN block' |-> block'[a]]
  BY <1>3, <1>4 DEF Well
<1>7. \A a \in DOMAIN block :
          /\ block'[a] \in Header /\ block'[a].size = block[a].size
          /\ block'[a].next = block[a].next /\ block'[a].prev = block[a].prev
          /\ a # b => block'[a].free = block[a].free
          /\ a = b => block'[a].free = TRUE
  <2> TAKE a \in DOMAIN block
  <2>1. block[a] \in Header
    BY <1>4 DEF Well
  <2> QED BY <2>1, <1>3, <1>4, <1>5 DEF Header, Well
<1>8. \A a \in DOMAIN block : Stop(block', a) = Stop(block, a)
  BY <1>7 DEF Stop
<1>9. Well(block')
  BY <1>4, <1>6, <1>7 DEF Well
<1>10. Chain(block')
  <2>1. 0 \in DOMAIN block' /\ block'[0].prev = Null
    BY <1>4, <1>6, <1>7 DEF Chain
  <2>2. \A a \in DOMAIN block' : Linked(block', a)
    BY <1>4, <1>6, <1>7, <1>8 DEF Chain, Linked
  <2>3. InOrder(block')
    BY <1>4, <1>6, <1>8 DEF Chain, InOrder
  <2>4. \A a \in DOMAIN block' \ {0} : Backed(block', a)
    BY <1>4, <1>6, <1>7, <1>8 DEF Chain, Backed
  <2> QED BY <2>1, <2>2, <2>3, <2>4 DEF Chain
<1>11. Held(block', live')
  <2>1. live' = [q \in DOMAIN live' |-> live'[q]] /\ DOMAIN live' = DOMAIN live \ {p}
        /\ \A q \in DOMAIN live \ {p} : live'[q] = live[q]
    BY <1>3
  <2>2. ASSUME NEW a \in DOMAIN block'
        PROVE  block'[a].free <=> a + HeaderBytes \notin DOMAIN live'
    <3>1. CASE a = b
      BY <3>1, <2>1, <1>5, <1>7
    <3>2. CASE a # b
      <4>1. a + HeaderBytes # p
        BY <3>2, <1>4, <1>5, <1>6 DEF Well, Addresses
      <4>2. block[a].free <=> a + HeaderBytes \notin DOMAIN live
        BY <1>4, <1>6 DEF Held
      <4>3. block'[a].free = block[a].free
        BY <3>2, <1>6, <1>7
      <4> QED BY <4>1, <4>2, <4>3, <2>1
    <3> QED BY <3>1, <3>2
  <2>3. \A q \in DOMAIN live' :
            /\ q \in Int /\ q - HeaderBytes \in DOMAIN block'
            /\ live'[q] \in Nat \ {0} /\ live'[q] <= block'[q - HeaderBytes].size
    BY <2>1, <1>4, <1>6, <1>7 DEF Held
  <2>4. live' = [q \in DOMAIN live' |-> live'[q]]
    BY <1>3
  <2> QED BY <2>2, <2>3, <2>4, Zenon DEF Held
<1>12. Near(block)'
  <2> SUFFICES ASSUME NEW a \in DOMAIN block', Touching(block', a)
               PROVE  a = b \/ block'[a].next = b
    BY <1>1 DEF Near, Touching
  <2>1. CASE a # b /\ block[a].next # b
    <3>1. block[a].free /\ block[a].next # Null /\ block'[block[a].next].free
      BY <2>1, <1>6, <1>7 DEF Touching
    <3>2. block[a].next \in DOMAIN block
      BY <3>1, <1>4, <1>6 DEF Chain, Linked
    <3>3. Touching(block, a)
      BY <2>1, <3>1, <3>2, <1>7 DEF Touching
    <3> QED BY <3>3, <1>4, <1>6
  <2> QED BY <2>1, <1>6, <1>7
<1>13. Control'
  BY <1>1, <1>5, <1>6, <1>7 DEF Control
<1> QED BY <1>2, <1>9, <1>10, <1>11, <1>12, <1>13
        DEF IInv, Well, Chain, Held, Near, Touching, Linked, InOrder, Backed, Stop

\* One turn of the merge loop keeps it.
LEMMA MergeInvariant ==
    ASSUME IInv, Merge
    PROVE  IInv'
<1> DEFINE f == block
           h == block'
           right == block[at].next
           y == block[right].next
<1>1. ready = TRUE /\ ready' = TRUE /\ pc' = pc /\ at' = at /\ live' = live
      /\ pc \in {"self", "prev"} /\ at \in DOMAIN f /\ f[at].free
      /\ Pool = f /\ Pool' = h
  <2>1. ready = TRUE
    BY DEF IInv, Control, Merge
  <2>2. at \in DOMAIN f /\ f[at].free
    BY DEF IInv, Control, Merge
  <2> QED BY <2>1, <2>2 DEF Merge, Pool
<1>2. Well(f) /\ Chain(f) /\ Held(f, live) /\ Near(f)
  BY <1>1 DEF IInv
<1>3. HeaderBytes \in Nat \ {0} /\ HeaderBytes % Align = 0 /\ PoolBytes \in Nat
  BY PoolAssumption
<1>4. \A a \in DOMAIN f : a \in Nat /\ f[a] \in Header /\ f[a].size \in Nat \ {0}
                          /\ f[a].size % Align = 0 /\ Linked(f, a)
  BY <1>2 DEF Well, Chain, Addresses, Header
<1>5. right = Stop(f, at) /\ right \in DOMAIN f /\ f[right].free /\ f[right].prev = at
      /\ Stop(f, at) # PoolBytes
  BY <1>1, <1>4 DEF Merge, Mergeable, Linked
<1>6. right > at /\ right # at /\ Stop(f, right) > right
      /\ Stop(f, right) = at + HeaderBytes + (f[at].size + (HeaderBytes + f[right].size))
  <2>1. right = at + HeaderBytes + f[at].size
    BY <1>5 DEF Stop
  <2>2. Stop(f, right) = right + HeaderBytes + f[right].size
    BY DEF Stop
  <2>3. at \in Nat /\ right \in Nat /\ f[at].size \in Nat \ {0}
        /\ f[right].size \in Nat \ {0}
    BY <1>1, <1>4, <1>5
  <2> HIDE DEF right
  <2> QED BY <2>1, <2>2, <2>3, <1>3
<1>7. \/ y = Null /\ Stop(f, right) = PoolBytes
      \/ y = Stop(f, right) /\ y \in DOMAIN f /\ f[y].prev = right
         /\ Stop(f, right) # PoolBytes
  BY <1>4, <1>5 DEF Linked
<1>8. y # right /\ y # at
  <2>1. at \in Nat /\ right \in Nat /\ Null \notin Nat
    BY <1>1, <1>4, <1>5 DEF Null
  <2> QED BY <2>1, <1>6, <1>7
<1>9. h = [a \in DOMAIN f \ {right} |->
              CASE a = at -> [f[at] EXCEPT
                        !.size = @ + (HeaderBytes + f[right].size), !.next = y]
                [] a # at /\ a = y -> [f[a] EXCEPT !.prev = at]
                [] OTHER -> f[a]]
  BY DEF Merge
<1> HIDE DEF f, h, right, y
<1>10. /\ DOMAIN h = DOMAIN f \ {right}
       /\ h[at] = [f[at] EXCEPT !.size = f[at].size + (HeaderBytes + f[right].size),
                                !.next = y]
       /\ \A a \in DOMAIN f \ {right, at} :
              h[a] = IF a = y THEN [f[a] EXCEPT !.prev = at] ELSE f[a]
  BY <1>1, <1>5, <1>6, <1>9
<1>11. h = [a \in DOMAIN h |-> h[a]]
  BY <1>9
<1>12. y \in Nat \cup {Null}
  BY <1>4, <1>7
<1>13. h[at] \in Header /\ h[at].free /\ h[at].next = y /\ h[at].prev = f[at].prev
       /\ h[at].size = f[at].size + (HeaderBytes + f[right].size)
  <2>1. f[at] \in Header /\ f[at].free
    BY <1>1, <1>4
  <2>2. f[at].size + (HeaderBytes + f[right].size) \in Nat
    BY <1>1, <1>3, <1>4, <1>5
  <2> QED BY <2>1, <2>2, <1>10, <1>12 DEF Header
<1>14. \A a \in DOMAIN f \ {right, at} :
           /\ h[a] \in Header /\ h[a].size = f[a].size /\ h[a].next = f[a].next
           /\ h[a].free = f[a].free
           /\ h[a].prev = IF a = y THEN at ELSE f[a].prev
  <2> TAKE a \in DOMAIN f \ {right, at}
  <2>1. f[a] \in Header /\ at \in Nat
    BY <1>1, <1>4
  <2>2. CASE a = y
    BY <2>1, <2>2, <1>10 DEF Header
  <2>3. CASE a # y
    BY <2>1, <2>3, <1>10
  <2> QED BY <2>2, <2>3
<1>15. Stop(h, at) = Stop(f, right)
       /\ \A a \in DOMAIN f \ {right, at} : Stop(h, a) = Stop(f, a)
  BY <1>6, <1>13, <1>14 DEF Stop
<1>16. Well(h)
  <2>1. ASSUME NEW a \in DOMAIN h
        PROVE  a \in Addresses /\ h[a] \in Header /\ h[a].size > 0
               /\ h[a].size % Align = 0
    <3>1. a \in Addresses
      BY <1>2, <1>10 DEF Well
    <3>2. CASE a = at
      <4>1. h[at].size > 0
        BY <1>1, <1>3, <1>4, <1>5, <1>13
      <4>2. HeaderBytes \in Int /\ f[at].size \in Int /\ f[right].size \in Int
            /\ f[at].size % Align = 0 /\ f[right].size % Align = 0
            /\ HeaderBytes + f[right].size \in Int
        BY <1>1, <1>3, <1>4, <1>5
      <4>3. (HeaderBytes + f[right].size) % Align = 0
        BY <4>2, <1>3, Multiples
      <4>4. (f[at].size + (HeaderBytes + f[right].size)) % Align = 0
        BY <4>2, <4>3, Multiples
      <4> QED BY <3>1, <3>2, <4>1, <4>4, <1>13
    <3>3. CASE a # at
      BY <3>1, <3>3, <1>4, <1>10, <1>14
    <3> QED BY <3>2, <3>3
  <2> QED BY <2>1, <1>11, Zenon DEF Well
<1>17. \A a \in DOMAIN h : Linked(h, a)
  <2> TAKE a \in DOMAIN h
  <2>1. CASE a = at
    <3>1. CASE y = Null
      BY <2>1, <3>1, <1>7, <1>13, <1>15, <1>4, <1>5 DEF Linked, Null
    <3>2. CASE y # Null
      BY <2>1, <3>2, <1>7, <1>8, <1>10, <1>13, <1>14, <1>15 DEF Linked
    <3> QED BY <3>1, <3>2
  <2>2. CASE a # at
    <3>1. a \in DOMAIN f \ {right, at} /\ Linked(f, a) /\ Stop(h, a) = Stop(f, a)
          /\ h[a].next = f[a].next
      BY <2>2, <1>4, <1>10, <1>14, <1>15
    <3>2. CASE Stop(f, a) = PoolBytes
      BY <3>1, <3>2 DEF Linked
    <3>3. CASE Stop(f, a) # PoolBytes
      <4> DEFINE c == Stop(f, a)
      <4>1. f[a].next = c /\ c \in DOMAIN f /\ f[c].prev = a
        BY <3>1, <3>3 DEF Linked
      <4> HIDE DEF c
      <4>2. c # right
        BY <4>1, <3>1, <1>5
      <4>3. c # y
        <5> SUFFICES ASSUME c = y PROVE FALSE
          OBVIOUS
        <5>1. f[y].prev = right
          BY <4>1, <1>4, <1>7 DEF Null
        <5> QED BY <5>1, <4>1, <3>1
      <4>4. h[c].prev = a
        BY <4>1, <4>2, <4>3, <1>13, <1>14
      <4> QED BY <3>1, <3>3, <4>1, <4>2, <4>4, <1>10 DEF Linked, c
    <3> QED BY <3>2, <3>3
  <2> QED BY <2>1, <2>2
<1>18. InOrder(h)
  <2> SUFFICES ASSUME NEW a \in DOMAIN h, NEW c \in DOMAIN h, a < c
               PROVE  Stop(h, a) <= c
    BY DEF InOrder
  <2>1. \A d, e \in DOMAIN f : d < e => Stop(f, d) <= e
    BY <1>2 DEF Chain, InOrder
  <2>2. a \in DOMAIN f /\ c \in DOMAIN f /\ c # right
    BY <1>10
  <2>3. CASE a = at
    <3>1. right <= c
      BY <2>1, <2>2, <2>3, <1>5
    <3>2. right < c
      BY <3>1, <2>2, <1>4, <1>5
    <3> QED BY <3>2, <2>1, <2>2, <2>3, <1>5, <1>15
  <2>4. CASE a # at
    BY <2>1, <2>2, <2>4, <1>10, <1>15
  <2> QED BY <2>3, <2>4
<1>19. \A a \in DOMAIN h \ {0} : Backed(h, a)
  <2> TAKE a \in DOMAIN h \ {0}
  <2>1. f[a].prev \in DOMAIN f /\ Stop(f, f[a].prev) = a
    BY <1>2, <1>10 DEF Chain, Backed
  <2>2. CASE a = y
    <3>1. h[a].prev = at /\ a = Stop(f, right)
      BY <2>2, <1>4, <1>7, <1>8, <1>10, <1>14 DEF Null
    <3> QED BY <3>1, <1>1, <1>6, <1>10, <1>15 DEF Backed
  <2>3. CASE a # y
    <3>1. f[a].prev # right
      <4> SUFFICES ASSUME f[a].prev = right PROVE FALSE
        OBVIOUS
      <4>1. Stop(f, right) = a
        BY <2>1
      <4>2. Stop(f, right) = PoolBytes
        BY <4>1, <2>3, <1>7
      <4>3. Linked(f, a) /\ a \in DOMAIN f
        BY <1>4, <1>10
      <4>4. Stop(f, a) > PoolBytes
        BY <4>1, <4>2, <4>3, <1>3, <1>4 DEF Stop
      <4>5. Stop(f, a) \in DOMAIN f => Stop(f, a) <= PoolBytes
        BY <1>2 DEF Well, Addresses
      <4>6. Stop(f, a) \in Nat
        BY <4>3, <1>3, <1>4 DEF Stop
      <4> QED BY <4>3, <4>4, <4>5, <4>6, <1>3 DEF Linked
    <3>2. f[a].prev # at
      <4> SUFFICES ASSUME f[a].prev = at PROVE FALSE
        OBVIOUS
      <4> QED BY <2>1, <1>5, <1>10
    <3>3. h[a].prev = f[a].prev
      BY <2>3, <1>10, <1>13, <1>14
    <3> QED BY <3>1, <3>2, <3>3, <2>1, <1>10, <1>15 DEF Backed
  <2> QED BY <2>2, <2>3
<1>20. Chain(h)
  <2>1. 0 \in DOMAIN f /\ f[0].prev = Null
    BY <1>2 DEF Chain
  <2>2. right # 0 /\ y # 0
    BY <1>1, <1>3, <1>4, <1>5, <1>6, <1>7 DEF Null
  <2>3. 0 \in DOMAIN h /\ h[0].prev = Null
    BY <2>1, <2>2, <1>10, <1>13, <1>14
  <2> QED BY <2>3, <1>17, <1>18, <1>19 DEF Chain
<1>21. Held(h, live')
  <2>1. ASSUME NEW a \in DOMAIN h
        PROVE  h[a].free <=> a + HeaderBytes \notin DOMAIN live
    <3>1. a \in DOMAIN f /\ (f[a].free <=> a + HeaderBytes \notin DOMAIN live)
      BY <1>2, <1>10 DEF Held
    <3>2. h[a].free = f[a].free
      <4>1. CASE a = at
        <5>1. h[at] = [f[at] EXCEPT !.size = f[at].size + (HeaderBytes + f[right].size),
                                    !.next = y] /\ f[at] \in Header
          BY <1>1, <1>4, <1>10
        <5> QED BY <4>1, <5>1 DEF Header
      <4>2. CASE a # at
        BY <4>2, <1>10, <1>14
      <4> QED BY <4>1, <4>2
    <3> QED BY <3>1, <3>2
  <2>2. ASSUME NEW p \in DOMAIN live
        PROVE  /\ p \in Int /\ p - HeaderBytes \in DOMAIN h
               /\ live[p] \in Nat \ {0} /\ live[p] <= h[p - HeaderBytes].size
    <3>1. /\ p \in Int /\ p - HeaderBytes \in DOMAIN f
          /\ live[p] \in Nat \ {0} /\ live[p] <= f[p - HeaderBytes].size
      BY <1>2 DEF Held
    <3>2. (p - HeaderBytes) + HeaderBytes = p
      BY <3>1, <1>3
    <3>3. ~f[p - HeaderBytes].free
      BY <3>1, <3>2, <1>2 DEF Held
    <3>4. p - HeaderBytes # at /\ p - HeaderBytes # right
      BY <3>3, <1>1, <1>5
    <3> QED BY <3>1, <3>4, <1>10, <1>14
  <2>3. live = [p \in DOMAIN live |-> live[p]]
    BY <1>2 DEF Held
  <2> QED BY <2>1, <2>2, <2>3, <1>1, Zenon DEF Held
<1>22. Near(block)'
  <2> SUFFICES ASSUME NEW a \in DOMAIN h, Touching(h, a), a # at
               PROVE  pc = "self" /\ h[a].next = at
    BY <1>1 DEF Near, Touching, h
  <2>1. a \in DOMAIN f \ {right, at} /\ f[a].free /\ f[a].next # Null
        /\ h[f[a].next].free /\ h[a].next = f[a].next
    BY <1>10, <1>14 DEF Touching
  <2>2. f[a].next \in DOMAIN f /\ f[f[a].next].prev = a
    BY <2>1, <1>4 DEF Linked
  <2>3. f[a].next # right
    BY <2>1, <2>2, <1>5
  <2>4. f[f[a].next].free
    BY <2>1, <2>2, <2>3, <1>1, <1>14
  <2>5. Touching(f, a)
    BY <2>1, <2>4 DEF Touching
  <2> QED BY <2>1, <2>5, <1>2 DEF Near
<1>23. Control'
  <2>1. at \in DOMAIN h /\ h[at].free
    BY <1>1, <1>6, <1>10, <1>13
  <2> QED BY <2>1, <1>1 DEF IInv, Control, h
<1>24. (Well(Pool) /\ Chain(Pool) /\ Held(Pool, live) /\ Near(Pool))'
  BY <1>1, <1>16, <1>20, <1>21, <1>22
     DEF h, Well, Chain, Held, Near, Touching, Linked, InOrder, Backed, Stop
<1> QED BY <1>23, <1>24 DEF IInv

\* The end of the merge loop, going back to the block before or returning, keeps it.
LEMMA MergedInvariant ==
    ASSUME IInv, SelfMerged \/ PrevMerged
    PROVE  IInv'
<1>1. ready = TRUE /\ ready' = TRUE /\ block' = block /\ live' = live
      /\ at \in DOMAIN block /\ block[at].free /\ ~Mergeable(at)
      /\ pc \in {"self", "prev"}
  BY DEF IInv, Control, SelfMerged, PrevMerged
<1>2. Pool = block /\ Pool' = block
  BY <1>1 DEF Pool
<1>3. Well(block) /\ Chain(block) /\ Held(block, live) /\ Near(block)
  BY <1>2 DEF IInv
<1>4. ~Touching(block, at)
  BY <1>1 DEF Mergeable, Touching
<1>5. CASE SelfMerged
  <2>1. pc = "self"
    BY <1>5 DEF SelfMerged
  <2>2. \A a \in DOMAIN block : Touching(block, a) => block[a].next = at
    BY <2>1, <1>3, <1>4 DEF Near
  <2>3. CASE block[at].prev # Null /\ block[block[at].prev].free
    <3>1. at # 0 /\ block[at].prev \in DOMAIN block
      BY <2>3, <1>1, <1>3 DEF Chain, Backed
    <3>2. pc' = "prev" /\ at' = block[at].prev
      BY <1>5, <2>3 DEF SelfMerged
    <3>3. \A a \in DOMAIN block : Touching(block, a) => a = at'
      <4> TAKE a \in DOMAIN block
      <4> HAVE Touching(block, a)
      <4>1. Linked(block, a) /\ block[a].next # Null /\ block[a].next = at
        BY <2>2, <1>3 DEF Chain, Touching
      <4> QED BY <4>1, <3>2 DEF Linked
    <3>4. Control'
      BY <1>1, <1>3, <2>3, <3>1, <3>2 DEF Control, Well
    <3>5. Near(block)'
      BY <1>1, <3>2, <3>3 DEF Near, Touching
    <3> QED BY <3>4, <3>5, <1>1, <1>2, <1>3
            DEF IInv, Well, Chain, Held, Near, Touching, Linked, InOrder, Backed, Stop
  <2>4. CASE ~(block[at].prev # Null /\ block[block[at].prev].free)
    <3>1. pc' = "idle" /\ at' = at
      BY <1>5, <2>4 DEF SelfMerged
    <3>2. \A a \in DOMAIN block : ~Touching(block, a)
      <4> SUFFICES ASSUME NEW a \in DOMAIN block, Touching(block, a) PROVE FALSE
        OBVIOUS
      <4>1. Linked(block, a) /\ block[a].free /\ block[a].next # Null
            /\ block[a].next = at
        BY <2>2, <1>3 DEF Chain, Touching
      <4>2. block[at].prev = a /\ a # Null
        BY <4>1, <1>3 DEF Linked, Well, Addresses, Null
      <4> QED BY <4>1, <4>2, <2>4
    <3>3. Control'
      BY <1>1, <1>3, <3>1 DEF Control, Well
    <3>4. Near(block)'
      BY <1>1, <3>2 DEF Near, Touching
    <3> QED BY <3>3, <3>4, <1>1, <1>2, <1>3
            DEF IInv, Well, Chain, Held, Near, Touching, Linked, InOrder, Backed, Stop
  <2> QED BY <2>3, <2>4
<1>6. CASE PrevMerged
  <2>1. pc = "prev" /\ pc' = "idle" /\ at' = at
    BY <1>6 DEF PrevMerged
  <2>2. \A a \in DOMAIN block : ~Touching(block, a)
    BY <2>1, <1>3, <1>4 DEF Near
  <2>3. Control'
    BY <1>1, <1>3, <2>1 DEF Control, Well
  <2>4. Near(block)'
    BY <1>1, <2>2 DEF Near, Touching
  <2> QED BY <2>3, <2>4, <1>1, <1>2, <1>3
          DEF IInv, Well, Chain, Held, Near, Touching, Linked, InOrder, Backed, Stop
<1> QED BY <1>5, <1>6

\* A reset keeps it.
LEMMA ResetInvariant ==
    ASSUME IInv, Reset
    PROVE  IInv'
<1>1. Pool' = Fresh /\ live' = Nothing
  BY DEF Reset, Pool
<1>2. Control'
  BY DEF Reset, IInv, Control
<1>3. Near(Fresh)'
  BY DEF Near, Touching, Fresh
<1> QED BY <1>1, <1>2, <1>3, FreshIsGood
        DEF IInv, Well, Chain, Held, Near, Touching, Linked, InOrder, Backed, Stop

\* And so does a step that changes nothing.
LEMMA StutterInvariant ==
    ASSUME IInv, UNCHANGED vars
    PROVE  IInv'
<1>1. Pool' = Pool /\ UNCHANGED <<ready, block, live, pc, at>>
  BY DEF vars, Pool, Fresh
<1>2. Control'
  BY <1>1 DEF IInv, Control
<1>3. (Well(Pool) /\ Chain(Pool) /\ Held(Pool, live) /\ Near(Pool))'
  BY <1>1 DEF IInv, Near, Well, Chain, Held, Touching, Linked, InOrder,
              Backed, Stop
<1> QED BY <1>2, <1>3 DEF IInv

\* The invariant is inductive.
LEMMA NextInvariant == IInv /\ [Next]_vars => IInv'
<1> SUFFICES ASSUME IInv, [Next]_vars PROVE IInv'
  OBVIOUS
<1>1. ASSUME NEW r \in Requests, Calloc(r[1], r[2]) PROVE IInv'
  <2>1. r[1] \in 0..(Word - 1) /\ r[2] \in 0..(Word - 1)
    BY RequestsAssumption
  <2> QED BY <1>1, <2>1, CallocInvariant
<1>2. ASSUME NEW r \in Requests, CallocFails(r[1], r[2]) PROVE IInv'
  BY <1>2, CallocFailsInvariant
<1>3. ASSUME NEW p \in DOMAIN live, Free(p) PROVE IInv'
  BY <1>3, FreeInvariant
<1>4. CASE Freeing
  BY <1>4, MergeInvariant, MergedInvariant DEF Freeing
<1>5. CASE Reset
  BY <1>5, ResetInvariant
<1>6. CASE UNCHANGED vars
  BY <1>6, StutterInvariant
<1> QED BY <1>1, <1>2, <1>3, <1>4, <1>5, <1>6 DEF Next

\* The list of blocks is well formed, what is held is what is not free, and
\* free neighbours meet only where a free is at work, for every pool size,
\* header and set of requests.
THEOREM PoolInvariant == Spec => []IInv
<1> QED BY InitInvariant, NextInvariant, PTL DEF Spec

----------------------------------------------------------------------------
(* What follows from it.                                                   *)

\* The invariant implies the type invariant.
LEMMA InvariantIsTyped == IInv => TypeOK
<1> SUFFICES ASSUME IInv PROVE TypeOK
  OBVIOUS
<1>1. CASE ready
  <2>1. Pool = block
    BY <1>1 DEF Pool
  <2>2. ready \in BOOLEAN /\ pc \in {"idle", "self", "prev"} /\ at \in Addresses
    BY DEF IInv, Control
  <2>3. BlocksOK /\ block = [b \in DOMAIN block |-> block[b]]
    BY <2>1 DEF IInv, Well, BlocksOK
  <2>4. live = [p \in DOMAIN live |-> live[p]]
    BY <2>1 DEF IInv, Held
  <2>5. \A p \in DOMAIN live : p \in Nat /\ live[p] \in Nat \ {0}
    <3> TAKE p \in DOMAIN live
    <3>1. p \in Int /\ p - HeaderBytes \in DOMAIN block /\ live[p] \in Nat \ {0}
      BY <2>1 DEF IInv, Held
    <3>2. p - HeaderBytes \in Nat /\ HeaderBytes \in Nat
      BY <3>1, <2>3, PoolAssumption DEF BlocksOK, Addresses
    <3> QED BY <3>1, <3>2
  <2> QED BY <1>1, <2>2, <2>3, <2>4, <2>5, Zenon DEF TypeOK
<1>2. CASE ~ready
  <2>1. block = Nothing /\ live = Nothing /\ DOMAIN Nothing = {}
        /\ Nothing = [p \in DOMAIN Nothing |-> Nothing[p]]
    BY <1>2 DEF IInv, Control, Nothing
  <2>2. ready \in BOOLEAN /\ pc \in {"idle", "self", "prev"} /\ at \in Addresses
    BY DEF IInv, Control
  <2> QED BY <1>2, <2>1, <2>2 DEF TypeOK, BlocksOK
<1> QED BY <1>1, <1>2

\* Blocks and their links keep their types, and stay aligned.
THEOREM TypeCorrect == Spec => []TypeOK
<1> QED BY PoolInvariant, InvariantIsTyped, PTL

\* It implies that the blocks cover the pool.
LEMMA InvariantTiles == IInv => Tiled
<1> SUFFICES ASSUME IInv, ready PROVE Tiled
  BY DEF Tiled
<1>1. Chain(block)
  BY DEF IInv, Pool
<1>2. \A b : End(b) = Stop(block, b)
  BY DEF End, Stop
<1> QED BY <1>1, <1>2 DEF Tiled, Chain, Linked, InOrder

\* The blocks cover the pool without gap or overlap.
THEOREM PoolIsTiled == Spec => []Tiled
<1> QED BY PoolInvariant, InvariantTiles, PTL

\* It implies that no two neighbours are free between calls.
LEMMA InvariantCoalesced == IInv => Coalesced
<1> SUFFICES ASSUME IInv, pc = "idle" PROVE Coalesced
  BY DEF Coalesced
<1>1. CASE ready
  BY <1>1 DEF IInv, Near, Touching, Pool, Coalesced
<1>2. CASE ~ready
  BY <1>2 DEF IInv, Control, Nothing, Coalesced
<1> QED BY <1>1, <1>2

\* No two neighbours are free between calls.
THEOREM PoolIsCoalesced == Spec => []Coalesced
<1> QED BY PoolInvariant, InvariantCoalesced, PTL

\* It implies that a pool without users is a fresh pool.
LEMMA InvariantEmpty == IInv => EmptyPoolIsWhole
<1> SUFFICES ASSUME IInv, pc = "idle", ready, DOMAIN live = {} PROVE block = Fresh
  BY DEF EmptyPoolIsWhole
<1>1. Well(block) /\ Chain(block) /\ Held(block, live) /\ Near(block)
  BY DEF IInv, Pool
<1>2. \A b \in DOMAIN block : block[b].free /\ block[b] \in Header /\ b \in 0..PoolBytes
  BY <1>1 DEF Held, Well, Addresses
<1>3. 0 \in DOMAIN block /\ block[0].prev = Null /\ Linked(block, 0)
  BY <1>1 DEF Chain
<1>4. Stop(block, 0) = PoolBytes /\ block[0].next = Null
  <2>1. ~Touching(block, 0)
    BY <1>1, <1>3 DEF Near
  <2>2. CASE Stop(block, 0) # PoolBytes
    <3>1. Stop(block, 0) \in DOMAIN block /\ block[0].next = Stop(block, 0)
      BY <1>3, <2>2 DEF Linked
    <3>2. block[0].next # Null
      BY <3>1, <1>2 DEF Null
    <3> QED BY <2>1, <3>1, <3>2, <1>2, <1>3 DEF Touching
  <2> QED BY <2>2, <1>3 DEF Linked
<1>5. HeaderBytes \in Nat \ {0} /\ PoolBytes \in Nat
  BY PoolAssumption
<1>6. DOMAIN block = {0}
  <2> SUFFICES ASSUME NEW b \in DOMAIN block, b # 0 PROVE FALSE
    BY <1>3
  <2>1. b \in Nat /\ b > 0 /\ block[b].size \in Nat
    BY <1>2, <1>5 DEF Header
  <2>2. PoolBytes <= b
    BY <2>1, <1>1, <1>3, <1>4 DEF Chain, InOrder
  <2>3. Stop(block, b) > PoolBytes /\ Stop(block, b) \in Nat
    BY <2>1, <2>2, <1>5 DEF Stop
  <2>4. Stop(block, b) = PoolBytes \/ Stop(block, b) \in 0..PoolBytes
    BY <1>1, <1>2 DEF Chain, Linked
  <2> QED BY <2>3, <2>4, <1>5
<1>7. block[0].size = PoolBytes - HeaderBytes
  <2>1. block[0].size \in Nat
    BY <1>2, <1>3 DEF Header
  <2> QED BY <2>1, <1>4, <1>5 DEF Stop
<1>8. block[0] = [size |-> PoolBytes - HeaderBytes, free |-> TRUE, next |-> Null,
                  prev |-> Null]
  <2>1. block[0] \in Header /\ block[0].free = TRUE
    BY <1>2, <1>3 DEF Header
  <2> QED BY <2>1, <1>3, <1>4, <1>7 DEF Header
<1> QED BY <1>1, <1>6, <1>8 DEF Fresh, Well

\* A pool nothing is held from is a fresh pool.
THEOREM EmptyPool == Spec => []EmptyPoolIsWhole
<1> QED BY PoolInvariant, InvariantEmpty, PTL

----------------------------------------------------------------------------
(* The pool keeps the promise.                                             *)

\* Blocks in use lie apart from each other.
LEMMA HeldApart ==
    ASSUME NEW f, NEW l, Well(f), Chain(f), Held(f, l), NEW p \in DOMAIN l
    PROVE  /\ p \in Promise!Places /\ l[p] \in 1..(PoolBytes - p)
           /\ \A q \in DOMAIN l \ {p} : Promise!Apart(p, l[p], q, l[q])
<1>1. HeaderBytes \in Nat \ {0} /\ HeaderBytes % Align = 0 /\ PoolBytes \in Nat
  BY PoolAssumption
<1> DEFINE Start(q) == q - HeaderBytes
<1>2. \A q \in DOMAIN l :
          /\ q \in Int /\ Start(q) \in DOMAIN f /\ Start(q) \in Nat
          /\ Start(q) % Align = 0
          /\ l[q] \in Nat \ {0} /\ f[Start(q)].size \in Nat
          /\ l[q] <= f[Start(q)].size
          /\ q = Start(q) + HeaderBytes
          /\ Stop(f, Start(q)) = q + f[Start(q)].size
  BY <1>1 DEF Held, Well, Addresses, Header, Stop
<1>3. Stop(f, Start(p)) <= PoolBytes
  <2>1. Linked(f, Start(p))
    BY <1>2 DEF Chain
  <2>2. Stop(f, Start(p)) = PoolBytes \/ Stop(f, Start(p)) \in 0..PoolBytes
    BY <2>1 DEF Linked, Well, Addresses
  <2> QED BY <2>2, <1>1
<1>4. p % Align = 0
  <2>1. Start(p) \in Int /\ HeaderBytes \in Int
    BY <1>1, <1>2
  <2>2. (Start(p) + HeaderBytes) % Align = 0
    BY <2>1, <1>1, <1>2, Multiples
  <2> QED BY <2>2, <1>2
<1> HIDE DEF Start
<1>5. p \in 1..PoolBytes /\ l[p] \in 1..(PoolBytes - p)
  BY <1>1, <1>2, <1>3
<1>6. p \in Promise!Places
  BY <1>4, <1>5 DEF Promise!Places, Promise!Align, Align
<1>7. \A q \in DOMAIN l \ {p} : Promise!Apart(p, l[p], q, l[q])
  <2> TAKE q \in DOMAIN l \ {p}
  <2>1. \A a, b \in DOMAIN f : a < b => Stop(f, a) <= b
    BY DEF Chain, InOrder
  <2>2. CASE Start(p) < Start(q)
    <3>1. Stop(f, Start(p)) <= Start(q)
      BY <2>1, <2>2, <1>2
    <3>2. p + l[p] <= q
      BY <3>1, <1>1, <1>2
    <3> QED BY <3>2 DEF Promise!Apart
  <2>3. CASE Start(q) < Start(p)
    <3>1. Stop(f, Start(q)) <= Start(p)
      BY <2>1, <2>3, <1>2
    <3>2. q + l[q] <= p
      BY <3>1, <1>1, <1>2
    <3> QED BY <3>2 DEF Promise!Apart
  <2>4. Start(p) # Start(q)
    BY <1>2
  <2> QED BY <2>2, <2>3, <2>4, <1>2
<1> QED BY <1>5, <1>6, <1>7

\* A calloc is an Alloc of the promise.
LEMMA CallocKeepsPromise ==
    ASSUME IInv, IInv', NEW n \in 0..(Word - 1), NEW s \in 0..(Word - 1),
           Calloc(n, s)
    PROVE  Promise!Next
<1>1. PICK b \in DOMAIN Pool :
          /\ Fits(b, Asked(n, s))
          /\ live' = [p \in DOMAIN live \cup {b + HeaderBytes} |->
                          IF p = b + HeaderBytes THEN n * s ELSE live[p]]
  BY DEF Calloc, FirstFit
<1> DEFINE p == b + HeaderBytes
<1>2. p \notin DOMAIN live
  BY <1>1 DEF IInv, Held, Fits
<1>3. p \in DOMAIN live' /\ live'[p] = n * s
      /\ \A q \in DOMAIN live : q \in DOMAIN live' \ {p} /\ live'[q] = live[q]
  BY <1>1, <1>2
<1>4. Pool' = block' /\ Well(block') /\ Chain(block') /\ Held(block', live')
  <2>1. Pool' = block'
    BY DEF Calloc, Pool
  <2> QED BY <2>1 DEF IInv, Well, Chain, Held, Linked, InOrder, Backed, Stop
<1> HIDE DEF p
<1>5. /\ p \in Promise!Places /\ live'[p] \in 1..(PoolBytes - p)
      /\ \A q \in DOMAIN live' \ {p} : Promise!Apart(p, live'[p], q, live'[q])
  BY <1>3, <1>4, HeldApart
<1>6. Promise!Alloc(p, n * s)
  BY <1>1, <1>3, <1>5 DEF Promise!Alloc, p
<1> QED BY <1>3, <1>5, <1>6 DEF Promise!Next

\* Every step of the pool is one of the promise, or leaves the blocks in use alone.
LEMMA StepKeepsPromise ==
    ASSUME IInv, IInv', [Next]_vars
    PROVE  [Promise!Next]_live
<1>1. ASSUME NEW r \in Requests, Calloc(r[1], r[2]) PROVE Promise!Next
  <2>1. r[1] \in 0..(Word - 1) /\ r[2] \in 0..(Word - 1)
    BY RequestsAssumption
  <2> QED BY <1>1, <2>1, CallocKeepsPromise
<1>2. ASSUME NEW r \in Requests, CallocFails(r[1], r[2]) PROVE live' = live
  BY <1>2 DEF CallocFails
<1>3. ASSUME NEW p \in DOMAIN live, Free(p) PROVE Promise!Next
  BY <1>3 DEF Free, Promise!Free, Promise!Next
<1>4. CASE Freeing
  BY <1>4 DEF Freeing, Merge, SelfMerged, PrevMerged
<1>5. CASE Reset
  BY <1>5 DEF Reset, Nothing, Promise!Reset, Promise!Next
<1>6. CASE UNCHANGED vars
  BY <1>6 DEF vars
<1> QED BY <1>1, <1>2, <1>3, <1>4, <1>5, <1>6 DEF Next

\* Whatever order mbedtls allocates and frees in, the first-fit pool gives it
\* aligned blocks in the arena, as long as asked and apart from each other.
THEOREM PoolImplementsPromise == Spec => ImplementsPromise
<1>1. Init => Promise!Init
  BY DEF Init, Nothing, Promise!Init
<1>2. IInv /\ IInv' /\ [Next]_vars => [Promise!Next]_live
  BY StepKeepsPromise
<1> QED BY <1>1, <1>2, PoolInvariant, PTL DEF Spec, ImplementsPromise, Promise!Spec

----------------------------------------------------------------------------
(* SocketFds *)

\* Every variable has its type.
Typed ==
    /\ pool \in [Ids -> Procs \cup {None}]
    /\ files \in [Procs -> SUBSET Fds]
    /\ known \in [Procs -> SUBSET Ids]
    /\ held \in [Procs -> [Handles -> Nat]]

\* What number n stands for in the kernel, as far as process p goes: a socket
\* of it, a descriptor of it, both or neither.
SocketOpen(p, n) == IF n \in Ids /\ pool[n] = p THEN 1 ELSE 0
FileOpen(p, n) == IF n \in files[p] THEN 1 ELSE 0

\* The inductive form of NumbersBalance: the table is the kernel's, and the
\* numbers a program holds are counted without naming which of two is meant.
Tables == \A p \in Procs : known[p] = {id \in Ids : pool[id] = p}
Counts ==
    \A p \in Procs, n \in Ids \cup Fds :
        Holds(p, n) = SocketOpen(p, n) + FileOpen(p, n)
FdInv == Typed /\ Tables /\ Counts

\* A handle is for a number, and a number has at most two handles.
LEMMA HandleNumbers ==
    ASSUME NEW h \in Handles
    PROVE  \/ h = Socket(h[2]) /\ h[2] \in Ids
           \/ h = File(h[2]) /\ h[2] \in Fds
  BY DEF Handles, Socket, File

\* Opening h is one more for its number in that process, and nothing else.
LEMMA OpenedCounts ==
    ASSUME Typed, NEW p \in Procs, NEW h \in Handles, Opened(p, h)
    PROVE  /\ held' \in [Procs -> [Handles -> Nat]]
           /\ \A q \in Procs, n \in Ids \cup Fds :
                  Holds(q, n)' = Holds(q, n) + (IF q = p /\ n = h[2] THEN 1 ELSE 0)
  <1>1. held' = [held EXCEPT ![p] = [held[p] EXCEPT ![h] = held[p][h] + 1]]
    BY DEF Opened, Typed
  <1>2. held' \in [Procs -> [Handles -> Nat]]
    BY <1>1 DEF Typed
  <1>3. \A q \in Procs, k \in Handles :
            held'[q][k] = held[q][k] + (IF q = p /\ k = h THEN 1 ELSE 0)
    BY <1>1 DEF Typed
  <1>4. ASSUME NEW q \in Procs, NEW n \in Ids \cup Fds
        PROVE  Holds(q, n)' = Holds(q, n) + (IF q = p /\ n = h[2] THEN 1 ELSE 0)
    <2>1. /\ n \in Ids => Socket(n) \in Handles
          /\ n \in Fds => File(n) \in Handles
          /\ Socket(n) # File(n)
          /\ Socket(n)[2] = n /\ File(n)[2] = n
      BY DEF Handles, Socket, File
    <2>2. /\ n \in Ids => held[q][Socket(n)] \in Nat
          /\ n \in Fds => held[q][File(n)] \in Nat
      BY <2>1 DEF Typed
    <2>3. CASE q # p \/ n # h[2]
      BY <1>3, <2>1, <2>2, <2>3 DEF Holds
    <2>4. CASE q = p /\ n = h[2]
      <3>1. CASE h = Socket(n) /\ n \in Ids
        BY <1>3, <2>1, <2>2, <2>4, <3>1 DEF Holds
      <3>2. CASE h = File(n) /\ n \in Fds
        BY <1>3, <2>1, <2>2, <2>4, <3>2 DEF Holds
      <3> QED
        BY <2>4, <3>1, <3>2, HandleNumbers
    <2> QED
      BY <2>3, <2>4
  <1> QED
    BY <1>2, <1>4

\* Closing h is one less for its number.
LEMMA ClosedCounts ==
    ASSUME Typed, NEW p \in Procs, NEW h \in Handles, held[p][h] > 0,
           held' = [held EXCEPT ![p][h] = @ - 1]
    PROVE  /\ held' \in [Procs -> [Handles -> Nat]]
           /\ \A q \in Procs, n \in Ids \cup Fds :
                  Holds(q, n)' = Holds(q, n) - (IF q = p /\ n = h[2] THEN 1 ELSE 0)
           /\ Holds(p, h[2]) > 0
  <1>1. held' = [held EXCEPT ![p] = [held[p] EXCEPT ![h] = held[p][h] - 1]]
    BY DEF Typed
  <1>2. held' \in [Procs -> [Handles -> Nat]]
    BY <1>1 DEF Typed
  <1>3. \A q \in Procs, k \in Handles :
            held'[q][k] = held[q][k] - (IF q = p /\ k = h THEN 1 ELSE 0)
    BY <1>1 DEF Typed
  <1>4. ASSUME NEW q \in Procs, NEW n \in Ids \cup Fds
        PROVE  /\ Holds(q, n)' = Holds(q, n) - (IF q = p /\ n = h[2] THEN 1 ELSE 0)
               /\ q = p /\ n = h[2] => Holds(q, n) > 0
    <2>1. /\ n \in Ids => Socket(n) \in Handles
          /\ n \in Fds => File(n) \in Handles
          /\ Socket(n) # File(n)
          /\ Socket(n)[2] = n /\ File(n)[2] = n
      BY DEF Handles, Socket, File
    <2>2. /\ n \in Ids => held[q][Socket(n)] \in Nat
          /\ n \in Fds => held[q][File(n)] \in Nat
      BY <2>1 DEF Typed
    <2>3. CASE q # p \/ n # h[2]
      BY <1>3, <2>1, <2>2, <2>3 DEF Holds
    <2>4. CASE q = p /\ n = h[2]
      <3>1. CASE h = Socket(n) /\ n \in Ids
        BY <1>3, <2>1, <2>2, <2>4, <3>1 DEF Holds
      <3>2. CASE h = File(n) /\ n \in Fds
        BY <1>3, <2>1, <2>2, <2>4, <3>2 DEF Holds
      <3> QED
        BY <2>4, <3>1, <3>2, HandleNumbers
    <2> QED
      BY <2>3, <2>4
  <1>5. h[2] \in Ids \cup Fds
    BY HandleNumbers
  <1> QED
    BY <1>2, <1>4, <1>5

\* At the start nothing is open and nothing is held.
LEMMA InitHolds == FdInit => FdInv
  <1> SUFFICES ASSUME FdInit PROVE FdInv
    OBVIOUS
  <1>1. Typed
    BY DEF FdInit, Typed
  <1>2. Tables
    BY FdAssumption DEF FdInit, Tables
  <1>3. ASSUME NEW p \in Procs, NEW n \in Ids \cup Fds
        PROVE  Holds(p, n) = SocketOpen(p, n) + FileOpen(p, n)
    <2>1. /\ n \in Ids => Socket(n) \in Handles
          /\ n \in Fds => File(n) \in Handles
      BY DEF Handles
    <2>2. Holds(p, n) = 0
      BY <2>1 DEF FdInit, Holds
    <2>3. SocketOpen(p, n) = 0 /\ FileOpen(p, n) = 0
      BY FdAssumption DEF FdInit, SocketOpen, FileOpen
    <2> QED
      BY <2>2, <2>3
  <1> QED
    BY <1>1, <1>2, <1>3 DEF FdInv, Counts

\* A socket is opened: one more of its id, held and allocated.
LEMMA OpenSocketKeeps ==
    ASSUME FdInv, NEW p \in Procs, OpenSocket(p)
    PROVE  FdInv'
  <1>1. PICK id \in Ids : /\ Allocated(p, id)
                          /\ known' = [known EXCEPT ![p] = @ \cup {id}]
                          /\ Opened(p, Socket(id))
    BY DEF OpenSocket
  <1>2. files' = files /\ pool[id] = None /\ pool' = [pool EXCEPT ![id] = p]
    BY <1>1 DEF OpenSocket, Allocated
  <1>3. Socket(id) \in Handles /\ Socket(id)[2] = id
    BY DEF Handles, Socket
  <1>4. /\ held' \in [Procs -> [Handles -> Nat]]
        /\ \A q \in Procs, n \in Ids \cup Fds :
               Holds(q, n)' = Holds(q, n) + (IF q = p /\ n = id THEN 1 ELSE 0)
    BY <1>1, <1>3, OpenedCounts DEF FdInv
  <1>5. Typed'
    BY <1>1, <1>2, <1>4 DEF FdInv, Typed
  <1>6. Tables'
    BY <1>1, <1>2, FdAssumption DEF FdInv, Typed, Tables
  <1>7. \A q \in Procs, n \in Ids \cup Fds :
            /\ SocketOpen(q, n)' = SocketOpen(q, n) + (IF q = p /\ n = id THEN 1 ELSE 0)
            /\ FileOpen(q, n)' = FileOpen(q, n)
    BY <1>2, FdAssumption DEF FdInv, Typed, SocketOpen, FileOpen
  <1>8. \A q \in Procs, n \in Ids \cup Fds :
            SocketOpen(q, n) \in Nat /\ FileOpen(q, n) \in Nat
    BY DEF SocketOpen, FileOpen
  <1>9. Counts'
    BY <1>4, <1>7, <1>8 DEF FdInv, Counts
  <1> QED
    BY <1>5, <1>6, <1>9 DEF FdInv

\* A file is opened: one more of its descriptor, held and in the table.
LEMMA OpenFileKeeps ==
    ASSUME FdInv, NEW p \in Procs, OpenFile(p)
    PROVE  FdInv'
  <1>1. PICK fd \in Fds \ files[p] :
            /\ files' = [files EXCEPT ![p] = @ \cup {fd}]
            /\ Opened(p, File(fd))
            /\ UNCHANGED <<pool, known>>
    BY DEF OpenFile
  <1>2. File(fd) \in Handles /\ File(fd)[2] = fd
    BY DEF Handles, File
  <1>3. /\ held' \in [Procs -> [Handles -> Nat]]
        /\ \A q \in Procs, n \in Ids \cup Fds :
               Holds(q, n)' = Holds(q, n) + (IF q = p /\ n = fd THEN 1 ELSE 0)
    BY <1>1, <1>2, OpenedCounts DEF FdInv
  <1>4. Typed'
    BY <1>1, <1>3 DEF FdInv, Typed
  <1>5. Tables'
    BY <1>1 DEF FdInv, Tables
  <1>6. \A q \in Procs, n \in Ids \cup Fds :
            /\ SocketOpen(q, n)' = SocketOpen(q, n)
            /\ FileOpen(q, n)' = FileOpen(q, n) + (IF q = p /\ n = fd THEN 1 ELSE 0)
    BY <1>1 DEF FdInv, Typed, SocketOpen, FileOpen
  <1>7. \A q \in Procs, n \in Ids \cup Fds :
            SocketOpen(q, n) \in Nat /\ FileOpen(q, n) \in Nat
    BY DEF SocketOpen, FileOpen
  <1>8. Counts'
    BY <1>3, <1>6, <1>7 DEF FdInv, Counts
  <1> QED
    BY <1>4, <1>5, <1>8 DEF FdInv

\* A number is closed: if the table has it that is the socket, and if not
\* there must be a descriptor, since the program holds one of the two.
LEMMA CloseKeeps ==
    ASSUME FdInv, NEW p \in Procs, NEW h \in Handles, Close(p, h)
    PROVE  FdInv'
  <1> DEFINE n == h[2]
  <1>1. n \in Ids \cup Fds
    BY HandleNumbers
  <1>2. /\ held[p][h] > 0 /\ held' = [held EXCEPT ![p][h] = @ - 1]
        /\ CloseNumber(p, n)
    BY DEF Close
  <1>3. /\ held' \in [Procs -> [Handles -> Nat]]
        /\ \A q \in Procs, m \in Ids \cup Fds :
               Holds(q, m)' = Holds(q, m) - (IF q = p /\ m = n THEN 1 ELSE 0)
        /\ Holds(p, n) > 0
    BY <1>2, ClosedCounts DEF FdInv
  <1>4. \A q \in Procs, m \in Ids \cup Fds :
            SocketOpen(q, m) \in Nat /\ FileOpen(q, m) \in Nat
    BY DEF SocketOpen, FileOpen
  <1>5. CASE n \in known[p]
    <2>1. /\ known' = [known EXCEPT ![p] = @ \ {n}]
          /\ pool' = [pool EXCEPT ![n] = None] /\ files' = files
      BY <1>2, <1>5 DEF CloseNumber
    <2>2. n \in Ids /\ pool[n] = p
      BY <1>5 DEF FdInv, Tables
    <2>3. Typed'
      BY <1>3, <2>1, <2>2 DEF FdInv, Typed
    <2>4. Tables'
      BY <2>1, <2>2, FdAssumption DEF FdInv, Typed, Tables
    <2>5. \A q \in Procs, m \in Ids \cup Fds :
              /\ SocketOpen(q, m)' = SocketOpen(q, m) - (IF q = p /\ m = n THEN 1 ELSE 0)
              /\ FileOpen(q, m)' = FileOpen(q, m)
      BY <2>1, <2>2, FdAssumption DEF FdInv, Typed, SocketOpen, FileOpen
    <2>6. Counts'
      BY <1>3, <1>4, <2>5 DEF FdInv, Counts
    <2> QED
      BY <2>3, <2>4, <2>6 DEF FdInv
  <1>6. CASE n \notin known[p]
    <2>1. files' = [files EXCEPT ![p] = @ \ {n}] /\ known' = known /\ pool' = pool
      BY <1>2, <1>6 DEF CloseNumber
    <2>2. SocketOpen(p, n) = 0
      BY <1>6 DEF FdInv, Tables, SocketOpen
    <2>3. n \in files[p]
      BY <1>1, <1>3, <2>2 DEF FdInv, Counts, FileOpen
    <2>4. Typed'
      BY <1>3, <2>1 DEF FdInv, Typed
    <2>5. Tables'
      BY <2>1 DEF FdInv, Tables
    <2>6. \A q \in Procs, m \in Ids \cup Fds :
              /\ SocketOpen(q, m)' = SocketOpen(q, m)
              /\ FileOpen(q, m)' = FileOpen(q, m) - (IF q = p /\ m = n THEN 1 ELSE 0)
      BY <2>1, <2>3 DEF FdInv, Typed, SocketOpen, FileOpen
    <2>7. Counts'
      BY <1>3, <1>4, <2>6 DEF FdInv, Counts
    <2> QED
      BY <2>4, <2>5, <2>7 DEF FdInv
  <1> QED
    BY <1>5, <1>6

\* The invariant is inductive.
LEMMA StepKeeps == FdInv /\ [FdNext]_fdVars => FdInv'
  <1> SUFFICES ASSUME FdInv, [FdNext]_fdVars PROVE FdInv'
    OBVIOUS
  <1>1. CASE FdNext
    BY <1>1, OpenSocketKeeps, OpenFileKeeps, CloseKeeps DEF FdNext
  <1>2. CASE UNCHANGED fdVars
    BY <1>2 DEF fdVars, FdInv, Typed, Tables, Counts, Holds, SocketOpen, FileOpen
  <1> QED
    BY <1>1, <1>2

\* The handles in the kernel for one number: at most a socket and a file.
Numbered(p, n) == {h \in InKernel(p) : h[2] = n}

LEMMA NumberedHandles ==
    ASSUME Typed, NEW p \in Procs, NEW n \in Ids \cup Fds, NEW h
    PROVE  h \in Numbered(p, n) <=> \/ h = Socket(n) /\ SocketOpen(p, n) = 1
                                    \/ h = File(n) /\ FileOpen(p, n) = 1
  <1>1. h \in InKernel(p) <=> \/ \E id \in Ids : pool[id] = p /\ h = Socket(id)
                              \/ \E fd \in files[p] : h = File(fd)
    BY DEF InKernel
  <1>2. SocketOpen(p, n) = 1 <=> n \in Ids /\ pool[n] = p
    BY DEF SocketOpen
  <1>3. FileOpen(p, n) = 1 <=> n \in files[p]
    BY DEF FileOpen
  <1>4. \A m : Socket(m)[2] = m /\ File(m)[2] = m
    BY DEF Socket, File
  <1>5. CASE \E id \in Ids : pool[id] = p /\ h = Socket(id)
    <2>1. PICK id \in Ids : pool[id] = p /\ h = Socket(id)
      BY <1>5
    <2>2. h[2] = id
      BY <2>1, <1>4
    <2>3. n = id => h \in Numbered(p, n) /\ SocketOpen(p, n) = 1
      BY <2>1, <2>2, <1>1, <1>2 DEF Numbered
    <2>4. n # id => /\ h \notin Numbered(p, n)
                    /\ h # Socket(n) /\ h # File(n)
      BY <2>2, <1>4 DEF Numbered
    <2>5. CASE n = id
      BY <2>1, <2>3, <2>5
    <2>6. CASE n # id
      BY <2>4, <2>6
    <2> QED
      BY <2>5, <2>6
  <1>6. CASE \E fd \in files[p] : h = File(fd)
    <2>1. PICK fd \in files[p] : h = File(fd)
      BY <1>6
    <2>2. h[2] = fd
      BY <2>1, <1>4
    <2>3. n = fd => h \in Numbered(p, n) /\ FileOpen(p, n) = 1
      BY <2>1, <2>2, <1>1, <1>3 DEF Numbered
    <2>4. n # fd => /\ h \notin Numbered(p, n)
                    /\ h # Socket(n) /\ h # File(n)
      BY <2>2, <1>4 DEF Numbered
    <2>5. CASE n = fd
      BY <2>1, <2>3, <2>5
    <2>6. CASE n # fd
      BY <2>4, <2>6
    <2> QED
      BY <2>5, <2>6
  <1>7. CASE h \notin InKernel(p)
    <2>1. h \notin Numbered(p, n)
      BY <1>7 DEF Numbered
    <2>2. ~(h = Socket(n) /\ SocketOpen(p, n) = 1)
      BY <1>1, <1>2, <1>7
    <2>3. ~(h = File(n) /\ FileOpen(p, n) = 1)
      BY <1>1, <1>3, <1>7
    <2> QED
      BY <2>1, <2>2, <2>3
  <1> QED
    BY <1>1, <1>5, <1>6, <1>7

\* They are as many as SocketOpen and FileOpen count.
LEMMA InKernelCounts ==
    ASSUME Typed, NEW p \in Procs, NEW n \in Ids \cup Fds
    PROVE  Cardinality(Numbered(p, n)) = SocketOpen(p, n) + FileOpen(p, n)
  <1>1. SocketOpen(p, n) \in {0, 1} /\ FileOpen(p, n) \in {0, 1}
    BY DEF SocketOpen, FileOpen
  <1>2. Socket(n) # File(n)
    BY DEF Socket, File
  <1>3. CASE SocketOpen(p, n) = 1 /\ FileOpen(p, n) = 1
    <2>1. Numbered(p, n) = {Socket(n)} \cup {File(n)}
      BY <1>3, NumberedHandles
    <2>2. IsFiniteSet({Socket(n)}) /\ Cardinality({Socket(n)}) = 1
      BY FS_Singleton
    <2>3. File(n) \notin {Socket(n)}
      BY <1>2
    <2>4. Cardinality({Socket(n)} \cup {File(n)}) = Cardinality({Socket(n)}) + 1
      BY <2>2, <2>3, FS_AddElement
    <2> QED
      BY <1>3, <2>1, <2>2, <2>4
  <1>4. CASE SocketOpen(p, n) = 1 /\ FileOpen(p, n) = 0
    <2>1. ASSUME NEW h PROVE h \in Numbered(p, n) <=> h = Socket(n)
      <3>1. FileOpen(p, n) # 1
        BY <1>4
      <3> QED
        BY <1>4, <3>1, NumberedHandles, Zenon
    <2>2. Numbered(p, n) = {Socket(n)}
      BY <2>1
    <2>3. Cardinality({Socket(n)}) = 1
      BY FS_Singleton
    <2> QED
      BY <1>4, <2>2, <2>3
  <1>5. CASE SocketOpen(p, n) = 0 /\ FileOpen(p, n) = 1
    <2>1. \A h : h \in Numbered(p, n) <=> h = File(n)
      BY <1>5, NumberedHandles
    <2>2. Numbered(p, n) = {File(n)}
      BY <2>1
    <2>3. Cardinality({File(n)}) = 1
      BY FS_Singleton
    <2> QED
      BY <1>5, <2>2, <2>3
  <1>6. CASE SocketOpen(p, n) = 0 /\ FileOpen(p, n) = 0
    <2>1. Numbered(p, n) = {}
      BY <1>6, NumberedHandles
    <2> QED
      BY <1>6, <2>1, FS_EmptySet
  <1> QED
    BY <1>1, <1>3, <1>4, <1>5, <1>6

\* The invariant says what the run checks.
LEMMA InvariantBalances == FdInv => NumbersBalance
  BY InKernelCounts DEF FdInv, Tables, Counts, NumbersBalance, Numbered

\* In unistd.c a process's table of sockets is what the kernel allocated to
\* it, and for each number a program holds as many as the kernel has open,
\* with any processes that open and close in any order: nothing leaks and
\* nothing of another process is closed.
THEOREM TablesBalance == FdSpec => []NumbersBalance
  <1>1. FdInv /\ [FdNext]_fdVars => FdInv'
    BY StepKeeps
  <1> QED
    BY InitHolds, <1>1, InvariantBalances, PTL DEF FdSpec
=============================================================================
