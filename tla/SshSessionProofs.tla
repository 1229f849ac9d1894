-------------------------- MODULE SshSessionProofs --------------------------
(* Proofs about SshSession, for any server, credit, buffer and output.      *)
EXTENDS SshSession, WellFoundedInduction, TLAPS

----------------------------------------------------------------------------
(* Types.                                                                  *)

Messages ==
    {"IDENT", "LINE", "KEXINIT", "KEXDH_INIT", "KEXDH_REPLY", "NEWKEYS",
     "SERVICE_REQUEST", "SERVICE_ACCEPT", "USERAUTH_REQUEST",
     "USERAUTH_FAILURE", "USERAUTH_SUCCESS", "CHANNEL_OPEN",
     "CHANNEL_OPEN_CONFIRMATION", "CHANNEL_OPEN_FAILURE", "REQUEST_FAILURE",
     "WINDOW_ADJUST", "PTY", "SHELL", "DATA", "EXTENDED_DATA", "EXIT_STATUS",
     "EOF", "CLOSE", "DISCONNECT", "IGNORE", "BANNER", "GLOBAL_REQUEST",
     "KEEPALIVE"}
Message == [m : Messages, ch : Nat, n : Nat, big : BOOLEAN]
Packet == [p : Message, seq : Nat, enc : BOOLEAN]
Piece == [pkt : Packet, last : BOOLEAN]
Peer == [phase : Phases, sendSeq : Nat, recvSeq : Nat, sendEnc : BOOLEAN,
         recvEnc : BOOLEAN, ch : Nat, credit : Nat, sent : Nat, noise : Nat,
         eof : BOOLEAN, closed : BOOLEAN, err : BOOLEAN]

Types ==
    /\ buf \in Seq(Piece) /\ wire \in Seq(Piece)
    /\ up \in Seq(Packet)
    /\ sendSeq \in Nat /\ recvSeq \in Nat /\ remote \in Nat
    /\ encrypted \in BOOLEAN /\ eof \in BOOLEAN
    /\ shown \in Seq(Nat)
    /\ srv \in Peer

LEMMA MsgType == ASSUME NEW m \in Messages PROVE Msg(m) \in Message
  BY DEF Msg, Message, NoChannel

LEMMA OnChannelType ==
    ASSUME NEW m \in Messages, NEW ch \in Nat, NEW n \in Nat
    PROVE  OnChannel(m, ch, n) \in Message
  BY DEF OnChannel, Message

LEMMA OneMessage ==
    ASSUME NEW x \in Message
    PROVE  <<x>> \in Seq(Message) /\ Len(<<x>>) = 1 /\ <<x>>[1] = x
  OBVIOUS

LEMMA SealedWith ==
    ASSUME NEW msgs \in Seq(Message), NEW seq \in Nat, NEW enc \in BOOLEAN
    PROVE  /\ Sealed(msgs, seq, enc) \in Seq(Packet)
           /\ Len(Sealed(msgs, seq, enc)) = Len(msgs)
           /\ \A i \in 1..Len(msgs) :
                  Sealed(msgs, seq, enc)[i]
                      = [p |-> msgs[i], seq |-> seq + i - 1, enc |-> enc]
  <1> DEFINE S == Sealed(msgs, seq, enc)
  <1>1. S = [i \in 1..Len(msgs) |-> [p |-> msgs[i], seq |-> seq + i - 1, enc |-> enc]]
    BY DEF Sealed
  <1>2. \A i \in 1..Len(msgs) :
            [p |-> msgs[i], seq |-> seq + i - 1, enc |-> enc] \in Packet
    BY DEF Packet
  <1>3. S \in [1..Len(msgs) -> Packet]
    <2> HIDE DEF S
    <2> QED  BY <1>1, <1>2
  <1> HIDE DEF S
  <1>4. S \in Seq(Packet)
    BY <1>3
  <1>5. Len(S) = Len(msgs)
    BY <1>3
  <1> QED
    BY <1>1, <1>4, <1>5 DEF S

LEMMA InPieces ==
    ASSUME NEW pkts \in Seq(Packet)
    PROVE  /\ Pieces(pkts) \in Seq(Piece)
           /\ Len(Pieces(pkts)) = 2 * Len(pkts)
           /\ \A k \in 1..Len(pkts) :
                  /\ Pieces(pkts)[2 * k - 1] = [pkt |-> pkts[k], last |-> FALSE]
                  /\ Pieces(pkts)[2 * k] = [pkt |-> pkts[k], last |-> TRUE]
  <1> DEFINE S == Pieces(pkts)
             N == Len(pkts)
             half(i) == (i + 1) \div 2
             even(i) == i % 2 = 0
  <1>0. N \in Nat
    OBVIOUS
  <1>1. S = [i \in 1..(2 * N) |-> [pkt |-> pkts[half(i)], last |-> even(i)]]
    BY DEF Pieces
  <1>2. \A i \in 1..(2 * N) : half(i) \in 1..N
    BY <1>0
  <1>3. \A k \in 1..N : /\ half(2 * k) = k /\ half(2 * k - 1) = k
                        /\ even(2 * k) = TRUE /\ even(2 * k - 1) = FALSE
                        /\ 2 * k \in 1..(2 * N) /\ 2 * k - 1 \in 1..(2 * N)
    BY <1>0
  <1>4. \A i \in 1..(2 * N) : even(i) \in BOOLEAN
    OBVIOUS
  <1>5. \A i \in 1..(2 * N) : pkts[half(i)] \in Packet
    <2> HIDE DEF half
    <2> QED  BY <1>2
  <1> HIDE DEF half, even, S
  <1>6. \A i \in 1..(2 * N) : [pkt |-> pkts[half(i)], last |-> even(i)] \in Piece
    BY <1>4, <1>5 DEF Piece
  <1>7. S \in [1..(2 * N) -> Piece]
    BY <1>1, <1>6
  <1>8. S \in Seq(Piece) /\ Len(S) = 2 * N
    BY <1>7, <1>0
  <1>9. ASSUME NEW k \in 1..N
        PROVE  /\ S[2 * k - 1] = [pkt |-> pkts[k], last |-> FALSE]
               /\ S[2 * k] = [pkt |-> pkts[k], last |-> TRUE]
    BY <1>1, <1>3
  <1> QED
    BY <1>8, <1>9 DEF S

LEMMA HeadAndTail ==
    ASSUME NEW S, NEW s \in Seq(S), s # <<>>
    PROVE  /\ Len(s) \in Nat /\ Len(s) >= 1 /\ Head(s) = s[1] /\ s[1] \in S
           /\ Tail(s) \in Seq(S) /\ Len(Tail(s)) = Len(s) - 1
           /\ \A i \in 1..(Len(s) - 1) : Tail(s)[i] = s[i + 1]
  <1>1. Len(s) \in Nat /\ Len(s) >= 1
    OBVIOUS
  <1>2. Head(s) = s[1] /\ s[1] \in S
    BY <1>1
  <1> QED
    BY <1>1, <1>2

LEMMA EmptyIs == ASSUME NEW S, NEW s \in Seq(S), Len(s) = 0 PROVE s = <<>>
  OBVIOUS

LEMMA Joined ==
    ASSUME NEW S, NEW s \in Seq(S), NEW t \in Seq(S)
    PROVE  /\ s \o t \in Seq(S) /\ Len(s \o t) = Len(s) + Len(t)
           /\ \A i \in 1..Len(s) : (s \o t)[i] = s[i]
           /\ \A i \in 1..Len(t) : (s \o t)[i + Len(s)] = t[i]
           /\ \A i \in (Len(s) + 1)..(Len(s) + Len(t)) : (s \o t)[i] = t[i - Len(s)]
  OBVIOUS

LEMMA RestOf ==
    ASSUME NEW S, NEW s \in Seq(S), NEW k \in 0..Len(s)
    PROVE  /\ Rest(s, k) \in Seq(S) /\ Len(Rest(s, k)) = Len(s) - k
           /\ \A i \in 1..(Len(s) - k) : Rest(s, k)[i] = s[i + k]
  BY DEF Rest

LEMMA FirstOf ==
    ASSUME NEW S, NEW s \in Seq(S), NEW k \in 0..Len(s)
    PROVE  /\ FirstN(s, k) \in Seq(S) /\ Len(FirstN(s, k)) = k
           /\ \A i \in 1..k : FirstN(s, k)[i] = s[i]
  BY DEF FirstN

LEMMA SameSeq ==
    ASSUME NEW S, NEW a \in Seq(S), NEW b \in Seq(S), Len(a) = Len(b),
           \A i \in 1..Len(a) : a[i] = b[i]
    PROVE  a = b
  OBVIOUS

\* A read moves pieces from the wire to the buffer.
LEMMA Moved ==
    ASSUME NEW S, NEW b \in Seq(S), NEW w \in Seq(S), NEW k \in 0..Len(w)
    PROVE  /\ b \o FirstN(w, k) \in Seq(S)
           /\ (b \o FirstN(w, k)) \o Rest(w, k) = b \o w
  <1> DEFINE f == FirstN(w, k)
             r == Rest(w, k)
  <1>1. /\ f \in Seq(S) /\ Len(f) = k /\ \A i \in 1..k : f[i] = w[i]
        /\ r \in Seq(S) /\ Len(r) = Len(w) - k
        /\ \A i \in 1..(Len(w) - k) : r[i] = w[i + k]
    BY RestOf, FirstOf
  <1> HIDE DEF f, r
  <1>2. b \o f \in Seq(S) /\ (b \o f) \o r \in Seq(S) /\ b \o w \in Seq(S)
    BY <1>1
  <1>3. Len((b \o f) \o r) = Len(b \o w)
    BY <1>1
  <1>4. ASSUME NEW i \in 1..Len(b \o w) PROVE ((b \o f) \o r)[i] = (b \o w)[i]
    <2>1. CASE i <= Len(b)
      BY <2>1, <1>1
    <2>2. CASE i > Len(b) /\ i <= Len(b) + k
      <3>1. ((b \o f) \o r)[i] = (b \o f)[i] /\ (b \o f)[i] = f[i - Len(b)]
        BY <2>2, <1>1
      <3>2. (b \o w)[i] = w[i - Len(b)] /\ i - Len(b) \in 1..k
        BY <2>2, <1>1
      <3> QED  BY <3>1, <3>2, <1>1
    <2>3. CASE i > Len(b) + k
      <3>1. ((b \o f) \o r)[i] = r[i - Len(b) - k]
        BY <2>3, <1>1
      <3>2. (b \o w)[i] = w[i - Len(b)] /\ i - Len(b) - k \in 1..(Len(w) - k)
        BY <2>3, <1>1
      <3>3. r[i - Len(b) - k] = w[(i - Len(b) - k) + k]
        BY <3>2, <1>1
      <3> QED  BY <3>1, <3>2, <3>3
    <2>4. i \in Nat /\ Len(b) \in Nat /\ k \in Nat
      OBVIOUS
    <2>5. \/ i <= Len(b) \/ (i > Len(b) /\ i <= Len(b) + k) \/ i > Len(b) + k
      BY <2>4
    <2> QED  BY <2>1, <2>2, <2>3, <2>5, Zenon
  <1>5. (b \o f) \o r = b \o w
    BY <1>2, <1>3, <1>4, SameSeq
  <1> QED
    BY <1>2, <1>5 DEF f, r

\* What is left of the buffer, before the wire.
LEMMA RestBefore ==
    ASSUME NEW S, NEW b \in Seq(S), NEW w \in Seq(S), NEW k \in 0..Len(b)
    PROVE  Rest(b, k) \o w = Rest(b \o w, k)
  <1> DEFINE r == Rest(b, k)
             t == Rest(b \o w, k)
  <1>0. b \o w \in Seq(S) /\ Len(b \o w) = Len(b) + Len(w)
    OBVIOUS
  <1>1. /\ r \in Seq(S) /\ Len(r) = Len(b) - k
        /\ \A i \in 1..(Len(b) - k) : r[i] = b[i + k]
    BY RestOf
  <1>2. /\ t \in Seq(S) /\ Len(t) = Len(b \o w) - k
        /\ \A i \in 1..(Len(b \o w) - k) : t[i] = (b \o w)[i + k]
    <2>1. k \in 0..Len(b \o w)
      BY <1>0
    <2> QED  BY <2>1, <1>0, RestOf
  <1> HIDE DEF r, t
  <1>3. r \o w \in Seq(S) /\ Len(r \o w) = Len(t)
    <2>0. r \in Seq(S) /\ w \in Seq(S)
      BY <1>1
    <2>1. r \o w \in Seq(S) /\ Len(r \o w) = Len(r) + Len(w)
      BY <2>0
    <2>2. Len(b) \in Nat /\ Len(w) \in Nat /\ k \in Nat
      OBVIOUS
    <2> QED  BY <2>1, <2>2, <1>0, <1>1, <1>2
  <1>4. ASSUME NEW i \in 1..Len(t) PROVE (r \o w)[i] = t[i]
    <2>1. t[i] = (b \o w)[i + k]
      BY <1>0, <1>2
    <2>2. CASE i <= Len(b) - k
      BY <2>1, <2>2, <1>0, <1>1, <1>2
    <2>3. CASE i > Len(b) - k
      <3>1. (r \o w)[i] = w[i - (Len(b) - k)]
        BY <2>3, <1>0, <1>1, <1>2
      <3>2. (b \o w)[i + k] = w[i + k - Len(b)]
        BY <2>3, <1>0, <1>2
      <3> QED  BY <3>1, <3>2, <2>1
    <2> QED  BY <2>2, <2>3, <1>1, <1>2
  <1>5. t \in Seq(S)
    BY <1>2
  <1>6. r \o w = t
    BY <1>3, <1>4, <1>5, SameSeq
  <1> QED
    BY <1>6 DEF r, t

----------------------------------------------------------------------------
(* The stream, as lines of text and then packets of two pieces each.       *)

Stream == buf \o wire
Flying == srv.sendSeq - recvSeq
Lead == Len(Stream) - 2 * Flying

\* The last n packets of a stream.
LastOf(s, n) == [k \in 1..n |-> s[Len(s) - 2 * n + 2 * k].pkt]
Coming == LastOf(Stream, Flying)

Framed(s, l, P) ==
    /\ l \in Nat /\ Len(s) = l + 2 * Len(P)
    /\ \A k \in 1..l : s[k].last = TRUE
    /\ \A k \in 1..Len(P) :
           /\ s[l + 2 * k - 1] = [pkt |-> P[k], last |-> FALSE]
           /\ s[l + 2 * k] = [pkt |-> P[k], last |-> TRUE]

Numbered(P, n) ==
    \A k \in 1..Len(P) : P[k].seq = n + k - 1 /\ P[k].p.m \notin {"IDENT", "LINE"}

\* What comes is whole packets after whole lines, numbered from the one that
\* the client counts next.
FrameInv ==
    /\ Flying \in Nat
    /\ Coming \in Seq(Packet) /\ Len(Coming) = Flying
    /\ Framed(Stream, Lead, Coming)
    /\ Numbered(Coming, recvSeq)

LEMMA Unframe ==
    ASSUME NEW s \in Seq(Piece), NEW l, NEW P \in Seq(Packet), Framed(s, l, P)
    PROVE  l = Len(s) - 2 * Len(P) /\ LastOf(s, Len(P)) = P
  <1>1. l = Len(s) - 2 * Len(P) /\ Len(P) \in Nat
    BY DEF Framed
  <1>2. LastOf(s, Len(P)) = [k \in 1..Len(P) |-> s[l + 2 * k].pkt]
    <2>1. Len(s) - 2 * Len(P) = l
      BY <1>1
    <2> QED  BY <2>1 DEF LastOf
  <1>3. \A k \in 1..Len(P) : s[l + 2 * k].pkt = P[k]
    <2> TAKE k \in 1..Len(P)
    <2>1. s[l + 2 * k] = [pkt |-> P[k], last |-> TRUE]
      BY DEF Framed
    <2> QED  BY <2>1
  <1>4. P = [k \in 1..Len(P) |-> P[k]]
    OBVIOUS
  <1> QED
    BY <1>1, <1>2, <1>3, <1>4

LEMMA Grown ==
    ASSUME NEW s \in Seq(Piece), NEW l, NEW P \in Seq(Packet), Framed(s, l, P),
           NEW Q \in Seq(Packet)
    PROVE  Framed(s \o Pieces(Q), l, P \o Q)
  <1> DEFINE t == Pieces(Q)
  <1>1. /\ t \in Seq(Piece) /\ Len(t) = 2 * Len(Q)
        /\ \A k \in 1..Len(Q) : /\ t[2 * k - 1] = [pkt |-> Q[k], last |-> FALSE]
                                /\ t[2 * k] = [pkt |-> Q[k], last |-> TRUE]
    BY InPieces
  <1> HIDE DEF t
  <1>2. /\ l \in Nat /\ Len(s) = l + 2 * Len(P) /\ Len(P) \in Nat /\ Len(Q) \in Nat
        /\ \A k \in 1..l : s[k].last = TRUE
        /\ \A k \in 1..Len(P) :
               /\ s[l + 2 * k - 1] = [pkt |-> P[k], last |-> FALSE]
               /\ s[l + 2 * k] = [pkt |-> P[k], last |-> TRUE]
    <2>1. Len(P) \in Nat /\ Len(Q) \in Nat
      BY DEF Framed
    <2>2. /\ l \in Nat /\ Len(s) = l + 2 * Len(P)
          /\ \A k \in 1..l : s[k].last = TRUE
          /\ \A k \in 1..Len(P) :
                 /\ s[l + 2 * k - 1] = [pkt |-> P[k], last |-> FALSE]
                 /\ s[l + 2 * k] = [pkt |-> P[k], last |-> TRUE]
      BY Zenon DEF Framed
    <2> QED  BY <2>1, <2>2, Zenon
  <1>3. Len(s \o t) = Len(s) + Len(t) /\ Len(P \o Q) = Len(P) + Len(Q)
    <2>1. s \in Seq(Piece) /\ t \in Seq(Piece)
      BY <1>1
    <2>2. Len(s \o t) = Len(s) + Len(t)
      BY <2>1
    <2>3. Len(P \o Q) = Len(P) + Len(Q)
      OBVIOUS
    <2> QED  BY <2>2, <2>3
  <1>4. Len(s \o t) = l + 2 * Len(P \o Q)
    BY <1>1, <1>2, <1>3
  <1>5. \A k \in 1..l : (s \o t)[k].last = TRUE
    <2> TAKE k \in 1..l
    <2>1. (s \o t)[k] = s[k]
      BY <1>1, <1>2
    <2> QED  BY <2>1, <1>2
  <1>6. ASSUME NEW k \in 1..Len(P \o Q)
        PROVE  /\ (s \o t)[l + 2 * k - 1] = [pkt |-> (P \o Q)[k], last |-> FALSE]
               /\ (s \o t)[l + 2 * k] = [pkt |-> (P \o Q)[k], last |-> TRUE]
    <2>1. CASE k <= Len(P)
      <3>1. (s \o t)[l + 2 * k - 1] = s[l + 2 * k - 1] /\ (s \o t)[l + 2 * k] = s[l + 2 * k]
        <4>1. \A i \in 1..Len(s) : (s \o t)[i] = s[i]
          <5>1. t \in Seq(Piece)
            BY <1>1
          <5> QED  BY <5>1, Joined
        <4>2. l + 2 * k - 1 \in 1..Len(s) /\ l + 2 * k \in 1..Len(s)
          BY <2>1, <1>2
        <4> QED  BY <4>1, <4>2, Zenon
      <3>2. (P \o Q)[k] = P[k] /\ k \in 1..Len(P)
        BY <2>1, <1>2
      <3> QED  BY <3>1, <3>2, <1>2
    <2>2. CASE k > Len(P)
      <3> DEFINE j == k - Len(P)
      <3>1. (P \o Q)[k] = Q[j] /\ j \in 1..Len(Q)
        BY <2>2, <1>2, <1>3
      <3>2. /\ (s \o t)[l + 2 * k - 1] = t[l + 2 * k - 1 - Len(s)]
            /\ (s \o t)[l + 2 * k] = t[l + 2 * k - Len(s)]
        <4>1. \A i \in 1..Len(t) : (s \o t)[i + Len(s)] = t[i]
          BY <1>1
        <4>2. /\ l + 2 * k - 1 - Len(s) \in 1..Len(t) /\ l + 2 * k - Len(s) \in 1..Len(t)
              /\ l + 2 * k - 1 = (l + 2 * k - 1 - Len(s)) + Len(s)
              /\ l + 2 * k = (l + 2 * k - Len(s)) + Len(s)
          BY <2>2, <1>1, <1>2, <1>3
        <4> QED  BY <4>1, <4>2
      <3>3. l + 2 * k - 1 - Len(s) = 2 * j - 1 /\ l + 2 * k - Len(s) = 2 * j
        BY <1>2, <1>3
      <3> QED  BY <3>1, <3>2, <3>3, <1>1
    <2>3. k <= Len(P) \/ k > Len(P)
      BY <1>2, <1>3
    <2> QED  BY <2>1, <2>2, <2>3, Zenon
  <1> QED
    BY <1>2, <1>4, <1>5, <1>6 DEF Framed, t

LEMMA LinesOn ==
    ASSUME NEW s \in Seq(Piece), NEW l, Framed(s, l, <<>>),
           NEW t \in Seq(Piece), \A k \in 1..Len(t) : t[k].last = TRUE
    PROVE  Framed(s \o t, l + Len(t), <<>>)
  <1>1. l \in Nat /\ Len(s) = l /\ \A k \in 1..l : s[k].last = TRUE
    BY DEF Framed
  <1>2. Len(s \o t) = l + Len(t) /\ l + Len(t) \in Nat
    <2>1. Len(s \o t) = Len(s) + Len(t)
      OBVIOUS
    <2>2. Len(t) \in Nat
      OBVIOUS
    <2> QED  BY <2>1, <2>2, <1>1
  <1>3. ASSUME NEW k \in 1..(l + Len(t)) PROVE (s \o t)[k].last = TRUE
    <2>1. CASE k <= l
      <3>1. (s \o t)[k] = s[k]
        BY <2>1, <1>1
      <3> QED  BY <3>1, <2>1, <1>1
    <2>2. CASE k > l
      <3>1. (s \o t)[k] = t[k - l] /\ k - l \in 1..Len(t)
        BY <2>2, <1>1
      <3> QED  BY <3>1
    <2>3. k <= l \/ k > l
      BY <1>1
    <2> QED  BY <2>1, <2>2, <2>3, Zenon
  <1>4. Len(<<>>) = 0
    OBVIOUS
  <1> QED
    BY <1>2, <1>3, <1>4 DEF Framed

LEMMA LineOff ==
    ASSUME NEW s \in Seq(Piece), NEW l, NEW P \in Seq(Packet), Framed(s, l, P), l # 0
    PROVE  Framed(Rest(s, 1), l - 1, P) /\ Len(s) >= 1 /\ s[1].last = TRUE
  <1>1. /\ l \in Nat /\ Len(s) = l + 2 * Len(P) /\ Len(P) \in Nat
        /\ \A k \in 1..l : s[k].last = TRUE
        /\ \A k \in 1..Len(P) :
               /\ s[l + 2 * k - 1] = [pkt |-> P[k], last |-> FALSE]
               /\ s[l + 2 * k] = [pkt |-> P[k], last |-> TRUE]
    BY DEF Framed
  <1>2. 1 \in 0..Len(s) /\ 1 \in 1..l
    BY <1>1
  <1> DEFINE t == Rest(s, 1)
  <1>3. Len(t) = Len(s) - 1 /\ \A i \in 1..(Len(s) - 1) : t[i] = s[i + 1]
    BY <1>2, RestOf
  <1> HIDE DEF t
  <1>4. \A k \in 1..(l - 1) : t[k].last = TRUE
    <2> TAKE k \in 1..(l - 1)
    <2>1. t[k] = s[k + 1] /\ k + 1 \in 1..l
      BY <1>1, <1>3
    <2> QED  BY <2>1, <1>1
  <1>5. ASSUME NEW k \in 1..Len(P)
        PROVE  /\ t[(l - 1) + 2 * k - 1] = [pkt |-> P[k], last |-> FALSE]
               /\ t[(l - 1) + 2 * k] = [pkt |-> P[k], last |-> TRUE]
    <2>1. /\ (l - 1) + 2 * k - 1 \in 1..(Len(s) - 1)
          /\ (l - 1) + 2 * k \in 1..(Len(s) - 1)
      BY <1>1
    <2>2. /\ t[(l - 1) + 2 * k - 1] = s[((l - 1) + 2 * k - 1) + 1]
          /\ t[(l - 1) + 2 * k] = s[((l - 1) + 2 * k) + 1]
      BY <2>1, <1>3
    <2>3. ((l - 1) + 2 * k - 1) + 1 = l + 2 * k - 1 /\ ((l - 1) + 2 * k) + 1 = l + 2 * k
      BY <1>1
    <2> QED  BY <2>2, <2>3, <1>1
  <1> QED
    BY <1>1, <1>2, <1>3, <1>4, <1>5 DEF Framed, t

LEMMA PacketOff ==
    ASSUME NEW s \in Seq(Piece), NEW P \in Seq(Packet), Framed(s, 0, P), s # <<>>
    PROVE  /\ Framed(Rest(s, 2), 0, Tail(P)) /\ Len(s) >= 2 /\ Len(P) >= 1
           /\ s[1] = [pkt |-> P[1], last |-> FALSE]
  <1>1. /\ Len(s) = 2 * Len(P) /\ Len(P) \in Nat
        /\ \A k \in 1..Len(P) :
               /\ s[2 * k - 1] = [pkt |-> P[k], last |-> FALSE]
               /\ s[2 * k] = [pkt |-> P[k], last |-> TRUE]
    BY DEF Framed
  <1>2. Len(P) >= 1
    BY <1>1
  <1>3. 2 \in 0..Len(s) /\ 1 \in 1..Len(P)
    BY <1>1, <1>2
  <1> DEFINE t == Rest(s, 2)
             T == Tail(P)
  <1>4. Len(t) = Len(s) - 2 /\ \A i \in 1..(Len(s) - 2) : t[i] = s[i + 2]
    BY <1>3, RestOf
  <1>5. Len(T) = Len(P) - 1 /\ \A k \in 1..(Len(P) - 1) : T[k] = P[k + 1]
    BY <1>2
  <1> HIDE DEF t, T
  <1>6. ASSUME NEW k \in 1..Len(T)
        PROVE  /\ t[2 * k - 1] = [pkt |-> T[k], last |-> FALSE]
               /\ t[2 * k] = [pkt |-> T[k], last |-> TRUE]
    <2>1. 2 * k - 1 \in 1..(Len(s) - 2) /\ 2 * k \in 1..(Len(s) - 2) /\ k + 1 \in 1..Len(P)
      BY <1>1, <1>5
    <2>2. t[2 * k - 1] = s[(2 * k - 1) + 2] /\ t[2 * k] = s[2 * k + 2] /\ T[k] = P[k + 1]
      BY <2>1, <1>4, <1>5
    <2>3. (2 * k - 1) + 2 = 2 * (k + 1) - 1 /\ 2 * k + 2 = 2 * (k + 1)
      OBVIOUS
    <2> QED  BY <2>1, <2>2, <2>3, <1>1
  <1>7. s[1] = [pkt |-> P[1], last |-> FALSE]
    <2>1. s[2 * 1 - 1] = [pkt |-> P[1], last |-> FALSE]
      BY <1>1, <1>3
    <2> QED  BY <2>1
  <1>8. Len(t) = 0 + 2 * Len(T)
    BY <1>1, <1>4, <1>5
  <1>9. Framed(t, 0, T)
    BY <1>6, <1>8 DEF Framed
  <1> QED
    BY <1>1, <1>2, <1>3, <1>7, <1>9 DEF t, T

----------------------------------------------------------------------------
LEMMA DownKeepsTypes ==
    ASSUME Types, NEW s \in Peer, NEW msgs \in Seq(Message), Down(s, msgs)
    PROVE  wire' \in Seq(Piece) /\ srv' \in Peer
  <1>1. s.sendSeq \in Nat /\ s.sendEnc \in BOOLEAN /\ Len(msgs) \in Nat
    BY DEF Peer
  <1>2. Pieces(Sealed(msgs, s.sendSeq, s.sendEnc)) \in Seq(Piece)
    BY <1>1, SealedWith, InPieces
  <1>3. wire' \in Seq(Piece)
    BY <1>2 DEF Down, Types
  <1>4. srv' = [s EXCEPT !.sendSeq = s.sendSeq + Len(msgs)]
    BY DEF Down
  <1>5. \A n \in Nat : [s EXCEPT !.sendSeq = n] \in Peer
    BY DEF Peer
  <1> QED
    BY <1>1, <1>3, <1>4, <1>5

LEMMA SrvReadKeepsTypes == ASSUME Types, SrvRead PROVE Types'
  <1> DEFINE pkt == Head(up)
             p == pkt.p
             s == [srv EXCEPT !.recvSeq = srv.recvSeq + 1]
  <1>1. srv \in Peer /\ up \in Seq(Packet) /\ up # <<>> /\ wire \in Seq(Piece)
    BY DEF Types, SrvRead
  <1>2. pkt \in Packet /\ p \in Message /\ p.m \in Messages /\ p.n \in Nat
    <2>1. pkt \in Packet
      BY <1>1, HeadAndTail
    <2> HIDE DEF pkt
    <2> QED  BY <2>1 DEF Packet, Message
  <1>3. up' \in Seq(Packet)
    <2>1. up' = Tail(up)
      BY DEF SrvRead
    <2> QED  BY <1>1, <2>1, HeadAndTail
  <1>4. srv.recvSeq + 1 \in Nat
    BY <1>1 DEF Peer
  <1>5. \A n \in Nat : [srv EXCEPT !.recvSeq = n] \in Peer
    BY <1>1 DEF Peer
  <1>6. s \in Peer
    BY <1>4, <1>5, Zenon
  <1>7. /\ [s EXCEPT !.err = TRUE, !.closed = TRUE] \in Peer
        /\ [s EXCEPT !.recvEnc = TRUE] \in Peer
        /\ [s EXCEPT !.phase = "auth"] \in Peer
        /\ [s EXCEPT !.phase = "authed"] \in Peer
        /\ [s EXCEPT !.phase = IF @ = "channel" THEN "shell" ELSE @] \in Peer
        /\ [s EXCEPT !.eof = TRUE] \in Peer
        /\ \A n \in Nat : [s EXCEPT !.sendSeq = n, !.sendEnc = TRUE] \in Peer
        /\ \A n \in Nat : [s EXCEPT !.credit = n] \in Peer
        /\ \A c, n \in Nat : [s EXCEPT !.phase = "channel", !.ch = c, !.credit = n] \in Peer
    <2> HIDE DEF s
    <2> QED  BY <1>6 DEF Peer, Phases
  <1>8. s.sendSeq \in Nat /\ s.credit \in Nat /\ s.sendSeq + 2 \in Nat
        /\ s.credit + p.n \in Nat
    <2> HIDE DEF s, p
    <2> QED  BY <1>6, <1>2 DEF Peer
  <1>9. Window \in Nat /\ ServerChannels \subseteq Nat
    BY SshAssumption
  <1> HIDE DEF pkt, p, s
  <1>10. wire' \in Seq(Piece) /\ srv' \in Peer
    <2>0. \/ srv' = srv /\ wire' = wire
          \/ srv' = [s EXCEPT !.err = TRUE, !.closed = TRUE] /\ wire' = wire
          \/ /\ wire' = wire \o Pieces(Sealed(<<Msg("KEXDH_REPLY"), Msg("NEWKEYS")>>,
                                              s.sendSeq, FALSE))
             /\ srv' = [s EXCEPT !.sendSeq = s.sendSeq + 2, !.sendEnc = TRUE]
          \/ srv' = [s EXCEPT !.recvEnc = TRUE] /\ wire' = wire
          \/ Down([s EXCEPT !.phase = "auth"], <<Msg("SERVICE_ACCEPT")>>)
          \/ Down(s, <<Msg("USERAUTH_FAILURE")>>)
          \/ Down([s EXCEPT !.phase = "authed"], <<Msg("USERAUTH_SUCCESS")>>)
          \/ Down(s, <<Msg("CHANNEL_OPEN_FAILURE")>>)
          \/ \E c \in ServerChannels :
                 Down([s EXCEPT !.phase = "channel", !.ch = c, !.credit = Window],
                      <<OnChannel("CHANNEL_OPEN_CONFIRMATION", c, 0)>>)
          \/ srv' = [s EXCEPT !.credit = s.credit + p.n] /\ wire' = wire
          \/ srv' = [s EXCEPT !.phase = IF @ = "channel" THEN "shell" ELSE @] /\ wire' = wire
          \/ srv' = [s EXCEPT !.eof = TRUE] /\ wire' = wire
          \/ srv' = s /\ wire' = wire
      BY DEF SrvRead, s, p, pkt
    <2> DEFINE Two == <<Msg("KEXDH_REPLY"), Msg("NEWKEYS")>>
    <2>1. \A m \in Messages : <<Msg(m)>> \in Seq(Message)
      BY MsgType, OneMessage
    <2>2. {"SERVICE_ACCEPT", "USERAUTH_FAILURE", "USERAUTH_SUCCESS",
           "CHANNEL_OPEN_FAILURE", "CHANNEL_OPEN_CONFIRMATION"} \subseteq Messages
      BY DEF Messages
    <2>3. \A c \in ServerChannels :
              <<OnChannel("CHANNEL_OPEN_CONFIRMATION", c, 0)>> \in Seq(Message)
      BY <2>2, <1>9, OnChannelType, OneMessage
    <2>4. Two \in Seq(Message)
      <3>1. Msg("KEXDH_REPLY") \in Message /\ Msg("NEWKEYS") \in Message
        BY MsgType DEF Messages
      <3> QED  BY <3>1
    <2>5. Pieces(Sealed(Two, s.sendSeq, FALSE)) \in Seq(Piece)
      <3> HIDE DEF Two
      <3> QED  BY <2>4, <1>8, SealedWith, InPieces
    <2>6. wire \o Pieces(Sealed(Two, s.sendSeq, FALSE)) \in Seq(Piece)
      BY <2>5, <1>1, Joined
    <2> HIDE DEF Two
    <2>7. CASE \E t \in Peer, msgs \in Seq(Message) : Down(t, msgs)
      BY <2>7, DownKeepsTypes
    <2>8. \A c \in ServerChannels :
              [s EXCEPT !.phase = "channel", !.ch = c, !.credit = Window] \in Peer
      BY <1>7, <1>9
    <2> QED
      BY <2>0, <2>1, <2>2, <2>3, <2>6, <2>7, <2>8, <1>1, <1>6, <1>7, <1>8 DEF Two
  <1> QED
    BY <1>3, <1>10 DEF SrvRead, Types, client, control, keys, channel

LEMMA OnInterval ==
    ASSUME NEW S, NEW k \in Nat, NEW t \in [1..k -> S]
    PROVE  t \in Seq(S) /\ Len(t) = k
  OBVIOUS

LEMMA TextOf ==
    ASSUME NEW m \in Messages, NEW k \in Nat, NEW t,
           t = [i \in 1..k |-> [pkt |-> [p |-> Msg(m), seq |-> 0, enc |-> FALSE],
                                last |-> TRUE]]
    PROVE  /\ t \in Seq(Piece) /\ Len(t) = k
           /\ \A i \in 1..k : t[i].last = TRUE /\ t[i].pkt.p.m = m
  <1> DEFINE x == [pkt |-> [p |-> Msg(m), seq |-> 0, enc |-> FALSE], last |-> TRUE]
  <1>1. x \in Piece
    BY MsgType DEF Piece, Packet
  <1>2. x.last = TRUE /\ x.pkt.p.m = m
    BY DEF Msg
  <1> HIDE DEF x
  <1>3. t = [i \in 1..k |-> x]
    BY DEF x
  <1>4. t \in Seq(Piece) /\ Len(t) = k
    <2>1. t \in [1..k -> Piece]
      BY <1>1, <1>3
    <2> QED  BY <2>1, OnInterval
  <1> QED
    BY <1>2, <1>3, <1>4

LEMMA NoiseOf ==
    ASSUME NEW m \in Messages, NEW k \in Nat, NEW big \in BOOLEAN, NEW q,
           q = [i \in 1..k |-> [Msg(m) EXCEPT !.big = big]]
    PROVE  /\ q \in Seq(Message) /\ Len(q) = k
           /\ \A i \in 1..k : q[i].m = m
  <1> DEFINE x == [Msg(m) EXCEPT !.big = big]
  <1>1. x \in Message
    BY MsgType DEF Message
  <1>2. x.m = m
    BY DEF Msg
  <1> HIDE DEF x
  <1>3. q = [i \in 1..k |-> x]
    BY DEF x
  <1>4. q \in Seq(Message) /\ Len(q) = k
    BY <1>1, <1>3
  <1> QED
    BY <1>2, <1>3, <1>4

LEMMA FinalOf ==
    ASSUME NEW q,
           q = <<OnChannel("EXIT_STATUS", LocalChannel, 0),
                 OnChannel("EOF", LocalChannel, 0), OnChannel("CLOSE", LocalChannel, 0)>>
    PROVE  /\ q \in Seq(Message) /\ Len(q) = 3
           /\ q[1].m = "EXIT_STATUS" /\ q[2].m = "EOF" /\ q[3].m = "CLOSE"
  <1> DEFINE x == OnChannel("EXIT_STATUS", LocalChannel, 0)
             y == OnChannel("EOF", LocalChannel, 0)
             z == OnChannel("CLOSE", LocalChannel, 0)
  <1>1. x \in Message /\ y \in Message /\ z \in Message
    BY OnChannelType DEF Messages, LocalChannel
  <1>2. x.m = "EXIT_STATUS" /\ y.m = "EOF" /\ z.m = "CLOSE"
    BY DEF OnChannel
  <1> HIDE DEF x, y, z
  <1>3. q = <<x, y, z>>
    BY DEF x, y, z
  <1> QED
    BY <1>1, <1>2, <1>3

LEMMA OutputType ==
    ASSUME NEW m \in Messages, NEW n \in Nat, NEW big \in BOOLEAN, NEW x,
           x = [OnChannel(m, LocalChannel, n) EXCEPT !.big = big]
    PROVE  x \in Message /\ x.m = m /\ x.ch = LocalChannel /\ x.n = n
  BY OnChannelType DEF OnChannel, Message, LocalChannel

LEMMA ServerKeepsTypes == ASSUME Types, Server PROVE Types'
  <1>0. srv \in Peer /\ wire \in Seq(Piece)
    BY DEF Types
  <1>1. SUFFICES ASSUME ~SrvRead
                 PROVE  wire' \in Seq(Piece) /\ srv' \in Peer /\ UNCHANGED <<client, up>>
    BY SrvReadKeepsTypes DEF Types, client, control, keys, channel
  <1>2. RoundtripPkts \in Nat /\ Lines \in Nat
    BY SshAssumption
  <1>3. \A n \in Nat : [srv EXCEPT !.noise = n] \in Peer
    BY <1>0 DEF Peer
  <1>4. srv.noise \in Nat /\ srv.sent \in Nat /\ srv.credit \in Nat
    BY <1>0 DEF Peer
  <1>5. ASSUME NEW m \in Messages, NEW k \in Nat, SrvLines(m, k)
        PROVE  wire' \in Seq(Piece) /\ srv' \in Peer /\ UNCHANGED <<client, up>>
    <2> DEFINE t == [i \in 1..k |-> [pkt |-> [p |-> Msg(m), seq |-> 0, enc |-> FALSE],
                                     last |-> TRUE]]
    <2>1. t \in Seq(Piece)
      <3> HIDE DEF t
      <3> QED  BY TextOf DEF t
    <2>2. wire' = wire \o t
      BY <1>5 DEF SrvLines
    <2> HIDE DEF t
    <2>3. wire' \in Seq(Piece)
      BY <1>0, <2>1, <2>2, Joined
    <2>4. [srv EXCEPT !.phase = "ident"] \in Peer
      BY <1>0 DEF Peer, Phases
    <2>5. srv' = [srv EXCEPT !.noise = srv.noise + 1] \/ srv' = [srv EXCEPT !.phase = "ident"]
      BY <1>5 DEF SrvLines
    <2>6. srv.noise + 1 \in Nat
      BY <1>4
    <2> QED
      BY <1>5, <2>3, <2>4, <2>5, <2>6, <1>3 DEF SrvLines
  <1>6. CASE SrvKexinit
    <2>1. [srv EXCEPT !.phase = "kex"] \in Peer
      BY <1>0 DEF Peer, Phases
    <2>2. <<Msg("KEXINIT")>> \in Seq(Message)
      BY MsgType, OneMessage DEF Messages
    <2> QED
      BY <1>6, <2>1, <2>2, DownKeepsTypes DEF SrvKexinit
  <1>7. ASSUME NEW m \in Noise, NEW k \in 1..RoundtripPkts, NEW big \in BOOLEAN,
               SrvNoise(m, k, big)
        PROVE  wire' \in Seq(Piece) /\ srv' \in Peer /\ UNCHANGED <<client, up>>
    <2> DEFINE q == [i \in 1..k |-> [Msg(m) EXCEPT !.big = big]]
               s == [srv EXCEPT !.noise = srv.noise + 1,
                                !.phase = IF m = "KEXINIT" THEN "rekey" ELSE @]
    <2>1. m \in Messages /\ k \in Nat
      BY <1>2 DEF Noise, Messages
    <2>2. q \in Seq(Message)
      <3> HIDE DEF q
      <3> QED  BY <2>1, NoiseOf DEF q
    <2>3. s \in Peer
      <3>1. \A n \in Nat : [srv EXCEPT !.noise = n, !.phase = IF m = "KEXINIT" THEN "rekey" ELSE @] \in Peer
        BY <1>0 DEF Peer, Phases
      <3>2. srv.noise + 1 \in Nat
        BY <1>4
      <3> QED  BY <3>1, <3>2, Zenon
    <2>4. Down(s, q)
      BY <1>7 DEF SrvNoise
    <2> HIDE DEF q, s
    <2> QED
      BY <1>7, <2>2, <2>3, <2>4, DownKeepsTypes DEF SrvNoise
  <1>8. ASSUME NEW m \in {"DATA", "EXTENDED_DATA"}, NEW big \in BOOLEAN, SrvData(m, big)
        PROVE  wire' \in Seq(Piece) /\ srv' \in Peer /\ UNCHANGED <<client, up>>
    <2> DEFINE x == [OnChannel(m, LocalChannel, srv.sent + 1) EXCEPT !.big = big]
               s == [srv EXCEPT !.credit = srv.credit - 1, !.sent = srv.sent + 1]
    <2>1. m \in Messages /\ srv.sent + 1 \in Nat /\ srv.credit - 1 \in Nat
      BY <1>4, <1>8 DEF Messages, SrvData
    <2>2. x \in Message
      <3> HIDE DEF x
      <3> QED  BY <2>1, OutputType DEF x
    <2>3. s \in Peer
      <3>1. \A n, l \in Nat : [srv EXCEPT !.credit = n, !.sent = l] \in Peer
        BY <1>0 DEF Peer
      <3> QED  BY <2>1, <3>1, Zenon
    <2>4. Down(s, <<x>>)
      BY <1>8 DEF SrvData
    <2> HIDE DEF x, s
    <2> QED
      BY <1>8, <2>2, <2>3, <2>4, OneMessage, DownKeepsTypes DEF SrvData
  <1>9. CASE SrvFinish
    <2> DEFINE q == <<OnChannel("EXIT_STATUS", LocalChannel, 0),
                      OnChannel("EOF", LocalChannel, 0), OnChannel("CLOSE", LocalChannel, 0)>>
    <2>1. Down([srv EXCEPT !.phase = "over"], q)
      BY <1>9 DEF SrvFinish
    <2> HIDE DEF q
    <2>2. q \in Seq(Message)
      BY FinalOf DEF q
    <2>3. [srv EXCEPT !.phase = "over"] \in Peer
      BY <1>0 DEF Peer, Phases
    <2> QED
      BY <1>9, <2>1, <2>2, <2>3, DownKeepsTypes DEF SrvFinish
  <1>10. CASE SrvDisconnect
    <2>1. [srv EXCEPT !.closed = TRUE] \in Peer
      BY <1>0 DEF Peer
    <2>2. <<Msg("DISCONNECT")>> \in Seq(Message)
      BY MsgType, OneMessage DEF Messages
    <2> QED
      BY <1>10, <2>1, <2>2, DownKeepsTypes DEF SrvDisconnect
  <1>11. CASE SrvClose
    BY <1>11, <1>0 DEF SrvClose, Peer
  <1>12. "IDENT" \in Messages /\ "LINE" \in Messages /\ 1 \in Nat /\ 1..Lines \subseteq Nat
    BY <1>2 DEF Messages
  <1> QED
    BY <1>1, <1>5, <1>6, <1>7, <1>8, <1>9, <1>10, <1>11, <1>12 DEF Server

----------------------------------------------------------------------------
LEMMA AfterType ==
    ASSUME NEW b \in Seq(Piece), WholeIn(b)
    PROVE  /\ AfterOf(b) \in Seq(Piece) /\ FrontOf(b) \in Packet
           /\ Len(b) >= 1 /\ b[1].last \in BOOLEAN
  <1>1. Len(b) \in Nat /\ Len(b) >= 1 /\ b[1] \in Piece
    BY HeadAndTail DEF WholeIn
  <1>2. b[1].last \in BOOLEAN /\ b[1].pkt \in Packet
    BY <1>1 DEF Piece
  <1>3. CASE b[1].last
    <2>1. 1 \in 0..Len(b)
      BY <1>1
    <2> QED
      BY <1>1, <1>2, <1>3, <2>1, RestOf DEF AfterOf, FrontOf
  <1>4. CASE ~b[1].last
    <2>1. 2 \in 0..Len(b)
      BY <1>1, <1>4 DEF WholeIn
    <2> QED
      BY <1>1, <1>2, <1>4, <2>1, RestOf DEF AfterOf, FrontOf
  <1> QED
    BY <1>3, <1>4

LEMMA SendsTypes ==
    ASSUME Types, encrypted' \in BOOLEAN, NEW msgs \in Seq(Message), Sends(msgs)
    PROVE  up' \in Seq(Packet) /\ sendSeq' \in Nat
  <1>1. Sealed(msgs, sendSeq, encrypted') \in Seq(Packet)
    BY SealedWith DEF Types
  <1>2. up' = up \o Sealed(msgs, sendSeq, encrypted') /\ sendSeq' = sendSeq + Len(msgs)
    BY DEF Sends
  <1>3. up' \in Seq(Packet)
    BY <1>1, <1>2, Joined DEF Types
  <1>4. Len(msgs) \in Nat
    OBVIOUS
  <1> QED
    BY <1>2, <1>3, <1>4 DEF Types

LEMMA ProceedTypes ==
    ASSUME Types, encrypted' \in BOOLEAN, NEW msgs \in Seq(Message), NEW next,
           Proceed(next, msgs)
    PROVE  up' \in Seq(Packet) /\ sendSeq' \in Nat
  BY SendsTypes DEF Proceed, Types

LEMMA OpeningType ==
    ASSUME NEW c \in Nat
    PROVE  /\ Opening(c) \in Seq(Message) /\ Len(Opening(c)) = 4
           /\ Opening(c)[1] = OnChannel("WINDOW_ADJUST", c, Window)
           /\ Opening(c)[2] = OnChannel("PTY", c, 0)
           /\ Opening(c)[3] = OnChannel("SHELL", c, 0)
           /\ Opening(c)[4] = OnChannel("DATA", c, 0)
  <1> DEFINE a == OnChannel("WINDOW_ADJUST", c, Window)
             b == OnChannel("PTY", c, 0)
             d == OnChannel("SHELL", c, 0)
             e == OnChannel("DATA", c, 0)
  <1>1. a \in Message /\ b \in Message /\ d \in Message /\ e \in Message
    BY OnChannelType, SshAssumption DEF Messages
  <1>2. Opening(c) = <<a, b, d, e>>
    BY DEF Opening
  <1> HIDE DEF a, b, d, e
  <1>3. /\ Opening(c) \in Seq(Message) /\ Len(Opening(c)) = 4 /\ Opening(c)[1] = a
        /\ Opening(c)[2] = b /\ Opening(c)[3] = d /\ Opening(c)[4] = e
    BY <1>1, <1>2
  <1> QED
    BY <1>3 DEF a, b, d, e

LEMMA MinOfTwo == ASSUME NEW a \in Int, NEW b \in Int
                 PROVE Min({a, b}) = IF a <= b THEN a ELSE b
  <1>1. \E x \in {a, b} : \A y \in {a, b} : x <= y
    OBVIOUS
  <1>2. Min({a, b}) \in {a, b} /\ \A y \in {a, b} : Min({a, b}) <= y
    BY <1>1 DEF Min
  <1> QED
    BY <1>2

\* What one read takes is on the wire.
LEMMA ReadsOnWire ==
    ASSUME Types
    PROVE  /\ wire # <<>> => 1..Min({Len(wire), BufRoom}) \subseteq 0..Len(wire)
           /\ Reads \subseteq 0..Len(wire)
  <1>1. /\ Len(wire) \in Int /\ Len(wire) >= 0 /\ Room \in Int /\ BufRoom \in Int
    BY SshAssumption DEF Types, Room
  <1>2. /\ Min({Len(wire), BufRoom}) \in Int /\ Min({Len(wire), BufRoom}) <= Len(wire)
        /\ Min({Len(wire), Room}) \in Int /\ Min({Len(wire), Room}) <= Len(wire)
    BY <1>1, MinOfTwo
  <1> DEFINE a == Min({Len(wire), BufRoom})
             b == Min({Len(wire), Room})
  <1>3. 1..a \subseteq 0..Len(wire) /\ 1..b \subseteq 0..Len(wire) /\ {0} \subseteq 0..Len(wire)
    <2> HIDE DEF a, b
    <2> QED  BY <1>1, <1>2 DEF a, b
  <1> QED
    BY <1>3 DEF Reads

LEMMA FilledType ==
    ASSUME Types, NEW k \in Reads
    PROVE  /\ Filled(k) \in Seq(Piece) /\ Rest(wire, k) \in Seq(Piece)
           /\ Filled(k) \o Rest(wire, k) = Stream
  <1>1. k \in 0..Len(wire)
    BY ReadsOnWire
  <1>2. buf \in Seq(Piece) /\ wire \in Seq(Piece)
    BY DEF Types
  <1> QED
    BY <1>1, <1>2, Moved, RestOf DEF Filled, Stream

LEMMA TakesTypes ==
    ASSUME Types, NEW m, Takes(m)
    PROVE  buf' \in Seq(Piece) /\ recvSeq' \in Nat /\ Front \in Packet
  <1>1. AfterOf(buf) \in Seq(Piece) /\ Front \in Packet
    BY AfterType DEF Types, Takes, Whole, Front
  <1> QED
    BY <1>1 DEF Takes, Consume, Types

\* The messages the client sends before the shell.
ClientMessages ==
    {"IDENT", "KEXINIT", "KEXDH_INIT", "NEWKEYS", "SERVICE_REQUEST", "USERAUTH_REQUEST",
     "CHANNEL_OPEN", "REQUEST_FAILURE"}

LEMMA OneOf ==
    ASSUME NEW m \in ClientMessages
    PROVE  <<Msg(m)>> \in Seq(Message) /\ Len(<<Msg(m)>>) = 1 /\ <<Msg(m)>>[1] = Msg(m)
           /\ Msg(m) \in Message
  BY MsgType, OneMessage DEF ClientMessages, Messages

LEMMA NoneOf == <<>> \in Seq(Message) /\ Len(<<>>) = 0
  OBVIOUS

LEMMA ClientKeepsTypes == ASSUME Types, Client \/ User PROVE Types'
  <1>0. /\ buf \in Seq(Piece) /\ wire \in Seq(Piece) /\ up \in Seq(Packet)
        /\ sendSeq \in Nat /\ recvSeq \in Nat /\ remote \in Nat
        /\ encrypted \in BOOLEAN /\ eof \in BOOLEAN /\ shown \in Seq(Nat) /\ srv \in Peer
    BY DEF Types
  <1> USE DEF vars, client, control, keys, channel
  <1>1. CASE Fetch
    <2>1. PICK k \in 1..Min({Len(wire), BufRoom}) :
              buf' = buf \o FirstN(wire, k) /\ wire' = Rest(wire, k)
      BY <1>1 DEF Fetch
    <2>2. k \in 0..Len(wire)
      BY <1>1, ReadsOnWire DEF Fetch
    <2>3. buf' \in Seq(Piece) /\ wire' \in Seq(Piece)
      BY <2>1, <2>2, <1>0, Moved, RestOf
    <2> QED
      BY <1>1, <2>3, <1>0 DEF Fetch, Types
  <1>2. CASE GiveUp \/ Refuse \/ Closed \/ KeysRead
    BY <1>2, <1>0 DEF GiveUp, Refuse, Closed, KeysRead, Types
  <1>3. CASE ReadIdentification
    <2>1. buf' \in Seq(Piece)
      BY <1>3, <1>0, AfterType DEF ReadIdentification, Whole
    <2>2. up' \in Seq(Packet) /\ sendSeq' \in Nat
      <3> DEFINE a == Sealed(<<Msg("IDENT")>>, 0, FALSE)
                 b == Sealed(<<Msg("KEXINIT")>>, sendSeq, FALSE)
      <3>1. "IDENT" \in ClientMessages /\ "KEXINIT" \in ClientMessages /\ 0 \in Nat
            /\ FALSE \in BOOLEAN
        BY DEF ClientMessages
      <3>2. a \in Seq(Packet) /\ b \in Seq(Packet)
        BY <3>1, <1>0, OneOf, SealedWith
      <3>3. \/ up' = up /\ sendSeq' = sendSeq
            \/ up' = a \o b /\ sendSeq' = sendSeq + 1
        BY <1>3, Zenon DEF ReadIdentification
      <3> HIDE DEF a, b
      <3>4. a \o b \in Seq(Packet)
        BY <3>2, Joined
      <3>5. sendSeq + 1 \in Nat
        BY <1>0
      <3> QED
        BY <3>3, <3>4, <3>5, <1>0, Zenon
    <2> QED
      BY <1>3, <2>1, <2>2, <1>0 DEF ReadIdentification, Types
  <1>4. CASE Skip
    <2>1. buf' \in Seq(Piece) /\ recvSeq' \in Nat
      BY <1>4, <1>0, AfterType DEF Skip, Whole, Consume
    <2> DEFINE q == IF Front.p.m = "KEEPALIVE" THEN <<Msg("REQUEST_FAILURE")>> ELSE <<>>
    <2>2. q \in Seq(Message)
      BY OneOf, NoneOf DEF ClientMessages
    <2>3. Sends(q) /\ encrypted' \in BOOLEAN
      BY <1>4, <1>0 DEF Skip
    <2> HIDE DEF q
    <2>4. up' \in Seq(Packet) /\ sendSeq' \in Nat
      BY <2>2, <2>3, SendsTypes
    <2> QED
      BY <1>4, <2>1, <2>4, <1>0 DEF Skip, Types
  <1>5. CASE GotKexinit \/ GotKexdhReply \/ GotNewkeys \/ GotServiceAccept \/ GotUserauth
    <2>1. buf' \in Seq(Piece) /\ recvSeq' \in Nat /\ encrypted' \in BOOLEAN
          /\ UNCHANGED <<channel, wire, srv>>
      BY <1>5, <1>0, TakesTypes DEF GotKexinit, GotKexdhReply, GotNewkeys,
         GotServiceAccept, GotUserauth
    <2>2. \/ \E m \in ClientMessages : \E next : Proceed(next, <<Msg(m)>>)
          \/ \E next : Proceed(next, <<>>)
          \/ UNCHANGED <<sendSeq, up>>
      BY <1>5 DEF GotKexinit, GotKexdhReply, GotNewkeys, GotServiceAccept, GotUserauth,
         Unwanted, ClientMessages
    <2>3. up' \in Seq(Packet) /\ sendSeq' \in Nat
      BY <2>1, <2>2, <1>0, OneOf, NoneOf, ProceedTypes
    <2> QED
      BY <2>1, <2>3, <1>0 DEF Types
  <1>6. CASE GotChannel
    <2>1. buf' \in Seq(Piece) /\ recvSeq' \in Nat /\ encrypted' \in BOOLEAN
          /\ Front \in Packet /\ UNCHANGED <<eof, shown, wire, srv>>
      BY <1>6, <1>0, TakesTypes DEF GotChannel
    <2>2. Front.p.ch \in Nat
      BY <2>1 DEF Packet, Message
    <2>3. \/ remote' = Front.p.ch /\ Proceed("keys", Opening(Front.p.ch))
          \/ UNCHANGED <<remote, sendSeq, up>>
      BY <1>6 DEF GotChannel, Unwanted
    <2>4. up' \in Seq(Packet) /\ sendSeq' \in Nat /\ remote' \in Nat
      BY <2>1, <2>2, <2>3, <1>0, OpeningType, ProceedTypes
    <2> QED
      BY <2>1, <2>4, <1>0 DEF Types
  <1>7. CASE Drain
    <2>1. PICK k \in Reads : \/ DrainPart(k) \/ DrainRefuse(k) \/ DrainOutput(k)
                             \/ DrainEnd(k) \/ DrainOther(k)
      BY <1>7 DEF Drain
    <2>2. Filled(k) \in Seq(Piece) /\ wire' \in Seq(Piece)
      BY <2>1, FilledType DEF DrainPart, DrainRefuse, DrainOutput, DrainEnd, DrainOther,
         Drains, Polls
    <2>3. CASE DrainPart(k) \/ DrainRefuse(k)
      BY <2>2, <2>3, <1>0 DEF DrainPart, DrainRefuse, Types
    <2>4. ASSUME NEW msgs, Drains(k, msgs)
          PROVE  /\ buf' \in Seq(Piece) /\ recvSeq' \in Nat /\ Drained(k).n \in Nat
                 /\ UNCHANGED <<encrypted, remote, eof, srv>>
      <3>1. AfterOf(Filled(k)) \in Seq(Piece) /\ FrontOf(Filled(k)) \in Packet
        BY <2>2, <2>4, AfterType DEF Drains
      <3>2. Drained(k).n \in Nat
        BY <3>1 DEF Packet, Message, Drained
      <3> QED
        BY <2>4, <3>1, <3>2, <1>0 DEF Drains
    <2>5. CASE DrainEnd(k) \/ DrainOther(k)
      BY <2>2, <2>4, <2>5, <1>0 DEF DrainEnd, DrainOther, Types
    <2>6. CASE DrainOutput(k)
      <3>1. /\ buf' \in Seq(Piece) /\ recvSeq' \in Nat /\ Drained(k).n \in Nat
            /\ UNCHANGED <<encrypted, remote, eof, srv>>
        BY <2>4, <2>6 DEF DrainOutput
      <3>2. \/ UNCHANGED <<sendSeq, shown, up>>
            \/ /\ shown' = Append(shown, Drained(k).n)
               /\ Proceed("drain", <<OnChannel("WINDOW_ADJUST", remote, 1)>>)
        BY <2>6 DEF DrainOutput
      <3>3. <<OnChannel("WINDOW_ADJUST", remote, 1)>> \in Seq(Message)
        BY <1>0, OnChannelType, OneMessage DEF Messages
      <3>4. Append(shown, Drained(k).n) \in Seq(Nat)
        BY <3>1, <1>0
      <3>5. shown' \in Seq(Nat) /\ up' \in Seq(Packet) /\ sendSeq' \in Nat
        BY <3>1, <3>2, <3>3, <3>4, <1>0, ProceedTypes
      <3> QED
        BY <2>2, <3>1, <3>5, <1>0 DEF Types
    <2> QED
      BY <2>1, <2>3, <2>5, <2>6
  <1>8. CASE Password
    <2>1. /\ encrypted' \in BOOLEAN /\ UNCHANGED <<recvSeq, encrypted, channel, buf, wire, srv>>
          /\ \E m \in ClientMessages : \E next : Proceed(next, <<Msg(m)>>)
             \/ UNCHANGED <<sendSeq, up>>
      BY <1>8, <1>0 DEF Password, Unwanted, ClientMessages
    <2>2. up' \in Seq(Packet) /\ sendSeq' \in Nat
      BY <2>1, <1>0, OneOf, ProceedTypes
    <2> QED
      BY <2>1, <2>2, <1>0 DEF Types
  <1>9. CASE Key
    <2>1. /\ encrypted' \in BOOLEAN /\ eof' \in BOOLEAN
          /\ UNCHANGED <<encrypted, recvSeq, remote, shown, buf, wire, srv>>
          /\ \E m \in {"DATA", "EOF"} : \E next : Proceed(next, <<OnChannel(m, remote, 0)>>)
      BY <1>9, <1>0 DEF Key
    <2>2. \A m \in {"DATA", "EOF"} : <<OnChannel(m, remote, 0)>> \in Seq(Message)
      BY <1>0, OnChannelType, OneMessage DEF Messages
    <2>3. up' \in Seq(Packet) /\ sendSeq' \in Nat
      BY <2>1, <2>2, ProceedTypes
    <2> QED
      BY <2>1, <2>3, <1>0 DEF Types
  <1> QED
    BY <1>1, <1>2, <1>3, <1>4, <1>5, <1>6, <1>7, <1>8, <1>9 DEF Client, User

LEMMA StepKeepsTypes == ASSUME Types, [Next]_vars PROVE Types'
  <1>1. CASE UNCHANGED vars
    BY <1>1 DEF Types, vars, client, control, keys, channel
  <1> QED
    BY <1>1, ClientKeepsTypes, ServerKeepsTypes DEF Next

LEMMA TypesInit == Init => Types
  <1> SUFFICES ASSUME Init PROVE Types
    OBVIOUS
  <1>1. srv \in Peer
    BY DEF Init, Peer, Phases, NoChannel
  <1>2. /\ buf \in Seq(Piece) /\ wire \in Seq(Piece) /\ up \in Seq(Packet)
        /\ shown \in Seq(Nat)
    BY DEF Init
  <1>3. /\ sendSeq \in Nat /\ recvSeq \in Nat /\ remote \in Nat
        /\ encrypted \in BOOLEAN /\ eof \in BOOLEAN
    BY DEF Init, NoChannel
  <1> QED
    BY <1>1, <1>2, <1>3 DEF Types

----------------------------------------------------------------------------
(* How the packets that come change.                                       *)

LEMMA JoinedTwice ==
    ASSUME NEW S, NEW a \in Seq(S), NEW b \in Seq(S), NEW c \in Seq(S)
    PROVE  a \o (b \o c) = (a \o b) \o c
  OBVIOUS

LEMMA StreamType == ASSUME Types PROVE Stream \in Seq(Piece)
  BY Joined DEF Types, Stream

LEMMA StreamTypeNext == ASSUME Types' PROVE Stream' \in Seq(Piece)
  BY Joined DEF Types, Stream

LEMMA NewFrame ==
    ASSUME Types', NEW l, NEW P \in Seq(Packet), Framed(Stream', l, P),
           Len(P) = Flying', Numbered(P, recvSeq')
    PROVE  FrameInv' /\ Lead' = l /\ Coming' = P
  <1>1. l = Len(Stream') - 2 * Len(P) /\ LastOf(Stream', Len(P)) = P
    BY Unframe, StreamTypeNext
  <1>2. Lead' = l /\ Coming' = P
    BY <1>1 DEF Lead, Coming
  <1>3. Flying' \in Nat
    <2>1. Len(P) \in Nat
      OBVIOUS
    <2> QED
      BY <2>1
  <1> QED
    BY <1>2, <1>3 DEF FrameInv

LEMMA Stays ==
    ASSUME Types', FrameInv, Stream' = Stream, recvSeq' = recvSeq,
           srv'.sendSeq = srv.sendSeq
    PROVE  FrameInv' /\ Lead' = Lead /\ Coming' = Coming
  <1>1. Flying' = Flying
    BY DEF Flying
  <1> QED
    BY <1>1, NewFrame DEF FrameInv

\* The text in front of the packets is what it was.
SameText == \A k \in 1..Lead : Stream'[k] = Stream[k]

LEMMA Arrives ==
    ASSUME Types, Types', FrameInv, NEW Q \in Seq(Packet), Numbered(Q, srv.sendSeq),
           wire' = wire \o Pieces(Q), buf' = buf, recvSeq' = recvSeq,
           srv'.sendSeq = srv.sendSeq + Len(Q)
    PROVE  FrameInv' /\ Lead' = Lead /\ Coming' = Coming \o Q /\ SameText
  <1> DEFINE t == Pieces(Q)
             P == Coming \o Q
  <1>1. t \in Seq(Piece)
    BY InPieces
  <1> HIDE DEF t
  <1>2. Stream' = Stream \o t
    <2>1. Stream' = buf \o (wire \o t)
      BY DEF Stream, t
    <2>2. buf \in Seq(Piece) /\ wire \in Seq(Piece)
      BY DEF Types
    <2>3. buf \o (wire \o t) = (buf \o wire) \o t
      BY <2>2, <1>1, JoinedTwice
    <2> QED
      BY <2>1, <2>3 DEF Stream
  <1>3. Coming \in Seq(Packet) /\ Len(Coming) = Flying /\ Flying \in Nat
        /\ Framed(Stream, Lead, Coming) /\ Numbered(Coming, recvSeq)
    BY DEF FrameInv
  <1>4. Framed(Stream', Lead, P)
    BY <1>2, <1>3, StreamType, Grown DEF t
  <1>5. /\ P \in Seq(Packet) /\ Len(P) = Flying + Len(Q)
        /\ \A i \in 1..Flying : P[i] = Coming[i]
        /\ \A i \in (Flying + 1)..(Flying + Len(Q)) : P[i] = Q[i - Flying]
    <2>1. /\ P \in Seq(Packet) /\ Len(P) = Len(Coming) + Len(Q)
          /\ \A i \in 1..Len(Coming) : P[i] = Coming[i]
          /\ \A i \in (Len(Coming) + 1)..(Len(Coming) + Len(Q)) : P[i] = Q[i - Len(Coming)]
      BY <1>3, Joined
    <2>2. Len(Coming) = Flying
      BY <1>3
    <2> QED
      BY <2>1, <2>2
  <1> HIDE DEF P
  <1>6. srv.sendSeq \in Nat /\ recvSeq \in Nat /\ Len(Q) \in Nat
    BY DEF Types, Peer
  <1>7. Flying' = Len(P) /\ srv.sendSeq = recvSeq + Flying
    BY <1>5, <1>6 DEF Flying
  <1>8. ASSUME NEW i \in 1..Len(P)
        PROVE  P[i].seq = recvSeq + i - 1 /\ P[i].p.m \notin {"IDENT", "LINE"}
    <2>1. CASE i <= Flying
      <3>1. i \in 1..Len(Coming) /\ P[i] = Coming[i]
        BY <1>3, <1>5, <2>1
      <3> QED  BY <3>1, <1>3 DEF Numbered
    <2>2. CASE i > Flying
      <3>1. i - Flying \in 1..Len(Q) /\ P[i] = Q[i - Flying]
        BY <1>3, <1>5, <1>6, <2>2
      <3>2. Q[i - Flying].seq = srv.sendSeq + (i - Flying) - 1
            /\ Q[i - Flying].p.m \notin {"IDENT", "LINE"}
        BY <3>1 DEF Numbered
      <3> QED  BY <3>1, <3>2, <1>3, <1>6, <1>7
    <2>3. i <= Flying \/ i > Flying
      BY <1>3
    <2> QED  BY <2>1, <2>2, <2>3, Zenon
  <1>9. Numbered(P, recvSeq')
    BY <1>8 DEF Numbered
  <1>10. SameText
    <2>1. /\ Stream \in Seq(Piece) /\ Lead \in Nat /\ Len(Stream) = Lead + 2 * Len(Coming)
          /\ Len(Coming) \in Nat
      BY <1>3, StreamType DEF Framed
    <2>2. \A k \in 1..Len(Stream) : (Stream \o t)[k] = Stream[k]
      BY <2>1, <1>1, Joined
    <2>3. \A k \in 1..Lead : k \in 1..Len(Stream)
      BY <2>1
    <2> QED
      BY <1>2, <2>2, <2>3 DEF SameText
  <1> QED
    BY <1>4, <1>5, <1>7, <1>9, <1>10, NewFrame DEF P

LEMMA Taken ==
    ASSUME Types, Types', FrameInv, Lead = 0, Stream # <<>>, Stream' = Rest(Stream, 2),
           recvSeq' = recvSeq + 1, srv'.sendSeq = srv.sendSeq
    PROVE  /\ FrameInv' /\ Lead' = 0 /\ Coming' = Tail(Coming)
  <1>1. Coming \in Seq(Packet) /\ Len(Coming) = Flying /\ Flying \in Nat
        /\ Framed(Stream, 0, Coming) /\ Numbered(Coming, recvSeq)
    BY DEF FrameInv
  <1>2. Framed(Stream', 0, Tail(Coming)) /\ Len(Coming) >= 1
    BY <1>1, StreamType, PacketOff
  <1>3. Coming # <<>>
    BY <1>2
  <1> DEFINE P == Tail(Coming)
  <1>4. /\ P \in Seq(Packet) /\ Len(P) = Len(Coming) - 1
        /\ \A i \in 1..(Len(Coming) - 1) : P[i] = Coming[i + 1]
    BY <1>1, <1>3, HeadAndTail
  <1> HIDE DEF P
  <1>5. recvSeq \in Nat /\ srv.sendSeq \in Nat
    BY DEF Types, Peer
  <1>6. Len(P) = Flying'
    BY <1>1, <1>4, <1>5 DEF Flying
  <1>7. ASSUME NEW i \in 1..Len(P)
        PROVE  P[i].seq = recvSeq' + i - 1 /\ P[i].p.m \notin {"IDENT", "LINE"}
    <2>1. i + 1 \in 1..Len(Coming) /\ P[i] = Coming[i + 1]
      BY <1>1, <1>4
    <2>2. Coming[i + 1].seq = recvSeq + (i + 1) - 1
          /\ Coming[i + 1].p.m \notin {"IDENT", "LINE"}
      BY <2>1, <1>1 DEF Numbered
    <2> QED  BY <2>1, <2>2, <1>5
  <1>8. Numbered(P, recvSeq')
    BY <1>7 DEF Numbered
  <1> QED
    BY <1>2, <1>4, <1>6, <1>8, NewFrame DEF P

\* Without text before it, what is in front is the first packet that comes.
LEMMA PacketInFront ==
    ASSUME Types, FrameInv, Lead = 0, NEW b \in Seq(Piece), NEW w \in Seq(Piece),
           b \o w = Stream, WholeIn(b)
    PROVE  /\ Stream # <<>> /\ Coming # <<>> /\ b[1].last = FALSE
           /\ FrontOf(b) = Coming[1] /\ AfterOf(b) \o w = Rest(Stream, 2)
  <1>1. Len(b) >= 1 /\ Len(b) \in Nat /\ b # <<>>
    BY HeadAndTail DEF WholeIn
  <1>2. Stream # <<>> /\ Stream[1] = b[1]
    <2>1. /\ Stream \in Seq(Piece) /\ Len(Stream) = Len(b) + Len(w)
          /\ \A i \in 1..Len(b) : Stream[i] = b[i]
      BY Joined
    <2>2. Len(w) \in Nat /\ 1 \in 1..Len(b)
      BY <1>1
    <2>3. Len(Stream) # 0
      BY <1>1, <2>1, <2>2
    <2> QED
      BY <2>1, <2>2, <2>3
  <1>3. /\ Coming \in Seq(Packet) /\ Len(Coming) >= 1
        /\ Stream[1] = [pkt |-> Coming[1], last |-> FALSE]
    BY <1>2, StreamType, PacketOff DEF FrameInv
  <1>4. b[1].last = FALSE /\ b[1].pkt = Coming[1]
    BY <1>2, <1>3
  <1>5. 2 \in 0..Len(b)
    BY <1>1, <1>4 DEF WholeIn
  <1>6. AfterOf(b) \o w = Rest(Stream, 2)
    BY <1>4, <1>5, RestBefore DEF AfterOf
  <1>7. Coming # <<>>
    BY <1>3
  <1> QED
    BY <1>2, <1>4, <1>6, <1>7 DEF FrontOf

LEMMA TextInFront ==
    ASSUME Types, FrameInv, Lead # 0, NEW b \in Seq(Piece), NEW w \in Seq(Piece),
           b \o w = Stream, WholeIn(b)
    PROVE  /\ b[1].last = TRUE /\ FrontOf(b) = Stream[1].pkt
           /\ AfterOf(b) \o w = Rest(Stream, 1)
  <1>1. Len(b) >= 1 /\ Len(b) \in Nat
    BY HeadAndTail DEF WholeIn
  <1>2. Stream[1] = b[1]
    <2>1. /\ \A i \in 1..Len(b) : Stream[i] = b[i]
      BY Joined
    <2>2. 1 \in 1..Len(b)
      BY <1>1
    <2> QED
      BY <2>1, <2>2
  <1>3. Stream[1].last = TRUE
    BY StreamType, LineOff DEF FrameInv
  <1>4. 1 \in 0..Len(b)
    BY <1>1
  <1>5. AfterOf(b) \o w = Rest(Stream, 1)
    <2>1. Rest(b, 1) \o w = Rest(Stream, 1)
      BY <1>4, RestBefore
    <2>2. AfterOf(b) = Rest(b, 1)
      BY <1>2, <1>3, Zenon DEF AfterOf
    <2> QED  BY <2>1, <2>2
  <1> QED
    BY <1>2, <1>3, <1>5 DEF FrontOf

LEMMA ClientTakes ==
    ASSUME Types, Types', FrameInv, Lead = 0, Whole, Consume, wire' = wire, srv' = srv
    PROVE  /\ FrameInv' /\ Lead' = 0 /\ Coming' = Tail(Coming)
           /\ Coming # <<>> /\ Front = Coming[1] /\ buf[1].last = FALSE
  <1>1. buf \in Seq(Piece) /\ wire \in Seq(Piece) /\ buf \o wire = Stream
    BY DEF Types, Stream
  <1>2. /\ Stream # <<>> /\ Coming # <<>> /\ buf[1].last = FALSE
        /\ FrontOf(buf) = Coming[1] /\ AfterOf(buf) \o wire = Rest(Stream, 2)
    BY <1>1, PacketInFront DEF Whole
  <1>3. Stream' = Rest(Stream, 2) /\ recvSeq' = recvSeq + 1
    BY <1>2 DEF Consume, Stream
  <1> QED
    BY <1>2, <1>3, Taken DEF Front

LEMMA DrainTakes ==
    ASSUME Types, Types', FrameInv, Lead = 0, NEW k \in Reads, NEW msgs, Drains(k, msgs)
    PROVE  /\ FrameInv' /\ Lead' = 0 /\ Coming' = Tail(Coming)
           /\ Coming # <<>> /\ Drained(k) = Coming[1].p /\ Coming[1].p.m \in msgs
  <1>1. /\ Filled(k) \in Seq(Piece) /\ Rest(wire, k) \in Seq(Piece)
        /\ Filled(k) \o Rest(wire, k) = Stream
    BY FilledType
  <1>2. /\ WholeIn(Filled(k)) /\ wire' = Rest(wire, k) /\ buf' = AfterOf(Filled(k))
        /\ recvSeq' = recvSeq + 1 /\ srv' = srv /\ Drained(k).m \in msgs
    BY DEF Drains, Polls, Drained
  <1>3. /\ Stream # <<>> /\ Coming # <<>> /\ FrontOf(Filled(k)) = Coming[1]
        /\ AfterOf(Filled(k)) \o Rest(wire, k) = Rest(Stream, 2)
    BY <1>1, <1>2, PacketInFront
  <1>4. Stream' = Rest(Stream, 2)
    BY <1>2, <1>3 DEF Stream
  <1> QED
    BY <1>2, <1>3, <1>4, Taken DEF Drained

LEMMA FetchStays ==
    ASSUME Types, Types', FrameInv, Fetch
    PROVE  FrameInv' /\ Lead' = Lead /\ Coming' = Coming /\ Stream' = Stream
  <1>1. PICK k \in 1..Min({Len(wire), BufRoom}) :
            buf' = buf \o FirstN(wire, k) /\ wire' = Rest(wire, k)
    BY DEF Fetch
  <1>2. k \in 0..Len(wire)
    BY ReadsOnWire DEF Fetch
  <1>3. Stream' = Stream
    <2>1. buf \in Seq(Piece) /\ wire \in Seq(Piece)
      BY DEF Types
    <2>2. (buf \o FirstN(wire, k)) \o Rest(wire, k) = buf \o wire
      BY <1>2, <2>1, Moved
    <2> QED
      BY <1>1, <2>2 DEF Stream
  <1> QED
    BY <1>3, Stays DEF Fetch, keys

LEMMA DrainPartStays ==
    ASSUME Types, Types', FrameInv, NEW k \in Reads, DrainPart(k)
    PROVE  FrameInv' /\ Lead' = Lead /\ Coming' = Coming
  <1>1. Stream' = Stream
    BY FilledType DEF DrainPart, Polls, Stream
  <1> QED
    BY <1>1, Stays DEF DrainPart, keys

\* Packets the server sends.
LEMMA DownArrives ==
    ASSUME Types, Types', FrameInv, NEW s \in Peer, NEW msgs \in Seq(Message),
           s.sendSeq = srv.sendSeq, Down(s, msgs), buf' = buf, recvSeq' = recvSeq,
           \A i \in 1..Len(msgs) : msgs[i].m \notin {"IDENT", "LINE"}
    PROVE  /\ FrameInv' /\ Lead' = Lead /\ SameText
           /\ Sealed(msgs, srv.sendSeq, s.sendEnc) \in Seq(Packet)
           /\ Coming' = Coming \o Sealed(msgs, srv.sendSeq, s.sendEnc)
           /\ srv' = [s EXCEPT !.sendSeq = srv.sendSeq + Len(msgs)]
  <1> DEFINE Q == Sealed(msgs, srv.sendSeq, s.sendEnc)
  <1>1. srv.sendSeq \in Nat /\ s.sendEnc \in BOOLEAN
    BY DEF Types, Peer
  <1>2. /\ Q \in Seq(Packet) /\ Len(Q) = Len(msgs)
        /\ \A i \in 1..Len(msgs) :
               Q[i] = [p |-> msgs[i], seq |-> srv.sendSeq + i - 1, enc |-> s.sendEnc]
    BY <1>1, SealedWith
  <1> HIDE DEF Q
  <1>3. Numbered(Q, srv.sendSeq)
    <2>1. ASSUME NEW k \in 1..Len(Q)
          PROVE  Q[k].seq = srv.sendSeq + k - 1 /\ Q[k].p.m \notin {"IDENT", "LINE"}
      <3>1. k \in 1..Len(msgs)
            /\ Q[k] = [p |-> msgs[k], seq |-> srv.sendSeq + k - 1, enc |-> s.sendEnc]
        BY <1>2
      <3>2. Q[k].seq = srv.sendSeq + k - 1 /\ Q[k].p = msgs[k]
        BY <3>1
      <3> QED
        BY <3>1, <3>2
    <2> QED
      BY <2>1 DEF Numbered
  <1>4. wire' = wire \o Pieces(Q) /\ srv' = [s EXCEPT !.sendSeq = srv.sendSeq + Len(msgs)]
    BY DEF Down, Q
  <1>5. srv'.sendSeq = srv.sendSeq + Len(Q)
    BY <1>2, <1>4 DEF Peer
  <1> QED
    BY <1>2, <1>3, <1>4, <1>5, Arrives DEF Q

----------------------------------------------------------------------------
(* What the server sends of its own accord.                                *)

Calm == {"IGNORE", "BANNER", "DISCONNECT"}
Idle == Calm \cup {"GLOBAL_REQUEST", "KEEPALIVE"}
Output == {"DATA", "EXTENDED_DATA"}
Ends == {"EOF", "CLOSE"}

Only(P, A) == \A i \in 1..Len(P) : P[i].p.m \in A
SealedAs(P, e) == \A i \in 1..Len(P) : P[i].enc = e

\* The packets Q arrive, sealed with the server's keys.
Adds(Q) ==
    /\ FrameInv' /\ Lead' = Lead /\ SameText
    /\ Coming' = Coming \o Q /\ SealedAs(Q, srv.sendEnc)

SameServer ==
    /\ srv'.recvSeq = srv.recvSeq /\ srv'.sendEnc = srv.sendEnc
    /\ srv'.recvEnc = srv.recvEnc /\ srv'.ch = srv.ch /\ srv'.eof = srv.eof
    /\ srv'.err = srv.err
SameOutput == srv'.credit = srv.credit /\ srv'.sent = srv.sent

SendsHello ==
    /\ srv.phase = "ident" /\ srv'.phase = "kex" /\ SameOutput
    /\ \E Q \in Seq(Packet) : Adds(Q) /\ Len(Q) = 1 /\ Q[1].p.m = "KEXINIT"
SendsNoise ==
    /\ srv'.phase = srv.phase /\ srv.phase \notin {"start", "ident"} /\ SameOutput
    /\ \E Q \in Seq(Packet) :
          Adds(Q) /\ Only(Q, IF srv.phase \in {"authed", "channel", "shell"} THEN Idle ELSE Calm)
SendsRekey ==
    /\ srv.phase = "shell" /\ srv'.phase = "rekey" /\ SameOutput
    /\ \E Q \in Seq(Packet) : Adds(Q) /\ Len(Q) = 1 /\ Q[1].p.m = "KEXINIT"
SendsOutput ==
    /\ srv.phase = "shell" /\ srv'.phase = "shell"
    /\ srv'.credit = srv.credit - 1 /\ srv'.sent = srv.sent + 1
    /\ \E Q \in Seq(Packet) :
          Adds(Q) /\ Len(Q) = 1 /\ Q[1].p.m \in Output
          /\ Q[1].p.ch = LocalChannel /\ Q[1].p.n = srv.sent + 1
SendsEnd ==
    /\ srv.phase = "shell" /\ srv'.phase = "over" /\ SameOutput
    /\ \E Q \in Seq(Packet) : Adds(Q) /\ Only(Q, {"EXIT_STATUS", "EOF", "CLOSE"})

LEMMA DownAdds ==
    ASSUME Types, Types', FrameInv, NEW s \in Peer, NEW msgs \in Seq(Message),
           s.sendSeq = srv.sendSeq, s.sendEnc = srv.sendEnc, Down(s, msgs),
           buf' = buf, recvSeq' = recvSeq,
           \A i \in 1..Len(msgs) : msgs[i].m \notin {"IDENT", "LINE"}
    PROVE  /\ srv' = [s EXCEPT !.sendSeq = srv.sendSeq + Len(msgs)]
           /\ \E Q \in Seq(Packet) :
                 /\ Adds(Q) /\ Len(Q) = Len(msgs)
                 /\ \A i \in 1..Len(msgs) : Q[i].p = msgs[i]
  <1> DEFINE Q == Sealed(msgs, srv.sendSeq, s.sendEnc)
  <1>1. /\ FrameInv' /\ Lead' = Lead /\ Q \in Seq(Packet) /\ Coming' = Coming \o Q
        /\ srv' = [s EXCEPT !.sendSeq = srv.sendSeq + Len(msgs)] /\ SameText
    BY DownArrives
  <1>2. srv.sendSeq \in Nat /\ s.sendEnc \in BOOLEAN
    BY DEF Types, Peer
  <1>3. /\ Len(Q) = Len(msgs)
        /\ \A i \in 1..Len(msgs) :
               Q[i] = [p |-> msgs[i], seq |-> srv.sendSeq + i - 1, enc |-> s.sendEnc]
    BY <1>2, SealedWith
  <1> HIDE DEF Q
  <1>4. ASSUME NEW i \in 1..Len(msgs)
        PROVE  Q[i].p = msgs[i] /\ Q[i].enc = srv.sendEnc
    <2>1. Q[i] = [p |-> msgs[i], seq |-> srv.sendSeq + i - 1, enc |-> s.sendEnc]
      BY <1>3
    <2> QED  BY <2>1
  <1>5. Adds(Q)
    BY <1>1, <1>3, <1>4 DEF Adds, SealedAs
  <1> QED
    BY <1>1, <1>3, <1>4, <1>5

LEMMA ServerSends ==
    ASSUME Types, Types', FrameInv, Server, ~SrvRead, srv.phase # "start"
    PROVE  /\ SameServer /\ UNCHANGED <<client, up>>
           /\ \/ SendsHello \/ SendsNoise \/ SendsRekey \/ SendsOutput \/ SendsEnd
              \/ srv'.phase = srv.phase /\ SameOutput /\ Adds(<<>>)
  <1>0. srv \in Peer
    BY DEF Types
  <1>1. srv.noise \in Nat /\ srv.sent \in Nat /\ srv.credit \in Nat /\ RoundtripPkts \in Nat
    BY <1>0, SshAssumption DEF Peer
  <1>2. CASE SrvKexinit
    <2> DEFINE s == [srv EXCEPT !.phase = "kex"]
    <2>1. s \in Peer
      BY <1>0 DEF Peer, Phases
    <2>2. <<Msg("KEXINIT")>> \in Seq(Message) /\ Len(<<Msg("KEXINIT")>>) = 1
          /\ <<Msg("KEXINIT")>>[1] = Msg("KEXINIT") /\ Msg("KEXINIT").m = "KEXINIT"
      BY OneOf DEF ClientMessages, Msg
    <2>3. Down(s, <<Msg("KEXINIT")>>) /\ srv.phase = "ident" /\ UNCHANGED <<client, up>>
      BY <1>2 DEF SrvKexinit
    <2>4. s.sendSeq = srv.sendSeq /\ s.sendEnc = srv.sendEnc
      BY <1>0 DEF Peer
    <2>5. buf' = buf /\ recvSeq' = recvSeq
      BY <2>3 DEF client, keys
    <2> DEFINE q == <<Msg("KEXINIT")>>
    <2> HIDE DEF s, q
    <2>6. /\ srv' = [s EXCEPT !.sendSeq = srv.sendSeq + Len(q)]
          /\ \E Q \in Seq(Packet) : /\ Adds(Q) /\ Len(Q) = Len(q)
                                    /\ \A i \in 1..Len(q) : Q[i].p = q[i]
      <3>1. /\ q \in Seq(Message) /\ Down(s, q)
            /\ \A i \in 1..Len(q) : q[i].m \notin {"IDENT", "LINE"}
        BY <2>2, <2>3 DEF q
      <3> QED  BY <3>1, <2>1, <2>4, <2>5, DownAdds
    <2>7. \E Q \in Seq(Packet) : Adds(Q) /\ Len(Q) = 1 /\ Q[1].p.m = "KEXINIT"
      BY <2>2, <2>6 DEF q
    <2>8. SameServer /\ SameOutput /\ srv'.phase = "kex"
      BY <2>6, <1>0 DEF SameServer, SameOutput, Peer, s
    <2> QED
      BY <2>3, <2>7, <2>8 DEF SendsHello
  <1>3. ASSUME NEW m \in Noise, NEW k \in 1..RoundtripPkts, NEW big \in BOOLEAN,
               SrvNoise(m, k, big)
        PROVE  /\ SameServer /\ UNCHANGED <<client, up>>
               /\ SendsNoise \/ SendsRekey
    <2> DEFINE q == [i \in 1..k |-> [Msg(m) EXCEPT !.big = big]]
               s == [srv EXCEPT !.noise = srv.noise + 1,
                                !.phase = IF m = "KEXINIT" THEN "rekey" ELSE @]
    <2>1. m \in Messages /\ k \in Nat /\ m \notin {"IDENT", "LINE"}
      BY <1>1 DEF Noise, Messages
    <2>2. q \in Seq(Message) /\ Len(q) = k /\ \A i \in 1..k : q[i].m = m
      <3> HIDE DEF q
      <3> QED  BY <2>1, NoiseOf DEF q
    <2>3. s \in Peer
      <3>1. \A n \in Nat : [srv EXCEPT !.noise = n, !.phase = IF m = "KEXINIT" THEN "rekey" ELSE @] \in Peer
        BY <1>0 DEF Peer, Phases
      <3>2. srv.noise + 1 \in Nat
        BY <1>1
      <3> QED  BY <3>1, <3>2, Zenon
    <2>4. /\ Down(s, q) /\ UNCHANGED <<client, up>> /\ srv.phase \notin {"start", "ident"}
          /\ m \in {"GLOBAL_REQUEST", "KEEPALIVE"} =>
                srv.phase \in {"authed", "channel", "shell"}
          /\ m = "KEXINIT" => srv.phase = "shell" /\ k = 1
      BY <1>3 DEF SrvNoise
    <2>5. s.sendSeq = srv.sendSeq /\ s.sendEnc = srv.sendEnc
          /\ s.phase = IF m = "KEXINIT" THEN "rekey" ELSE srv.phase
      BY <1>0 DEF Peer
    <2>6. buf' = buf /\ recvSeq' = recvSeq
      BY <2>4 DEF client, keys
    <2> HIDE DEF q
    <2>7. SameServer /\ SameOutput /\ srv'.phase = s.phase
      <3>1. srv' = [s EXCEPT !.sendSeq = s.sendSeq + Len(q)]
        BY <2>4 DEF Down
      <3> QED
        BY <3>1, <1>0 DEF SameServer, SameOutput, Peer
    <2> HIDE DEF s
    <2>8. PICK Q \in Seq(Packet) : /\ Adds(Q) /\ Len(Q) = Len(q)
                                   /\ \A i \in 1..Len(q) : Q[i].p = q[i]
      BY <2>1, <2>2, <2>3, <2>4, <2>5, <2>6, DownAdds
    <2>9. CASE m = "KEXINIT"
      BY <2>2, <2>4, <2>5, <2>7, <2>8, <2>9 DEF SendsRekey
    <2>10. CASE m # "KEXINIT"
      <3>1. m \in IF srv.phase \in {"authed", "channel", "shell"} THEN Idle ELSE Calm
        BY <2>4, <2>10 DEF Noise, Idle, Calm
      <3> DEFINE A == IF srv.phase \in {"authed", "channel", "shell"} THEN Idle ELSE Calm
      <3> HIDE DEF A
      <3>2. Only(Q, A)
        BY <2>2, <2>8, <3>1 DEF Only, A
      <3> QED
        BY <2>4, <2>5, <2>7, <2>8, <2>10, <3>2 DEF SendsNoise, A
    <2> QED
      BY <2>4, <2>7, <2>9, <2>10
  <1>4. ASSUME NEW m \in {"DATA", "EXTENDED_DATA"}, NEW big \in BOOLEAN, SrvData(m, big)
        PROVE  SameServer /\ UNCHANGED <<client, up>> /\ SendsOutput
    <2> DEFINE x == [OnChannel(m, LocalChannel, srv.sent + 1) EXCEPT !.big = big]
               s == [srv EXCEPT !.credit = srv.credit - 1, !.sent = srv.sent + 1]
    <2>1. m \in Messages /\ srv.sent + 1 \in Nat /\ srv.credit - 1 \in Nat
      BY <1>1, <1>4 DEF Messages, SrvData
    <2>2. x \in Message /\ x.m = m /\ x.ch = LocalChannel /\ x.n = srv.sent + 1
      <3> DEFINE n == srv.sent + 1
      <3>1. n \in Nat /\ x = [OnChannel(m, LocalChannel, n) EXCEPT !.big = big]
        BY <2>1
      <3> HIDE DEF x, n
      <3>2. x \in Message
        BY <2>1, <3>1, OutputType
      <3>3. x.m = m /\ x.ch = LocalChannel /\ x.n = n
        BY <3>1 DEF OnChannel
      <3> QED  BY <3>2, <3>3 DEF n
    <2>3. s \in Peer
      <3>1. \A n, l \in Nat : [srv EXCEPT !.credit = n, !.sent = l] \in Peer
        BY <1>0 DEF Peer
      <3> QED  BY <2>1, <3>1, Zenon
    <2>4. Down(s, <<x>>) /\ srv.phase = "shell" /\ UNCHANGED <<client, up>>
      BY <1>4 DEF SrvData
    <2>5. s.sendSeq = srv.sendSeq /\ s.sendEnc = srv.sendEnc
      BY <1>0 DEF Peer
    <2>6. buf' = buf /\ recvSeq' = recvSeq
      BY <2>4 DEF client, keys
    <2> HIDE DEF x
    <2>7. /\ SameServer /\ srv'.phase = "shell"
          /\ srv'.credit = srv.credit - 1 /\ srv'.sent = srv.sent + 1
      <3>1. srv' = [s EXCEPT !.sendSeq = s.sendSeq + Len(<<x>>)]
        BY <2>4 DEF Down
      <3> QED
        BY <3>1, <2>4, <1>0 DEF SameServer, Peer
    <2> HIDE DEF s
    <2> DEFINE q == <<x>>
    <2>8. q \in Seq(Message) /\ Len(q) = 1 /\ q[1] = x
      BY <2>2, OneMessage
    <2> HIDE DEF q
    <2>9. \A i \in 1..Len(q) : q[i].m \notin {"IDENT", "LINE"}
      BY <2>2, <2>8
    <2>10. PICK Q \in Seq(Packet) : /\ Adds(Q) /\ Len(Q) = Len(q)
                                    /\ \A i \in 1..Len(q) : Q[i].p = q[i]
      BY <2>3, <2>4, <2>5, <2>6, <2>8, <2>9, DownAdds DEF q
    <2>11. Len(Q) = 1 /\ Q[1].p = x
      BY <2>8, <2>10
    <2> QED
      BY <2>2, <2>4, <2>7, <2>10, <2>11 DEF SendsOutput, Output
  <1>5. CASE SrvFinish
    <2> DEFINE q == <<OnChannel("EXIT_STATUS", LocalChannel, 0),
                      OnChannel("EOF", LocalChannel, 0), OnChannel("CLOSE", LocalChannel, 0)>>
               s == [srv EXCEPT !.phase = "over"]
    <2>1. Down(s, q) /\ srv.phase = "shell" /\ UNCHANGED <<client, up>>
      BY <1>5 DEF SrvFinish
    <2> HIDE DEF q
    <2>2. /\ q \in Seq(Message) /\ Len(q) = 3
          /\ q[1].m = "EXIT_STATUS" /\ q[2].m = "EOF" /\ q[3].m = "CLOSE"
      BY FinalOf DEF q
    <2>3. s \in Peer /\ s.sendSeq = srv.sendSeq /\ s.sendEnc = srv.sendEnc
      BY <1>0 DEF Peer, Phases
    <2>4. \A i \in 1..Len(q) : q[i].m \in {"EXIT_STATUS", "EOF", "CLOSE"}
      <3>1. \A i \in 1..3 : i = 1 \/ i = 2 \/ i = 3
        OBVIOUS
      <3> QED  BY <2>2, <3>1
    <2>5. buf' = buf /\ recvSeq' = recvSeq
      BY <2>1 DEF client, keys
    <2>6. SameServer /\ SameOutput /\ srv'.phase = "over"
      <3>1. srv' = [s EXCEPT !.sendSeq = s.sendSeq + Len(q)]
        BY <2>1 DEF Down
      <3> QED
        BY <3>1, <1>0 DEF SameServer, SameOutput, Peer
    <2> HIDE DEF s
    <2>7. PICK Q \in Seq(Packet) : /\ Adds(Q) /\ Len(Q) = Len(q)
                                   /\ \A i \in 1..Len(q) : Q[i].p = q[i]
      BY <2>1, <2>2, <2>3, <2>4, <2>5, DownAdds
    <2>8. Only(Q, {"EXIT_STATUS", "EOF", "CLOSE"})
      BY <2>4, <2>7 DEF Only
    <2> QED
      BY <2>1, <2>6, <2>7, <2>8 DEF SendsEnd
  <1>6. CASE SrvDisconnect
    <2> DEFINE s == [srv EXCEPT !.closed = TRUE]
               q == <<Msg("DISCONNECT")>>
    <2>1. Down(s, q) /\ srv.phase \notin {"start", "ident"} /\ UNCHANGED <<client, up>>
      BY <1>6 DEF SrvDisconnect
    <2>2. s \in Peer /\ s.sendSeq = srv.sendSeq /\ s.sendEnc = srv.sendEnc
      BY <1>0 DEF Peer
    <2>3. q \in Seq(Message) /\ Len(q) = 1 /\ q[1].m = "DISCONNECT"
      <3>1. Msg("DISCONNECT") \in Message
        BY MsgType DEF Messages
      <3> QED  BY <3>1, OneMessage DEF Msg
    <2>4. buf' = buf /\ recvSeq' = recvSeq
      BY <2>1 DEF client, keys
    <2> HIDE DEF q
    <2>5. SameServer /\ SameOutput /\ srv'.phase = srv.phase
      <3>1. srv' = [s EXCEPT !.sendSeq = s.sendSeq + Len(q)]
        BY <2>1 DEF Down
      <3> QED
        BY <3>1, <1>0 DEF SameServer, SameOutput, Peer
    <2> HIDE DEF s
    <2>6. \A i \in 1..Len(q) : q[i].m = "DISCONNECT"
      BY <2>3
    <2>7. PICK Q \in Seq(Packet) : /\ Adds(Q) /\ Len(Q) = Len(q)
                                   /\ \A i \in 1..Len(q) : Q[i].p = q[i]
      BY <2>1, <2>2, <2>3, <2>4, <2>6, DownAdds
    <2>8. Only(Q, Calm) /\ Only(Q, Idle)
      BY <2>6, <2>7 DEF Only, Calm, Idle
    <2> QED
      BY <2>1, <2>5, <2>7, <2>8 DEF SendsNoise
  <1>7. CASE SrvClose
    <2>1. srv' = [srv EXCEPT !.closed = TRUE] /\ UNCHANGED <<client, up, wire>>
      BY <1>7 DEF SrvClose
    <2>2. SameServer /\ SameOutput /\ srv'.phase = srv.phase /\ srv'.sendSeq = srv.sendSeq
      BY <2>1, <1>0 DEF SameServer, SameOutput, Peer
    <2>3. Stream' = Stream /\ recvSeq' = recvSeq
      BY <2>1 DEF client, keys, Stream
    <2>4. FrameInv' /\ Lead' = Lead /\ Coming' = Coming
      BY <2>2, <2>3, Stays
    <2>5. Coming \o <<>> = Coming
      BY DEF FrameInv
    <2> QED
      BY <2>1, <2>2, <2>3, <2>4, <2>5 DEF Adds, SealedAs, SameText
  <1>8. CASE \E m, k : SrvLines(m, k)
    BY <1>8 DEF SrvLines
  <1> QED
    BY <1>2, <1>3, <1>4, <1>5, <1>6, <1>7, <1>8 DEF Server

----------------------------------------------------------------------------
(* What the server does with what it reads.                                *)

\* The front packet is the one the server counts next and expects.
Expected ==
    up[1].p.m # "IDENT" => /\ up[1].seq = srv.recvSeq /\ up[1].enc = srv.recvEnc
                           /\ Admits(up[1].p)

Answers(m) == \E Q \in Seq(Packet) : Adds(Q) /\ Len(Q) = 1 /\ Q[1].p.m = m

GivesKeys ==
    /\ up[1].p.m = "KEXDH_INIT"
    /\ srv'.phase = srv.phase /\ srv'.ch = srv.ch /\ SameOutput
    /\ FrameInv' /\ Lead' = Lead
    /\ \E Q \in Seq(Packet) :
          /\ Coming' = Coming \o Q /\ SealedAs(Q, FALSE) /\ Len(Q) = 2
          /\ Q[1].p.m = "KEXDH_REPLY" /\ Q[2].p.m = "NEWKEYS"
GivesService ==
    /\ up[1].p.m = "SERVICE_REQUEST"
    /\ srv'.phase = "auth" /\ srv'.ch = srv.ch /\ SameOutput
    /\ Answers("SERVICE_ACCEPT")
GivesLogin ==
    /\ up[1].p.m = "USERAUTH_REQUEST" /\ srv'.ch = srv.ch /\ SameOutput
    /\ \/ srv'.phase = srv.phase /\ Answers("USERAUTH_FAILURE")
       \/ srv'.phase = "authed" /\ Answers("USERAUTH_SUCCESS")
GivesChannel ==
    /\ up[1].p.m = "CHANNEL_OPEN" /\ srv'.sent = srv.sent
    /\ \/ /\ srv'.phase = srv.phase /\ srv'.ch = srv.ch /\ srv'.credit = srv.credit
          /\ Answers("CHANNEL_OPEN_FAILURE")
       \/ /\ srv'.phase = "channel" /\ srv'.credit = Window
          /\ \E Q \in Seq(Packet) :
                /\ Adds(Q) /\ Len(Q) = 1 /\ Q[1].p.m = "CHANNEL_OPEN_CONFIRMATION"
                /\ Q[1].p.ch = srv'.ch
GivesNothing ==
    /\ up[1].p.m \in {"KEXINIT", "NEWKEYS", "WINDOW_ADJUST", "PTY", "SHELL", "DATA", "EOF",
                      "REQUEST_FAILURE"}
    /\ srv'.phase = IF up[1].p.m = "SHELL" /\ srv.phase = "channel" THEN "shell"
                    ELSE srv.phase
    /\ srv'.credit = srv.credit + IF up[1].p.m = "WINDOW_ADJUST" THEN up[1].p.n ELSE 0
    /\ srv'.sent = srv.sent /\ srv'.ch = srv.ch
    /\ FrameInv' /\ Lead' = Lead /\ Coming' = Coming

Gives == GivesKeys \/ GivesService \/ GivesLogin \/ GivesChannel \/ GivesNothing

ReadsIdent ==
    /\ up[1].p.m = "IDENT" /\ srv' = srv
    /\ FrameInv' /\ Lead' = Lead /\ Coming' = Coming
ReadsPacket ==
    /\ up[1].p.m # "IDENT" /\ srv.phase # "ident"
    /\ srv'.recvSeq = srv.recvSeq + 1 /\ srv'.err = srv.err
    /\ srv'.sendEnc = (srv.sendEnc \/ up[1].p.m = "KEXDH_INIT")
    /\ srv'.recvEnc = (srv.recvEnc \/ up[1].p.m = "NEWKEYS")
    /\ srv'.eof = (srv.eof \/ up[1].p.m = "EOF")
    /\ Gives

LEMMA AnswersOne ==
    ASSUME Types, Types', FrameInv, NEW s \in Peer, NEW x \in Message,
           s.sendSeq = srv.sendSeq, s.sendEnc = srv.sendEnc, Down(s, <<x>>),
           buf' = buf, recvSeq' = recvSeq, x.m \notin {"IDENT", "LINE"}
    PROVE  /\ srv' = [s EXCEPT !.sendSeq = srv.sendSeq + 1]
           /\ \E Q \in Seq(Packet) : Adds(Q) /\ Len(Q) = 1 /\ Q[1].p = x
  <1> DEFINE q == <<x>>
  <1>1. q \in Seq(Message) /\ Len(q) = 1 /\ q[1] = x
    BY OneMessage
  <1> HIDE DEF q
  <1>2. \A i \in 1..Len(q) : q[i].m \notin {"IDENT", "LINE"}
    BY <1>1
  <1>3. /\ srv' = [s EXCEPT !.sendSeq = srv.sendSeq + Len(q)]
        /\ \E Q \in Seq(Packet) : /\ Adds(Q) /\ Len(Q) = Len(q)
                                  /\ \A i \in 1..Len(q) : Q[i].p = q[i]
    BY <1>1, <1>2, DownAdds DEF q
  <1> QED
    BY <1>1, <1>3

LEMMA NoneArrives ==
    ASSUME Types, Types', FrameInv, buf' = buf, wire' = wire, recvSeq' = recvSeq,
           srv'.sendSeq = srv.sendSeq
    PROVE  FrameInv' /\ Lead' = Lead /\ Coming' = Coming
  <1>1. Stream' = Stream
    BY DEF Stream
  <1> QED
    BY <1>1, Stays

LEMMA ServerReads ==
    ASSUME Types, Types', FrameInv, SrvRead, Expected
    PROVE  /\ up # <<>> /\ up' = Tail(up) /\ UNCHANGED client /\ srv.phase # "start"
           /\ ReadsIdent \/ ReadsPacket
  <1> DEFINE pkt == up[1]
             p == pkt.p
             s == [srv EXCEPT !.recvSeq = srv.recvSeq + 1]
             Two == <<Msg("KEXDH_REPLY"), Msg("NEWKEYS")>>
  <1>1. /\ srv \in Peer /\ up \in Seq(Packet) /\ up # <<>> /\ Head(up) = pkt
        /\ pkt \in Packet /\ up' = Tail(up) /\ UNCHANGED client /\ srv.phase # "start"
        /\ p.m # "IDENT" => srv.phase # "ident"
    <2>1. up \in Seq(Packet) /\ up # <<>> /\ srv \in Peer
      BY DEF Types, SrvRead
    <2>2. Head(up) = pkt /\ pkt \in Packet
      BY <2>1, HeadAndTail
    <2> HIDE DEF pkt, p
    <2> QED
      BY <2>1, <2>2 DEF SrvRead, p
  <1>2. p \in Message /\ p.m \in Messages /\ p.n \in Nat
    <2> HIDE DEF pkt
    <2> QED  BY <1>1 DEF Packet, Message
  <1>3. buf' = buf /\ recvSeq' = recvSeq
    BY <1>1 DEF client, keys
  <1>4. /\ s \in Peer /\ s.sendSeq = srv.sendSeq /\ s.recvSeq = srv.recvSeq + 1
        /\ s.sendEnc = srv.sendEnc /\ s.recvEnc = srv.recvEnc /\ s.eof = srv.eof
        /\ s.err = srv.err /\ s.phase = srv.phase /\ s.ch = srv.ch
        /\ s.credit = srv.credit /\ s.sent = srv.sent
    <2>1. srv.recvSeq + 1 \in Nat
      BY <1>1 DEF Peer
    <2>2. \A n \in Nat : [srv EXCEPT !.recvSeq = n] \in Peer
      BY <1>1 DEF Peer
    <2>3. s \in Peer
      BY <2>1, <2>2, Zenon
    <2> QED
      BY <1>1, <2>3 DEF Peer
  <1> HIDE DEF pkt, p, s, Two
  <1>5. ASSUME p.m # "IDENT"
        PROVE  \/ p.m = "KEXDH_INIT" /\
                     /\ wire' = wire \o Pieces(Sealed(Two, s.sendSeq, FALSE))
                     /\ srv' = [s EXCEPT !.sendSeq = s.sendSeq + 2, !.sendEnc = TRUE]
               \/ p.m = "NEWKEYS" /\ srv' = [s EXCEPT !.recvEnc = TRUE] /\ wire' = wire
               \/ /\ p.m = "SERVICE_REQUEST"
                  /\ Down([s EXCEPT !.phase = "auth"], <<Msg("SERVICE_ACCEPT")>>)
               \/ p.m = "USERAUTH_REQUEST" /\ Down(s, <<Msg("USERAUTH_FAILURE")>>)
               \/ /\ p.m = "USERAUTH_REQUEST"
                  /\ Down([s EXCEPT !.phase = "authed"], <<Msg("USERAUTH_SUCCESS")>>)
               \/ p.m = "CHANNEL_OPEN" /\ Down(s, <<Msg("CHANNEL_OPEN_FAILURE")>>)
               \/ /\ p.m = "CHANNEL_OPEN"
                  /\ \E c \in ServerChannels :
                        Down([s EXCEPT !.phase = "channel", !.ch = c, !.credit = Window],
                             <<OnChannel("CHANNEL_OPEN_CONFIRMATION", c, 0)>>)
               \/ /\ p.m = "WINDOW_ADJUST" /\ wire' = wire
                  /\ srv' = [s EXCEPT !.credit = s.credit + p.n]
               \/ /\ p.m = "SHELL" /\ wire' = wire
                  /\ srv' = [s EXCEPT !.phase = IF s.phase = "channel" THEN "shell" ELSE s.phase]
               \/ p.m = "EOF" /\ srv' = [s EXCEPT !.eof = TRUE] /\ wire' = wire
               \/ /\ p.m \in {"KEXINIT", "PTY", "DATA", "REQUEST_FAILURE"}
                  /\ srv' = s /\ wire' = wire
    <2>1. pkt.seq = srv.recvSeq /\ pkt.enc = srv.recvEnc /\ Admits(p)
      BY <1>5 DEF Expected, pkt, p
    <2> QED
      BY <1>1, <1>5, <2>1, ZenonT(60) DEF SrvRead, p, s, Two
  <1>6. CASE p.m = "IDENT"
    <2>1. srv' = srv /\ wire' = wire
      BY <1>1, <1>6 DEF SrvRead, p
    <2>2. FrameInv' /\ Lead' = Lead /\ Coming' = Coming
      BY <2>1, <1>3, NoneArrives
    <2> QED
      BY <1>1, <1>6, <2>1, <2>2 DEF ReadsIdent, p, pkt
  <1>7. ASSUME p.m # "IDENT", wire' = wire,
               \/ p.m = "NEWKEYS" /\ srv' = [s EXCEPT !.recvEnc = TRUE]
               \/ p.m = "WINDOW_ADJUST" /\ srv' = [s EXCEPT !.credit = s.credit + p.n]
               \/ /\ p.m = "SHELL"
                  /\ srv' = [s EXCEPT !.phase = IF s.phase = "channel" THEN "shell" ELSE s.phase]
               \/ p.m = "EOF" /\ srv' = [s EXCEPT !.eof = TRUE]
               \/ p.m \in {"KEXINIT", "PTY", "DATA", "REQUEST_FAILURE"} /\ srv' = s
        PROVE  ReadsPacket
    <2>1. /\ srv'.sendSeq = srv.sendSeq /\ srv'.recvSeq = srv.recvSeq + 1
          /\ srv'.err = srv.err /\ srv'.sendEnc = srv.sendEnc
          /\ srv'.ch = srv.ch /\ srv'.sent = srv.sent
      BY <1>4, <1>7 DEF Peer
    <2>2. /\ srv'.recvEnc = (srv.recvEnc \/ p.m = "NEWKEYS")
          /\ srv'.eof = (srv.eof \/ p.m = "EOF")
      BY <1>4, <1>7 DEF Peer
    <2>3. /\ srv'.phase = IF p.m = "SHELL" /\ srv.phase = "channel" THEN "shell" ELSE srv.phase
          /\ srv'.credit = srv.credit + IF p.m = "WINDOW_ADJUST" THEN p.n ELSE 0
      BY <1>4, <1>7 DEF Peer
    <2>4. FrameInv' /\ Lead' = Lead /\ Coming' = Coming
      BY <2>1, <1>3, <1>7, NoneArrives
    <2>5. GivesNothing
      BY <1>7, <2>1, <2>3, <2>4 DEF GivesNothing, p, pkt
    <2>6. srv'.sendEnc = (srv.sendEnc \/ p.m = "KEXDH_INIT")
      BY <1>1, <1>7, <2>1 DEF Peer
    <2> QED
      BY <1>1, <1>7, <2>1, <2>2, <2>5, <2>6 DEF ReadsPacket, Gives, p, pkt
  <1>8. CASE /\ p.m = "KEXDH_INIT"
             /\ wire' = wire \o Pieces(Sealed(Two, s.sendSeq, FALSE))
             /\ srv' = [s EXCEPT !.sendSeq = s.sendSeq + 2, !.sendEnc = TRUE]
    <2> DEFINE Q == Sealed(Two, srv.sendSeq, FALSE)
    <2>1. /\ Two \in Seq(Message) /\ Len(Two) = 2
          /\ Two[1].m = "KEXDH_REPLY" /\ Two[2].m = "NEWKEYS"
      <3>1. Msg("KEXDH_REPLY") \in Message /\ Msg("NEWKEYS") \in Message
        BY MsgType DEF Messages
      <3>2. Msg("KEXDH_REPLY").m = "KEXDH_REPLY" /\ Msg("NEWKEYS").m = "NEWKEYS"
        BY DEF Msg
      <3> QED  BY <3>1, <3>2 DEF Two
    <2>2. srv.sendSeq \in Nat /\ FALSE \in BOOLEAN
      BY <1>1 DEF Peer
    <2>3. /\ Q \in Seq(Packet) /\ Len(Q) = 2
          /\ \A i \in 1..2 : Q[i] = [p |-> Two[i], seq |-> srv.sendSeq + i - 1, enc |-> FALSE]
      BY <2>1, <2>2, SealedWith
    <2> HIDE DEF Q
    <2>4. /\ Q[1].p.m = "KEXDH_REPLY" /\ Q[2].p.m = "NEWKEYS"
          /\ Q[1].enc = FALSE /\ Q[2].enc = FALSE
          /\ Q[1].seq = srv.sendSeq + 1 - 1 /\ Q[2].seq = srv.sendSeq + 2 - 1
      <3>1. 1 \in 1..2 /\ 2 \in 1..2
        OBVIOUS
      <3> QED  BY <2>1, <2>3, <3>1
    <2>5. \A i \in 1..Len(Q) : i = 1 \/ i = 2
      BY <2>3
    <2>6. SealedAs(Q, FALSE) /\ Numbered(Q, srv.sendSeq)
      BY <2>4, <2>5 DEF SealedAs, Numbered
    <2>7. /\ srv'.sendSeq = srv.sendSeq + Len(Q) /\ srv'.recvSeq = srv.recvSeq + 1
          /\ srv'.err = srv.err /\ srv'.sendEnc = TRUE /\ srv'.recvEnc = srv.recvEnc
          /\ srv'.eof = srv.eof /\ srv'.phase = srv.phase /\ srv'.ch = srv.ch /\ SameOutput
      BY <1>4, <1>8, <2>3 DEF Peer, SameOutput
    <2>8. FrameInv' /\ Lead' = Lead /\ Coming' = Coming \o Q
      BY <1>3, <1>4, <1>8, <2>3, <2>6, <2>7, Arrives DEF Q
    <2>9. GivesKeys
      BY <1>8, <2>3, <2>4, <2>6, <2>7, <2>8 DEF GivesKeys, p, pkt
    <2>10. srv.recvEnc \in BOOLEAN /\ srv.eof \in BOOLEAN
      BY <1>1 DEF Peer
    <2>11. /\ srv'.sendEnc = (srv.sendEnc \/ p.m = "KEXDH_INIT")
           /\ srv'.recvEnc = (srv.recvEnc \/ p.m = "NEWKEYS")
           /\ srv'.eof = (srv.eof \/ p.m = "EOF")
      BY <1>8, <2>7, <2>10
    <2> QED
      BY <1>1, <1>8, <2>7, <2>9, <2>11 DEF ReadsPacket, Gives, p, pkt
  <1>9. ASSUME NEW ph \in Phases, NEW c \in Nat, NEW n \in Nat, NEW x \in Message,
               p.m \notin {"IDENT", "KEXDH_INIT", "NEWKEYS", "EOF"},
               x.m \notin {"IDENT", "LINE"},
               Down([s EXCEPT !.phase = ph, !.ch = c, !.credit = n], <<x>>)
        PROVE  /\ srv'.phase = ph /\ srv'.ch = c /\ srv'.credit = n /\ srv'.sent = srv.sent
               /\ \E Q \in Seq(Packet) : Adds(Q) /\ Len(Q) = 1 /\ Q[1].p = x
               /\ Gives => ReadsPacket
    <2> DEFINE t == [s EXCEPT !.phase = ph, !.ch = c, !.credit = n]
    <2>1. /\ t \in Peer /\ t.sendSeq = srv.sendSeq /\ t.sendEnc = srv.sendEnc
          /\ t.recvSeq = srv.recvSeq + 1 /\ t.recvEnc = srv.recvEnc /\ t.eof = srv.eof
          /\ t.err = srv.err /\ t.sent = srv.sent
          /\ t.phase = ph /\ t.ch = c /\ t.credit = n
      BY <1>4, <1>9 DEF Peer
    <2>0. Down(t, <<x>>)
      BY <1>9
    <2> HIDE DEF t
    <2>2. /\ srv' = [t EXCEPT !.sendSeq = srv.sendSeq + 1]
          /\ \E Q \in Seq(Packet) : Adds(Q) /\ Len(Q) = 1 /\ Q[1].p = x
      BY <1>3, <1>9, <2>0, <2>1, AnswersOne
    <2>3. /\ srv'.recvSeq = srv.recvSeq + 1 /\ srv'.err = srv.err
          /\ srv'.sendEnc = srv.sendEnc /\ srv'.recvEnc = srv.recvEnc /\ srv'.eof = srv.eof
          /\ srv'.phase = ph /\ srv'.ch = c /\ srv'.credit = n /\ srv'.sent = srv.sent
      BY <2>1, <2>2 DEF Peer
    <2>4. srv.recvEnc \in BOOLEAN /\ srv.eof \in BOOLEAN /\ srv.sendEnc \in BOOLEAN
      BY <1>1 DEF Peer
    <2>5. /\ srv'.sendEnc = (srv.sendEnc \/ p.m = "KEXDH_INIT")
          /\ srv'.recvEnc = (srv.recvEnc \/ p.m = "NEWKEYS")
          /\ srv'.eof = (srv.eof \/ p.m = "EOF")
      BY <1>9, <2>3, <2>4
    <2> QED
      BY <1>1, <1>9, <2>2, <2>3, <2>5 DEF ReadsPacket, p, pkt
  <1>10. /\ \A m \in Messages : Msg(m) \in Message /\ Msg(m).m = m
         /\ {"SERVICE_ACCEPT", "USERAUTH_FAILURE", "USERAUTH_SUCCESS",
             "CHANNEL_OPEN_FAILURE", "CHANNEL_OPEN_CONFIRMATION"} \subseteq Messages
    BY MsgType DEF Msg, Messages
  <1>11. srv.phase \in Phases /\ srv.ch \in Nat /\ srv.credit \in Nat /\ Window \in Nat
    BY <1>1, SshAssumption DEF Peer
  <1>12. ASSUME NEW ph \in Phases
         PROVE  [s EXCEPT !.phase = ph]
                    = [s EXCEPT !.phase = ph, !.ch = srv.ch, !.credit = srv.credit]
    BY <1>4 DEF Peer
  <1>14. {"auth", "authed", "channel"} \subseteq Phases
    BY DEF Phases
  <1>19. ASSUME NEW ph \in Phases, NEW m \in Messages,
                p.m \notin {"IDENT", "KEXDH_INIT", "NEWKEYS", "EOF"},
                m \notin {"IDENT", "LINE"}, Down([s EXCEPT !.phase = ph], <<Msg(m)>>)
         PROVE  /\ srv'.phase = ph /\ srv'.ch = srv.ch /\ SameOutput /\ Answers(m)
                /\ Gives => ReadsPacket
    <2> DEFINE x == Msg(m)
    <2>1. x \in Message /\ x.m = m
      BY <1>10
    <2> HIDE DEF x
    <2>2. Down([s EXCEPT !.phase = ph, !.ch = srv.ch, !.credit = srv.credit], <<x>>)
      BY <1>12, <1>19, Zenon DEF x
    <2>3. /\ srv'.phase = ph /\ srv'.ch = srv.ch /\ srv'.credit = srv.credit
          /\ srv'.sent = srv.sent
          /\ \E Q \in Seq(Packet) : Adds(Q) /\ Len(Q) = 1 /\ Q[1].p = x
          /\ Gives => ReadsPacket
      <3>1. x.m \notin {"IDENT", "LINE"}
        BY <1>19, <2>1
      <3> QED
        <4> DEFINE h == srv.ch
                   e == srv.credit
        <4>1. p.m \notin {"IDENT", "KEXDH_INIT", "NEWKEYS", "EOF"}
          BY <1>19
        <4>2. /\ h \in Nat /\ e \in Nat /\ x \in Message
              /\ Down([s EXCEPT !.phase = ph, !.ch = h, !.credit = e], <<x>>)
          BY <1>11, <2>1, <2>2
        <4> HIDE DEF h, e
        <4>3. /\ srv'.phase = ph /\ srv'.ch = h /\ srv'.credit = e /\ srv'.sent = srv.sent
              /\ \E Q \in Seq(Packet) : Adds(Q) /\ Len(Q) = 1 /\ Q[1].p = x
              /\ Gives => ReadsPacket
          BY <1>9, <3>1, <4>1, <4>2, Zenon
        <4> QED
          BY <4>3 DEF h, e
    <2> QED
      BY <2>1, <2>3 DEF SameOutput, Answers
  <1>20. s = [s EXCEPT !.phase = srv.phase]
    BY <1>4 DEF Peer
  <1>15. CASE /\ p.m = "SERVICE_REQUEST"
              /\ Down([s EXCEPT !.phase = "auth"], <<Msg("SERVICE_ACCEPT")>>)
    <2>1. /\ srv'.phase = "auth" /\ srv'.ch = srv.ch /\ SameOutput /\ Answers("SERVICE_ACCEPT")
          /\ Gives => ReadsPacket
      BY <1>10, <1>14, <1>15, <1>19
    <2> QED
      BY <1>1, <1>15, <2>1 DEF Gives, GivesService, p, pkt
  <1>16. CASE /\ p.m = "USERAUTH_REQUEST"
              /\ \/ Down(s, <<Msg("USERAUTH_FAILURE")>>)
                 \/ Down([s EXCEPT !.phase = "authed"], <<Msg("USERAUTH_SUCCESS")>>)
    <2>1. /\ srv'.ch = srv.ch /\ SameOutput
          /\ \/ srv'.phase = srv.phase /\ Answers("USERAUTH_FAILURE")
             \/ srv'.phase = "authed" /\ Answers("USERAUTH_SUCCESS")
          /\ Gives => ReadsPacket
      <3>1. Down([s EXCEPT !.phase = srv.phase], <<Msg("USERAUTH_FAILURE")>>)
            \/ Down([s EXCEPT !.phase = "authed"], <<Msg("USERAUTH_SUCCESS")>>)
        BY <1>16, <1>20, Zenon
      <3> QED
        BY <1>10, <1>11, <1>14, <1>16, <1>19, <3>1
    <2> QED
      BY <1>1, <1>16, <2>1 DEF Gives, GivesLogin, p, pkt
  <1>17. CASE p.m = "CHANNEL_OPEN" /\ Down(s, <<Msg("CHANNEL_OPEN_FAILURE")>>)
    <2>1. /\ srv'.phase = srv.phase /\ srv'.ch = srv.ch /\ SameOutput
          /\ Answers("CHANNEL_OPEN_FAILURE")
          /\ Gives => ReadsPacket
      <3>1. Down([s EXCEPT !.phase = srv.phase], <<Msg("CHANNEL_OPEN_FAILURE")>>)
        BY <1>17, <1>20, Zenon
      <3> QED
        BY <1>10, <1>11, <1>17, <1>19, <3>1
    <2> QED
      BY <1>1, <1>17, <2>1 DEF Gives, GivesChannel, SameOutput, p, pkt
  <1>18. ASSUME p.m = "CHANNEL_OPEN", NEW c \in ServerChannels,
                Down([s EXCEPT !.phase = "channel", !.ch = c, !.credit = Window],
                     <<OnChannel("CHANNEL_OPEN_CONFIRMATION", c, 0)>>)
         PROVE  ReadsPacket
    <2> DEFINE x == OnChannel("CHANNEL_OPEN_CONFIRMATION", c, 0)
    <2>1. c \in Nat
      BY SshAssumption
    <2>2. x \in Message /\ x.m = "CHANNEL_OPEN_CONFIRMATION" /\ x.ch = c
      BY <1>10, <2>1, OnChannelType DEF OnChannel
    <2> HIDE DEF x
    <2>3. /\ srv'.phase = "channel" /\ srv'.ch = c /\ srv'.credit = Window
          /\ srv'.sent = srv.sent
          /\ \E Q \in Seq(Packet) : Adds(Q) /\ Len(Q) = 1 /\ Q[1].p = x
          /\ Gives => ReadsPacket
      <3>1. Down([s EXCEPT !.phase = "channel", !.ch = c, !.credit = Window], <<x>>)
        BY <1>18 DEF x
      <3> QED
        <4>1. /\ x.m \notin {"IDENT", "LINE"} /\ "channel" \in Phases
              /\ p.m \notin {"IDENT", "KEXDH_INIT", "NEWKEYS", "EOF"}
          BY <1>14, <1>18, <2>2
        <4> QED
          BY <1>9, <1>11, <2>1, <2>2, <3>1, <4>1, ZenonT(40)
    <2> QED
      BY <1>18, <2>2, <2>3 DEF Gives, GivesChannel, p, pkt
  <1> QED
    BY <1>1, <1>5, <1>6, <1>7, <1>8, <1>15, <1>16, <1>17, <1>18

----------------------------------------------------------------------------
(* The packets on their way to the server.                                 *)

\* What the client's packet of each number is.
Later == {"USERAUTH_REQUEST", "CHANNEL_OPEN", "REQUEST_FAILURE", "WINDOW_ADJUST", "PTY",
          "SHELL", "DATA", "EOF"}
Due(n) ==
    IF n = 0 THEN {"KEXINIT"} ELSE IF n = 1 THEN {"KEXDH_INIT"}
    ELSE IF n = 2 THEN {"NEWKEYS"} ELSE IF n = 3 THEN {"SERVICE_REQUEST"} ELSE Later
InTurn(x, n) == x.seq = n /\ x.enc = (n >= 3) /\ x.p.m \in Due(n)

\* The client's identification, which has no number.
Named == IF up # <<>> /\ up[1].p.m = "IDENT" THEN 1 ELSE 0

UpInv ==
    /\ sendSeq + Named = srv.recvSeq + Len(up)
    /\ Named = 1 => srv.recvSeq = 0
    /\ \A i \in (Named + 1)..Len(up) : InTurn(up[i], srv.recvSeq + i - 1 - Named)

LEMMA DueIsPacket == ASSUME NEW n, NEW m \in Due(n) PROVE m # "IDENT"
  BY DEF Due, Later

LEMMA FrontInTurn ==
    ASSUME Types, UpInv, up # <<>>
    PROVE  /\ up[1] \in Packet /\ Len(up) >= 1 /\ Len(up) \in Nat
           /\ up[1].p.m = "IDENT" => srv.recvSeq = 0
           /\ up[1].p.m # "IDENT" => /\ Named = 0 /\ InTurn(up[1], srv.recvSeq)
                                     /\ srv.recvSeq < sendSeq
  <1>1. up[1] \in Packet /\ Len(up) >= 1 /\ Len(up) \in Nat
    BY HeadAndTail DEF Types
  <1>2. srv.recvSeq \in Nat /\ sendSeq \in Nat
    BY DEF Types, Peer
  <1>3. CASE up[1].p.m = "IDENT"
    BY <1>1, <1>3 DEF UpInv, Named
  <1>4. CASE up[1].p.m # "IDENT"
    <2>1. Named = 0
      BY <1>4 DEF Named
    <2>2. sendSeq = srv.recvSeq + Len(up) /\ InTurn(up[1], srv.recvSeq + 1 - 1 - 0)
      <3>1. 1 \in (0 + 1)..Len(up)
        BY <1>1
      <3>2. /\ sendSeq + 0 = srv.recvSeq + Len(up)
            /\ \A i \in (0 + 1)..Len(up) : InTurn(up[i], srv.recvSeq + i - 1 - 0)
        BY <2>1 DEF UpInv
      <3> QED  BY <3>1, <3>2, <1>1, <1>2
    <2>3. srv.recvSeq + 1 - 1 - 0 = srv.recvSeq
      BY <1>2
    <2> QED
      BY <1>1, <1>2, <1>4, <2>1, <2>2, <2>3
  <1> QED
    BY <1>1, <1>3, <1>4

LEMMA ReadUp ==
    ASSUME Types, Types', UpInv, up # <<>>, up' = Tail(up), sendSeq' = sendSeq,
           srv'.recvSeq = srv.recvSeq + IF up[1].p.m = "IDENT" THEN 0 ELSE 1
    PROVE  UpInv'
  <1>1. /\ up \in Seq(Packet) /\ srv.recvSeq \in Nat /\ sendSeq \in Nat /\ Named \in {0, 1}
        /\ Len(up) \in Nat /\ Len(up) >= 1 /\ Len(up') = Len(up) - 1
        /\ \A i \in 1..(Len(up) - 1) : up'[i] = up[i + 1]
    <2>1. up \in Seq(Packet) /\ srv.recvSeq \in Nat /\ sendSeq \in Nat
      BY DEF Types, Peer
    <2> QED
      BY <2>1, HeadAndTail DEF Named
  <1>2. srv'.recvSeq = srv.recvSeq + 1 - Named
    BY <1>1 DEF Named
  <1>3. ASSUME NEW i \in 1..Len(up')
        PROVE  InTurn(up'[i], srv'.recvSeq + i - 1)
    <2>1. i + 1 \in (Named + 1)..Len(up) /\ up'[i] = up[i + 1]
      BY <1>1
    <2>2. InTurn(up[i + 1], srv.recvSeq + (i + 1) - 1 - Named)
      BY <2>1 DEF UpInv
    <2>3. srv.recvSeq + (i + 1) - 1 - Named = srv'.recvSeq + i - 1
      BY <1>1, <1>2
    <2> QED
      BY <2>1, <2>2, <2>3
  <1>4. Named' = 0
    <2>1. CASE Len(up') = 0
      <3>0. up' \in Seq(Packet)
        BY DEF Types
      <3>1. up' = <<>>
        BY <2>1, <3>0, EmptyIs
      <3> QED  BY <3>1 DEF Named
    <2>2. CASE Len(up') # 0
      <3>1. 1 \in 1..Len(up')
        BY <1>1, <2>2
      <3>2. up'[1].p.m # "IDENT"
        BY <3>1, <1>3, DueIsPacket DEF InTurn
      <3> QED  BY <3>2 DEF Named
    <2> QED
      BY <2>1, <2>2
  <1>5. sendSeq' + 0 = srv'.recvSeq + Len(up')
    <2>1. sendSeq + Named = srv.recvSeq + Len(up)
      BY DEF UpInv
    <2> DEFINE n == Named
    <2> DEFINE l == Len(up)
               r == srv.recvSeq
               q == srv'.recvSeq
               k == Len(up')
    <2>2. /\ n \in Nat /\ l \in Nat /\ r \in Nat /\ sendSeq \in Nat /\ sendSeq' = sendSeq
          /\ sendSeq + n = r + l /\ q = r + 1 - n /\ k = l - 1
      BY <1>1, <1>2, <2>1
    <2> HIDE DEF n, l, r, q, k
    <2>3. sendSeq' + 0 = q + k
      BY <2>2
    <2> QED
      BY <2>3 DEF q, k
  <1>6. ASSUME NEW i \in (0 + 1)..Len(up') PROVE InTurn(up'[i], srv'.recvSeq + i - 1 - 0)
    <2>1. i \in 1..Len(up') /\ srv'.recvSeq + i - 1 - 0 = srv'.recvSeq + i - 1
      BY <1>1, <1>2
    <2> QED
      BY <2>1, <1>3
  <1> QED
    BY <1>4, <1>5, <1>6 DEF UpInv

LEMMA SendUp ==
    ASSUME Types, Types', UpInv, NEW msgs \in Seq(Message), Sends(msgs),
           srv'.recvSeq = srv.recvSeq,
           \A i \in 1..Len(msgs) : /\ msgs[i].m \in Due(sendSeq + i - 1)
                                   /\ encrypted' = (sendSeq + i - 1 >= 3)
    PROVE  UpInv'
  <1> DEFINE Q == Sealed(msgs, sendSeq, encrypted')
  <1>1. /\ up \in Seq(Packet) /\ srv.recvSeq \in Nat /\ sendSeq \in Nat /\ Named \in {0, 1}
        /\ Len(up) \in Nat /\ Len(msgs) \in Nat /\ encrypted' \in BOOLEAN
    <2>1. up \in Seq(Packet) /\ srv.recvSeq \in Nat /\ sendSeq \in Nat /\ encrypted' \in BOOLEAN
      BY DEF Types, Peer
    <2> QED
      BY <2>1 DEF Named
  <1>2. /\ Q \in Seq(Packet) /\ Len(Q) = Len(msgs)
        /\ \A i \in 1..Len(msgs) :
               Q[i] = [p |-> msgs[i], seq |-> sendSeq + i - 1, enc |-> encrypted']
    BY <1>1, SealedWith
  <1>3. up' = up \o Q /\ sendSeq' = sendSeq + Len(msgs)
    BY DEF Sends
  <1> HIDE DEF Q
  <1>4. ASSUME NEW i \in 1..Len(msgs) PROVE InTurn(Q[i], sendSeq + i - 1)
    <2>1. Q[i] = [p |-> msgs[i], seq |-> sendSeq + i - 1, enc |-> encrypted']
      BY <1>2
    <2>2. msgs[i].m \in Due(sendSeq + i - 1) /\ encrypted' = (sendSeq + i - 1 >= 3)
      OBVIOUS
    <2> QED
      BY <2>1, <2>2 DEF InTurn
  <1>5. /\ Len(up') = Len(up) + Len(msgs)
        /\ \A i \in 1..Len(up) : up'[i] = up[i]
        /\ \A i \in (Len(up) + 1)..(Len(up) + Len(msgs)) : up'[i] = Q[i - Len(up)]
    <2>1. /\ Len(up \o Q) = Len(up) + Len(Q)
          /\ \A i \in 1..Len(up) : (up \o Q)[i] = up[i]
          /\ \A i \in (Len(up) + 1)..(Len(up) + Len(Q)) : (up \o Q)[i] = Q[i - Len(up)]
      <3>1. up \in Seq(Packet) /\ Q \in Seq(Packet)
        BY <1>1, <1>2
      <3> QED  BY <3>1, Joined
    <2> QED
      BY <1>2, <1>3, <2>1
  <1>6. Named' = Named
    <2>1. CASE Len(up) # 0
      <3>1. up # <<>> /\ up' # <<>> /\ up'[1] = up[1]
        <4>1. 1 \in 1..Len(up) /\ Len(up') # 0
          BY <1>1, <1>5, <2>1
        <4> QED  BY <4>1, <1>5
      <3> QED  BY <3>1 DEF Named
    <2>2. CASE Len(up) = 0
      <3>1. up = <<>>
        BY <1>1, <2>2
      <3>2. CASE Len(msgs) = 0
        <4>1. up' = <<>>
          BY <1>1, <1>5, <2>2, <3>2 DEF Types
        <4> QED  BY <3>1, <4>1 DEF Named
      <3>3. CASE Len(msgs) # 0
        <4>1. 1 \in 1..Len(msgs) /\ up'[1] = Q[1]
          BY <1>1, <1>5, <2>2, <3>3
        <4>2. up'[1].p.m # "IDENT"
          BY <4>1, <1>4, DueIsPacket DEF InTurn
        <4> QED  BY <3>1, <4>2 DEF Named
      <3> QED  BY <3>2, <3>3
    <2> QED
      BY <2>1, <2>2
  <1>7. sendSeq + Named = srv.recvSeq + Len(up)
    BY DEF UpInv
  <1>8. ASSUME NEW i \in (Named + 1)..Len(up')
        PROVE  InTurn(up'[i], srv.recvSeq + i - 1 - Named)
    <2>1. CASE i <= Len(up)
      <3>1. i \in 1..Len(up) /\ i \in (Named + 1)..Len(up)
        BY <1>1, <2>1
      <3> QED  BY <3>1, <1>5 DEF UpInv
    <2>2. CASE i > Len(up)
      <3> DEFINE j == i - Len(up)
      <3>1. j \in 1..Len(msgs) /\ up'[i] = Q[j]
        BY <1>1, <1>5, <2>2
      <3>2. sendSeq + j - 1 = srv.recvSeq + i - 1 - Named
        <4> DEFINE n == Named
                   l == Len(up)
                   r == srv.recvSeq
        <4>1. /\ n \in Nat /\ l \in Nat /\ r \in Nat /\ i \in Int /\ sendSeq + n = r + l
              /\ sendSeq \in Nat
          BY <1>1, <1>7
        <4> HIDE DEF n, l, r
        <4>2. sendSeq + (i - l) - 1 = r + i - 1 - n
          BY <4>1
        <4> QED
          BY <4>2 DEF n, l, r
      <3>3. InTurn(Q[j], sendSeq + j - 1)
        BY <3>1, <1>4
      <3> QED
        BY <3>1, <3>2, <3>3
    <2> QED
      BY <1>1, <2>1, <2>2
  <1>9. sendSeq' + Named = srv.recvSeq + Len(up')
    <2> DEFINE n == Named
               l == Len(up)
               r == srv.recvSeq
               k == Len(msgs)
    <2>1. /\ n \in Nat /\ l \in Nat /\ r \in Nat /\ k \in Nat /\ sendSeq + n = r + l
          /\ sendSeq \in Nat /\ sendSeq' = sendSeq + k /\ Len(up') = l + k
      BY <1>1, <1>3, <1>5, <1>7
    <2> HIDE DEF n, l, r, k
    <2>2. sendSeq' + n = r + Len(up')
      BY <2>1
    <2> QED
      BY <2>2 DEF n, r
  <1>10. Named = 1 => srv.recvSeq = 0
    BY DEF UpInv
  <1> QED
    BY <1>6, <1>8, <1>9, <1>10 DEF UpInv

----------------------------------------------------------------------------
(* Packets of which all but one ask for nothing.                           *)

\* m comes, after packets of A and before packets of B.
Awaits(P, m, A, B) ==
    \E j \in 1..Len(P) :
        /\ P[j].p.m = m
        /\ \A i \in 1..(j - 1) : P[i].p.m \in A
        /\ \A i \in (j + 1)..Len(P) : P[i].p.m \in B

LEMMA OnlyJoined ==
    ASSUME NEW P \in Seq(Packet), NEW Q \in Seq(Packet), NEW A, Only(P, A), Only(Q, A)
    PROVE  Only(P \o Q, A)
  <1>1. /\ Len(P \o Q) = Len(P) + Len(Q) /\ Len(P) \in Nat /\ Len(Q) \in Nat
        /\ \A i \in 1..Len(P) : (P \o Q)[i] = P[i]
        /\ \A i \in (Len(P) + 1)..(Len(P) + Len(Q)) : (P \o Q)[i] = Q[i - Len(P)]
    BY Joined
  <1>2. ASSUME NEW i \in 1..Len(P \o Q) PROVE (P \o Q)[i].p.m \in A
    <2>1. CASE i <= Len(P)
      <3>1. i \in 1..Len(P)
        BY <1>1, <2>1
      <3> QED  BY <3>1, <1>1 DEF Only
    <2>2. CASE i > Len(P)
      <3>1. i - Len(P) \in 1..Len(Q) /\ (P \o Q)[i] = Q[i - Len(P)]
        BY <1>1, <2>2
      <3> QED  BY <3>1 DEF Only
    <2> QED
      BY <1>1, <2>1, <2>2
  <1> QED
    BY <1>2 DEF Only

LEMMA SealedJoined ==
    ASSUME NEW P \in Seq(Packet), NEW Q \in Seq(Packet), NEW e,
           SealedAs(P, e), SealedAs(Q, e)
    PROVE  SealedAs(P \o Q, e)
  <1>1. /\ Len(P \o Q) = Len(P) + Len(Q) /\ Len(P) \in Nat /\ Len(Q) \in Nat
        /\ \A i \in 1..Len(P) : (P \o Q)[i] = P[i]
        /\ \A i \in (Len(P) + 1)..(Len(P) + Len(Q)) : (P \o Q)[i] = Q[i - Len(P)]
    BY Joined
  <1>2. ASSUME NEW i \in 1..Len(P \o Q) PROVE (P \o Q)[i].enc = e
    <2>1. CASE i <= Len(P)
      <3>1. i \in 1..Len(P)
        BY <1>1, <2>1
      <3> QED  BY <3>1, <1>1 DEF SealedAs
    <2>2. CASE i > Len(P)
      <3>1. i - Len(P) \in 1..Len(Q) /\ (P \o Q)[i] = Q[i - Len(P)]
        BY <1>1, <2>2
      <3> QED  BY <3>1 DEF SealedAs
    <2> QED
      BY <1>1, <2>1, <2>2
  <1> QED
    BY <1>2 DEF SealedAs

LEMMA AwaitsJoined ==
    ASSUME NEW P \in Seq(Packet), NEW Q \in Seq(Packet), NEW m, NEW A, NEW B,
           Awaits(P, m, A, B), Only(Q, B)
    PROVE  Awaits(P \o Q, m, A, B)
  <1>1. /\ Len(P \o Q) = Len(P) + Len(Q) /\ Len(P) \in Nat /\ Len(Q) \in Nat
        /\ \A i \in 1..Len(P) : (P \o Q)[i] = P[i]
        /\ \A i \in (Len(P) + 1)..(Len(P) + Len(Q)) : (P \o Q)[i] = Q[i - Len(P)]
    BY Joined
  <1>2. PICK j \in 1..Len(P) : /\ P[j].p.m = m
                               /\ \A i \in 1..(j - 1) : P[i].p.m \in A
                               /\ \A i \in (j + 1)..Len(P) : P[i].p.m \in B
    BY DEF Awaits
  <1>3. j \in 1..Len(P \o Q) /\ (P \o Q)[j].p.m = m
    BY <1>1, <1>2
  <1>4. ASSUME NEW i \in 1..(j - 1) PROVE (P \o Q)[i].p.m \in A
    <2>1. i \in 1..Len(P)
      BY <1>1
    <2> QED  BY <2>1, <1>1, <1>2
  <1>5. ASSUME NEW i \in (j + 1)..Len(P \o Q) PROVE (P \o Q)[i].p.m \in B
    <2>1. CASE i <= Len(P)
      <3>1. i \in 1..Len(P) /\ i \in (j + 1)..Len(P)
        BY <1>1, <2>1
      <3> QED  BY <3>1, <1>1, <1>2
    <2>2. CASE i > Len(P)
      <3>1. i - Len(P) \in 1..Len(Q) /\ (P \o Q)[i] = Q[i - Len(P)]
        BY <1>1, <2>2
      <3> QED  BY <3>1 DEF Only
    <2> QED
      BY <1>1, <2>1, <2>2
  <1> QED
    BY <1>3, <1>4, <1>5 DEF Awaits

LEMMA AwaitsNew ==
    ASSUME NEW P \in Seq(Packet), NEW Q \in Seq(Packet), NEW m, NEW A, NEW B,
           Only(P, A), Len(Q) = 1, Q[1].p.m = m
    PROVE  Awaits(P \o Q, m, A, B)
  <1> DEFINE j == Len(P) + 1
  <1>1. /\ Len(P \o Q) = Len(P) + Len(Q) /\ Len(P) \in Nat
        /\ \A i \in 1..Len(P) : (P \o Q)[i] = P[i]
        /\ \A i \in (Len(P) + 1)..(Len(P) + Len(Q)) : (P \o Q)[i] = Q[i - Len(P)]
    BY Joined
  <1>2. j \in 1..Len(P \o Q) /\ j - Len(P) = 1 /\ j \in (Len(P) + 1)..(Len(P) + Len(Q))
    BY <1>1
  <1>3. (P \o Q)[j].p.m = m
    BY <1>1, <1>2
  <1>4. \A i \in 1..(j - 1) : (P \o Q)[i].p.m \in A
    BY <1>1 DEF Only
  <1>5. \A i \in (j + 1)..Len(P \o Q) : FALSE
    BY <1>1
  <1> HIDE DEF j
  <1> QED
    BY <1>2, <1>3, <1>4, <1>5 DEF Awaits

LEMMA OnlyTail ==
    ASSUME NEW P \in Seq(Packet), P # <<>>, NEW A, Only(P, A)
    PROVE  P[1].p.m \in A /\ Only(Tail(P), A)
  <1>1. /\ Len(P) >= 1 /\ Len(P) \in Nat /\ Len(Tail(P)) = Len(P) - 1
        /\ \A i \in 1..(Len(P) - 1) : Tail(P)[i] = P[i + 1]
    BY HeadAndTail
  <1>2. \A i \in 1..(Len(P) - 1) : i + 1 \in 1..Len(P)
    BY <1>1
  <1>3. 1 \in 1..Len(P)
    BY <1>1
  <1> QED
    BY <1>1, <1>2, <1>3 DEF Only

LEMMA SealedTail ==
    ASSUME NEW P \in Seq(Packet), P # <<>>, NEW e, SealedAs(P, e)
    PROVE  P[1].enc = e /\ SealedAs(Tail(P), e)
  <1>1. /\ Len(P) >= 1 /\ Len(P) \in Nat /\ Len(Tail(P)) = Len(P) - 1
        /\ \A i \in 1..(Len(P) - 1) : Tail(P)[i] = P[i + 1]
    BY HeadAndTail
  <1>2. \A i \in 1..(Len(P) - 1) : i + 1 \in 1..Len(P)
    BY <1>1
  <1>3. 1 \in 1..Len(P)
    BY <1>1
  <1> QED
    BY <1>1, <1>2, <1>3 DEF SealedAs

LEMMA AwaitsTail ==
    ASSUME NEW P \in Seq(Packet), P # <<>>, NEW m, NEW A, NEW B, Awaits(P, m, A, B)
    PROVE  /\ P[1].p.m # m => P[1].p.m \in A /\ Awaits(Tail(P), m, A, B)
           /\ P[1].p.m = m /\ m \notin A => Only(Tail(P), B)
  <1>1. /\ Len(P) >= 1 /\ Len(P) \in Nat /\ Len(Tail(P)) = Len(P) - 1
        /\ \A i \in 1..(Len(P) - 1) : Tail(P)[i] = P[i + 1]
    BY HeadAndTail
  <1>2. PICK j \in 1..Len(P) : /\ P[j].p.m = m
                               /\ \A i \in 1..(j - 1) : P[i].p.m \in A
                               /\ \A i \in (j + 1)..Len(P) : P[i].p.m \in B
    BY DEF Awaits
  <1>3. CASE j = 1
    <2>1. P[1].p.m = m
      BY <1>2, <1>3
    <2>2. ASSUME NEW i \in 1..Len(Tail(P)) PROVE Tail(P)[i].p.m \in B
      <3>1. i \in 1..(Len(P) - 1) /\ i + 1 \in (j + 1)..Len(P)
        BY <1>1, <1>3
      <3> QED  BY <3>1, <1>1, <1>2
    <2> QED
      BY <2>1, <2>2 DEF Only
  <1>4. CASE j # 1
    <2>1. j - 1 \in 1..Len(Tail(P)) /\ 1 \in 1..(j - 1) /\ (j - 1) + 1 = j
          /\ j - 1 \in 1..(Len(P) - 1)
      BY <1>1, <1>4
    <2>2. P[1].p.m \in A
      BY <2>1, <1>2
    <2>3. Tail(P)[j - 1].p.m = m
      BY <2>1, <1>1, <1>2
    <2>4. ASSUME NEW i \in 1..((j - 1) - 1) PROVE Tail(P)[i].p.m \in A
      <3>1. i \in 1..(Len(P) - 1) /\ i + 1 \in 1..(j - 1)
        BY <1>1
      <3> QED  BY <3>1, <1>1, <1>2
    <2>5. ASSUME NEW i \in ((j - 1) + 1)..Len(Tail(P)) PROVE Tail(P)[i].p.m \in B
      <3>1. i \in 1..(Len(P) - 1) /\ i + 1 \in (j + 1)..Len(P)
        BY <1>1, <1>4
      <3> QED  BY <3>1, <1>1, <1>2
    <2> DEFINE h == j - 1
    <2>6. /\ h \in 1..Len(Tail(P)) /\ Tail(P)[h].p.m = m
          /\ \A i \in 1..(h - 1) : Tail(P)[i].p.m \in A
          /\ \A i \in (h + 1)..Len(Tail(P)) : Tail(P)[i].p.m \in B
      BY <2>1, <2>3, <2>4, <2>5
    <2> HIDE DEF h
    <2>7. Awaits(Tail(P), m, A, B)
      BY <2>6 DEF Awaits
    <2> QED
      BY <2>2, <2>7
  <1> QED
    BY <1>3, <1>4

----------------------------------------------------------------------------
(* Sums.                                                                   *)

LEMMA LeastNumber == ASSUME NEW T \in SUBSET Nat, T # {}
                     PROVE  \E x \in T : \A y \in T : x <= y
  <1> DEFINE R == {ss \in Nat \X Nat : ss[1] < ss[2]}
  <1>1. IsWellFoundedOn(R, Nat)
    BY NatLessThanWellFounded DEF OpToRel
  <1>2. \A x \in Nat, y \in Nat : <<x, y>> \in R <=> x < y
    OBVIOUS
  <1> HIDE DEF R
  <1>3. PICK x \in T : \A y \in T : ~ (<<y, x>> \in R)
    BY <1>1, WFMin
  <1>4. ASSUME NEW y \in T PROVE x <= y
    <2>1. ~(<<y, x>> \in R)
      BY <1>3
    <2>2. x \in Nat /\ y \in Nat
      OBVIOUS
    <2>3. ~(y < x)
      BY <1>2, <2>1, <2>2, Zenon
    <2> QED
      BY <2>2, <2>3
  <1> QED
    BY <1>4

\* Induction, on a set.
LEMMA InductionOnSet == ASSUME NEW P \in SUBSET Nat, 0 \in P, \A n \in P : n + 1 \in P
                        PROVE  P = Nat
  <1>1. SUFFICES ASSUME Nat \ P # {} PROVE FALSE
    OBVIOUS
  <1>2. PICK x \in Nat \ P : \A y \in Nat \ P : x <= y
    BY <1>1, LeastNumber
  <1>3. x # 0 /\ x - 1 \in Nat /\ ~(x <= x - 1)
    BY <1>2
  <1>4. x - 1 \in P /\ (x - 1) + 1 = x
    BY <1>2, <1>3
  <1> QED
    BY <1>2, <1>4

\* The sums of the first numbers of s.
Sums(g, s, N) ==
    /\ g \in [0..N -> Nat] /\ g[0] = 0
    /\ \A n \in 1..N : g[n] = g[n - 1] + s[n]

LEMMA SumsOf == ASSUME NEW s \in Seq(Nat) PROVE \E g : Sums(g, s, Len(s))
  <1> DEFINE P == {n \in Nat : n <= Len(s) => \E g : Sums(g, s, n)}
  <1>1. Len(s) \in Nat /\ \A n \in 1..Len(s) : s[n] \in Nat
    OBVIOUS
  <1>2. 0 \in P
    <2>1. Sums([n \in 0..0 |-> 0], s, 0)
      BY DEF Sums
    <2> QED
      BY <2>1
  <1>3. ASSUME NEW n \in P PROVE n + 1 \in P
    <2>1. n \in Nat /\ n + 1 \in Nat
      OBVIOUS
    <2>2. ASSUME n + 1 <= Len(s) PROVE \E g : Sums(g, s, n + 1)
      <3>1. PICK g : Sums(g, s, n)
        BY <1>1, <2>1, <2>2
      <3> DEFINE e == g[n] + s[n + 1]
                 h == [i \in 0..(n + 1) |-> IF i = n + 1 THEN e ELSE g[i]]
      <3>2. e \in Nat
        BY <1>1, <2>1, <2>2, <3>1 DEF Sums
      <3>3. h \in [0..(n + 1) -> Nat] /\ h[0] = 0
        <4> HIDE DEF e
        <4> QED
          BY <2>1, <3>1, <3>2 DEF Sums
      <3>4. ASSUME NEW i \in 1..(n + 1) PROVE h[i] = h[i - 1] + s[i]
        <4>1. CASE i = n + 1
          <5>1. h[i] = e /\ h[i - 1] = g[n]
            BY <2>1, <4>1
          <5> QED
            BY <4>1, <5>1
        <4>2. CASE i # n + 1
          <5>1. i \in 1..n /\ h[i] = g[i] /\ h[i - 1] = g[i - 1]
            <6> HIDE DEF e
            <6> QED
              BY <2>1, <4>2
          <5> QED
            BY <3>1, <5>1 DEF Sums
        <4> QED
          BY <4>1, <4>2
      <3> HIDE DEF h
      <3>5. Sums(h, s, n + 1)
        BY <3>3, <3>4 DEF Sums
      <3> QED
        BY <3>5
    <2> QED
      BY <2>1, <2>2
  <1> HIDE DEF P
  <1>4. P \in SUBSET Nat
    BY DEF P
  <1>5. P = Nat
    BY <1>2, <1>3, <1>4, InductionOnSet
  <1>6. Len(s) \in P
    BY <1>1, <1>5
  <1> QED
    BY <1>1, <1>6 DEF P

LEMMA TotalIs ==
    ASSUME NEW s \in Seq(Nat), NEW g, Sums(g, s, Len(s))
    PROVE  Total(s) = g[Len(s)] /\ Total(s) \in Nat
  <1> DEFINE N == Len(s)
             F == CHOOSE f : f = [n \in 0..N |-> IF n = 0 THEN 0 ELSE f[n - 1] + s[n]]
             P == {n \in Nat : n <= N => F[n] = g[n]}
  <1>1. N \in Nat
    OBVIOUS
  <1>2. Total(s) = F[N]
    BY DEF Total
  <1> HIDE DEF N
  <1>3. Sums(g, s, N)
    BY DEF N
  <1>4. F = [n \in 0..N |-> IF n = 0 THEN 0 ELSE F[n - 1] + s[n]]
    <2>1. g = [n \in 0..N |-> IF n = 0 THEN 0 ELSE g[n - 1] + s[n]]
      BY <1>1, <1>3 DEF Sums
    <2> QED
      BY <2>1
  <1>5. F[0] = 0 /\ \A n \in 1..N : F[n] = F[n - 1] + s[n]
    <2> HIDE DEF F
    <2> QED
      BY <1>1, <1>4
  <1> HIDE DEF F
  <1>6. 0 \in P
    BY <1>3, <1>5 DEF Sums
  <1>7. ASSUME NEW n \in P PROVE n + 1 \in P
    <2>1. n \in Nat /\ n + 1 \in Nat /\ (n + 1) - 1 = n
      OBVIOUS
    <2>2. ASSUME n + 1 <= N PROVE F[n + 1] = g[n + 1]
      <3>1. n + 1 \in 1..N /\ n <= N
        BY <1>1, <2>1, <2>2
      <3>2. F[n] = g[n]
        BY <3>1
      <3>3. F[n + 1] = F[n] + s[n + 1] /\ g[n + 1] = g[n] + s[n + 1]
        BY <1>3, <1>5, <2>1, <3>1 DEF Sums
      <3> QED
        BY <3>2, <3>3
    <2> QED
      BY <2>1, <2>2
  <1> HIDE DEF P
  <1>8. P \in SUBSET Nat
    BY DEF P
  <1>9. N \in P
    BY <1>1, <1>6, <1>7, <1>8, InductionOnSet
  <1>10. F[N] = g[N] /\ g[N] \in Nat
    BY <1>1, <1>3, <1>9 DEF P, Sums
  <1> QED
    BY <1>2, <1>10 DEF N

LEMMA TotalJoined ==
    ASSUME NEW a \in Seq(Nat), NEW b \in Seq(Nat)
    PROVE  Total(a \o b) = Total(a) + Total(b)
  <1> DEFINE s == a \o b
             A == Len(a)
             B == Len(b)
  <1>1. PICK f : Sums(f, a, A)
    BY SumsOf
  <1>2. PICK g : Sums(g, b, B)
    BY SumsOf
  <1>3. A \in Nat /\ B \in Nat
    OBVIOUS
  <1>4. /\ s \in Seq(Nat) /\ Len(s) = A + B
        /\ \A i \in 1..A : s[i] = a[i]
        /\ \A i \in (A + 1)..(A + B) : s[i] = b[i - A]
    BY Joined
  <1>5. Total(a) = f[A] /\ Total(b) = g[B]
    BY <1>1, <1>2, TotalIs
  <1> HIDE DEF s, A, B
  <1> DEFINE h == [n \in 0..(A + B) |-> IF n <= A THEN f[n] ELSE f[A] + g[n - A]]
  <1>6. f[A] \in Nat /\ \A n \in 0..B : g[n] \in Nat
    BY <1>1, <1>2, <1>3 DEF Sums
  <1>7. h \in [0..(A + B) -> Nat] /\ h[0] = 0
    <2>1. ASSUME NEW n \in 0..(A + B) PROVE (IF n <= A THEN f[n] ELSE f[A] + g[n - A]) \in Nat
      <3>1. CASE n <= A
        <4>1. n \in 0..A
          BY <1>3, <3>1
        <4> QED  BY <3>1, <4>1, <1>1 DEF Sums
      <3>2. CASE ~(n <= A)
        <4>1. n - A \in 0..B
          BY <1>3, <3>2
        <4>2. f[A] + g[n - A] \in Nat
          BY <4>1, <1>6
        <4> QED  BY <3>2, <4>2
      <3> QED  BY <3>1, <3>2
    <2>2. 0 \in 0..(A + B) /\ 0 <= A
      BY <1>3
    <2> QED  BY <2>1, <2>2, <1>1 DEF Sums
  <1>8. ASSUME NEW n \in 1..(A + B) PROVE h[n] = h[n - 1] + s[n]
    <2>0. n \in Nat /\ n \in 0..(A + B) /\ n - 1 \in 0..(A + B)
      BY <1>3
    <2>1. CASE n <= A
      <3>1. n \in 1..A /\ n - 1 <= A
        BY <1>3, <2>1
      <3>2. h[n] = f[n] /\ h[n - 1] = f[n - 1]
        BY <2>0, <2>1, <3>1
      <3> QED
        BY <1>1, <1>4, <3>1, <3>2 DEF Sums
    <2>2. CASE n > A
      <3>1. n - A \in 1..B /\ ~(n <= A) /\ n \in (A + 1)..(A + B)
        BY <1>3, <2>2
      <3>2. h[n] = f[A] + g[n - A] /\ g[n - A] = g[n - A - 1] + b[n - A]
        BY <2>0, <3>1, <1>2 DEF Sums
      <3>3. h[n - 1] = f[A] + g[n - A - 1]
        <4>1. CASE n - 1 = A
          <5>1. g[n - A - 1] = 0
            BY <4>1, <1>2, <1>3 DEF Sums
          <5>2. h[n - 1] = f[A]
            BY <4>1, <2>0, <1>3
          <5> QED  BY <5>1, <5>2, <1>6
        <4>2. CASE n - 1 # A
          <5>1. ~(n - 1 <= A) /\ (n - 1) - A = n - A - 1
            BY <4>2, <2>0, <2>2, <1>3
          <5> QED  BY <5>1, <2>0
        <4> QED  BY <4>1, <4>2
      <3>4. g[n - A - 1] \in Nat
        <4>1. n - A - 1 \in 0..B
          BY <3>1, <1>3
        <4> QED  BY <4>1, <1>6
      <3>5. b[n - A] \in Nat
        <4>1. n - A \in 1..Len(b)
          BY <3>1 DEF B
        <4> QED  BY <4>1
      <3>6. s[n] = b[n - A]
        BY <1>4, <3>1
      <3> HIDE DEF h
      <3> QED
        BY <3>2, <3>3, <3>4, <3>5, <3>6, <1>6
    <2> QED
      BY <2>0, <2>1, <2>2, <1>3
  <1>9. h[A + B] = f[A] + g[B]
    <2>1. CASE B = 0
      BY <2>1, <1>3, <1>6, <1>2 DEF Sums
    <2>2. CASE B # 0
      <3>1. ~(A + B <= A) /\ (A + B) - A = B /\ A + B \in 0..(A + B)
        BY <2>2, <1>3
      <3> QED  BY <3>1
    <2> QED  BY <2>1, <2>2
  <1> HIDE DEF h
  <1>10. Sums(h, s, Len(s))
    BY <1>4, <1>7, <1>8 DEF Sums
  <1>11. Total(s) = h[A + B]
    BY <1>4, <1>10, TotalIs
  <1> QED
    BY <1>5, <1>9, <1>11 DEF s

LEMMA MembersOf == ASSUME NEW S, NEW s \in Seq(S) PROVE \A i \in 1..Len(s) : s[i] \in S
  OBVIOUS

LEMMA TotalOfOne == ASSUME NEW s \in Seq(Nat), Len(s) = 1 PROVE Total(s) = s[1]
  <1> DEFINE h == [n \in 0..1 |-> IF n = 0 THEN 0 ELSE s[1]]
  <1>1. s[1] \in Nat
    <2>1. \A i \in 1..Len(s) : s[i] \in Nat
      BY MembersOf
    <2>2. 1 \in 1..Len(s)
      OBVIOUS
    <2> QED
      BY <2>1, <2>2, Zenon
  <1>2. h \in [0..1 -> Nat] /\ h[0] = 0 /\ h[1] = s[1]
    BY <1>1
  <1>3. h[1] = h[0] + s[1]
    BY <1>1, <1>2
  <1> HIDE DEF h
  <1>4. \A n \in 1..1 : h[n] = h[n - 1] + s[n]
    BY <1>3
  <1>5. Sums(h, s, Len(s))
    BY <1>2, <1>4 DEF Sums
  <1> QED
    BY <1>2, <1>5, TotalIs

LEMMA TotalOfNothing ==
    ASSUME NEW s \in Seq(Nat), \A i \in 1..Len(s) : s[i] = 0
    PROVE  Total(s) = 0
  <1> DEFINE h == [n \in 0..Len(s) |-> 0]
  <1>1. Len(s) \in Nat
    OBVIOUS
  <1>2. Sums(h, s, Len(s))
    BY <1>1 DEF Sums
  <1>3. h[Len(s)] = 0
    BY <1>1
  <1> QED
    BY <1>2, <1>3, TotalIs

\* What a packet of output counts, and what the client's gives back.
Weight(x) == IF x.p.m \in Output THEN 1 ELSE 0
Gift(x) == IF x.p.m = "WINDOW_ADJUST" THEN x.p.n ELSE 0

OutputsOf(P) == Total([i \in 1..Len(P) |-> Weight(P[i])])

LEMMA Weighed ==
    ASSUME NEW P \in Seq(Packet)
    PROVE  /\ [i \in 1..Len(P) |-> Weight(P[i])] \in Seq(Nat)
           /\ Len([i \in 1..Len(P) |-> Weight(P[i])]) = Len(P)
  <1>1. \A i \in 1..Len(P) : Weight(P[i]) \in Nat
    BY DEF Weight
  <1>2. Len(P) \in Nat
    OBVIOUS
  <1> DEFINE w == [i \in 1..Len(P) |-> Weight(P[i])]
  <1>3. w \in [1..Len(P) -> Nat]
    BY <1>1
  <1> HIDE DEF w
  <1>4. w \in Seq(Nat) /\ Len(w) = Len(P)
    BY <1>2, <1>3
  <1> QED
    BY <1>4 DEF w

LEMMA Gifts ==
    ASSUME NEW P \in Seq(Packet)
    PROVE  /\ [i \in 1..Len(P) |-> Gift(P[i])] \in Seq(Nat)
           /\ Len([i \in 1..Len(P) |-> Gift(P[i])]) = Len(P)
           /\ Credits(P) = Total([i \in 1..Len(P) |-> Gift(P[i])])
  <1>1. \A i \in 1..Len(P) : Gift(P[i]) \in Nat
    <2> TAKE i \in 1..Len(P)
    <2>1. P[i] \in Packet
      OBVIOUS
    <2> QED  BY <2>1 DEF Gift, Packet, Message
  <1>2. Len(P) \in Nat /\ DOMAIN P = 1..Len(P)
    OBVIOUS
  <1> DEFINE w == [i \in 1..Len(P) |-> Gift(P[i])]
  <1>3. w \in [1..Len(P) -> Nat]
    BY <1>1
  <1>4. Credits(P) = Total(w)
    BY <1>2 DEF Credits, Gift
  <1> HIDE DEF w
  <1>5. w \in Seq(Nat) /\ Len(w) = Len(P)
    BY <1>2, <1>3
  <1> QED
    BY <1>4, <1>5 DEF w

LEMMA OutputsJoined ==
    ASSUME NEW P \in Seq(Packet), NEW Q \in Seq(Packet)
    PROVE  /\ OutputsOf(P \o Q) = OutputsOf(P) + OutputsOf(Q)
           /\ OutputsOf(P) \in Nat /\ OutputsOf(Q) \in Nat
  <1> DEFINE a == [i \in 1..Len(P) |-> Weight(P[i])]
             b == [i \in 1..Len(Q) |-> Weight(Q[i])]
             c == [i \in 1..Len(P \o Q) |-> Weight((P \o Q)[i])]
  <1>1. /\ P \o Q \in Seq(Packet) /\ Len(P \o Q) = Len(P) + Len(Q)
        /\ \A i \in 1..Len(P) : (P \o Q)[i] = P[i]
        /\ \A i \in (Len(P) + 1)..(Len(P) + Len(Q)) : (P \o Q)[i] = Q[i - Len(P)]
        /\ Len(P) \in Nat /\ Len(Q) \in Nat
    BY Joined
  <1>2. /\ a \in Seq(Nat) /\ Len(a) = Len(P) /\ b \in Seq(Nat) /\ Len(b) = Len(Q)
        /\ c \in Seq(Nat) /\ Len(c) = Len(P) + Len(Q)
    BY <1>1, Weighed
  <1>3. ASSUME NEW i \in 1..(Len(P) + Len(Q)) PROVE c[i] = (a \o b)[i]
    <2>0. /\ \A j \in 1..Len(a) : (a \o b)[j] = a[j]
          /\ \A j \in (Len(a) + 1)..(Len(a) + Len(b)) : (a \o b)[j] = b[j - Len(a)]
      <3> HIDE DEF a, b, c
      <3>1. a \in Seq(Nat) /\ b \in Seq(Nat)
        BY <1>2, Zenon
      <3> QED  BY <3>1, Joined, Zenon
    <2>1. CASE i <= Len(P)
      <3>1. i \in 1..Len(P) /\ i \in 1..Len(P \o Q)
        BY <1>1, <2>1
      <3>2. (a \o b)[i] = a[i]
        <4> HIDE DEF a, b
        <4> QED  BY <1>2, <2>0, <3>1
      <3>3. c[i] = Weight((P \o Q)[i]) /\ a[i] = Weight(P[i])
        BY <3>1
      <3> QED
        BY <1>1, <3>1, <3>2, <3>3, Zenon
    <2>2. CASE i > Len(P)
      <3>1. i - Len(P) \in 1..Len(Q) /\ i \in 1..Len(P \o Q)
            /\ i \in (Len(P) + 1)..(Len(P) + Len(Q))
        BY <1>1, <2>2
      <3>2. (a \o b)[i] = b[i - Len(P)]
        <4> HIDE DEF a, b
        <4> QED  BY <1>2, <2>0, <3>1
      <3>3. c[i] = Weight((P \o Q)[i]) /\ b[i - Len(P)] = Weight(Q[i - Len(P)])
        BY <3>1
      <3> QED
        BY <1>1, <3>1, <3>2, <3>3, Zenon
    <2> QED
      BY <1>1, <2>1, <2>2
  <1> HIDE DEF a, b, c
  <1>4. c = a \o b
    <2>1. a \in Seq(Nat) /\ b \in Seq(Nat) /\ c \in Seq(Nat)
      BY <1>2
    <2>2. a \o b \in Seq(Nat) /\ Len(a \o b) = Len(a) + Len(b)
      BY <2>1, Joined
    <2>3. Len(c) = Len(a \o b) /\ Len(c) = Len(P) + Len(Q)
      BY <1>2, <2>2
    <2> QED
      BY <1>3, <2>1, <2>2, <2>3, SameSeq
  <1>5. Total(c) = Total(a) + Total(b)
    BY <1>2, <1>4, TotalJoined
  <1>6. Total(a) \in Nat /\ Total(b) \in Nat
    BY <1>2, SumsOf, TotalIs
  <1> QED
    BY <1>5, <1>6 DEF OutputsOf, a, b, c

LEMMA CreditsJoined ==
    ASSUME NEW P \in Seq(Packet), NEW Q \in Seq(Packet)
    PROVE  /\ Credits(P \o Q) = Credits(P) + Credits(Q)
           /\ Credits(P) \in Nat /\ Credits(Q) \in Nat
  <1> DEFINE a == [i \in 1..Len(P) |-> Gift(P[i])]
             b == [i \in 1..Len(Q) |-> Gift(Q[i])]
             c == [i \in 1..Len(P \o Q) |-> Gift((P \o Q)[i])]
  <1>1. /\ P \o Q \in Seq(Packet) /\ Len(P \o Q) = Len(P) + Len(Q)
        /\ \A i \in 1..Len(P) : (P \o Q)[i] = P[i]
        /\ \A i \in (Len(P) + 1)..(Len(P) + Len(Q)) : (P \o Q)[i] = Q[i - Len(P)]
        /\ Len(P) \in Nat /\ Len(Q) \in Nat
    BY Joined
  <1>2. /\ a \in Seq(Nat) /\ Len(a) = Len(P) /\ b \in Seq(Nat) /\ Len(b) = Len(Q)
        /\ c \in Seq(Nat) /\ Len(c) = Len(P) + Len(Q)
        /\ Credits(P) = Total(a) /\ Credits(Q) = Total(b) /\ Credits(P \o Q) = Total(c)
    BY <1>1, Gifts
  <1>3. ASSUME NEW i \in 1..(Len(P) + Len(Q)) PROVE c[i] = (a \o b)[i]
    <2>0. /\ \A j \in 1..Len(a) : (a \o b)[j] = a[j]
          /\ \A j \in (Len(a) + 1)..(Len(a) + Len(b)) : (a \o b)[j] = b[j - Len(a)]
      <3> HIDE DEF a, b, c
      <3>1. a \in Seq(Nat) /\ b \in Seq(Nat)
        BY <1>2, Zenon
      <3> QED  BY <3>1, Joined, Zenon
    <2>1. CASE i <= Len(P)
      <3>1. i \in 1..Len(P) /\ i \in 1..Len(P \o Q)
        BY <1>1, <2>1
      <3>2. (a \o b)[i] = a[i]
        <4> HIDE DEF a, b
        <4> QED  BY <1>2, <2>0, <3>1
      <3>3. c[i] = Gift((P \o Q)[i]) /\ a[i] = Gift(P[i])
        BY <3>1
      <3> QED
        BY <1>1, <3>1, <3>2, <3>3, Zenon
    <2>2. CASE i > Len(P)
      <3>1. i - Len(P) \in 1..Len(Q) /\ i \in 1..Len(P \o Q)
            /\ i \in (Len(P) + 1)..(Len(P) + Len(Q))
        BY <1>1, <2>2
      <3>2. (a \o b)[i] = b[i - Len(P)]
        <4> HIDE DEF a, b
        <4> QED  BY <1>2, <2>0, <3>1
      <3>3. c[i] = Gift((P \o Q)[i]) /\ b[i - Len(P)] = Gift(Q[i - Len(P)])
        BY <3>1
      <3> QED
        BY <1>1, <3>1, <3>2, <3>3, Zenon
    <2> QED
      BY <1>1, <2>1, <2>2
  <1> HIDE DEF a, b, c
  <1>4. c = a \o b
    <2>1. a \in Seq(Nat) /\ b \in Seq(Nat) /\ c \in Seq(Nat)
      BY <1>2
    <2>2. a \o b \in Seq(Nat) /\ Len(a \o b) = Len(a) + Len(b)
      BY <2>1, Joined
    <2>3. Len(c) = Len(a \o b) /\ Len(c) = Len(P) + Len(Q)
      BY <1>2, <2>2
    <2> QED
      BY <1>3, <2>1, <2>2, <2>3, SameSeq
  <1>5. Total(c) = Total(a) + Total(b)
    BY <1>2, <1>4, TotalJoined
  <1>6. Total(a) \in Nat /\ Total(b) \in Nat
    BY <1>2, SumsOf, TotalIs
  <1> QED
    BY <1>2, <1>5, <1>6

LEMMA OutputsOfOne ==
    ASSUME NEW P \in Seq(Packet), Len(P) = 1
    PROVE  OutputsOf(P) = Weight(P[1])
  <1> DEFINE a == [i \in 1..Len(P) |-> Weight(P[i])]
  <1>1. a[1] = Weight(P[1])
    OBVIOUS
  <1>2. a \in Seq(Nat) /\ Len(a) = 1
    BY Weighed
  <1> HIDE DEF a
  <1>3. Total(a) = a[1]
    BY <1>2, TotalOfOne
  <1> QED
    BY <1>1, <1>3 DEF OutputsOf, a

LEMMA CreditsOfOne ==
    ASSUME NEW P \in Seq(Packet), Len(P) = 1
    PROVE  Credits(P) = Gift(P[1])
  <1> DEFINE a == [i \in 1..Len(P) |-> Gift(P[i])]
  <1>1. a[1] = Gift(P[1])
    OBVIOUS
  <1>2. a \in Seq(Nat) /\ Len(a) = 1 /\ Credits(P) = Total(a)
    BY Gifts
  <1> HIDE DEF a
  <1>3. Total(a) = a[1]
    BY <1>2, TotalOfOne
  <1> QED
    BY <1>1, <1>2, <1>3

LEMMA OutputsOfNone ==
    ASSUME NEW P \in Seq(Packet), \A i \in 1..Len(P) : P[i].p.m \notin Output
    PROVE  OutputsOf(P) = 0
  <1> DEFINE a == [i \in 1..Len(P) |-> Weight(P[i])]
  <1>1. \A i \in 1..Len(P) : a[i] = 0
    BY DEF Weight
  <1>2. a \in Seq(Nat) /\ Len(a) = Len(P)
    BY Weighed
  <1> HIDE DEF a
  <1>3. Total(a) = 0
    BY <1>1, <1>2, TotalOfNothing
  <1> QED
    BY <1>3 DEF OutputsOf, a

LEMMA CreditsOfNone ==
    ASSUME NEW P \in Seq(Packet), \A i \in 1..Len(P) : P[i].p.m # "WINDOW_ADJUST"
    PROVE  Credits(P) = 0
  <1> DEFINE a == [i \in 1..Len(P) |-> Gift(P[i])]
  <1>1. \A i \in 1..Len(P) : a[i] = 0
    BY DEF Gift
  <1>2. a \in Seq(Nat) /\ Len(a) = Len(P) /\ Credits(P) = Total(a)
    BY Gifts
  <1> HIDE DEF a
  <1>3. Total(a) = 0
    BY <1>1, <1>2, TotalOfNothing
  <1> QED
    BY <1>2, <1>3

LEMMA InFrontOfTail ==
    ASSUME NEW P \in Seq(Packet), P # <<>>
    PROVE  /\ P = <<P[1]>> \o Tail(P) /\ P[1] \in Packet /\ Tail(P) \in Seq(Packet)
           /\ <<P[1]>> \in Seq(Packet) /\ Len(<<P[1]>>) = 1 /\ <<P[1]>>[1] = P[1]
  <1>1. /\ Len(P) \in Nat /\ Len(P) >= 1 /\ P[1] \in Packet
        /\ Tail(P) \in Seq(Packet) /\ Len(Tail(P)) = Len(P) - 1
        /\ \A i \in 1..(Len(P) - 1) : Tail(P)[i] = P[i + 1]
    BY HeadAndTail
  <1> DEFINE a == <<P[1]>>
             t == Tail(P)
  <1>2. a \in Seq(Packet) /\ Len(a) = 1 /\ a[1] = P[1]
    BY <1>1
  <1> HIDE DEF a, t
  <1>3. /\ a \o t \in Seq(Packet) /\ Len(a \o t) = Len(P)
        /\ \A i \in 1..1 : (a \o t)[i] = a[i]
        /\ \A i \in 2..Len(P) : (a \o t)[i] = t[i - 1]
    <2>1. t \in Seq(Packet) /\ a \in Seq(Packet)
      BY <1>1, <1>2 DEF t
    <2>2. /\ a \o t \in Seq(Packet) /\ Len(a \o t) = Len(a) + Len(t)
          /\ \A i \in 1..Len(a) : (a \o t)[i] = a[i]
          /\ \A i \in (Len(a) + 1)..(Len(a) + Len(t)) : (a \o t)[i] = t[i - Len(a)]
      BY <2>1, Joined
    <2>3. Len(a) = 1 /\ Len(t) = Len(P) - 1 /\ Len(P) \in Nat /\ Len(P) >= 1
      BY <1>1, <1>2 DEF t
    <2> QED
      BY <2>2, <2>3
  <1>4. ASSUME NEW i \in 1..Len(P) PROVE (a \o t)[i] = P[i]
    <2>1. CASE i = 1
      BY <1>2, <1>3, <2>1
    <2>2. CASE i # 1
      <3>1. i \in 2..Len(P) /\ i - 1 \in 1..(Len(P) - 1) /\ (i - 1) + 1 = i
        BY <1>1, <2>2
      <3>2. t[i - 1] = P[(i - 1) + 1]
        BY <1>1, <3>1 DEF t
      <3> QED
        BY <1>3, <3>1, <3>2
    <2> QED
      BY <2>1, <2>2
  <1>5. P = a \o t
    BY <1>3, <1>4, SameSeq
  <1> QED
    BY <1>1, <1>2, <1>5 DEF a, t

LEMMA OutputsOfTail ==
    ASSUME NEW P \in Seq(Packet), P # <<>>
    PROVE  /\ OutputsOf(P) = Weight(P[1]) + OutputsOf(Tail(P))
           /\ OutputsOf(Tail(P)) \in Nat
  <1> DEFINE a == <<P[1]>>
             t == Tail(P)
  <1>1. P = a \o t /\ t \in Seq(Packet) /\ a \in Seq(Packet) /\ Len(a) = 1 /\ a[1] = P[1]
    BY InFrontOfTail
  <1> HIDE DEF a, t
  <1>2. OutputsOf(a \o t) = OutputsOf(a) + OutputsOf(t) /\ OutputsOf(t) \in Nat
    BY <1>1, OutputsJoined
  <1>3. OutputsOf(a) = Weight(P[1])
    BY <1>1, OutputsOfOne
  <1>4. OutputsOf(P) = Weight(P[1]) + OutputsOf(t)
    BY <1>1, <1>2, <1>3
  <1> QED
    BY <1>2, <1>4 DEF t

LEMMA CreditsOfTail ==
    ASSUME NEW P \in Seq(Packet), P # <<>>
    PROVE  /\ Credits(P) = Gift(P[1]) + Credits(Tail(P))
           /\ Credits(Tail(P)) \in Nat
  <1> DEFINE a == <<P[1]>>
             t == Tail(P)
  <1>1. P = a \o t /\ t \in Seq(Packet) /\ a \in Seq(Packet) /\ Len(a) = 1 /\ a[1] = P[1]
    BY InFrontOfTail
  <1> HIDE DEF a, t
  <1>2. Credits(a \o t) = Credits(a) + Credits(t) /\ Credits(t) \in Nat
    BY <1>1, CreditsJoined
  <1>3. Credits(a) = Gift(P[1])
    BY <1>1, CreditsOfOne
  <1>4. Credits(P) = Gift(P[1]) + Credits(t)
    BY <1>1, <1>2, <1>3
  <1> QED
    BY <1>2, <1>4 DEF t

\* Of pieces, the last of each packet counts.
LEMMA OutputsOfPieces ==
    ASSUME NEW s \in Seq(Piece), NEW P \in Seq(Packet), Framed(s, 0, P)
    PROVE  Outputs(s) = OutputsOf(P)
  <1> DEFINE N == Len(P)
             a == [i \in 1..Len(P) |-> Weight(P[i])]
             c == [i \in DOMAIN s |->
                      IF s[i].last /\ s[i].pkt.p.m \in {"DATA", "EXTENDED_DATA"} THEN 1 ELSE 0]
             h(g) == [n \in 0..(2 * N) |-> g[n \div 2]]
  <1>1. /\ N \in Nat /\ Len(s) = 2 * N /\ DOMAIN s = 1..(2 * N)
        /\ \A k \in 1..N : /\ s[2 * k - 1] = [pkt |-> P[k], last |-> FALSE]
                           /\ s[2 * k] = [pkt |-> P[k], last |-> TRUE]
    <2>1. /\ Len(s) = 0 + 2 * N
          /\ \A k \in 1..N : /\ s[0 + 2 * k - 1] = [pkt |-> P[k], last |-> FALSE]
                             /\ s[0 + 2 * k] = [pkt |-> P[k], last |-> TRUE]
      BY DEF Framed
    <2>2. \A k \in 1..N : 0 + 2 * k - 1 = 2 * k - 1 /\ 0 + 2 * k = 2 * k
      OBVIOUS
    <2> QED
      BY <2>1, <2>2
  <1>2. a \in Seq(Nat) /\ Len(a) = N
    BY Weighed
  <1>3. PICK g : Sums(g, a, N)
    BY <1>2, SumsOf
  <1>4. c \in Seq(Nat) /\ Len(c) = 2 * N
    <2>1. c \in [1..(2 * N) -> Nat]
      BY <1>1
    <2> HIDE DEF c, N
    <2> QED  BY <1>1, <2>1
  <1>5. ASSUME NEW k \in 1..N PROVE c[2 * k - 1] = 0 /\ c[2 * k] = a[k]
    <2>1. 2 * k - 1 \in DOMAIN s /\ 2 * k \in DOMAIN s
      BY <1>1
    <2>2. /\ s[2 * k - 1].last = FALSE
          /\ s[2 * k].last = TRUE /\ s[2 * k].pkt = P[k]
      <3>1. /\ s[2 * k - 1] = [pkt |-> P[k], last |-> FALSE]
            /\ s[2 * k] = [pkt |-> P[k], last |-> TRUE]
        BY <1>1
      <3> QED
        BY <3>1
    <2> QED
      BY <2>1, <2>2 DEF Weight, Output
  <1> HIDE DEF a, c, N
  <1>6. \A k \in 0..N : g[k] \in Nat
    BY <1>3 DEF Sums
  <1>7. \A n \in 0..(2 * N) : n \div 2 \in 0..N
    BY <1>1
  <1>8. h(g) \in [0..(2 * N) -> Nat] /\ h(g)[0] = 0
    <2>1. 0 \div 2 = 0 /\ 0 \in 0..(2 * N)
      BY <1>1
    <2> QED
      BY <1>3, <1>6, <1>7, <2>1 DEF Sums
  <1>9. ASSUME NEW n \in 1..(2 * N) PROVE h(g)[n] = h(g)[n - 1] + c[n]
    <2>1. h(g)[n] = g[n \div 2] /\ h(g)[n - 1] = g[(n - 1) \div 2]
      <3>1. n \in 0..(2 * N) /\ n - 1 \in 0..(2 * N)
        BY <1>1
      <3> QED
        BY <3>1, Zenon
    <2> HIDE DEF h
    <2>2. CASE \E k \in 1..N : n = 2 * k
      <3>1. PICK k \in 1..N : n = 2 * k
        BY <2>2
      <3>2. n \div 2 = k /\ (n - 1) \div 2 = k - 1
        BY <3>1
      <3>3. g[k] = g[k - 1] + a[k] /\ c[n] = a[k]
        BY <1>3, <1>5, <3>1 DEF Sums
      <3> QED
        BY <2>1, <3>2, <3>3
    <2>3. CASE \E k \in 1..N : n = 2 * k - 1
      <3>1. PICK k \in 1..N : n = 2 * k - 1
        BY <2>3
      <3>2. n \div 2 = k - 1 /\ (n - 1) \div 2 = k - 1 /\ k - 1 \in 0..N
        BY <1>1, <3>1
      <3>3. c[n] = 0 /\ g[k - 1] \in Nat
        BY <1>5, <1>6, <3>1, <3>2
      <3> QED
        BY <2>1, <3>2, <3>3
    <2>4. n = 2 * (n \div 2) \/ n = 2 * ((n + 1) \div 2) - 1
      BY <1>1
    <2>5. n = 2 * (n \div 2) => n \div 2 \in 1..N
      BY <1>1
    <2>6. n = 2 * ((n + 1) \div 2) - 1 => (n + 1) \div 2 \in 1..N
      BY <1>1
    <2> QED
      BY <2>2, <2>3, <2>4, <2>5, <2>6
  <1>10. h(g)[2 * N] = g[N]
    BY <1>1
  <1> DEFINE f == h(g)
  <1> HIDE DEF h, f
  <1>11. Sums(f, c, Len(c))
    BY <1>4, <1>8, <1>9 DEF Sums, f
  <1>12. Total(c) = f[2 * N] /\ Total(a) = g[N]
    BY <1>2, <1>3, <1>4, <1>11, TotalIs
  <1> QED
    BY <1>10, <1>12 DEF Outputs, OutputsOf, a, c, f

----------------------------------------------------------------------------
(* The invariant of a session that is not over.                            *)

\* The server's phase and keys go with the packets it has read.
PhaseInv ==
    /\ srv.recvEnc = (srv.recvSeq >= 3) /\ srv.sendEnc = (srv.recvSeq >= 2)
    /\ srv.phase \in {"start", "ident", "kex"} <=> srv.recvSeq <= 3
    /\ srv.phase \in {"start", "ident"} => srv.recvSeq = 0 /\ srv.sendSeq = 0
    /\ ~srv.err

\* The client's wait and keys go with the packets it has sent.
PcInv ==
    /\ pc \in Blocking \cup Shell \cup {"password"}
    /\ pc = "IDENT" => sendSeq = 0 /\ up = <<>>
    /\ pc = "KEXINIT" => sendSeq = 1
    /\ pc = "KEXDH_REPLY" => sendSeq = 2
    /\ pc = "NEWKEYS" => sendSeq = 3
    /\ pc = "SERVICE_ACCEPT" => sendSeq = 4
    /\ pc \in {"password", "AUTH", "CHANNEL"} \cup Shell => sendSeq >= 4
    /\ encrypted = (sendSeq >= 4)

\* Text comes before packets, and the identification last of it.
TextInv ==
    /\ pc = "IDENT" =>
          /\ recvSeq = 0
          /\ \A k \in 1..Lead : Stream[k].pkt.p.m =
                 IF k = Lead /\ srv.phase # "start" THEN "IDENT" ELSE "LINE"
          /\ srv.phase # "start" => Lead # 0
    /\ pc # "IDENT" => Lead = 0 /\ srv.phase # "start"

Hello ==
    /\ SealedAs(Coming, FALSE)
    /\ srv.phase = "kex" => Awaits(Coming, "KEXINIT", {}, Calm)

\* The server's answer and its new keys are sent together.
Answered ==
    \E j \in 2..Len(Coming) :
        /\ Coming[j - 1].p.m = "KEXDH_REPLY" /\ Coming[j].p.m = "NEWKEYS"
        /\ \A i \in 1..Len(Coming) :
               /\ Coming[i].enc = (i > j)
               /\ i < j - 1 \/ i > j => Coming[i].p.m \in Calm
Exchange ==
    /\ srv.phase = "kex"
    /\ \/ srv.recvSeq < 2 /\ Only(Coming, Calm) /\ SealedAs(Coming, FALSE)
       \/ srv.recvSeq >= 2 /\ Answered

NewKeys ==
    /\ srv.phase = "kex" /\ srv.recvSeq >= 2
    /\ Len(Coming) >= 1 /\ Coming[1].p.m = "NEWKEYS" /\ Coming[1].enc = FALSE
    /\ \A i \in 2..Len(Coming) : Coming[i].p.m \in Calm /\ Coming[i].enc = TRUE

Service ==
    \/ srv.recvSeq \in {2, 3} /\ Only(Coming, Calm)
    \/ srv.phase = "auth" /\ Awaits(Coming, "SERVICE_ACCEPT", Calm, Calm)

Login == up = <<>> /\ srv.phase = "auth" /\ Only(Coming, Calm)

Asked ==
    \/ /\ Len(up) = 1 /\ up[1].p.m = "USERAUTH_REQUEST"
       /\ srv.phase = "auth" /\ Only(Coming, Calm)
    \/ /\ up = <<>> /\ srv.phase = "auth"
       /\ Awaits(Coming, "USERAUTH_FAILURE", Calm, Calm)
    \/ /\ up = <<>> /\ srv.phase = "authed"
       /\ Awaits(Coming, "USERAUTH_SUCCESS", Calm, Idle)

OpenAsked ==
    /\ up # <<>> /\ up[1].p.m = "CHANNEL_OPEN" /\ srv.phase = "authed"
    /\ \A i \in 2..Len(up) : up[i].p.m = "REQUEST_FAILURE"
    /\ Only(Coming, Idle)
OpenRefused ==
    /\ srv.phase = "authed" /\ Only(up, {"REQUEST_FAILURE"})
    /\ Awaits(Coming, "CHANNEL_OPEN_FAILURE", Idle, Idle)
OpenGranted ==
    /\ srv.phase = "channel" /\ Only(up, {"REQUEST_FAILURE"})
    /\ Awaits(Coming, "CHANNEL_OPEN_CONFIRMATION", Idle, Idle)
    /\ \A i \in 1..Len(Coming) :
           Coming[i].p.m = "CHANNEL_OPEN_CONFIRMATION" => Coming[i].p.ch = srv.ch
    /\ srv.credit = Window

Secured == {"SERVICE_ACCEPT", "password", "AUTH", "CHANNEL"} \cup Shell

StageInv ==
    /\ pc \in {"IDENT", "KEXINIT"} => Hello
    /\ pc = "KEXDH_REPLY" => Exchange
    /\ pc = "NEWKEYS" => NewKeys
    /\ pc = "SERVICE_ACCEPT" => Service
    /\ pc = "password" => Login
    /\ pc = "AUTH" => Asked
    /\ pc = "CHANNEL" => OpenAsked \/ OpenRefused \/ OpenGranted
    /\ pc \in Secured => SealedAs(Coming, TRUE)

\* Before the shell there is no output.
UnopenedInv ==
    pc \notin Shell =>
        /\ eof = FALSE /\ srv.eof = FALSE /\ shown = <<>> /\ srv.sent = 0
        /\ srv.phase \notin {"shell", "rekey", "over"}

InShellSent == {"REQUEST_FAILURE", "WINDOW_ADJUST", "PTY", "SHELL", "DATA", "EOF"}

\* In the shell, what the client sends is for the server's channel, and no keys
\* after the end of them.
ShellInv ==
    pc \in Shell =>
        /\ srv.phase \in {"channel", "shell", "rekey", "over"}
        /\ remote = srv.ch
        /\ \A i \in 1..Len(up) :
              /\ up[i].p.m \in InShellSent
              /\ up[i].p.m # "REQUEST_FAILURE" => up[i].p.ch = srv.ch
              /\ up[i].p.m = "DATA" => srv.eof = FALSE
              /\ up[i].p.m = "EOF" => eof = TRUE
              /\ \A k \in 1..(i - 1) : up[i].p.m = "DATA" => up[k].p.m # "EOF"
        /\ srv.eof = TRUE => eof = TRUE

\* What of the output is not shown comes, in order, and nothing of it after an
\* end of the channel.
ShowInv ==
    pc \in Shell =>
        /\ \A i \in 1..Len(Coming) : Coming[i].p.m \in Output =>
              /\ Coming[i].p.ch = LocalChannel
              /\ Coming[i].p.n \in (Len(shown) + 1)..srv.sent
              /\ \A k \in 1..(i - 1) : /\ Coming[k].p.m \notin Ends
                                       /\ Coming[k].p.m \in Output => Coming[k].p.n < Coming[i].p.n
        /\ remote = LocalChannel =>
              /\ Len(shown) <= srv.sent
              /\ \A n \in (Len(shown) + 1)..srv.sent : \E i \in 1..Len(Coming) :
                    Coming[i].p.m \in Output /\ Coming[i].p.n = n
        /\ remote # LocalChannel => shown = <<>>
        /\ srv.phase \in {"channel", "shell"} => \A i \in 1..Len(Coming) : Coming[i].p.m \notin Ends
        /\ srv.phase = "channel" => srv.sent = 0

\* Credit, in the packets that come.
CreditInv ==
    pc \in Shell /\ remote = LocalChannel =>
        srv.credit + OutputsOf(Coming) + Credits(up) = 2 * Window

Live ==
    /\ why = "none" /\ FrameInv /\ UpInv
    /\ PhaseInv /\ PcInv /\ TextInv /\ StageInv
    /\ UnopenedInv /\ ShellInv /\ ShowInv /\ CreditInv

----------------------------------------------------------------------------
(* Steps of the server.                                                    *)

\* The packet in front is one that the server admits.
LEMMA FrontExpected == ASSUME Types, Live, pc # "done", SrvRead PROVE Expected
  <1>1. up # <<>> /\ (up[1].p.m = "IDENT" \/ srv.phase # "ident") /\ srv.phase # "start"
    <2>1. up # <<>> /\ srv.phase # "start" /\ (Head(up).p.m = "IDENT" \/ srv.phase # "ident")
      BY DEF SrvRead
    <2>2. Head(up) = up[1]
      BY <2>1, HeadAndTail DEF Types
    <2> QED
      BY <2>1, <2>2
  <1>2. SUFFICES ASSUME up[1].p.m # "IDENT"
                 PROVE  /\ up[1].seq = srv.recvSeq /\ up[1].enc = srv.recvEnc
                        /\ Admits(up[1].p)
    BY DEF Expected
  <1>3. /\ Len(up) \in Nat /\ Len(up) >= 1 /\ srv.recvSeq < sendSeq
        /\ InTurn(up[1], srv.recvSeq)
    BY <1>1, <1>2, FrontInTurn DEF Live
  <1>4. up[1].seq = srv.recvSeq /\ up[1].enc = srv.recvEnc /\ up[1].p.m \in Due(srv.recvSeq)
    BY <1>3 DEF InTurn, Live, PhaseInv
  <1>5. srv.recvSeq \in Nat /\ sendSeq \in Nat
    BY DEF Types, Peer
  <1>6. CASE srv.recvSeq <= 3
    <2>1. srv.phase = "kex"
      BY <1>1, <1>2, <1>6 DEF Live, PhaseInv
    <2>2. up[1].p.m \in {"KEXINIT", "KEXDH_INIT", "NEWKEYS", "SERVICE_REQUEST"}
      BY <1>4, <1>5, <1>6 DEF Due
    <2> QED
      BY <1>4, <2>1, <2>2 DEF Admits
  <1>7. CASE srv.recvSeq > 3
    <2>1. sendSeq > 4
      BY <1>3, <1>5, <1>7
    <2>2. pc \notin {"IDENT", "KEXINIT", "KEXDH_REPLY", "NEWKEYS", "SERVICE_ACCEPT"}
      BY <2>1 DEF Live, PcInv
    <2>3. pc \in {"password", "AUTH", "CHANNEL"} \cup Shell
      BY <2>2 DEF Live, PcInv, Blocking, Waits
    <2>4. 1 \in 1..Len(up)
      BY <1>3
    <2>5. CASE pc = "password"
      BY <1>1, <2>5 DEF Live, StageInv, Login
    <2>6. CASE pc = "AUTH"
      <3>1. Asked
        BY <2>6 DEF Live, StageInv
      <3>2. up[1].p.m = "USERAUTH_REQUEST" /\ srv.phase = "auth"
        BY <1>1, <3>1 DEF Asked
      <3> QED
        BY <1>4, <3>2 DEF Admits
    <2>7. CASE pc = "CHANNEL"
      <3>1. OpenAsked \/ OpenRefused \/ OpenGranted
        BY <2>7 DEF Live, StageInv
      <3>2. \/ up[1].p.m = "CHANNEL_OPEN" /\ srv.phase = "authed"
            \/ up[1].p.m = "REQUEST_FAILURE" /\ srv.phase \in {"authed", "channel"}
        BY <2>4, <3>1 DEF OpenAsked, OpenRefused, OpenGranted, Only
      <3> QED
        BY <1>4, <3>2 DEF Admits
    <2>8. CASE pc \in Shell
      <3>1. /\ srv.phase \in {"channel", "shell", "rekey", "over"}
            /\ up[1].p.m \in InShellSent
            /\ up[1].p.m # "REQUEST_FAILURE" => up[1].p.ch = srv.ch
            /\ up[1].p.m = "DATA" => srv.eof = FALSE
        BY <2>4, <2>8 DEF Live, ShellInv
      <3> QED
        BY <1>4, <3>1 DEF Admits, InShellSent
    <2> QED
      BY <2>3, <2>5, <2>6, <2>7, <2>8
  <1> QED
    BY <1>5, <1>6, <1>7

\* A server that has not named itself writes lines, or goes.
Writes ==
    /\ srv.phase = "start" /\ srv'.phase \in {"start", "ident"} /\ SameServer /\ SameOutput
    /\ srv'.sendSeq = 0 /\ up' = up
    /\ FrameInv' /\ TextInv' /\ Coming = <<>> /\ Coming' = <<>>

LEMMA NothingYet ==
    ASSUME Types, FrameInv, srv.sendSeq = 0
    PROVE  Coming = <<>> /\ Flying = 0 /\ recvSeq = 0
  <1>1. recvSeq \in Nat /\ Flying \in Nat /\ Flying = srv.sendSeq - recvSeq
    BY DEF Types, FrameInv, Flying
  <1>2. Flying = 0 /\ recvSeq = 0
    BY <1>1
  <1>3. Coming \in Seq(Packet) /\ Len(Coming) = 0
    BY <1>2 DEF FrameInv
  <1> QED
    BY <1>2, <1>3, EmptyIs

LEMMA ServerWrites ==
    ASSUME Types, Types', Live, pc # "done", Server, srv.phase = "start"
    PROVE  Writes /\ UNCHANGED client
  <1>1. srv \in Peer /\ srv.sendSeq = 0 /\ srv.noise \in Nat /\ FrameInv
    BY DEF Types, Peer, Live, PhaseInv
  <1>2. Coming = <<>> /\ Flying = 0 /\ recvSeq = 0
    BY <1>1, NothingYet
  <1>3. pc = "IDENT"
    BY DEF Live, TextInv
  <1>4. ASSUME NEW m \in {"IDENT", "LINE"}, NEW k \in Nat, k # 0, SrvLines(m, k),
               m = "IDENT" => k = 1
        PROVE  Writes /\ UNCHANGED client
    <2> DEFINE t == [i \in 1..k |-> [pkt |-> [p |-> Msg(m), seq |-> 0, enc |-> FALSE],
                                     last |-> TRUE]]
    <2>1. /\ t \in Seq(Piece) /\ Len(t) = k
          /\ \A i \in 1..k : t[i].last = TRUE /\ t[i].pkt.p.m = m
      <3> DEFINE x == [pkt |-> [p |-> Msg(m), seq |-> 0, enc |-> FALSE], last |-> TRUE]
      <3>1. m \in Messages
        BY DEF Messages
      <3>2. x \in Piece
        BY <3>1, MsgType DEF Piece, Packet
      <3>3. x.last = TRUE /\ x.pkt.p.m = m
        BY DEF Msg
      <3>4. t = [i \in 1..k |-> x]
        OBVIOUS
      <3> HIDE DEF t, x
      <3>5. t \in [1..k -> Piece]
        BY <3>2, <3>4
      <3>6. t \in Seq(Piece) /\ Len(t) = k
        BY <3>5, OnInterval
      <3> QED
        BY <3>3, <3>4, <3>6
    <2>2. wire' = wire \o t /\ UNCHANGED client /\ up' = up
      BY <1>4 DEF SrvLines
    <2> HIDE DEF t
    <2>3. /\ SameServer /\ SameOutput /\ srv'.sendSeq = 0
          /\ srv'.phase = IF m = "LINE" THEN "start" ELSE "ident"
      BY <1>1, <1>4 DEF SrvLines, SameServer, SameOutput, Peer
    <2>4. Stream' = Stream \o t /\ recvSeq' = recvSeq /\ pc' = pc
      <3>1. Stream' = buf \o (wire \o t)
        BY <2>2 DEF Stream, client
      <3>2. buf \in Seq(Piece) /\ wire \in Seq(Piece)
        BY DEF Types
      <3>3. buf \o (wire \o t) = (buf \o wire) \o t
        <4>1. t \in Seq(Piece)
          BY <2>1
        <4> QED  BY <3>2, <4>1, JoinedTwice
      <3> QED
        BY <2>2, <3>1, <3>3 DEF Stream, client, control, keys
    <2>5. Framed(Stream, Lead, <<>>) /\ Lead \in Nat /\ Len(Stream) = Lead
      BY <1>2 DEF Live, FrameInv, Framed
    <2>6. Framed(Stream', Lead + k, <<>>)
      BY <2>1, <2>4, <2>5, StreamType, LinesOn
    <2>7. <<>> \in Seq(Packet) /\ Len(<<>>) = 0 /\ Numbered(<<>>, recvSeq')
      BY DEF Numbered
    <2>8. Flying' = 0
      BY <1>2, <2>3, <2>4 DEF Flying
    <2>9. FrameInv' /\ Lead' = Lead + k /\ Coming' = <<>>
      BY <2>6, <2>7, <2>8, NewFrame
    <2>10. ASSUME NEW i \in 1..(Lead + k)
           PROVE  Stream'[i].pkt.p.m =
                      IF i = Lead + k /\ srv'.phase # "start" THEN "IDENT" ELSE "LINE"
      <3>0. /\ \A j \in 1..Len(Stream) : (Stream \o t)[j] = Stream[j]
            /\ \A j \in (Len(Stream) + 1)..(Len(Stream) + Len(t)) :
                   (Stream \o t)[j] = t[j - Len(Stream)]
        BY <2>1, StreamType, Joined
      <3>1. CASE i <= Lead
        <4>1. i \in 1..Lead /\ i # Lead + k
          BY <1>4, <2>5, <3>1
        <4>2. Stream'[i] = Stream[i]
          BY <2>4, <2>5, <3>0, <4>1
        <4>3. Stream[i].pkt.p.m = "LINE"
          BY <1>3, <4>1 DEF Live, TextInv
        <4> QED  BY <4>1, <4>2, <4>3
      <3>2. CASE i > Lead
        <4>1. i - Lead \in 1..k /\ i \in (Len(Stream) + 1)..(Len(Stream) + Len(t))
          BY <2>1, <2>5, <3>2
        <4>2. Stream'[i] = t[i - Lead]
          BY <2>4, <2>5, <3>0, <4>1
        <4>3. Stream'[i].pkt.p.m = m
          BY <2>1, <4>1, <4>2
        <4>4. CASE m = "LINE"
          BY <2>3, <4>3, <4>4
        <4>5. CASE m = "IDENT"
          <5>1. i = Lead + k
            BY <1>4, <2>5, <4>1, <4>5
          <5> QED  BY <2>3, <4>3, <4>5, <5>1
        <4> QED  BY <4>4, <4>5
      <3> QED
        BY <2>5, <3>1, <3>2
    <2>11. Lead' # 0
      BY <1>4, <2>5, <2>9
    <2>12. TextInv'
      BY <1>2, <1>3, <2>4, <2>9, <2>10, <2>11 DEF TextInv
    <2> QED
      BY <1>2, <2>2, <2>3, <2>9, <2>12 DEF Writes
  <1>5. CASE SrvClose
    <2>1. srv' = [srv EXCEPT !.closed = TRUE] /\ UNCHANGED <<client, up, wire>>
      BY <1>5 DEF SrvClose
    <2>2. SameServer /\ SameOutput /\ srv'.phase = srv.phase /\ srv'.sendSeq = srv.sendSeq
      BY <2>1, <1>1 DEF SameServer, SameOutput, Peer
    <2>3. Stream' = Stream /\ recvSeq' = recvSeq /\ pc' = pc
      BY <2>1 DEF client, keys, control, Stream
    <2>4. FrameInv' /\ Lead' = Lead /\ Coming' = Coming
      BY <1>1, <2>2, <2>3, Stays
    <2>5. TextInv'
      BY <2>2, <2>3, <2>4 DEF Live, TextInv
    <2> QED
      BY <1>1, <1>2, <2>1, <2>2, <2>4, <2>5 DEF Writes
  <1>6. 1 \in Nat /\ \A k \in 1..Lines : k \in Nat /\ k # 0
    BY SshAssumption
  <1>7. SrvClose \/ SrvLines("IDENT", 1) \/ \E k \in 1..Lines : SrvLines("LINE", k)
    BY DEF Server, SrvKexinit, SrvRead, SrvNoise, SrvData, SrvFinish, SrvDisconnect
  <1> QED
    BY <1>4, <1>5, <1>6, <1>7

TakesUp == up # <<>> /\ up' = Tail(up) /\ srv.phase # "start" /\ (ReadsIdent \/ ReadsPacket)
SendsNothing == srv'.phase = srv.phase /\ SameOutput /\ Adds(<<>>)
Sending ==
    /\ SameServer /\ up' = up /\ srv.phase # "start"
    /\ SendsHello \/ SendsNoise \/ SendsRekey \/ SendsOutput \/ SendsEnd \/ SendsNothing

LEMMA ServerDoes ==
    ASSUME Types, Types', Live, pc # "done", Server
    PROVE  UNCHANGED client /\ (Writes \/ TakesUp \/ Sending)
  <1>1. CASE srv.phase = "start"
    BY <1>1, ServerWrites
  <1>2. CASE srv.phase # "start" /\ SrvRead
    BY <1>2, FrontExpected, ServerReads DEF Live, TakesUp
  <1>3. CASE srv.phase # "start" /\ ~SrvRead
    BY <1>3, ServerSends DEF Live, Sending, SendsNothing
  <1> QED
    BY <1>1, <1>2, <1>3

\* The client never sends less than the server has read.
LEMMA Behind ==
    ASSUME Types, UpInv
    PROVE  /\ srv.recvSeq <= sendSeq /\ srv.recvSeq \in Nat /\ sendSeq \in Nat
           /\ up = <<>> => srv.recvSeq = sendSeq
  <1>1. up \in Seq(Packet) /\ Len(up) \in Nat /\ srv.recvSeq \in Nat /\ sendSeq \in Nat
    BY DEF Types, Peer
  <1>2. Named \in Nat /\ Named <= Len(up) /\ (up = <<>> => Named = 0 /\ Len(up) = 0)
    <2>1. CASE up = <<>>
      <3>1. Len(up) = 0 /\ Named = 0
        BY <2>1 DEF Named
      <3> QED  BY <3>1
    <2>2. CASE up # <<>>
      <3>1. Len(up) >= 1
        BY <1>1, <2>2, HeadAndTail
      <3>2. Named \in {0, 1}
        BY DEF Named
      <3> QED  BY <1>1, <2>2, <3>1, <3>2
    <2> QED  BY <2>1, <2>2
  <1>3. sendSeq + Named = srv.recvSeq + Len(up)
    BY DEF UpInv
  <1> DEFINE n == Named
             l == Len(up)
             r == srv.recvSeq
  <1>4. /\ n \in Nat /\ n <= l /\ l \in Nat /\ r \in Nat /\ sendSeq \in Nat
        /\ sendSeq + n = r + l /\ (up = <<>> => n = 0 /\ l = 0)
    BY <1>1, <1>2, <1>3
  <1> HIDE DEF n, l, r
  <1>5. r <= sendSeq /\ (up = <<>> => r = sendSeq)
    BY <1>4
  <1> QED
    BY <1>1, <1>5 DEF r

LEMMA SecuredKeys ==
    ASSUME Types, Live, pc \in Secured
    PROVE  srv.recvSeq >= 2 /\ srv.sendEnc = TRUE
  <1>1. srv.recvSeq \in Nat
    BY DEF Types, Peer
  <1>2. srv.recvSeq \in {2, 3} \/ srv.phase \notin {"start", "ident", "kex"}
    BY DEF Live, StageInv, Secured, Service, Login, Asked, OpenAsked, OpenRefused,
           OpenGranted, ShellInv
  <1>3. srv.recvSeq >= 2
    BY <1>1, <1>2 DEF Live, PhaseInv
  <1> QED
    BY <1>3 DEF Live, PhaseInv

LEMMA WritesKeeps ==
    ASSUME Types, Types', Live, pc # "done", Writes, UNCHANGED client
    PROVE  Live'
  <1>1. /\ pc' = pc /\ why' = why /\ sendSeq' = sendSeq /\ recvSeq' = recvSeq
        /\ encrypted' = encrypted /\ remote' = remote /\ eof' = eof /\ shown' = shown
    BY DEF client, control, keys, channel
  <1>2. /\ srv.phase = "start" /\ srv'.phase \in {"start", "ident"} /\ srv'.sendSeq = 0
        /\ srv'.recvSeq = srv.recvSeq /\ srv'.sendEnc = srv.sendEnc
        /\ srv'.recvEnc = srv.recvEnc /\ srv'.eof = srv.eof /\ srv'.err = srv.err
        /\ srv'.sent = srv.sent /\ up' = up /\ FrameInv' /\ TextInv' /\ Coming' = <<>>
    BY DEF Writes, SameServer, SameOutput
  <1>3. pc = "IDENT"
    BY <1>2 DEF Live, TextInv
  <1>4. UpInv'
    BY <1>1, <1>2 DEF Live, UpInv, Named
  <1>5. PhaseInv'
    BY <1>2 DEF Live, PhaseInv
  <1>6. PcInv'
    BY <1>1, <1>2 DEF Live, PcInv
  <1>7. StageInv'
    <2>1. Hello'
      <3>1. Len(<<>>) = 0
        OBVIOUS
      <3> QED  BY <1>2, <3>1 DEF Hello, SealedAs
    <2> QED
      BY <1>1, <1>3, <2>1 DEF StageInv, Secured, Shell
  <1>8. UnopenedInv'
    BY <1>1, <1>2, <1>3 DEF Live, UnopenedInv, Shell
  <1>9. ShellInv' /\ ShowInv' /\ CreditInv'
    BY <1>1, <1>3 DEF ShellInv, ShowInv, CreditInv, Shell
  <1> QED
    BY <1>1, <1>2, <1>4, <1>5, <1>6, <1>7, <1>8, <1>9 DEF Live

\* What the packet in front is, at each stage.
LEMMA FrontAtStage ==
    ASSUME Types, Live, up # <<>>, up[1].p.m # "IDENT", NEW m, m = up[1].p.m
    PROVE  \/ pc = "KEXINIT" /\ srv.recvSeq = 0 /\ m = "KEXINIT"
           \/ pc = "KEXDH_REPLY" /\ srv.recvSeq = 0 /\ m = "KEXINIT"
           \/ pc = "KEXDH_REPLY" /\ srv.recvSeq = 1 /\ m = "KEXDH_INIT"
           \/ pc = "NEWKEYS" /\ srv.recvSeq = 2 /\ m = "NEWKEYS"
           \/ pc = "SERVICE_ACCEPT" /\ srv.recvSeq = 2 /\ m = "NEWKEYS"
           \/ pc = "SERVICE_ACCEPT" /\ srv.recvSeq = 3 /\ m = "SERVICE_REQUEST"
           \/ /\ pc = "AUTH" /\ srv.recvSeq >= 4 /\ m = "USERAUTH_REQUEST"
              /\ Len(up) = 1 /\ srv.phase = "auth" /\ Only(Coming, Calm)
           \/ pc = "CHANNEL" /\ srv.recvSeq >= 4 /\ m = "CHANNEL_OPEN" /\ OpenAsked
           \/ /\ pc = "CHANNEL" /\ srv.recvSeq >= 4 /\ m = "REQUEST_FAILURE"
              /\ OpenRefused \/ OpenGranted
           \/ pc \in Shell /\ srv.recvSeq >= 4 /\ m \in InShellSent
  <1>1. /\ Len(up) >= 1 /\ Len(up) \in Nat /\ InTurn(up[1], srv.recvSeq)
        /\ srv.recvSeq < sendSeq /\ m \in Due(srv.recvSeq)
    BY FrontInTurn DEF Live, InTurn
  <1>2. srv.recvSeq \in Nat /\ sendSeq \in Nat
    BY DEF Types, Peer
  <1>3. srv.phase \notin {"start", "ident", "kex"} => srv.recvSeq >= 4
    BY <1>2 DEF Live, PhaseInv
  <1>4. pc \in {"IDENT", "KEXINIT", "KEXDH_REPLY", "NEWKEYS", "SERVICE_ACCEPT", "AUTH",
                "CHANNEL", "password"} \cup Shell
    BY DEF Live, PcInv, Blocking, Waits
  <1>5. CASE pc = "IDENT"
    BY <1>5 DEF Live, PcInv
  <1>6. CASE pc = "KEXINIT"
    BY <1>1, <1>2, <1>6 DEF Live, PcInv, Due
  <1>7. CASE pc = "KEXDH_REPLY"
    BY <1>1, <1>2, <1>7 DEF Live, PcInv, Due
  <1>8. CASE pc = "NEWKEYS"
    <2>1. srv.recvSeq = 2
      BY <1>1, <1>2, <1>8 DEF Live, PcInv, StageInv, NewKeys
    <2> QED
      BY <1>1, <1>8, <2>1 DEF Due
  <1>9. CASE pc = "SERVICE_ACCEPT"
    <2>1. srv.recvSeq \in {2, 3}
      BY <1>1, <1>2, <1>3, <1>9 DEF Live, PcInv, StageInv, Service
    <2> QED
      BY <1>1, <1>9, <2>1 DEF Due
  <1>10. CASE pc = "AUTH"
    <2>1. /\ Len(up) = 1 /\ up[1].p.m = "USERAUTH_REQUEST"
          /\ srv.phase = "auth" /\ Only(Coming, Calm)
      BY <1>10 DEF Live, StageInv, Asked
    <2> QED
      BY <1>3, <1>10, <2>1
  <1>11. CASE pc = "CHANNEL"
    <2>1. OpenAsked \/ OpenRefused \/ OpenGranted
      BY <1>11 DEF Live, StageInv
    <2>2. srv.recvSeq >= 4
      BY <1>3, <2>1 DEF OpenAsked, OpenRefused, OpenGranted
    <2>3. CASE OpenAsked
      BY <1>11, <2>2, <2>3 DEF OpenAsked
    <2>4. CASE OpenRefused \/ OpenGranted
      <3>1. 1 \in 1..Len(up)
        BY <1>1
      <3>2. m = "REQUEST_FAILURE"
        BY <2>4, <3>1 DEF OpenRefused, OpenGranted, Only
      <3> QED
        BY <1>11, <2>2, <2>4, <3>2
    <2> QED
      BY <2>1, <2>3, <2>4
  <1>12. CASE pc = "password"
    BY <1>12 DEF Live, StageInv, Login
  <1>13. CASE pc \in Shell
    <2>1. 1 \in 1..Len(up)
      BY <1>1
    <2>2. srv.recvSeq >= 4 /\ m \in InShellSent
      BY <1>3, <1>13, <2>1 DEF Live, ShellInv
    <2> QED
      BY <1>13, <2>2
  <1> QED
    BY <1>4, <1>5, <1>6, <1>7, <1>8, <1>9, <1>10, <1>11, <1>12, <1>13

\* Every packet of a burst is calm, or idle once the login is over.
Quiet(Q) ==
    /\ Adds(Q) /\ srv'.phase = srv.phase /\ SameOutput
    /\ Only(Q, IF srv.phase \in {"authed", "channel", "shell"} THEN Idle ELSE Calm)

LEMMA SendingIs ==
    ASSUME Types, Types', Live, Sending
    PROVE  \/ SendsHello \/ SendsRekey \/ SendsOutput \/ SendsEnd
           \/ \E Q \in Seq(Packet) : Quiet(Q)
  <1>1. CASE SendsNoise
    BY <1>1 DEF SendsNoise, Quiet
  <1>2. CASE SendsNothing
    <2>1. <<>> \in Seq(Packet) /\ Len(<<>>) = 0
      OBVIOUS
    <2>2. Quiet(<<>>)
      BY <1>2, <2>1 DEF SendsNothing, Quiet, Only
    <2> QED
      BY <2>1, <2>2
  <1> QED
    BY <1>1, <1>2 DEF Sending

\* Packets that come in front stay there.
LEMMA ExchangeJoined ==
    ASSUME Coming \in Seq(Packet), Answered, NEW Q \in Seq(Packet), Only(Q, Calm),
           SealedAs(Q, TRUE), Coming' = Coming \o Q
    PROVE  Answered'
  <1>1. /\ Len(Coming') = Len(Coming) + Len(Q) /\ Len(Coming) \in Nat /\ Len(Q) \in Nat
        /\ \A i \in 1..Len(Coming) : Coming'[i] = Coming[i]
        /\ \A i \in (Len(Coming) + 1)..(Len(Coming) + Len(Q)) : Coming'[i] = Q[i - Len(Coming)]
    BY Joined
  <1>2. PICK j \in 2..Len(Coming) :
            /\ Coming[j - 1].p.m = "KEXDH_REPLY" /\ Coming[j].p.m = "NEWKEYS"
            /\ \A i \in 1..Len(Coming) :
                   /\ Coming[i].enc = (i > j)
                   /\ i < j - 1 \/ i > j => Coming[i].p.m \in Calm
    BY DEF Answered
  <1>3. j \in 2..Len(Coming') /\ j \in 1..Len(Coming) /\ j - 1 \in 1..Len(Coming)
    BY <1>1
  <1>4. Coming'[j - 1].p.m = "KEXDH_REPLY" /\ Coming'[j].p.m = "NEWKEYS"
    BY <1>1, <1>2, <1>3
  <1>5. ASSUME NEW i \in 1..Len(Coming')
        PROVE  /\ Coming'[i].enc = (i > j)
               /\ i < j - 1 \/ i > j => Coming'[i].p.m \in Calm
    <2>1. CASE i <= Len(Coming)
      <3>1. i \in 1..Len(Coming)
        BY <1>1, <2>1
      <3> QED  BY <3>1, <1>1, <1>2
    <2>2. CASE i > Len(Coming)
      <3>1. i - Len(Coming) \in 1..Len(Q) /\ Coming'[i] = Q[i - Len(Coming)] /\ i > j
        BY <1>1, <2>2
      <3>2. Coming'[i].enc = TRUE /\ Coming'[i].p.m \in Calm
        BY <3>1 DEF Only, SealedAs
      <3> QED  BY <3>1, <3>2
    <2> QED
      BY <1>1, <2>1, <2>2
  <1> QED
    BY <1>3, <1>4, <1>5 DEF Answered

LEMMA NewKeysJoined ==
    ASSUME Coming \in Seq(Packet), Len(Coming) >= 1, NEW Q \in Seq(Packet), Only(Q, Calm),
           SealedAs(Q, TRUE), Coming' = Coming \o Q,
           Coming[1].p.m = "NEWKEYS", Coming[1].enc = FALSE,
           \A i \in 2..Len(Coming) : Coming[i].p.m \in Calm /\ Coming[i].enc = TRUE
    PROVE  /\ Len(Coming') >= 1 /\ Coming'[1].p.m = "NEWKEYS" /\ Coming'[1].enc = FALSE
           /\ \A i \in 2..Len(Coming') : Coming'[i].p.m \in Calm /\ Coming'[i].enc = TRUE
  <1>1. /\ Len(Coming') = Len(Coming) + Len(Q) /\ Len(Coming) \in Nat /\ Len(Q) \in Nat
        /\ \A i \in 1..Len(Coming) : Coming'[i] = Coming[i]
        /\ \A i \in (Len(Coming) + 1)..(Len(Coming) + Len(Q)) : Coming'[i] = Q[i - Len(Coming)]
    BY Joined
  <1>2. 1 \in 1..Len(Coming) /\ Len(Coming') >= 1
    BY <1>1
  <1>3. ASSUME NEW i \in 2..Len(Coming')
        PROVE  Coming'[i].p.m \in Calm /\ Coming'[i].enc = TRUE
    <2>1. CASE i <= Len(Coming)
      <3>1. i \in 1..Len(Coming) /\ i \in 2..Len(Coming)
        BY <1>1, <2>1
      <3> QED  BY <3>1, <1>1
    <2>2. CASE i > Len(Coming)
      <3>1. i - Len(Coming) \in 1..Len(Q) /\ Coming'[i] = Q[i - Len(Coming)]
        BY <1>1, <2>2
      <3> QED  BY <3>1 DEF Only, SealedAs
    <2>3. i <= Len(Coming) \/ i > Len(Coming)
      BY <1>1
    <2> QED
      BY <2>1, <2>2, <2>3, Zenon
  <1> QED
    BY <1>1, <1>2, <1>3

\* The stage, when nothing but idle talk arrives.
LEMMA QuietStage ==
    ASSUME Types, Types', Live, pc' = pc, up' = up, SameServer, NEW Q \in Seq(Packet), Quiet(Q)
    PROVE  StageInv'
  <1>1. /\ Coming \in Seq(Packet) /\ Coming' = Coming \o Q /\ SealedAs(Q, srv.sendEnc)
        /\ srv'.phase = srv.phase /\ srv'.recvSeq = srv.recvSeq /\ srv'.ch = srv.ch
        /\ srv'.credit = srv.credit
    BY DEF Live, FrameInv, Quiet, Adds, SameServer, SameOutput
  <1>2. /\ srv.recvSeq \in Nat /\ sendSeq \in Nat /\ srv.recvSeq <= sendSeq
        /\ srv.sendEnc = (srv.recvSeq >= 2)
    BY Behind DEF Live, PhaseInv
  <1>2a. srv.recvSeq < 2 => srv.sendEnc = FALSE
    <2>1. srv.recvSeq < 2 => ~(srv.recvSeq >= 2)
      BY <1>2
    <2>2. srv.sendEnc \in BOOLEAN
      BY DEF Types, Peer
    <2> QED
      BY <1>2, <2>1, <2>2
  <1>3. srv.phase \notin {"authed", "channel", "shell"} => Only(Q, Calm)
    BY DEF Quiet
  <1>4. srv.phase \in {"authed", "channel"} => Only(Q, Idle)
    BY DEF Quiet
  <1>5. CASE pc \in {"IDENT", "KEXINIT"}
    <2>1. Hello /\ srv.recvSeq < 2
      BY <1>2, <1>5 DEF Live, StageInv, PcInv
    <2>2. SealedAs(Q, FALSE)
      BY <1>1, <1>2a, <2>1
    <2>3. SealedAs(Coming', FALSE)
      BY <1>1, <2>1, <2>2, SealedJoined DEF Hello
    <2>4. srv'.phase = "kex" => Awaits(Coming', "KEXINIT", {}, Calm)
      BY <1>1, <1>3, <2>1, AwaitsJoined DEF Hello
    <2>5. Hello'
      BY <2>3, <2>4 DEF Hello
    <2> QED
      BY <1>5, <2>5 DEF StageInv, Secured, Shell
  <1>6. CASE pc = "KEXDH_REPLY"
    <2>1. Exchange
      BY <1>6 DEF Live, StageInv
    <2>2. Only(Q, Calm) /\ srv.phase = "kex"
      BY <1>3, <2>1 DEF Exchange
    <2>3. ASSUME srv.recvSeq < 2, Only(Coming, Calm), SealedAs(Coming, FALSE) PROVE Exchange'
      <3>1. SealedAs(Q, FALSE)
        BY <1>1, <1>2a, <2>3
      <3>2. Only(Coming', Calm) /\ SealedAs(Coming', FALSE)
        BY <1>1, <2>2, <2>3, <3>1, OnlyJoined, SealedJoined
      <3> QED
        BY <1>1, <2>2, <2>3, <3>2 DEF Exchange
    <2>4. ASSUME srv.recvSeq >= 2, Answered PROVE Exchange'
      <3>1. SealedAs(Q, TRUE)
        BY <1>1, <1>2, <2>4
      <3>2. Answered'
        BY <1>1, <2>2, <2>4, <3>1, ExchangeJoined
      <3> QED
        BY <1>1, <2>2, <2>4, <3>2 DEF Exchange
    <2>5. Exchange'
      BY <2>1, <2>3, <2>4 DEF Exchange
    <2> QED
      BY <1>6, <2>5 DEF StageInv, Secured, Shell
  <1>7. CASE pc = "NEWKEYS"
    <2>1. NewKeys
      BY <1>7 DEF Live, StageInv
    <2>2. Only(Q, Calm) /\ SealedAs(Q, TRUE)
      BY <1>1, <1>2, <1>3, <2>1 DEF NewKeys
    <2>3. NewKeys'
      BY <1>1, <2>1, <2>2, NewKeysJoined DEF NewKeys
    <2> QED
      BY <1>7, <2>3 DEF StageInv, Secured, Shell
  <1>8. CASE pc \in Secured
    <2>1. SealedAs(Coming', TRUE)
      <3>1. SealedAs(Coming, TRUE) /\ SealedAs(Q, TRUE)
        BY <1>1, <1>8, SecuredKeys DEF Live, StageInv
      <3> QED
        BY <1>1, <3>1, SealedJoined
    <2>2. CASE pc = "SERVICE_ACCEPT"
      <3>1. Service
        BY <2>2 DEF Live, StageInv
      <3>2. Only(Q, Calm)
        BY <1>3, <3>1 DEF Service, Live, PhaseInv
      <3>3. ASSUME srv.recvSeq \in {2, 3}, Only(Coming, Calm) PROVE Service'
        BY <1>1, <3>2, <3>3, OnlyJoined DEF Service
      <3>4. ASSUME srv.phase = "auth", Awaits(Coming, "SERVICE_ACCEPT", Calm, Calm) PROVE Service'
        BY <1>1, <3>2, <3>4, AwaitsJoined DEF Service
      <3>5. Service'
        BY <3>1, <3>3, <3>4 DEF Service
      <3> QED
        BY <2>1, <2>2, <3>5 DEF StageInv
    <2>3. CASE pc = "password"
      <3>1. Login
        BY <2>3 DEF Live, StageInv
      <3>2. Login'
        BY <1>1, <1>3, <3>1, OnlyJoined DEF Login
      <3> QED
        BY <2>1, <2>3, <3>2 DEF StageInv
    <2>4. CASE pc = "AUTH"
      <3>1. Asked
        BY <2>4 DEF Live, StageInv
      <3>2. ASSUME Len(up) = 1, up[1].p.m = "USERAUTH_REQUEST",
                   srv.phase = "auth", Only(Coming, Calm)
            PROVE  Asked'
        <4>1. Only(Coming', Calm)
          BY <1>1, <1>3, <3>2, OnlyJoined
        <4> QED
          BY <1>1, <3>2, <4>1 DEF Asked
      <3>3. ASSUME up = <<>>, srv.phase = "auth",
                   Awaits(Coming, "USERAUTH_FAILURE", Calm, Calm)
            PROVE  Asked'
        <4>1. Awaits(Coming', "USERAUTH_FAILURE", Calm, Calm)
          BY <1>1, <1>3, <3>3, AwaitsJoined
        <4> QED
          BY <1>1, <3>3, <4>1 DEF Asked
      <3>4. ASSUME up = <<>>, srv.phase = "authed",
                   Awaits(Coming, "USERAUTH_SUCCESS", Calm, Idle)
            PROVE  Asked'
        <4>1. Awaits(Coming', "USERAUTH_SUCCESS", Calm, Idle)
          BY <1>1, <1>4, <3>4, AwaitsJoined
        <4> QED
          BY <1>1, <3>4, <4>1 DEF Asked
      <3>5. Asked'
        BY <3>1, <3>2, <3>3, <3>4 DEF Asked
      <3> QED
        BY <2>1, <2>4, <3>5 DEF StageInv
    <2>5. CASE pc = "CHANNEL"
      <3>1. ASSUME OpenAsked PROVE OpenAsked'
        <4>1. Only(Coming', Idle)
          BY <1>1, <1>4, <3>1, OnlyJoined DEF OpenAsked
        <4> QED
          BY <1>1, <3>1, <4>1 DEF OpenAsked
      <3>2. ASSUME OpenRefused PROVE OpenRefused'
        <4>1. Awaits(Coming', "CHANNEL_OPEN_FAILURE", Idle, Idle)
          BY <1>1, <1>4, <3>2, AwaitsJoined DEF OpenRefused
        <4> QED
          BY <1>1, <3>2, <4>1 DEF OpenRefused
      <3>3. ASSUME OpenGranted PROVE OpenGranted'
        <4>1. Only(Q, Idle)
          BY <1>4, <3>3 DEF OpenGranted
        <4>2. Awaits(Coming', "CHANNEL_OPEN_CONFIRMATION", Idle, Idle)
          BY <1>1, <3>3, <4>1, AwaitsJoined DEF OpenGranted
        <4>3. /\ Len(Coming') = Len(Coming) + Len(Q) /\ Len(Coming) \in Nat
              /\ \A i \in 1..Len(Coming) : Coming'[i] = Coming[i]
              /\ \A i \in (Len(Coming) + 1)..(Len(Coming) + Len(Q)) :
                     Coming'[i] = Q[i - Len(Coming)]
              /\ Len(Q) \in Nat
          BY <1>1, Joined
        <4>4. ASSUME NEW i \in 1..Len(Coming'), Coming'[i].p.m = "CHANNEL_OPEN_CONFIRMATION"
              PROVE  Coming'[i].p.ch = srv'.ch
          <5>1. CASE i <= Len(Coming)
            <6>1. i \in 1..Len(Coming) /\ Coming'[i] = Coming[i]
              BY <4>3, <5>1
            <6> QED
              BY <1>1, <3>3, <4>4, <6>1 DEF OpenGranted
          <5>2. CASE i > Len(Coming)
            <6>1. i - Len(Coming) \in 1..Len(Q) /\ Coming'[i] = Q[i - Len(Coming)]
              BY <4>3, <5>2
            <6> QED
              BY <4>1, <4>4, <6>1 DEF Only, Idle, Calm
          <5> QED
            BY <4>3, <5>1, <5>2
        <4> QED
          BY <1>1, <3>3, <4>2, <4>4 DEF OpenGranted
      <3>4. OpenAsked' \/ OpenRefused' \/ OpenGranted'
        BY <2>5, <3>1, <3>2, <3>3 DEF Live, StageInv
      <3> QED
        BY <2>1, <2>5, <3>4 DEF StageInv
    <2>6. CASE pc \in Shell
      BY <2>1, <2>6 DEF StageInv, Shell
    <2> QED
      BY <1>8, <2>2, <2>3, <2>4, <2>5, <2>6 DEF Secured
  <1> QED
    BY <1>5, <1>6, <1>7, <1>8 DEF Live, PcInv, Blocking, Waits, Secured

\* The stage, when the server opens the key exchange.
LEMMA HelloStage ==
    ASSUME Types, Types', Live, pc' = pc, up' = up, SameServer, SendsHello
    PROVE  StageInv' /\ pc \in {"IDENT", "KEXINIT"} /\ srv.recvSeq = 0
  <1>1. srv.phase = "ident" /\ srv'.phase = "kex" /\ srv.recvSeq = 0 /\ srv.sendSeq = 0
    BY DEF SendsHello, Live, PhaseInv
  <1>2. PICK Q \in Seq(Packet) : Adds(Q) /\ Len(Q) = 1 /\ Q[1].p.m = "KEXINIT"
    BY DEF SendsHello
  <1>3. Coming = <<>> /\ Coming \in Seq(Packet)
    BY <1>1, NothingYet DEF Live, FrameInv
  <1>4. srv.sendEnc = FALSE
    <2>1. srv.sendEnc \in BOOLEAN /\ ~(srv.recvSeq >= 2)
      BY <1>1 DEF Types, Peer
    <2> QED
      BY <2>1 DEF Live, PhaseInv
  <1>5. SealedAs(Coming, FALSE) /\ Only(Coming, {})
    <2>1. Len(Coming) = 0
      BY <1>3
    <2> QED
      BY <2>1 DEF SealedAs, Only
  <1>6. SealedAs(Q, FALSE) /\ Coming' = Coming \o Q
    BY <1>2, <1>4 DEF Adds
  <1>7. SealedAs(Coming', FALSE) /\ Awaits(Coming', "KEXINIT", {}, Calm)
    BY <1>2, <1>3, <1>5, <1>6, SealedJoined, AwaitsNew
  <1>8. Hello'
    BY <1>7 DEF Hello
  <1>9. pc \in {"IDENT", "KEXINIT"}
    <2>1. pc \notin Secured
      BY <1>1, SecuredKeys
    <2>2. pc # "KEXDH_REPLY" /\ pc # "NEWKEYS"
      BY <1>1 DEF Live, StageInv, Exchange, NewKeys
    <2> QED
      BY <2>1, <2>2 DEF Live, PcInv, Blocking, Waits, Secured
  <1> QED
    BY <1>1, <1>8, <1>9 DEF StageInv, Secured, Shell

\* The output that comes, when more packets come that are none.
LEMMA ShowMore ==
    ASSUME Types, Live, pc \in Shell, NEW Q \in Seq(Packet), Coming' = Coming \o Q,
           \A i \in 1..Len(Q) : Q[i].p.m \notin Output,
           shown' = shown, remote' = remote, srv'.sent = srv.sent,
           srv'.phase \in {"channel", "shell"} =>
               srv.phase \in {"channel", "shell"} /\ \A i \in 1..Len(Q) : Q[i].p.m \notin Ends,
           srv'.phase = "channel" => srv.phase = "channel"
    PROVE  ShowInv'
  <1>1. Coming \in Seq(Packet) /\ ShowInv
    BY DEF Live, FrameInv
  <1>2. /\ Len(Coming') = Len(Coming) + Len(Q) /\ Len(Coming) \in Nat /\ Len(Q) \in Nat
        /\ \A i \in 1..Len(Coming) : Coming'[i] = Coming[i]
        /\ \A i \in (Len(Coming) + 1)..(Len(Coming) + Len(Q)) : Coming'[i] = Q[i - Len(Coming)]
    BY <1>1, Joined
  <1>3. ASSUME NEW i \in 1..Len(Coming'), Coming'[i].p.m \in Output
        PROVE  i \in 1..Len(Coming)
    <2>1. CASE i > Len(Coming)
      <3>1. i - Len(Coming) \in 1..Len(Q) /\ Coming'[i] = Q[i - Len(Coming)]
        BY <1>2, <2>1
      <3> QED
        BY <1>3, <3>1
    <2>2. CASE i <= Len(Coming)
      BY <1>2, <2>2
    <2> QED
      BY <1>2, <2>1, <2>2
  <1>4. ASSUME NEW i \in 1..Len(Coming'), Coming'[i].p.m \in Output
        PROVE  /\ Coming'[i].p.ch = LocalChannel
               /\ Coming'[i].p.n \in (Len(shown') + 1)..srv'.sent
               /\ \A k \in 1..(i - 1) :
                      /\ Coming'[k].p.m \notin Ends
                      /\ Coming'[k].p.m \in Output => Coming'[k].p.n < Coming'[i].p.n
    <2>1. i \in 1..Len(Coming) /\ Coming'[i] = Coming[i] /\ Coming[i].p.m \in Output
      BY <1>2, <1>3, <1>4
    <2>2. \A k \in 1..(i - 1) : k \in 1..Len(Coming)
      BY <1>2, <2>1
    <2>3. \A k \in 1..(i - 1) : Coming'[k] = Coming[k]
      BY <1>2, <2>2
    <2>4. /\ Coming[i].p.ch = LocalChannel
          /\ Coming[i].p.n \in (Len(shown) + 1)..srv.sent
          /\ \A k \in 1..(i - 1) :
                 /\ Coming[k].p.m \notin Ends
                 /\ Coming[k].p.m \in Output => Coming[k].p.n < Coming[i].p.n
      BY <1>1, <2>1 DEF ShowInv
    <2> QED
      BY <2>1, <2>3, <2>4
  <1>5. ASSUME remote' = LocalChannel
        PROVE  /\ Len(shown') <= srv'.sent
               /\ \A n \in (Len(shown') + 1)..srv'.sent : \E i \in 1..Len(Coming') :
                     Coming'[i].p.m \in Output /\ Coming'[i].p.n = n
    <2>1. /\ Len(shown) <= srv.sent
          /\ \A n \in (Len(shown) + 1)..srv.sent : \E i \in 1..Len(Coming) :
                Coming[i].p.m \in Output /\ Coming[i].p.n = n
      BY <1>1, <1>5 DEF ShowInv
    <2>2. ASSUME NEW n \in (Len(shown) + 1)..srv.sent
          PROVE  \E i \in 1..Len(Coming') : Coming'[i].p.m \in Output /\ Coming'[i].p.n = n
      <3>1. PICK i \in 1..Len(Coming) : Coming[i].p.m \in Output /\ Coming[i].p.n = n
        BY <2>1
      <3>2. i \in 1..Len(Coming') /\ Coming'[i] = Coming[i]
        BY <1>2
      <3> QED
        BY <3>1, <3>2
    <2> QED
      BY <2>1, <2>2
  <1>6. remote' # LocalChannel => shown' = <<>>
    BY <1>1 DEF ShowInv
  <1>7. ASSUME srv'.phase \in {"channel", "shell"}, NEW i \in 1..Len(Coming')
        PROVE  Coming'[i].p.m \notin Ends
    <2>1. CASE i <= Len(Coming)
      <3>1. i \in 1..Len(Coming) /\ Coming'[i] = Coming[i]
        BY <1>2, <2>1
      <3> QED
        BY <1>1, <1>7, <3>1 DEF ShowInv
    <2>2. CASE i > Len(Coming)
      <3>1. i - Len(Coming) \in 1..Len(Q) /\ Coming'[i] = Q[i - Len(Coming)]
        BY <1>2, <2>2
      <3> QED
        BY <1>7, <3>1
    <2>3. i <= Len(Coming) \/ i > Len(Coming)
      BY <1>2
    <2> QED
      BY <2>1, <2>2, <2>3, Zenon
  <1>8. srv'.phase = "channel" => srv'.sent = 0
    BY <1>1 DEF ShowInv
  <1> QED
    BY <1>4, <1>5, <1>6, <1>7, <1>8 DEF ShowInv

\* And when the next packet of output comes.
LEMMA ShowOutput ==
    ASSUME Types, Live, pc \in Shell, NEW Q \in Seq(Packet), Coming' = Coming \o Q,
           Len(Q) = 1, Q[1].p.m \in Output, Q[1].p.ch = LocalChannel,
           Q[1].p.n = srv.sent + 1, srv'.sent = srv.sent + 1,
           shown' = shown, remote' = remote, srv.phase = "shell", srv'.phase = "shell"
    PROVE  ShowInv'
  <1>1. Coming \in Seq(Packet) /\ ShowInv /\ srv.sent \in Nat /\ Len(shown) \in Nat
    BY DEF Live, FrameInv, Types, Peer
  <1> DEFINE N == Len(Coming)
             x == Q[1]
  <1>2. /\ Len(Coming') = N + 1 /\ N \in Nat
        /\ \A i \in 1..N : Coming'[i] = Coming[i]
        /\ Coming'[N + 1] = x
    <2>1. /\ Len(Coming') = Len(Coming) + Len(Q) /\ Len(Coming) \in Nat
          /\ \A i \in 1..Len(Coming) : Coming'[i] = Coming[i]
          /\ \A i \in (Len(Coming) + 1)..(Len(Coming) + Len(Q)) : Coming'[i] = Q[i - Len(Coming)]
      BY <1>1, Joined
    <2>2. N + 1 \in (N + 1)..(N + 1) /\ (N + 1) - N = 1
      BY <2>1
    <2> QED
      BY <2>1, <2>2
  <1>3. /\ x.p.m \in Output /\ x.p.ch = LocalChannel /\ x.p.n = srv.sent + 1
        /\ x.p.m \notin Ends
    BY DEF Output, Ends
  <1>4. \A i \in 1..N : /\ Coming[i].p.m \notin Ends
                        /\ Coming[i].p.m \in Output => Coming[i].p.ch = LocalChannel
                        /\ Coming[i].p.m \in Output =>
                               Coming[i].p.n \in (Len(shown) + 1)..srv.sent
    BY <1>1 DEF ShowInv
  <1> HIDE DEF N, x
  <1>8. Len(shown) <= srv.sent
    <2>1. shown = <<>> => Len(shown) = 0
      OBVIOUS
    <2> QED
      BY <1>1, <2>1 DEF ShowInv
  <1>5. ASSUME NEW i \in 1..(N + 1), Coming'[i].p.m \in Output
        PROVE  /\ Coming'[i].p.ch = LocalChannel
               /\ Coming'[i].p.n \in (Len(shown') + 1)..srv'.sent
    <2>1. CASE i \in 1..N
      <3>1. Coming'[i] = Coming[i]
        BY <1>2, <2>1
      <3>2. Coming[i].p.n \in (Len(shown) + 1)..srv.sent =>
                Coming[i].p.n \in (Len(shown) + 1)..(srv.sent + 1)
        BY <1>1
      <3> QED
        BY <1>4, <1>5, <2>1, <3>1, <3>2
    <2>2. CASE i = N + 1
      <3>1. Len(shown) <= srv.sent
        BY <1>1, <1>8
      <3>2. srv.sent + 1 \in (Len(shown) + 1)..(srv.sent + 1)
        BY <1>1, <3>1
      <3> QED
        BY <1>2, <1>3, <2>2, <3>2
    <2>3. i \in 1..N \/ i = N + 1
      BY <1>2
    <2> QED
      BY <2>1, <2>2, <2>3, Zenon
  <1>6. ASSUME remote' = LocalChannel, NEW n \in (Len(shown') + 1)..srv'.sent
        PROVE  \E i \in 1..(N + 1) : Coming'[i].p.m \in Output /\ Coming'[i].p.n = n
    <2>1. CASE n = srv.sent + 1
      <3>1. N + 1 \in 1..(N + 1)
        BY <1>2
      <3> QED
        BY <1>2, <1>3, <2>1, <3>1
    <2>2. CASE n # srv.sent + 1
      <3>0. n \in (Len(shown) + 1)..(srv.sent + 1)
        BY <1>6
      <3>1. n \in (Len(shown) + 1)..srv.sent
        <4> DEFINE l == Len(shown)
                   t == srv.sent
        <4>1. l \in Nat /\ t \in Nat /\ n \in (l + 1)..(t + 1) /\ n # t + 1
          BY <1>1, <2>2, <3>0
        <4> HIDE DEF l, t
        <4>2. n \in (l + 1)..t
          BY <4>1
        <4> QED
          BY <4>2 DEF l, t
      <3>2. PICK i \in 1..N : Coming[i].p.m \in Output /\ Coming[i].p.n = n
        BY <1>1, <1>6, <3>1 DEF ShowInv, N
      <3>3. i \in 1..(N + 1)
        BY <1>2
      <3>4. Coming'[i] = Coming[i]
        BY <1>2
      <3> QED
        BY <3>2, <3>3, <3>4
    <2> QED
      BY <2>1, <2>2
  <1>7. \A i \in 1..(N + 1) : Coming'[i].p.m \notin Ends
    <2> TAKE i \in 1..(N + 1)
    <2>1. i \in 1..N \/ i = N + 1
      BY <1>2
    <2> QED
      BY <1>2, <1>3, <1>4, <2>1
  <1>9. remote' # LocalChannel => shown' = <<>>
    BY <1>1 DEF ShowInv
  <1>10. ASSUME NEW i \in 1..(N + 1), Coming'[i].p.m \in Output, NEW k \in 1..(i - 1),
                Coming'[k].p.m \in Output
         PROVE  Coming'[k].p.n < Coming'[i].p.n
    <2>1. k \in 1..N /\ Coming'[k] = Coming[k]
      BY <1>2
    <2>2. CASE i \in 1..N
      <3>1. Coming'[i] = Coming[i] /\ i \in 1..Len(Coming)
        BY <1>2, <2>2 DEF N
      <3> QED
        BY <1>1, <1>10, <2>1, <3>1 DEF ShowInv
    <2>3. CASE i = N + 1
      <3>1. Coming[k].p.n <= srv.sent
        BY <1>1, <1>4, <1>10, <2>1
      <3>2. Coming[k].p.n \in Int
        BY <1>1, <1>4, <1>10, <2>1
      <3>3. Coming'[i].p.n = srv.sent + 1 /\ Coming'[k].p.n = Coming[k].p.n
        BY <1>2, <1>3, <2>1, <2>3
      <3>4. \A a \in Int, b \in Nat : a <= b => a < b + 1
        OBVIOUS
      <3>5. Coming[k].p.n < srv.sent + 1
        BY <1>1, <3>1, <3>2, <3>4
      <3> QED
        BY <3>3, <3>5
    <2> QED
      BY <1>2, <2>2, <2>3
  <1> QED
    <2>1. Len(Coming') = N + 1 /\ Len(shown') <= srv'.sent
      BY <1>1, <1>2, <1>8
    <2> QED
      BY <2>1, <1>5, <1>6, <1>7, <1>9, <1>10 DEF ShowInv

LEMMA SendingKeeps ==
    ASSUME Types, Types', Live, pc # "done", Sending, UNCHANGED client
    PROVE  Live'
  <1>1. /\ pc' = pc /\ why' = why /\ sendSeq' = sendSeq /\ recvSeq' = recvSeq
        /\ encrypted' = encrypted /\ remote' = remote /\ eof' = eof /\ shown' = shown
    BY DEF client, control, keys, channel
  <1>2. /\ srv'.recvSeq = srv.recvSeq /\ srv'.sendEnc = srv.sendEnc
        /\ srv'.recvEnc = srv.recvEnc /\ srv'.ch = srv.ch /\ srv'.eof = srv.eof
        /\ srv'.err = srv.err /\ up' = up /\ srv.phase # "start" /\ SameServer
    BY DEF Sending, SameServer
  <1>3. SendsHello \/ SendsRekey \/ SendsOutput \/ SendsEnd
        \/ \E Q \in Seq(Packet) : Quiet(Q)
    BY SendingIs
  <1>4. PICK Q \in Seq(Packet) : Adds(Q)
    BY <1>3 DEF SendsHello, SendsRekey, SendsOutput, SendsEnd, Quiet
  <1>5. FrameInv' /\ Lead' = Lead /\ SameText
    BY <1>4 DEF Adds
  <1>6. UpInv'
    BY <1>1, <1>2 DEF Live, UpInv, Named
  <1>7. \/ srv'.phase = srv.phase
        \/ srv.phase = "ident" /\ srv'.phase = "kex"
        \/ srv.phase = "shell" /\ srv'.phase \in {"rekey", "shell", "over"}
    BY <1>3 DEF SendsHello, SendsRekey, SendsOutput, SendsEnd, Quiet
  <1>8. PhaseInv'
    <2>1. ASSUME srv'.phase \in {"start", "ident"} PROVE srv'.recvSeq = 0 /\ srv'.sendSeq = 0
      <3>1. srv.phase = "ident" /\ srv'.phase = "ident" /\ srv.recvSeq = 0 /\ srv.sendSeq = 0
        BY <1>2, <1>7, <2>1 DEF Live, PhaseInv
      <3>2. PICK R \in Seq(Packet) : Quiet(R)
        BY <1>3, <3>1 DEF SendsHello, SendsRekey, SendsOutput, SendsEnd
      <3>3. srv'.sendSeq = srv.sendSeq
        <4>1. SendsNothing \/ srv.phase \notin {"start", "ident"}
          BY <3>1 DEF Sending, SendsHello, SendsNoise, SendsRekey, SendsOutput, SendsEnd
        <4>2. Adds(<<>>) /\ Coming = <<>> /\ recvSeq = 0
          BY <3>1, <4>1, NothingYet DEF SendsNothing, Live
        <4>3. Coming' = <<>>
          <5>1. <<>> \o <<>> = <<>>
            OBVIOUS
          <5> QED  BY <4>2, <5>1 DEF Adds
        <4>4. Flying' = 0
          <5>1. Len(Coming') = Flying' /\ Len(<<>>) = 0
            BY <1>5 DEF FrameInv
          <5> QED  BY <4>3, <5>1
        <4>5. srv'.sendSeq \in Nat /\ Flying' = srv'.sendSeq - recvSeq'
          BY DEF Types, Peer, Flying
        <4> QED
          BY <1>1, <3>1, <4>2, <4>4, <4>5
      <3> QED
        BY <1>2, <3>1, <3>3
    <2>2. srv'.phase \in {"start", "ident", "kex"} <=> srv.phase \in {"start", "ident", "kex"}
      BY <1>7
    <2> QED
      BY <1>2, <2>1, <2>2 DEF Live, PhaseInv
  <1>9. PcInv'
    BY <1>1, <1>2 DEF Live, PcInv
  <1>10. TextInv'
    <2>1. srv'.phase # "start"
      BY <1>2, <1>7
    <2> QED
      BY <1>1, <1>2, <1>5, <2>1 DEF Live, TextInv, SameText
  <1>11. StageInv'
    <2>1. CASE SendsHello
      BY <1>1, <1>2, <2>1, HelloStage
    <2>2. CASE \E R \in Seq(Packet) : Quiet(R)
      BY <1>1, <1>2, <2>2, QuietStage
    <2>3. CASE SendsRekey \/ SendsOutput \/ SendsEnd
      <3>1. pc \in Shell
        BY <2>3 DEF SendsRekey, SendsOutput, SendsEnd, Live, UnopenedInv
      <3>2. pc \in Secured
        BY <3>1 DEF Secured
      <3>3. SealedAs(Coming, TRUE) /\ SealedAs(Q, TRUE) /\ Coming' = Coming \o Q
            /\ Coming \in Seq(Packet)
        BY <1>4, <3>2, SecuredKeys DEF Live, StageInv, Adds, FrameInv
      <3>4. SealedAs(Coming', TRUE)
        BY <3>3, SealedJoined
      <3> QED
        BY <1>1, <3>1, <3>4 DEF StageInv, Shell
    <2> QED
      BY <1>3, <2>1, <2>2, <2>3
  <1>12. UnopenedInv'
    <2>1. ASSUME pc \notin Shell
          PROVE  srv'.sent = srv.sent /\ srv'.phase \notin {"shell", "rekey", "over"}
      <3>1. srv.phase \notin {"shell", "rekey", "over"}
        BY <2>1 DEF Live, UnopenedInv
      <3>2. SendsHello \/ \E R \in Seq(Packet) : Quiet(R)
        BY <1>3, <3>1 DEF SendsRekey, SendsOutput, SendsEnd
      <3>3. SameOutput
        BY <3>2 DEF SendsHello, Quiet
      <3> QED
        BY <1>7, <3>1, <3>3 DEF SameOutput
    <2> QED
      BY <1>1, <1>2, <2>1 DEF Live, UnopenedInv
  <1>13. ShellInv'
    BY <1>1, <1>2, <1>7 DEF Live, ShellInv
  <1>14. SUFFICES ASSUME pc \in Shell PROVE ShowInv' /\ CreditInv'
    BY <1>1, <1>5, <1>6, <1>8, <1>9, <1>10, <1>11, <1>12, <1>13 DEF Live, ShowInv, CreditInv
  <1>15. srv.phase \in {"channel", "shell", "rekey", "over"}
    BY <1>14 DEF Live, ShellInv
  <1>16. /\ Coming \in Seq(Packet) /\ up \in Seq(Packet)
         /\ srv.credit \in Nat /\ srv'.credit \in Nat /\ srv.sent \in Nat /\ Window \in Nat
    BY SshAssumption DEF Types, Peer, Live, FrameInv
  <1>17. ASSUME NEW R \in Seq(Packet), Adds(R), SameOutput,
                \A i \in 1..Len(R) : R[i].p.m \notin Output,
                srv'.phase \in {"channel", "shell"} =>
                    /\ srv.phase \in {"channel", "shell"}
                    /\ \A i \in 1..Len(R) : R[i].p.m \notin Ends,
                srv'.phase = "channel" => srv.phase = "channel"
         PROVE  ShowInv' /\ CreditInv'
    <2>1. Coming' = Coming \o R /\ srv'.sent = srv.sent /\ srv'.credit = srv.credit
      BY <1>17 DEF Adds, SameOutput
    <2>2. ShowInv'
      BY <1>1, <1>14, <1>17, <2>1, ShowMore
    <2>3. OutputsOf(R) = 0
      BY <1>17, OutputsOfNone
    <2>4. OutputsOf(Coming') = OutputsOf(Coming)
      <3>1. /\ OutputsOf(Coming \o R) = OutputsOf(Coming) + OutputsOf(R)
            /\ OutputsOf(Coming) \in Nat
        BY <1>16, OutputsJoined
      <3> QED
        BY <2>1, <2>3, <3>1
    <2>5. CreditInv'
      BY <1>1, <1>2, <2>1, <2>4 DEF Live, CreditInv
    <2> QED
      BY <2>2, <2>5
  <1>18. CASE SendsHello
    BY <1>15, <1>18 DEF SendsHello
  <1>19. CASE \E R \in Seq(Packet) : Quiet(R)
    <2>1. PICK R \in Seq(Packet) : Quiet(R)
      BY <1>19
    <2>2. Only(R, Idle)
      BY <2>1 DEF Quiet, Only, Idle
    <2>3. \A i \in 1..Len(R) : R[i].p.m \notin Output /\ R[i].p.m \notin Ends
      BY <2>2 DEF Only, Idle, Calm, Output, Ends
    <2> QED
      BY <1>17, <2>1, <2>3 DEF Quiet
  <1>20. CASE SendsRekey
    <2>1. PICK R \in Seq(Packet) : Adds(R) /\ Len(R) = 1 /\ R[1].p.m = "KEXINIT"
      BY <1>20 DEF SendsRekey
    <2>2. \A i \in 1..Len(R) : i = 1
      BY <2>1
    <2>3. \A i \in 1..Len(R) : R[i].p.m \notin Output
      BY <2>1, <2>2 DEF Output
    <2> QED
      BY <1>17, <1>20, <2>1, <2>3 DEF SendsRekey
  <1>21. CASE SendsEnd
    <2>1. PICK R \in Seq(Packet) : Adds(R) /\ Only(R, {"EXIT_STATUS", "EOF", "CLOSE"})
      BY <1>21 DEF SendsEnd
    <2>2. \A i \in 1..Len(R) : R[i].p.m \notin Output
      BY <2>1 DEF Output, Only
    <2> QED
      BY <1>17, <1>21, <2>1, <2>2 DEF SendsEnd
  <1>22. CASE SendsOutput
    <2>1. /\ srv.phase = "shell" /\ srv'.phase = "shell"
          /\ srv'.credit = srv.credit - 1 /\ srv'.sent = srv.sent + 1
      BY <1>22 DEF SendsOutput
    <2>2. PICK R \in Seq(Packet) :
              /\ Adds(R) /\ Len(R) = 1 /\ R[1].p.m \in Output
              /\ R[1].p.ch = LocalChannel /\ R[1].p.n = srv.sent + 1
      BY <1>22 DEF SendsOutput
    <2>3. Coming' = Coming \o R
      BY <2>2 DEF Adds
    <2>4. ShowInv'
      BY <1>1, <1>14, <2>1, <2>2, <2>3, ShowOutput
    <2>5. OutputsOf(R) = 1
      BY <2>2, OutputsOfOne DEF Weight
    <2>6. OutputsOf(Coming') = OutputsOf(Coming) + 1 /\ OutputsOf(Coming) \in Nat
      <3>1. /\ OutputsOf(Coming \o R) = OutputsOf(Coming) + OutputsOf(R)
            /\ OutputsOf(Coming) \in Nat
        BY <1>16, OutputsJoined
      <3> QED
        BY <2>3, <2>5, <3>1
    <2>7. Credits(up) \in Nat
      BY <1>16, CreditsJoined
    <2>8. CreditInv'
      <3> DEFINE o == OutputsOf(Coming)
                 p == OutputsOf(Coming')
                 c == Credits(up)
                 a == srv.credit
                 b == srv'.credit
      <3>1. /\ p = o + 1 /\ o \in Nat /\ c \in Nat /\ a \in Nat /\ b = a - 1
        BY <1>16, <2>1, <2>6, <2>7
      <3>2. remote = LocalChannel => a + o + c = 2 * Window
        BY <1>14 DEF Live, CreditInv
      <3> HIDE DEF o, p, c, a, b
      <3>3. remote = LocalChannel => b + p + c = 2 * Window
        BY <3>1, <3>2, <1>16
      <3> QED
        BY <1>1, <1>2, <3>3 DEF CreditInv, p, c, b
    <2> QED
      BY <2>4, <2>8
  <1> QED
    BY <1>3, <1>18, <1>19, <1>20, <1>21, <1>22

LEMMA ReadsPhase ==
    ASSUME Types, Types', Live, up # <<>>, srv.phase # "start", ReadsPacket
    PROVE  PhaseInv' /\ srv'.phase # "start" /\ FrameInv' /\ Lead' = Lead
  <1> DEFINE m == up[1].p.m
             n == srv.recvSeq
  <1>1. n \in Nat /\ m # "IDENT" /\ srv.phase # "ident"
    BY DEF Types, Peer, ReadsPacket
  <1>2. /\ srv'.recvSeq = n + 1 /\ srv'.err = srv.err
        /\ srv'.sendEnc = (srv.sendEnc \/ m = "KEXDH_INIT")
        /\ srv'.recvEnc = (srv.recvEnc \/ m = "NEWKEYS") /\ Gives
    BY DEF ReadsPacket
  <1>3. m \in Due(n)
    BY <1>1, FrontInTurn DEF Live, InTurn
  <1>4. FrameInv' /\ Lead' = Lead
    BY <1>2 DEF Gives, GivesKeys, GivesService, GivesLogin, GivesChannel, GivesNothing,
                Answers, Adds
  <1>5. srv.phase = "kex" <=> n <= 3
    BY <1>1 DEF Live, PhaseInv
  <1>6. srv.sendEnc = (n >= 2) /\ srv.recvEnc = (n >= 3) /\ ~srv.err
    BY DEF Live, PhaseInv
  <1>7. m = "KEXDH_INIT" <=> n = 1
    BY <1>1, <1>3 DEF Due, Later
  <1>8. m = "NEWKEYS" <=> n = 2
    BY <1>1, <1>3 DEF Due, Later
  <1>9. m = "SERVICE_REQUEST" <=> n = 3
    BY <1>1, <1>3 DEF Due, Later
  <1>10. m \in {"USERAUTH_REQUEST", "CHANNEL_OPEN"} => n >= 4
    BY <1>1, <1>3 DEF Due
  <1>11. srv'.phase \notin {"start", "ident"} /\ (srv'.phase = "kex" <=> n + 1 <= 3)
    <2>1. CASE GivesKeys
      <3>1. n = 1 /\ srv'.phase = srv.phase
        BY <1>7, <2>1 DEF GivesKeys
      <3> QED  BY <1>1, <1>5, <3>1
    <2>2. CASE GivesService
      <3>1. n = 3 /\ srv'.phase = "auth"
        BY <1>9, <2>2 DEF GivesService
      <3> QED  BY <3>1
    <2>3. CASE GivesLogin
      <3>1. n >= 4 /\ srv'.phase \in {srv.phase, "authed"}
        BY <1>10, <2>3 DEF GivesLogin
      <3> QED  BY <1>1, <1>5, <3>1, srv.phase # "start"
    <2>4. CASE GivesChannel
      <3>1. n >= 4 /\ srv'.phase \in {srv.phase, "channel"}
        BY <1>10, <2>4 DEF GivesChannel
      <3> QED  BY <1>1, <1>5, <3>1, srv.phase # "start"
    <2>5. CASE GivesNothing
      <3>1. srv'.phase = IF m = "SHELL" /\ srv.phase = "channel" THEN "shell" ELSE srv.phase
        BY <2>5 DEF GivesNothing
      <3>2. n # 3
        BY <1>9, <2>5 DEF GivesNothing
      <3>3. m = "SHELL" /\ srv.phase = "channel" => n >= 4
        BY <1>1, <1>5
      <3> QED  BY <1>1, <1>5, <3>1, <3>2, <3>3, srv.phase # "start"
    <2> QED
      BY <1>2, <2>1, <2>2, <2>3, <2>4, <2>5 DEF Gives
  <1>12. srv'.sendEnc = (n + 1 >= 2)
    <2>1. srv'.sendEnc <=> (n >= 2 \/ m = "KEXDH_INIT")
      BY <1>2, <1>6
    <2>2. (n >= 2 \/ n = 1) <=> n + 1 >= 2
      BY <1>1
    <2>3. srv'.sendEnc \in BOOLEAN
      BY DEF Types, Peer
    <2>4. srv'.sendEnc <=> n + 1 >= 2
      BY <1>7, <2>1, <2>2
    <2> QED
      BY <2>3, <2>4
  <1>13. srv'.recvEnc = (n + 1 >= 3)
    <2>1. srv'.recvEnc <=> (n >= 3 \/ m = "NEWKEYS")
      BY <1>2, <1>6
    <2>2. (n >= 3 \/ n = 2) <=> n + 1 >= 3
      BY <1>1
    <2>3. srv'.recvEnc \in BOOLEAN
      BY DEF Types, Peer
    <2>4. srv'.recvEnc <=> n + 1 >= 3
      BY <1>8, <2>1, <2>2
    <2> QED
      BY <2>3, <2>4
  <1>14. srv'.phase \in {"start", "ident", "kex"} <=> srv'.recvSeq <= 3
    BY <1>2, <1>11
  <1>15. PhaseInv'
    BY <1>2, <1>6, <1>11, <1>12, <1>13, <1>14 DEF PhaseInv
  <1> QED
    BY <1>4, <1>11, <1>15

\* The server's answer to a key exchange, and its new keys.
LEMMA KeysStage ==
    ASSUME Coming \in Seq(Packet), Only(Coming, Calm), SealedAs(Coming, FALSE),
           NEW Q \in Seq(Packet), Coming' = Coming \o Q, SealedAs(Q, FALSE), Len(Q) = 2,
           Q[1].p.m = "KEXDH_REPLY", Q[2].p.m = "NEWKEYS"
    PROVE  Answered'
  <1> DEFINE N == Len(Coming)
             j == N + 2
  <1>1. /\ Len(Coming') = N + 2 /\ N \in Nat
        /\ \A i \in 1..N : Coming'[i] = Coming[i]
        /\ Coming'[N + 1] = Q[1] /\ Coming'[N + 2] = Q[2]
    <2>0. /\ Len(Coming \o Q) = Len(Coming) + Len(Q)
          /\ \A i \in 1..Len(Coming) : (Coming \o Q)[i] = Coming[i]
          /\ \A i \in (Len(Coming) + 1)..(Len(Coming) + Len(Q)) :
                 (Coming \o Q)[i] = Q[i - Len(Coming)]
      BY Joined
    <2>1. /\ Len(Coming') = Len(Coming) + 2 /\ Len(Coming) \in Nat
          /\ \A i \in 1..Len(Coming) : Coming'[i] = Coming[i]
          /\ \A i \in (Len(Coming) + 1)..(Len(Coming) + 2) : Coming'[i] = Q[i - Len(Coming)]
      BY <2>0
    <2>2. /\ N + 1 \in (N + 1)..(N + 2) /\ (N + 1) - N = 1
          /\ N + 2 \in (N + 1)..(N + 2) /\ (N + 2) - N = 2
      BY <2>1
    <2> QED
      BY <2>1, <2>2
  <1>2. \A i \in 1..N : Coming[i].p.m \in Calm /\ Coming[i].enc = FALSE
    BY DEF Only, SealedAs
  <1>3. Q[1].enc = FALSE /\ Q[2].enc = FALSE
    BY DEF SealedAs
  <1> HIDE DEF N
  <1>4. j \in 2..Len(Coming') /\ j - 1 = N + 1
    BY <1>1
  <1>5. Coming'[j - 1].p.m = "KEXDH_REPLY" /\ Coming'[j].p.m = "NEWKEYS"
    BY <1>1, <1>4
  <1>6. ASSUME NEW i \in 1..Len(Coming')
        PROVE  /\ Coming'[i].enc = (i > j)
               /\ i < j - 1 \/ i > j => Coming'[i].p.m \in Calm
    <2>1. ~(i > j) /\ (i \in 1..N \/ i = N + 1 \/ i = N + 2) /\ (i < j - 1 => i \in 1..N)
      BY <1>1, <1>4
    <2>2. Coming'[i].enc = FALSE
      BY <1>1, <1>2, <1>3, <2>1
    <2>3. i < j - 1 => Coming'[i].p.m \in Calm
      BY <1>1, <1>2, <2>1
    <2>4. (i > j) = FALSE
      BY <2>1
    <2> QED
      BY <2>1, <2>2, <2>3, <2>4, Zenon
  <1> HIDE DEF j
  <1> QED
    BY <1>4, <1>5, <1>6 DEF Answered

\* What is left of the packets on their way to the server.
LEMMA UpTail ==
    ASSUME up \in Seq(Packet), up # <<>>, up' = Tail(up)
    PROVE  /\ Len(up') = Len(up) - 1 /\ Len(up) \in Nat /\ Len(up) >= 1
           /\ \A i \in 1..Len(up') : up'[i] = up[i + 1] /\ i + 1 \in 2..Len(up)
           /\ Len(up) = 1 => up' = <<>>
  <1>1. /\ Len(up) \in Nat /\ Len(up) >= 1 /\ Len(up') = Len(up) - 1 /\ up' \in Seq(Packet)
        /\ \A i \in 1..(Len(up) - 1) : up'[i] = up[i + 1]
    BY HeadAndTail
  <1>2. \A i \in 1..Len(up') : up'[i] = up[i + 1] /\ i + 1 \in 2..Len(up)
    BY <1>1
  <1>3. Len(up) = 1 => up' = <<>>
    <2>1. Len(up) = 1 => Len(up') = 0
      BY <1>1
    <2> QED
      BY <1>1, <2>1, EmptyIs
  <1> QED
    BY <1>1, <1>2, <1>3

\* The stage, when the server reads the client's identification.
LEMMA IdentStage ==
    ASSUME Types, Types', Live, pc # "done", pc' = pc, up # <<>>, up' = Tail(up), ReadsIdent
    PROVE  StageInv' /\ pc \in {"KEXINIT", "KEXDH_REPLY"}
  <1>1. srv' = srv /\ Coming' = Coming /\ up[1].p.m = "IDENT"
    BY DEF ReadsIdent
  <1>2. srv.recvSeq = 0
    BY <1>1, FrontInTurn DEF Live
  <1>3. pc \in {"KEXINIT", "KEXDH_REPLY"}
    <2>1. pc \notin Secured
      BY <1>2, SecuredKeys
    <2>2. pc # "IDENT" /\ pc # "NEWKEYS"
      BY <1>2 DEF Live, StageInv, NewKeys, PcInv
    <2> QED
      BY <2>1, <2>2 DEF Live, PcInv, Blocking, Waits, Secured
  <1>4. CASE pc = "KEXINIT"
    BY <1>1, <1>4 DEF Live, StageInv, Hello, Secured, Shell
  <1>5. CASE pc = "KEXDH_REPLY"
    BY <1>1, <1>2, <1>5 DEF Live, StageInv, Exchange, Answered, Secured, Shell
  <1> QED
    BY <1>3, <1>4, <1>5

\* The stage, when the server reads a packet.
LEMMA PacketStage ==
    ASSUME Types, Types', Live, pc # "done", pc' = pc, up # <<>>, up' = Tail(up),
           srv.phase # "start", ReadsPacket
    PROVE  StageInv'
  <1> DEFINE m == up[1].p.m
             n == srv.recvSeq
  <1>1. /\ n \in Nat /\ m # "IDENT" /\ srv.phase # "ident"
        /\ srv'.recvSeq = n + 1 /\ Gives
    BY DEF Types, Peer, ReadsPacket
  <1>2. /\ Len(up') = Len(up) - 1 /\ Len(up) \in Nat /\ Len(up) >= 1
        /\ \A i \in 1..Len(up') : up'[i] = up[i + 1] /\ i + 1 \in 2..Len(up)
        /\ Len(up) = 1 => up' = <<>>
    BY UpTail DEF Types
  <1>3. /\ Coming \in Seq(Packet) /\ srv.sendEnc = (n >= 2) /\ srv.sendEnc \in BOOLEAN
        /\ srv.phase = "kex" <=> n <= 3
    BY <1>1 DEF Live, FrameInv, PhaseInv, Types, Peer
  <1>4. m \in {"KEXINIT", "NEWKEYS", "REQUEST_FAILURE"} \cup InShellSent =>
            GivesNothing /\ Coming' = Coming
    BY <1>1 DEF Gives, GivesKeys, GivesService, GivesLogin, GivesChannel, GivesNothing,
                InShellSent
  <1>5. CASE pc = "KEXINIT" /\ n = 0 /\ m = "KEXINIT"
    <2>1. Coming' = Coming /\ srv'.phase = "kex" /\ srv.phase = "kex"
      BY <1>3, <1>4, <1>5 DEF GivesNothing
    <2> QED
      BY <1>5, <2>1 DEF Live, StageInv, Hello, Secured, Shell
  <1>6. CASE pc = "KEXDH_REPLY" /\ n = 0 /\ m = "KEXINIT"
    <2>1. Coming' = Coming /\ srv'.phase = "kex" /\ srv'.recvSeq = 1
      BY <1>1, <1>3, <1>4, <1>6 DEF GivesNothing
    <2>2. Only(Coming, Calm) /\ SealedAs(Coming, FALSE)
      <3>1. Exchange /\ ~(n >= 2)
        BY <1>6 DEF Live, StageInv
      <3> QED
        BY <3>1 DEF Exchange
    <2>3. Exchange'
      <3>1. srv'.recvSeq < 2
        BY <2>1
      <3>2. Only(Coming', Calm) /\ SealedAs(Coming', FALSE)
        BY <2>1, <2>2
      <3> QED
        BY <2>1, <3>1, <3>2 DEF Exchange
    <2> QED
      BY <1>6, <2>3 DEF StageInv, Secured, Shell
  <1>7. CASE pc = "KEXDH_REPLY" /\ n = 1 /\ m = "KEXDH_INIT"
    <2>1. GivesKeys /\ srv'.phase = "kex" /\ srv'.recvSeq = 2
      <3>1. GivesKeys
        BY <1>1, <1>7 DEF Gives, GivesKeys, GivesService, GivesLogin, GivesChannel,
                          GivesNothing
      <3>2. srv.phase = "kex" /\ srv'.phase = srv.phase
        BY <1>3, <1>7, <3>1 DEF GivesKeys
      <3> QED
        BY <1>1, <1>7, <3>1, <3>2
    <2>2. Only(Coming, Calm) /\ SealedAs(Coming, FALSE)
      <3>1. Exchange /\ ~(n >= 2)
        BY <1>7 DEF Live, StageInv
      <3> QED
        BY <3>1 DEF Exchange
    <2>3. Answered'
      BY <1>3, <2>1, <2>2, KeysStage DEF GivesKeys
    <2>4. Exchange'
      BY <2>1, <2>3 DEF Exchange
    <2> QED
      BY <1>7, <2>4 DEF StageInv, Secured, Shell
  <1>8. CASE pc = "NEWKEYS" /\ n = 2 /\ m = "NEWKEYS"
    <2>1. Coming' = Coming /\ srv'.phase = "kex" /\ srv'.recvSeq = 3
      BY <1>1, <1>3, <1>4, <1>8 DEF GivesNothing
    <2>2. NewKeys'
      BY <1>8, <2>1 DEF Live, StageInv, NewKeys
    <2> QED
      BY <1>8, <2>2 DEF StageInv, Secured, Shell
  <1>9. CASE pc = "SERVICE_ACCEPT" /\ n = 2 /\ m = "NEWKEYS"
    <2>1. Coming' = Coming /\ srv'.phase = "kex" /\ srv'.recvSeq = 3
      BY <1>1, <1>3, <1>4, <1>9 DEF GivesNothing
    <2>2. Only(Coming, Calm) /\ SealedAs(Coming, TRUE)
      <3>1. Service
        BY <1>9 DEF Live, StageInv
      <3>2. pc \in Secured
        BY <1>9 DEF Secured
      <3>3. SealedAs(Coming, TRUE)
        BY <3>2 DEF Live, StageInv
      <3>4. srv.phase = "kex"
        BY <1>3, <1>9
      <3> QED
        BY <3>1, <3>3, <3>4 DEF Service
    <2>3. Service' /\ SealedAs(Coming', TRUE)
      BY <2>1, <2>2 DEF Service
    <2> QED
      BY <1>9, <2>3 DEF StageInv, Shell
  <1>10. CASE pc \in Secured /\ n >= 3
    <2>1. SealedAs(Coming, TRUE) /\ srv.sendEnc = TRUE
      BY <1>10, SecuredKeys DEF Live, StageInv
    <2>2. ASSUME NEW Q \in Seq(Packet), Adds(Q)
          PROVE  Coming' = Coming \o Q /\ SealedAs(Coming', TRUE)
      <3>1. Coming' = Coming \o Q /\ SealedAs(Q, TRUE)
        BY <2>1, <2>2 DEF Adds
      <3> QED
        BY <1>3, <2>1, <3>1, SealedJoined
    <2>3. CASE pc = "SERVICE_ACCEPT" /\ n = 3 /\ m = "SERVICE_REQUEST"
      <3>1. GivesService
        BY <1>1, <2>3 DEF Gives, GivesKeys, GivesService, GivesLogin, GivesChannel,
                          GivesNothing
      <3>2. PICK Q \in Seq(Packet) : Adds(Q) /\ Len(Q) = 1 /\ Q[1].p.m = "SERVICE_ACCEPT"
        BY <3>1 DEF GivesService, Answers
      <3>3. Only(Coming, Calm)
        BY <1>3, <2>3 DEF Live, StageInv, Service
      <3>4. Awaits(Coming', "SERVICE_ACCEPT", Calm, Calm) /\ SealedAs(Coming', TRUE)
        BY <1>3, <2>2, <3>2, <3>3, AwaitsNew
      <3>5. Service'
        BY <3>1, <3>4 DEF Service, GivesService
      <3> QED
        BY <2>3, <3>4, <3>5 DEF StageInv, Shell
    <2>4. CASE /\ pc = "AUTH" /\ m = "USERAUTH_REQUEST"
               /\ Len(up) = 1 /\ srv.phase = "auth" /\ Only(Coming, Calm)
      <3>1. GivesLogin
        BY <1>1, <2>4 DEF Gives, GivesKeys, GivesService, GivesLogin, GivesChannel,
                          GivesNothing
      <3>2. up' = <<>>
        BY <1>2, <2>4
      <3>3. ASSUME srv'.phase = srv.phase, Answers("USERAUTH_FAILURE")
            PROVE  Asked' /\ SealedAs(Coming', TRUE)
        <4>1. PICK Q \in Seq(Packet) : Adds(Q) /\ Len(Q) = 1 /\ Q[1].p.m = "USERAUTH_FAILURE"
          BY <3>3 DEF Answers
        <4>2. Awaits(Coming', "USERAUTH_FAILURE", Calm, Calm) /\ SealedAs(Coming', TRUE)
          BY <1>3, <2>2, <2>4, <4>1, AwaitsNew
        <4> QED
          BY <2>4, <3>2, <3>3, <4>2 DEF Asked
      <3>4. ASSUME srv'.phase = "authed", Answers("USERAUTH_SUCCESS")
            PROVE  Asked' /\ SealedAs(Coming', TRUE)
        <4>1. PICK Q \in Seq(Packet) : Adds(Q) /\ Len(Q) = 1 /\ Q[1].p.m = "USERAUTH_SUCCESS"
          BY <3>4 DEF Answers
        <4>2. Awaits(Coming', "USERAUTH_SUCCESS", Calm, Idle) /\ SealedAs(Coming', TRUE)
          BY <1>3, <2>2, <2>4, <4>1, AwaitsNew
        <4> QED
          BY <3>2, <3>4, <4>2 DEF Asked
      <3>5. Asked' /\ SealedAs(Coming', TRUE)
        BY <3>1, <3>3, <3>4 DEF GivesLogin
      <3> QED
        BY <2>4, <3>5 DEF StageInv, Shell
    <2>5. CASE pc = "CHANNEL" /\ m = "CHANNEL_OPEN" /\ OpenAsked
      <3>1. GivesChannel
        BY <1>1, <2>5 DEF Gives, GivesKeys, GivesService, GivesLogin, GivesChannel,
                          GivesNothing
      <3>2. Only(up', {"REQUEST_FAILURE"})
        BY <1>2, <2>5 DEF OpenAsked, Only
      <3>3. Only(Coming, Idle) /\ srv.phase = "authed"
        BY <2>5 DEF OpenAsked
      <3>4. ASSUME srv'.phase = srv.phase, Answers("CHANNEL_OPEN_FAILURE")
            PROVE  OpenRefused' /\ SealedAs(Coming', TRUE)
        <4>1. PICK Q \in Seq(Packet) : /\ Adds(Q) /\ Len(Q) = 1
                                       /\ Q[1].p.m = "CHANNEL_OPEN_FAILURE"
          BY <3>4 DEF Answers
        <4>2. Awaits(Coming', "CHANNEL_OPEN_FAILURE", Idle, Idle) /\ SealedAs(Coming', TRUE)
          BY <1>3, <2>2, <3>3, <4>1, AwaitsNew
        <4> QED
          BY <3>2, <3>3, <3>4, <4>2 DEF OpenRefused
      <3>5. ASSUME srv'.phase = "channel", srv'.credit = Window, NEW Q \in Seq(Packet),
                   Adds(Q), Len(Q) = 1, Q[1].p.m = "CHANNEL_OPEN_CONFIRMATION",
                   Q[1].p.ch = srv'.ch
            PROVE  OpenGranted' /\ SealedAs(Coming', TRUE)
        <4>1. Awaits(Coming', "CHANNEL_OPEN_CONFIRMATION", Idle, Idle)
              /\ SealedAs(Coming', TRUE) /\ Coming' = Coming \o Q
          BY <1>3, <2>2, <3>3, <3>5, AwaitsNew
        <4>2. /\ Len(Coming') = Len(Coming) + 1 /\ Len(Coming) \in Nat
              /\ \A i \in 1..Len(Coming) : Coming'[i] = Coming[i]
              /\ Coming'[Len(Coming) + 1] = Q[1]
          <5>1. /\ Len(Coming \o Q) = Len(Coming) + Len(Q) /\ Len(Coming) \in Nat
                /\ \A i \in 1..Len(Coming) : (Coming \o Q)[i] = Coming[i]
                /\ \A i \in (Len(Coming) + 1)..(Len(Coming) + Len(Q)) :
                       (Coming \o Q)[i] = Q[i - Len(Coming)]
            BY <1>3, Joined
          <5>2. Len(Coming) + 1 \in (Len(Coming) + 1)..(Len(Coming) + 1)
                /\ (Len(Coming) + 1) - Len(Coming) = 1
            BY <5>1
          <5> QED
            BY <3>5, <4>1, <5>1, <5>2
        <4>3. ASSUME NEW i \in 1..Len(Coming'), Coming'[i].p.m = "CHANNEL_OPEN_CONFIRMATION"
              PROVE  Coming'[i].p.ch = srv'.ch
          <5>1. CASE i \in 1..Len(Coming)
            BY <3>3, <4>2, <4>3, <5>1 DEF Only, Idle, Calm
          <5>2. CASE i = Len(Coming) + 1
            BY <3>5, <4>2, <5>2
          <5> QED
            BY <4>2, <5>1, <5>2
        <4> QED
          BY <3>2, <3>5, <4>1, <4>3 DEF OpenGranted
      <3>6. (OpenRefused' \/ OpenGranted') /\ SealedAs(Coming', TRUE)
        BY <3>1, <3>4, <3>5 DEF GivesChannel
      <3> QED
        BY <2>5, <3>6 DEF StageInv, Shell
    <2>6. CASE pc = "CHANNEL" /\ m = "REQUEST_FAILURE" /\ (OpenRefused \/ OpenGranted)
      <3>1. /\ Coming' = Coming /\ srv'.phase = srv.phase /\ srv'.ch = srv.ch
            /\ srv'.credit = srv.credit
        <4>1. srv.credit \in Nat
          BY DEF Types, Peer
        <4> QED
          BY <1>4, <2>6, <4>1 DEF GivesNothing
      <3>2. Only(up', {"REQUEST_FAILURE"})
        <4>1. Only(up, {"REQUEST_FAILURE"})
          BY <2>6 DEF OpenRefused, OpenGranted
        <4>2. \A i \in 1..Len(up') : i + 1 \in 1..Len(up)
          BY <1>2
        <4> QED
          BY <1>2, <4>1, <4>2 DEF Only
      <3>3. OpenRefused' \/ OpenGranted'
        BY <2>6, <3>1, <3>2 DEF OpenRefused, OpenGranted
      <3> QED
        BY <2>1, <2>6, <3>1, <3>3 DEF StageInv, Shell
    <2>7. CASE pc \in Shell /\ m \in InShellSent
      <3>1. Coming' = Coming
        BY <1>4, <2>7
      <3> QED
        BY <2>1, <2>7, <3>1 DEF StageInv, Shell
    <2>8. \/ pc = "SERVICE_ACCEPT" /\ n = 3 /\ m = "SERVICE_REQUEST"
          \/ /\ pc = "AUTH" /\ m = "USERAUTH_REQUEST"
             /\ Len(up) = 1 /\ srv.phase = "auth" /\ Only(Coming, Calm)
          \/ pc = "CHANNEL" /\ m = "CHANNEL_OPEN" /\ OpenAsked
          \/ pc = "CHANNEL" /\ m = "REQUEST_FAILURE" /\ (OpenRefused \/ OpenGranted)
          \/ pc \in Shell /\ m \in InShellSent
      BY <1>1, <1>10, FrontAtStage
    <2> QED
      BY <2>3, <2>4, <2>5, <2>6, <2>7, <2>8
  <1>11. \/ pc = "KEXINIT" /\ n = 0 /\ m = "KEXINIT"
         \/ pc = "KEXDH_REPLY" /\ n = 0 /\ m = "KEXINIT"
         \/ pc = "KEXDH_REPLY" /\ n = 1 /\ m = "KEXDH_INIT"
         \/ pc = "NEWKEYS" /\ n = 2 /\ m = "NEWKEYS"
         \/ pc = "SERVICE_ACCEPT" /\ n = 2 /\ m = "NEWKEYS"
         \/ pc \in Secured /\ n >= 3
    <2>1. n >= 4 => n >= 3
      BY <1>1
    <2> QED
      BY <1>1, <2>1, FrontAtStage DEF Secured
  <1> QED
    BY <1>5, <1>6, <1>7, <1>8, <1>9, <1>10, <1>11

LEMMA TakesKeeps ==
    ASSUME Types, Types', Live, pc # "done", TakesUp, UNCHANGED client
    PROVE  Live'
  <1> DEFINE m == up[1].p.m
  <1>1. /\ pc' = pc /\ why' = why /\ sendSeq' = sendSeq /\ recvSeq' = recvSeq
        /\ encrypted' = encrypted /\ remote' = remote /\ eof' = eof /\ shown' = shown
    BY DEF client, control, keys, channel
  <1>2. up # <<>> /\ up' = Tail(up) /\ srv.phase # "start" /\ (ReadsIdent \/ ReadsPacket)
    BY DEF TakesUp
  <1>3. /\ Len(up') = Len(up) - 1 /\ Len(up) \in Nat /\ Len(up) >= 1
        /\ \A i \in 1..Len(up') : up'[i] = up[i + 1] /\ i + 1 \in 2..Len(up)
        /\ Len(up) = 1 => up' = <<>>
    BY <1>2, UpTail DEF Types
  <1>4. /\ FrameInv' /\ Lead' = Lead /\ PhaseInv' /\ srv'.phase # "start"
    <2>1. CASE ReadsIdent
      <3>1. srv' = srv /\ FrameInv' /\ Lead' = Lead
        BY <2>1 DEF ReadsIdent
      <3> QED
        BY <1>2, <3>1 DEF Live, PhaseInv
    <2>2. CASE ReadsPacket
      BY <1>2, <2>2, ReadsPhase
    <2> QED
      BY <1>2, <2>1, <2>2
  <1>5. UpInv'
    <2>1. srv.recvSeq \in Nat
      BY DEF Types, Peer
    <2>2. srv'.recvSeq = srv.recvSeq + IF up[1].p.m = "IDENT" THEN 0 ELSE 1
      BY <1>2, <2>1 DEF ReadsIdent, ReadsPacket
    <2> QED
      BY <1>1, <1>2, <2>2, ReadUp DEF Live
  <1>6. PcInv'
    <2>1. pc # "IDENT"
      BY <1>2 DEF Live, PcInv
    <2> QED
      BY <1>1, <2>1 DEF Live, PcInv
  <1>7. TextInv'
    <2>1. pc # "IDENT"
      BY <1>2 DEF Live, PcInv
    <2> QED
      BY <1>1, <1>4, <2>1 DEF Live, TextInv
  <1>8. StageInv'
    BY <1>1, <1>2, IdentStage, PacketStage
  <1>9. CASE pc \notin Shell
    <2>1. ReadsPacket =>
              m \in {"KEXINIT", "KEXDH_INIT", "NEWKEYS", "SERVICE_REQUEST",
                     "USERAUTH_REQUEST", "CHANNEL_OPEN", "REQUEST_FAILURE"}
      BY <1>2, <1>9, FrontAtStage DEF ReadsPacket
    <2>2. srv'.eof = srv.eof /\ srv'.sent = srv.sent
          /\ srv'.phase \notin {"shell", "rekey", "over"}
      <3>1. srv.phase \notin {"shell", "rekey", "over"} /\ srv.eof = FALSE
        BY <1>9 DEF Live, UnopenedInv
      <3>2. CASE ReadsIdent
        BY <3>1, <3>2 DEF ReadsIdent
      <3>3. CASE ReadsPacket
        <4>1. srv'.eof = FALSE
          BY <2>1, <3>1, <3>3 DEF ReadsPacket
        <4>2. srv'.sent = srv.sent /\ srv'.phase \notin {"shell", "rekey", "over"}
          BY <2>1, <3>1, <3>3 DEF ReadsPacket, Gives, GivesKeys, GivesService, GivesLogin,
                                  GivesChannel, GivesNothing, SameOutput
        <4> QED
          BY <3>1, <4>1, <4>2
      <3> QED
        BY <1>2, <3>2, <3>3
    <2>3. UnopenedInv'
      BY <1>1, <1>9, <2>2 DEF Live, UnopenedInv
    <2>4. ShellInv' /\ ShowInv' /\ CreditInv'
      BY <1>1, <1>9 DEF ShellInv, ShowInv, CreditInv
    <2> QED
      BY <1>1, <1>4, <1>5, <1>6, <1>7, <1>8, <2>3, <2>4 DEF Live
  <1>10. CASE pc \in Shell
    <2>1. m \in InShellSent /\ ReadsPacket
      <3>1. 1 \in 1..Len(up)
        BY <1>3
      <3>2. m \in InShellSent
        BY <1>10, <3>1 DEF Live, ShellInv
      <3> QED
        BY <1>2, <3>2 DEF ReadsIdent, InShellSent
    <2>2. GivesNothing
      BY <2>1 DEF ReadsPacket, Gives, GivesKeys, GivesService, GivesLogin, GivesChannel,
                  InShellSent
    <2>3. /\ srv'.phase = IF m = "SHELL" /\ srv.phase = "channel" THEN "shell" ELSE srv.phase
          /\ srv'.credit = srv.credit + Gift(up[1]) /\ srv'.sent = srv.sent
          /\ srv'.ch = srv.ch /\ Coming' = Coming
          /\ srv'.eof = (srv.eof \/ m = "EOF")
      BY <2>1, <2>2 DEF GivesNothing, Gift, ReadsPacket
    <2>4. srv.phase \in {"channel", "shell", "rekey", "over"}
      BY <1>10 DEF Live, ShellInv
    <2>5. UnopenedInv'
      BY <1>1, <1>10 DEF UnopenedInv
    <2>6. ShellInv'
      <3>1. ASSUME NEW i \in 1..Len(up')
            PROVE  /\ up'[i].p.m \in InShellSent
                   /\ up'[i].p.m # "REQUEST_FAILURE" => up'[i].p.ch = srv'.ch
                   /\ up'[i].p.m = "DATA" => srv'.eof = FALSE
                   /\ up'[i].p.m = "EOF" => eof' = TRUE
                   /\ \A k \in 1..(i - 1) : up'[i].p.m = "DATA" => up'[k].p.m # "EOF"
        <4>1. up'[i] = up[i + 1] /\ i + 1 \in 1..Len(up) /\ 1 \in 1..((i + 1) - 1)
          BY <1>3
        <4>2. /\ up[i + 1].p.m \in InShellSent
              /\ up[i + 1].p.m # "REQUEST_FAILURE" => up[i + 1].p.ch = srv.ch
              /\ up[i + 1].p.m = "DATA" => srv.eof = FALSE
              /\ up[i + 1].p.m = "EOF" => eof = TRUE
              /\ \A k \in 1..((i + 1) - 1) : up[i + 1].p.m = "DATA" => up[k].p.m # "EOF"
          BY <1>10, <4>1 DEF Live, ShellInv
        <4>3. up[i + 1].p.m = "DATA" => srv'.eof = FALSE
          BY <2>3, <4>1, <4>2
        <4>4. ASSUME NEW k \in 1..(i - 1), up'[i].p.m = "DATA" PROVE up'[k].p.m # "EOF"
          <5>1. k \in 1..Len(up') /\ k + 1 \in 1..((i + 1) - 1)
            BY <1>3
          <5>2. up'[k] = up[k + 1]
            BY <1>3, <5>1
          <5> QED
            BY <4>1, <4>2, <4>4, <5>1, <5>2
        <4> QED
          BY <1>1, <2>3, <4>1, <4>2, <4>3, <4>4
      <3>2. srv'.eof = TRUE => eof' = TRUE
        <4>1. 1 \in 1..Len(up)
          BY <1>3
        <4>2. m = "EOF" => eof = TRUE
          BY <1>10, <4>1 DEF Live, ShellInv
        <4>3. srv.eof = TRUE => eof = TRUE
          BY <1>10 DEF Live, ShellInv
        <4>4. srv.eof \in BOOLEAN
          BY DEF Types, Peer
        <4> QED
          BY <1>1, <2>3, <4>2, <4>3, <4>4
      <3>3. remote' = srv'.ch
        BY <1>1, <1>10, <2>3 DEF Live, ShellInv
      <3> QED
        BY <2>3, <2>4, <3>1, <3>2, <3>3 DEF ShellInv
    <2>7. ShowInv'
      BY <1>1, <1>10, <2>3, <2>4 DEF Live, ShowInv
    <2>8. CreditInv'
      <3> DEFINE o == OutputsOf(Coming)
                 c == Credits(up)
                 d == Credits(up')
                 g == Gift(up[1])
                 a == srv.credit
                 b == srv'.credit
      <3>1. up \in Seq(Packet) /\ Coming \in Seq(Packet) /\ up[1] \in Packet
        BY <1>2, HeadAndTail DEF Types, Live, FrameInv
      <3>2. c = g + d /\ d \in Nat
        BY <1>2, <3>1, CreditsOfTail
      <3>3. o \in Nat
        BY <3>1, OutputsJoined
      <3>4. a \in Nat /\ g \in Nat /\ b = a + g /\ Window \in Nat
        BY <2>3, <3>1, SshAssumption DEF Types, Peer, Gift, Packet, Message
      <3>5. remote = LocalChannel => a + o + c = 2 * Window
        BY <1>10 DEF Live, CreditInv
      <3> HIDE DEF o, c, d, g, a, b
      <3>6. remote = LocalChannel => b + o + d = 2 * Window
        BY <3>2, <3>3, <3>4, <3>5
      <3> QED
        BY <1>1, <2>3, <3>6 DEF CreditInv, o, d, b
    <2> QED
      BY <1>1, <1>4, <1>5, <1>6, <1>7, <1>8, <2>5, <2>6, <2>7, <2>8 DEF Live
  <1> QED
    BY <1>9, <1>10

LEMMA ServerKeeps == ASSUME Types, Types', Live, pc # "done", Server PROVE Live' /\ pc' = pc
  <1>1. UNCHANGED client /\ (Writes \/ TakesUp \/ Sending)
    BY ServerDoes
  <1>2. pc' = pc
    BY <1>1 DEF client, control
  <1> QED
    BY <1>1, <1>2, WritesKeeps, TakesKeeps, SendingKeeps

----------------------------------------------------------------------------
(* Steps of the client.                                                    *)

\* A session that is over: whatever ended it, no end was out of step, and one
\* that ended well has shown everything.
Ended ==
    /\ InStep
    /\ why = "none" /\ remote = LocalChannel => Len(shown) = srv.sent

Fine == IF pc = "done" THEN Ended ELSE Live

LEMMA Gone ==
    ASSUME Live, srv' = srv, pc' = "done", why' \notin {"none", "refused"}
    PROVE  Fine'
  BY DEF Live, PhaseInv, Fine, Ended, InStep

\* The packet in front has the number and the keys that the client counts with.
LEMMA FrontOpens ==
    ASSUME Types, Live, pc # "IDENT", Coming # <<>>
    PROVE  /\ Coming[1] \in Packet /\ Coming[1].seq = recvSeq /\ Coming[1].enc = encrypted
           /\ Coming[1].p.big \in BOOLEAN
  <1>1. /\ Coming \in Seq(Packet) /\ recvSeq \in Nat /\ Numbered(Coming, recvSeq)
        /\ sendSeq \in Nat
    BY DEF Types, Live, FrameInv
  <1>2. Len(Coming) >= 1 /\ Len(Coming) \in Nat /\ Coming[1] \in Packet
    BY <1>1, HeadAndTail
  <1>3. 1 \in 1..Len(Coming)
    BY <1>2
  <1>4. Coming[1].seq = recvSeq
    <2>1. Coming[1].seq = recvSeq + 1 - 1
      BY <1>1, <1>3 DEF Numbered
    <2> QED
      BY <1>1, <2>1
  <1>5. encrypted = (sendSeq >= 4) /\ encrypted \in BOOLEAN
    BY DEF Live, PcInv, Types
  <1>6. Coming[1].enc = encrypted
    <2>1. CASE pc = "KEXINIT"
      <3>1. Coming[1].enc = FALSE
        BY <1>3, <2>1 DEF Live, StageInv, Hello, SealedAs
      <3>2. ~(sendSeq >= 4)
        BY <2>1 DEF Live, PcInv
      <3> QED
        BY <1>5, <3>1, <3>2
    <2>2. CASE pc = "KEXDH_REPLY"
      <3>1. Coming[1].enc = FALSE
        <4>1. Exchange
          BY <2>2 DEF Live, StageInv
        <4>2. CASE SealedAs(Coming, FALSE)
          BY <1>3, <4>2 DEF SealedAs
        <4>3. CASE Answered
          <5>1. PICK j \in 2..Len(Coming) : Coming[1].enc = (1 > j)
            BY <1>3, <4>3 DEF Answered
          <5>2. (1 > j) = FALSE
            OBVIOUS
          <5> QED  BY <5>1, <5>2
        <4> QED
          BY <4>1, <4>2, <4>3 DEF Exchange
      <3>2. ~(sendSeq >= 4)
        BY <2>2 DEF Live, PcInv
      <3> QED
        BY <1>5, <3>1, <3>2
    <2>3. CASE pc = "NEWKEYS"
      <3>1. Coming[1].enc = FALSE
        BY <2>3 DEF Live, StageInv, NewKeys
      <3>2. ~(sendSeq >= 4)
        BY <2>3 DEF Live, PcInv
      <3> QED
        BY <1>5, <3>1, <3>2
    <2>4. CASE pc \in Secured
      <3>1. Coming[1].enc = TRUE
        BY <1>3, <2>4 DEF Live, StageInv, SealedAs
      <3>2. sendSeq >= 4
        BY <1>1, <2>4 DEF Live, PcInv, Secured
      <3> QED
        BY <1>5, <3>1, <3>2
    <2> QED
      BY <2>1, <2>2, <2>3, <2>4 DEF Live, PcInv, Blocking, Waits, Secured
  <1>7. Coming[1].p.big \in BOOLEAN
    BY <1>2 DEF Packet, Message
  <1> QED
    BY <1>2, <1>4, <1>6, <1>7

\* So only a packet over the client's own limit does not open.
LEMMA OnlyBig ==
    ASSUME Types, Live, pc # "IDENT", NEW b \in Seq(Piece), NEW w \in Seq(Piece),
           b \o w = Stream, WholeIn(b)
    PROVE  ~OpensIn(b) => FrontOf(b).p.big
  <1>1. Lead = 0 /\ FrameInv
    BY DEF Live, TextInv
  <1>2. Coming # <<>> /\ b[1].last = FALSE /\ FrontOf(b) = Coming[1]
    BY <1>1, PacketInFront
  <1>3. /\ Coming[1].seq = recvSeq /\ Coming[1].enc = encrypted
        /\ Coming[1].p.big \in BOOLEAN
    BY <1>2, FrontOpens
  <1> QED
    BY <1>2, <1>3 DEF OpensIn

LEMMA RefuseFine == ASSUME Types, Types', Live, Refuse PROVE Fine'
  <1>1. /\ pc \in Packets /\ Whole /\ ~OpensIn(buf) /\ pc' = "done" /\ why' = "refused"
        /\ buf' = buf /\ srv' = srv
    BY DEF Refuse, Failed
  <1>2. buf \in Seq(Piece) /\ wire \in Seq(Piece) /\ buf \o wire = Stream
    BY DEF Types, Stream
  <1>3. pc # "IDENT"
    BY <1>1 DEF Packets, Waits
  <1>4. FrontOf(buf).p.big
    BY <1>1, <1>2, <1>3, OnlyBig DEF Whole
  <1>5. FrontOf(buf') = FrontOf(buf)
    BY <1>1
  <1> QED
    BY <1>1, <1>4, <1>5 DEF Fine, Ended, InStep, Live, PhaseInv

LEMMA DrainRefuseFine ==
    ASSUME Types, Types', Live, NEW k \in Reads, DrainRefuse(k)
    PROVE  Fine'
  <1>1. /\ pc = "drain" /\ WholeIn(Filled(k)) /\ ~OpensIn(Filled(k)) /\ pc' = "done"
        /\ why' = "refused" /\ buf' = Filled(k) /\ srv' = srv
    BY DEF DrainRefuse, Polls, Failed
  <1>2. /\ Filled(k) \in Seq(Piece) /\ Rest(wire, k) \in Seq(Piece)
        /\ Filled(k) \o Rest(wire, k) = Stream
    BY FilledType
  <1>3. FrontOf(Filled(k)).p.big
    BY <1>1, <1>2, OnlyBig
  <1>4. FrontOf(buf') = FrontOf(Filled(k))
    BY <1>1
  <1> QED
    BY <1>1, <1>3, <1>4 DEF Fine, Ended, InStep, Live, PhaseInv

\* Steps that read pieces, or nothing.
LEMMA StillLive ==
    ASSUME Types, Types', Live, FrameInv', Lead' = Lead, Coming' = Coming, Stream' = Stream,
           UNCHANGED <<why, keys, channel, up, srv>>,
           pc' = pc \/ (pc \in Shell /\ pc' \in Shell)
    PROVE  Live'
  <1>1. /\ why' = why /\ sendSeq' = sendSeq /\ recvSeq' = recvSeq /\ encrypted' = encrypted
        /\ remote' = remote /\ eof' = eof /\ shown' = shown /\ up' = up /\ srv' = srv
    BY DEF keys, channel
  <1>2. UpInv' /\ PhaseInv'
    BY <1>1 DEF Live, UpInv, Named, PhaseInv
  <1>3. PcInv'
    BY <1>1 DEF Live, PcInv, Shell, Blocking, Waits
  <1>4. TextInv'
    BY <1>1 DEF Live, TextInv, Shell
  <1>5. StageInv'
    <2>1. CASE pc' = pc
      BY <1>1, <2>1 DEF Live, StageInv, Hello, Exchange, Answered, NewKeys, Service, Login,
                        Asked, OpenAsked, OpenRefused, OpenGranted
    <2>2. CASE pc \in Shell /\ pc' \in Shell
      <3>1. SealedAs(Coming, TRUE)
        BY <2>2 DEF Live, StageInv, Secured
      <3> QED
        BY <2>2, <3>1 DEF StageInv, Shell
    <2> QED
      BY <2>1, <2>2
  <1>6. UnopenedInv' /\ ShellInv' /\ ShowInv' /\ CreditInv'
    BY <1>1 DEF Live, UnopenedInv, ShellInv, ShowInv, CreditInv, Shell
  <1> QED
    BY <1>1, <1>2, <1>3, <1>4, <1>5, <1>6 DEF Live

LEMMA FetchFine == ASSUME Types, Types', Live, Fetch PROVE Fine'
  <1>1. FrameInv' /\ Lead' = Lead /\ Coming' = Coming /\ Stream' = Stream
    BY FetchStays DEF Live
  <1>2. UNCHANGED <<why, keys, channel, up, srv>> /\ pc' = pc
    BY DEF Fetch, control
  <1>3. pc # "done"
    BY DEF Fetch, Blocking, Waits
  <1>4. pc' = pc \/ (pc \in Shell /\ pc' \in Shell)
    BY <1>2
  <1>5. Live'
    BY <1>1, <1>2, <1>4, StillLive, Zenon
  <1> QED
    BY <1>2, <1>3, <1>5 DEF Fine

LEMMA DrainPartFine ==
    ASSUME Types, Types', Live, NEW k \in Reads, DrainPart(k)
    PROVE  Fine'
  <1>1. Stream' = Stream
    BY FilledType DEF DrainPart, Polls, Stream
  <1>2. FrameInv' /\ Lead' = Lead /\ Coming' = Coming
    BY DrainPartStays DEF Live
  <1>3. UNCHANGED <<why, keys, channel, up, srv>> /\ pc \in Shell /\ pc' \in Shell /\ pc' # "done"
    BY DEF DrainPart, Polls, Shell
  <1> QED
    BY <1>1, <1>2, <1>3, StillLive DEF Fine

LEMMA KeysReadFine == ASSUME Types, Types', Live, KeysRead PROVE Fine'
  <1>1. Stream' = Stream /\ recvSeq' = recvSeq /\ srv' = srv
    BY DEF KeysRead, Stream, keys
  <1>2. FrameInv' /\ Lead' = Lead /\ Coming' = Coming
    BY <1>1, Stays DEF Live
  <1>3. UNCHANGED <<why, keys, channel, up, srv>> /\ pc \in Shell /\ pc' \in Shell /\ pc' # "done"
    BY DEF KeysRead, Shell
  <1> QED
    BY <1>1, <1>2, <1>3, StillLive DEF Fine

LEMMA LeftFine == ASSUME Types, Live, GiveUp \/ Closed PROVE Fine'
  <1>1. CASE GiveUp
    <2>1. srv' = srv /\ pc' = "done" /\ why' \notin {"none", "refused"}
      BY <1>1 DEF GiveUp, Failed
    <2> QED
      BY <2>1, Gone
  <1>2. CASE Closed
    <2>1. srv' = srv /\ pc' = "done" /\ why' \notin {"none", "refused"}
      BY <1>2 DEF Closed, Failed
    <2> QED
      BY <2>1, Gone
  <1> QED
    BY <1>1, <1>2

----------------------------------------------------------------------------
(* From the connection to the shell.                                       *)

\* The client sends what is due and comes to another stage of the opening.
LEMMA Onward ==
    ASSUME Types, Types', Live, pc \notin Shell, pc' \notin Shell \cup {"IDENT"}, pc # "IDENT",
           why' = why, srv' = srv, UNCHANGED channel, FrameInv', Lead' = 0,
           NEW msgs \in Seq(Message), Sends(msgs),
           \A i \in 1..Len(msgs) : /\ msgs[i].m \in Due(sendSeq + i - 1)
                                   /\ encrypted' = (sendSeq + i - 1 >= 3),
           PcInv', StageInv'
    PROVE  Live'
  <1>1. UpInv'
    BY SendUp DEF Live
  <1>2. PhaseInv'
    BY DEF Live, PhaseInv
  <1>3. TextInv'
    BY DEF Live, TextInv
  <1>4. UnopenedInv'
    BY DEF Live, UnopenedInv, channel
  <1>5. ShellInv' /\ ShowInv' /\ CreditInv'
    BY DEF ShellInv, ShowInv, CreditInv
  <1> QED
    BY <1>1, <1>2, <1>3, <1>4, <1>5 DEF Live

LEMMA Proceeds ==
    ASSUME Live, srv' = srv, NEW next, NEW msgs, Proceed(next, msgs)
    PROVE  Fine' \/ (pc' = next /\ why' = why /\ Sends(msgs))
  <1>1. CASE pc' = "done" /\ why' = "send"
    <2>1. why' \notin {"none", "refused"}
      BY <1>1
    <2>2. Fine'
      BY <1>1, <2>1, Gone
    <2> QED
      BY <2>2
  <1> QED
    BY <1>1 DEF Proceed

\* A message taken is the one in front.
LEMMA TakesFront ==
    ASSUME Types, Types', Live, NEW m, Takes(m), wire' = wire, srv' = srv
    PROVE  /\ FrameInv' /\ Lead' = 0 /\ Coming' = Tail(Coming) /\ Coming # <<>>
           /\ Coming[1].p.m = m /\ Front = Coming[1] /\ Coming \in Seq(Packet)
           /\ recvSeq' = recvSeq + 1 /\ pc \in Packets /\ pc # "IDENT"
  <1>1. pc \in Packets /\ Whole /\ Front.p.m = m /\ Consume /\ recvSeq' = recvSeq + 1
    BY DEF Takes, Consume
  <1>2. pc # "IDENT"
    BY <1>1 DEF Packets, Waits
  <1>3. Lead = 0 /\ FrameInv
    BY <1>2 DEF Live, TextInv
  <1>4. /\ FrameInv' /\ Lead' = 0 /\ Coming' = Tail(Coming)
        /\ Coming # <<>> /\ Front = Coming[1]
    BY <1>1, <1>3, ClientTakes
  <1> QED
    BY <1>1, <1>2, <1>3, <1>4 DEF FrameInv

\* Nothing is sealed before the fourth packet, and nothing opened.
LEMMA Early ==
    ASSUME NEW n \in Nat, n < 4, NEW e \in BOOLEAN
    PROVE  /\ e = (n >= 4) <=> e = FALSE
           /\ n < 3 => (e = (n >= 3) <=> e = FALSE)
  <1>1. (n >= 4) = FALSE /\ (n < 3 => (n >= 3) = FALSE)
    OBVIOUS
  <1> QED
    BY <1>1, Zenon

LEMMA KexinitFine == ASSUME Types, Types', Live, GotKexinit PROVE Fine'
  <1>1. /\ pc = "KEXINIT" /\ Takes("KEXINIT") /\ encrypted' = encrypted
        /\ UNCHANGED channel /\ wire' = wire /\ srv' = srv
    BY DEF GotKexinit
  <1>2. CASE Unwanted("kex")
    <2>1. pc' = "done" /\ why' = "kex"
      BY <1>2 DEF Unwanted, Failed
    <2> QED
      BY <1>1, <2>1, Gone
  <1>3. CASE pc' = "KEXDH_REPLY" /\ why' = why /\ Sends(<<Msg("KEXDH_INIT")>>)
    <2> DEFINE msgs == <<Msg("KEXDH_INIT")>>
    <2>1. msgs \in Seq(Message) /\ Len(msgs) = 1 /\ msgs[1] = Msg("KEXDH_INIT")
      BY OneOf DEF ClientMessages
    <2>2. sendSeq' = sendSeq + Len(msgs)
      BY <1>3 DEF Sends
    <2> HIDE DEF msgs
    <2>3. /\ sendSeq = 1 /\ encrypted = (sendSeq >= 4) /\ encrypted \in BOOLEAN
          /\ 1 \in Nat /\ 1 < 3 /\ 2 \in Nat /\ 2 < 4
      BY <1>1 DEF Live, PcInv, Types
    <2>4. /\ sendSeq' = 2 /\ encrypted' = FALSE
          /\ encrypted' = (sendSeq' >= 4) /\ encrypted' = (sendSeq >= 3)
      <3>1. sendSeq' = 2
        BY <2>1, <2>2, <2>3
      <3>2. encrypted = FALSE
        <4>1. (sendSeq >= 4) = FALSE
          BY <2>3
        <4> QED
          BY <2>3, <4>1, Zenon
      <3>3. FALSE = (2 >= 4) /\ FALSE = (1 >= 3)
        BY <2>3, Early
      <3> QED
        BY <1>1, <2>3, <3>1, <3>2, <3>3, Zenon
    <2>5. PcInv'
      BY <1>3, <2>4 DEF PcInv, Blocking, Waits, Shell
    <2>6. /\ FrameInv' /\ Lead' = 0 /\ Coming' = Tail(Coming) /\ Coming # <<>>
          /\ Coming[1].p.m = "KEXINIT" /\ Coming \in Seq(Packet)
      BY <1>1, TakesFront
    <2>7. Hello
      BY <1>1 DEF Live, StageInv
    <2>8. srv.phase = "kex" /\ srv.recvSeq < 2
      <3>1. srv.recvSeq <= 1 /\ srv.recvSeq \in Nat
        BY <2>3, Behind DEF Live
      <3>2. srv.phase \in {"start", "ident", "kex"}
        BY <3>1 DEF Live, PhaseInv
      <3>3. Flying # 0
        BY <2>6, EmptyIs DEF Live, FrameInv
      <3>4. srv.sendSeq # 0
        BY <3>3, NothingYet DEF Live
      <3> QED
        BY <3>1, <3>2, <3>4 DEF Live, PhaseInv
    <2>9. Only(Coming', Calm)
      <3>1. Awaits(Coming, "KEXINIT", {}, Calm)
        BY <2>7, <2>8 DEF Hello
      <3> QED
        BY <2>6, <3>1, AwaitsTail
    <2>10. SealedAs(Coming', FALSE)
      BY <2>6, <2>7, SealedTail DEF Hello
    <2>11. Exchange'
      BY <1>1, <2>8, <2>9, <2>10 DEF Exchange
    <2>12. StageInv'
      BY <1>3, <2>11 DEF StageInv, Secured, Shell
    <2>13. \A i \in 1..Len(msgs) : /\ msgs[i].m \in Due(sendSeq + i - 1)
                                   /\ encrypted' = (sendSeq + i - 1 >= 3)
      <3>1. ASSUME NEW i \in 1..Len(msgs)
            PROVE  msgs[i] = msgs[1] /\ sendSeq + i - 1 = sendSeq
        BY <2>1, <2>3
      <3>2. msgs[1].m \in Due(sendSeq)
        BY <2>1, <2>3 DEF Due, Msg
      <3> QED
        BY <2>4, <3>1, <3>2, Zenon
    <2>14. Sends(msgs)
      BY <1>3 DEF msgs
    <2>15. Live'
      BY <1>1, <1>3, <2>1, <2>5, <2>6, <2>12, <2>13, <2>14, Onward DEF Shell
    <2> QED
      BY <1>3, <2>15 DEF Fine
  <1>4. \/ Fine' \/ Unwanted("kex")
        \/ pc' = "KEXDH_REPLY" /\ why' = why /\ Sends(<<Msg("KEXDH_INIT")>>)
    BY <1>1, Proceeds DEF GotKexinit
  <1> QED
    BY <1>2, <1>3, <1>4

LEMMA KexdhReplyFine == ASSUME Types, Types', Live, GotKexdhReply PROVE Fine'
  <1>1. /\ pc = "KEXDH_REPLY" /\ Takes("KEXDH_REPLY") /\ encrypted' = encrypted
        /\ UNCHANGED channel /\ wire' = wire /\ srv' = srv
    BY DEF GotKexdhReply
  <1>2. CASE Unwanted("kex")
    <2>1. pc' = "done" /\ why' = "kex"
      BY <1>2 DEF Unwanted, Failed
    <2> QED
      BY <1>1, <2>1, Gone
  <1>3. CASE pc' = "NEWKEYS" /\ why' = why /\ Sends(<<Msg("NEWKEYS")>>)
    <2> DEFINE msgs == <<Msg("NEWKEYS")>>
    <2>1. msgs \in Seq(Message) /\ Len(msgs) = 1 /\ msgs[1] = Msg("NEWKEYS")
      BY OneOf DEF ClientMessages
    <2>2. sendSeq' = sendSeq + Len(msgs)
      BY <1>3 DEF Sends
    <2> HIDE DEF msgs
    <2>3. /\ sendSeq = 2 /\ encrypted = (sendSeq >= 4) /\ encrypted \in BOOLEAN
          /\ 2 \in Nat /\ 2 < 3 /\ 3 \in Nat /\ 3 < 4
      BY <1>1 DEF Live, PcInv, Types
    <2>4. /\ sendSeq' = 3 /\ encrypted' = FALSE
          /\ encrypted' = (sendSeq' >= 4) /\ encrypted' = (sendSeq >= 3)
      <3>1. sendSeq' = 3
        BY <2>1, <2>2, <2>3
      <3>2. encrypted = FALSE
        <4>1. (sendSeq >= 4) = FALSE
          BY <2>3
        <4> QED
          BY <2>3, <4>1, Zenon
      <3>3. FALSE = (3 >= 4) /\ FALSE = (2 >= 3)
        BY <2>3, Early
      <3> QED
        BY <1>1, <2>3, <3>1, <3>2, <3>3, Zenon
    <2>5. PcInv'
      BY <1>3, <2>4 DEF PcInv, Blocking, Waits, Shell
    <2>6. /\ FrameInv' /\ Lead' = 0 /\ Coming' = Tail(Coming) /\ Coming # <<>>
          /\ Coming[1].p.m = "KEXDH_REPLY" /\ Coming \in Seq(Packet)
      BY <1>1, TakesFront
    <2>7. Exchange
      BY <1>1 DEF Live, StageInv
    <2>8. srv.phase = "kex" /\ srv.recvSeq >= 2 /\ Answered
      <3>1. ASSUME Only(Coming, Calm) PROVE FALSE
        <4>1. Coming[1].p.m \in Calm
          BY <2>6, <3>1, OnlyTail
        <4> QED
          BY <2>6, <4>1 DEF Calm
      <3> QED
        BY <2>7, <3>1 DEF Exchange
    <2>9. NewKeys'
      <3>1. /\ Len(Coming) \in Nat /\ Len(Coming) >= 1 /\ Len(Coming') = Len(Coming) - 1
            /\ \A i \in 1..(Len(Coming) - 1) : Coming'[i] = Coming[i + 1]
        BY <2>6, HeadAndTail
      <3>2. PICK j \in 2..Len(Coming) :
                /\ Coming[j - 1].p.m = "KEXDH_REPLY" /\ Coming[j].p.m = "NEWKEYS"
                /\ \A i \in 1..Len(Coming) :
                       /\ Coming[i].enc = (i > j)
                       /\ i < j - 1 \/ i > j => Coming[i].p.m \in Calm
        BY <2>8 DEF Answered
      <3>3. j = 2
        <4>1. SUFFICES ASSUME j > 2 PROVE FALSE
          BY <3>2
        <4>2. 1 \in 1..Len(Coming) /\ 1 < j - 1
          BY <3>1, <4>1
        <4>3. Coming[1].p.m \in Calm
          BY <3>2, <4>2
        <4> QED
          BY <2>6, <4>3 DEF Calm
      <3>4. 2 \in 1..Len(Coming) /\ 1 \in 1..(Len(Coming) - 1) /\ Len(Coming') >= 1
        BY <3>1, <3>2, <3>3
      <3>5. Coming'[1] = Coming[2]
        BY <3>1, <3>4
      <3>6. Coming[2].p.m = "NEWKEYS" /\ Coming[2].enc = (2 > 2)
        BY <3>2, <3>3, <3>4
      <3>7. (2 > 2) = FALSE
        OBVIOUS
      <3>8. ASSUME NEW i \in 2..Len(Coming')
            PROVE  Coming'[i].p.m \in Calm /\ Coming'[i].enc = TRUE
        <4>1. /\ i \in 1..(Len(Coming) - 1) /\ i + 1 \in 1..Len(Coming) /\ i + 1 > 2
          BY <3>1
        <4>2. Coming'[i] = Coming[i + 1]
          BY <3>1, <4>1
        <4>3. Coming[i + 1].enc = (i + 1 > 2) /\ Coming[i + 1].p.m \in Calm
          BY <3>2, <3>3, <4>1
        <4>4. (i + 1 > 2) = TRUE
          BY <4>1
        <4> QED
          BY <4>2, <4>3, <4>4, Zenon
      <3>9. Coming'[1].p.m = "NEWKEYS" /\ Coming'[1].enc = FALSE
        BY <3>5, <3>6, <3>7, Zenon
      <3> QED
        BY <1>1, <2>8, <3>4, <3>8, <3>9 DEF NewKeys
    <2>12. StageInv'
      BY <1>3, <2>9 DEF StageInv, Secured, Shell
    <2>13. \A i \in 1..Len(msgs) : /\ msgs[i].m \in Due(sendSeq + i - 1)
                                   /\ encrypted' = (sendSeq + i - 1 >= 3)
      <3>1. ASSUME NEW i \in 1..Len(msgs)
            PROVE  msgs[i] = msgs[1] /\ sendSeq + i - 1 = sendSeq
        BY <2>1, <2>3
      <3>2. msgs[1].m \in Due(sendSeq)
        BY <2>1, <2>3 DEF Due, Msg
      <3> QED
        BY <2>4, <3>1, <3>2, Zenon
    <2>14. Sends(msgs)
      BY <1>3 DEF msgs
    <2>15. Live'
      BY <1>1, <1>3, <2>1, <2>5, <2>6, <2>12, <2>13, <2>14, Onward DEF Shell
    <2> QED
      BY <1>3, <2>15 DEF Fine
  <1>4. \/ Fine' \/ Unwanted("kex")
        \/ pc' = "NEWKEYS" /\ why' = why /\ Sends(<<Msg("NEWKEYS")>>)
    BY <1>1, Proceeds DEF GotKexdhReply
  <1> QED
    BY <1>2, <1>3, <1>4

LEMMA NewkeysFine == ASSUME Types, Types', Live, GotNewkeys PROVE Fine'
  <1>1. /\ pc = "NEWKEYS" /\ Takes("NEWKEYS")
        /\ UNCHANGED channel /\ wire' = wire /\ srv' = srv
    BY DEF GotNewkeys
  <1>2. CASE Unwanted("kex")
    <2>1. pc' = "done" /\ why' = "kex"
      BY <1>2 DEF Unwanted, Failed
    <2> QED
      BY <1>1, <2>1, Gone
  <1>3. CASE /\ encrypted' = TRUE
             /\ pc' = "SERVICE_ACCEPT" /\ why' = why /\ Sends(<<Msg("SERVICE_REQUEST")>>)
    <2> DEFINE msgs == <<Msg("SERVICE_REQUEST")>>
    <2>1. msgs \in Seq(Message) /\ Len(msgs) = 1 /\ msgs[1] = Msg("SERVICE_REQUEST")
      BY OneOf DEF ClientMessages
    <2>2. sendSeq' = sendSeq + Len(msgs)
      BY <1>3 DEF Sends
    <2> HIDE DEF msgs
    <2>3. sendSeq = 3
      BY <1>1 DEF Live, PcInv
    <2>4. sendSeq' = 4 /\ encrypted' = (sendSeq' >= 4) /\ encrypted' = (sendSeq >= 3)
      <3>1. sendSeq' = 4
        BY <2>1, <2>2, <2>3
      <3>2. TRUE = (4 >= 4) /\ TRUE = (3 >= 3)
        OBVIOUS
      <3> QED
        BY <1>3, <2>3, <3>1, <3>2, Zenon
    <2>5. PcInv'
      BY <1>3, <2>4 DEF PcInv, Blocking, Waits, Shell
    <2>6. /\ FrameInv' /\ Lead' = 0 /\ Coming' = Tail(Coming) /\ Coming # <<>>
          /\ Coming[1].p.m = "NEWKEYS" /\ Coming \in Seq(Packet)
      BY <1>1, TakesFront
    <2>7. NewKeys
      BY <1>1 DEF Live, StageInv
    <2>8. srv.recvSeq \in {2, 3}
      <3>1. srv.recvSeq <= 3 /\ srv.recvSeq \in Nat
        BY <2>3, Behind DEF Live
      <3>2. srv.recvSeq >= 2
        BY <2>7 DEF NewKeys
      <3> QED
        BY <3>1, <3>2
    <2>9. Only(Coming', Calm) /\ SealedAs(Coming', TRUE)
      <3>1. /\ Len(Coming) \in Nat /\ Len(Coming) >= 1 /\ Len(Coming') = Len(Coming) - 1
            /\ \A i \in 1..(Len(Coming) - 1) : Coming'[i] = Coming[i + 1]
        BY <2>6, HeadAndTail
      <3>2. ASSUME NEW i \in 1..Len(Coming')
            PROVE  Coming'[i].p.m \in Calm /\ Coming'[i].enc = TRUE
        <4>1. i \in 1..(Len(Coming) - 1) /\ i + 1 \in 2..Len(Coming)
          BY <3>1
        <4>2. Coming'[i] = Coming[i + 1]
          BY <3>1, <4>1
        <4> QED
          BY <2>7, <4>1, <4>2 DEF NewKeys
      <3> QED
        BY <3>2 DEF Only, SealedAs
    <2>11. Service'
      BY <1>1, <2>8, <2>9 DEF Service
    <2>12. StageInv'
      BY <1>3, <2>9, <2>11 DEF StageInv, Shell
    <2>13. \A i \in 1..Len(msgs) : /\ msgs[i].m \in Due(sendSeq + i - 1)
                                   /\ encrypted' = (sendSeq + i - 1 >= 3)
      <3>1. ASSUME NEW i \in 1..Len(msgs)
            PROVE  msgs[i] = msgs[1] /\ sendSeq + i - 1 = sendSeq
        BY <2>1, <2>3
      <3>2. msgs[1].m \in Due(sendSeq)
        BY <2>1, <2>3 DEF Due, Msg
      <3> QED
        BY <2>4, <3>1, <3>2, Zenon
    <2>14. Sends(msgs)
      BY <1>3 DEF msgs
    <2>15. Live'
      BY <1>1, <1>3, <2>1, <2>5, <2>6, <2>12, <2>13, <2>14, Onward DEF Shell
    <2> QED
      BY <1>3, <2>15 DEF Fine
  <1>4. \/ Unwanted("kex")
        \/ encrypted' = TRUE /\ Proceed("SERVICE_ACCEPT", <<Msg("SERVICE_REQUEST")>>)
    BY DEF GotNewkeys
  <1>5. Proceed("SERVICE_ACCEPT", <<Msg("SERVICE_REQUEST")>>) =>
           \/ Fine'
           \/ pc' = "SERVICE_ACCEPT" /\ why' = why /\ Sends(<<Msg("SERVICE_REQUEST")>>)
    BY <1>1, Proceeds
  <1> QED
    BY <1>2, <1>3, <1>4, <1>5

\* From here on everything the client sends is due at any time.
LEMMA LaterDue ==
    ASSUME Types, Live, pc \in Secured \ {"SERVICE_ACCEPT"} \/ sendSeq >= 4,
           encrypted' = encrypted,
           NEW msgs \in Seq(Message), \A i \in 1..Len(msgs) : msgs[i].m \in Later,
           sendSeq' = sendSeq + Len(msgs)
    PROVE  /\ \A i \in 1..Len(msgs) : /\ msgs[i].m \in Due(sendSeq + i - 1)
                                      /\ encrypted' = (sendSeq + i - 1 >= 3)
           /\ sendSeq >= 4 /\ sendSeq' >= 4 /\ encrypted' = (sendSeq' >= 4)
  <1>1. sendSeq >= 4 /\ sendSeq \in Nat /\ Len(msgs) \in Nat
    BY DEF Live, PcInv, Secured, Types
  <1>2. (sendSeq >= 4) = TRUE /\ sendSeq' >= 4 /\ (sendSeq' >= 4) = TRUE
    BY <1>1
  <1>3. encrypted' = TRUE
    <2>1. encrypted = (sendSeq >= 4)
      BY DEF Live, PcInv
    <2> QED
      BY <1>2, <2>1, Zenon
  <1>4. ASSUME NEW i \in 1..Len(msgs)
        PROVE  msgs[i].m \in Due(sendSeq + i - 1) /\ encrypted' = (sendSeq + i - 1 >= 3)
    <2>1. sendSeq + i - 1 >= 4 /\ (sendSeq + i - 1 >= 3) = TRUE
      BY <1>1
    <2>2. Due(sendSeq + i - 1) = Later
      BY <1>1, <2>1 DEF Due
    <2> QED
      BY <1>3, <2>1, <2>2, Zenon
  <1> QED
    BY <1>1, <1>2, <1>3, <1>4, Zenon

LEMMA ServiceAcceptFine == ASSUME Types, Types', Live, GotServiceAccept PROVE Fine'
  <1>1. /\ pc = "SERVICE_ACCEPT" /\ Takes("SERVICE_ACCEPT") /\ encrypted' = encrypted
        /\ UNCHANGED channel /\ wire' = wire /\ srv' = srv
    BY DEF GotServiceAccept
  <1>2. pc' = "password" /\ why' = why /\ Sends(<<>>)
    BY DEF GotServiceAccept, Proceed
  <1>3. sendSeq' = sendSeq + Len(<<>>) /\ sendSeq = 4 /\ sendSeq \in Nat
    BY <1>1, <1>2 DEF Sends, Live, PcInv, Types
  <1>4. /\ \A i \in 1..Len(<<>>) : <<>>[i].m \in Later
        /\ pc \in Secured \ {"SERVICE_ACCEPT"} \/ sendSeq >= 4
    BY <1>3, NoneOf
  <1>5. /\ \A i \in 1..Len(<<>>) : /\ <<>>[i].m \in Due(sendSeq + i - 1)
                                   /\ encrypted' = (sendSeq + i - 1 >= 3)
        /\ sendSeq' >= 4 /\ encrypted' = (sendSeq' >= 4)
    BY <1>1, <1>3, <1>4, NoneOf, LaterDue, Zenon
  <1>6. PcInv'
    BY <1>2, <1>5 DEF PcInv, Blocking, Waits, Shell
  <1>7. /\ FrameInv' /\ Lead' = 0 /\ Coming' = Tail(Coming) /\ Coming # <<>>
        /\ Coming[1].p.m = "SERVICE_ACCEPT" /\ Coming \in Seq(Packet)
    BY <1>1, TakesFront
  <1>8. Service /\ SealedAs(Coming, TRUE)
    BY <1>1 DEF Live, StageInv, Secured
  <1>9. srv.phase = "auth" /\ Awaits(Coming, "SERVICE_ACCEPT", Calm, Calm)
    <2>1. Only(Coming, Calm) => Coming[1].p.m \in Calm
      BY <1>7, OnlyTail
    <2> QED
      BY <1>7, <1>8, <2>1 DEF Service, Calm
  <1>10. Only(Coming', Calm)
    <2>1. "SERVICE_ACCEPT" \notin Calm
      BY DEF Calm
    <2> QED
      BY <1>7, <1>9, <2>1, AwaitsTail
  <1>11. SealedAs(Coming', TRUE)
    BY <1>7, <1>8, SealedTail
  <1>12. up' = <<>>
    <2>1. ~(srv.recvSeq <= 3)
      BY <1>9 DEF Live, PhaseInv
    <2>2. /\ srv.recvSeq \in Nat /\ sendSeq + Named = srv.recvSeq + Len(up)
          /\ Named \in {0, 1} /\ (Named = 1 => srv.recvSeq = 0)
          /\ up \in Seq(Packet) /\ Len(up) \in Nat
      BY DEF Live, UpInv, Named, Types, Peer
    <2>3. Len(up) = 0
      BY <1>3, <2>1, <2>2
    <2>4. up' \in Seq(Packet) /\ Len(up') = 0
      <3>1. up' = up \o Sealed(<<>>, sendSeq, encrypted')
        BY <1>2 DEF Sends
      <3>2. Sealed(<<>>, sendSeq, encrypted') \in Seq(Packet)
            /\ Len(Sealed(<<>>, sendSeq, encrypted')) = 0
        BY <1>3, NoneOf, SealedWith DEF Types
      <3> QED
        BY <2>2, <2>3, <3>1, <3>2, Joined
    <2> QED
      BY <2>4, EmptyIs
  <1>13. Login'
    BY <1>1, <1>9, <1>10, <1>12 DEF Login
  <1>14. StageInv'
    BY <1>2, <1>11, <1>13 DEF StageInv, Shell
  <1>15. Live'
    BY <1>1, <1>2, <1>5, <1>6, <1>7, <1>14, NoneOf, Onward DEF Shell
  <1> QED
    BY <1>2, <1>15 DEF Fine

\* What is sent goes behind what is on its way.
LEMMA SentUp ==
    ASSUME Types, encrypted' \in BOOLEAN, NEW msgs \in Seq(Message), Sends(msgs)
    PROVE  /\ up' \in Seq(Packet) /\ Len(up') = Len(up) + Len(msgs)
           /\ Len(up) \in Nat /\ Len(msgs) \in Nat
           /\ \A i \in 1..Len(up) : up'[i] = up[i]
           /\ \A i \in 1..Len(msgs) : up'[i + Len(up)].p = msgs[i]
           /\ msgs = <<>> => up' = up
           /\ Sealed(msgs, sendSeq, encrypted') \in Seq(Packet)
           /\ Len(Sealed(msgs, sendSeq, encrypted')) = Len(msgs)
           /\ \A i \in 1..Len(msgs) : Sealed(msgs, sendSeq, encrypted')[i].p = msgs[i]
           /\ up' = up \o Sealed(msgs, sendSeq, encrypted')
  <1> DEFINE Q == Sealed(msgs, sendSeq, encrypted')
  <1>1. /\ Q \in Seq(Packet) /\ Len(Q) = Len(msgs)
        /\ \A i \in 1..Len(msgs) :
               Q[i] = [p |-> msgs[i], seq |-> sendSeq + i - 1, enc |-> encrypted']
    BY SealedWith DEF Types
  <1>2. ASSUME NEW i \in 1..Len(msgs) PROVE Q[i].p = msgs[i]
    <2> HIDE DEF Q
    <2>1. Q[i] = [p |-> msgs[i], seq |-> sendSeq + i - 1, enc |-> encrypted']
      BY <1>1
    <2> QED
      BY <2>1
  <1>3. up' = up \o Q /\ up \in Seq(Packet)
    BY DEF Sends, Types
  <1> HIDE DEF Q
  <1>4. /\ up' \in Seq(Packet) /\ Len(up') = Len(up) + Len(Q)
        /\ \A i \in 1..Len(up) : up'[i] = up[i]
        /\ \A i \in 1..Len(Q) : up'[i + Len(up)] = Q[i]
    BY <1>1, <1>3, Joined
  <1>5. ASSUME msgs = <<>> PROVE up' = up
    <2>1. Len(Q) = 0
      BY <1>1, <1>5
    <2> QED
      BY <1>3, <1>4, <2>1, SameSeq
  <1>6. Len(up) \in Nat /\ Len(msgs) \in Nat
    BY <1>3
  <1> QED
    BY <1>1, <1>2, <1>3, <1>4, <1>5, <1>6 DEF Q

LEMMA PasswordFine == ASSUME Types, Types', Live, Password PROVE Fine'
  <1>1. /\ pc = "password" /\ recvSeq' = recvSeq /\ encrypted' = encrypted
        /\ UNCHANGED channel /\ buf' = buf /\ wire' = wire /\ srv' = srv
    BY DEF Password
  <1>2. CASE Unwanted("user")
    <2>1. pc' = "done" /\ why' = "user"
      BY <1>2 DEF Unwanted, Failed
    <2> QED
      BY <1>1, <2>1, Gone
  <1>3. CASE pc' = "AUTH" /\ why' = why /\ Sends(<<Msg("USERAUTH_REQUEST")>>)
    <2> DEFINE msgs == <<Msg("USERAUTH_REQUEST")>>
    <2>1. msgs \in Seq(Message) /\ Len(msgs) = 1 /\ msgs[1] = Msg("USERAUTH_REQUEST")
      BY OneOf DEF ClientMessages
    <2>2. Sends(msgs) /\ sendSeq' = sendSeq + Len(msgs)
      BY <1>3 DEF Sends
    <2> HIDE DEF msgs
    <2>3. \A i \in 1..Len(msgs) : msgs[i].m \in Later
      BY <2>1 DEF Later, Msg
    <2>4. pc \in Secured \ {"SERVICE_ACCEPT"} /\ pc # "IDENT"
      BY <1>1 DEF Secured
    <2>5. /\ \A i \in 1..Len(msgs) : /\ msgs[i].m \in Due(sendSeq + i - 1)
                                     /\ encrypted' = (sendSeq + i - 1 >= 3)
          /\ sendSeq' >= 4 /\ encrypted' = (sendSeq' >= 4)
      BY <1>1, <2>1, <2>2, <2>3, <2>4, LaterDue
    <2>6. PcInv'
      BY <1>3, <2>5 DEF PcInv, Blocking, Waits, Shell
    <2>7. FrameInv' /\ Lead' = Lead /\ Coming' = Coming /\ Lead = 0
      <3>1. Stream' = Stream /\ srv'.sendSeq = srv.sendSeq
        BY <1>1 DEF Stream
      <3> QED
        BY <1>1, <2>4, <3>1, Stays DEF Live, TextInv
    <2>8. Login /\ SealedAs(Coming, TRUE)
      BY <1>1 DEF Live, StageInv, Secured
    <2>9. Len(up') = 1 /\ up'[1].p.m = "USERAUTH_REQUEST"
      <3>1. /\ Len(up') = Len(up) + Len(msgs)
            /\ \A i \in 1..Len(msgs) : up'[i + Len(up)].p = msgs[i]
        BY <2>1, <2>2, SentUp DEF Types
      <3>2. Len(up) = 0
        BY <2>8 DEF Login
      <3>3. 1 + Len(up) = 1 /\ 1 \in 1..Len(msgs) /\ Len(up') = 1
        BY <2>1, <3>1, <3>2
      <3>4. up'[1].p = msgs[1]
        BY <3>1, <3>3
      <3> QED
        BY <2>1, <3>3, <3>4 DEF Msg
    <2>10. Asked'
      BY <1>1, <2>7, <2>8, <2>9 DEF Login, Asked
    <2>11. StageInv'
      BY <1>3, <2>7, <2>8, <2>10 DEF StageInv, Shell
    <2>12. Live'
      BY <1>1, <1>3, <2>1, <2>2, <2>5, <2>6, <2>7, <2>11, Onward DEF Shell
    <2> QED
      BY <1>3, <2>12 DEF Fine
  <1>4. \/ Fine' \/ Unwanted("user")
        \/ pc' = "AUTH" /\ why' = why /\ Sends(<<Msg("USERAUTH_REQUEST")>>)
    BY <1>1, Proceeds DEF Password
  <1> QED
    BY <1>2, <1>3, <1>4

LEMMA LoggedIn ==
    ASSUME Types, Types', Live, pc = "AUTH", Takes("USERAUTH_SUCCESS"),
           encrypted' = encrypted, UNCHANGED channel, wire' = wire, srv' = srv,
           Proceed("CHANNEL", <<Msg("CHANNEL_OPEN")>>)
    PROVE  Fine'
  <1>1. CASE pc' = "CHANNEL" /\ why' = why /\ Sends(<<Msg("CHANNEL_OPEN")>>)
    <2> DEFINE msgs == <<Msg("CHANNEL_OPEN")>>
    <2>1. msgs \in Seq(Message) /\ Len(msgs) = 1 /\ msgs[1] = Msg("CHANNEL_OPEN")
      BY OneOf DEF ClientMessages
    <2>2. Sends(msgs) /\ sendSeq' = sendSeq + Len(msgs)
      BY <1>1 DEF Sends
    <2> HIDE DEF msgs
    <2>3. \A i \in 1..Len(msgs) : msgs[i].m \in Later
      BY <2>1 DEF Later, Msg
    <2>4. pc \in Secured \ {"SERVICE_ACCEPT"} /\ pc # "IDENT"
      BY DEF Secured
    <2>5. /\ \A i \in 1..Len(msgs) : /\ msgs[i].m \in Due(sendSeq + i - 1)
                                     /\ encrypted' = (sendSeq + i - 1 >= 3)
          /\ sendSeq' >= 4 /\ encrypted' = (sendSeq' >= 4)
      BY <2>1, <2>2, <2>3, <2>4, LaterDue
    <2>6. PcInv'
      BY <1>1, <2>5 DEF PcInv, Blocking, Waits, Shell
    <2>7. /\ FrameInv' /\ Lead' = 0 /\ Coming' = Tail(Coming) /\ Coming # <<>>
          /\ Coming[1].p.m = "USERAUTH_SUCCESS" /\ Coming \in Seq(Packet)
      BY TakesFront
    <2>8. Asked /\ SealedAs(Coming, TRUE)
      BY DEF Live, StageInv, Secured
    <2>9. up = <<>> /\ srv.phase = "authed" /\ Awaits(Coming, "USERAUTH_SUCCESS", Calm, Idle)
      <3>1. "USERAUTH_SUCCESS" \notin Calm
        BY DEF Calm
      <3>2. ~Only(Coming, Calm)
        BY <2>7, <3>1, OnlyTail
      <3>3. ~Awaits(Coming, "USERAUTH_FAILURE", Calm, Calm)
        <4>1. Coming[1].p.m # "USERAUTH_FAILURE"
          BY <2>7
        <4> QED
          BY <2>7, <3>1, <4>1, AwaitsTail
      <3> QED
        BY <2>8, <3>2, <3>3 DEF Asked
    <2>10. Only(Coming', Idle) /\ SealedAs(Coming', TRUE)
      <3>1. "USERAUTH_SUCCESS" \notin Calm
        BY DEF Calm
      <3> QED
        BY <2>7, <2>8, <2>9, <3>1, AwaitsTail, SealedTail
    <2>11. Len(up') = 1 /\ up'[1].p.m = "CHANNEL_OPEN"
      <3>1. /\ Len(up') = Len(up) + Len(msgs)
            /\ \A i \in 1..Len(msgs) : up'[i + Len(up)].p = msgs[i]
        BY <2>1, <2>2, SentUp DEF Types
      <3>2. Len(up) = 0
        BY <2>9
      <3>3. 1 + Len(up) = 1 /\ 1 \in 1..Len(msgs) /\ Len(up') = 1
        BY <2>1, <3>1, <3>2
      <3>4. up'[1].p = msgs[1]
        BY <3>1, <3>3
      <3> QED
        BY <2>1, <3>3, <3>4 DEF Msg
    <2>12. OpenAsked'
      <3>1. up' # <<>> /\ 2..Len(up') = {}
        BY <2>11
      <3> QED
        BY <2>9, <2>10, <2>11, <3>1 DEF OpenAsked
    <2>13. StageInv'
      BY <1>1, <2>10, <2>12 DEF StageInv, Shell
    <2>14. Live'
      BY <1>1, <2>1, <2>2, <2>4, <2>5, <2>6, <2>7, <2>13, Onward DEF Shell
    <2> QED
      BY <1>1, <2>14 DEF Fine
  <1>2. \/ Fine'
        \/ pc' = "CHANNEL" /\ why' = why /\ Sends(<<Msg("CHANNEL_OPEN")>>)
    BY Proceeds
  <1> QED
    BY <1>1, <1>2

LEMMA LoginRefused ==
    ASSUME Types, Types', Live, pc = "AUTH", Takes("USERAUTH_FAILURE"),
           encrypted' = encrypted, UNCHANGED channel, wire' = wire, srv' = srv,
           Proceed("password", <<>>)
    PROVE  Fine'
  <1>1. pc' = "password" /\ why' = why /\ Sends(<<>>)
    BY DEF Proceed
  <1>2. /\ \A i \in 1..Len(<<>>) : <<>>[i].m \in Later
        /\ sendSeq' = sendSeq + Len(<<>>)
        /\ pc \in Secured \ {"SERVICE_ACCEPT"} /\ pc # "IDENT"
    BY <1>1, NoneOf DEF Sends, Secured
  <1>3. /\ \A i \in 1..Len(<<>>) : /\ <<>>[i].m \in Due(sendSeq + i - 1)
                                   /\ encrypted' = (sendSeq + i - 1 >= 3)
        /\ sendSeq' >= 4 /\ encrypted' = (sendSeq' >= 4)
    BY <1>2, NoneOf, LaterDue, Zenon
  <1>4. PcInv'
    BY <1>1, <1>3 DEF PcInv, Blocking, Waits, Shell
  <1>5. /\ FrameInv' /\ Lead' = 0 /\ Coming' = Tail(Coming) /\ Coming # <<>>
        /\ Coming[1].p.m = "USERAUTH_FAILURE" /\ Coming \in Seq(Packet)
    BY TakesFront
  <1>6. Asked /\ SealedAs(Coming, TRUE)
    BY DEF Live, StageInv, Secured
  <1>7. "USERAUTH_FAILURE" \notin Calm /\ Coming[1].p.m # "USERAUTH_SUCCESS"
    BY <1>5 DEF Calm
  <1>8. up = <<>> /\ srv.phase = "auth" /\ Awaits(Coming, "USERAUTH_FAILURE", Calm, Calm)
    <2>1. ~Only(Coming, Calm)
      BY <1>5, <1>7, OnlyTail
    <2>2. ~Awaits(Coming, "USERAUTH_SUCCESS", Calm, Idle)
      BY <1>5, <1>7, AwaitsTail
    <2> QED
      BY <1>6, <2>1, <2>2 DEF Asked
  <1>9. Only(Coming', Calm) /\ SealedAs(Coming', TRUE)
    BY <1>5, <1>6, <1>7, <1>8, AwaitsTail, SealedTail
  <1>10. up' = <<>>
    BY <1>1, <1>8, NoneOf, SentUp DEF Types
  <1>11. Login'
    BY <1>8, <1>9, <1>10 DEF Login
  <1>12. StageInv'
    BY <1>1, <1>9, <1>11 DEF StageInv, Shell
  <1>13. Live'
    BY <1>1, <1>2, <1>3, <1>4, <1>5, <1>12, NoneOf, Onward DEF Shell
  <1> QED
    BY <1>1, <1>13 DEF Fine

LEMMA UserauthFine == ASSUME Types, Types', Live, GotUserauth PROVE Fine'
  <1>1. /\ pc = "AUTH" /\ encrypted' = encrypted
        /\ UNCHANGED channel /\ wire' = wire /\ srv' = srv
    BY DEF GotUserauth
  <1>2. CASE Takes("USERAUTH_SUCCESS") /\ Proceed("CHANNEL", <<Msg("CHANNEL_OPEN")>>)
    BY <1>1, <1>2, LoggedIn
  <1>3. CASE Takes("USERAUTH_FAILURE") /\ Proceed("password", <<>>)
    BY <1>1, <1>3, LoginRefused
  <1>4. CASE Unwanted("auth")
    <2>1. pc' = "done" /\ why' = "auth"
      BY <1>4 DEF Unwanted, Failed
    <2> QED
      BY <1>1, <2>1, Gone
  <1> QED
    BY <1>2, <1>3, <1>4 DEF GotUserauth

\* The channel is there: the credit of the open is the server's, more is on
\* its way.
LEMMA ChannelOpened ==
    ASSUME Types, Types', Live, pc = "CHANNEL", Takes("CHANNEL_OPEN_CONFIRMATION"),
           encrypted' = encrypted, UNCHANGED <<eof, shown>>, wire' = wire, srv' = srv,
           remote' = Front.p.ch, Proceed("keys", Opening(Front.p.ch))
    PROVE  Fine'
  <1>1. CASE pc' = "keys" /\ why' = why /\ Sends(Opening(Front.p.ch))
    <2>1. /\ FrameInv' /\ Lead' = 0 /\ Coming' = Tail(Coming) /\ Coming # <<>>
          /\ Coming[1].p.m = "CHANNEL_OPEN_CONFIRMATION" /\ Coming \in Seq(Packet)
          /\ Front = Coming[1]
      BY TakesFront
    <2>2. SealedAs(Coming, TRUE) /\ (OpenAsked \/ OpenRefused \/ OpenGranted)
      BY DEF Live, StageInv, Secured
    <2>3. OpenGranted
      <3>1. Coming[1].p.m \notin Idle /\ Coming[1].p.m # "CHANNEL_OPEN_FAILURE"
        BY <2>1 DEF Idle, Calm
      <3>2. ~Only(Coming, Idle) /\ ~Awaits(Coming, "CHANNEL_OPEN_FAILURE", Idle, Idle)
        BY <2>1, <3>1, OnlyTail, AwaitsTail
      <3> QED
        BY <2>2, <3>2 DEF OpenAsked, OpenRefused
    <2>4. Only(Coming', Idle) /\ SealedAs(Coming', TRUE) /\ Coming' \in Seq(Packet)
      <3>1. "CHANNEL_OPEN_CONFIRMATION" \notin Idle
        BY DEF Idle, Calm
      <3> QED
        BY <2>1, <2>2, <2>3, <3>1, AwaitsTail, SealedTail, HeadAndTail DEF OpenGranted
    <2>5. Front.p.ch = srv.ch /\ srv.ch \in Nat
      <3>1. 1 \in 1..Len(Coming)
        BY <2>1
      <3>2. Coming[1].p.ch = srv.ch
        BY <2>1, <2>3, <3>1 DEF OpenGranted
      <3> QED
        BY <2>1, <3>2 DEF Types, Peer
    <2> DEFINE c == srv.ch
               msgs == Opening(c)
               Q == Sealed(msgs, sendSeq, encrypted')
    <2>6. /\ msgs \in Seq(Message) /\ Len(msgs) = 4
          /\ msgs[1] = OnChannel("WINDOW_ADJUST", c, Window)
          /\ msgs[2] = OnChannel("PTY", c, 0)
          /\ msgs[3] = OnChannel("SHELL", c, 0)
          /\ msgs[4] = OnChannel("DATA", c, 0)
      BY <2>5, OpeningType
    <2>7. Sends(msgs) /\ sendSeq' = sendSeq + Len(msgs)
      BY <1>1, <2>5 DEF Sends
    <2> HIDE DEF msgs
    <2>8. \A i \in 1..Len(msgs) :
             /\ msgs[i].m \in InShellSent \ {"REQUEST_FAILURE", "EOF"} /\ msgs[i].ch = c
             /\ msgs[i].m = "WINDOW_ADJUST" <=> i = 1
      <3>1. ASSUME NEW i \in 1..Len(msgs) PROVE i \in {1, 2, 3, 4}
        BY <2>6
      <3> QED
        BY <2>6, <3>1 DEF OnChannel, InShellSent
    <2>9. \A i \in 1..Len(msgs) : msgs[i].m \in Later
      BY <2>8 DEF Later, InShellSent
    <2>10. pc \in Secured \ {"SERVICE_ACCEPT"} /\ pc # "IDENT" /\ pc \notin Shell
      BY DEF Secured, Shell
    <2>11. /\ \A i \in 1..Len(msgs) : /\ msgs[i].m \in Due(sendSeq + i - 1)
                                      /\ encrypted' = (sendSeq + i - 1 >= 3)
           /\ sendSeq' >= 4 /\ encrypted' = (sendSeq' >= 4)
      BY <2>6, <2>7, <2>9, <2>10, LaterDue
    <2>12. PcInv'
      BY <1>1, <2>11 DEF PcInv, Blocking, Waits, Shell
    <2>13. UpInv' /\ PhaseInv' /\ TextInv' /\ UnopenedInv'
      <3>1. UpInv'
        BY <2>6, <2>7, <2>11, SendUp DEF Live
      <3>2. PhaseInv' /\ TextInv'
        BY <1>1, <2>1, <2>10 DEF Live, PhaseInv, TextInv
      <3> QED
        BY <1>1, <3>1, <3>2 DEF UnopenedInv, Shell
    <2>14. StageInv'
      BY <1>1, <2>4 DEF StageInv, Shell
    <2>15. /\ up' \in Seq(Packet) /\ Len(up') = Len(up) + Len(msgs)
           /\ Len(up) \in Nat
           /\ \A i \in 1..Len(up) : up'[i] = up[i]
           /\ \A i \in 1..Len(msgs) : up'[i + Len(up)].p = msgs[i]
           /\ Q \in Seq(Packet) /\ Len(Q) = Len(msgs)
           /\ \A i \in 1..Len(msgs) : Q[i].p = msgs[i]
           /\ up' = up \o Q
      BY <2>6, <2>7, SentUp DEF Types
    <2> HIDE DEF Q
    <2>16. eof = FALSE /\ srv.eof = FALSE /\ shown = <<>> /\ srv.sent = 0
      BY DEF Live, UnopenedInv, Shell
    <2>17. \A i \in 1..Len(up') :
              /\ up'[i].p.m \in InShellSent \ {"EOF"}
              /\ up'[i].p.m # "REQUEST_FAILURE" => up'[i].p.ch = c
      <3>1. ASSUME NEW i \in 1..Len(up'), i \in 1..Len(up)
            PROVE  up'[i].p.m = "REQUEST_FAILURE"
        BY <2>3, <2>15, <3>1 DEF OpenGranted, Only
      <3>2. ASSUME NEW i \in 1..Len(up'), i \notin 1..Len(up)
            PROVE  up'[i].p.m \in InShellSent \ {"EOF"} /\ up'[i].p.ch = c
        <4>1. i - Len(up) \in 1..Len(msgs) /\ (i - Len(up)) + Len(up) = i
          BY <2>6, <2>15, <3>2
        <4>2. up'[i].p = msgs[i - Len(up)]
          <5>1. up'[(i - Len(up)) + Len(up)].p = msgs[i - Len(up)]
            BY <2>15, <4>1
          <5> QED
            BY <4>1, <5>1, Zenon
        <4>3. msgs[i - Len(up)].m \in InShellSent \ {"EOF"} /\ msgs[i - Len(up)].ch = c
          BY <2>8, <4>1
        <4> QED
          BY <4>2, <4>3, Zenon
      <3> QED
        BY <3>1, <3>2 DEF InShellSent
    <2>18. ShellInv'
      <3>1. srv'.phase = "channel" /\ remote' = srv'.ch /\ srv'.eof = FALSE
        BY <2>3, <2>5, <2>16 DEF OpenGranted
      <3>2. \A i \in 1..Len(up') :
              /\ up'[i].p.m \in InShellSent
              /\ up'[i].p.m # "REQUEST_FAILURE" => up'[i].p.ch = srv'.ch
              /\ up'[i].p.m # "EOF"
              /\ \A k \in 1..(i - 1) : up'[k].p.m # "EOF"
        <4>1. \A i \in 1..Len(up') : \A k \in 1..(i - 1) : k \in 1..Len(up')
          BY <2>15
        <4> QED
          BY <2>17, <4>1
      <3> QED
        BY <3>1, <3>2 DEF ShellInv
    <2>19. \A i \in 1..Len(Coming') : Coming'[i].p.m \notin Output \cup Ends
      BY <2>4 DEF Only, Idle, Calm, Output, Ends
    <2>20. ShowInv'
      <3>1. Len(shown') = 0 /\ srv'.sent = 0 /\ srv'.phase = "channel" /\ shown' = <<>>
        BY <2>3, <2>16 DEF OpenGranted
      <3> QED
        BY <2>19, <3>1 DEF ShowInv
    <2>21. CreditInv'
      <3>1. OutputsOf(Coming)' = 0
        <4>1. OutputsOf(Coming') = 0
          BY <2>4, <2>19, OutputsOfNone
        <4> QED
          BY <4>1 DEF OutputsOf
      <3>2. Credits(up') = Window
        <4>1. Credits(up) = 0
          BY <2>3, CreditsOfNone DEF OpenGranted, Only, Types
        <4>2. Q # <<>> /\ Len(Q) = 4 /\ Q[1].p = OnChannel("WINDOW_ADJUST", c, Window)
          BY <2>6, <2>15
        <4>3. Gift(Q[1]) = Window
          BY <4>2 DEF Gift, OnChannel
        <4>4. Tail(Q) \in Seq(Packet) /\ \A i \in 1..Len(Tail(Q)) : Tail(Q)[i].p.m # "WINDOW_ADJUST"
          <5>1. /\ Tail(Q) \in Seq(Packet) /\ Len(Tail(Q)) = 3
                /\ \A i \in 1..3 : Tail(Q)[i] = Q[i + 1]
            BY <2>15, <4>2, HeadAndTail
          <5>2. ASSUME NEW i \in 1..3 PROVE Tail(Q)[i].p.m # "WINDOW_ADJUST"
            <6>1. i + 1 \in 1..Len(msgs) /\ i + 1 # 1
              BY <2>6
            <6>2. Tail(Q)[i].p = msgs[i + 1] /\ msgs[i + 1].m # "WINDOW_ADJUST"
              BY <2>8, <2>15, <5>1, <6>1
            <6> QED
              BY <6>2
          <5> QED
            BY <5>1, <5>2
        <4>5. Credits(Tail(Q)) = 0
          BY <4>4, CreditsOfNone
        <4>6. Credits(Q) = Window
          <5>1. Credits(Q) = Gift(Q[1]) + Credits(Tail(Q))
            BY <2>15, <4>2, CreditsOfTail
          <5> QED
            BY <4>3, <4>5, <5>1, SshAssumption
        <4>7. Credits(up \o Q) = Credits(up) + Credits(Q)
          BY <2>15, CreditsJoined DEF Types
        <4>8. Credits(up \o Q) = Window
          BY <4>1, <4>6, <4>7, SshAssumption
        <4> QED
          BY <2>15, <4>8
      <3>3. srv'.credit = Window
        BY <2>3 DEF OpenGranted
      <3>4. Window + 0 + Window = 2 * Window
        BY SshAssumption
      <3>5. srv'.credit + OutputsOf(Coming)' + Credits(up') = 2 * Window
        BY <3>1, <3>2, <3>3, <3>4, Zenon
      <3> QED
        BY <3>5 DEF CreditInv
    <2>22. why' = "none" /\ pc' # "done"
      BY <1>1 DEF Live
    <2>23. Live'
      BY <2>1, <2>12, <2>13, <2>14, <2>18, <2>20, <2>21, <2>22 DEF Live
    <2> QED
      BY <2>22, <2>23 DEF Fine
  <1>2. \/ Fine'
        \/ pc' = "keys" /\ why' = why /\ Sends(Opening(Front.p.ch))
    BY Proceeds
  <1> QED
    BY <1>1, <1>2

LEMMA ChannelFine == ASSUME Types, Types', Live, GotChannel PROVE Fine'
  <1>1. /\ pc = "CHANNEL" /\ encrypted' = encrypted
        /\ UNCHANGED <<eof, shown>> /\ wire' = wire /\ srv' = srv
    BY DEF GotChannel
  <1>2. CASE /\ Takes("CHANNEL_OPEN_CONFIRMATION") /\ remote' = Front.p.ch
             /\ Proceed("keys", Opening(Front.p.ch))
    BY <1>1, <1>2, ChannelOpened
  <1>3. CASE Unwanted("channel")
    <2>1. pc' = "done" /\ why' = "channel"
      BY <1>3 DEF Unwanted, Failed
    <2> QED
      BY <1>1, <2>1, Gone
  <1> QED
    BY <1>2, <1>3 DEF GotChannel

----------------------------------------------------------------------------
(* The shell.                                                              *)

LEMMA SendsNone ==
    ASSUME Types, encrypted' \in BOOLEAN, sendSeq' = sendSeq, up' = up
    PROVE  Sends(<<>>)
  <1> DEFINE Q == Sealed(<<>>, sendSeq, encrypted')
  <1>1. Q \in Seq(Packet) /\ Len(Q) = 0
    BY NoneOf, SealedWith DEF Types
  <1> HIDE DEF Q
  <1>2. up \in Seq(Packet) /\ sendSeq \in Nat
    BY DEF Types
  <1>3. up \o Q \in Seq(Packet) /\ Len(up \o Q) = Len(up)
        /\ \A i \in 1..Len(up) : (up \o Q)[i] = up[i]
    BY <1>1, <1>2, Joined
  <1>4. up = up \o Q
    BY <1>2, <1>3, SameSeq
  <1>5. sendSeq' = sendSeq + Len(<<>>)
    BY <1>2
  <1> QED
    BY <1>4, <1>5 DEF Q, Sends

\* At most one message goes out of the shell at a time.
LEMMA ShellSends ==
    ASSUME Types, Types', Live, pc \in Shell, pc' \in Shell, srv' = srv, remote' = remote,
           NEW msgs \in Seq(Message), Len(msgs) <= 1, Sends(msgs),
           \A i \in 1..Len(msgs) :
               /\ msgs[i].m \in {"WINDOW_ADJUST", "DATA", "EOF"} /\ msgs[i].ch = remote
               /\ msgs[i].m = "DATA" => eof = FALSE
               /\ msgs[i].m = "EOF" => eof' = TRUE,
           eof = TRUE => eof' = TRUE
    PROVE  ShellInv'
  <1>1. /\ up' \in Seq(Packet) /\ Len(up') = Len(up) + Len(msgs)
        /\ Len(up) \in Nat /\ Len(msgs) \in Nat
        /\ \A i \in 1..Len(up) : up'[i] = up[i]
        /\ \A i \in 1..Len(msgs) : up'[i + Len(up)].p = msgs[i]
    BY SentUp DEF Types
  <1>2. /\ srv.phase \in {"channel", "shell", "rekey", "over"}
        /\ remote = srv.ch
        /\ \A i \in 1..Len(up) :
              /\ up[i].p.m \in InShellSent
              /\ up[i].p.m # "REQUEST_FAILURE" => up[i].p.ch = srv.ch
              /\ up[i].p.m = "DATA" => srv.eof = FALSE
              /\ up[i].p.m = "EOF" => eof = TRUE
              /\ \A k \in 1..(i - 1) : up[i].p.m = "DATA" => up[k].p.m # "EOF"
        /\ srv.eof = TRUE => eof = TRUE
    BY DEF Live, ShellInv
  <1>3. srv.eof \in BOOLEAN /\ eof \in BOOLEAN
    BY DEF Types, Peer
  <1>4. ASSUME NEW i \in 1..Len(up'), i \in 1..Len(up)
        PROVE  /\ up'[i].p.m \in InShellSent
               /\ up'[i].p.m # "REQUEST_FAILURE" => up'[i].p.ch = srv.ch
               /\ up'[i].p.m = "DATA" => srv.eof = FALSE
               /\ up'[i].p.m = "EOF" => eof' = TRUE
               /\ \A k \in 1..(i - 1) : up'[i].p.m = "DATA" => up'[k].p.m # "EOF"
    <2>1. \A k \in 1..(i - 1) : k \in 1..Len(up)
      BY <1>1, <1>4
    <2>2. up'[i] = up[i] /\ \A k \in 1..(i - 1) : up'[k] = up[k]
      BY <1>1, <1>4, <2>1
    <2>3. up'[i].p.m = "EOF" => eof' = TRUE
      BY <1>2, <1>4, <2>2
    <2> QED
      BY <1>2, <1>4, <2>2, <2>3
  <1>5. ASSUME NEW i \in 1..Len(up'), i \notin 1..Len(up)
        PROVE  /\ up'[i].p.m \in InShellSent
               /\ up'[i].p.ch = srv.ch
               /\ up'[i].p.m = "DATA" => srv.eof = FALSE
               /\ up'[i].p.m = "EOF" => eof' = TRUE
               /\ \A k \in 1..(i - 1) : up'[i].p.m = "DATA" => up'[k].p.m # "EOF"
    <2>1. Len(msgs) = 1 /\ i = 1 + Len(up) /\ 1 \in 1..Len(msgs)
          /\ \A k \in 1..(i - 1) : k \in 1..Len(up)
      <3> DEFINE a == Len(up)
                 b == Len(msgs)
                 c == Len(up')
      <3>1. /\ a \in Nat /\ b \in Nat /\ b <= 1 /\ c = a + b /\ i \in 1..c
            /\ i \notin 1..a
        BY <1>1, <1>5
      <3> HIDE DEF a, b, c
      <3>2. b = 1 /\ i = 1 + a
        BY <3>1
      <3>3. 1 \in 1..b /\ \A k \in 1..(i - 1) : k \in 1..a
        BY <3>1, <3>2
      <3> QED
        BY <3>2, <3>3 DEF a, b
    <2>2. up'[i].p = msgs[1]
      BY <1>1, <2>1
    <2>3. /\ msgs[1].m \in {"WINDOW_ADJUST", "DATA", "EOF"} /\ msgs[1].ch = remote
          /\ msgs[1].m = "DATA" => eof = FALSE
          /\ msgs[1].m = "EOF" => eof' = TRUE
      BY <2>1
    <2>4. msgs[1].m = "DATA" => srv.eof = FALSE
      BY <1>2, <1>3, <2>3
    <2>5. ASSUME NEW k \in 1..(i - 1), msgs[1].m = "DATA" PROVE up'[k].p.m # "EOF"
      <3>1. k \in 1..Len(up) /\ up'[k] = up[k]
        BY <1>1, <2>1
      <3>2. up[k].p.m # "EOF"
        BY <1>2, <2>3, <2>5, <3>1
      <3> QED
        BY <3>1, <3>2
    <2> QED
      BY <1>2, <2>2, <2>3, <2>4, <2>5 DEF InShellSent
  <1>6. srv.eof = TRUE => eof' = TRUE
    BY <1>2
  <1> QED
    BY <1>2, <1>4, <1>5, <1>6 DEF ShellInv

LEMMA ShellOn ==
    ASSUME Types, Types', Live, pc \in Shell, pc' \in Shell, why' = why, srv' = srv,
           encrypted' = encrypted, remote' = remote, FrameInv', Lead' = 0,
           Coming' = Coming \/ (Coming # <<>> /\ Coming' = Tail(Coming)),
           NEW msgs \in Seq(Message), Len(msgs) <= 1, Sends(msgs),
           \A i \in 1..Len(msgs) :
               /\ msgs[i].m \in {"WINDOW_ADJUST", "DATA", "EOF"} /\ msgs[i].ch = remote
               /\ msgs[i].m = "DATA" => eof = FALSE
               /\ msgs[i].m = "EOF" => eof' = TRUE,
           eof = TRUE => eof' = TRUE,
           ShowInv', CreditInv'
    PROVE  Live'
  <1>1. ShellInv'
    BY ShellSends
  <1>2. pc \in Secured \ {"SERVICE_ACCEPT"} /\ \A i \in 1..Len(msgs) : msgs[i].m \in Later
        /\ pc # "IDENT"
    BY DEF Secured, Shell, Later
  <1>3. sendSeq' = sendSeq + Len(msgs)
    BY DEF Sends
  <1>4. /\ \A i \in 1..Len(msgs) : /\ msgs[i].m \in Due(sendSeq + i - 1)
                                   /\ encrypted' = (sendSeq + i - 1 >= 3)
        /\ sendSeq' >= 4 /\ encrypted' = (sendSeq' >= 4)
    BY <1>2, <1>3, LaterDue
  <1>5. UpInv'
    BY <1>4, SendUp DEF Live
  <1>6. PhaseInv'
    BY DEF Live, PhaseInv
  <1>7. PcInv'
    BY <1>4 DEF PcInv, Blocking, Waits, Shell
  <1>8. TextInv'
    BY <1>2 DEF Live, TextInv, Shell
  <1>9. StageInv'
    <2>1. SealedAs(Coming, TRUE) /\ Coming \in Seq(Packet)
      BY DEF Live, StageInv, Secured, FrameInv
    <2>2. Coming # <<>> => SealedAs(Tail(Coming), TRUE)
      BY <2>1, SealedTail
    <2>3. SealedAs(Coming', TRUE)
      BY <2>1, <2>2
    <2> QED
      BY <2>3 DEF StageInv, Shell
  <1>10. UnopenedInv'
    BY DEF UnopenedInv
  <1> QED
    BY <1>1, <1>5, <1>6, <1>7, <1>8, <1>9, <1>10 DEF Live

\* A packet that shows nothing goes, or output that is not for this channel.
LEMMA ShowTail ==
    ASSUME Types, Live, pc \in Shell, Coming # <<>>, Coming' = Tail(Coming), srv' = srv,
           remote' = remote, shown' = shown,
           Coming[1].p.m \notin Output \/ remote # LocalChannel
    PROVE  ShowInv'
  <1>1. Coming \in Seq(Packet)
    BY DEF Live, FrameInv
  <1>2. /\ Len(Coming) \in Nat /\ Len(Coming) >= 1 /\ Len(Coming') = Len(Coming) - 1
        /\ \A i \in 1..(Len(Coming) - 1) : Coming'[i] = Coming[i + 1]
    BY <1>1, HeadAndTail
  <1>3. ShowInv
    BY DEF Live
  <1>4. ASSUME NEW i \in 1..Len(Coming')
        PROVE  /\ Coming'[i] = Coming[i + 1] /\ i + 1 \in 1..Len(Coming)
               /\ \A k \in 1..(i - 1) : /\ Coming'[k] = Coming[k + 1]
                                        /\ k + 1 \in 1..((i + 1) - 1)
    <2>1. \A k \in 1..(i - 1) : k \in 1..(Len(Coming) - 1) /\ k + 1 \in 1..((i + 1) - 1)
      BY <1>2
    <2> QED
      BY <1>2, <2>1
  <1>5. ASSUME NEW i \in 1..Len(Coming'), Coming'[i].p.m \in Output
        PROVE  /\ Coming'[i].p.ch = LocalChannel
               /\ Coming'[i].p.n \in (Len(shown) + 1)..srv.sent
               /\ \A k \in 1..(i - 1) :
                     /\ Coming'[k].p.m \notin Ends
                     /\ Coming'[k].p.m \in Output => Coming'[k].p.n < Coming'[i].p.n
    BY <1>3, <1>4, <1>5 DEF ShowInv
  <1>6. ASSUME remote = LocalChannel, NEW n \in (Len(shown) + 1)..srv.sent
        PROVE  \E i \in 1..Len(Coming') : Coming'[i].p.m \in Output /\ Coming'[i].p.n = n
    <2>1. PICK i \in 1..Len(Coming) : Coming[i].p.m \in Output /\ Coming[i].p.n = n
      BY <1>3, <1>6 DEF ShowInv
    <2>2. i # 1
      BY <1>6, <2>1
    <2>3. i - 1 \in 1..Len(Coming') /\ i - 1 \in 1..(Len(Coming) - 1) /\ (i - 1) + 1 = i
      BY <1>2, <2>2
    <2>4. Coming'[i - 1] = Coming[i]
      BY <1>2, <2>3
    <2> QED
      BY <2>1, <2>3, <2>4
  <1>7. ASSUME srv.phase \in {"channel", "shell"}, NEW i \in 1..Len(Coming')
        PROVE  Coming'[i].p.m \notin Ends
    BY <1>3, <1>4, <1>7 DEF ShowInv
  <1> QED
    BY <1>3, <1>5, <1>6, <1>7 DEF ShowInv

\* The output in front is the next to be shown.
LEMMA NextOutput ==
    ASSUME Types, Live, pc \in Shell, remote = LocalChannel, Coming # <<>>,
           Coming[1].p.m \in Output
    PROVE  Coming[1].p.n = Len(shown) + 1 /\ Len(shown) < srv.sent /\ Len(shown) \in Nat
           /\ srv.sent \in Nat
  <1>1. Coming \in Seq(Packet) /\ Len(shown) \in Nat /\ srv.sent \in Nat
    BY DEF Live, FrameInv, Types, Peer
  <1>2. Len(Coming) \in Nat /\ Len(Coming) >= 1 /\ Coming[1] \in Packet
    BY <1>1, HeadAndTail
  <1>3. 1 \in 1..Len(Coming)
    BY <1>2
  <1>4. Coming[1].p.n \in (Len(shown) + 1)..srv.sent
    BY <1>3 DEF Live, ShowInv
  <1>5. Len(shown) + 1 \in (Len(shown) + 1)..srv.sent
    BY <1>1, <1>4
  <1>6. PICK i \in 1..Len(Coming) : Coming[i].p.m \in Output /\ Coming[i].p.n = Len(shown) + 1
    BY <1>5 DEF Live, ShowInv
  <1>7. i = 1
    <2>1. SUFFICES ASSUME i # 1 PROVE FALSE
      OBVIOUS
    <2>2. 1 \in 1..(i - 1)
      BY <1>2, <2>1
    <2>3. Coming[1].p.n < Coming[i].p.n
      BY <1>6, <2>2 DEF Live, ShowInv
    <2> QED
      BY <1>1, <1>4, <1>6, <2>3
  <1> QED
    BY <1>1, <1>4, <1>6, <1>7

LEMMA ShowFront ==
    ASSUME Types, Live, pc \in Shell, remote = LocalChannel, Coming # <<>>,
           Coming[1].p.m \in Output, Coming' = Tail(Coming), srv' = srv,
           remote' = remote, shown' = Append(shown, Coming[1].p.n)
    PROVE  ShowInv'
  <1>1. Coming \in Seq(Packet) /\ shown \in Seq(Nat)
    BY DEF Live, FrameInv, Types
  <1>2. /\ Len(Coming) \in Nat /\ Len(Coming) >= 1 /\ Len(Coming') = Len(Coming) - 1
        /\ \A i \in 1..(Len(Coming) - 1) : Coming'[i] = Coming[i + 1]
        /\ Coming' \in Seq(Packet)
    BY <1>1, HeadAndTail
  <1>3. ShowInv
    BY DEF Live
  <1>4. ASSUME NEW i \in 1..Len(Coming')
        PROVE  /\ Coming'[i] = Coming[i + 1] /\ i + 1 \in 1..Len(Coming)
               /\ 1 \in 1..((i + 1) - 1)
               /\ \A k \in 1..(i - 1) : /\ Coming'[k] = Coming[k + 1]
                                        /\ k + 1 \in 1..((i + 1) - 1)
    <2>1. \A k \in 1..(i - 1) : k \in 1..(Len(Coming) - 1) /\ k + 1 \in 1..((i + 1) - 1)
      BY <1>2
    <2> QED
      BY <1>2, <2>1
  <1>5. /\ Coming[1].p.n = Len(shown) + 1 /\ Len(shown) < srv.sent /\ Len(shown) \in Nat
        /\ srv.sent \in Nat /\ Len(shown') = Len(shown) + 1
    BY <1>1, NextOutput
  <1>6. ASSUME NEW i \in 1..Len(Coming'), Coming'[i].p.m \in Output
        PROVE  /\ Coming'[i].p.ch = LocalChannel
               /\ Coming'[i].p.n \in (Len(shown') + 1)..srv.sent
               /\ \A k \in 1..(i - 1) :
                     /\ Coming'[k].p.m \notin Ends
                     /\ Coming'[k].p.m \in Output => Coming'[k].p.n < Coming'[i].p.n
    <2>1. /\ Coming'[i].p.ch = LocalChannel
          /\ Coming'[i].p.n \in (Len(shown) + 1)..srv.sent
          /\ \A k \in 1..(i - 1) :
                     /\ Coming'[k].p.m \notin Ends
                     /\ Coming'[k].p.m \in Output => Coming'[k].p.n < Coming'[i].p.n
          /\ Coming[1].p.n < Coming'[i].p.n
      BY <1>3, <1>4, <1>6 DEF ShowInv
    <2> DEFINE x == Coming'[i].p.n
               f == Coming[1].p.n
               l == Len(shown)
               l2 == Len(shown')
               t == srv.sent
    <2>2. x \in (l + 1)..t /\ f < x /\ f = l + 1 /\ l2 = l + 1 /\ l \in Nat /\ t \in Nat
      BY <1>5, <2>1
    <2> HIDE DEF x, f, l, l2, t
    <2>3. x \in (l2 + 1)..t
      BY <2>2
    <2> QED
      BY <2>1, <2>3 DEF x, l2, t
  <1>7. ASSUME NEW n \in (Len(shown') + 1)..srv.sent
        PROVE  \E i \in 1..Len(Coming') : Coming'[i].p.m \in Output /\ Coming'[i].p.n = n
    <2>1. n \in (Len(shown) + 1)..srv.sent /\ n # Len(shown) + 1
      BY <1>5
    <2>2. PICK i \in 1..Len(Coming) : Coming[i].p.m \in Output /\ Coming[i].p.n = n
      BY <1>3, <2>1 DEF ShowInv
    <2>3. i # 1
      BY <1>5, <2>1, <2>2
    <2>4. i - 1 \in 1..Len(Coming') /\ i - 1 \in 1..(Len(Coming) - 1) /\ (i - 1) + 1 = i
      BY <1>2, <2>3
    <2>5. Coming'[i - 1] = Coming[i]
      BY <1>2, <2>4
    <2> QED
      BY <2>2, <2>4, <2>5
  <1>8. ASSUME srv.phase \in {"channel", "shell"}, NEW i \in 1..Len(Coming')
        PROVE  Coming'[i].p.m \notin Ends
    BY <1>3, <1>4, <1>8 DEF ShowInv
  <1>9. Len(shown') <= srv.sent /\ srv.phase # "channel"
    BY <1>3, <1>5 DEF ShowInv
  <1> QED
    BY <1>6, <1>7, <1>8, <1>9 DEF ShowInv

LEMMA CreditTail ==
    ASSUME Types, Live, pc \in Shell, Coming # <<>>, Coming' = Tail(Coming), srv' = srv,
           remote' = remote,
           remote = LocalChannel => Credits(up') = Credits(up) + Weight(Coming[1])
    PROVE  CreditInv'
  <1>1. Coming \in Seq(Packet) /\ up \in Seq(Packet) /\ srv.credit \in Nat
    BY DEF Live, FrameInv, Types, Peer
  <1> DEFINE o == OutputsOf(Coming)
             d == OutputsOf(Tail(Coming))
             w == Weight(Coming[1])
             c == Credits(up)
             e == Credits(up')
             a == srv.credit
  <1>2. o = w + d /\ d \in Nat /\ w \in Nat
    BY <1>1, OutputsOfTail DEF Weight
  <1>3. c \in Nat /\ a \in Nat
    BY <1>1, CreditsJoined
  <1>4. remote = LocalChannel => a + o + c = 2 * Window /\ e = c + w
    BY DEF Live, CreditInv
  <1>5. OutputsOf(Coming)' = d
    <2>1. OutputsOf(Coming)' = OutputsOf(Coming')
      BY DEF OutputsOf
    <2> QED
      BY <2>1
  <1> HIDE DEF o, d, w, c, e, a
  <1>6. remote = LocalChannel => a + d + e = 2 * Window
    BY <1>2, <1>3, <1>4, SshAssumption
  <1>7. srv'.credit = a /\ Credits(up') = e
    BY DEF a, e
  <1> QED
    BY <1>5, <1>6, <1>7 DEF CreditInv

LEMMA DrainsFront ==
    ASSUME Types, Types', Live, NEW k \in Reads, NEW msgs, Drains(k, msgs)
    PROVE  /\ FrameInv' /\ Lead' = 0 /\ Coming' = Tail(Coming)
           /\ Coming # <<>> /\ Drained(k) = Coming[1].p /\ Coming[1].p.m \in msgs
           /\ pc = "drain" /\ pc \in Shell /\ encrypted' = encrypted /\ remote' = remote
           /\ eof' = eof /\ srv' = srv
           /\ Coming[1].p.m \in Output => Coming[1].p.ch = LocalChannel
  <1>1. /\ pc = "drain" /\ encrypted' = encrypted /\ remote' = remote
        /\ eof' = eof /\ srv' = srv
    BY DEF Drains, Polls
  <1>2. Lead = 0 /\ FrameInv
    BY <1>1 DEF Live, TextInv
  <1>3. /\ FrameInv' /\ Lead' = 0 /\ Coming' = Tail(Coming)
        /\ Coming # <<>> /\ Drained(k) = Coming[1].p /\ Coming[1].p.m \in msgs
    BY <1>2, DrainTakes
  <1>4. 1 \in 1..Len(Coming)
    BY <1>2, <1>3, HeadAndTail DEF FrameInv
  <1>5. pc \in Shell
    BY <1>1 DEF Shell
  <1>6. Coming[1].p.m \in Output => Coming[1].p.ch = LocalChannel
    BY <1>4, <1>5 DEF Live, ShowInv
  <1> QED
    BY <1>1, <1>3, <1>5, <1>6

\* A packet goes and nothing is said of it.
LEMMA DropFine ==
    ASSUME Types, Types', Live, NEW k \in Reads, NEW msgs, Drains(k, msgs),
           pc' = pc, why' = why, sendSeq' = sendSeq, up' = up, shown' = shown,
           Coming[1].p.m \notin Output \/ remote # LocalChannel
    PROVE  Fine'
  <1>1. /\ FrameInv' /\ Lead' = 0 /\ Coming' = Tail(Coming)
        /\ Coming # <<>> /\ pc = "drain" /\ pc \in Shell /\ encrypted' = encrypted
        /\ remote' = remote /\ eof' = eof /\ srv' = srv
    BY DrainsFront
  <1>2. ShowInv'
    BY <1>1, ShowTail
  <1>3. CreditInv'
    <2>1. up \in Seq(Packet)
      BY DEF Types
    <2>2. Credits(up) \in Nat
      BY <2>1, CreditsJoined
    <2>3. remote = LocalChannel => Credits(up') = Credits(up) + Weight(Coming[1])
      <3>1. remote = LocalChannel => Weight(Coming[1]) = 0
        BY DEF Weight
      <3> QED
        BY <2>2, <3>1
    <2> QED
      BY <1>1, <2>3, CreditTail
  <1>4. Sends(<<>>)
    BY <1>1, SendsNone DEF Types
  <1>5. \A i \in 1..Len(<<>>) :
            /\ <<>>[i].m \in {"WINDOW_ADJUST", "DATA", "EOF"} /\ <<>>[i].ch = remote
            /\ <<>>[i].m = "DATA" => eof = FALSE
            /\ <<>>[i].m = "EOF" => eof' = TRUE
    BY NoneOf
  <1>6. Len(<<>>) <= 1 /\ (eof = TRUE => eof' = TRUE)
    BY <1>1, NoneOf
  <1>7. Live'
    BY <1>1, <1>2, <1>3, <1>4, <1>5, <1>6, NoneOf, ShellOn
  <1> QED
    BY <1>1, <1>7 DEF Fine

LEMMA DrainOtherFine ==
    ASSUME Types, Types', Live, NEW k \in Reads, DrainOther(k)
    PROVE  Fine'
  <1> DEFINE msgs == {"IGNORE", "BANNER", "GLOBAL_REQUEST", "KEEPALIVE", "KEXINIT",
                      "EXIT_STATUS"}
  <1>1. /\ Drains(k, msgs) /\ pc' = pc /\ why' = why /\ sendSeq' = sendSeq /\ up' = up
        /\ shown' = shown
    BY DEF DrainOther
  <1>2. Coming[1].p.m \in msgs
    BY <1>1, DrainsFront
  <1>3. Coming[1].p.m \notin Output
    BY <1>2 DEF Output
  <1> QED
    BY <1>1, <1>3, DropFine

LEMMA DrainOutputFine ==
    ASSUME Types, Types', Live, NEW k \in Reads, DrainOutput(k)
    PROVE  Fine'
  <1>1. Drains(k, {"DATA", "EXTENDED_DATA"})
    BY DEF DrainOutput
  <1>2. /\ FrameInv' /\ Lead' = 0 /\ Coming' = Tail(Coming)
        /\ Coming # <<>> /\ pc = "drain" /\ pc \in Shell /\ encrypted' = encrypted
        /\ remote' = remote /\ eof' = eof /\ srv' = srv /\ Drained(k) = Coming[1].p
        /\ Coming[1].p.m \in Output /\ Coming[1].p.ch = LocalChannel
    BY <1>1, DrainsFront DEF Output
  <1>3. CASE remote # LocalChannel
    <2>1. UNCHANGED <<pc, why, count, sendSeq, shown, up>>
      BY <1>2, <1>3 DEF DrainOutput
    <2> QED
      BY <1>1, <1>3, <2>1, DropFine
  <1>4. CASE remote = LocalChannel
    <2> DEFINE msgs == <<OnChannel("WINDOW_ADJUST", remote, 1)>>
    <2>1. shown' = Append(shown, Coming[1].p.n) /\ Proceed("drain", msgs)
      BY <1>2, <1>4 DEF DrainOutput
    <2>2. Fine' \/ (pc' = "drain" /\ why' = why /\ Sends(msgs))
      BY <1>2, <2>1, Proceeds
    <2>3. ASSUME pc' = "drain", why' = why, Sends(msgs) PROVE Live'
      <3>1. OnChannel("WINDOW_ADJUST", remote, 1) \in Message
        BY OnChannelType DEF Types, Messages
      <3>2. /\ msgs \in Seq(Message) /\ Len(msgs) = 1
            /\ msgs[1] = OnChannel("WINDOW_ADJUST", remote, 1)
        BY <3>1, OneMessage
      <3> HIDE DEF msgs
      <3>3. msgs[1].m = "WINDOW_ADJUST" /\ msgs[1].ch = remote /\ msgs[1].n = 1
        BY <3>2 DEF OnChannel
      <3>4. \A i \in 1..Len(msgs) :
               /\ msgs[i].m \in {"WINDOW_ADJUST", "DATA", "EOF"} /\ msgs[i].ch = remote
               /\ msgs[i].m = "DATA" => eof = FALSE
               /\ msgs[i].m = "EOF" => eof' = TRUE
        <4>1. \A i \in 1..Len(msgs) : i = 1
          BY <3>2
        <4> QED
          BY <3>3, <4>1
      <3>5. ShowInv'
        BY <1>2, <1>4, <2>1, ShowFront
      <3>6. CreditInv'
        <4> DEFINE Q == Sealed(msgs, sendSeq, encrypted')
        <4>1. /\ Q \in Seq(Packet) /\ Len(Q) = Len(msgs)
              /\ \A i \in 1..Len(msgs) : Q[i].p = msgs[i]
              /\ up' = up \o Q
          BY <2>3, <3>2, SentUp DEF Types
        <4> HIDE DEF Q
        <4>2. Len(Q) = 1 /\ Q[1].p = msgs[1]
          BY <3>2, <4>1
        <4>3. Gift(Q[1]) = 1
          BY <3>3, <4>2 DEF Gift
        <4>4. Credits(Q) = 1
          BY <4>1, <4>2, <4>3, CreditsOfOne
        <4>5. Credits(up \o Q) = Credits(up) + Credits(Q)
          BY <4>1, CreditsJoined DEF Types
        <4>6. Credits(up') = Credits(up) + Weight(Coming[1])
          BY <1>2, <4>1, <4>4, <4>5 DEF Weight
        <4> QED
          BY <1>2, <4>6, CreditTail
      <3>7. Len(msgs) <= 1 /\ (eof = TRUE => eof' = TRUE) /\ pc' \in Shell
        BY <1>2, <2>3, <3>2 DEF Shell
      <3> QED
        BY <1>2, <2>3, <3>2, <3>4, <3>5, <3>6, <3>7, ShellOn
    <2>4. pc' = "drain" => pc' # "done"
      OBVIOUS
    <2> QED
      BY <2>2, <2>3, <2>4 DEF Fine
  <1> QED
    BY <1>3, <1>4

LEMMA DrainEndFine ==
    ASSUME Types, Types', Live, NEW k \in Reads, DrainEnd(k)
    PROVE  Fine'
  <1>1. /\ Drains(k, {"EOF", "CLOSE", "DISCONNECT"}) /\ pc' = "done" /\ shown' = shown
        /\ why' = IF Drained(k).m = "DISCONNECT" THEN "disconnect" ELSE "none"
    BY DEF DrainEnd
  <1>2. /\ Coming # <<>> /\ pc \in Shell /\ remote' = remote /\ srv' = srv
        /\ Drained(k) = Coming[1].p /\ Coming[1].p.m \in {"EOF", "CLOSE", "DISCONNECT"}
    BY <1>1, DrainsFront
  <1>3. CASE Drained(k).m = "DISCONNECT"
    <2>1. why' \notin {"none", "refused"}
      BY <1>1, <1>3
    <2> QED
      BY <1>1, <1>2, <2>1, Gone
  <1>4. CASE Drained(k).m # "DISCONNECT"
    <2>1. why' = "none" /\ Coming[1].p.m \in Ends
      BY <1>1, <1>2, <1>4 DEF Ends
    <2>2. ASSUME remote = LocalChannel PROVE Len(shown) = srv.sent
      <3>1. Len(shown) \in Nat /\ srv.sent \in Nat /\ Len(shown) <= srv.sent
        BY <1>2, <2>2 DEF Live, ShowInv, Types, Peer
      <3>2. SUFFICES ASSUME Len(shown) # srv.sent PROVE FALSE
        OBVIOUS
      <3>3. Len(shown) + 1 \in (Len(shown) + 1)..srv.sent
        BY <3>1, <3>2
      <3>4. PICK i \in 1..Len(Coming) :
                Coming[i].p.m \in Output /\ Coming[i].p.n = Len(shown) + 1
        BY <1>2, <2>2, <3>3 DEF Live, ShowInv
      <3>5. i # 1
        BY <2>1, <3>4 DEF Output, Ends
      <3>6. 1 \in 1..(i - 1)
        BY <3>5
      <3> QED
        BY <1>2, <2>1, <3>4, <3>6 DEF Live, ShowInv
    <2>3. ~srv.err
      BY DEF Live, PhaseInv
    <2> QED
      BY <1>1, <1>2, <2>1, <2>2, <2>3 DEF Fine, Ended, InStep
  <1> QED
    BY <1>3, <1>4

LEMMA KeyFine == ASSUME Types, Types', Live, Key PROVE Fine'
  <1>1. /\ pc = "keys" /\ eof = FALSE /\ encrypted' = encrypted /\ recvSeq' = recvSeq
        /\ remote' = remote /\ shown' = shown /\ buf' = buf /\ wire' = wire /\ srv' = srv
    BY DEF Key, Types
  <1>2. pc \in Shell
    BY <1>1 DEF Shell
  <1>3. PICK m \in {"DATA", "EOF"}, next \in Shell :
            /\ Proceed(next, <<OnChannel(m, remote, 0)>>)
            /\ m = "EOF" => eof' = TRUE
    BY DEF Key, Shell
  <1> DEFINE msgs == <<OnChannel(m, remote, 0)>>
  <1>4. Fine' \/ (pc' = next /\ why' = why /\ Sends(msgs))
    BY <1>1, <1>3, Proceeds
  <1>5. ASSUME pc' = next, why' = why, Sends(msgs) PROVE Live'
    <2>1. OnChannel(m, remote, 0) \in Message
      BY OnChannelType DEF Types, Messages
    <2>2. /\ msgs \in Seq(Message) /\ Len(msgs) = 1
          /\ msgs[1] = OnChannel(m, remote, 0)
      BY <2>1, OneMessage
    <2> HIDE DEF msgs
    <2>3. msgs[1].m = m /\ msgs[1].ch = remote
      BY <2>2 DEF OnChannel
    <2>4. \A i \in 1..Len(msgs) :
             /\ msgs[i].m \in {"WINDOW_ADJUST", "DATA", "EOF"} /\ msgs[i].ch = remote
             /\ msgs[i].m = "DATA" => eof = FALSE
             /\ msgs[i].m = "EOF" => eof' = TRUE
      <3>1. \A i \in 1..Len(msgs) : i = 1
        BY <2>2
      <3> QED
        BY <1>1, <1>3, <2>3, <3>1
    <2>5. FrameInv' /\ Lead' = 0 /\ Coming' = Coming
      <3>1. Stream' = Stream /\ srv'.sendSeq = srv.sendSeq
        BY <1>1 DEF Stream
      <3>2. Lead = 0
        BY <1>1 DEF Live, TextInv
      <3> QED
        BY <1>1, <3>1, <3>2, Stays DEF Live
    <2>6. ShowInv'
      BY <1>1, <1>2, <2>5 DEF Live, ShowInv
    <2>7. CreditInv'
      <3> DEFINE Q == Sealed(msgs, sendSeq, encrypted')
      <3>1. /\ Q \in Seq(Packet) /\ Len(Q) = Len(msgs)
            /\ \A i \in 1..Len(msgs) : Q[i].p = msgs[i]
            /\ up' = up \o Q
        BY <1>5, <2>2, SentUp DEF Types
      <3> HIDE DEF Q
      <3>2. Len(Q) = 1 /\ Q[1].p = msgs[1]
        BY <2>2, <3>1
      <3>3. \A i \in 1..Len(Q) : Q[i].p.m # "WINDOW_ADJUST"
        <4>1. \A i \in 1..Len(Q) : i = 1
          BY <3>2
        <4> QED
          BY <2>3, <3>2, <4>1
      <3>4. Credits(Q) = 0
        BY <3>1, <3>3, CreditsOfNone
      <3>5. Credits(up \o Q) = Credits(up) + Credits(Q) /\ Credits(up) \in Nat
        BY <3>1, CreditsJoined DEF Types
      <3>6. Credits(up') = Credits(up)
        BY <3>1, <3>4, <3>5
      <3>7. OutputsOf(Coming)' = OutputsOf(Coming)
        BY <2>5 DEF OutputsOf
      <3> QED
        BY <1>1, <1>2, <3>6, <3>7 DEF Live, CreditInv
    <2>8. Len(msgs) <= 1 /\ pc' \in Shell
      BY <1>3, <1>5, <2>2
    <2> QED
      BY <1>1, <1>2, <1>5, <2>2, <2>4, <2>5, <2>6, <2>7, <2>8, ShellOn
  <1>6. \A x \in Shell : x # "done"
    BY DEF Shell
  <1> QED
    BY <1>4, <1>5, <1>6 DEF Fine

----------------------------------------------------------------------------
(* Text and packets passed over.                                           *)

\* Until the client has read the identification, there is text in front.
LEMMA TextComes ==
    ASSUME Types, Types', Live, ReadIdentification
    PROVE  /\ Lead # 0 /\ Lead \in Nat /\ FrameInv' /\ Lead' = Lead - 1 /\ Coming' = Coming
           /\ Front.p.m = IF 1 = Lead /\ srv.phase # "start" THEN "IDENT" ELSE "LINE"
           /\ \A k \in 1..(Lead - 1) : Stream'[k] = Stream[k + 1]
  <1>1. /\ pc = "IDENT" /\ Whole /\ buf' = AfterOf(buf) /\ recvSeq' = recvSeq
        /\ wire' = wire /\ srv' = srv
    BY DEF ReadIdentification
  <1>2. /\ buf \in Seq(Piece) /\ wire \in Seq(Piece) /\ buf \o wire = Stream
        /\ WholeIn(buf) /\ Stream \in Seq(Piece)
    BY <1>1, StreamType DEF Types, Stream, Whole
  <1>3. FrameInv /\ Framed(Stream, Lead, Coming) /\ Lead \in Nat
    BY DEF Live, FrameInv, Framed
  <1>4. Lead # 0
    <2>1. SUFFICES ASSUME Lead = 0 PROVE FALSE
      OBVIOUS
    <2>2. Coming # <<>>
      BY <1>2, <1>3, <2>1, PacketInFront
    <2>3. srv.phase = "start"
      BY <1>1, <2>1 DEF Live, TextInv
    <2>4. srv.sendSeq = 0
      BY <2>3 DEF Live, PhaseInv
    <2> QED
      BY <1>3, <2>2, <2>4, NothingYet
  <1>5. FrontOf(buf) = Stream[1].pkt /\ AfterOf(buf) \o wire = Rest(Stream, 1)
    BY <1>2, <1>3, <1>4, TextInFront
  <1>6. Stream' = Rest(Stream, 1)
    BY <1>1, <1>5 DEF Stream
  <1>7. Framed(Rest(Stream, 1), Lead - 1, Coming) /\ Len(Stream) >= 1
    BY <1>2, <1>3, <1>4, LineOff DEF FrameInv
  <1>8. FrameInv' /\ Lead' = Lead - 1 /\ Coming' = Coming
    <2>1. Flying' = Flying
      BY <1>1 DEF Flying
    <2>2. Framed(Stream', Lead - 1, Coming)
      BY <1>6, <1>7
    <2>3. Coming \in Seq(Packet) /\ Len(Coming) = Flying' /\ Numbered(Coming, recvSeq')
      BY <1>1, <1>3, <2>1 DEF FrameInv
    <2> QED
      BY <2>2, <2>3, NewFrame
  <1>9. 1 \in 1..Lead
    BY <1>3, <1>4
  <1>10. Front.p.m = IF 1 = Lead /\ srv.phase # "start" THEN "IDENT" ELSE "LINE"
    <2>1. Stream[1].pkt.p.m = IF 1 = Lead /\ srv.phase # "start" THEN "IDENT" ELSE "LINE"
      BY <1>1, <1>9 DEF Live, TextInv
    <2> QED
      BY <1>5, <2>1 DEF Front
  <1>11. ASSUME NEW k \in 1..(Lead - 1) PROVE Stream'[k] = Stream[k + 1]
    <2>1. Len(Stream) = Lead + 2 * Len(Coming) /\ Len(Coming) \in Nat /\ Len(Stream) \in Nat
      BY <1>2, <1>3 DEF Framed, FrameInv
    <2>2. k \in 1..(Len(Stream) - 1) /\ 1 \in 0..Len(Stream)
      BY <1>3, <1>7, <2>1
    <2> QED
      BY <1>2, <1>6, <2>2, RestOf
  <1> QED
    BY <1>3, <1>4, <1>8, <1>10, <1>11

LEMMA IdentificationFine == ASSUME Types, Types', Live, ReadIdentification PROVE Fine'
  <1>1. /\ pc = "IDENT" /\ recvSeq' = recvSeq /\ encrypted' = encrypted
        /\ UNCHANGED channel /\ wire' = wire /\ srv' = srv
    BY DEF ReadIdentification
  <1>2. /\ Lead # 0 /\ Lead \in Nat /\ FrameInv' /\ Lead' = Lead - 1 /\ Coming' = Coming
        /\ Front.p.m = IF 1 = Lead /\ srv.phase # "start" THEN "IDENT" ELSE "LINE"
        /\ \A k \in 1..(Lead - 1) : Stream'[k] = Stream[k + 1]
    BY TextComes
  <1>3. sendSeq = 0 /\ up = <<>> /\ recvSeq = 0 /\ srv.recvSeq = 0
    <2>1. sendSeq = 0 /\ up = <<>>
      BY <1>1 DEF Live, PcInv
    <2>2. srv.recvSeq = 0
      BY <2>1, Behind DEF Live
    <2> QED
      BY <1>1, <2>1, <2>2 DEF Live, TextInv
  <1>4. /\ PhaseInv'
        /\ (ShellInv' /\ ShowInv' /\ CreditInv') \/ pc' \notin {"IDENT", "KEXINIT"}
    BY <1>1 DEF Live, PhaseInv, ShellInv, ShowInv, CreditInv, Shell
  <1>5. UnopenedInv'
    BY <1>1 DEF Live, UnopenedInv, Shell, channel
  <1>6. Hello'
    BY <1>1, <1>2 DEF Live, StageInv, Hello
  <1>7. CASE pc' = "done"
    <2>1. why' \notin {"none", "refused"}
      BY <1>1, <1>7 DEF ReadIdentification, Failed
    <2> QED
      BY <1>1, <1>7, <2>1, Gone
  <1>8. CASE pc' # "done" /\ Front.p.m = "IDENT"
    <2>1. /\ pc' = "KEXINIT" /\ why' = why /\ sendSeq' = sendSeq + 1
          /\ up' = Sealed(<<Msg("IDENT")>>, 0, FALSE) \o Sealed(<<Msg("KEXINIT")>>, sendSeq, FALSE)
      BY <1>8 DEF ReadIdentification, Failed
    <2>2. Lead = 1 /\ srv.phase # "start" /\ Lead' = 0 /\ sendSeq' = 1
      BY <1>2, <1>3, <1>8, <2>1
    <2>3. TextInv'
      BY <1>1, <2>1, <2>2 DEF TextInv
    <2>4. PcInv'
      <3>1. encrypted = (sendSeq >= 4)
        BY DEF Live, PcInv
      <3>2. (0 >= 4) = FALSE /\ (1 >= 4) = FALSE
        OBVIOUS
      <3>3. encrypted' = (sendSeq' >= 4)
        BY <1>1, <1>3, <2>2, <3>1, <3>2, Zenon
      <3> QED
        BY <2>1, <2>2, <3>3 DEF PcInv, Blocking, Waits, Shell
    <2>5. StageInv'
      BY <1>6, <2>1 DEF StageInv, Secured, Shell
    <2>6. UpInv'
      <3> DEFINE a == Sealed(<<Msg("IDENT")>>, 0, FALSE)
                 b == Sealed(<<Msg("KEXINIT")>>, 0, FALSE)
      <3> HIDE DEF a, b
      <3>1. /\ a \in Seq(Packet) /\ Len(a) = 1
            /\ a[1] = [p |-> Msg("IDENT"), seq |-> 0 + 1 - 1, enc |-> FALSE]
        <4>1. /\ <<Msg("IDENT")>> \in Seq(Message) /\ Len(<<Msg("IDENT")>>) = 1
              /\ <<Msg("IDENT")>>[1] = Msg("IDENT") /\ 1 \in 1..1
          BY OneOf DEF ClientMessages
        <4> QED
          BY <4>1, SealedWith DEF a
      <3>2. /\ b \in Seq(Packet) /\ Len(b) = 1
            /\ b[1] = [p |-> Msg("KEXINIT"), seq |-> 0 + 1 - 1, enc |-> FALSE]
        <4>1. /\ <<Msg("KEXINIT")>> \in Seq(Message) /\ Len(<<Msg("KEXINIT")>>) = 1
              /\ <<Msg("KEXINIT")>>[1] = Msg("KEXINIT") /\ 1 \in 1..1
          BY OneOf DEF ClientMessages
        <4> QED
          BY <4>1, SealedWith DEF b
      <3>3. up' = a \o b
        BY <1>3, <2>1 DEF a, b
      <3>4. a[1].p.m = "IDENT"
        BY <3>1 DEF Msg
      <3>5. b[1].p.m = "KEXINIT" /\ b[1].seq = 0 /\ b[1].enc = FALSE
        BY <3>2 DEF Msg
      <3>6. Len(up') = 2 /\ up'[1] = a[1] /\ up'[2] = b[1] /\ up' # <<>>
        <4>1. a \in Seq(Packet) /\ b \in Seq(Packet)
          BY <3>1, <3>2
        <4>2. /\ Len(a \o b) = Len(a) + Len(b)
              /\ \A i \in 1..Len(a) : (a \o b)[i] = a[i]
              /\ \A i \in 1..Len(b) : (a \o b)[i + Len(a)] = b[i]
          BY <4>1, Joined
        <4>3. /\ Len(a) = 1 /\ Len(b) = 1 /\ 1 \in 1..Len(a) /\ 1 \in 1..Len(b)
              /\ 1 + Len(a) = 2
          BY <3>1, <3>2
        <4>4. (a \o b)[1] = a[1] /\ (a \o b)[1 + Len(a)] = b[1]
          BY <4>2, <4>3
        <4>5. Len(a \o b) = 2 /\ (a \o b)[2] = b[1]
          BY <4>2, <4>3, <4>4
        <4> QED
          BY <3>3, <4>4, <4>5
      <3>7. Named' = 1
        BY <3>4, <3>6 DEF Named
      <3>8. ASSUME NEW i \in (Named' + 1)..Len(up')
            PROVE  InTurn(up'[i], srv'.recvSeq + i - 1 - Named')
        <4>1. i = 2 /\ srv'.recvSeq + i - 1 - Named' = 0
          BY <1>1, <1>3, <3>6, <3>7
        <4>2. up'[i] = b[1]
          BY <3>6, <4>1
        <4>3. (0 >= 3) = FALSE /\ "KEXINIT" \in Due(0)
          BY DEF Due
        <4>4. InTurn(b[1], 0)
          BY <3>5, <4>3, Zenon DEF InTurn
        <4> QED
          BY <4>1, <4>2, <4>4
      <3>9. sendSeq' + Named' = srv'.recvSeq + Len(up') /\ srv'.recvSeq = 0
        BY <1>1, <1>3, <2>2, <3>6, <3>7
      <3> QED
        BY <3>8, <3>9 DEF UpInv
    <2>7. why' = "none"
      BY <2>1 DEF Live
    <2>8. Live'
      BY <1>2, <1>4, <1>5, <2>1, <2>3, <2>4, <2>5, <2>6, <2>7 DEF Live
    <2> QED
      BY <1>8, <2>8 DEF Fine
  <1>9. CASE pc' # "done" /\ Front.p.m # "IDENT"
    <2>1. pc' = pc /\ why' = why /\ sendSeq' = sendSeq /\ up' = up
      BY <1>9 DEF ReadIdentification, Failed
    <2>2. srv.phase # "start" => Lead # 1
      BY <1>2, <1>9
    <2>3. TextInv'
      <3> DEFINE l == Lead
      <3>1. l \in Nat /\ l # 0 /\ Lead' = l - 1
        BY <1>2
      <3>2. \A k \in 1..l : Stream[k].pkt.p.m =
                 IF k = l /\ srv.phase # "start" THEN "IDENT" ELSE "LINE"
        BY <1>1 DEF Live, TextInv
      <3>3. \A k \in 1..(l - 1) : Stream'[k] = Stream[k + 1]
        BY <1>2
      <3> HIDE DEF l
      <3>4. ASSUME NEW k \in 1..(l - 1)
            PROVE  Stream'[k].pkt.p.m =
                       IF k = l - 1 /\ srv.phase # "start" THEN "IDENT" ELSE "LINE"
        <4>1. k + 1 \in 1..l /\ (k = l - 1 <=> k + 1 = l)
          BY <3>1
        <4> QED
          BY <3>2, <3>3, <4>1
      <3>5. srv.phase # "start" => l - 1 # 0
        BY <2>2, <3>1 DEF l
      <3> QED
        BY <1>1, <1>3, <2>1, <3>1, <3>4, <3>5 DEF TextInv
    <2>4. UpInv' /\ PcInv'
      BY <1>1, <2>1 DEF Live, UpInv, Named, PcInv
    <2>5. StageInv'
      BY <1>1, <1>6, <2>1 DEF StageInv, Secured, Shell
    <2>6. why' = "none"
      BY <2>1 DEF Live
    <2>7. Live'
      BY <1>1, <1>2, <1>4, <1>5, <2>1, <2>3, <2>4, <2>5, <2>6 DEF Live
    <2> QED
      BY <1>9, <2>7 DEF Fine
  <1> QED
    BY <1>7, <1>8, <1>9

\* The answer to the key exchange is still to come.
LEMMA AnsweredTail ==
    ASSUME Coming \in Seq(Packet), Coming # <<>>, Answered, Coming' = Tail(Coming),
           Coming[1].p.m # "KEXDH_REPLY"
    PROVE  Coming[1].p.m \in Calm /\ Answered'
  <1>1. /\ Len(Coming) \in Nat /\ Len(Coming) >= 1 /\ Len(Coming') = Len(Coming) - 1
        /\ \A i \in 1..(Len(Coming) - 1) : Coming'[i] = Coming[i + 1]
    BY HeadAndTail
  <1>2. PICK j \in 2..Len(Coming) :
            /\ Coming[j - 1].p.m = "KEXDH_REPLY" /\ Coming[j].p.m = "NEWKEYS"
            /\ \A i \in 1..Len(Coming) :
                   /\ Coming[i].enc = (i > j)
                   /\ i < j - 1 \/ i > j => Coming[i].p.m \in Calm
    BY DEF Answered
  <1>3. j # 2
    BY <1>2
  <1>4. 1 \in 1..Len(Coming) /\ 1 < j - 1 /\ j - 1 \in 2..Len(Coming')
        /\ (j - 1) - 1 \in 1..(Len(Coming) - 1) /\ ((j - 1) - 1) + 1 = j - 1
        /\ j - 1 \in 1..(Len(Coming) - 1) /\ (j - 1) + 1 = j
    BY <1>1, <1>3
  <1>5. Coming[1].p.m \in Calm
    BY <1>2, <1>4
  <1>6. Coming'[(j - 1) - 1] = Coming[j - 1] /\ Coming'[j - 1] = Coming[j]
    <2>1. Coming'[(j - 1) - 1] = Coming[((j - 1) - 1) + 1]
      BY <1>1, <1>4
    <2>2. Coming'[j - 1] = Coming[(j - 1) + 1]
      BY <1>1, <1>4
    <2> QED
      BY <1>4, <2>1, <2>2, Zenon
  <1>7. ASSUME NEW i \in 1..Len(Coming')
        PROVE  /\ Coming'[i].enc = (i > j - 1)
               /\ i < (j - 1) - 1 \/ i > j - 1 => Coming'[i].p.m \in Calm
    <2>1. /\ i \in 1..(Len(Coming) - 1) /\ i + 1 \in 1..Len(Coming)
          /\ (i + 1 > j) = (i > j - 1)
          /\ i < (j - 1) - 1 \/ i > j - 1 => i + 1 < j - 1 \/ i + 1 > j
      BY <1>1
    <2>2. Coming'[i] = Coming[i + 1]
      BY <1>1, <2>1
    <2>3. /\ Coming[i + 1].enc = (i + 1 > j)
          /\ i + 1 < j - 1 \/ i + 1 > j => Coming[i + 1].p.m \in Calm
      BY <1>2, <2>1
    <2> QED
      BY <2>1, <2>2, <2>3, Zenon
  <1> QED
    BY <1>2, <1>4, <1>5, <1>6, <1>7 DEF Answered

\* Before the login is over only calm packets are passed over, and none of
\* them changes what is awaited.
LEMMA SkipCalm ==
    ASSUME Types, Live, pc \in Packets, pc # "CHANNEL", Coming # <<>>,
           Coming' = Tail(Coming), srv' = srv, pc' = pc, Coming[1].p.m \notin Wanted
    PROVE  Coming[1].p.m \in Calm /\ (up' = up => StageInv')
  <1>1. Coming \in Seq(Packet)
    BY DEF Live, FrameInv
  <1>2. Coming[1].p.m \in Calm => "KEEPALIVE" # Coming[1].p.m
    BY DEF Calm
  <1>3. CASE pc = "KEXINIT"
    <2>1. Hello /\ sendSeq = 1 /\ Coming[1].p.m # "KEXINIT"
      BY <1>3 DEF Live, StageInv, PcInv, Wanted
    <2>2. srv.recvSeq <= 1 /\ srv.recvSeq \in Nat
      BY <2>1, Behind DEF Live
    <2>3. srv.phase \in {"start", "ident", "kex"}
      BY <2>2 DEF Live, PhaseInv
    <2>4. srv.sendSeq # 0
      BY NothingYet DEF Live
    <2>5. srv.phase = "kex"
      BY <2>3, <2>4 DEF Live, PhaseInv
    <2>6. Coming[1].p.m \in {}
      BY <1>1, <2>1, <2>5, AwaitsTail DEF Hello
    <2> QED
      BY <2>6
  <1>4. CASE pc = "KEXDH_REPLY"
    <2>1. Exchange /\ Coming[1].p.m # "KEXDH_REPLY"
      BY <1>4 DEF Live, StageInv, Wanted
    <2>2. CASE srv.recvSeq < 2 /\ Only(Coming, Calm) /\ SealedAs(Coming, FALSE)
      <3>1. Coming[1].p.m \in Calm /\ Only(Coming', Calm) /\ SealedAs(Coming', FALSE)
        BY <1>1, <2>2, OnlyTail, SealedTail
      <3>2. Exchange'
        BY <2>1, <2>2, <3>1 DEF Exchange
      <3>3. StageInv'
        BY <1>4, <3>2 DEF StageInv, Secured, Shell
      <3> QED
        BY <3>1, <3>3
    <2>3. CASE srv.recvSeq >= 2 /\ Answered
      <3>1. Coming[1].p.m \in Calm /\ Answered'
        BY <1>1, <2>1, <2>3, AnsweredTail
      <3>2. Exchange'
        BY <2>1, <2>3, <3>1 DEF Exchange
      <3>3. StageInv'
        BY <1>4, <3>2 DEF StageInv, Secured, Shell
      <3> QED
        BY <3>1, <3>3
    <2> QED
      BY <2>1, <2>2, <2>3 DEF Exchange
  <1>5. CASE pc = "NEWKEYS"
    <2>1. NewKeys /\ Coming[1].p.m # "NEWKEYS"
      BY <1>5 DEF Live, StageInv, Wanted
    <2> QED
      BY <2>1 DEF NewKeys
  <1>6. CASE pc = "SERVICE_ACCEPT"
    <2>1. Service /\ Coming[1].p.m # "SERVICE_ACCEPT" /\ SealedAs(Coming, TRUE)
      BY <1>6 DEF Live, StageInv, Wanted, Secured
    <2>2. SealedAs(Coming', TRUE)
      BY <1>1, <2>1, SealedTail
    <2>3. Coming[1].p.m \in Calm /\ Service'
      <3>1. CASE srv.recvSeq \in {2, 3} /\ Only(Coming, Calm)
        <4>1. Coming[1].p.m \in Calm /\ Only(Coming', Calm)
          BY <1>1, <3>1, OnlyTail
        <4> QED
          BY <3>1, <4>1 DEF Service
      <3>2. CASE srv.phase = "auth" /\ Awaits(Coming, "SERVICE_ACCEPT", Calm, Calm)
        <4>1. Coming[1].p.m \in Calm /\ Awaits(Coming', "SERVICE_ACCEPT", Calm, Calm)
          BY <1>1, <2>1, <3>2, AwaitsTail
        <4> QED
          BY <3>2, <4>1 DEF Service
      <3> QED
        BY <2>1, <3>1, <3>2 DEF Service
    <2>4. StageInv'
      BY <1>6, <2>2, <2>3 DEF StageInv, Shell
    <2> QED
      BY <2>3, <2>4
  <1>7. CASE pc = "AUTH"
    <2>1. /\ Asked /\ SealedAs(Coming, TRUE)
          /\ Coming[1].p.m # "USERAUTH_FAILURE" /\ Coming[1].p.m # "USERAUTH_SUCCESS"
      BY <1>7 DEF Live, StageInv, Wanted, Secured
    <2>2. SealedAs(Coming', TRUE)
      BY <1>1, <2>1, SealedTail
    <2>3. Coming[1].p.m \in Calm /\ (up' = up => Asked')
      <3>1. CASE /\ Len(up) = 1 /\ up[1].p.m = "USERAUTH_REQUEST"
                 /\ srv.phase = "auth" /\ Only(Coming, Calm)
        <4>1. Coming[1].p.m \in Calm /\ Only(Coming', Calm)
          BY <1>1, <3>1, OnlyTail
        <4> QED
          BY <3>1, <4>1 DEF Asked
      <3>2. CASE /\ up = <<>> /\ srv.phase = "auth"
                 /\ Awaits(Coming, "USERAUTH_FAILURE", Calm, Calm)
        <4>1. Coming[1].p.m \in Calm /\ Awaits(Coming', "USERAUTH_FAILURE", Calm, Calm)
          BY <1>1, <2>1, <3>2, AwaitsTail
        <4> QED
          BY <3>2, <4>1 DEF Asked
      <3>3. CASE /\ up = <<>> /\ srv.phase = "authed"
                 /\ Awaits(Coming, "USERAUTH_SUCCESS", Calm, Idle)
        <4>1. Coming[1].p.m \in Calm /\ Awaits(Coming', "USERAUTH_SUCCESS", Calm, Idle)
          BY <1>1, <2>1, <3>3, AwaitsTail
        <4> QED
          BY <3>3, <4>1 DEF Asked
      <3> QED
        BY <2>1, <3>1, <3>2, <3>3 DEF Asked
    <2>4. up' = up => StageInv'
      BY <1>7, <2>2, <2>3 DEF StageInv, Shell
    <2> QED
      BY <2>3, <2>4
  <1> QED
    BY <1>3, <1>4, <1>5, <1>6, <1>7 DEF Packets, Waits

\* While the channel is asked for, requests may be refused as well.
LEMMA SkipChannel ==
    ASSUME Types, Types', Live, pc = "CHANNEL", Coming # <<>>, Coming' = Tail(Coming),
           srv' = srv, pc' = pc, Coming[1].p.m \notin Wanted,
           NEW msgs \in Seq(Message), Sends(msgs),
           \A i \in 1..Len(msgs) : msgs[i].m = "REQUEST_FAILURE"
    PROVE  StageInv'
  <1>1. Coming \in Seq(Packet)
    BY DEF Live, FrameInv
  <1>2. /\ Coming[1].p.m # "CHANNEL_OPEN_FAILURE"
        /\ Coming[1].p.m # "CHANNEL_OPEN_CONFIRMATION"
        /\ SealedAs(Coming, TRUE) /\ (OpenAsked \/ OpenRefused \/ OpenGranted)
    BY DEF Live, StageInv, Wanted, Secured
  <1>3. SealedAs(Coming', TRUE)
    BY <1>1, <1>2, SealedTail
  <1>4. /\ up' \in Seq(Packet) /\ Len(up') = Len(up) + Len(msgs)
        /\ Len(up) \in Nat /\ Len(msgs) \in Nat
        /\ \A i \in 1..Len(up) : up'[i] = up[i]
        /\ \A i \in 1..Len(msgs) : up'[i + Len(up)].p = msgs[i]
    BY SentUp DEF Types
  <1>5. \A i \in (Len(up) + 1)..Len(up') : up'[i].p.m = "REQUEST_FAILURE"
    <2>1. ASSUME NEW i \in (Len(up) + 1)..Len(up') PROVE up'[i].p.m = "REQUEST_FAILURE"
      <3>1. i - Len(up) \in 1..Len(msgs) /\ (i - Len(up)) + Len(up) = i
        BY <1>4
      <3>2. up'[(i - Len(up)) + Len(up)].p = msgs[i - Len(up)]
        BY <1>4, <3>1
      <3>3. msgs[i - Len(up)].m = "REQUEST_FAILURE"
        BY <3>1
      <3> QED
        BY <3>1, <3>2, <3>3, Zenon
    <2> QED
      BY <2>1
  <1>6. Only(up, {"REQUEST_FAILURE"}) => Only(up', {"REQUEST_FAILURE"})
    <2>1. ASSUME Only(up, {"REQUEST_FAILURE"}), NEW i \in 1..Len(up')
          PROVE  up'[i].p.m = "REQUEST_FAILURE"
      <3>1. CASE i \in 1..Len(up)
        BY <1>4, <2>1, <3>1 DEF Only
      <3>2. CASE i \notin 1..Len(up)
        <4>1. i \in (Len(up) + 1)..Len(up')
          BY <1>4, <3>2
        <4> QED
          BY <1>5, <4>1
      <3> QED
        BY <3>1, <3>2
    <2> QED
      BY <2>1 DEF Only
  <1>7. CASE OpenAsked
    <2>1. Only(Coming', Idle)
      BY <1>1, <1>7, OnlyTail DEF OpenAsked
    <2>2. up # <<>> /\ Len(up) >= 1 /\ up' # <<>> /\ up'[1] = up[1]
      <3>1. up # <<>> /\ up \in Seq(Packet)
        BY <1>7 DEF OpenAsked, Types
      <3>2. Len(up) >= 1
        BY <3>1, HeadAndTail
      <3>3. 1 \in 1..Len(up) /\ Len(up') # 0
        BY <1>4, <3>2
      <3> QED
        BY <1>4, <3>1, <3>2, <3>3
    <2>3. ASSUME NEW i \in 2..Len(up') PROVE up'[i].p.m = "REQUEST_FAILURE"
      <3>1. CASE i \in 2..Len(up)
        <4>1. up'[i] = up[i]
          BY <1>4, <3>1
        <4> QED
          BY <1>7, <3>1, <4>1 DEF OpenAsked
      <3>2. CASE i \notin 2..Len(up)
        <4>1. i \in (Len(up) + 1)..Len(up')
          BY <1>4, <3>2
        <4> QED
          BY <1>5, <4>1
      <3> QED
        BY <3>1, <3>2
    <2>4. OpenAsked'
      BY <1>7, <2>1, <2>2, <2>3 DEF OpenAsked
    <2> QED
      BY <1>3, <2>4 DEF StageInv, Shell
  <1>8. CASE OpenRefused
    <2>1. Awaits(Coming', "CHANNEL_OPEN_FAILURE", Idle, Idle)
      BY <1>1, <1>2, <1>8, AwaitsTail DEF OpenRefused
    <2>2. OpenRefused'
      BY <1>6, <1>8, <2>1 DEF OpenRefused
    <2> QED
      BY <1>3, <2>2 DEF StageInv, Shell
  <1>9. CASE OpenGranted
    <2>1. Awaits(Coming', "CHANNEL_OPEN_CONFIRMATION", Idle, Idle)
      BY <1>1, <1>2, <1>9, AwaitsTail DEF OpenGranted
    <2>2. ASSUME NEW i \in 1..Len(Coming'), Coming'[i].p.m = "CHANNEL_OPEN_CONFIRMATION"
          PROVE  Coming'[i].p.ch = srv.ch
      <3>1. /\ Len(Coming) \in Nat /\ Len(Coming) >= 1 /\ Len(Coming') = Len(Coming) - 1
            /\ \A k \in 1..(Len(Coming) - 1) : Coming'[k] = Coming[k + 1]
        BY <1>1, HeadAndTail
      <3>2. i \in 1..(Len(Coming) - 1) /\ i + 1 \in 1..Len(Coming)
        BY <3>1
      <3>3. Coming'[i] = Coming[i + 1]
        BY <3>1, <3>2
      <3> QED
        BY <1>9, <2>2, <3>2, <3>3 DEF OpenGranted
    <2>3. OpenGranted'
      BY <1>6, <1>9, <2>1, <2>2 DEF OpenGranted
    <2> QED
      BY <1>3, <2>3 DEF StageInv, Shell
  <1> QED
    BY <1>2, <1>7, <1>8, <1>9

LEMMA SkipFine == ASSUME Types, Types', Live, Skip PROVE Fine'
  <1>1. /\ pc \in Packets /\ Whole /\ Front.p.m \notin Wanted /\ Consume
        /\ encrypted' = encrypted /\ UNCHANGED channel /\ wire' = wire /\ srv' = srv
        /\ recvSeq' = recvSeq + 1
    BY DEF Skip, Consume
  <1>2. pc # "IDENT" /\ pc \notin Shell /\ pc # "done"
    BY <1>1 DEF Packets, Waits, Shell
  <1>3. Lead = 0 /\ FrameInv
    BY <1>2 DEF Live, TextInv
  <1>4. /\ FrameInv' /\ Lead' = 0 /\ Coming' = Tail(Coming) /\ Coming # <<>>
        /\ Front = Coming[1]
    BY <1>1, <1>3, ClientTakes
  <1>5. CASE pc' = "done"
    <2>1. why' \notin {"none", "refused"}
      BY <1>2, <1>5 DEF Skip, Failed
    <2> QED
      BY <1>1, <1>5, <2>1, Gone
  <1>6. CASE pc' # "done"
    <2>1. pc' = pc /\ why' = why
      BY <1>6 DEF Skip, Failed
    <2>2. Coming[1].p.m \notin Wanted
      BY <1>1, <1>4
    <2> DEFINE msgs == IF Coming[1].p.m = "KEEPALIVE" THEN <<Msg("REQUEST_FAILURE")>> ELSE <<>>
    <2>3. Sends(msgs)
      BY <1>4 DEF Skip
    <2>4. /\ msgs \in Seq(Message)
          /\ Coming[1].p.m # "KEEPALIVE" => msgs = <<>> /\ Len(msgs) = 0
          /\ \A i \in 1..Len(msgs) : msgs[i].m = "REQUEST_FAILURE"
      <3>1. /\ <<Msg("REQUEST_FAILURE")>> \in Seq(Message)
            /\ Len(<<Msg("REQUEST_FAILURE")>>) = 1
            /\ <<Msg("REQUEST_FAILURE")>>[1] = Msg("REQUEST_FAILURE")
        BY OneOf DEF ClientMessages
      <3>2. Msg("REQUEST_FAILURE").m = "REQUEST_FAILURE"
        BY DEF Msg
      <3>3. CASE Coming[1].p.m = "KEEPALIVE"
        <4>1. msgs = <<Msg("REQUEST_FAILURE")>>
          BY <3>3
        <4>2. \A i \in 1..Len(msgs) : i = 1
          BY <3>1, <4>1
        <4>3. \A i \in 1..Len(msgs) : msgs[i] = Msg("REQUEST_FAILURE")
          BY <3>1, <4>1, <4>2
        <4> HIDE DEF msgs
        <4> QED
          BY <3>1, <3>2, <3>3, <4>1, <4>3
      <3>4. CASE Coming[1].p.m # "KEEPALIVE"
        BY <3>4, NoneOf
      <3> QED
        BY <3>3, <3>4
    <2> HIDE DEF msgs
    <2>5. sendSeq' = sendSeq + Len(msgs) /\ sendSeq \in Nat
      BY <2>3 DEF Sends, Types
    <2>6. CASE pc # "CHANNEL"
      <3>1. Coming[1].p.m \in Calm /\ (up' = up => StageInv')
        BY <1>1, <1>4, <2>1, <2>2, <2>6, SkipCalm
      <3>2. Coming[1].p.m # "KEEPALIVE"
        BY <3>1 DEF Calm
      <3>3. msgs = <<>> /\ Len(msgs) = 0
        BY <2>4, <3>2
      <3>4. up' = up /\ sendSeq' = sendSeq
        <4>1. sendSeq' = sendSeq
          BY <2>5, <3>3
        <4>2. encrypted' \in BOOLEAN
          BY DEF Types
        <4>3. msgs = <<>> => up' = up
          BY <2>3, <2>4, <4>2, SentUp, Zenon
        <4> QED
          BY <3>3, <4>1, <4>3
      <3>5. PcInv'
        BY <1>1, <2>1, <3>4 DEF Live, PcInv
      <3>6. \A i \in 1..Len(msgs) : /\ msgs[i].m \in Due(sendSeq + i - 1)
                                    /\ encrypted' = (sendSeq + i - 1 >= 3)
        BY <3>3
      <3>7. Live'
        BY <1>1, <1>2, <1>4, <2>1, <2>3, <2>4, <3>1, <3>4, <3>5, <3>6, Onward DEF Shell
      <3> QED
        BY <1>6, <3>7 DEF Fine
    <2>7. CASE pc = "CHANNEL"
      <3>1. StageInv'
        BY <1>4, <1>1, <2>1, <2>2, <2>3, <2>4, <2>7, SkipChannel
      <3>2. pc \in Secured \ {"SERVICE_ACCEPT"} /\ \A i \in 1..Len(msgs) : msgs[i].m \in Later
        BY <2>4, <2>7 DEF Secured, Later
      <3>3. /\ \A i \in 1..Len(msgs) : /\ msgs[i].m \in Due(sendSeq + i - 1)
                                       /\ encrypted' = (sendSeq + i - 1 >= 3)
            /\ sendSeq' >= 4 /\ encrypted' = (sendSeq' >= 4)
        BY <1>1, <2>4, <2>5, <3>2, LaterDue
      <3>4. PcInv'
        BY <2>1, <2>7, <3>3 DEF PcInv, Blocking, Waits, Shell
      <3>5. Live'
        BY <1>1, <1>2, <1>4, <2>1, <2>3, <2>4, <2>7, <3>1, <3>3, <3>4, Onward DEF Shell
      <3> QED
        BY <1>6, <3>5 DEF Fine
    <2> QED
      BY <2>6, <2>7
  <1> QED
    BY <1>5, <1>6

----------------------------------------------------------------------------
(* Every step, and the theorems.                                           *)

LEMMA DrainFine == ASSUME Types, Types', Live, Drain PROVE Fine'
  <1>1. PICK k \in Reads :
            DrainPart(k) \/ DrainRefuse(k) \/ DrainOutput(k) \/ DrainEnd(k) \/ DrainOther(k)
    BY DEF Drain
  <1> QED
    BY <1>1, DrainPartFine, DrainRefuseFine, DrainOutputFine, DrainEndFine, DrainOtherFine

LEMMA ClientFine == ASSUME Types, Types', Live, Client \/ User PROVE Fine'
  <1>1. CASE Client
    <2>1. \/ Fetch \/ (GiveUp \/ Closed) \/ ReadIdentification \/ Refuse \/ Skip
          \/ GotKexinit \/ GotKexdhReply \/ GotNewkeys \/ GotServiceAccept
          \/ GotUserauth \/ GotChannel \/ KeysRead \/ Drain
      BY <1>1 DEF Client
    <2> QED
      BY <2>1, FetchFine, LeftFine, IdentificationFine, RefuseFine, SkipFine, KexinitFine,
         KexdhReplyFine, NewkeysFine, ServiceAcceptFine, UserauthFine, ChannelFine,
         KeysReadFine, DrainFine
  <1>2. CASE User
    BY <1>2, PasswordFine, KeyFine DEF User
  <1> QED
    BY <1>1, <1>2

\* A session that is over stays as it is.
LEMMA OverStays == ASSUME pc = "done" PROVE ~Next
  BY DEF Next, Client, User, Server, SrvLines, SrvKexinit, SrvRead, SrvNoise, SrvData,
         SrvFinish, SrvDisconnect, SrvClose, ServerUp, Fetch, GiveUp, ReadIdentification, Refuse,
         Skip, GotKexinit, GotKexdhReply, GotNewkeys, GotServiceAccept, GotUserauth,
         GotChannel, KeysRead, Closed, Drain, DrainPart, DrainRefuse, DrainOutput, DrainEnd,
         DrainOther, Drains, Polls, Password, Key, Blocking, Packets, Waits

LEMMA StutterFine == ASSUME Fine, UNCHANGED vars PROVE Fine'
  <1>1. /\ pc' = pc /\ why' = why /\ sendSeq' = sendSeq /\ recvSeq' = recvSeq
        /\ encrypted' = encrypted /\ remote' = remote /\ eof' = eof /\ shown' = shown
        /\ buf' = buf /\ wire' = wire /\ up' = up /\ srv' = srv
    BY DEF vars, client, control, keys, channel
  <1>2. CASE pc = "done"
    BY <1>1, <1>2 DEF Fine, Ended, InStep, FrontOf
  <1>3. CASE pc # "done"
    <2>1. Live
      BY <1>3 DEF Fine
    <2>2. Stream' = Stream
      BY <1>1 DEF Stream
    <2>3. Flying' = Flying
      BY <1>1 DEF Flying
    <2>4. Lead' = Lead /\ Coming' = Coming
      BY <2>2, <2>3 DEF Lead, Coming, LastOf
    <2>5. FrameInv'
      BY <1>1, <2>1, <2>2, <2>3, <2>4 DEF Live, FrameInv, Framed
    <2>6. UpInv' /\ PhaseInv' /\ PcInv' /\ TextInv'
      BY <1>1, <2>1, <2>2, <2>4 DEF Live, UpInv, Named, PhaseInv, PcInv, TextInv
    <2>7. StageInv'
      BY <1>1, <2>1, <2>4 DEF Live, StageInv, Hello, Exchange, Answered, NewKeys, Service,
                              Login, Asked, OpenAsked, OpenRefused, OpenGranted
    <2>8. UnopenedInv' /\ ShellInv' /\ ShowInv'
      BY <1>1, <2>1, <2>4 DEF Live, UnopenedInv, ShellInv, ShowInv
    <2>9. CreditInv'
      BY <1>1, <2>1, <2>4 DEF Live, CreditInv, OutputsOf
    <2>10. Live'
      BY <1>1, <2>1, <2>5, <2>6, <2>7, <2>8, <2>9 DEF Live
    <2> QED
      BY <1>1, <1>3, <2>10 DEF Fine
  <1> QED
    BY <1>2, <1>3

LEMMA FineInit == Init => Fine
  <1> SUFFICES ASSUME Init PROVE Fine
    OBVIOUS
  <1>1. Types
    BY TypesInit
  <1>2. /\ pc = "IDENT" /\ why = "none" /\ sendSeq = 0 /\ recvSeq = 0 /\ encrypted = FALSE
        /\ eof = FALSE /\ shown = <<>> /\ buf = <<>> /\ wire = <<>> /\ up = <<>>
    BY DEF Init
  <1>3. /\ srv.phase = "start" /\ srv.sendSeq = 0 /\ srv.recvSeq = 0 /\ srv.sendEnc = FALSE
        /\ srv.recvEnc = FALSE /\ srv.sent = 0 /\ srv.eof = FALSE /\ srv.err = FALSE
    BY DEF Init
  <1>4. Stream = <<>> /\ Len(Stream) = 0 /\ Flying = 0
    BY <1>2, <1>3 DEF Stream, Flying
  <1>5. Lead = 0 /\ Coming = <<>> /\ Len(Coming) = 0 /\ Coming \in Seq(Packet)
    <2>1. Lead = 0
      BY <1>4 DEF Lead
    <2>2. Coming = [k \in 1..0 |-> Stream[Len(Stream) - 2 * 0 + 2 * k].pkt]
      BY <1>4 DEF Coming, LastOf
    <2>3. 1..0 = {}
      OBVIOUS
    <2>4. Coming = <<>>
      BY <2>2, <2>3
    <2> QED
      BY <2>1, <2>4
  <1>6. FrameInv
    BY <1>4, <1>5 DEF FrameInv, Framed, Numbered
  <1>7. (0 >= 3) = FALSE /\ (0 >= 2) = FALSE /\ (0 >= 4) = FALSE
    OBVIOUS
  <1>8. PhaseInv
    <2>1. srv.recvEnc = (srv.recvSeq >= 3) /\ srv.sendEnc = (srv.recvSeq >= 2)
      BY <1>3, <1>7, Zenon
    <2> QED
      BY <1>3, <2>1 DEF PhaseInv
  <1>9. PcInv
    <2>1. encrypted = (sendSeq >= 4)
      BY <1>2, <1>7, Zenon
    <2> QED
      BY <1>2, <2>1 DEF PcInv, Blocking, Shell
  <1>10. UpInv
    BY <1>2, <1>3 DEF UpInv, Named
  <1>11. TextInv
    BY <1>2, <1>3, <1>5 DEF TextInv
  <1>12. StageInv
    <2>1. Hello
      BY <1>3, <1>5 DEF Hello, SealedAs
    <2> QED
      BY <1>2, <2>1 DEF StageInv, Secured, Shell
  <1>13. UnopenedInv /\ ShellInv /\ ShowInv /\ CreditInv
    BY <1>2, <1>3 DEF UnopenedInv, ShellInv, ShowInv, CreditInv, Shell
  <1> QED
    BY <1>2, <1>6, <1>8, <1>9, <1>10, <1>11, <1>12, <1>13 DEF Fine, Live

\* What is shown is shown in order.
InOrder == shown = [i \in 1..Len(shown) |-> i]

LEMMA ShownChanges ==
    ASSUME Types, [Next]_vars
    PROVE  \/ shown' = shown
           \/ \E k \in Reads : /\ Drains(k, {"DATA", "EXTENDED_DATA"}) /\ Drained(k).ch = remote
                               /\ shown' = Append(shown, Drained(k).n)
  <1>1. CASE UNCHANGED vars
    BY <1>1 DEF vars, client, channel
  <1>2. CASE Server
    BY <1>2 DEF Server, SrvLines, SrvKexinit, SrvRead, SrvNoise, SrvData, SrvFinish,
                SrvDisconnect, SrvClose, client, channel
  <1>3. CASE User
    BY <1>3 DEF User, Password, Key, channel
  <1>4. CASE Client /\ ~Drain
    BY <1>4 DEF Client, Fetch, GiveUp, ReadIdentification, Refuse, Skip, GotKexinit,
                GotKexdhReply, GotNewkeys, GotServiceAccept, GotUserauth, GotChannel,
                KeysRead, Closed, channel
  <1>5. CASE Drain
    <2>1. PICK k \in Reads :
              DrainPart(k) \/ DrainRefuse(k) \/ DrainOutput(k) \/ DrainEnd(k) \/ DrainOther(k)
      BY <1>5 DEF Drain
    <2>2. CASE DrainOutput(k)
      BY <2>2 DEF DrainOutput
    <2>3. CASE ~DrainOutput(k)
      BY <2>1, <2>3 DEF DrainPart, DrainRefuse, DrainEnd, DrainOther, channel
    <2> QED
      BY <2>2, <2>3
  <1> QED
    BY <1>1, <1>2, <1>3, <1>4, <1>5 DEF Next

LEMMA OrderKept ==
    ASSUME Types, Types', Fine, InOrder, [Next]_vars
    PROVE  InOrder'
  <1>1. CASE shown' = shown
    BY <1>1 DEF InOrder
  <1>2. ASSUME NEW k \in Reads, Drains(k, {"DATA", "EXTENDED_DATA"}), Drained(k).ch = remote,
               shown' = Append(shown, Drained(k).n)
        PROVE  InOrder'
    <2>1. Live
      BY <1>2 DEF Fine, Drains, Polls
    <2>2. /\ Coming # <<>> /\ Drained(k) = Coming[1].p /\ pc \in Shell
          /\ Coming[1].p.m \in Output /\ Coming[1].p.ch = LocalChannel
      BY <1>2, <2>1, DrainsFront DEF Output
    <2>3. remote = LocalChannel
      BY <1>2, <2>2
    <2>4. Coming[1].p.n = Len(shown) + 1
      BY <2>1, <2>2, <2>3, NextOutput
    <2>5. shown \in Seq(Nat) /\ shown' = Append(shown, Len(shown) + 1)
      BY <1>2, <2>2, <2>4 DEF Types
    <2> DEFINE n == Len(shown)
    <2>6. n \in Nat /\ \A i \in 1..n : shown[i] = i
      BY <2>5 DEF InOrder
    <2>7. /\ shown' \in Seq(Nat) /\ Len(shown') = n + 1
          /\ \A i \in 1..n : shown'[i] = shown[i]
          /\ shown'[n + 1] = n + 1
      BY <2>5
    <2> HIDE DEF n
    <2>8. ASSUME NEW i \in 1..(n + 1) PROVE shown'[i] = i
      BY <2>6, <2>7
    <2> DEFINE t == [i \in 1..(n + 1) |-> i]
    <2>9. t \in Seq(Nat) /\ Len(t) = n + 1
      <3>1. t \in [1..(n + 1) -> Nat] /\ n + 1 \in Nat
        BY <2>6
      <3> QED
        BY <3>1, OnInterval
    <2>10. shown' = t
      <3>1. \A i \in 1..Len(shown') : shown'[i] = t[i]
        BY <2>7, <2>8
      <3> HIDE DEF t
      <3> QED
        BY <2>7, <2>9, <3>1, SameSeq
    <2> QED
      BY <2>7, <2>10 DEF InOrder
  <1> QED
    BY <1>1, <1>2, ShownChanges

Inv == Types /\ Fine /\ InOrder

LEMMA InvInit == Init => Inv
  <1>1. Init => InOrder
    <2>1. SUFFICES ASSUME shown = <<>> PROVE InOrder
      BY DEF Init
    <2>2. 1..0 = {} /\ Len(shown) = 0
      BY <2>1
    <2> QED
      BY <2>1, <2>2 DEF InOrder
  <1> QED
    BY <1>1, TypesInit, FineInit DEF Inv

LEMMA InvStep == Inv /\ [Next]_vars => Inv'
  <1> SUFFICES ASSUME Inv, [Next]_vars PROVE Inv'
    OBVIOUS
  <1>1. Types /\ Types' /\ Fine /\ InOrder
    BY StepKeepsTypes DEF Inv
  <1>2. Fine'
    <2>1. CASE UNCHANGED vars
      BY <1>1, <2>1, StutterFine
    <2>2. CASE Next
      <3>1. pc # "done"
        BY <2>2, OverStays
      <3>2. Live
        BY <1>1, <3>1 DEF Fine
      <3>3. CASE Server
        <4>1. Live' /\ pc' = pc
          BY <1>1, <3>1, <3>2, <3>3, ServerKeeps
        <4> QED
          BY <3>1, <4>1 DEF Fine
      <3>4. CASE Client \/ User
        BY <1>1, <3>2, <3>4, ClientFine
      <3> QED
        BY <2>2, <3>3, <3>4 DEF Next
    <2> QED
      BY <2>1, <2>2
  <1>3. InOrder'
    BY <1>1, OrderKept
  <1> QED
    BY <1>1, <1>2, <1>3 DEF Inv

\* The inductive invariant of the client and its server: what is in the
\* stream, in what order and sealed with which keys, at each stage of the
\* session (ssh_connect_and_shell).
THEOREM AlwaysInv == Spec => []Inv
  <1>1. Init => Inv
    BY InvInit
  <1>2. Inv /\ [Next]_vars => Inv'
    BY InvStep
  <1> QED
    BY <1>1, <1>2, PTL DEF Spec

\* The two ends never lose step (g_send_seq, g_recv_seq, the keys of
\* ssh_transport_install_keys): no packet of the client is refused by the
\* server, and of the server's only one over the client's limit.
THEOREM StaysInStep == Spec => []InStep
  <1>1. Inv => InStep
    BY DEF Inv, Fine, Ended, Live, PhaseInv, InStep
  <1> QED
    BY <1>1, AlwaysInv, PTL

\* The terminal shows the output in order, nothing missing in between and
\* nothing twice, and all of it when the session ends with status 0
\* (ssh_run_session_shell).
THEOREM ShowsWhole == Spec => []OutputIsWhole
  <1>1. Inv => OutputIsWhole
    BY DEF Inv, Fine, Ended, InOrder, OutputIsWhole
  <1> QED
    BY <1>1, AlwaysInv, PTL

\* No credit is lost or made: the server's, the output under way and the
\* credit on its way back add up to what the client gave
\* (ssh_send_channel_window_adjust).
THEOREM KeepsCredit == Spec => []CreditKept
  <1>1. Inv => CreditKept
    <2> SUFFICES ASSUME Inv, pc \in Shell, remote = LocalChannel
                 PROVE  srv.credit + Outputs(buf \o wire) + Credits(up) = 2 * Window
      BY DEF CreditKept
    <2>1. Types /\ Live
      BY DEF Inv, Fine, Shell
    <2>2. Lead = 0
      BY <2>1 DEF Live, TextInv, Shell
    <2>3. Stream \in Seq(Piece) /\ Coming \in Seq(Packet) /\ Framed(Stream, 0, Coming)
      BY <2>1, <2>2, StreamType DEF Live, FrameInv
    <2>4. Outputs(Stream) = OutputsOf(Coming)
      BY <2>3, OutputsOfPieces
    <2> QED
      BY <2>1, <2>4 DEF Live, CreditInv, Stream
  <1> QED
    BY <1>1, AlwaysInv, PTL
=============================================================================
