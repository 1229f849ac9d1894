-------------------------- MODULE EynDaemonProofs --------------------------
(* Proofs about EynDaemon, for any number of clients, calls and kills.     *)
EXTENDS EynDaemon, SequenceTheorems, FiniteSetTheorems, TLAPS

\* The program points of eyn_daemon_call at which its reply descriptor may
\* be open.
Reading == {"openW", "openQ", "write", "hdr", "pay", "closeR"}

\* The inductive form of the two lock properties: a killed holder leaves
\* nobody in the critical section, and only a caller that has not yet closed
\* its read end is among the readers.
LockInv ==
    /\ LockAccounted
    /\ \A c, d \in Clients : Holds(c) /\ Holds(d) => c = d
    /\ orphaned => \A c \in Clients : ~Holds(c)
    /\ \A c \in readers : pc[c] \in Reading
    /\ readers \subseteq Clients
    /\ DOMAIN pc = Clients

----------------------------------------------------------------------------
(* The lock.                                                               *)

\* Nobody holds the lock or an end of a FIFO at the start.
LEMMA LockInit == Init => LockInv
  BY DEF Init, LockInv, LockAccounted, Holds, Holding, Reading

\* Steps that move client c between two program points on the same side of
\* the lock, and leave the lock alone, keep the invariant.
LEMMA SameSide ==
    ASSUME LockInv, NEW c \in Clients, NEW to,
           pc' = [pc EXCEPT ![c] = to],
           Holds(c) <=> to \in Holding,
           lock' = lock, orphaned' = orphaned,
           readers' \subseteq readers \cup {c},
           c \in readers' => to \in Reading
    PROVE  LockInv'
  <1>1. \A d \in Clients : Holds(d)' <=> Holds(d)
    BY DEF LockInv, Holds
  <1>2. \A d \in readers' : pc'[d] \in Reading
    BY DEF LockInv
  <1> QED
    BY <1>1, <1>2 DEF LockInv, LockAccounted

\* The invariant is inductive: one step of the proof for each action.
LEMMA LockStep == LockInv /\ [Next]_vars => LockInv'
  <1> SUFFICES ASSUME LockInv, [Next]_vars PROVE LockInv'
    OBVIOUS
  <1> USE DEF At, Goto
  <1>1. CASE \E c \in Clients : StartCall(c) \/ StartSend(c)
    <2>1. PICK c \in Clients : StartCall(c) \/ StartSend(c)
      BY <1>1
    <2>2. c \notin readers
      BY <2>1 DEF LockInv, StartCall, StartSend, Reading
    <2> QED
      BY <2>1, <2>2, SameSide
         DEF StartCall, StartSend, Holds, Holding, Reading, shared, history
  <1>2. CASE \E c \in Clients : LockTaken(c)
    <2>1. PICK c \in Clients : LockTaken(c)
      BY <1>2
    <2>2. /\ \A d \in Clients : ~Holds(d)
          /\ ~orphaned
      BY <2>1 DEF LockTaken, LockInv, LockAccounted
    <2>3. /\ Holds(c)'
          /\ \A d \in Clients : Holds(d)' => d = c
          /\ lock' /\ orphaned' = orphaned /\ readers' = readers
          /\ DOMAIN pc' = Clients
      BY <2>1, <2>2 DEF LockTaken, LockInv, Holds, Holding, history
    <2>4. readers = {}
      BY <2>2 DEF LockInv, Holds, Holding, Reading
    <2> QED
      BY <2>2, <2>3, <2>4 DEF LockInv, LockAccounted
  <1>3. CASE \E c \in Clients : LockRelease(c)
    <2>1. PICK c \in Clients : LockRelease(c)
      BY <1>3
    <2>2. Holds(c) /\ c \notin readers
      BY <2>1 DEF LockRelease, LockInv, Holds, Holding, Reading
    <2>3. \A d \in Clients : ~Holds(d)'
      BY <2>1, <2>2 DEF LockRelease, LockInv, Holds, Holding
    <2>4. ~orphaned /\ orphaned' = orphaned /\ readers' = readers /\ ~lock'
      BY <2>1, <2>2 DEF LockRelease, LockInv, history
    <2>5. /\ DOMAIN pc' = Clients
          /\ \A d \in readers' : pc'[d] \in Reading
      BY <2>1, <2>2, <2>4 DEF LockRelease, LockInv
    <2> QED
      BY <2>3, <2>4, <2>5 DEF LockInv, LockAccounted
  <1>4. CASE \E c \in Clients : KillClient(c)
    <2>1. PICK c \in Clients : KillClient(c)
      BY <1>4
    <2>2. /\ lock' = lock /\ orphaned' = (orphaned \/ Holds(c))
          /\ readers' = readers \ {c}
          /\ DOMAIN pc' = Clients
          /\ ~Holds(c)'
          /\ \A d \in Clients \ {c} : pc'[d] = pc[d]
      BY <2>1 DEF KillClient, LockInv, Holds, Holding
    <2>3. CASE Holds(c)
      <3>1. \A d \in Clients : ~Holds(d)'
        BY <2>2, <2>3 DEF LockInv, Holds
      <3> QED
        BY <2>2, <2>3, <3>1 DEF LockInv, LockAccounted
    <2>4. CASE ~Holds(c)
      <3>1. \A d \in Clients : Holds(d)' <=> Holds(d)
        BY <2>2, <2>4 DEF LockInv, Holds
      <3> QED
        BY <2>2, <2>4, <3>1 DEF LockInv, LockAccounted
    <2> QED
      BY <2>3, <2>4
  <1>5. CASE \E c \in Clients : OpenReader(c) \/ CloseReader(c)
    <2>1. PICK c \in Clients : OpenReader(c) \/ CloseReader(c)
      BY <1>5
    <2> QED
      BY <2>1, SameSide
         DEF OpenReader, CloseReader, Opened, Holds, Holding, Reading, history
  <1>6. CASE \E c \in Clients : LockBusy(c)
    <2>1. PICK c \in Clients : LockBusy(c)
      BY <1>6
    <2>2. c \notin readers
      BY <2>1 DEF LockInv, LockBusy, Reading
    <2>3. CASE pc' = pc
      BY <2>1, <2>3 DEF LockBusy, LockInv, LockAccounted, Holds, shared, history
    <2>4. CASE pc' = [pc EXCEPT ![c] = "idle"]
      BY <2>1, <2>2, <2>4, SameSide
         DEF LockBusy, Holds, Holding, shared, history
    <2> QED
      BY <2>1, <2>3, <2>4 DEF LockBusy
  <1>7. CASE \E c \in Clients : \/ OpenSelfWriter(c) \/ OpenRequest(c)
                                \/ CloseSelfWriter(c) \/ WriteRequest(c)
                                \/ WriteFails(c) \/ RecvHeader(c)
                                \/ RecvPayload(c) \/ RecvNothing(c)
    <2>1. PICK c \in Clients : \/ OpenSelfWriter(c) \/ OpenRequest(c)
                               \/ CloseSelfWriter(c) \/ WriteRequest(c)
                               \/ WriteFails(c) \/ RecvHeader(c)
                               \/ RecvPayload(c) \/ RecvNothing(c)
      BY <1>7
    <2>2. lock' = lock /\ orphaned' = orphaned /\ readers' = readers
      BY <2>1 DEF OpenSelfWriter, OpenRequest, CloseSelfWriter, WriteRequest,
                  WriteFails, RecvHeader, RecvPayload, RecvNothing, shared,
                  history
    <2>3. \/ pc' = pc
          \/ \E to \in Holding : /\ pc' = [pc EXCEPT ![c] = to]
                                 /\ Holds(c)
                                 /\ c \in readers => to \in Reading
          \/ \E to \in {"sendWrite", "idle"} :
                                 /\ pc' = [pc EXCEPT ![c] = to]
                                 /\ pc[c] \in {"sendOpen", "sendWrite"}
      <3>1. CASE OpenSelfWriter(c)
        BY <3>1 DEF OpenSelfWriter, Holds, Holding, Reading
      <3>2. CASE OpenRequest(c)
        BY <3>2 DEF OpenRequest, Holds, Holding, Reading
      <3>3. CASE CloseSelfWriter(c)
        BY <3>3 DEF CloseSelfWriter, LockInv, Holds, Holding, Reading
      <3>4. CASE WriteRequest(c)
        BY <3>4 DEF WriteRequest, Holds, Holding, Reading
      <3>5. CASE WriteFails(c)
        BY <3>5 DEF WriteFails, Holds, Holding, Reading
      <3>6. CASE RecvHeader(c)
        BY <3>6 DEF RecvHeader, Holds, Holding, Reading
      <3>7. CASE RecvPayload(c)
        BY <3>7 DEF RecvPayload, Holds, Holding, Reading
      <3>8. CASE RecvNothing(c)
        BY <3>8 DEF RecvNothing, Holds, Holding, Reading
      <3> QED
        BY <2>1, <3>1, <3>2, <3>3, <3>4, <3>5, <3>6, <3>7, <3>8
    <2>4. CASE pc' = pc
      BY <2>2, <2>4 DEF LockInv, LockAccounted, Holds
    <2>5. ASSUME NEW to \in Holding, pc' = [pc EXCEPT ![c] = to], Holds(c),
                 c \in readers => to \in Reading
          PROVE  LockInv'
      BY <2>2, <2>5, SameSide DEF LockInv
    <2>6. ASSUME NEW to \in {"sendWrite", "idle"},
                 pc' = [pc EXCEPT ![c] = to],
                 pc[c] \in {"sendOpen", "sendWrite"}
          PROVE  LockInv'
      <3>1. c \notin readers
        BY <2>6 DEF LockInv, Reading
      <3> QED
        BY <2>2, <2>6, <3>1, SameSide DEF Holds, Holding
    <2> QED
      BY <2>3, <2>4, <2>5, <2>6
  <1>8. CASE DaemonStep \/ KillDaemon
    <2>1. /\ lock' = lock /\ orphaned' = orphaned /\ readers' = readers
          /\ pc' = pc
      BY <1>8 DEF DaemonStep, DaemonListen, DaemonRecvHeader,
                  DaemonRecvPayload, DaemonHandled, DaemonReply,
                  DaemonReplyClose, KillDaemon, shared, client, history
    <2> QED
      BY <2>1 DEF LockInv, LockAccounted, Holds
  <1>9. CASE UNCHANGED vars
    BY <1>9 DEF vars, shared, client, history, LockInv, LockAccounted, Holds
  <1> QED
    BY <1>1, <1>2, <1>3, <1>4, <1>5, <1>6, <1>7, <1>8, <1>9
       DEF Next, ClientStep

\* The invariant the next two theorems rest on.
THEOREM LockInvariant == Spec => []LockInv
  <1> QED
    BY LockInit, LockStep, PTL DEF Spec

\* Whatever times out, fails or is killed, at most one caller is between
\* lock_acquire and lock_release, and only that caller reads the reply FIFO.
THEOREM ExclusiveReplies == Spec => []ReplyChannelExclusive
  <1>1. LockInv => ReplyChannelExclusive
    BY DEF LockInv, ReplyChannelExclusive, Holds, Holding, Reading
  <1> QED
    BY <1>1, LockInvariant, PTL

\* No return path of eyn_daemon_call leaves the lock behind: it exists only
\* while a caller uses it, or after one was killed using it.
THEOREM LockNeverLeaks == Spec => []LockAccounted
  <1>1. LockInv => LockAccounted
    BY DEF LockInv
  <1> QED
    BY <1>1, LockInvariant, PTL
----------------------------------------------------------------------------
(* Types.                                                                  *)

\* A read() of a part of a message stays within the bytes it still needs.
LEMMA ReadType ==
    ASSUME NEW q \in Seq(Unit), NEW have \in Seq(Unit), NEW need \in Nat,
           Len(have) < need, q # <<>>
    PROVE  /\ Taken(q, have, need) \in Seq(Unit)
           /\ Rest(q, have, need) \in Seq(Unit)
           /\ Len(Taken(q, have, need)) \in 1..need
  <1> DEFINE n == Took(q, have, need)
  <1>1. n \in 1..Len(q) /\ n <= need - Len(have)
    BY EmptySeq, LenProperties DEF Took
  <1>2. SubSeq(q, 1, n) \in Seq(Unit) /\ Len(SubSeq(q, 1, n)) = n
    BY <1>1, SubSeqProperties
  <1>3. SubSeq(q, n + 1, Len(q)) \in Seq(Unit)
    BY <1>1, SubSeqProperties
  <1>4. /\ have \o SubSeq(q, 1, n) \in Seq(Unit)
        /\ Len(have \o SubSeq(q, 1, n)) = Len(have) + n
    BY <1>2, ConcatProperties
  <1>5. Len(have) \in Nat
    OBVIOUS
  <1> QED
    BY <1>1, <1>3, <1>4, <1>5 DEF Taken, Rest

\* The bytes of a message are units of the wire.
LEMMA FrameType ==
    ASSUME NEW m \in Message
    PROVE  /\ Frame(m) \in Seq(Unit) /\ Len(Frame(m)) = HdrLen + PayLen
           /\ Header(m) \in Seq(Unit)
           /\ Payload(m) \in Seq(Unit)
  <1> USE FrameAssumption
  <1>1. Frame(m) \in [1..(HdrLen + PayLen) -> Unit]
    BY DEF Frame, Unit
  <1>2. Frame(m) \in Seq(Unit) /\ Len(Frame(m)) = HdrLen + PayLen
    BY <1>1, IsASeq
  <1> QED
    BY <1>2, SubSeqProperties DEF Header, Payload

\* The initial states are well typed.
LEMMA TypeInit == Init => TypeOK
  <1> SUFFICES ASSUME Init PROVE TypeOK
    OBVIOUS
  <1>1. \A c \in Clients : NoMessage(c) \in Message
    BY BoundsAssumption DEF NoMessage, Message
  <1>2. SharedOK
    <2>1. lock \in BOOLEAN
      BY Zenon DEF Init
    <2> QED
      BY <2>1, EmptySeq DEF Init, SharedOK
  <1>3. ClientOK
    BY <1>1 DEF Init, ClientOK, ClientPCs, Codes
  <1>4. DaemonOK
    BY <1>1, FrameAssumption DEF Init, DaemonOK, DaemonPCs
  <1>5. ReceiveOK
    BY DEF Init, ReceiveOK
  <1>6. HistoryOK
    <2>1. orphaned \in BOOLEAN
      BY Zenon DEF Init
    <2> QED
      BY <2>1, BoundsAssumption, EmptySeq DEF Init, HistoryOK
  <1> QED
    BY <1>2, <1>3, <1>4, <1>5, <1>6 DEF TypeOK

\* A client that moves to a point where it is not receiving keeps the bounds
\* on what is received.
LEMMA NotReceiving ==
    ASSUME ReceiveOK, ClientOK, NEW c \in Clients,
           NEW to \in ClientPCs \ {"hdr", "pay"},
           pc' = [pc EXCEPT ![c] = to], got' = got
    PROVE  ReceiveOK' /\ pc' \in [Clients -> ClientPCs]
  BY DEF ReceiveOK, ClientOK

\* Starting a call or a send keeps the types.
LEMMA TypeStart ==
    ASSUME TypeOK, NEW c \in Clients, StartCall(c) \/ StartSend(c)
    PROVE  TypeOK'
  <1> USE DEF TypeOK
  <1>1. CASE StartCall(c)
    <2>1. PICK t \in Timeouts, f \in Sizes :
            /\ cur' = [cur EXCEPT ![c] = [from |-> c, seq |-> @.seq + 1,
                                          kind |-> "call", fits |-> f]]
            /\ timeout' = [timeout EXCEPT ![c] = t]
      BY <1>1 DEF StartCall
    <2>2. cur[c].seq + 1 \in 0..MaxCalls
      BY <1>1, BoundsAssumption DEF StartCall, ClientOK, Message
    <2>3. cur' \in [Clients -> Message] /\ timeout' \in [Clients -> Nat]
      BY <2>1, <2>2, CallAssumption DEF ClientOK, Message
    <2>4. ReceiveOK' /\ pc' \in [Clients -> ClientPCs]
      BY <1>1, NotReceiving DEF StartCall, Goto, ClientPCs
    <2>5. ClientOK'
      BY <1>1, <2>3, <2>4 DEF StartCall, ClientOK, Return, Codes
    <2> QED
      BY <1>1, <2>4, <2>5 DEF StartCall, shared, daemon, history, SharedOK,
                              DaemonOK, HistoryOK
  <1>2. CASE StartSend(c)
    <2>1. PICK f \in Sizes :
            cur' = [cur EXCEPT ![c] = [from |-> c, seq |-> @.seq + 1,
                                       kind |-> "send", fits |-> f]]
      BY <1>2 DEF StartSend
    <2>2. cur[c].seq + 1 \in 0..MaxCalls
      BY <1>2, BoundsAssumption DEF StartSend, ClientOK, Message
    <2>3. cur' \in [Clients -> Message]
      BY <2>1, <2>2, CallAssumption DEF ClientOK, Message
    <2>4. ReceiveOK' /\ pc' \in [Clients -> ClientPCs]
      BY <1>2, NotReceiving DEF StartSend, Goto, ClientPCs
    <2>5. ClientOK'
      BY <1>2, <2>3, <2>4 DEF StartSend, ClientOK, Return, Codes
    <2> QED
      BY <1>2, <2>4, <2>5 DEF StartSend, shared, daemon, history, SharedOK,
                              DaemonOK, HistoryOK
  <1> QED
    BY <1>1, <1>2

\* Taking the lock, or waiting for it, keeps the types.
LEMMA TypeLock ==
    ASSUME TypeOK, NEW c \in Clients,
           LockTaken(c) \/ LockBusy(c) \/ LockRelease(c)
    PROVE  TypeOK'
  <1> USE DEF TypeOK, Goto, ClientPCs, Holding
  <1>1. CASE LockTaken(c) \/ LockRelease(c)
    <2>1. ReceiveOK' /\ pc' \in [Clients -> ClientPCs]
      BY <1>1, NotReceiving DEF LockTaken, LockRelease
    <2> QED
      BY <1>1, <2>1 DEF LockTaken, LockRelease, daemon, history, SharedOK,
                        ClientOK, DaemonOK, HistoryOK
  <1>2. CASE LockBusy(c)
    <2>1. ReceiveOK' /\ pc' \in [Clients -> ClientPCs]
      <3>1. CASE pc' = pc
        BY <1>2, <3>1 DEF LockBusy, ReceiveOK, ClientOK
      <3>2. CASE pc' = [pc EXCEPT ![c] = "idle"]
        BY <1>2, <3>2, NotReceiving DEF LockBusy
      <3> QED
        BY <1>2, <3>1, <3>2 DEF LockBusy
    <2>2. waited' \in [Clients -> Nat] /\ rc' \in [Clients -> Codes]
      BY <1>2 DEF LockBusy, ClientOK, Return, Codes
    <2> QED
      BY <1>2, <2>1, <2>2 DEF LockBusy, shared, daemon, history, SharedOK,
                              ClientOK, DaemonOK, HistoryOK
  <1> QED
    BY <1>1, <1>2

\* Opening the three ends keeps the types.
LEMMA TypeOpen ==
    ASSUME TypeOK, NEW c \in Clients,
           OpenReader(c) \/ OpenSelfWriter(c) \/ OpenRequest(c)
    PROVE  TypeOK'
  <1> USE DEF TypeOK, Goto, ClientPCs, Holding
  <1>1. ReceiveOK' /\ pc' \in [Clients -> ClientPCs]
    BY NotReceiving DEF OpenReader, OpenSelfWriter, OpenRequest
  <1>2. rc' \in [Clients -> Codes]
    BY DEF OpenReader, OpenSelfWriter, OpenRequest, ClientOK, Return, Codes
  <1>3. out' \in [Clients -> Seq(Unit)]
    <2>1. Frame(cur[c]) \in Seq(Unit)
      BY FrameType DEF ClientOK
    <2> QED
      BY <2>1 DEF OpenReader, OpenSelfWriter, OpenRequest, ClientOK
  <1>4. SharedOK'
    BY DEF OpenReader, OpenSelfWriter, OpenRequest, Opened, shared, SharedOK
  <1> QED
    BY <1>1, <1>2, <1>3, <1>4
       DEF OpenReader, OpenSelfWriter, OpenRequest, daemon, history, ClientOK,
           DaemonOK, HistoryOK

\* Writing the request, whole or in part, keeps the types.
LEMMA TypeWrite ==
    ASSUME TypeOK, NEW c \in Clients, WriteRequest(c) \/ WriteFails(c)
    PROVE  TypeOK'
  <1> USE DEF TypeOK, Goto, Return
  <1>1. CASE WriteRequest(c)
    <2> DEFINE n == Written(c)
    <2>1. out[c] \in Seq(Unit) /\ req \in Seq(Unit)
      BY DEF ClientOK, SharedOK
    <2>2. n \in 1..Len(out[c])
      BY <1>1, <2>1, FrameAssumption, LenProperties
         DEF WriteRequest, Written
    <2>3. /\ SubSeq(out[c], n + 1, Len(out[c])) \in Seq(Unit)
          /\ SubSeq(out[c], 1, n) \in Seq(Unit)
      BY <2>1, <2>2, SubSeqProperties
    <2>4. out' \in [Clients -> Seq(Unit)]
      BY <1>1, <2>3 DEF ClientOK, WriteRequest
    <2>5. SharedOK'
      <3>1. /\ req \o out[c] \in Seq(Unit) /\ <<>> \in Seq(Unit)
            /\ req \o SubSeq(out[c], 1, n) \in Seq(Unit)
        BY <2>1, <2>3, ConcatProperties, EmptySeq
      <3>2. req' \in {req \o out[c], <<>>, req \o SubSeq(out[c], 1, n)}
        BY <1>1 DEF WriteRequest, AfterClose
      <3>3. req' \in Seq(Unit)
        BY <3>1, <3>2
      <3> QED
        BY <1>1, <3>3 DEF WriteRequest, SharedOK
    <2>6. HistoryOK'
      <3>1. Append(sent, cur[c]) \in Seq(Message)
        BY AppendProperties DEF ClientOK, HistoryOK
      <3> QED
        BY <1>1, <3>1 DEF WriteRequest, HistoryOK
    <2>7. ClientOK' /\ ReceiveOK'
      <3>1. CASE UNCHANGED <<pc, rc, waited, got>>
        BY <1>1, <2>4, <3>1 DEF WriteRequest, ClientOK, ReceiveOK
      <3>2. CASE /\ pc' = [pc EXCEPT ![c] = "hdr"]
                 /\ waited' = [waited EXCEPT ![c] = 0]
                 /\ got' = [got EXCEPT ![c] = <<>>]
                 /\ UNCHANGED rc
        BY <1>1, <2>4, <3>2, FrameAssumption, EmptySeq
           DEF WriteRequest, ClientOK, ReceiveOK, ClientPCs, Holding
      <3>3. CASE /\ pc' = [pc EXCEPT ![c] = "idle"]
                 /\ rc' = [rc EXCEPT ![c] = "sent"]
                 /\ UNCHANGED <<waited, got>>
        <4>1. ReceiveOK' /\ pc' \in [Clients -> ClientPCs]
          BY <3>3, NotReceiving DEF ClientPCs
        <4> QED
          BY <1>1, <2>4, <3>3, <4>1 DEF WriteRequest, ClientOK, Codes
      <3> QED
        BY <1>1, <3>1, <3>2, <3>3 DEF WriteRequest
    <2>8. DaemonOK'
      BY <1>1 DEF WriteRequest, daemon, DaemonOK
    <2> QED
      BY <2>5, <2>6, <2>7, <2>8
  <1>2. CASE WriteFails(c)
    <2>1. req' \in Seq(Unit)
      BY <1>2, EmptySeq DEF WriteFails, AfterClose, SharedOK
    <2>2. ReceiveOK' /\ pc' \in [Clients -> ClientPCs]
      BY <1>2, NotReceiving DEF WriteFails, ClientPCs, Holding
    <2>3. ClientOK'
      BY <1>2, <2>2, EmptySeq DEF WriteFails, ClientOK, Codes
    <2> QED
      BY <1>2, <2>1, <2>2, <2>3
         DEF WriteFails, SharedOK, daemon, history, DaemonOK, HistoryOK
  <1> QED
    BY <1>1, <1>2

\* Receiving a reply keeps the types, and what is received within its part.
LEMMA TypeRecv ==
    ASSUME TypeOK, NEW c \in Clients,
           RecvHeader(c) \/ RecvPayload(c) \/ RecvNothing(c)
    PROVE  TypeOK'
  <1> USE FrameAssumption DEF TypeOK, Goto, Return, At, ClientPCs, Holding
  <1>1. CASE RecvHeader(c)
    <2> DEFINE have == Taken(rep, got[c], HdrLen)
    <2>0. /\ rep \in Seq(Unit) /\ got[c] \in Seq(Unit)
          /\ Len(got[c]) < HdrLen /\ rep # <<>> /\ HdrLen \in Nat
      BY <1>1 DEF RecvHeader, SharedOK, ClientOK, ReceiveOK
    <2>1. /\ have \in Seq(Unit) /\ Rest(rep, got[c], HdrLen) \in Seq(Unit)
          /\ Len(have) \in 1..HdrLen
      BY <2>0, ReadType
    <2>2. got' \in [Clients -> Seq(Unit)] /\ SharedOK'
      BY <1>1, <2>1, EmptySeq DEF RecvHeader, SharedOK, ClientOK
    <2>3. ClientOK'
      BY <1>1, <2>2 DEF RecvHeader, ClientOK, Codes
    <2>4. ReceiveOK'
      <3>1. \A d \in Clients \ {c} : pc'[d] = pc[d] /\ got'[d] = got[d]
        BY <1>1 DEF RecvHeader, ClientOK
      <3>2. CASE Len(have) = HdrLen
        BY <1>1, <3>1, <3>2, EmptySeq DEF RecvHeader, ReceiveOK, ClientOK
      <3>3. CASE Len(have) < HdrLen
        BY <1>1, <3>1, <3>3 DEF RecvHeader, ReceiveOK, ClientOK
      <3> QED
        BY <2>1, <3>2, <3>3
    <2> QED
      BY <1>1, <2>2, <2>3, <2>4 DEF RecvHeader, daemon, history, DaemonOK,
                                    HistoryOK
  <1>2. CASE RecvPayload(c)
    <2> DEFINE have == Taken(rep, got[c], PayLen)
    <2>0. /\ rep \in Seq(Unit) /\ got[c] \in Seq(Unit)
          /\ Len(got[c]) < PayLen /\ rep # <<>> /\ PayLen \in Nat
      BY <1>2 DEF RecvPayload, SharedOK, ClientOK, ReceiveOK
    <2>1. /\ have \in Seq(Unit) /\ Rest(rep, got[c], PayLen) \in Seq(Unit)
          /\ Len(have) \in 1..PayLen
      BY <2>0, ReadType
    <2>2. got' \in [Clients -> Seq(Unit)] /\ SharedOK'
      BY <1>2, <2>1 DEF RecvPayload, SharedOK, ClientOK
    <2>3. ClientOK'
      BY <1>2, <2>2 DEF RecvPayload, ClientOK, Codes
    <2>4. ReceiveOK'
      <3>1. \A d \in Clients \ {c} : pc'[d] = pc[d] /\ got'[d] = got[d]
        BY <1>2 DEF RecvPayload, ClientOK
      <3>2. CASE Len(have) = PayLen
        BY <1>2, <3>1, <3>2 DEF RecvPayload, ReceiveOK, ClientOK
      <3>3. CASE Len(have) < PayLen
        BY <1>2, <3>1, <3>3 DEF RecvPayload, ReceiveOK, ClientOK
      <3> QED
        BY <2>1, <3>2, <3>3
    <2> QED
      BY <1>2, <2>2, <2>3, <2>4 DEF RecvPayload, daemon, history, DaemonOK,
                                    HistoryOK
  <1>3. CASE RecvNothing(c)
    <2>1. CASE pc' = pc /\ rc' = rc /\ waited' = [waited EXCEPT ![c] = @ + 1]
      BY <1>3, <2>1 DEF RecvNothing, ClientOK, ReceiveOK, shared, daemon,
                        history, SharedOK, DaemonOK, HistoryOK
    <2>2. CASE /\ pc' = [pc EXCEPT ![c] = "closeR"]
               /\ waited' = waited
               /\ rc' \in [Clients -> Codes]
      <3>1. ReceiveOK' /\ pc' \in [Clients -> ClientPCs]
        BY <1>3, <2>2, NotReceiving DEF RecvNothing
      <3> QED
        BY <1>3, <2>2, <3>1 DEF RecvNothing, ClientOK, shared, daemon,
                                history, SharedOK, DaemonOK, HistoryOK
    <2> QED
      BY <1>3, <2>1, <2>2 DEF RecvNothing, ClientOK, Codes
  <1> QED
    BY <1>1, <1>2, <1>3

\* Closing the ends, releasing the lock and being killed keep the types.
LEMMA TypeCloseAndKill ==
    ASSUME TypeOK, NEW c \in Clients,
           CloseReader(c) \/ CloseSelfWriter(c) \/ KillClient(c)
    PROVE  TypeOK'
  <1> USE DEF TypeOK
  <1>1. ReceiveOK' /\ pc' \in [Clients -> ClientPCs]
    BY NotReceiving DEF CloseReader, CloseSelfWriter, KillClient, Goto,
                        ClientPCs, Holding
  <1>2. rep' \in Seq(Unit)
    BY EmptySeq DEF CloseReader, CloseSelfWriter, KillClient, AfterClose,
                    SharedOK
  <1>3. req' \in {req, <<>>}
    BY DEF CloseReader, CloseSelfWriter, KillClient, AfterClose
  <1>4. SharedOK'
    BY <1>2, <1>3, EmptySeq
       DEF CloseReader, CloseSelfWriter, KillClient, SharedOK
  <1>5. HistoryOK'
    <2>1. orphaned' = orphaned \/ orphaned' = (orphaned \/ Holds(c))
      BY DEF CloseReader, CloseSelfWriter, KillClient, history
    <2>2. orphaned' \in BOOLEAN
      BY <2>1, Zenon DEF HistoryOK
    <2>3. kills' \in 0..MaxKills
      BY BoundsAssumption DEF CloseReader, CloseSelfWriter, KillClient,
                              HistoryOK
    <2> QED
      BY <2>2, <2>3 DEF CloseReader, CloseSelfWriter, KillClient, history,
                        HistoryOK
  <1> QED
    BY <1>1, <1>4, <1>5
       DEF CloseReader, CloseSelfWriter, KillClient, ClientOK, daemon, DaemonOK

\* Every step of the daemon keeps the types.
LEMMA TypeDaemon ==
    ASSUME TypeOK, DaemonStep \/ KillDaemon
    PROVE  TypeOK'
  <1> USE FrameAssumption DEF TypeOK, DaemonPCs
  <1>1. ClientOK' /\ ReceiveOK'
    BY DEF DaemonStep, DaemonListen, DaemonRecvHeader, DaemonRecvPayload,
           DaemonHandled, DaemonReply, DaemonReplyClose, KillDaemon, client,
           ClientOK, ReceiveOK
  <1>2. CASE DaemonListen
    BY <1>1, <1>2, EmptySeq
       DEF DaemonListen, shared, history, SharedOK, DaemonOK, HistoryOK
  <1>3. CASE DaemonRecvHeader
    <2> DEFINE have == Taken(req, dgot, HdrLen)
    <2>0. /\ req \in Seq(Unit) /\ dgot \in Seq(Unit)
          /\ Len(dgot) < HdrLen /\ req # <<>> /\ HdrLen \in Nat
      BY <1>3 DEF DaemonRecvHeader, SharedOK, DaemonOK
    <2>1. /\ have \in Seq(Unit) /\ Rest(req, dgot, HdrLen) \in Seq(Unit)
          /\ Len(have) \in 1..HdrLen
      BY <2>0, ReadType
    <2>2. have[1] \in Unit
      BY <2>1, ElementOfSeq
    <2>3. have[1].msg \in Message
      BY <2>2 DEF Unit
    <2>4. DaemonOK'
      BY <1>3, <2>1, <2>3, EmptySeq DEF DaemonRecvHeader, DaemonOK
    <2> QED
      BY <1>1, <1>3, <2>1, <2>4
         DEF DaemonRecvHeader, SharedOK, history, HistoryOK
  <1>4. CASE DaemonRecvPayload
    <2> DEFINE have == Taken(req, dgot, PayLen)
               whole == [dreq EXCEPT !.seq = have[1].msg.seq,
                                     !.from = have[1].msg.from]
    <2>0. /\ req \in Seq(Unit) /\ dgot \in Seq(Unit)
          /\ Len(dgot) < PayLen /\ req # <<>> /\ PayLen \in Nat
      BY <1>4 DEF DaemonRecvPayload, SharedOK, DaemonOK
    <2>1. /\ have \in Seq(Unit) /\ Rest(req, dgot, PayLen) \in Seq(Unit)
          /\ Len(have) \in 1..PayLen
      BY <2>0, ReadType
    <2>2. have[1] \in Unit
      BY <2>1, ElementOfSeq
    <2>3. have[1].msg \in Message
      BY <2>2 DEF Unit
    <2>4. whole \in Message
      BY <2>3 DEF DaemonOK, Message
    <2>5. Append(received, whole) \in Seq(Message)
      BY <2>4, AppendProperties DEF HistoryOK
    <2>6. DaemonOK'
      BY <1>4, <2>1, EmptySeq DEF DaemonRecvPayload, DaemonOK
    <2> QED
      BY <1>1, <1>4, <2>1, <2>5, <2>6
         DEF DaemonRecvPayload, SharedOK, HistoryOK
  <1>5. CASE DaemonHandled
    BY <1>1, <1>5, EmptySeq
       DEF DaemonHandled, Opened, SharedOK, DaemonOK, history, HistoryOK
  <1>6. CASE DaemonReply
    <2>1. /\ rep \o Header(dreq) \in Seq(Unit)
          /\ rep \o Payload(dreq) \in Seq(Unit)
      BY FrameType, ConcatProperties DEF SharedOK, DaemonOK
    <2> QED
      BY <1>1, <1>6, <2>1
         DEF DaemonReply, SharedOK, DaemonOK, history, HistoryOK
  <1>7. CASE DaemonReplyClose
    <2>1. rep' \in Seq(Unit)
      BY <1>7, EmptySeq DEF DaemonReplyClose, AfterClose, SharedOK
    <2>2. dgot' = <<>>
      BY <1>7 DEF DaemonReplyClose, DaemonOK
    <2>3. DaemonOK'
      BY <1>7, <2>2, EmptySeq DEF DaemonReplyClose, DaemonOK
    <2> QED
      BY <1>1, <1>7, <2>1, <2>3
         DEF DaemonReplyClose, SharedOK, history, HistoryOK
  <1>8. CASE KillDaemon
    <2>1. req' \in Seq(Unit) /\ rep' \in Seq(Unit)
      BY <1>8, EmptySeq DEF KillDaemon, AfterClose, SharedOK
    <2>2. HistoryOK'
      BY <1>8, BoundsAssumption DEF KillDaemon, history, HistoryOK
    <2> QED
      BY <1>1, <1>8, <2>1, <2>2, EmptySeq DEF KillDaemon, SharedOK, DaemonOK
  <1> QED
    BY <1>2, <1>3, <1>4, <1>5, <1>6, <1>7, <1>8 DEF DaemonStep

\* TypeOK is inductive.
LEMMA TypeStep == TypeOK /\ [Next]_vars => TypeOK'
  <1> SUFFICES ASSUME TypeOK, [Next]_vars PROVE TypeOK'
    OBVIOUS
  <1>1. ASSUME NEW c \in Clients,
               StartCall(c) \/ StartSend(c) \/ ClientStep(c) \/ KillClient(c)
        PROVE  TypeOK'
    BY <1>1, TypeStart, TypeLock, TypeOpen, TypeWrite, TypeRecv,
       TypeCloseAndKill DEF ClientStep
  <1>2. CASE UNCHANGED vars
    BY <1>2 DEF TypeOK, SharedOK, ClientOK, DaemonOK, ReceiveOK, HistoryOK,
                vars, shared, client, daemon, history
  <1> QED
    BY <1>1, <1>2, TypeDaemon DEF Next

\* The state keeps its shapes, and neither side of the library ever takes in
\* more of a header or a payload than that part has.
THEOREM TypeCorrect == Spec => []TypeOK
  <1> QED
    BY TypeInit, TypeStep, PTL DEF Spec
----------------------------------------------------------------------------
(* The requests.                                                           *)

FrameLen == HdrLen + PayLen

\* What the daemon has of a part of a request, and what is in the FIFO.
Stream == dgot \o req

\* How much of a frame the daemon has put away when it reads on.
Skipped == IF dpc = "pay" THEN HdrLen ELSE 0

\* The requests that were written and not yet taken in.
Behind == Len(sent) - Len(received)

Writing == {"write", "sendWrite"}

\* Nobody stopped in the middle of a request because the FIFO was full.
Unsplit == \A c \in Clients : pc[c] \in Writing => out[c] = Frame(cur[c])

\* Nobody stops there in this step.
WholeWrites == \A c \in Clients : WriteRequest(c) => Written(c) = Len(out[c])

TakenIn ==
    /\ Len(received) <= Len(sent)
    /\ \A i \in 1..Len(received) : received[i] = sent[i]

\* The unread bytes are the frames of the requests behind, in their order,
\* from where the daemon is.
Unread ==
    /\ Len(Stream) = Behind * FrameLen - Skipped
    /\ \A k \in 1..Behind, p \in 1..FrameLen :
           (k - 1) * FrameLen + p > Skipped =>
               Stream[(k - 1) * FrameLen + p - Skipped]
                   = [msg |-> sent[Len(received) + k], pos |-> p]

\* The header in hand is that of the next request.
InHand == dpc = "pay" => Behind > 0 /\ dreq = sent[Len(received) + 1]

FrameInv == kills = 0 => dpc # "down" /\ TakenIn /\ Unread /\ InHand

\* A read() takes the first bytes of what there is, and loses none.
LEMMA ReadParts ==
    ASSUME NEW q \in Seq(Unit), NEW have \in Seq(Unit), NEW need \in Nat,
           Len(have) < need, q # <<>>
    PROVE  LET all == have \o q
               got1 == Taken(q, have, need)
               rest == Rest(q, have, need)
           IN  /\ all \in Seq(Unit) /\ Len(all) = Len(have) + Len(q)
               /\ got1 \in Seq(Unit) /\ rest \in Seq(Unit)
               /\ Len(got1) \in 1..need /\ Len(got1) <= Len(all)
               /\ \A i \in 1..Len(got1) : got1[i] = all[i]
               /\ got1 \o rest = all
               /\ Len(rest) = Len(all) - Len(got1)
               /\ \A i \in 1..Len(rest) : rest[i] = all[Len(got1) + i]
  <1> DEFINE n == Took(q, have, need)
             all == have \o q
             got1 == Taken(q, have, need)
             rest == Rest(q, have, need)
             low == SubSeq(q, 1, n)
  <1>1. n \in 1..Len(q) /\ n <= need - Len(have) /\ Len(have) \in Nat
        /\ Len(q) \in Nat
    BY EmptySeq, LenProperties DEF Took
  <1>2. low \in Seq(Unit) /\ Len(low) = n
    BY <1>1, SubSeqProperties
  <1>3. rest \in Seq(Unit) /\ Len(rest) = Len(q) - n
    BY <1>1, SubSeqProperties DEF Rest
  <1>4. all \in Seq(Unit) /\ Len(all) = Len(have) + Len(q)
    BY ConcatProperties
  <1>5. got1 \in Seq(Unit) /\ Len(got1) = Len(have) + n
    BY <1>2, ConcatProperties DEF Taken
  <1>6. low \o rest = q
    <2>1. /\ 1 \in 1..(Len(q) + 1) /\ n \in (1 - 1)..Len(q)
          /\ Len(q) \in n..Len(q)
      BY <1>1
    <2> HIDE DEF n
    <2>2. SubSeq(q, 1, n) \o SubSeq(q, n + 1, Len(q)) = SubSeq(q, 1, Len(q))
      BY <2>1, ConcatAdjacentSubSeq
    <2> QED
      BY <2>2, SubSeqFull DEF Rest, n
  <1>7. got1 \o rest = all
    <2>1. got1 = have \o low
      BY DEF Taken
    <2> HIDE DEF low, rest, got1, n
    <2>2. (have \o low) \o rest = have \o (low \o rest)
      <3>1. have \in Seq(Unit) /\ low \in Seq(Unit) /\ rest \in Seq(Unit)
        BY <1>2, <1>3
      <3> QED
        BY <3>1, ConcatAssociative
    <2> QED
      BY <1>6, <2>1, <2>2
  <1> HIDE DEF n, all, got1, rest
  <1>8. \A i \in 1..Len(all) :
            all[i] = IF i <= Len(got1) THEN got1[i] ELSE rest[i - Len(got1)]
    <2>1. \A i \in 1..(Len(got1) + Len(rest)) :
              (got1 \o rest)[i] = IF i <= Len(got1) THEN got1[i]
                                  ELSE rest[i - Len(got1)]
      BY <1>3, <1>5, ConcatProperties
    <2>2. Len(all) = Len(got1) + Len(rest)
      BY <1>1, <1>3, <1>4, <1>5
    <2> QED
      BY <1>7, <2>1, <2>2
  <1>9. /\ Len(got1) \in 1..need /\ Len(got1) <= Len(all)
        /\ Len(rest) = Len(all) - Len(got1) /\ Len(got1) \in Nat
        /\ Len(rest) \in Nat /\ Len(all) = Len(got1) + Len(rest)
    BY <1>1, <1>3, <1>4, <1>5
  <1>10. /\ \A i \in 1..Len(got1) : got1[i] = all[i]
         /\ \A i \in 1..Len(rest) : rest[i] = all[Len(got1) + i]
    BY <1>8, <1>9
  <1> QED
    BY <1>3, <1>4, <1>5, <1>7, <1>9, <1>10 DEF all, got1, rest

\* The units of a frame.
LEMMA FrameUnits ==
    ASSUME NEW m \in Message
    PROVE  /\ FrameLen \in Nat \ {0} /\ HdrLen < FrameLen
           /\ Frame(m) \in Seq(Unit) /\ Len(Frame(m)) = FrameLen
           /\ \A p \in 1..FrameLen : Frame(m)[p] = [msg |-> m, pos |-> p]
  <1>1. FrameLen \in Nat \ {0} /\ HdrLen < FrameLen
    BY FrameAssumption DEF FrameLen
  <1>2. Frame(m) \in Seq(Unit) /\ Len(Frame(m)) = FrameLen
    BY FrameType DEF FrameLen
  <1>3. \A p \in 1..FrameLen : Frame(m)[p] = [msg |-> m, pos |-> p]
    BY DEF Frame, FrameLen
  <1> QED
    BY <1>1, <1>2, <1>3

\* The stream is a sequence of units.
LEMMA StreamType ==
    ASSUME TypeOK
    PROVE  /\ Stream \in Seq(Unit) /\ Len(Stream) = Len(dgot) + Len(req)
           /\ Len(dgot) \in Nat /\ Len(req) \in Nat /\ Len(Stream) \in Nat
           /\ (dpc \notin {"hdr", "pay"} => Stream = req)
  <1>1. dgot \in Seq(Unit) /\ req \in Seq(Unit)
    BY DEF TypeOK, SharedOK, DaemonOK
  <1>2. /\ Stream \in Seq(Unit) /\ Len(Stream) = Len(dgot) + Len(req)
        /\ Len(dgot) \in Nat /\ Len(req) \in Nat
    BY <1>1, ConcatProperties, LenProperties DEF Stream
  <1>3. dpc \notin {"hdr", "pay"} => Stream = req
    BY <1>1, ConcatEmptySeq DEF Stream, TypeOK, DaemonOK
  <1> QED
    BY <1>2, <1>3

\* A write that is not cut short puts the frame of the client's operation
\* behind what is in the FIFO, and the client goes on.
LEMMA WholeWrite ==
    ASSUME TypeOK, Unsplit, NEW c \in Clients, WriteRequest(c),
           Written(c) = Len(out[c])
    PROVE  /\ pc[c] \in Writing /\ cur[c] \in Message
           /\ req' \in AfterClose(req \o Frame(cur[c]), RequestEnds(c))
           /\ sent' = Append(sent, cur[c])
           /\ pc' = [pc EXCEPT ![c] = IF At(c, "write") THEN "hdr" ELSE "idle"]
           /\ UNCHANGED <<cur, received, dpc, dgot, dreq, kills, rep, lock,
                          readers, writers, timeout, orphaned>>
  <1>1. pc[c] \in Writing /\ cur[c] \in Message
    BY DEF WriteRequest, Writing, TypeOK, ClientOK
  <1>2. out[c] = Frame(cur[c]) /\ Len(out[c]) = FrameLen
    BY <1>1, FrameUnits DEF Unsplit
  <1>3. ~Started(c)
    BY <1>2, FrameAssumption DEF Started, FrameLen
  <1> QED
    BY <1>1, <1>2, <1>3 DEF WriteRequest, At, Goto, daemon, Writing

\* Only a write that is cut short leaves a client in the middle of one.
LEMMA UnsplitStep ==
    ASSUME TypeOK, Unsplit, [Next]_vars, WholeWrites
    PROVE  Unsplit'
  <1> USE DEF Unsplit, Writing, At, Goto
  <1>1. ASSUME NEW c \in Clients,
               /\ pc' = [pc EXCEPT ![c] = pc'[c]] /\ pc'[c] \notin Writing
               /\ \A d \in Clients \ {c} : out'[d] = out[d] /\ cur'[d] = cur[d]
        PROVE  Unsplit'
    <2> SUFFICES ASSUME NEW d \in Clients, pc'[d] \in Writing
                 PROVE  out'[d] = Frame(cur'[d])
      OBVIOUS
    <2>1. d # c
      BY <1>1
    <2>2. pc'[d] = pc[d] /\ out'[d] = out[d] /\ cur'[d] = cur[d]
      BY <1>1, <2>1 DEF TypeOK, ClientOK
    <2> QED
      BY <2>2
  <1>2. ASSUME UNCHANGED <<pc, out, cur>> PROVE Unsplit'
    BY <1>2 DEF Frame
  <1>3. ASSUME NEW c \in Clients, StartCall(c) \/ StartSend(c)
        PROVE  Unsplit'
    BY <1>1, <1>3 DEF StartCall, StartSend, TypeOK, ClientOK
  <1>4. ASSUME NEW c \in Clients, OpenRequest(c) PROVE Unsplit'
    <2>1. /\ out' = [out EXCEPT ![c] = Frame(cur[c])] /\ cur' = cur
          /\ pc' = [pc EXCEPT ![c] = pc'[c]]
      BY <1>4 DEF OpenRequest, TypeOK, ClientOK
    <2> SUFFICES ASSUME NEW d \in Clients, pc'[d] \in Writing
                 PROVE  out'[d] = Frame(cur'[d])
      OBVIOUS
    <2>2. CASE d = c
      BY <2>1, <2>2 DEF TypeOK, ClientOK
    <2>3. CASE d # c
      <3>1. pc'[d] = pc[d] /\ out'[d] = out[d] /\ cur'[d] = cur[d]
        BY <2>1, <2>3 DEF TypeOK, ClientOK
      <3> QED
        BY <3>1
    <2> QED
      BY <2>2, <2>3
  <1>5. ASSUME NEW c \in Clients, WriteRequest(c) PROVE Unsplit'
    <2>1. /\ pc' = [pc EXCEPT ![c] = IF At(c, "write") THEN "hdr" ELSE "idle"]
          /\ cur' = cur
      BY <1>5, WholeWrite DEF WholeWrites
    <2>2. \A d \in Clients \ {c} : out'[d] = out[d]
      BY <1>5 DEF WriteRequest, TypeOK, ClientOK
    <2>3. pc'[c] \notin Writing /\ pc' = [pc EXCEPT ![c] = pc'[c]]
      BY <2>1 DEF TypeOK, ClientOK
    <2> QED
      BY <1>1, <2>1, <2>2, <2>3
  <1>6. ASSUME NEW c \in Clients,
               \/ LockTaken(c) \/ LockBusy(c) \/ OpenReader(c)
               \/ OpenSelfWriter(c) \/ WriteFails(c) \/ RecvHeader(c)
               \/ RecvPayload(c) \/ RecvNothing(c) \/ CloseReader(c)
               \/ CloseSelfWriter(c) \/ LockRelease(c) \/ KillClient(c)
        PROVE  Unsplit'
    <2>1. /\ cur' = cur /\ \A d \in Clients \ {c} : out'[d] = out[d]
          /\ \/ pc' = pc /\ out' = out
             \/ \E to \in ClientPCs \ Writing : pc' = [pc EXCEPT ![c] = to]
      BY <1>6 DEF LockTaken, LockBusy, OpenReader, OpenSelfWriter, WriteFails,
                  RecvHeader, RecvPayload, RecvNothing, CloseReader,
                  CloseSelfWriter, LockRelease, KillClient, ClientPCs,
                  Holding, TypeOK, ClientOK
    <2> QED
      BY <1>1, <1>2, <2>1 DEF TypeOK, ClientOK
  <1>7. CASE DaemonStep \/ KillDaemon
    BY <1>2, <1>7 DEF DaemonStep, DaemonListen, DaemonRecvHeader,
       DaemonRecvPayload, DaemonHandled, DaemonReply, DaemonReplyClose,
       KillDaemon, client
  <1>8. CASE UNCHANGED vars
    BY <1>2, <1>8 DEF vars, client
  <1> QED
    BY <1>3, <1>4, <1>5, <1>6, <1>7, <1>8 DEF Next, ClientStep

\* If nobody is in the middle of a request afterwards, no write was cut short.
LEMMA UnsplitWhole ==
    ASSUME TypeOK, Unsplit, Unsplit'
    PROVE  WholeWrites
  <1> SUFFICES ASSUME NEW c \in Clients, WriteRequest(c)
               PROVE  Written(c) = Len(out[c])
    BY DEF WholeWrites
  <1> DEFINE n == Written(c)
  <1>1. pc[c] \in Writing /\ cur[c] \in Message /\ cur' = cur
    BY DEF WriteRequest, Writing, TypeOK, ClientOK
  <1>2. out[c] = Frame(cur[c]) /\ Len(out[c]) = FrameLen /\ FrameLen \in Nat
    BY <1>1, FrameUnits DEF Unsplit
  <1>3. n \in 1..FrameLen
    BY <1>2, FrameAssumption, LenProperties
       DEF WriteRequest, Written, TypeOK, SharedOK
  <1>4. SUFFICES ASSUME n # FrameLen PROVE FALSE
    BY <1>2
  <1>5. pc' = pc
    BY <1>2, <1>4 DEF WriteRequest
  <1>6. out'[c] = Frame(cur[c])
    BY <1>1, <1>5 DEF Unsplit, Frame
  <1>7. out'[c] = SubSeq(out[c], n + 1, FrameLen)
    BY <1>2 DEF WriteRequest, TypeOK, ClientOK
  <1>8. \A i \in (n + 1)..FrameLen : out[c][i] \in Unit
    BY <1>2, <1>3, ElementOfSeq DEF TypeOK, ClientOK
  <1>9. Len(out'[c]) = FrameLen - n
    BY <1>2, <1>3, <1>4, <1>7, <1>8, SubSeqProperties
  <1> QED
    BY <1>2, <1>3, <1>6, <1>9

\* Where the units of the k-th frame lie.
LEMMA Places ==
    ASSUME NEW n \in Nat, NEW len \in Nat \ {0}, NEW k \in 1..n, NEW p \in 1..len
    PROVE  /\ n * len \in Nat /\ (k - 1) * len \in Nat
           /\ (k - 1) * len + p \in 1..(n * len)
  <1>1. PICK j \in Nat : k - 1 = j /\ j <= n - 1
    OBVIOUS
  <1>2. j * len \in Nat /\ n * len \in Nat /\ (n - 1 - j) * len \in Nat
    BY <1>1
  <1>3. n * len = j * len + (n - 1 - j) * len + len
    BY <1>1
  <1> QED
    BY <1>1, <1>2, <1>3

\* Frames stand at whole multiples of their length.
LEMMA NextFrame ==
    ASSUME NEW n \in Nat, NEW len \in Nat \ {0}
    PROVE  (n + 1) * len = n * len + len /\ n * len \in Nat
  OBVIOUS

\* At the start nothing was written.
LEMMA FrameInit == ServedInit => Unsplit /\ FrameInv
  <1> SUFFICES ASSUME ServedInit PROVE Unsplit /\ FrameInv
    OBVIOUS
  <1>1. Unsplit
    BY DEF ServedInit, Init, Unsplit, Writing
  <1>2. Stream = <<>> /\ Len(Stream) = 0 /\ Len(sent) = 0 /\ Len(received) = 0
    BY EmptySeq, ConcatEmptySeq DEF ServedInit, Init, Stream
  <1>3. FrameLen \in Nat /\ Skipped = 0 /\ Behind = 0 /\ dpc = "hdr"
    BY <1>2, FrameAssumption DEF FrameLen, Skipped, Behind, ServedInit
  <1>4. Behind * FrameLen = 0
    BY <1>3
  <1> QED
    BY <1>1, <1>2, <1>3, <1>4 DEF FrameInv, TakenIn, Unread, InHand

\* Steps that touch neither the unread bytes nor the histories.
LEMMA FrameStays ==
    ASSUME FrameInv, kills' = 0 => kills = 0 /\ (dpc' = "down" => dpc = "down"),
           UNCHANGED <<Stream, Skipped, sent, received>>,
           dpc' = "pay" => dpc = "pay" /\ dreq' = dreq
    PROVE  FrameInv'
  <1> SUFFICES ASSUME kills' = 0 PROVE (dpc # "down" /\ TakenIn /\ Unread /\ InHand)'
    BY DEF FrameInv
  <1>1. dpc # "down" /\ TakenIn /\ Unread /\ InHand
    BY DEF FrameInv
  <1>2. Behind' = Behind
    BY DEF Behind
  <1>3. TakenIn'
    BY <1>1 DEF TakenIn
  <1>4. Unread'
    BY <1>1, <1>2 DEF Unread
  <1> QED
    BY <1>1, <1>2, <1>3, <1>4 DEF InHand

\* A request is written: its frame is the last.
LEMMA FrameWrite ==
    ASSUME TypeOK, FrameInv, NEW c \in Clients, cur[c] \in Message,
           req' \in AfterClose(req \o Frame(cur[c]), RequestEnds(c)),
           sent' = Append(sent, cur[c]),
           UNCHANGED <<received, dpc, dgot, dreq, kills>>
    PROVE  FrameInv'
  <1> SUFFICES ASSUME kills = 0 PROVE (dpc # "down" /\ TakenIn /\ Unread /\ InHand)'
    BY DEF FrameInv
  <1> DEFINE f == Frame(cur[c])
             r == Len(received)
             s == Len(sent)
  <1>1. dpc # "down" /\ TakenIn /\ Unread /\ InHand
    BY DEF FrameInv
  <1>2. req' = req \o f
    BY <1>1 DEF RequestEnds, AfterClose
  <1>3. /\ FrameLen \in Nat \ {0} /\ f \in Seq(Unit) /\ Len(f) = FrameLen
        /\ \A p \in 1..FrameLen : f[p] = [msg |-> cur[c], pos |-> p]
    BY FrameUnits
  <1>4. /\ Stream \in Seq(Unit) /\ Len(Stream) \in Nat
        /\ req \in Seq(Unit) /\ dgot \in Seq(Unit)
    BY StreamType DEF TypeOK, SharedOK, DaemonOK
  <1>5. r \in Nat /\ s \in Nat /\ r <= s /\ Behind = s - r /\ Behind \in Nat
    BY <1>1, LenProperties DEF TakenIn, Behind, TypeOK, HistoryOK
  <1>6. /\ Len(sent') = s + 1 /\ sent'[s + 1] = cur[c]
        /\ \A i \in 1..s : sent'[i] = sent[i]
    BY AppendProperties DEF TypeOK, HistoryOK
  <1>7. Stream' = Stream \o f
    <2>1. Stream' = dgot \o (req \o f)
      BY <1>2 DEF Stream
    <2> HIDE DEF f
    <2>2. (dgot \o req) \o f = dgot \o (req \o f)
      <3>1. dgot \in Seq(Unit) /\ req \in Seq(Unit) /\ f \in Seq(Unit)
        BY <1>3, <1>4
      <3> QED
        BY <3>1, ConcatAssociative
    <2> QED
      BY <2>1, <2>2 DEF Stream
  <1> HIDE DEF f, r, s
  <1>8. /\ Len(Stream') = Len(Stream) + FrameLen
        /\ \A i \in 1..(Len(Stream) + FrameLen) :
               Stream'[i] = IF i <= Len(Stream) THEN Stream[i]
                            ELSE f[i - Len(Stream)]
    BY <1>3, <1>4, <1>7, ConcatProperties
  <1>9. Skipped' = Skipped /\ Skipped \in Nat /\ Behind' = Behind + 1
        /\ Len(received') = r
    BY <1>5, <1>6, FrameAssumption DEF Skipped, Behind, r, s
  <1>10. TakenIn'
    BY <1>1, <1>5, <1>6, <1>9 DEF TakenIn, r, s
  <1>11. Len(Stream) = Behind * FrameLen - Skipped
         /\ Behind' * FrameLen = Behind * FrameLen + FrameLen
         /\ Behind * FrameLen \in Nat
    BY <1>1, <1>3, <1>5, <1>9, NextFrame DEF Unread
  <1>12. ASSUME NEW k \in 1..Behind', NEW p \in 1..FrameLen,
                (k - 1) * FrameLen + p > Skipped'
         PROVE  Stream'[(k - 1) * FrameLen + p - Skipped']
                    = [msg |-> sent'[Len(received') + k], pos |-> p]
    <2>1. CASE k \in 1..Behind
      <3>1. (k - 1) * FrameLen + p \in 1..(Behind * FrameLen)
            /\ (k - 1) * FrameLen \in Nat
        BY <1>3, <1>5, <2>1, Places
      <3>2. (k - 1) * FrameLen + p - Skipped \in 1..Len(Stream)
        BY <1>9, <1>11, <1>12, <3>1
      <3>3. Stream'[(k - 1) * FrameLen + p - Skipped]
                = Stream[(k - 1) * FrameLen + p - Skipped]
        BY <1>3, <1>4, <1>8, <3>2
      <3>4. Stream[(k - 1) * FrameLen + p - Skipped]
                = [msg |-> sent[r + k], pos |-> p]
        BY <1>1, <1>9, <1>12, <2>1 DEF Unread, r
      <3>5. sent'[r + k] = sent[r + k]
        BY <1>5, <1>6, <2>1
      <3> QED
        BY <1>9, <3>3, <3>4, <3>5
    <2>2. CASE k = Behind + 1
      <3>1. (k - 1) * FrameLen = Behind * FrameLen
        BY <1>5, <2>2
      <3>2. (k - 1) * FrameLen + p - Skipped = Len(Stream) + p
        BY <1>3, <1>9, <1>11, <3>1
      <3>3. Stream'[Len(Stream) + p] = f[p]
        <4>1. /\ Len(Stream) + p \in 1..(Len(Stream) + FrameLen)
              /\ ~(Len(Stream) + p <= Len(Stream))
              /\ Len(Stream) + p - Len(Stream) = p
          BY <1>3, <1>4
        <4> QED
          BY <1>8, <4>1
      <3>4. r + k = s + 1
        BY <1>5, <2>2
      <3> QED
        BY <1>3, <1>6, <1>9, <3>2, <3>3, <3>4
    <2>3. k \in 1..Behind \/ k = Behind + 1
      BY <1>5, <1>9, <1>12
    <2> QED
      BY <2>1, <2>2, <2>3
  <1>13. Unread'
    <2>1. Len(Stream') = Behind' * FrameLen - Skipped'
      BY <1>3, <1>8, <1>9, <1>11
    <2> QED
      BY <1>12, <2>1 DEF Unread
  <1>14. InHand'
    BY <1>1, <1>5, <1>6, <1>9 DEF InHand, r, s
  <1> QED
    BY <1>1, <1>10, <1>13, <1>14

\* Bytes are only there if a request is behind, and the first of them is
\* where the daemon left off.
LEMMA NextUnit ==
    ASSUME TypeOK, TakenIn, Unread, InHand, req # <<>>
    PROVE  /\ Behind \in Nat \ {0} /\ FrameLen \in Nat \ {0}
           /\ Len(received) \in Nat
           /\ sent[Len(received) + 1] \in Message
           /\ Stream[1] = [msg |-> sent[Len(received) + 1], pos |-> Skipped + 1]
  <1>1. FrameLen \in Nat \ {0} /\ Skipped \in Nat /\ Skipped < FrameLen
        /\ HdrLen \in Nat
    BY FrameAssumption DEF FrameLen, Skipped
  <1>2. /\ Len(received) \in Nat /\ Len(sent) \in Nat
        /\ Len(received) <= Len(sent)
    BY LenProperties DEF TakenIn, TypeOK, HistoryOK
  <1>3. Len(Stream) \in Nat \ {0}
    BY StreamType, EmptySeq DEF TypeOK, SharedOK
  <1>4. Behind \in Nat
    BY <1>2 DEF Behind
  <1>5. Behind # 0
    <2>1. SUFFICES ASSUME Behind = 0 PROVE FALSE
      OBVIOUS
    <2>2. Behind * FrameLen = 0
      BY <1>1, <2>1
    <2> QED
      BY <1>1, <1>3, <2>2 DEF Unread
  <1>6. sent[Len(received) + 1] \in Message
    BY <1>2, <1>4, <1>5, ElementOfSeq DEF Behind, TypeOK, HistoryOK
  <1>7. /\ 1 \in 1..Behind /\ Skipped + 1 \in 1..FrameLen
        /\ (1 - 1) * FrameLen = 0
    BY <1>1, <1>4, <1>5
  <1>8. (1 - 1) * FrameLen + (Skipped + 1) > Skipped
        /\ (1 - 1) * FrameLen + (Skipped + 1) - Skipped = 1
    BY <1>1, <1>7
  <1>9. Stream[(1 - 1) * FrameLen + (Skipped + 1) - Skipped]
            = [msg |-> sent[Len(received) + 1], pos |-> Skipped + 1]
    BY <1>7, <1>8 DEF Unread
  <1> QED
    BY <1>1, <1>2, <1>4, <1>5, <1>6, <1>8, <1>9

\* The daemon reads a header, whole or in part.
LEMMA FrameHeader ==
    ASSUME TypeOK, FrameInv, DaemonRecvHeader
    PROVE  FrameInv'
  <1> DEFINE have == Taken(req, dgot, HdrLen)
             rest == Rest(req, dgot, HdrLen)
             r == Len(received)
  <1>1. SUFFICES ASSUME kills = 0
                 PROVE  (dpc # "down" /\ TakenIn /\ Unread /\ InHand)'
    BY DEF FrameInv, DaemonRecvHeader
  <1>2. dpc = "hdr" /\ TakenIn /\ Unread /\ InHand /\ req # <<>> /\ Skipped = 0
    BY <1>1 DEF FrameInv, DaemonRecvHeader, Skipped
  <1>3. /\ req \in Seq(Unit) /\ dgot \in Seq(Unit) /\ HdrLen \in Nat \ {0}
        /\ Len(dgot) < HdrLen
    BY <1>2, FrameAssumption DEF TypeOK, SharedOK, DaemonOK
  <1>4. /\ Stream \in Seq(Unit)
        /\ have \in Seq(Unit) /\ rest \in Seq(Unit)
        /\ Len(have) \in 1..HdrLen /\ Len(have) <= Len(Stream)
        /\ \A i \in 1..Len(have) : have[i] = Stream[i]
        /\ have \o rest = Stream
        /\ Len(rest) = Len(Stream) - Len(have)
        /\ \A i \in 1..Len(rest) : rest[i] = Stream[Len(have) + i]
    BY <1>2, <1>3, ReadParts DEF Stream
  <1>5. /\ Behind \in Nat \ {0} /\ FrameLen \in Nat \ {0} /\ r \in Nat
        /\ sent[r + 1] \in Message
        /\ Stream[1] = [msg |-> sent[r + 1], pos |-> 1]
    BY <1>2, NextUnit
  <1>6. have[1].pos = 1 /\ have[1].msg = sent[r + 1]
    BY <1>4, <1>5
  <1>7. UNCHANGED <<sent, received, kills>> /\ req' = rest
    BY DEF DaemonRecvHeader, history
  <1>8. CASE Len(have) # HdrLen
    <2>1. dgot' = have /\ UNCHANGED <<dpc, dreq>>
      BY <1>8 DEF DaemonRecvHeader
    <2> HIDE DEF have, rest
    <2>2. Stream' = Stream /\ Skipped' = Skipped
      BY <1>4, <1>7, <2>1 DEF Stream, Skipped
    <2> QED
      BY <1>1, <1>7, <2>1, <2>2, FrameStays DEF FrameInv
  <1>9. CASE Len(have) = HdrLen
    <2>1. dgot' = <<>> /\ dpc' = "pay" /\ dreq' = sent[r + 1]
      BY <1>6, <1>9 DEF DaemonRecvHeader
    <2> HIDE DEF have, rest
    <2>2. Stream' = rest /\ Skipped' = HdrLen
      BY <1>4, <1>7, <2>1, ConcatEmptySeq DEF Stream, Skipped
    <2>3. Behind' = Behind /\ TakenIn'
      BY <1>2, <1>7 DEF Behind, TakenIn
    <2>4. ASSUME NEW k \in 1..Behind', NEW p \in 1..FrameLen,
                 (k - 1) * FrameLen + p > Skipped'
          PROVE  Stream'[(k - 1) * FrameLen + p - Skipped']
                     = [msg |-> sent'[Len(received') + k], pos |-> p]
      <3>1. (k - 1) * FrameLen + p \in 1..(Behind * FrameLen)
            /\ (k - 1) * FrameLen \in Nat /\ Behind * FrameLen \in Nat
        BY <1>5, <2>3, <2>4, Places
      <3>2. Len(rest) = Behind * FrameLen - HdrLen
        BY <1>2, <1>3, <1>4, <1>9, <3>1 DEF Unread
      <3>3. (k - 1) * FrameLen + p - HdrLen \in 1..Len(rest)
            /\ HdrLen + ((k - 1) * FrameLen + p - HdrLen)
                   = (k - 1) * FrameLen + p - Skipped
        BY <1>2, <1>3, <2>2, <2>4, <3>1, <3>2
      <3>4. Stream'[(k - 1) * FrameLen + p - Skipped']
                = Stream[(k - 1) * FrameLen + p - Skipped]
        BY <1>4, <1>9, <2>2, <3>3
      <3>5. (k - 1) * FrameLen + p > Skipped
        BY <1>2, <3>1
      <3> QED
        BY <1>2, <1>7, <2>3, <3>4, <3>5 DEF Unread
    <2>5. Len(Stream') = Behind' * FrameLen - Skipped'
      <3>1. Behind * FrameLen \in Nat
        BY <1>5, NextFrame
      <3> QED
        BY <1>2, <1>3, <1>4, <1>9, <2>2, <2>3, <3>1 DEF Unread
    <2>6. Unread'
      BY <2>4, <2>5 DEF Unread
    <2> QED
      BY <1>5, <1>7, <2>1, <2>3, <2>6 DEF InHand, r
  <1> QED
    BY <1>8, <1>9

\* The daemon reads a payload, whole or in part; a whole one is the rest of
\* the next request.
LEMMA FramePayload ==
    ASSUME TypeOK, FrameInv, DaemonRecvPayload
    PROVE  FrameInv'
  <1> DEFINE have == Taken(req, dgot, PayLen)
             rest == Rest(req, dgot, PayLen)
             r == Len(received)
             whole == [dreq EXCEPT !.seq = have[1].msg.seq,
                                   !.from = have[1].msg.from]
  <1>1. SUFFICES ASSUME kills = 0
                 PROVE  (dpc # "down" /\ TakenIn /\ Unread /\ InHand)'
    BY DEF FrameInv, DaemonRecvPayload
  <1>2. /\ dpc = "pay" /\ TakenIn /\ Unread /\ InHand /\ req # <<>>
        /\ Skipped = HdrLen
    BY <1>1 DEF FrameInv, DaemonRecvPayload, Skipped
  <1>3. /\ req \in Seq(Unit) /\ dgot \in Seq(Unit) /\ PayLen \in Nat \ {0}
        /\ Len(dgot) < PayLen /\ HdrLen \in Nat \ {0}
        /\ FrameLen = HdrLen + PayLen
    BY <1>2, FrameAssumption DEF TypeOK, SharedOK, DaemonOK, FrameLen
  <1>4. /\ Stream \in Seq(Unit)
        /\ have \in Seq(Unit) /\ rest \in Seq(Unit)
        /\ Len(have) \in 1..PayLen /\ Len(have) <= Len(Stream)
        /\ \A i \in 1..Len(have) : have[i] = Stream[i]
        /\ have \o rest = Stream
        /\ Len(rest) = Len(Stream) - Len(have)
        /\ \A i \in 1..Len(rest) : rest[i] = Stream[Len(have) + i]
    BY <1>2, <1>3, ReadParts DEF Stream
  <1>5. /\ Behind \in Nat \ {0} /\ FrameLen \in Nat \ {0} /\ r \in Nat
        /\ sent[r + 1] \in Message
        /\ Stream[1] = [msg |-> sent[r + 1], pos |-> HdrLen + 1]
    BY <1>2, NextUnit
  <1>6. have[1].msg = sent[r + 1] /\ dreq = sent[r + 1]
    BY <1>2, <1>4, <1>5 DEF InHand
  <1>7. UNCHANGED <<sent, kills, dreq>> /\ req' = rest
    BY DEF DaemonRecvPayload
  <1>8. CASE Len(have) # PayLen
    <2>1. dgot' = have /\ UNCHANGED <<dpc, received>>
      BY <1>2, <1>8 DEF DaemonRecvPayload
    <2> HIDE DEF have, rest
    <2>2. Stream' = Stream /\ Skipped' = Skipped
      BY <1>4, <1>7, <2>1 DEF Stream, Skipped
    <2> QED
      BY <1>1, <1>7, <2>1, <2>2, FrameStays DEF FrameInv
  <1>9. CASE Len(have) = PayLen
    <2>1. /\ dgot' = <<>> /\ dpc' \in {"work", "hdr"}
          /\ received' = Append(received, whole)
      BY <1>9 DEF DaemonRecvPayload
    <2>2. whole = sent[r + 1]
      BY <1>5, <1>6 DEF Message
    <2> HIDE DEF have, rest, whole
    <2>3. Stream' = rest /\ Skipped' = 0
      BY <1>4, <1>7, <2>1, ConcatEmptySeq DEF Stream, Skipped
    <2>4. /\ Len(received') = r + 1 /\ received'[r + 1] = sent[r + 1]
          /\ \A i \in 1..r : received'[i] = received[i]
      BY <1>5, <2>1, <2>2, AppendProperties DEF TypeOK, HistoryOK
    <2>5. Behind' = Behind - 1 /\ Len(sent) \in Nat /\ Behind = Len(sent) - r
      BY <1>5, <1>7, <2>4, LenProperties DEF Behind, TypeOK, HistoryOK
    <2> HIDE DEF r
    <2>6. TakenIn'
      <3>1. Len(received') <= Len(sent')
        BY <1>5, <1>7, <2>4, <2>5
      <3>2. ASSUME NEW i \in 1..Len(received') PROVE received'[i] = sent'[i]
        <4>1. i \in 1..r \/ i = r + 1
          BY <1>5, <2>4
        <4> QED
          BY <1>2, <1>7, <2>4, <4>1 DEF TakenIn, r
      <3> QED
        BY <3>1, <3>2 DEF TakenIn
    <2>7. /\ Behind * FrameLen = Behind' * FrameLen + FrameLen
          /\ Behind' * FrameLen \in Nat
      <3>1. Behind' \in Nat /\ Behind = Behind' + 1
        BY <1>5, <2>5
      <3> QED
        BY <1>5, <3>1, NextFrame
    <2>8. Len(Stream') = Behind' * FrameLen - Skipped'
      <3>1. PICK x \in Nat : x = Behind' * FrameLen
        BY <2>7
      <3>2. Len(Stream) = x + FrameLen - HdrLen
        <4>1. Len(Stream) = Behind * FrameLen - Skipped
          BY <1>2 DEF Unread
        <4>2. Skipped = HdrLen
          BY <1>2
        <4>3. Len(Stream) = (x + FrameLen) - Skipped
          BY <2>7, <3>1, <4>1, Zenon
        <4>4. FrameLen \in Nat /\ HdrLen \in Nat /\ Skipped \in Nat
          BY <1>3, <1>5, <4>2
        <4> QED
          BY <4>2, <4>3, <4>4, Z3
      <3>3. Len(Stream') = Len(Stream) - PayLen
        BY <1>4, <1>9, <2>3
      <3> HIDE <2>7
      <3>4. Len(Stream') = x
        BY <1>3, <1>5, <3>2, <3>3
      <3> QED
        BY <2>3, <3>1, <3>4
    <2>9. ASSUME NEW k \in 1..Behind', NEW p \in 1..FrameLen,
                 (k - 1) * FrameLen + p > Skipped'
          PROVE  Stream'[(k - 1) * FrameLen + p - Skipped']
                     = [msg |-> sent'[Len(received') + k], pos |-> p]
      <3>1. Behind' \in Nat /\ k \in 1..Behind' /\ p \in 1..FrameLen
        BY <1>5, <2>5, <2>9
      <3>2. (k - 1) * FrameLen + p \in 1..(Behind' * FrameLen)
            /\ (k - 1) * FrameLen \in Nat
        BY <1>5, <3>1, Places
      <3>3. k + 1 \in 1..Behind /\ (k + 1) - 1 = k /\ k = (k - 1) + 1
            /\ k - 1 \in Nat
        BY <1>5, <2>5, <3>1
      <3>4. k * FrameLen = (k - 1) * FrameLen + FrameLen
        BY <1>5, <3>3, NextFrame
      <3>5. /\ (k - 1) * FrameLen + p - Skipped' = (k - 1) * FrameLen + p
            /\ (k - 1) * FrameLen + p \in 1..Len(rest)
            /\ PayLen + ((k - 1) * FrameLen + p)
                   = ((k + 1) - 1) * FrameLen + p - Skipped
            /\ ((k + 1) - 1) * FrameLen + p > Skipped
        <4>1. PICK x \in Nat : x = (k - 1) * FrameLen
          BY <3>2
        <4>2. ((k + 1) - 1) * FrameLen = x + FrameLen
          BY <3>3, <3>4, <4>1
        <4>3. x + p \in 1..Len(rest)
          <5>1. Len(rest) = Behind' * FrameLen
            BY <2>3, <2>7, <2>8
          <5> QED
            BY <3>2, <4>1, <5>1
        <4>4. /\ x + p - Skipped' = x + p
              /\ PayLen + (x + p) = (x + FrameLen) + p - Skipped
              /\ (x + FrameLen) + p > Skipped
          BY <1>2, <1>3, <2>3, <3>1
        <4> QED
          BY <4>1, <4>2, <4>3, <4>4
      <3>6. Stream'[(k - 1) * FrameLen + p - Skipped']
                = Stream[((k + 1) - 1) * FrameLen + p - Skipped]
        BY <1>4, <1>9, <2>3, <3>5
      <3>7. Stream[((k + 1) - 1) * FrameLen + p - Skipped]
                = [msg |-> sent[r + (k + 1)], pos |-> p]
        BY <1>2, <3>1, <3>3, <3>5 DEF Unread, r
      <3>8. Len(received') + k = r + (k + 1)
        BY <1>5, <2>4, <3>1
      <3> QED
        BY <1>7, <3>6, <3>7, <3>8
    <2>10. Unread'
      BY <2>8, <2>9 DEF Unread
    <2> QED
      BY <2>1, <2>6, <2>10 DEF InHand
  <1> QED
    BY <1>8, <1>9

\* As long as no write is cut short, each request arrives as it was written.
LEMMA FrameStep ==
    ASSUME TypeOK, Unsplit, FrameInv, [Next]_vars, WholeWrites
    PROVE  FrameInv'
  <1> USE DEF Stream, Skipped
  <1>1. ASSUME NEW c \in Clients,
               \/ StartCall(c) \/ StartSend(c)
               \/ LockTaken(c) \/ LockBusy(c) \/ OpenReader(c)
               \/ OpenSelfWriter(c) \/ OpenRequest(c) \/ RecvHeader(c)
               \/ RecvPayload(c) \/ RecvNothing(c) \/ CloseReader(c)
               \/ CloseSelfWriter(c) \/ LockRelease(c)
        PROVE  FrameInv'
    <2>1. UNCHANGED <<req, dgot, dpc, dreq, sent, received, kills>>
      BY <1>1 DEF StartCall, StartSend, LockTaken, LockBusy, OpenReader,
         OpenSelfWriter, OpenRequest, RecvHeader, RecvPayload, RecvNothing,
         CloseReader, CloseSelfWriter, LockRelease, shared, daemon, history
    <2> QED
      BY <2>1, FrameStays
  <1>2. ASSUME NEW c \in Clients, WriteRequest(c) PROVE FrameInv'
    BY <1>2, WholeWrite, FrameWrite DEF WholeWrites
  <1>3. ASSUME NEW c \in Clients, WriteFails(c) PROVE FrameInv'
    BY <1>3 DEF WriteFails, FrameInv
  <1>4. ASSUME NEW c \in Clients, KillClient(c) PROVE FrameInv'
    BY <1>4 DEF KillClient, FrameInv, TypeOK, HistoryOK
  <1>5. CASE KillDaemon
    BY <1>5 DEF KillDaemon, FrameInv, TypeOK, HistoryOK
  <1>6. CASE DaemonListen
    BY <1>6 DEF DaemonListen, FrameInv, history
  <1>7. CASE DaemonHandled \/ DaemonReply \/ DaemonReplyClose
    <2>1. /\ UNCHANGED <<req, dgot, dreq, sent, received, kills>>
          /\ dpc' \notin {"down", "pay"} /\ dpc # "pay"
      BY <1>7 DEF DaemonHandled, DaemonReply, DaemonReplyClose, history
    <2> QED
      BY <2>1, FrameStays
  <1>8. CASE UNCHANGED vars
    BY <1>8, FrameStays DEF vars, shared, daemon, history
  <1> QED
    BY <1>1, <1>2, <1>3, <1>4, <1>5, <1>6, <1>7, <1>8, FrameHeader,
       FramePayload DEF Next, ClientStep, DaemonStep

\* Frames that arrive as they were written make the daemon's requests a
\* prefix of those written.
LEMMA FramesArePrefix == TypeOK /\ FrameInv => RequestsIntact
  <1> SUFFICES ASSUME TypeOK, FrameInv, kills = 0
               PROVE  IsPrefix(received, sent)
    BY DEF RequestsIntact
  <1> DEFINE n == Len(received)
  <1>1. /\ received \in Seq(Message) /\ sent \in Seq(Message)
        /\ n \in Nat /\ n <= Len(sent)
        /\ \A i \in 1..n : received[i] = sent[i]
    BY LenProperties DEF FrameInv, TakenIn, TypeOK, HistoryOK
  <1>2. SubSeq(received, 1, n) = SubSeq(sent, 1, n)
    BY <1>1
  <1> QED
    BY <1>1, <1>2 DEF IsPrefix

\* The daemon takes in the requests that were written, each one whole and
\* once and in their order, as long as the FIFO never fills up so far that
\* write_all stops inside a request.
THEOREM RequestsWhole == ServedSpec /\ []Unsplit => []RequestsIntact
  <1>1. ServedInit => FrameInv /\ TypeOK
    BY FrameInit, TypeInit DEF ServedInit
  <1>2. FrameInv /\ TypeOK /\ Unsplit /\ Unsplit' /\ [Next]_vars
            => FrameInv' /\ TypeOK'
    BY UnsplitWhole, FrameStep, TypeStep
  <1>3. FrameInv /\ TypeOK => RequestsIntact
    BY FramesArePrefix
  <1> QED
    BY <1>1, <1>2, <1>3, PTL DEF ServedSpec

----------------------------------------------------------------------------
(* A FIFO with room for every request.                                     *)

\* The request FIFO holds what all clients together can ever write.
Roomy ==
    /\ IsFiniteSet(Clients)
    /\ Cardinality(Clients) * MaxCalls * FrameLen <= ReqRoom

\* Where a client is between the start of an operation and its request.
Unwritten == {"lock", "openR", "openW", "openQ", "write", "sendOpen",
              "sendWrite"}

\* The operations are numbered from 1 on, by the client that starts them.
Numbered ==
    \A c \in Clients : /\ cur[c].from = c
                       /\ pc[c] \in Unwritten => cur[c].seq >= 1

\* A request is written after its operation began, and once.
SentOnce ==
    /\ \A i \in 1..Len(sent) :
           /\ sent[i].seq \in 1..cur[sent[i].from].seq
           /\ pc[sent[i].from] \in Unwritten =>
                  sent[i].seq # cur[sent[i].from].seq
    /\ \A i, j \in 1..Len(sent) :
           sent[i].from = sent[j].from /\ sent[i].seq = sent[j].seq => i = j

RoomInv == Unsplit /\ Len(req) <= Len(sent) * FrameLen /\ Numbered /\ SentOnce

\* Nothing was written at the start.
LEMMA RoomInit == Init => RoomInv
  <1> SUFFICES ASSUME Init PROVE RoomInv
    OBVIOUS
  <1>1. Len(sent) = 0 /\ Len(req) = 0 /\ 1..0 = {}
    BY EmptySeq DEF Init
  <1>2. FrameLen \in Nat /\ 0 <= 0 * FrameLen
    BY FrameAssumption DEF FrameLen
  <1>3. Unsplit
    BY DEF Init, Unsplit, Writing
  <1>4. Numbered
    BY DEF Init, Numbered, Unwritten, NoMessage
  <1>5. SentOnce
    BY <1>1 DEF SentOnce
  <1> QED
    BY <1>1, <1>2, <1>3, <1>4, <1>5 DEF RoomInv

\* There are no more requests than operations, so one that is about to be
\* written finds room for all of it.
LEMMA RoomForAll ==
    ASSUME Roomy, TypeOK, RoomInv
    PROVE  WholeWrites
  <1> SUFFICES ASSUME NEW c \in Clients, WriteRequest(c)
               PROVE  Written(c) = Len(out[c])
    BY DEF WholeWrites
  <1> DEFINE n == Len(sent) + 1
             place == [i \in 1..n |-> IF i = n THEN <<c, cur[c].seq>>
                                      ELSE <<sent[i].from, sent[i].seq>>]
  <1>1. pc[c] \in Writing /\ pc[c] \in Unwritten /\ cur[c] \in Message
    BY DEF WriteRequest, Writing, Unwritten, TypeOK, ClientOK
  <1>2. out[c] = Frame(cur[c]) /\ Len(out[c]) = FrameLen /\ FrameLen \in Nat
    BY <1>1, FrameUnits DEF RoomInv, Unsplit
  <1>3. /\ Len(sent) \in Nat
        /\ \A i \in 1..Len(sent) : sent[i] \in Message
    BY ElementOfSeq, LenProperties DEF TypeOK, HistoryOK
  <1>4. \A i \in 1..Len(sent) : /\ sent[i].from \in Clients
                                /\ sent[i].seq \in 1..MaxCalls
    <2> TAKE i \in 1..Len(sent)
    <2>1. sent[i] \in Message /\ sent[i].from \in Clients
      BY <1>3 DEF Message
    <2>2. cur[sent[i].from].seq \in 0..MaxCalls
      BY <2>1 DEF TypeOK, ClientOK, Message
    <2> QED
      BY <2>1, <2>2, BoundsAssumption DEF RoomInv, SentOnce
  <1>5. cur[c].seq \in 1..MaxCalls
    BY <1>1, BoundsAssumption DEF RoomInv, Numbered, Message
  <1>6. place \in [1..n -> Clients \X (1..MaxCalls)]
    BY <1>3, <1>4, <1>5
  <1>7. ASSUME NEW i \in 1..n, NEW j \in 1..n, place[i] = place[j]
        PROVE  i = j
    <2>1. ASSUME NEW k \in 1..Len(sent)
          PROVE  <<sent[k].from, sent[k].seq>> # <<c, cur[c].seq>>
      BY <1>1 DEF RoomInv, SentOnce
    <2>2. \A k \in 1..n : k = n \/ k \in 1..Len(sent)
      BY <1>3
    <2>3. \A k \in 1..n : k # n => place[k] = <<sent[k].from, sent[k].seq>>
      OBVIOUS
    <2>4. place[n] = <<c, cur[c].seq>>
      BY <1>3
    <2>5. ASSUME i # n, j # n PROVE i = j
      BY <1>7, <2>2, <2>3, <2>5 DEF RoomInv, SentOnce
    <2> HIDE DEF place
    <2>6. ASSUME NEW k \in 1..n, k # n PROVE place[k] # place[n]
      BY <2>1, <2>2, <2>3, <2>4, <2>6
    <2>7. n \in 1..n
      BY <1>3
    <2> QED
      BY <1>7, <2>5, <2>6, <2>7, Zenon
  <1>8. place \in Injection(1..n, Clients \X (1..MaxCalls))
    <2> HIDE DEF place
    <2> QED
      BY <1>6, <1>7 DEF Injection, IsInjective
  <1> HIDE DEF place
  <1>9. /\ IsFiniteSet(1..n) /\ Cardinality(1..n) = n
        /\ IsFiniteSet(1..MaxCalls) /\ Cardinality(1..MaxCalls) = MaxCalls
    BY <1>3, FS_Interval, BoundsAssumption
  <1>10. /\ IsFiniteSet(Clients) /\ Cardinality(Clients) \in Nat
         /\ IsFiniteSet(Clients \X (1..MaxCalls))
         /\ Cardinality(Clients \X (1..MaxCalls))
                = Cardinality(Clients) * MaxCalls
    BY <1>9, FS_Product, FS_CardinalityType DEF Roomy
  <1>11. n <= Cardinality(Clients) * MaxCalls
    BY <1>8, <1>9, <1>10, FS_Injection
  <1>12. n * FrameLen <= ReqRoom
    <2>1. PICK k \in Nat : k = Cardinality(Clients) * MaxCalls
      BY <1>10, BoundsAssumption
    <2>2. n \in Nat /\ n <= k /\ k * FrameLen <= ReqRoom
      BY <1>3, <1>11, <2>1 DEF Roomy
    <2>3. n * FrameLen <= k * FrameLen
      BY <1>2, <2>2
    <2> QED
      BY <1>2, <2>2, <2>3, FrameAssumption
  <1>13. Len(req) + FrameLen <= ReqRoom /\ Len(req) \in Nat
    <2>1. n * FrameLen = Len(sent) * FrameLen + FrameLen
          /\ Len(sent) * FrameLen \in Nat
      BY <1>2, <1>3
    <2>2. Len(req) \in Nat /\ Len(req) <= Len(sent) * FrameLen
      BY LenProperties DEF RoomInv, TypeOK, SharedOK
    <2> QED
      BY <1>2, <1>12, <2>1, <2>2, FrameAssumption
  <1> QED
    <2>1. ReqRoom \in Nat
      BY FrameAssumption
    <2>2. ~(Len(out[c]) < ReqRoom - Len(req)) => Len(out[c]) = ReqRoom - Len(req)
      BY <1>2, <1>13, <2>1
    <2> QED
      BY <2>2 DEF Written

\* Nothing is put into the request FIFO.
Shorter == Len(req') \in Nat /\ Len(req') <= Len(req)

\* A FIFO that is left alone or emptied is no longer than before.
LEMMA ShorterKept ==
    ASSUME TypeOK, req' = req \/ req' = <<>>
    PROVE  Shorter
  BY LenProperties, EmptySeq DEF TypeOK, SharedOK, Shorter

\* A read takes from the FIFO.
LEMMA ShorterRead ==
    ASSUME TypeOK, NEW need \in Nat, Len(dgot) < need, req # <<>>,
           req' = Rest(req, dgot, need)
    PROVE  Shorter
  <1>1. req \in Seq(Unit) /\ dgot \in Seq(Unit)
    BY DEF TypeOK, SharedOK, DaemonOK
  <1>2. Took(req, dgot, need) \in 1..Len(req) /\ Len(req) \in Nat
    BY <1>1, EmptySeq, LenProperties DEF Took
  <1>3. Len(Rest(req, dgot, need)) = Len(req) - Took(req, dgot, need)
    BY <1>1, <1>2, SubSeqProperties DEF Rest
  <1> QED
    BY <1>2, <1>3 DEF Shorter

\* The requests written are messages of clients.
LEMMA SentType ==
    ASSUME TypeOK, NEW i \in 1..Len(sent)
    PROVE  /\ sent[i] \in Message /\ sent[i].from \in Clients
           /\ sent[i].seq \in 0..MaxCalls
  <1>1. sent[i] \in Message
    BY ElementOfSeq DEF TypeOK, HistoryOK
  <1> QED
    BY <1>1 DEF Message

\* Steps that begin no operation, write no request and take none back.
LEMMA RoomStays ==
    ASSUME TypeOK, RoomInv, Unsplit', sent' = sent, cur' = cur,
           \A d \in Clients : pc'[d] \in Unwritten => pc[d] \in Unwritten,
           Shorter
    PROVE  RoomInv'
  <1>1. Len(req') <= Len(req) /\ Len(req) \in Nat /\ Len(req') \in Nat
    BY LenProperties DEF Shorter, TypeOK, SharedOK
  <1>2. Len(req') <= Len(sent') * FrameLen
    <2>1. FrameLen \in Nat /\ Len(sent) \in Nat
      BY FrameAssumption, LenProperties DEF FrameLen, TypeOK, HistoryOK
    <2>2. PICK x \in Nat : x = Len(sent) * FrameLen
      BY <2>1
    <2>3. Len(req) <= x
      BY <2>2 DEF RoomInv
    <2>4. Len(req') <= x
      BY <1>1, <2>3
    <2> QED
      BY <2>2, <2>4
  <1>3. Numbered'
    BY DEF RoomInv, Numbered
  <1>4. SentOnce'
    <2>1. \A i \in 1..Len(sent) : sent[i].from \in Clients
      BY SentType
    <2> QED
      BY <2>1 DEF RoomInv, SentOnce
  <1> QED
    BY <1>2, <1>3, <1>4 DEF RoomInv

\* A new operation has a number of its own.
LEMMA RoomStart ==
    ASSUME TypeOK, RoomInv, Unsplit', NEW c \in Clients,
           StartCall(c) \/ StartSend(c)
    PROVE  RoomInv'
  <1>1. /\ UNCHANGED <<sent, req>>
        /\ cur'[c].from = c /\ cur'[c].seq = cur[c].seq + 1
        /\ \A d \in Clients \ {c} : cur'[d] = cur[d] /\ pc'[d] = pc[d]
    BY DEF StartCall, StartSend, shared, history, TypeOK, ClientOK, Goto
  <1>2. \A d \in Clients : cur[d].seq \in Nat
    BY DEF TypeOK, ClientOK, Message
  <1>3. Numbered'
    BY <1>1, <1>2 DEF RoomInv, Numbered
  <1>4. SentOnce'
    <2>1. ASSUME NEW i \in 1..Len(sent)
          PROVE  /\ sent[i].seq \in 1..cur'[sent[i].from].seq
                 /\ pc'[sent[i].from] \in Unwritten =>
                        sent[i].seq # cur'[sent[i].from].seq
      <3>1. sent[i] \in Message /\ sent[i].from \in Clients
        BY SentType
      <3>2. sent[i].seq \in 1..cur[sent[i].from].seq
        BY DEF RoomInv, SentOnce
      <3>3. CASE sent[i].from = c
        BY <1>1, <1>2, <3>1, <3>2, <3>3
      <3>4. CASE sent[i].from # c
        BY <1>1, <3>1, <3>2, <3>4 DEF RoomInv, SentOnce
      <3> QED
        BY <3>3, <3>4
    <2> QED
      BY <1>1, <2>1 DEF RoomInv, SentOnce
  <1> QED
    BY <1>1, <1>3, <1>4 DEF RoomInv

\* A request written whole is the one of its number.
LEMMA RoomWrite ==
    ASSUME TypeOK, RoomInv, Unsplit', WholeWrites, NEW c \in Clients,
           WriteRequest(c)
    PROVE  RoomInv'
  <1> DEFINE s == Len(sent)
             f == Frame(cur[c])
  <1>1. /\ pc[c] \in Writing /\ cur[c] \in Message
        /\ req' \in AfterClose(req \o f, RequestEnds(c))
        /\ sent' = Append(sent, cur[c])
        /\ pc' = [pc EXCEPT ![c] = IF At(c, "write") THEN "hdr" ELSE "idle"]
        /\ cur' = cur
    BY WholeWrite DEF RoomInv, WholeWrites
  <1>2. /\ s \in Nat /\ Len(sent') = s + 1 /\ sent'[s + 1] = cur[c]
        /\ \A i \in 1..s : sent'[i] = sent[i] /\ sent[i].from \in Clients
    BY <1>1, AppendProperties, LenProperties, SentType DEF TypeOK, HistoryOK
  <1>3. /\ pc[c] \in Unwritten /\ pc'[c] \notin Unwritten
        /\ \A d \in Clients : pc'[d] \in Unwritten => pc[d] \in Unwritten
    BY <1>1 DEF Unwritten, Writing, TypeOK, ClientOK
  <1>4. /\ cur[c].from = c /\ cur[c].seq \in Nat /\ cur[c].seq >= 1
    BY <1>1, <1>3 DEF RoomInv, Numbered, Message
  <1>5. Len(req') <= Len(sent') * FrameLen
    <2>1. FrameLen \in Nat /\ f \in Seq(Unit) /\ Len(f) = FrameLen
          /\ req \in Seq(Unit)
      BY <1>1, FrameUnits DEF TypeOK, SharedOK
    <2> HIDE DEF f
    <2>2. Len(req \o f) = Len(req) + FrameLen /\ Len(req) \in Nat
      BY <2>1, ConcatProperties, LenProperties
    <2>3. PICK x \in Nat : x = s * FrameLen
      BY <1>2, <2>1
    <2>4. Len(sent') * FrameLen = x + FrameLen
      BY <1>2, <2>1, <2>3
    <2>5. Len(req) <= x
      BY <2>3 DEF RoomInv
    <2>6. req' = req \o f \/ req' = <<>>
      BY <1>1 DEF AfterClose
    <2> QED
      BY <2>1, <2>2, <2>4, <2>5, <2>6, EmptySeq
  <1>6. Numbered'
    BY <1>1, <1>3 DEF RoomInv, Numbered
  <1>7. SentOnce'
    <2>1. \A i \in 1..Len(sent') : i \in 1..s \/ i = s + 1
      BY <1>2
    <2> HIDE DEF s
    <2>2. ASSUME NEW i \in 1..s
          PROVE  /\ sent[i].seq \in 1..cur[sent[i].from].seq
                 /\ pc'[sent[i].from] \in Unwritten =>
                        sent[i].seq # cur[sent[i].from].seq
                 /\ sent[i].from = c => sent[i].seq # cur[c].seq
      BY <1>2, <1>3, <1>4 DEF RoomInv, SentOnce, s
    <2>3. ASSUME NEW i \in 1..Len(sent')
          PROVE  /\ sent'[i].seq \in 1..cur'[sent'[i].from].seq
                 /\ pc'[sent'[i].from] \in Unwritten =>
                        sent'[i].seq # cur'[sent'[i].from].seq
      <3>1. CASE i \in 1..s
        BY <1>1, <1>2, <2>2, <3>1
      <3>2. CASE i = s + 1
        BY <1>1, <1>2, <1>3, <1>4, <3>2
      <3> QED
        BY <2>1, <3>1, <3>2
    <2>4. ASSUME NEW i \in 1..Len(sent'), NEW j \in 1..Len(sent'),
                 sent'[i].from = sent'[j].from, sent'[i].seq = sent'[j].seq
          PROVE  i = j
      <3>1. CASE i \in 1..s /\ j \in 1..s
        BY <1>2, <2>4, <3>1 DEF RoomInv, SentOnce, s
      <3>2. ~(i \in 1..s /\ j = s + 1) /\ ~(j \in 1..s /\ i = s + 1)
        BY <1>2, <1>4, <2>2, <2>4
      <3> QED
        BY <2>1, <3>1, <3>2
    <2> QED
      BY <2>3, <2>4 DEF SentOnce
  <1> QED
    BY <1>5, <1>6, <1>7 DEF RoomInv

\* The invariant is inductive when the FIFO is roomy.
LEMMA RoomStep ==
    ASSUME Roomy, TypeOK, RoomInv, [Next]_vars
    PROVE  RoomInv' /\ WholeWrites
  <1> USE DEF At, Goto
  <1>1. WholeWrites
    BY RoomForAll
  <1>2. Unsplit'
    BY <1>1, UnsplitStep DEF RoomInv
  <1>3. ASSUME NEW c \in Clients, StartCall(c) \/ StartSend(c) PROVE RoomInv'
    BY <1>2, <1>3, RoomStart
  <1>4. ASSUME NEW c \in Clients, WriteRequest(c) PROVE RoomInv'
    BY <1>1, <1>2, <1>4, RoomWrite
  <1>5. ASSUME NEW c \in Clients,
               \/ LockTaken(c) \/ LockBusy(c) \/ OpenReader(c)
               \/ OpenSelfWriter(c) \/ OpenRequest(c) \/ WriteFails(c)
               \/ RecvHeader(c) \/ RecvPayload(c) \/ RecvNothing(c)
               \/ CloseReader(c) \/ CloseSelfWriter(c) \/ LockRelease(c)
               \/ KillClient(c)
        PROVE  RoomInv'
    <2>1. sent' = sent /\ cur' = cur /\ (req' = req \/ req' = <<>>)
      BY <1>5 DEF LockTaken, LockBusy, OpenReader, OpenSelfWriter, WriteFails,
                  OpenRequest, RecvHeader, RecvPayload, RecvNothing,
                  CloseReader, CloseSelfWriter, LockRelease, KillClient,
                  history, shared, AfterClose
    <2>2. \/ pc' = pc
          \/ \E to \in ClientPCs :
                 /\ pc' = [pc EXCEPT ![c] = to]
                 /\ to \in Unwritten => pc[c] \in Unwritten
      BY <1>5 DEF LockTaken, LockBusy, OpenReader, OpenSelfWriter, WriteFails,
                  OpenRequest, RecvHeader, RecvPayload, RecvNothing,
                  CloseReader, CloseSelfWriter, LockRelease, KillClient,
                  ClientPCs, Holding, Unwritten
    <2>3. \A d \in Clients : pc'[d] \in Unwritten => pc[d] \in Unwritten
      BY <2>2 DEF TypeOK, ClientOK
    <2> QED
      BY <1>2, <2>1, <2>3, RoomStays, ShorterKept
  <1>6. CASE DaemonRecvHeader
    <2>1. /\ sent' = sent /\ cur' = cur /\ pc' = pc /\ Len(dgot) < HdrLen
          /\ req # <<>> /\ req' = Rest(req, dgot, HdrLen)
      BY <1>6 DEF DaemonRecvHeader, client, history, TypeOK, DaemonOK
    <2>2. Shorter
      BY <2>1, ShorterRead, FrameAssumption
    <2>3. \A d \in Clients : pc'[d] \in Unwritten => pc[d] \in Unwritten
      BY <2>1
    <2> QED
      BY <1>1, <1>2, <2>1, <2>2, <2>3, RoomStays
  <1>7. CASE DaemonRecvPayload
    <2>1. /\ sent' = sent /\ cur' = cur /\ pc' = pc /\ Len(dgot) < PayLen
          /\ req # <<>> /\ req' = Rest(req, dgot, PayLen)
      BY <1>7 DEF DaemonRecvPayload, client, history, TypeOK, DaemonOK
    <2>2. Shorter
      BY <2>1, ShorterRead, FrameAssumption
    <2>3. \A d \in Clients : pc'[d] \in Unwritten => pc[d] \in Unwritten
      BY <2>1
    <2> QED
      BY <1>1, <1>2, <2>1, <2>2, <2>3, RoomStays
  <1>8. CASE \/ DaemonListen \/ DaemonHandled \/ DaemonReply
             \/ DaemonReplyClose \/ KillDaemon
    <2>1. /\ sent' = sent /\ cur' = cur /\ pc' = pc
          /\ req' = req \/ req' = <<>>
      BY <1>8 DEF DaemonListen, DaemonHandled, DaemonReply, DaemonReplyClose,
                  KillDaemon, AfterClose, client, history, shared
    <2>2. \A d \in Clients : pc'[d] \in Unwritten => pc[d] \in Unwritten
      BY <2>1
    <2> QED
      BY <1>1, <1>2, <2>1, <2>2, RoomStays, ShorterKept
  <1>9. CASE UNCHANGED vars
    <2>1. sent' = sent /\ cur' = cur /\ pc' = pc /\ req' = req
      BY <1>9 DEF vars, shared, client, history
    <2>2. \A d \in Clients : pc'[d] \in Unwritten => pc[d] \in Unwritten
      BY <2>1
    <2> QED
      BY <1>1, <1>2, <2>1, <2>2, RoomStays, ShorterKept
  <1> QED
    BY <1>1, <1>3, <1>4, <1>5, <1>6, <1>7, <1>8, <1>9
       DEF Next, ClientStep, DaemonStep

\* In a FIFO with room for every request, the daemon takes in the requests
\* that were written, each one whole and once and in their order, although
\* the senders take no lock.
THEOREM RequestsFit ==
    ASSUME Roomy
    PROVE  ServedSpec => []RequestsIntact
  <1>1. ServedInit => FrameInv /\ TypeOK /\ RoomInv
    BY FrameInit, TypeInit, RoomInit DEF ServedInit
  <1>2. FrameInv /\ TypeOK /\ RoomInv /\ [Next]_vars
            => FrameInv' /\ TypeOK' /\ RoomInv'
    BY RoomStep, FrameStep, TypeStep DEF RoomInv
  <1>3. FrameInv /\ TypeOK => RequestsIntact
    BY FramesArePrefix
  <1> QED
    BY <1>1, <1>2, <1>3, PTL DEF ServedSpec

----------------------------------------------------------------------------
(* The replies, when every caller waits without a timeout.                 *)

Replying == {"replyHdr", "replyPay", "replyClose"}

\* Where a client may be after its call returned a reply.
Returned == {"closeR", "closeW", "unlock", "idle", "killed"}

\* A caller that waits for a reply holds both ends of the reply FIFO, the
\* daemon holds its end only to reply, and it replies only to calls.
EndsInv ==
    /\ \A c \in Clients :
           /\ timeout[c] = 0
           /\ pc[c] \in {"openQ", "write", "hdr", "pay"} =>
                  c \in readers /\ c \in writers
           /\ pc[c] \in {"sendOpen", "sendWrite"} => cur[c].kind = "send"
           /\ rc[c] = "ok" => pc[c] \in Returned
    /\ Daemon \in writers => dpc \in Replying
    /\ dpc \in Replying => dreq.kind = "call"

\* Nobody waits at the start.
LEMMA EndsInit == Init => EndsInv
  BY DEF Init, EndsInv, Replying

\* The invariant is inductive when nobody gives a timeout.
LEMMA EndsStep ==
    ASSUME Timeouts \subseteq {0}, TypeOK, EndsInv, [Next]_vars
    PROVE  EndsInv'
  <1> USE DEF At, Goto, Return
  <1>1. ASSUME NEW c \in Clients,
               /\ \A d \in Clients \ {c} :
                      /\ timeout'[d] = timeout[d] /\ pc'[d] = pc[d]
                      /\ cur'[d] = cur[d] /\ rc'[d] = rc[d]
                      /\ d \in readers => d \in readers'
                      /\ d \in writers => d \in writers'
               /\ timeout'[c] = 0
               /\ pc'[c] \in {"openQ", "write", "hdr", "pay"} =>
                      c \in readers' /\ c \in writers'
               /\ pc'[c] \in {"sendOpen", "sendWrite"} => cur'[c].kind = "send"
               /\ rc'[c] = "ok" => pc'[c] \in Returned
               /\ Daemon \in writers' => Daemon \in writers
               /\ dpc' = dpc /\ dreq' = dreq
        PROVE  EndsInv'
    BY <1>1 DEF EndsInv
  <1>2. ASSUME NEW c \in Clients, StartCall(c) \/ StartSend(c)
        PROVE  EndsInv'
    <2>1. timeout'[c] = 0
      <3>1. CASE StartCall(c)
        BY <3>1 DEF StartCall, TypeOK, ClientOK
      <3>2. CASE StartSend(c)
        BY <3>2 DEF StartSend, EndsInv
      <3> QED
        BY <1>2, <3>1, <3>2
    <2>2. /\ \A d \in Clients \ {c} :
                 /\ timeout'[d] = timeout[d] /\ pc'[d] = pc[d]
                 /\ cur'[d] = cur[d] /\ rc'[d] = rc[d]
          /\ rc'[c] = "none" /\ pc'[c] \in {"lock", "sendOpen"}
          /\ pc'[c] = "sendOpen" => cur'[c].kind = "send"
          /\ readers' = readers /\ writers' = writers
          /\ dpc' = dpc /\ dreq' = dreq
      BY <1>2 DEF StartCall, StartSend, TypeOK, ClientOK, shared, daemon
    <2> QED
      BY <1>1, <2>1, <2>2
  <1>3. ASSUME NEW c \in Clients,
               \/ LockTaken(c) \/ LockBusy(c) \/ OpenReader(c)
               \/ OpenSelfWriter(c) \/ OpenRequest(c)
               \/ WriteRequest(c) \/ WriteFails(c)
        PROVE  EndsInv'
    <2>1. /\ timeout' = timeout /\ cur' = cur /\ dpc' = dpc /\ dreq' = dreq
          /\ readers \subseteq readers' /\ writers \subseteq writers'
          /\ writers' \subseteq writers \cup {c}
      BY <1>3 DEF LockTaken, LockBusy, OpenReader, OpenSelfWriter, OpenRequest,
                  WriteRequest, WriteFails, Opened, shared, daemon
    <2>2. \A d \in Clients \ {c} : pc'[d] = pc[d] /\ rc'[d] = rc[d]
      BY <1>3 DEF LockTaken, LockBusy, OpenReader, OpenSelfWriter, OpenRequest,
                  WriteRequest, WriteFails, TypeOK, ClientOK
    <2>3. /\ pc'[c] \in {"openQ", "write", "hdr", "pay"} =>
                 c \in readers' /\ c \in writers'
          /\ pc'[c] \in {"sendOpen", "sendWrite"} =>
                 pc[c] \in {"sendOpen", "sendWrite"}
          /\ rc'[c] = "ok" => pc'[c] \in Returned
      <3>1. CASE LockTaken(c) \/ LockBusy(c)
        BY <3>1 DEF LockTaken, LockBusy, TypeOK, ClientOK, EndsInv, Returned
      <3>2. CASE OpenReader(c)
        BY <3>2 DEF OpenReader, TypeOK, ClientOK, EndsInv, Returned
      <3>3. CASE OpenSelfWriter(c)
        BY <3>3 DEF OpenSelfWriter, TypeOK, ClientOK, EndsInv, Returned
      <3>4. CASE OpenRequest(c)
        BY <3>4 DEF OpenRequest, TypeOK, ClientOK, EndsInv, Returned, shared
      <3>5. CASE WriteRequest(c)
        BY <3>5 DEF WriteRequest, TypeOK, ClientOK, EndsInv, Returned
      <3>6. CASE WriteFails(c)
        BY <3>6 DEF WriteFails, TypeOK, ClientOK, EndsInv, Returned
      <3> QED
        BY <1>3, <3>1, <3>2, <3>3, <3>4, <3>5, <3>6
    <2>4. timeout'[c] = 0 /\ Daemon # c
      BY <2>1, ClientsAssumption DEF EndsInv
    <2> QED
      BY <1>1, <2>1, <2>2, <2>3, <2>4 DEF EndsInv
  <1>4. ASSUME NEW c \in Clients,
               \/ RecvHeader(c) \/ RecvPayload(c) \/ RecvNothing(c)
               \/ CloseReader(c) \/ CloseSelfWriter(c) \/ LockRelease(c)
               \/ KillClient(c)
        PROVE  EndsInv'
    <2>1. /\ timeout' = timeout /\ cur' = cur /\ dpc' = dpc /\ dreq' = dreq
          /\ writers' \subseteq writers
          /\ \A d \in Clients \ {c} : /\ d \in readers => d \in readers'
                                      /\ d \in writers => d \in writers'
      BY <1>4 DEF RecvHeader, RecvPayload, RecvNothing, CloseReader,
                  CloseSelfWriter, LockRelease, KillClient, shared, daemon
    <2>2. \A d \in Clients \ {c} : pc'[d] = pc[d] /\ rc'[d] = rc[d]
      BY <1>4 DEF RecvHeader, RecvPayload, RecvNothing, CloseReader,
                  CloseSelfWriter, LockRelease, KillClient, TypeOK, ClientOK
    <2>3. /\ pc'[c] \in {"openQ", "write", "hdr", "pay"} =>
                 c \in readers' /\ c \in writers'
          /\ pc'[c] \notin {"sendOpen", "sendWrite"}
          /\ rc'[c] = "ok" => pc'[c] \in Returned
      <3>1. CASE RecvHeader(c)
        BY <3>1 DEF RecvHeader, TypeOK, ClientOK, EndsInv, Returned
      <3>2. CASE RecvPayload(c)
        BY <3>2 DEF RecvPayload, TypeOK, ClientOK, EndsInv, Returned
      <3>3. CASE RecvNothing(c)
        BY <3>3 DEF RecvNothing, TypeOK, ClientOK, EndsInv, Returned, shared
      <3>4. CASE CloseReader(c) \/ CloseSelfWriter(c)
        BY <3>4 DEF CloseReader, CloseSelfWriter, TypeOK, ClientOK, EndsInv,
                    Returned
      <3>5. CASE LockRelease(c) \/ KillClient(c)
        BY <3>5 DEF LockRelease, KillClient, TypeOK, ClientOK, EndsInv, Returned
      <3> QED
        BY <1>4, <3>1, <3>2, <3>3, <3>4, <3>5
    <2>4. timeout'[c] = 0
      BY <2>1 DEF EndsInv
    <2> QED
      BY <1>1, <2>1, <2>2, <2>3, <2>4
  <1>5. CASE DaemonStep \/ KillDaemon
    <2>1. /\ UNCHANGED <<client, readers>>
          /\ \A d \in Clients : d \in writers => d \in writers'
      BY <1>5, ClientsAssumption
         DEF DaemonStep, DaemonListen, DaemonRecvHeader, DaemonRecvPayload,
             DaemonHandled, DaemonReply, DaemonReplyClose, KillDaemon, Opened,
             shared
    <2>2. /\ Daemon \in writers' => dpc' \in Replying
          /\ dpc' \in Replying => dreq'.kind = "call"
      <3>1. CASE DaemonListen \/ DaemonRecvHeader \/ DaemonRecvPayload
        BY <3>1 DEF DaemonListen, DaemonRecvHeader, DaemonRecvPayload,
                    EndsInv, Replying, shared
      <3>2. CASE DaemonHandled
        BY <3>2 DEF DaemonHandled, EndsInv, Replying
      <3>3. CASE DaemonReply
        BY <3>3 DEF DaemonReply, EndsInv, Replying
      <3>4. CASE DaemonReplyClose \/ KillDaemon
        BY <3>4 DEF DaemonReplyClose, KillDaemon, Replying
      <3> QED
        BY <1>5, <3>1, <3>2, <3>3, <3>4 DEF DaemonStep
    <2> QED
      BY <2>1, <2>2 DEF EndsInv, client
  <1>6. CASE UNCHANGED vars
    BY <1>6 DEF EndsInv, vars, shared, client, daemon
  <1> QED
    BY <1>2, <1>3, <1>4, <1>5, <1>6 DEF Next, ClientStep

\* The operation m waits for the first byte of its reply.
Asking(m) ==
    /\ pc[m.from] = "hdr" /\ cur[m.from] = m
    /\ got[m.from] = <<>> /\ rep = <<>>

NoCall == \A i \in 1..Len(Stream) : Stream[i].msg.kind # "call"

\* From any unit on, the rest of its frame follows.
Contiguous ==
    \A i \in 1..Len(Stream), n \in 0..FrameLen :
        Stream[i].pos + n <= FrameLen =>
            /\ i + n <= Len(Stream)
            /\ Stream[i + n] = [msg |-> Stream[i].msg, pos |-> Stream[i].pos + n]

\* The units of a call are there once each, in their order.
InOrder ==
    \A i, j \in 1..Len(Stream) :
        i < j /\ Stream[i].msg = Stream[j].msg /\ Stream[i].msg.kind = "call"
            => Stream[i].pos < Stream[j].pos

\* The daemon reads the payload that belongs to the header it has.
PayNext ==
    dpc = "pay" => Stream # <<>> /\ Stream[1] = [msg |-> dreq, pos |-> HdrLen + 1]

\* Who made a call that the daemon has not taken in yet waits for its reply,
\* and nothing of a reply is there.
Asked ==
    \A i \in 1..Len(Stream) :
        Stream[i].msg.kind = "call" => Asking(Stream[i].msg)

\* The same for a call the daemon works on, and there is no other.
Handled ==
    dpc \in {"work", "replyHdr"} /\ dreq.kind = "call" => Asking(dreq) /\ NoCall

\* Between its two writes, the daemon's caller has the header, or has it
\* before it, and nothing else.
Answering ==
    dpc = "replyPay" =>
        /\ NoCall /\ cur[dreq.from] = dreq
        /\ \/ /\ pc[dreq.from] = "hdr"
              /\ got[dreq.from] \o rep = Header(dreq)
           \/ /\ pc[dreq.from] = "pay"
              /\ got[dreq.from] = <<>> /\ rep = <<>>

\* What a waiting caller has and finds is nothing or its own reply, as far as
\* the daemon has written it; and bytes are there only for a waiting caller.
Arrived ==
    /\ \A c \in Clients :
           /\ pc[c] = "hdr" => got[c] \o rep \in {<<>>, Header(cur[c]),
                                                  Frame(cur[c])}
           /\ pc[c] = "pay" => got[c] \o rep \in {<<>>, Payload(cur[c])}
    /\ rep # <<>> => \E c \in Clients : pc[c] \in {"hdr", "pay"}

\* A killed lock holder leaves the lock behind, and no call follows.
CallInv ==
    ~orphaned => /\ Contiguous /\ InOrder /\ PayNext
                 /\ Asked /\ Handled /\ Answering /\ Arrived

\* The bytes of a message, part by part.
LEMMA MessageParts ==
    ASSUME NEW m \in Message
    PROVE  /\ Header(m) \in Seq(Unit) /\ Len(Header(m)) = HdrLen
           /\ \A i \in 1..HdrLen : Header(m)[i] = [msg |-> m, pos |-> i]
           /\ Payload(m) \in Seq(Unit) /\ Len(Payload(m)) = PayLen
           /\ \A i \in 1..PayLen : Payload(m)[i] = [msg |-> m, pos |-> HdrLen + i]
           /\ Header(m) \o Payload(m) = Frame(m)
           /\ Header(m) # <<>> /\ Payload(m) # <<>> /\ Frame(m) # <<>>
  <1> DEFINE f == Frame(m)
  <1>1. /\ HdrLen \in Nat \ {0} /\ PayLen \in Nat \ {0}
        /\ FrameLen = HdrLen + PayLen
    BY FrameAssumption DEF FrameLen
  <1>2. /\ f \in Seq(Unit) /\ Len(f) = FrameLen
        /\ \A p \in 1..FrameLen : f[p] = [msg |-> m, pos |-> p]
    BY FrameUnits
  <1>3. \A p \in 1..FrameLen : f[p] \in Unit
    BY <1>2, ElementOfSeq
  <1> HIDE DEF f
  <1>4. /\ SubSeq(f, 1, HdrLen) \in Seq(Unit)
        /\ Len(SubSeq(f, 1, HdrLen)) = HdrLen
        /\ \A i \in 1..HdrLen : SubSeq(f, 1, HdrLen)[i] = f[i]
    BY <1>1, <1>2, <1>3, SubSeqProperties
  <1>5. /\ SubSeq(f, HdrLen + 1, FrameLen) \in Seq(Unit)
        /\ Len(SubSeq(f, HdrLen + 1, FrameLen)) = PayLen
        /\ \A i \in 1..PayLen : SubSeq(f, HdrLen + 1, FrameLen)[i] = f[HdrLen + i]
    <2>1. \A i \in (HdrLen + 1)..FrameLen : f[i] \in Unit
      BY <1>1, <1>3
    <2>2. /\ SubSeq(f, HdrLen + 1, FrameLen) \in Seq(Unit)
          /\ Len(SubSeq(f, HdrLen + 1, FrameLen)) = FrameLen - (HdrLen + 1) + 1
          /\ \A i \in 1..(FrameLen - (HdrLen + 1) + 1) :
                 SubSeq(f, HdrLen + 1, FrameLen)[i] = f[(HdrLen + 1) + i - 1]
      BY <1>1, <2>1, SubSeqProperties
    <2> QED
      BY <1>1, <2>2
  <1>6. SubSeq(f, 1, HdrLen) \o SubSeq(f, HdrLen + 1, FrameLen) = f
    <2>1. /\ 1 \in 1..(Len(f) + 1) /\ HdrLen \in (1 - 1)..Len(f)
          /\ FrameLen \in HdrLen..Len(f)
      BY <1>1, <1>2
    <2>2. SubSeq(f, 1, HdrLen) \o SubSeq(f, HdrLen + 1, FrameLen)
              = SubSeq(f, 1, FrameLen)
      BY <1>2, <2>1, ConcatAdjacentSubSeq
    <2>3. SubSeq(f, 1, FrameLen) = f
      BY <1>2, SubSeqFull
    <2> QED
      BY <2>2, <2>3
  <1>7. /\ Header(m) = SubSeq(f, 1, HdrLen)
        /\ Payload(m) = SubSeq(f, HdrLen + 1, FrameLen)
    BY DEF Header, Payload, f, FrameLen
  <1>8. Header(m) # <<>> /\ Payload(m) # <<>> /\ f # <<>>
    <2>1. Len(Header(m)) # 0 /\ Len(Payload(m)) # 0 /\ Len(f) # 0
      <3>1. Len(Header(m)) = HdrLen /\ Len(Payload(m)) = PayLen
        BY <1>4, <1>5, <1>7, Zenon
      <3>2. Len(f) = HdrLen + PayLen
        BY <1>1, <1>2
      <3> HIDE DEF f
      <3> QED
        BY <1>1, <3>1, <3>2
    <2> QED
      BY <2>1, EmptySeq
  <1>9. /\ Header(m) \in Seq(Unit) /\ Len(Header(m)) = HdrLen
        /\ \A i \in 1..HdrLen : Header(m)[i] = [msg |-> m, pos |-> i]
    BY <1>1, <1>2, <1>4, <1>7
  <1>10. /\ Payload(m) \in Seq(Unit) /\ Len(Payload(m)) = PayLen
         /\ \A i \in 1..PayLen : Payload(m)[i] = [msg |-> m, pos |-> HdrLen + i]
    <2>1. \A i \in 1..PayLen : HdrLen + i \in 1..FrameLen
      BY <1>1
    <2> QED
      BY <1>2, <1>5, <1>7, <2>1
  <1> QED
    BY <1>6, <1>7, <1>8, <1>9, <1>10 DEF f

\* The units that are left when the first n are gone.
Left(n) ==
    /\ Len(Stream') = Len(Stream) - n
    /\ \A i \in 1..Len(Stream') : Stream'[i] = Stream[n + i]

Consumed == \E n \in 0..Len(Stream) : Left(n)

\* What is left of whole frames is whole and in order.
LEMMA ConsumedKeeps ==
    ASSUME TypeOK, Consumed
    PROVE  /\ Contiguous => Contiguous'
           /\ InOrder => InOrder'
           /\ NoCall => NoCall'
           /\ \A i \in 1..Len(Stream') :
                  \E j \in 1..Len(Stream) : Stream'[i] = Stream[j]
  <1> DEFINE s == Len(Stream)
             t == Len(Stream')
  <1>1. PICK n \in 0..s : Left(n)
    BY DEF Consumed
  <1>2. s \in Nat /\ n \in Nat /\ t = s - n /\ t \in Nat
    BY <1>1, StreamType DEF Left
  <1>3. \A i \in 1..t : n + i \in 1..s /\ Stream'[i] = Stream[n + i]
    BY <1>1, <1>2 DEF Left
  <1> HIDE DEF s, t
  <1>4. ASSUME Contiguous PROVE Contiguous'
    <2> SUFFICES ASSUME NEW i \in 1..t, NEW k \in 0..FrameLen,
                        Stream'[i].pos + k <= FrameLen
                 PROVE  /\ i + k <= t
                        /\ Stream'[i + k] = [msg |-> Stream'[i].msg,
                                             pos |-> Stream'[i].pos + k]
      BY DEF Contiguous, t, FrameLen
    <2>1. /\ n + i \in 1..s /\ Stream'[i] = Stream[n + i]
      BY <1>3
    <2>2. /\ (n + i) + k <= s
          /\ Stream[(n + i) + k] = [msg |-> Stream[n + i].msg,
                                    pos |-> Stream[n + i].pos + k]
      BY <1>4, <2>1 DEF Contiguous, s
    <2>3. FrameLen \in Nat
      BY FrameAssumption DEF FrameLen
    <2>4. i + k \in 1..t /\ n + (i + k) = (n + i) + k
      BY <1>2, <2>2, <2>3
    <2>5. Stream'[i + k] = Stream[(n + i) + k]
      BY <1>3, <2>4
    <2> QED
      BY <1>2, <2>1, <2>2, <2>4, <2>5
  <1>5. ASSUME InOrder PROVE InOrder'
    <2> SUFFICES ASSUME NEW i \in 1..t, NEW j \in 1..t, i < j,
                        Stream'[i].msg = Stream'[j].msg,
                        Stream'[i].msg.kind = "call"
                 PROVE  Stream'[i].pos < Stream'[j].pos
      BY DEF InOrder, t
    <2>1. n + i \in 1..s /\ n + j \in 1..s /\ n + i < n + j
      BY <1>2, <1>3
    <2> QED
      BY <1>3, <1>5, <2>1 DEF InOrder, s
  <1>6. \A i \in 1..t : \E j \in 1..s : Stream'[i] = Stream[j]
    BY <1>3
  <1> QED
    BY <1>4, <1>5, <1>6 DEF NoCall, s, t

\* A frame behind whole frames leaves them whole, and in order if it is the
\* only one of its call.
LEMMA AppendedKeeps ==
    ASSUME TypeOK, NEW m \in Message, Stream' = Stream \o Frame(m),
           Contiguous, InOrder, m.kind = "call" => NoCall
    PROVE  /\ Contiguous' /\ InOrder'
           /\ \A i \in 1..Len(Stream') :
                  \/ \E j \in 1..Len(Stream) : Stream'[i] = Stream[j]
                  \/ Stream'[i].msg = m
           /\ Stream # <<>> => Stream' # <<>> /\ Stream'[1] = Stream[1]
  <1> DEFINE s == Len(Stream)
             t == Len(Stream')
             f == Frame(m)
  <1>1. /\ Stream \in Seq(Unit) /\ s \in Nat
        /\ FrameLen \in Nat \ {0} /\ f \in Seq(Unit) /\ Len(f) = FrameLen
        /\ \A p \in 1..FrameLen : f[p] = [msg |-> m, pos |-> p]
    BY StreamType, FrameUnits
  <1> HIDE DEF f
  <1>2. /\ t = s + FrameLen /\ Stream' \in Seq(Unit)
        /\ \A i \in 1..(s + FrameLen) :
               Stream'[i] = IF i <= s THEN Stream[i] ELSE f[i - s]
    BY <1>1, ConcatProperties DEF f
  <1>3. \A i \in 1..s : i \in 1..t /\ Stream'[i] = Stream[i]
    BY <1>1, <1>2
  <1>4. ASSUME NEW p \in 1..FrameLen
        PROVE  s + p \in 1..t /\ Stream'[s + p] = [msg |-> m, pos |-> p]
    <2>1. s + p \in 1..(s + FrameLen) /\ ~(s + p <= s) /\ (s + p) - s = p
      BY <1>1
    <2> QED
      BY <1>1, <1>2, <2>1
  <1>5. \A i \in 1..t : i \in 1..s \/ \E p \in 1..FrameLen : i = s + p
    <2> TAKE i \in 1..t
    <2>1. CASE i > s
      <3>1. i - s \in 1..FrameLen /\ i = s + (i - s)
        BY <1>1, <1>2, <2>1
      <3> QED
        BY <3>1
    <2> QED
      BY <1>1, <1>2, <2>1
  <1>6. \A i \in 1..s : Stream[i].pos \in Nat
    <2>1. \A i \in 1..s : Stream[i] \in Unit
      BY <1>1, ElementOfSeq
    <2> QED
      BY <2>1, FrameAssumption DEF Unit
  <1> HIDE DEF s, t
  <1>7. Contiguous'
    <2> SUFFICES ASSUME NEW i \in 1..t, NEW k \in 0..FrameLen,
                        Stream'[i].pos + k <= FrameLen
                 PROVE  /\ i + k <= t
                        /\ Stream'[i + k] = [msg |-> Stream'[i].msg,
                                             pos |-> Stream'[i].pos + k]
      BY DEF Contiguous, t, FrameLen
    <2>1. CASE i \in 1..s
      <3>1. /\ i + k <= s
            /\ Stream[i + k] = [msg |-> Stream[i].msg, pos |-> Stream[i].pos + k]
        BY <1>3, <2>1 DEF Contiguous, s
      <3>2. i + k \in 1..s
        BY <1>1, <2>1, <3>1
      <3>3. i + k <= t
        BY <1>1, <1>2, <2>1, <3>1
      <3>4. Stream'[i + k] = Stream[i + k] /\ Stream'[i] = Stream[i]
        BY <1>3, <2>1, <3>2
      <3> QED
        BY <3>1, <3>3, <3>4
    <2>2. ASSUME NEW p \in 1..FrameLen, i = s + p
          PROVE  /\ i + k <= t
                 /\ Stream'[i + k] = [msg |-> Stream'[i].msg,
                                      pos |-> Stream'[i].pos + k]
      <3>1. Stream'[i] = [msg |-> m, pos |-> p]
        BY <1>4, <2>2
      <3>2. p + k \in 1..FrameLen /\ i + k = s + (p + k)
        BY <1>1, <2>2, <3>1
      <3>3. Stream'[s + (p + k)] = [msg |-> m, pos |-> p + k]
        BY <1>4, <3>2
      <3>4. i + k <= t
        BY <1>1, <1>2, <3>2
      <3>5. Stream'[i + k] = [msg |-> m, pos |-> p + k]
        BY <3>2, <3>3, Zenon
      <3>6. Stream'[i].msg = m /\ Stream'[i].pos = p
        BY <3>1
      <3> QED
        BY <3>4, <3>5, <3>6, Zenon
    <2> QED
      BY <1>5, <2>1, <2>2
  <1>8. InOrder'
    <2> SUFFICES ASSUME NEW i \in 1..t, NEW j \in 1..t, i < j,
                        Stream'[i].msg = Stream'[j].msg,
                        Stream'[i].msg.kind = "call"
                 PROVE  Stream'[i].pos < Stream'[j].pos
      BY DEF InOrder, t
    <2>1. CASE i \in 1..s /\ j \in 1..s
      BY <1>3, <2>1 DEF InOrder, s
    <2>2. ASSUME i \in 1..s, NEW p \in 1..FrameLen, j = s + p PROVE FALSE
      <3>1. Stream'[i] = Stream[i] /\ Stream'[j] = [msg |-> m, pos |-> p]
        BY <1>3, <1>4, <2>2
      <3>2. Stream[i].msg = m /\ m.kind = "call"
        BY <3>1
      <3> QED
        BY <2>2, <3>2 DEF NoCall, s
    <2>3. ASSUME NEW p \in 1..FrameLen, i = s + p, j \in 1..s PROVE FALSE
      BY <1>1, <2>3
    <2>4. ASSUME NEW p \in 1..FrameLen, i = s + p,
                 NEW q \in 1..FrameLen, j = s + q
          PROVE  Stream'[i].pos < Stream'[j].pos
      <3>1. p < q
        BY <1>1, <2>4
      <3>2. /\ Stream'[i] = [msg |-> m, pos |-> p]
            /\ Stream'[j] = [msg |-> m, pos |-> q]
        BY <1>4, <2>4
      <3> QED
        BY <3>1, <3>2
    <2> QED
      BY <1>5, <2>1, <2>2, <2>3, <2>4
  <1>9. \A i \in 1..t : \/ \E j \in 1..s : Stream'[i] = Stream[j]
                        \/ Stream'[i].msg = m
    <2> TAKE i \in 1..t
    <2>1. CASE i \in 1..s
      BY <1>3, <2>1
    <2>2. ASSUME NEW p \in 1..FrameLen, i = s + p PROVE Stream'[i].msg = m
      <3>1. Stream'[i] = [msg |-> m, pos |-> p]
        BY <1>4, <2>2, Zenon
      <3> QED
        BY <3>1
    <2> QED
      BY <1>5, <2>1, <2>2
  <1>10. Stream # <<>> => Stream' # <<>> /\ Stream'[1] = Stream[1]
    <2> SUFFICES ASSUME Stream # <<>>
                 PROVE  Stream' # <<>> /\ Stream'[1] = Stream[1]
      OBVIOUS
    <2>1. 1 \in 1..s
      BY <1>1, EmptySeq DEF s
    <2>2. t # 0
      BY <1>1, <1>2
    <2> QED
      BY <1>2, <1>3, <2>1, <2>2, EmptySeq DEF t
  <1> QED
    BY <1>7, <1>8, <1>9, <1>10 DEF s, t

\* The parts of the unread stream.
LEMMA StreamUnit ==
    ASSUME TypeOK, NEW i \in 1..Len(Stream)
    PROVE  /\ Stream[i] \in Unit /\ Stream[i].msg \in Message
           /\ Stream[i].msg.from \in Clients /\ Stream[i].pos \in 1..FrameLen
  <1>1. Stream[i] \in Unit
    BY StreamType, ElementOfSeq
  <1>2. Stream[i].msg \in Message /\ Stream[i].pos \in 1..FrameLen
    BY <1>1 DEF Unit, FrameLen
  <1> QED
    BY <1>1, <1>2 DEF Message

\* Nothing is consumed, or everything.
LEMMA ConsumedEnds ==
    ASSUME TypeOK, Stream' = Stream \/ Stream' = <<>>
    PROVE  Consumed
  <1>1. Len(Stream) \in Nat
    BY StreamType
  <1>2. CASE Stream' = Stream
    <2>1. Left(0)
      BY <1>1, <1>2 DEF Left
    <2> QED
      BY <1>1, <2>1 DEF Consumed
  <1>3. CASE Stream' = <<>>
    <2>1. Len(Stream') = 0
      BY <1>3, EmptySeq
    <2>2. Left(Len(Stream))
      BY <1>1, <2>1 DEF Left
    <2> QED
      BY <1>1, <2>2 DEF Consumed
  <1> QED
    BY <1>2, <1>3

\* Asking, after the step.
AskingNext(m) ==
    /\ pc'[m.from] = "hdr" /\ cur'[m.from] = m
    /\ got'[m.from] = <<>> /\ rep' = <<>>

\* No new call is in the stream.
NoneNew ==
    \A i \in 1..Len(Stream') :
        \/ Stream'[i].msg.kind # "call"
        \/ \E j \in 1..Len(Stream) : Stream'[i] = Stream[j]

\* Callers that keep asking stay asked for.
LEMMA AskedKeeps ==
    ASSUME TypeOK, Asked, NoneNew,
           \A m \in Message : Asking(m) => AskingNext(m)
    PROVE  Asked'
  <1> SUFFICES ASSUME NEW i \in 1..Len(Stream'), Stream'[i].msg.kind = "call"
               PROVE  AskingNext(Stream'[i].msg)
    BY DEF Asked, Asking, AskingNext
  <1>1. PICK j \in 1..Len(Stream) : Stream'[i] = Stream[j]
    BY DEF NoneNew
  <1>2. Stream[j].msg \in Message /\ Asking(Stream[j].msg)
    BY <1>1, StreamUnit DEF Asked
  <1> QED
    BY <1>1, <1>2

\* A step in which no waiting caller takes part and the daemon neither takes
\* in a call nor replies.
LEMMA Aside ==
    ASSUME TypeOK, CallInv, ~orphaned, NEW c \in Clients,
           pc[c] \notin {"hdr", "pay"}, pc'[c] \notin {"hdr", "pay"},
           \A d \in Clients \ {c} : pc'[d] = pc[d] /\ cur'[d] = cur[d],
           got' = got, rep' = rep, dpc' = dpc, dreq' = dreq,
           NoneNew, Contiguous', InOrder', PayNext'
    PROVE  CallInv'
  <1>1. \A m \in Message : Asking(m) => AskingNext(m)
    BY DEF Asking, AskingNext, Message
  <1>2. dreq \in Message /\ dreq.from \in Clients
    BY DEF TypeOK, DaemonOK, Message
  <1>3. Asked'
    BY <1>1, AskedKeeps DEF CallInv
  <1>4. NoCall => NoCall'
    BY DEF NoCall, NoneNew
  <1>5. Handled'
    <2> SUFFICES ASSUME dpc \in {"work", "replyHdr"}, dreq.kind = "call"
                 PROVE  AskingNext(dreq) /\ NoCall'
      BY DEF Handled, Asking, AskingNext
    <2> QED
      BY <1>1, <1>2, <1>4 DEF CallInv, Handled
  <1>6. Answering'
    <2> SUFFICES ASSUME dpc = "replyPay"
                 PROVE  /\ NoCall' /\ cur'[dreq.from] = dreq
                        /\ \/ /\ pc'[dreq.from] = "hdr"
                              /\ got'[dreq.from] \o rep' = Header(dreq)
                           \/ /\ pc'[dreq.from] = "pay"
                              /\ got'[dreq.from] = <<>> /\ rep' = <<>>
      BY DEF Answering, Header, Frame
    <2> QED
      BY <1>2, <1>4 DEF CallInv, Answering
  <1>7. Arrived'
    <2>1. ASSUME NEW d \in Clients, pc'[d] \in {"hdr", "pay"}
          PROVE  d # c /\ pc[d] = pc'[d] /\ cur'[d] = cur[d]
      BY <2>1
    <2>2. \A d \in Clients : pc[d] \in {"hdr", "pay"} => pc'[d] = pc[d]
      OBVIOUS
    <2> QED
      BY <2>1, <2>2 DEF CallInv, Arrived, Header, Payload, Frame
  <1> QED
    BY <1>3, <1>5, <1>6, <1>7 DEF CallInv

\* Closing an end that is not the last takes nothing from a waiting caller.
LEMMA RepKept ==
    ASSUME CallInv, ~orphaned, NEW ends, rep' \in AfterClose(rep, ends),
           \A d \in Clients : pc[d] \in {"hdr", "pay"} => d \in ends
    PROVE  rep' = rep
  <1>1. rep # <<>> => ends # {}
    BY DEF CallInv, Arrived
  <1> QED
    BY <1>1 DEF AfterClose

\* Of the callers, only the one that holds the lock waits for a reply.
LEMMA OneWaits ==
    ASSUME LockInv, NEW c \in Clients, Holds(c), NEW d \in Clients,
           pc[d] \in {"hdr", "pay"}
    PROVE  d = c
  <1>1. Holds(d)
    BY DEF Holds, Holding
  <1> QED
    BY <1>1 DEF LockInv

\* While the lock is held by a caller that does not wait yet, or no longer,
\* no call is on its way, none is worked on and no reply is there.
LEMMA HolderIsQuiet ==
    ASSUME TypeOK, LockInv, CallInv, ~orphaned, NEW c \in Clients, Holds(c),
           pc[c] \notin {"hdr", "pay"}
    PROVE  /\ rep = <<>> /\ NoCall /\ dpc # "replyPay"
           /\ ~(dpc \in {"work", "replyHdr"} /\ dreq.kind = "call")
           /\ \A d \in Clients : pc[d] \notin {"hdr", "pay"}
  <1>1. \A d \in Clients : pc[d] \notin {"hdr", "pay"}
    BY OneWaits
  <1>2. \A m \in Message : ~Asking(m)
    BY <1>1 DEF Asking, Message
  <1>3. dreq \in Message /\ dreq.from \in Clients
    BY DEF TypeOK, DaemonOK, Message
  <1>4. NoCall
    BY <1>2, StreamUnit DEF NoCall, CallInv, Asked
  <1> QED
    BY <1>1, <1>2, <1>3, <1>4 DEF CallInv, Arrived, Handled, Answering

\* A written request stands behind what is there, unless nobody is left to
\* read it.
LEMMA StreamGrown ==
    ASSUME TypeOK, Contiguous, InOrder, PayNext, NEW m \in Message,
           NEW c \in Clients,
           req' \in AfterClose(req \o Frame(m), RequestEnds(c)),
           dgot' = dgot, dpc' = dpc, dreq' = dreq, m.kind = "call" => NoCall
    PROVE  /\ Contiguous' /\ InOrder' /\ PayNext'
           /\ \A i \in 1..Len(Stream') :
                  \/ \E j \in 1..Len(Stream) : Stream'[i] = Stream[j]
                  \/ Stream'[i].msg = m
  <1> DEFINE f == Frame(m)
  <1>1. f \in Seq(Unit) /\ req \in Seq(Unit) /\ dgot \in Seq(Unit)
    BY FrameUnits DEF TypeOK, SharedOK, DaemonOK
  <1> HIDE DEF f
  <1>2. CASE req' = req \o f
    <2>1. dgot \o (req \o f) = (dgot \o req) \o f
      BY <1>1, ConcatAssociative
    <2>2. Stream' = Stream \o f
      BY <1>2, <2>1 DEF Stream
    <2>3. /\ Contiguous' /\ InOrder'
          /\ \A i \in 1..Len(Stream') :
                 \/ \E j \in 1..Len(Stream) : Stream'[i] = Stream[j]
                 \/ Stream'[i].msg = m
          /\ Stream # <<>> => Stream' # <<>> /\ Stream'[1] = Stream[1]
      BY <2>2, AppendedKeeps DEF f
    <2>4. PayNext'
      BY <2>3 DEF PayNext
    <2> QED
      BY <2>3, <2>4
  <1>3. CASE req' # req \o f
    <2>1. req' = <<>> /\ dpc = "down"
      BY <1>3 DEF AfterClose, RequestEnds, f
    <2>2. Stream' = <<>>
      BY <2>1, <1>1, ConcatEmptySeq DEF Stream, TypeOK, DaemonOK
    <2>3. Len(Stream') = 0 /\ 1..0 = {}
      BY <2>2, EmptySeq
    <2>4. Contiguous' /\ InOrder' /\ PayNext'
      BY <2>1, <2>3 DEF Contiguous, InOrder, PayNext
    <2> QED
      BY <2>3, <2>4
  <1> QED
    BY <1>2, <1>3

\* A call is written: from now on its caller asks.
LEMMA CallWritten ==
    ASSUME TypeOK, LockInv, RoomInv, CallInv, ~orphaned, NEW c \in Clients,
           WriteRequest(c), Written(c) = Len(out[c]), At(c, "write")
    PROVE  CallInv'
  <1> DEFINE m == cur[c]
  <1>1. Holds(c) /\ pc[c] = "write"
    BY DEF At, Holds, Holding
  <1>2. /\ rep = <<>> /\ NoCall /\ dpc # "replyPay"
        /\ ~(dpc \in {"work", "replyHdr"} /\ dreq.kind = "call")
        /\ \A d \in Clients : pc[d] \notin {"hdr", "pay"}
    BY <1>1, HolderIsQuiet
  <1>3. /\ m \in Message /\ m.from = c
        /\ req' \in AfterClose(req \o Frame(m), RequestEnds(c))
        /\ pc' = [pc EXCEPT ![c] = "hdr"]
        /\ cur' = cur /\ dpc' = dpc /\ dgot' = dgot /\ dreq' = dreq
        /\ rep' = rep
    BY WholeWrite DEF RoomInv, Numbered
  <1>4. got' = [got EXCEPT ![c] = <<>>]
    BY <1>1 DEF WriteRequest, At
  <1>5. pc'[c] = "hdr" /\ got'[c] = <<>>
        /\ \A d \in Clients : d # c => pc'[d] \notin {"hdr", "pay"}
    BY <1>2, <1>3, <1>4 DEF TypeOK, ClientOK
  <1>6. AskingNext(m)
    BY <1>2, <1>3, <1>5 DEF AskingNext
  <1>7. /\ Contiguous' /\ InOrder' /\ PayNext'
        /\ \A i \in 1..Len(Stream') :
               \/ \E j \in 1..Len(Stream) : Stream'[i] = Stream[j]
               \/ Stream'[i].msg = m
    BY <1>2, <1>3, StreamGrown DEF CallInv
  <1> HIDE DEF m
  <1>8. Asked'
    BY <1>2, <1>6, <1>7 DEF Asked, Asking, AskingNext, NoCall
  <1>9. Handled' /\ Answering'
    BY <1>2, <1>3 DEF Handled, Answering
  <1>10. Arrived'
    <2>1. got'[c] \o rep' = <<>>
      BY <1>2, <1>3, <1>5, EmptySeq, ConcatEmptySeq
    <2> QED
      BY <1>2, <1>3, <1>5, <2>1 DEF Arrived
  <1> QED
    BY <1>7, <1>8, <1>9, <1>10 DEF CallInv

\* A message without reply is written.
LEMMA SendWritten ==
    ASSUME TypeOK, RoomInv, EndsInv, CallInv, ~orphaned, NEW c \in Clients,
           WriteRequest(c), Written(c) = Len(out[c]), At(c, "sendWrite")
    PROVE  CallInv'
  <1> DEFINE m == cur[c]
  <1>1. /\ m \in Message /\ m.kind = "send"
        /\ req' \in AfterClose(req \o Frame(m), RequestEnds(c))
        /\ pc' = [pc EXCEPT ![c] = "idle"]
        /\ cur' = cur /\ dpc' = dpc /\ dgot' = dgot /\ dreq' = dreq
        /\ rep' = rep
    BY WholeWrite DEF RoomInv, EndsInv, At
  <1>2. got' = got
    BY DEF WriteRequest, At
  <1>3. /\ Contiguous' /\ InOrder' /\ PayNext'
        /\ \A i \in 1..Len(Stream') :
               \/ \E j \in 1..Len(Stream) : Stream'[i] = Stream[j]
               \/ Stream'[i].msg = m
    BY <1>1, StreamGrown DEF CallInv
  <1>4. NoneNew
    BY <1>1, <1>3 DEF NoneNew
  <1>5. /\ pc[c] \notin {"hdr", "pay"} /\ pc'[c] \notin {"hdr", "pay"}
        /\ \A d \in Clients \ {c} : pc'[d] = pc[d] /\ cur'[d] = cur[d]
    BY <1>1 DEF At, TypeOK, ClientOK
  <1> QED
    BY <1>1, <1>2, <1>3, <1>4, <1>5, Aside

\* While bytes of a reply are there, no call is on its way or worked on.
LEMMA ReplyIsLast ==
    ASSUME TypeOK, CallInv, ~orphaned, rep # <<>>
    PROVE  NoCall /\ ~(dpc \in {"work", "replyHdr"} /\ dreq.kind = "call")
  BY DEF CallInv, Asked, Handled, Asking, NoCall

\* The caller reads a header, whole or in part: it is that of its reply.
LEMMA HeaderRead ==
    ASSUME TypeOK, LockInv, CallInv, ~orphaned, NEW c \in Clients,
           RecvHeader(c)
    PROVE  CallInv'
  <1> DEFINE all == got[c] \o rep
             have == Taken(rep, got[c], HdrLen)
             rest == Rest(rep, got[c], HdrLen)
             m == cur[c]
  <1>1. /\ pc[c] = "hdr" /\ rep # <<>> /\ rep' = rest
        /\ UNCHANGED <<cur, req, dgot, dpc, dreq, orphaned>>
    BY DEF RecvHeader, At, daemon, history
  <1>2. /\ rep \in Seq(Unit) /\ got[c] \in Seq(Unit) /\ Len(got[c]) < HdrLen
        /\ HdrLen \in Nat \ {0} /\ m \in Message /\ PayLen \in Nat \ {0}
        /\ FrameLen = HdrLen + PayLen
    BY <1>1, FrameAssumption
       DEF TypeOK, SharedOK, ClientOK, ReceiveOK, FrameLen
  <1>3. /\ all \in Seq(Unit) /\ Len(all) = Len(got[c]) + Len(rep)
        /\ have \in Seq(Unit) /\ rest \in Seq(Unit)
        /\ Len(have) \in 1..HdrLen
        /\ \A i \in 1..Len(have) : have[i] = all[i]
        /\ have \o rest = all
        /\ Len(rest) = Len(all) - Len(have)
        /\ \A i \in 1..Len(rest) : rest[i] = all[Len(have) + i]
    BY <1>1, <1>2, ReadParts
  <1>4. NoCall /\ ~(dpc \in {"work", "replyHdr"} /\ dreq.kind = "call")
    BY <1>1, ReplyIsLast
  <1>5. \A d \in Clients : pc[d] \in {"hdr", "pay"} => d = c
    BY <1>1, OneWaits DEF Holds, Holding
  <1>6. Holds(c)
    BY <1>1 DEF Holds, Holding
  <1>7. /\ Header(m) \in Seq(Unit) /\ Len(Header(m)) = HdrLen
        /\ \A i \in 1..HdrLen : Header(m)[i] = [msg |-> m, pos |-> i]
        /\ Payload(m) \in Seq(Unit) /\ Len(Payload(m)) = PayLen
        /\ \A i \in 1..PayLen : Payload(m)[i] = [msg |-> m, pos |-> HdrLen + i]
    BY <1>2, MessageParts
  <1>8. /\ Frame(m) \in Seq(Unit) /\ Len(Frame(m)) = FrameLen
        /\ \A p \in 1..FrameLen : Frame(m)[p] = [msg |-> m, pos |-> p]
    BY <1>2, FrameUnits
  <1>9. all \in {Header(m), Frame(m)}
    <2>1. Len(all) # 0
      BY <1>2, <1>3, <1>1, EmptySeq, LenProperties
    <2>2. all \in {<<>>, Header(m), Frame(m)}
      BY <1>1 DEF CallInv, Arrived
    <2> HIDE DEF all
    <2> QED
      BY <2>1, <2>2, EmptySeq
  <1>10. dpc = "replyPay" => cur[c] = dreq /\ dreq.from = c /\ all = Header(m)
    <2>1. dreq.from \in Clients
      BY DEF TypeOK, DaemonOK, Message
    <2> QED
      BY <1>1, <1>5, <2>1 DEF CallInv, Answering
  <1>11. have[1].pos = 1
    <2>1. 1 \in 1..Len(have) /\ 1 \in 1..HdrLen /\ 1 \in 1..FrameLen
      BY <1>2, <1>3
    <2>2. have[1] = all[1]
      BY <1>3, <2>1
    <2>3. Header(m)[1] = [msg |-> m, pos |-> 1]
          /\ Frame(m)[1] = [msg |-> m, pos |-> 1]
      BY <1>7, <1>8, <2>1
    <2> HIDE DEF all, have
    <2> QED
      BY <1>9, <2>2, <2>3
  <1>12. /\ Contiguous' /\ InOrder' /\ PayNext' /\ NoCall'
    BY <1>1, <1>4 DEF CallInv, Contiguous, InOrder, PayNext, NoCall, Stream
  <1>13. Asked' /\ Handled'
    BY <1>1, <1>4, <1>12 DEF Asked, Handled, NoCall
  <1>14. \A d \in Clients \ {c} : pc'[d] = pc[d] /\ pc'[d] \notin {"hdr", "pay"}
    BY <1>5 DEF RecvHeader, Goto, TypeOK, ClientOK
  <1>15. CASE Len(have) # HdrLen
    <2>1. pc'[c] = "hdr" /\ got'[c] = have
      BY <1>1, <1>15 DEF RecvHeader, TypeOK, ClientOK
    <2>2. got'[c] \o rep' = all
      BY <1>1, <1>3, <2>1
    <2> HIDE DEF all, have, rest
    <2>3. Answering'
      BY <1>1, <1>10, <1>12, <2>1, <2>2 DEF Answering
    <2>4. Arrived'
      BY <1>1, <1>9, <1>14, <2>1, <2>2 DEF Arrived
    <2> QED
      BY <1>12, <1>13, <2>3, <2>4 DEF CallInv
  <1>16. CASE Len(have) = HdrLen
    <2>1. pc'[c] = "pay" /\ got'[c] = <<>>
      BY <1>1, <1>11, <1>16 DEF RecvHeader, Goto, TypeOK, ClientOK
    <2> HIDE DEF all, have, rest
    <2>2. ASSUME all = Header(m) PROVE rest = <<>>
      <3>1. Len(rest) = 0
        BY <1>2, <1>3, <1>7, <1>16, <2>2
      <3> QED
        BY <1>3, <3>1, EmptySeq
    <2>3. ASSUME all = Frame(m) PROVE rest = Payload(m)
      <3>1. Len(rest) = PayLen
        <4>1. Len(all) = FrameLen /\ Len(rest) = Len(all) - HdrLen
          BY <1>3, <1>8, <1>16, <2>3
        <4> QED
          BY <1>2, <4>1
      <3>2. \A i \in 1..PayLen : HdrLen + i \in 1..FrameLen
        BY <1>2
      <3>3. ASSUME NEW i \in 1..PayLen PROVE rest[i] = Payload(m)[i]
        <4>1. rest[i] = all[HdrLen + i]
          BY <1>3, <1>16, <3>1
        <4>2. all[HdrLen + i] = [msg |-> m, pos |-> HdrLen + i]
          BY <1>8, <2>3, <3>2
        <4> QED
          BY <1>7, <4>1, <4>2
      <3> QED
        BY <1>3, <1>7, <3>1, <3>3, SeqEqual
    <2>4. got'[c] \o rep' = rest
      BY <1>1, <1>3, <2>1, ConcatEmptySeq
    <2>5. Answering'
      BY <1>1, <1>10, <1>12, <2>1, <2>2 DEF Answering
    <2>6. Arrived'
      BY <1>1, <1>9, <1>14, <2>1, <2>2, <2>3, <2>4 DEF Arrived
    <2> QED
      BY <1>12, <1>13, <2>5, <2>6 DEF CallInv
  <1> QED
    BY <1>15, <1>16

\* The caller reads a payload, whole or in part: a whole one is that of its
\* reply.
LEMMA PayloadRead ==
    ASSUME TypeOK, LockInv, EndsInv, CallInv, ~orphaned, NEW c \in Clients,
           RecvPayload(c)
    PROVE  CallInv' /\ (rc'[c] = "ok" => got'[c] = Payload(cur[c]))
  <1> DEFINE all == got[c] \o rep
             have == Taken(rep, got[c], PayLen)
             rest == Rest(rep, got[c], PayLen)
             m == cur[c]
  <1>1. /\ pc[c] = "pay" /\ rep # <<>> /\ rep' = rest /\ got'[c] = have
        /\ UNCHANGED <<cur, req, dgot, dpc, dreq, orphaned>>
    BY DEF RecvPayload, At, daemon, history, TypeOK, ClientOK
  <1>2. /\ rep \in Seq(Unit) /\ got[c] \in Seq(Unit) /\ Len(got[c]) < PayLen
        /\ m \in Message /\ PayLen \in Nat \ {0}
    BY <1>1, FrameAssumption DEF TypeOK, SharedOK, ClientOK, ReceiveOK
  <1>3. /\ all \in Seq(Unit) /\ Len(all) = Len(got[c]) + Len(rep)
        /\ have \in Seq(Unit) /\ rest \in Seq(Unit)
        /\ Len(have) \in 1..PayLen
        /\ have \o rest = all
        /\ Len(rest) = Len(all) - Len(have)
    BY <1>1, <1>2, ReadParts
  <1>4. NoCall /\ ~(dpc \in {"work", "replyHdr"} /\ dreq.kind = "call")
    BY <1>1, ReplyIsLast
  <1>5. \A d \in Clients : pc[d] \in {"hdr", "pay"} => d = c
    BY <1>1, OneWaits DEF Holds, Holding
  <1>6. Payload(m) \in Seq(Unit) /\ Len(Payload(m)) = PayLen
    BY <1>2, MessageParts
  <1>7. all = Payload(m)
    <2>1. Len(all) # 0
      BY <1>2, <1>3, <1>1, EmptySeq, LenProperties
    <2>2. all \in {<<>>, Payload(m)}
      BY <1>1 DEF CallInv, Arrived
    <2> HIDE DEF all
    <2> QED
      BY <2>1, <2>2, EmptySeq
  <1>8. dpc # "replyPay"
    <2>1. dreq.from \in Clients
      BY DEF TypeOK, DaemonOK, Message
    <2> QED
      BY <1>1, <1>5, <2>1 DEF CallInv, Answering
  <1>9. /\ Contiguous' /\ InOrder' /\ PayNext' /\ NoCall'
    BY <1>1, <1>4 DEF CallInv, Contiguous, InOrder, PayNext, NoCall, Stream
  <1>10. Asked' /\ Handled' /\ Answering'
    BY <1>1, <1>4, <1>8, <1>9 DEF Asked, Handled, NoCall, Answering
  <1>11. \A d \in Clients \ {c} : pc'[d] = pc[d] /\ pc'[d] \notin {"hdr", "pay"}
    BY <1>5 DEF RecvPayload, Goto, TypeOK, ClientOK
  <1>12. CASE Len(have) # PayLen
    <2>1. pc'[c] = "pay" /\ rc' = rc /\ rc[c] # "ok"
      BY <1>1, <1>12 DEF RecvPayload, TypeOK, ClientOK, EndsInv, Returned
    <2>2. got'[c] \o rep' = all
      BY <1>1, <1>3
    <2> HIDE DEF all, have, rest
    <2>3. Arrived'
      BY <1>1, <1>7, <1>11, <2>1, <2>2 DEF Arrived
    <2> QED
      BY <1>9, <1>10, <2>1, <2>3 DEF CallInv
  <1>13. CASE Len(have) = PayLen
    <2>1. pc'[c] = "closeR"
      BY <1>1, <1>13 DEF RecvPayload, Goto, TypeOK, ClientOK
    <2> HIDE DEF all, have, rest
    <2>2. rest = <<>>
      <3>1. Len(rest) = 0
        BY <1>2, <1>3, <1>6, <1>7, <1>13
      <3> QED
        BY <1>3, <3>1, EmptySeq
    <2>3. have = Payload(m)
      BY <1>3, <1>7, <2>2, ConcatEmptySeq
    <2>4. Arrived'
      BY <1>1, <1>11, <2>1, <2>2 DEF Arrived
    <2> QED
      BY <1>1, <1>9, <1>10, <2>3, <2>4 DEF CallInv
  <1> QED
    BY <1>12, <1>13

\* A step of the daemon that leaves the callers alone and takes in no call.
LEMMA DaemonAside ==
    ASSUME TypeOK, CallInv, ~orphaned, UNCHANGED <<pc, cur, got, rep>>,
           Consumed, PayNext',
           dpc' \notin {"work", "replyHdr", "replyPay"}
    PROVE  CallInv'
  <1>1. Contiguous' /\ InOrder' /\ NoneNew
    BY ConsumedKeeps DEF CallInv, NoneNew
  <1>2. Asked'
    BY <1>1, AskedKeeps DEF CallInv, Asking, AskingNext
  <1>3. Arrived'
    BY DEF CallInv, Arrived, Header, Payload, Frame
  <1> QED
    BY <1>1, <1>2, <1>3 DEF CallInv, Handled, Answering

\* The daemon reads a header, whole or in part.
LEMMA HeaderTaken ==
    ASSUME TypeOK, CallInv, ~orphaned, DaemonRecvHeader
    PROVE  CallInv'
  <1> DEFINE have == Taken(req, dgot, HdrLen)
             rest == Rest(req, dgot, HdrLen)
  <1>1. /\ dpc = "hdr" /\ req # <<>> /\ req' = rest
        /\ UNCHANGED <<pc, cur, got, rep, orphaned>>
    BY DEF DaemonRecvHeader, client, history
  <1>2. /\ req \in Seq(Unit) /\ dgot \in Seq(Unit) /\ HdrLen \in Nat \ {0}
        /\ Len(dgot) < HdrLen /\ PayLen \in Nat \ {0}
        /\ FrameLen = HdrLen + PayLen
    BY <1>1, FrameAssumption DEF TypeOK, SharedOK, DaemonOK, FrameLen
  <1>3. /\ have \in Seq(Unit) /\ rest \in Seq(Unit)
        /\ Len(have) \in 1..HdrLen /\ Len(have) <= Len(Stream)
        /\ \A i \in 1..Len(have) : have[i] = Stream[i]
        /\ have \o rest = Stream
        /\ Len(rest) = Len(Stream) - Len(have)
        /\ \A i \in 1..Len(rest) : rest[i] = Stream[Len(have) + i]
    BY <1>1, <1>2, ReadParts DEF Stream
  <1>4. Len(Stream) \in Nat
    BY StreamType
  <1>5. CASE Len(have) # HdrLen
    <2>1. dgot' = have /\ dpc' = "hdr"
      BY <1>1, <1>5 DEF DaemonRecvHeader
    <2> HIDE DEF have, rest
    <2>2. Stream' = Stream
      BY <1>1, <1>3, <2>1 DEF Stream
    <2> QED
      BY <1>1, <2>1, <2>2, ConsumedEnds, DaemonAside DEF PayNext
  <1>6. CASE Len(have) = HdrLen
    <2>1. /\ dgot' = <<>> /\ dpc' \in {"hdr", "pay"}
          /\ dpc' = "pay" => have[1].pos = 1 /\ dreq' = have[1].msg
      BY <1>1, <1>6 DEF DaemonRecvHeader
    <2> HIDE DEF have, rest
    <2>2. Stream' = rest
      BY <1>1, <1>3, <2>1, ConcatEmptySeq DEF Stream
    <2>3. Consumed
      <3>1. HdrLen \in 0..Len(Stream)
        BY <1>2, <1>3, <1>4, <1>6
      <3>2. Left(HdrLen)
        BY <1>3, <1>6, <2>2 DEF Left
      <3> QED
        BY <3>1, <3>2 DEF Consumed
    <2>4. PayNext'
      <3>1. SUFFICES ASSUME dpc' = "pay"
                     PROVE  /\ Stream' # <<>>
                            /\ Stream'[1] = [msg |-> dreq', pos |-> HdrLen + 1]
        BY DEF PayNext
      <3>2. 1 \in 1..Len(Stream) /\ 1 \in 1..Len(have) /\ HdrLen \in 0..FrameLen
        BY <1>2, <1>3, <1>4
      <3>3. Stream[1].pos = 1 /\ Stream[1].msg = dreq'
        BY <1>3, <2>1, <3>1, <3>2
      <3>4. Stream[1].pos + HdrLen <= FrameLen
        BY <1>2, <3>3
      <3>5. /\ 1 + HdrLen <= Len(Stream)
            /\ Stream[1 + HdrLen] = [msg |-> Stream[1].msg,
                                     pos |-> Stream[1].pos + HdrLen]
        BY <3>2, <3>4 DEF CallInv, Contiguous
      <3>6. 1 \in 1..Len(rest) /\ Len(have) + 1 = 1 + HdrLen
        BY <1>2, <1>3, <1>4, <1>6, <3>5
      <3>7. rest[1] = Stream[1 + HdrLen]
        BY <1>3, <3>6
      <3>8. Stream[1].pos + HdrLen = HdrLen + 1
        BY <1>2, <3>3
      <3>9. rest # <<>>
        BY <3>6, EmptySeq
      <3> QED
        BY <2>2, <3>3, <3>5, <3>7, <3>8, <3>9
    <2> QED
      BY <1>1, <2>1, <2>3, <2>4, DaemonAside
  <1> QED
    BY <1>5, <1>6

\* The daemon reads a payload, whole or in part.  Behind the whole payload of
\* a call there is no other call: its caller would ask for both.
LEMMA PayloadTaken ==
    ASSUME TypeOK, LockInv, CallInv, ~orphaned, DaemonRecvPayload
    PROVE  CallInv'
  <1> DEFINE have == Taken(req, dgot, PayLen)
             rest == Rest(req, dgot, PayLen)
  <1>1. /\ dpc = "pay" /\ req # <<>> /\ req' = rest /\ dreq' = dreq
        /\ UNCHANGED <<pc, cur, got, rep, orphaned>>
    BY DEF DaemonRecvPayload, client
  <1>2. /\ req \in Seq(Unit) /\ dgot \in Seq(Unit) /\ PayLen \in Nat \ {0}
        /\ Len(dgot) < PayLen /\ HdrLen \in Nat \ {0}
        /\ FrameLen = HdrLen + PayLen
    BY <1>1, FrameAssumption DEF TypeOK, SharedOK, DaemonOK, FrameLen
  <1>3. /\ have \in Seq(Unit) /\ rest \in Seq(Unit)
        /\ Len(have) \in 1..PayLen /\ Len(have) <= Len(Stream)
        /\ have \o rest = Stream
        /\ Len(rest) = Len(Stream) - Len(have)
        /\ \A i \in 1..Len(rest) : rest[i] = Stream[Len(have) + i]
    BY <1>1, <1>2, ReadParts DEF Stream
  <1>4. Len(Stream) \in Nat
    BY StreamType
  <1>5. Stream # <<>> /\ Stream[1] = [msg |-> dreq, pos |-> HdrLen + 1]
    BY <1>1 DEF CallInv, PayNext
  <1>6. CASE Len(have) # PayLen
    <2>1. dgot' = have /\ dpc' = "pay"
      BY <1>1, <1>6 DEF DaemonRecvPayload
    <2> HIDE DEF have, rest
    <2>2. Stream' = Stream
      BY <1>1, <1>3, <2>1 DEF Stream
    <2>3. PayNext'
      BY <1>1, <1>5, <2>2 DEF PayNext
    <2> QED
      BY <1>1, <2>1, <2>2, <2>3, ConsumedEnds, DaemonAside
  <1>7. CASE Len(have) = PayLen
    <2>1. dgot' = <<>> /\ dpc' \in {"work", "hdr"}
      BY <1>7 DEF DaemonRecvPayload
    <2> HIDE DEF have, rest
    <2>2. Stream' = rest
      BY <1>1, <1>3, <2>1, ConcatEmptySeq DEF Stream
    <2>3. PayLen \in 0..Len(Stream) /\ Left(PayLen)
      BY <1>2, <1>3, <1>4, <1>7, <2>2 DEF Left
    <2>4. Consumed
      BY <2>3 DEF Consumed
    <2>5. ASSUME dreq.kind = "call" PROVE AskingNext(dreq) /\ NoCall'
      <3>1. 1 \in 1..Len(Stream) /\ Stream[1].msg = dreq
            /\ Stream[1].pos = HdrLen + 1
        BY <1>2, <1>3, <1>4, <1>5
      <3>2. Asking(dreq)
        BY <2>5, <3>1 DEF CallInv, Asked
      <3>3. dreq.from \in Clients /\ Holds(dreq.from)
        BY <3>2 DEF Asking, Holds, Holding, TypeOK, DaemonOK, Message
      <3>4. PayLen - 1 \in 0..FrameLen /\ 1 + (PayLen - 1) = PayLen
            /\ (HdrLen + 1) + (PayLen - 1) = FrameLen /\ FrameLen \in Nat
        BY <1>2
      <3>5. Stream[PayLen] = [msg |-> dreq, pos |-> FrameLen]
        <4>1. Stream[1].pos + (PayLen - 1) = FrameLen
              /\ Stream[1].pos + (PayLen - 1) <= FrameLen
          BY <3>1, <3>4
        <4>2. Stream[1 + (PayLen - 1)]
                  = [msg |-> Stream[1].msg, pos |-> Stream[1].pos + (PayLen - 1)]
          BY <3>1, <3>4, <4>1 DEF CallInv, Contiguous
        <4> QED
          BY <3>1, <3>4, <4>1, <4>2
      <3>6. ASSUME NEW i \in 1..Len(Stream'), Stream'[i].msg.kind = "call"
            PROVE  FALSE
        <4>1. /\ PayLen + i \in 1..Len(Stream) /\ PayLen \in 1..Len(Stream)
              /\ PayLen < PayLen + i
          BY <1>2, <1>4, <2>3 DEF Left
        <4>2. Stream'[i] = Stream[PayLen + i]
          BY <2>3 DEF Left
        <4>3. /\ Stream[PayLen + i].msg \in Message
              /\ Stream[PayLen + i].msg.from \in Clients
              /\ Stream[PayLen + i].pos \in 1..FrameLen
          BY <4>1, StreamUnit
        <4>4. Asking(Stream[PayLen + i].msg)
          BY <3>6, <4>1, <4>2 DEF CallInv, Asked
        <4>5. Stream[PayLen + i].msg.from = dreq.from
          BY <3>3, <4>3, <4>4, OneWaits DEF Asking
        <4>6. Stream[PayLen + i].msg = dreq
          BY <3>2, <4>4, <4>5 DEF Asking
        <4>7. Stream[PayLen].msg = dreq /\ Stream[PayLen].pos = FrameLen
          BY <3>5
        <4>8. Stream[PayLen].pos < Stream[PayLen + i].pos
          BY <2>5, <4>1, <4>6, <4>7 DEF CallInv, InOrder
        <4> QED
          BY <3>4, <4>3, <4>7, <4>8
      <3> QED
        BY <1>1, <3>2, <3>6 DEF NoCall, Asking, AskingNext
    <2>6. Contiguous' /\ InOrder' /\ NoneNew
      BY <2>4, ConsumedKeeps DEF CallInv, NoneNew
    <2>7. Asked'
      BY <1>1, <2>6, AskedKeeps DEF CallInv, Asking, AskingNext
    <2>8. Handled' /\ Answering' /\ PayNext'
      BY <1>1, <2>1, <2>5 DEF Handled, Answering, PayNext, Asking, AskingNext
    <2>9. Arrived'
      BY <1>1 DEF CallInv, Arrived, Header, Payload, Frame
    <2> QED
      BY <2>6, <2>7, <2>8, <2>9 DEF CallInv
  <1> QED
    BY <1>6, <1>7

\* The daemon writes a part of a reply, to the caller that asks for it.
LEMMA PartWritten ==
    ASSUME TypeOK, LockInv, EndsInv, CallInv, ~orphaned, DaemonReply
    PROVE  CallInv'
  <1> DEFINE c == dreq.from
  <1>1. /\ c \in Clients /\ dreq \in Message
        /\ UNCHANGED <<pc, cur, got, req, dgot, dreq, orphaned>>
        /\ dpc \in {"replyHdr", "replyPay"} /\ dreq.kind = "call"
    BY DEF DaemonReply, client, history, TypeOK, DaemonOK, Message, EndsInv,
           Replying
  <1>2. /\ pc[c] \in {"hdr", "pay"} /\ cur[c] = dreq /\ NoCall
    BY <1>1 DEF CallInv, Handled, Answering, Asking
  <1>3. readers # {} /\ Holds(c)
    BY <1>1, <1>2 DEF EndsInv, Holds, Holding
  <1>4. \A d \in Clients : pc[d] \in {"hdr", "pay"} => d = c
    BY <1>1, <1>3, OneWaits
  <1>5. /\ Contiguous' /\ InOrder' /\ NoCall' /\ dpc' \in {"replyPay", "replyClose"}
    BY <1>1, <1>2 DEF CallInv, Contiguous, InOrder, NoCall, Stream, DaemonReply
  <1>6. Asked' /\ Handled' /\ PayNext'
    BY <1>5 DEF Asked, Handled, PayNext, NoCall
  <1>7. /\ Header(dreq) \in Seq(Unit) /\ Payload(dreq) \in Seq(Unit)
        /\ Header(dreq) \o Payload(dreq) = Frame(dreq)
        /\ got[c] \in Seq(Unit) /\ rep \in Seq(Unit)
    BY <1>1, MessageParts DEF TypeOK, ClientOK, SharedOK
  <1> HIDE DEF c
  <1>8. CASE dpc = "replyHdr"
    <2>1. rep' = rep \o Header(dreq)
      BY <1>3, <1>8 DEF DaemonReply
    <2>2. pc[c] = "hdr" /\ got[c] = <<>> /\ rep = <<>>
      BY <1>1, <1>8 DEF CallInv, Handled, Asking, c
    <2>3. got'[c] \o rep' = Header(dreq)
      BY <1>1, <1>7, <2>1, <2>2, ConcatEmptySeq
    <2>4. Answering'
      BY <1>1, <1>2, <1>5, <2>2, <2>3 DEF Answering, c
    <2>5. Arrived'
      BY <1>1, <1>2, <1>4, <2>2, <2>3 DEF Arrived
    <2> QED
      BY <1>5, <1>6, <2>4, <2>5 DEF CallInv
  <1>9. CASE dpc = "replyPay"
    <2>1. rep' = rep \o Payload(dreq) /\ dpc' = "replyClose"
      BY <1>3, <1>9 DEF DaemonReply
    <2>2. \/ pc[c] = "hdr" /\ got[c] \o rep = Header(dreq)
          \/ pc[c] = "pay" /\ got[c] = <<>> /\ rep = <<>>
      BY <1>9 DEF CallInv, Answering, c
    <2>3. ASSUME pc[c] = "hdr" PROVE Arrived'
      <3>1. got[c] \o (rep \o Payload(dreq)) = (got[c] \o rep) \o Payload(dreq)
        <4>1. /\ got[c] \in Seq(Unit) /\ rep \in Seq(Unit)
              /\ Payload(dreq) \in Seq(Unit)
          BY <1>7
        <4>2. \A a, b, p \in Seq(Unit) : a \o (b \o p) = (a \o b) \o p
          BY ConcatAssociative
        <4> QED
          BY <4>1, <4>2, Zenon
      <3>2. got'[c] \o rep' = Frame(dreq)
        BY <1>1, <1>7, <2>1, <2>2, <2>3, <3>1
      <3> QED
        BY <1>1, <1>2, <1>4, <2>3, <3>2 DEF Arrived
    <2>4. ASSUME pc[c] = "pay" PROVE Arrived'
      <3>1. got'[c] \o rep' = Payload(dreq)
        BY <1>1, <1>7, <2>1, <2>2, <2>4, ConcatEmptySeq
      <3> QED
        BY <1>1, <1>2, <1>4, <2>4, <3>1 DEF Arrived
    <2>5. Arrived'
      BY <2>2, <2>3, <2>4
    <2>6. Answering'
      BY <2>1 DEF Answering
    <2> QED
      BY <1>5, <1>6, <2>5, <2>6 DEF CallInv
  <1> QED
    BY <1>1, <1>8, <1>9

\* What the step leaves to a caller that is not in it.
LEMMA StreamSame ==
    ASSUME TypeOK, CallInv, ~orphaned, UNCHANGED <<dgot, dpc, dreq>>,
           req' = req \/ (req' = <<>> /\ dpc = "down")
    PROVE  Contiguous' /\ InOrder' /\ PayNext' /\ NoneNew
  <1>1. Stream' = Stream \/ Stream' = <<>>
    BY EmptySeq, ConcatEmptySeq DEF Stream, TypeOK, DaemonOK
  <1>2. Contiguous' /\ InOrder' /\ NoneNew
    BY <1>1, ConsumedEnds, ConsumedKeeps DEF CallInv, NoneNew
  <1>3. PayNext'
    BY DEF CallInv, PayNext, Stream
  <1> QED
    BY <1>2, <1>3

\* The invariant of the replies is inductive.
LEMMA CallStep ==
    ASSUME TypeOK, LockInv, RoomInv, EndsInv, CallInv, WholeWrites, [Next]_vars
    PROVE  CallInv'
  <1> SUFFICES ASSUME ~orphaned' PROVE CallInv'
    BY DEF CallInv
  <1> USE DEF At, Goto
  <1>1. ~orphaned
    <2>1. CASE \E c \in Clients : KillClient(c)
      BY <2>1 DEF KillClient
    <2>2. CASE ~ \E c \in Clients : KillClient(c)
      BY <2>2 DEF Next, ClientStep, StartCall, StartSend, LockTaken, LockBusy,
         OpenReader, OpenSelfWriter, OpenRequest, WriteRequest, WriteFails,
         RecvHeader, RecvPayload, RecvNothing, CloseReader, CloseSelfWriter,
         LockRelease, DaemonStep, DaemonListen, DaemonRecvHeader,
         DaemonRecvPayload, DaemonHandled, DaemonReply, DaemonReplyClose,
         KillDaemon, vars, history
    <2> QED
      BY <2>1, <2>2
  <1>2. ASSUME NEW c \in Clients,
               \/ StartCall(c) \/ StartSend(c) \/ LockTaken(c) \/ LockBusy(c)
               \/ OpenReader(c) \/ OpenSelfWriter(c) \/ OpenRequest(c)
               \/ WriteFails(c) \/ CloseReader(c) \/ CloseSelfWriter(c)
               \/ LockRelease(c) \/ KillClient(c)
        PROVE  CallInv'
    <2>1. pc[c] \notin {"hdr", "pay"} /\ pc'[c] \notin {"hdr", "pay"}
      <3>1. CASE KillClient(c)
        BY <3>1 DEF KillClient, Holds, Holding, TypeOK, ClientOK
      <3>2. CASE StartCall(c) \/ StartSend(c) \/ LockTaken(c) \/ LockBusy(c)
        BY <3>2 DEF StartCall, StartSend, LockTaken, LockBusy, TypeOK, ClientOK
      <3>3. CASE OpenReader(c) \/ OpenSelfWriter(c) \/ OpenRequest(c)
        BY <3>3 DEF OpenReader, OpenSelfWriter, OpenRequest, TypeOK, ClientOK
      <3>4. CASE \/ WriteFails(c) \/ CloseReader(c) \/ CloseSelfWriter(c)
                 \/ LockRelease(c)
        BY <3>4 DEF WriteFails, CloseReader, CloseSelfWriter, LockRelease,
                    TypeOK, ClientOK
      <3> QED
        BY <1>2, <3>1, <3>2, <3>3, <3>4
    <2>2. /\ \A d \in Clients \ {c} : pc'[d] = pc[d] /\ cur'[d] = cur[d]
          /\ got' = got /\ dpc' = dpc /\ dgot' = dgot /\ dreq' = dreq
      BY <1>2 DEF StartCall, StartSend, LockTaken, LockBusy, OpenReader,
         OpenSelfWriter, OpenRequest, WriteFails, CloseReader,
         CloseSelfWriter, LockRelease, KillClient, daemon, TypeOK, ClientOK
    <2>3. req' = req \/ (req' = <<>> /\ dpc = "down")
      <3>1. RequestEnds(c) = {} => dpc = "down"
        BY DEF RequestEnds
      <3>2. CASE KillClient(c) \/ WriteFails(c)
        BY <3>1, <3>2 DEF KillClient, WriteFails, AfterClose
      <3>3. CASE ~(KillClient(c) \/ WriteFails(c))
        BY <1>2, <3>3 DEF StartCall, StartSend, LockTaken, LockBusy,
           OpenReader, OpenSelfWriter, OpenRequest, CloseReader,
           CloseSelfWriter, LockRelease, shared
      <3> QED
        BY <3>2, <3>3
    <2>4. rep' = rep
      <3>1. \A d \in Clients : pc[d] \in {"hdr", "pay"} => d \in readers \ {c}
        BY <2>1 DEF EndsInv
      <3>2. CASE CloseReader(c) \/ CloseSelfWriter(c) \/ KillClient(c)
        <4>1. PICK ends : rep' \in AfterClose(rep, ends) /\ readers \ {c} \subseteq ends
          BY <3>2 DEF CloseReader, CloseSelfWriter, KillClient
        <4> QED
          BY <1>1, <3>1, <4>1, RepKept
      <3>3. CASE ~(CloseReader(c) \/ CloseSelfWriter(c) \/ KillClient(c))
        BY <1>2, <3>3 DEF StartCall, StartSend, LockTaken, LockBusy,
           OpenReader, OpenSelfWriter, OpenRequest, WriteFails, LockRelease,
           shared
      <3> QED
        BY <3>2, <3>3
    <2> QED
      BY <1>1, <2>1, <2>2, <2>3, <2>4, StreamSame, Aside
  <1>3. ASSUME NEW c \in Clients, WriteRequest(c) PROVE CallInv'
    <2>1. Written(c) = Len(out[c]) /\ (At(c, "write") \/ At(c, "sendWrite"))
      BY <1>3 DEF WholeWrites, WriteRequest
    <2> QED
      BY <1>1, <1>3, <2>1, CallWritten, SendWritten
  <1>4. ASSUME NEW c \in Clients, RecvHeader(c) \/ RecvPayload(c)
        PROVE  CallInv'
    BY <1>1, <1>4, HeaderRead, PayloadRead
  <1>5. ASSUME NEW c \in Clients, RecvNothing(c) PROVE FALSE
    BY <1>5 DEF RecvNothing, EndsInv
  <1>6. CASE DaemonRecvHeader \/ DaemonRecvPayload \/ DaemonReply
    BY <1>1, <1>6, HeaderTaken, PayloadTaken, PartWritten
  <1>7. CASE DaemonHandled
    <2>1. /\ UNCHANGED <<pc, cur, got, rep, req, dgot, dreq>>
          /\ dpc = "work" /\ dpc' \in {"replyHdr", "hdr"}
      BY <1>7 DEF DaemonHandled, client
    <2>2. Stream' = Stream
      BY <2>1 DEF Stream
    <2>3. Contiguous' /\ InOrder' /\ PayNext' /\ Answering'
      BY <1>1, <2>1, <2>2 DEF CallInv, Contiguous, InOrder, PayNext, Answering
    <2>4. Asked' /\ Handled'
      BY <1>1, <2>1, <2>2 DEF CallInv, Asked, Handled, Asking, NoCall
    <2>5. Arrived'
      BY <1>1, <2>1 DEF CallInv, Arrived, Header, Payload, Frame
    <2> QED
      BY <2>3, <2>4, <2>5 DEF CallInv
  <1>8. CASE DaemonListen \/ DaemonReplyClose \/ KillDaemon
    <2>1. /\ UNCHANGED <<pc, cur, got>> /\ dpc' \in {"hdr", "down"}
          /\ req' \in {req, <<>>} /\ dgot' \in {dgot, <<>>}
      BY <1>8 DEF DaemonListen, DaemonReplyClose, KillDaemon, client, shared,
                  AfterClose
    <2>2. rep' = rep
      <3>1. CASE DaemonListen
        BY <3>1 DEF DaemonListen, shared
      <3>2. CASE DaemonReplyClose \/ KillDaemon
        <4>1. PICK ends : rep' \in AfterClose(rep, ends) /\ readers \subseteq ends
          BY <3>2 DEF DaemonReplyClose, KillDaemon
        <4> QED
          BY <1>1, <4>1, RepKept DEF EndsInv
      <3> QED
        BY <1>8, <3>1, <3>2
    <2>3. Consumed
      <3>1. /\ req \in Seq(Unit) /\ dgot \in Seq(Unit)
            /\ Len(Stream) = Len(dgot) + Len(req)
            /\ Len(dgot) \in Nat /\ Len(req) \in Nat
        BY StreamType DEF TypeOK, SharedOK, DaemonOK
      <3>2. CASE req' = req /\ dgot' = <<>>
        <4>1. Stream' = req
          BY <3>1, <3>2, ConcatEmptySeq DEF Stream
        <4>2. \A i \in 1..Len(req) : Stream[Len(dgot) + i] = req[i]
          <5> TAKE i \in 1..Len(req)
          <5>1. /\ Len(dgot) + i \in 1..(Len(dgot) + Len(req))
                /\ ~(Len(dgot) + i <= Len(dgot))
                /\ (Len(dgot) + i) - Len(dgot) = i
            BY <3>1
          <5> QED
            BY <3>1, <5>1, ConcatProperties DEF Stream
        <4>3. Left(Len(dgot)) /\ Len(dgot) \in 0..Len(Stream)
          BY <3>1, <4>1, <4>2 DEF Left
        <4> QED
          BY <4>3 DEF Consumed
      <3>3. CASE req' = req /\ dgot' = dgot
        BY <3>3, ConsumedEnds DEF Stream
      <3>4. CASE req' = <<>>
        <4>1. dgot' = <<>> \/ dgot = <<>>
          BY <1>8, <2>1, <3>4 DEF DaemonListen, DaemonReplyClose, KillDaemon,
                                  TypeOK, DaemonOK
        <4>2. Stream' = <<>>
          BY <2>1, <3>4, <4>1, EmptySeq, ConcatEmptySeq DEF Stream
        <4> QED
          BY <4>2, ConsumedEnds
      <3> QED
        BY <2>1, <3>2, <3>3, <3>4
    <2>4. PayNext'
      BY <2>1 DEF PayNext
    <2> QED
      BY <1>1, <2>1, <2>2, <2>3, <2>4, DaemonAside
  <1>9. CASE UNCHANGED vars
    <2>1. Stream' = Stream
      BY <1>9 DEF vars, shared, daemon, Stream
    <2> QED
      BY <1>1, <1>9, <2>1
         DEF vars, shared, client, daemon, CallInv, Contiguous, InOrder,
             PayNext, Asked, Handled, Answering, Arrived, Asking, NoCall,
             Header, Payload, Frame
  <1> QED
    BY <1>2, <1>3, <1>4, <1>5, <1>6, <1>7, <1>8, <1>9
       DEF Next, ClientStep, DaemonStep

\* Nobody calls at the start.
LEMMA CallInit == Init => CallInv /\ OwnReply
  <1> SUFFICES ASSUME Init PROVE CallInv /\ OwnReply
    OBVIOUS
  <1>1. Stream = <<>> /\ Len(Stream) = 0 /\ 1..0 = {}
    BY EmptySeq, ConcatEmptySeq DEF Init, Stream
  <1>2. \A c \in Clients : pc[c] = "idle" /\ rc[c] = "none"
    BY DEF Init
  <1>3. dpc \in {"down", "hdr"} /\ rep = <<>>
    BY DEF Init
  <1>4. Contiguous /\ InOrder /\ PayNext /\ Asked /\ Handled /\ Answering
    BY <1>1, <1>3
       DEF Contiguous, InOrder, PayNext, Asked, Handled, Answering
  <1>5. Arrived
    BY <1>2, <1>3 DEF Arrived
  <1> QED
    BY <1>2, <1>4, <1>5 DEF CallInv, OwnReply

\* Only the last read of a reply makes a call return one.
LEMMA OwnStep ==
    ASSUME TypeOK, LockInv, EndsInv, CallInv, OwnReply, [Next]_vars
    PROVE  OwnReply'
  <1> USE DEF At, Goto, Return
  <1>1. ASSUME NEW c \in Clients,
               \A d \in Clients \ {c} :
                   rc'[d] = rc[d] /\ got'[d] = got[d] /\ cur'[d] = cur[d],
               rc'[c] = "ok" => got'[c] = Payload(cur'[c])
        PROVE  OwnReply'
    BY <1>1 DEF OwnReply, Payload, Frame
  <1>2. ASSUME UNCHANGED <<rc, got, cur>> PROVE OwnReply'
    BY <1>2 DEF OwnReply, Payload, Frame
  <1>3. ASSUME NEW c \in Clients, RecvPayload(c) PROVE OwnReply'
    <2>1. ~orphaned
      BY <1>3 DEF RecvPayload, LockInv, Holds, Holding
    <2>2. rc'[c] = "ok" => got'[c] = Payload(cur[c])
      BY <1>3, <2>1, PayloadRead
    <2>3. cur' = cur /\ \A d \in Clients \ {c} : rc'[d] = rc[d] /\ got'[d] = got[d]
      BY <1>3 DEF RecvPayload, TypeOK, ClientOK
    <2> QED
      BY <1>1, <2>2, <2>3
  <1>4. ASSUME NEW c \in Clients,
               \/ StartCall(c) \/ StartSend(c) \/ LockBusy(c)
               \/ OpenSelfWriter(c) \/ OpenRequest(c) \/ WriteRequest(c)
               \/ WriteFails(c) \/ RecvHeader(c) \/ RecvNothing(c)
        PROVE  OwnReply'
    <2>1. \A d \in Clients \ {c} :
              rc'[d] = rc[d] /\ got'[d] = got[d] /\ cur'[d] = cur[d]
      BY <1>4 DEF StartCall, StartSend, LockBusy, OpenSelfWriter,
         OpenRequest, WriteRequest, WriteFails, RecvHeader, RecvNothing,
         TypeOK, ClientOK, shared
    <2>2. rc'[c] = "ok" => rc[c] = "ok" /\ pc[c] \notin Returned
      <3>1. CASE StartCall(c) \/ StartSend(c) \/ LockBusy(c)
        BY <3>1 DEF StartCall, StartSend, LockBusy, TypeOK, ClientOK, Returned
      <3>2. CASE OpenSelfWriter(c) \/ OpenRequest(c) \/ WriteFails(c)
        BY <3>2 DEF OpenSelfWriter, OpenRequest, WriteFails, TypeOK, ClientOK,
                    Returned
      <3>3. CASE WriteRequest(c)
        BY <3>3 DEF WriteRequest, TypeOK, ClientOK, Returned
      <3>4. CASE RecvHeader(c) \/ RecvNothing(c)
        BY <3>4 DEF RecvHeader, RecvNothing, TypeOK, ClientOK, Returned
      <3> QED
        BY <1>4, <3>1, <3>2, <3>3, <3>4
    <2> QED
      BY <1>1, <2>1, <2>2 DEF EndsInv
  <1>5. ASSUME NEW c \in Clients,
               \/ LockTaken(c) \/ OpenReader(c) \/ CloseReader(c)
               \/ CloseSelfWriter(c) \/ LockRelease(c) \/ KillClient(c)
        PROVE  OwnReply'
    BY <1>2, <1>5 DEF LockTaken, OpenReader, CloseReader, CloseSelfWriter,
                      LockRelease, KillClient
  <1>6. CASE DaemonStep \/ KillDaemon
    BY <1>2, <1>6 DEF DaemonStep, DaemonListen, DaemonRecvHeader,
       DaemonRecvPayload, DaemonHandled, DaemonReply, DaemonReplyClose,
       KillDaemon, client
  <1>7. CASE UNCHANGED vars
    BY <1>2, <1>7 DEF vars, client
  <1> QED
    BY <1>3, <1>4, <1>5, <1>6, <1>7 DEF Next, ClientStep

\* A call that returns a reply returns the reply to its own request, whoever
\* is killed and whatever fails to open, if no caller gives a timeout and the
\* request FIFO has room for every request.
THEOREM OwnReplies ==
    ASSUME Roomy, Timeouts \subseteq {0}
    PROVE  Spec => []OwnReply
  <1> DEFINE Inv == /\ TypeOK /\ LockInv /\ RoomInv
                    /\ EndsInv /\ CallInv /\ OwnReply
  <1>1. Init => Inv
    BY TypeInit, LockInit, RoomInit, EndsInit, CallInit
  <1>2. Inv /\ [Next]_vars => Inv'
    BY TypeStep, LockStep, RoomStep, EndsStep, CallStep, OwnStep
  <1>3. Inv => OwnReply
    OBVIOUS
  <1> QED
    BY <1>1, <1>2, <1>3, PTL DEF Spec
=============================================================================
