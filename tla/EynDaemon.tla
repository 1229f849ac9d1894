----------------------------- MODULE EynDaemon -----------------------------
(***************************************************************************)
(* The request/reply library of userland/include/eyn_daemon.h: programs    *)
(* (Clients) call one named daemon over two persistent byte FIFOs, the     *)
(* request FIFO and the reply FIFO that all callers share, and serialise   *)
(* the use of the reply FIFO with a directory used as a lock.  Every       *)
(* system call is one atomic step.  A message on the wire is a frame of    *)
(* HdrLen header units and PayLen payload units, so that a reader that     *)
(* stops in the middle of a frame leaves the rest of it in the pipe.       *)
(***************************************************************************)
EXTENDS Integers, Sequences, FiniteSets, SequencesExt

CONSTANTS
    Clients,    \* programs that call or send
    Daemon,     \* the daemon process, distinct from every client
    MaxCalls,   \* bound: calls and sends each client starts
    MaxKills,   \* bound: processes killed in one behaviour
    Kinds,      \* which operations clients use: "call", "send"
    Timeouts,   \* timeout_ms values; 0 waits forever
    Sizes,      \* TRUE: the payload has the size the daemon expects
    HdrLen, PayLen, \* units of a header and of a payload
    ReqRoom,    \* units the request FIFO holds before write() blocks
    OpenMayFail \* descriptors or FIFO slots may run out

ASSUME ClientsAssumption == Daemon \notin Clients
ASSUME BoundsAssumption == MaxCalls \in Nat /\ MaxKills \in Nat
ASSUME CallAssumption ==
    /\ Kinds \subseteq {"call", "send"}
    /\ Timeouts \subseteq Nat
    /\ Sizes \subseteq BOOLEAN
    /\ OpenMayFail \in BOOLEAN
ASSUME FrameAssumption ==
    /\ HdrLen \in Nat \ {0}
    /\ PayLen \in Nat \ {0}
    /\ ReqRoom \in Nat \ {0}

VARIABLES
    lock,      \* the directory /tmp/daemons/<name>.lock exists
    readers,   \* processes holding a read end of the reply FIFO
    writers,   \* processes holding a write end of the reply FIFO
    req, rep,  \* bytes in the request and in the reply FIFO
    pc,        \* where each client is
    cur,       \* the operation a client is in, or was in last
    timeout,   \* its timeout_ms
    waited,    \* milliseconds spent in its current waiting window
    out,       \* units of its request not yet written
    got,       \* units read of the header or payload being received
    rc,        \* the value its last operation returned
    dpc, dgot, dreq,        \* daemon: where it is, units read, request
    sent, received, orphaned, \* history: requests written, requests taken in,
                            \* whether a lock holder was killed
    kills

shared == <<lock, readers, writers, req, rep>>
client == <<pc, cur, timeout, waited, out, got, rc>>
daemon == <<dpc, dgot, dreq>>
history == <<sent, received, orphaned>>
vars == <<shared, client, daemon, history, kills>>

Message == [from : Clients, seq : 0..MaxCalls, kind : {"call", "send"},
            fits : BOOLEAN]
Unit == [msg : Message, pos : 1..(HdrLen + PayLen)]

\* The bytes of one message on the wire: header first, payload after it.
Frame(m) == [i \in 1..(HdrLen + PayLen) |-> [msg |-> m, pos |-> i]]
Header(m) == SubSeq(Frame(m), 1, HdrLen)
Payload(m) == SubSeq(Frame(m), HdrLen + 1, HdrLen + PayLen)

\* The program points between lock_acquire and the end of lock_release.
Holding == {"openR", "openW", "openQ", "write", "hdr", "pay", "closeR",
            "closeW", "unlock"}
ClientPCs == Holding \cup {"idle", "lock", "sendOpen", "sendWrite", "killed"}
DaemonPCs == {"down", "hdr", "pay", "work", "replyHdr", "replyPay",
              "replyClose"}

Holds(c) == pc[c] \in Holding

NoMessage(c) == [from |-> c, seq |-> 0, kind |-> "send", fits |-> TRUE]

Init ==
    /\ lock = FALSE
    /\ readers = {} /\ writers = {}
    /\ req = <<>> /\ rep = <<>>
    /\ pc = [c \in Clients |-> "idle"]
    /\ cur = [c \in Clients |-> NoMessage(c)]
    /\ timeout = [c \in Clients |-> 0]
    /\ waited = [c \in Clients |-> 0]
    /\ out = [c \in Clients |-> <<>>]
    /\ got = [c \in Clients |-> <<>>]
    /\ rc = [c \in Clients |-> "none"]
    /\ dpc \in {"down", "hdr"} /\ dgot = <<>>
    /\ dreq \in {NoMessage(c) : c \in Clients}
    /\ sent = <<>> /\ received = <<>>
    /\ orphaned = FALSE
    /\ kills = 0

----------------------------------------------------------------------------
(* Pipes.  A read takes what is there, up to what it asks for; the source  *)
(* does not say whether a FIFO keeps its bytes when no end of it is open.  *)

Took(q, have, need) ==
    IF Len(q) < need - Len(have) THEN Len(q) ELSE need - Len(have)
Taken(q, have, need) == have \o SubSeq(q, 1, Took(q, have, need))
Rest(q, have, need) == SubSeq(q, Took(q, have, need) + 1, Len(q))

AfterClose(q, ends) == IF ends = {} THEN {q, <<>>} ELSE {q}

At(c, from) == pc[c] = from
Goto(c, to) == pc' = [pc EXCEPT ![c] = to]
Return(c, code) == rc' = [rc EXCEPT ![c] = code]

----------------------------------------------------------------------------
(* Clients: eyn_daemon_call and eyn_daemon_send.                           *)

StartCall(c) ==
    /\ At(c, "idle") /\ "call" \in Kinds
    /\ cur[c].seq < MaxCalls
    /\ \E t \in Timeouts, f \in Sizes :
        /\ cur' = [cur EXCEPT ![c] = [from |-> c, seq |-> @.seq + 1,
                                      kind |-> "call", fits |-> f]]
        /\ timeout' = [timeout EXCEPT ![c] = t]
    /\ waited' = [waited EXCEPT ![c] = 0]
    /\ Return(c, "none")
    /\ Goto(c, "lock")
    /\ UNCHANGED <<shared, out, got, daemon, history, kills>>

StartSend(c) ==
    /\ At(c, "idle") /\ "send" \in Kinds
    /\ cur[c].seq < MaxCalls
    /\ \E f \in Sizes :
        cur' = [cur EXCEPT ![c] = [from |-> c, seq |-> @.seq + 1,
                                   kind |-> "send", fits |-> f]]
    /\ Return(c, "none")
    /\ Goto(c, "sendOpen")
    /\ UNCHANGED <<shared, timeout, waited, out, got, daemon, history, kills>>

\* Mutated form: mkdir() counts as taking the lock when the directory exists.
LockTaken_ExistsIsFine(c) ==
    /\ At(c, "lock")
    /\ lock' = TRUE
    /\ Goto(c, "openR")
    /\ UNCHANGED <<readers, writers, req, rep, cur, timeout, waited, out, got,
                   rc, daemon, history, kills>>

\* One turn of the mkdir loop that finds no lock directory.
LockTaken(c) ==
    /\ At(c, "lock") /\ ~lock
    /\ lock' = TRUE
    /\ Goto(c, "openR")
    /\ UNCHANGED <<readers, writers, req, rep, cur, timeout, waited, out, got,
                   rc, daemon, history, kills>>

\* One turn that finds it: give up when the window is used up, else sleep 1 ms.
LockBusy(c) ==
    /\ At(c, "lock") /\ lock /\ timeout[c] > 0
    /\ IF waited[c] >= timeout[c]
       THEN /\ Return(c, "time")
            /\ Goto(c, "idle")
            /\ UNCHANGED waited
       ELSE /\ waited' = [waited EXCEPT ![c] = @ + 1]
            /\ UNCHANGED <<pc, rc>>
    /\ UNCHANGED <<shared, cur, timeout, out, got, daemon, history, kills>>

\* open() of a FIFO by process p: the new set of its holders.
Opened(ends, p) == {ends \cup {p}} \cup (IF OpenMayFail THEN {ends} ELSE {})

OpenReader(c) ==
    /\ At(c, "openR")
    /\ readers' \in Opened(readers, c)
    /\ Goto(c, "openW")
    /\ UNCHANGED <<lock, writers, req, rep, cur, timeout, waited, out, got, rc,
                   daemon, history, kills>>

\* Mutated form: the caller keeps no write end of its own.
OpenSelfWriter_NoKeepAlive(c) ==
    /\ At(c, "openW")
    /\ Goto(c, "openQ")
    /\ UNCHANGED <<shared, cur, timeout, waited, out, got, rc, daemon, history,
                   kills>>

OpenSelfWriter(c) ==
    /\ At(c, "openW")
    /\ writers' \in Opened(writers, c)
    /\ IF c \in readers /\ c \in writers'
       THEN Goto(c, "openQ") /\ UNCHANGED rc
       ELSE Goto(c, "closeR") /\ Return(c, "err")
    /\ UNCHANGED <<lock, readers, req, rep, cur, timeout, waited, out, got,
                   daemon, history, kills>>

OpenRequest(c) ==
    /\ \/ At(c, "openQ") /\ Goto(c, "write") /\ UNCHANGED rc
       \/ At(c, "openQ") /\ OpenMayFail /\ Goto(c, "closeR") /\ Return(c, "err")
       \/ At(c, "sendOpen") /\ Goto(c, "sendWrite") /\ UNCHANGED rc
       \/ At(c, "sendOpen") /\ OpenMayFail /\ Goto(c, "idle") /\ Return(c, "err")
    /\ out' = [out EXCEPT ![c] = Frame(cur[c])]
    /\ UNCHANGED <<shared, cur, timeout, waited, got, daemon, history, kills>>

Started(c) == Len(out[c]) < HdrLen + PayLen

\* Processes that hold an end of the request FIFO, without c.
RequestEnds(c) == {d \in Clients \ {c} : pc[d] \in {"write", "sendWrite"}}
                  \cup (IF dpc = "down" THEN {} ELSE {Daemon})

\* Mutated form: the header and the payload in a write() each.
Written_TwoWrites(c) ==
    IF Len(out[c]) > PayLen THEN Len(out[c]) - PayLen ELSE Len(out[c])

\* How many units the next write() of c puts: all there is room for.
Written(c) ==
    LET room == ReqRoom - Len(req)
    IN  IF Len(out[c]) < room THEN Len(out[c]) ELSE room

\* write_all, one write() of its loop; the end is closed after the last.
WriteRequest(c) ==
    LET n == Written(c)
        last == n = Len(out[c])
    IN  /\ pc[c] \in {"write", "sendWrite"}
        /\ n > 0
        /\ req' \in IF last THEN AfterClose(req \o out[c], RequestEnds(c))
                    ELSE {req \o SubSeq(out[c], 1, n)}
        /\ out' = [out EXCEPT ![c] = SubSeq(@, n + 1, Len(@))]
        /\ sent' = IF Started(c) THEN sent ELSE Append(sent, cur[c])
        /\ \/ ~last /\ UNCHANGED <<pc, rc, waited, got>>
           \/ /\ last /\ At(c, "write")
              /\ Goto(c, "hdr")
              /\ waited' = [waited EXCEPT ![c] = 0]
              /\ got' = [got EXCEPT ![c] = <<>>]
              /\ UNCHANGED rc
           \/ /\ last /\ At(c, "sendWrite")
              /\ Goto(c, "idle") /\ Return(c, "sent")
              /\ UNCHANGED <<waited, got>>
        /\ UNCHANGED <<lock, readers, writers, rep, cur, timeout, daemon,
                       received, orphaned, kills>>

\* write() on a FIFO nobody reads may fail.
WriteFails(c) ==
    /\ dpc = "down"
    /\ \/ At(c, "write") /\ Goto(c, "closeR")
       \/ At(c, "sendWrite") /\ Goto(c, "idle")
    /\ Return(c, "err")
    /\ out' = [out EXCEPT ![c] = <<>>]
    /\ req' \in AfterClose(req, RequestEnds(c))
    /\ UNCHANGED <<lock, readers, writers, rep, cur, timeout, waited, got,
                   daemon, history, kills>>

\* recv_framed on the reply FIFO, header part: one read() that finds bytes.
RecvHeader(c) ==
    LET have == Taken(rep, got[c], HdrLen)
        full == Len(have) = HdrLen
    IN  /\ At(c, "hdr") /\ rep # <<>>
        /\ rep' = Rest(rep, got[c], HdrLen)
        /\ got' = [got EXCEPT ![c] = IF full THEN <<>> ELSE have]
        /\ IF ~full THEN UNCHANGED <<pc, rc>>
           ELSE IF have[1].pos = 1  \* the magic number is there
           THEN Goto(c, "pay") /\ UNCHANGED rc
           ELSE Goto(c, "closeR") /\ Return(c, "err")
        /\ UNCHANGED <<lock, readers, writers, req, cur, timeout, waited, out,
                       daemon, history, kills>>

RecvPayload(c) ==
    LET have == Taken(rep, got[c], PayLen)
    IN  /\ At(c, "pay") /\ rep # <<>>
        /\ rep' = Rest(rep, got[c], PayLen)
        /\ got' = [got EXCEPT ![c] = have]
        /\ IF Len(have) = PayLen
           THEN Goto(c, "closeR") /\ Return(c, "ok")
           ELSE UNCHANGED <<pc, rc>>
        /\ UNCHANGED <<lock, readers, writers, req, cur, timeout, waited, out,
                       daemon, history, kills>>

\* Mutated form: the reply FIFO is left in blocking mode.
RecvNothing_Blocks(c) ==
    /\ pc[c] \in {"hdr", "pay"} /\ rep = <<>> /\ writers = {}
    /\ Return(c, "err")
    /\ Goto(c, "closeR")
    /\ UNCHANGED <<shared, cur, timeout, waited, out, got, daemon, history,
                   kills>>

\* One read() that finds nothing: end of file when there is no writer, else
\* the shared budget of header and payload runs down.
RecvNothing(c) ==
    /\ pc[c] \in {"hdr", "pay"} /\ rep = <<>>
    /\ writers # {} => timeout[c] > 0
    /\ IF writers # {} /\ waited[c] < timeout[c]
       THEN /\ waited' = [waited EXCEPT ![c] = @ + 1]
            /\ UNCHANGED <<pc, rc>>
       ELSE /\ Return(c, IF writers = {} THEN "err" ELSE "time")
            /\ Goto(c, "closeR")
            /\ UNCHANGED waited
    /\ UNCHANGED <<shared, cur, timeout, out, got, daemon, history, kills>>

CloseReader(c) ==
    /\ At(c, "closeR")
    /\ readers' = readers \ {c}
    /\ rep' \in AfterClose(rep, readers' \cup writers)
    /\ Goto(c, "closeW")
    /\ UNCHANGED <<lock, writers, req, cur, timeout, waited, out, got, rc,
                   daemon, history, kills>>

\* Mutated form: a return path that does not release the lock.
CloseSelfWriter_KeepsLock(c) ==
    /\ At(c, "closeW")
    /\ writers' = writers \ {c}
    /\ rep' \in AfterClose(rep, readers \cup writers')
    /\ Goto(c, "idle")
    /\ UNCHANGED <<lock, readers, req, cur, timeout, waited, out, got, rc,
                   daemon, history, kills>>

CloseSelfWriter(c) ==
    /\ At(c, "closeW")
    /\ writers' = writers \ {c}
    /\ rep' \in AfterClose(rep, readers \cup writers')
    /\ Goto(c, "unlock")
    /\ UNCHANGED <<lock, readers, req, cur, timeout, waited, out, got, rc,
                   daemon, history, kills>>

LockRelease(c) ==
    /\ At(c, "unlock")
    /\ lock' = FALSE
    /\ Goto(c, "idle")
    /\ UNCHANGED <<readers, writers, req, rep, cur, timeout, waited, out, got,
                   rc, daemon, history, kills>>

\* The kernel closes the ends a killed client held; nothing removes the lock.
KillClient(c) ==
    /\ pc[c] # "killed" /\ kills < MaxKills
    /\ kills' = kills + 1
    /\ orphaned' = (orphaned \/ Holds(c))
    /\ readers' = readers \ {c}
    /\ writers' = writers \ {c}
    /\ rep' \in AfterClose(rep, readers' \cup writers')
    /\ req' \in IF pc[c] \in {"write", "sendWrite"}
                THEN AfterClose(req, RequestEnds(c)) ELSE {req}
    /\ Goto(c, "killed")
    /\ UNCHANGED <<lock, cur, timeout, waited, out, got, rc, daemon, sent,
                   received>>

----------------------------------------------------------------------------
(* The daemon: eyn_daemon_listen, then the receive/handle/reply loop that  *)
(* packages/ftpd runs.                                                     *)

DaemonListen ==
    /\ dpc = "down"
    /\ dpc' = "hdr"
    /\ dgot' = <<>>
    /\ UNCHANGED <<shared, client, dreq, history, kills>>

DaemonRecvHeader ==
    LET have == Taken(req, dgot, HdrLen)
        full == Len(have) = HdrLen
    IN  /\ dpc = "hdr" /\ req # <<>>
        /\ req' = Rest(req, dgot, HdrLen)
        /\ IF full /\ have[1].pos = 1
           THEN dpc' = "pay" /\ dreq' = have[1].msg
           ELSE UNCHANGED <<dpc, dreq>>     \* wrong magic: receive again
        /\ dgot' = IF full THEN <<>> ELSE have
        /\ UNCHANGED <<lock, readers, writers, rep, client, history, kills>>

\* The payload completes a request; one of the wrong size is dropped.
DaemonRecvPayload ==
    LET have == Taken(req, dgot, PayLen)
        full == Len(have) = PayLen
    IN  /\ dpc = "pay" /\ req # <<>>
        /\ req' = Rest(req, dgot, PayLen)
        /\ dgot' = IF full THEN <<>> ELSE have
        /\ dpc' = IF ~full THEN "pay" ELSE IF dreq.fits THEN "work" ELSE "hdr"
        /\ received' = IF full
                     THEN Append(received, [dreq EXCEPT !.seq = have[1].msg.seq,
                                                      !.from = have[1].msg.from])
                     ELSE received
        /\ UNCHANGED <<lock, readers, writers, rep, client, dreq, sent,
                       orphaned, kills>>

\* Mutated form: sends, which want no reply, get one.
DaemonHandled_RepliesToSends ==
    /\ dpc = "work"
    /\ writers' \in Opened(writers, Daemon)
    /\ dpc' = IF Daemon \in writers' THEN "replyHdr" ELSE "hdr"
    /\ UNCHANGED <<lock, readers, req, rep, client, dgot, dreq, history, kills>>

\* The handler is done; a request that wants one gets a reply, unless the
\* reply FIFO does not open.
DaemonHandled ==
    /\ dpc = "work"
    /\ writers' \in IF dreq.kind = "call" THEN Opened(writers, Daemon)
                                         ELSE {writers}
    /\ dpc' = IF Daemon \in writers' THEN "replyHdr" ELSE "hdr"
    /\ UNCHANGED <<lock, readers, req, rep, client, dgot, dreq, history, kills>>

\* eyn_daemon_reply writes the header and the payload in two writes.
DaemonReply ==
    /\ \/ /\ dpc = "replyHdr"
          /\ rep' = rep \o Header(dreq)
          /\ dpc' = "replyPay"
       \/ /\ dpc = "replyPay"
          /\ rep' = rep \o Payload(dreq)
          /\ dpc' = "replyClose"
       \/ /\ dpc \in {"replyHdr", "replyPay"}
          /\ readers = {}     \* write() on a FIFO nobody reads may fail
          /\ dpc' = "replyClose"
          /\ UNCHANGED rep
    /\ UNCHANGED <<lock, readers, writers, req, client, dgot, dreq, history,
                   kills>>

DaemonReplyClose ==
    /\ dpc = "replyClose"
    /\ writers' = writers \ {Daemon}
    /\ rep' \in AfterClose(rep, readers \cup writers')
    /\ dpc' = "hdr"
    /\ UNCHANGED <<lock, readers, req, client, dgot, dreq, history, kills>>

\* The daemon dies; requests nobody reads may be lost with its FIFO ends.
KillDaemon ==
    /\ dpc # "down" /\ kills < MaxKills
    /\ kills' = kills + 1
    /\ dpc' = "down"
    /\ dgot' = <<>>
    /\ writers' = writers \ {Daemon}
    /\ rep' \in AfterClose(rep, readers \cup writers')
    /\ req' \in AfterClose(req, {c \in Clients : pc[c] \in {"write", "sendWrite"}})
    /\ UNCHANGED <<lock, readers, client, dreq, history>>

----------------------------------------------------------------------------
ClientStep(c) ==
    \/ LockTaken(c) \/ LockBusy(c)
    \/ OpenReader(c) \/ OpenSelfWriter(c) \/ OpenRequest(c)
    \/ WriteRequest(c) \/ WriteFails(c)
    \/ RecvHeader(c) \/ RecvPayload(c) \/ RecvNothing(c)
    \/ CloseReader(c) \/ CloseSelfWriter(c) \/ LockRelease(c)

DaemonStep ==
    \/ DaemonListen
    \/ DaemonRecvHeader \/ DaemonRecvPayload \/ DaemonHandled
    \/ DaemonReply \/ DaemonReplyClose

Next ==
    \/ \E c \in Clients :
        StartCall(c) \/ StartSend(c) \/ ClientStep(c) \/ KillClient(c)
    \/ DaemonStep
    \/ KillDaemon

Spec == Init /\ [][Next]_vars

\* Programs that can run are scheduled; nothing is assumed of the daemon.
FairSpec == Spec /\ \A c \in Clients : WF_vars(ClientStep(c))

\* The same, with a daemon that listens from the start.
ServedInit == Init /\ dpc = "hdr"
ServedSpec ==
    /\ ServedInit /\ [][Next]_vars
    /\ \A c \in Clients : WF_vars(ClientStep(c))

----------------------------------------------------------------------------
Codes == {"none", "ok", "sent", "err", "time"}

SharedOK ==
    /\ lock \in BOOLEAN
    /\ readers \subseteq Clients
    /\ writers \subseteq Clients \cup {Daemon}
    /\ req \in Seq(Unit) /\ rep \in Seq(Unit)

ClientOK ==
    /\ pc \in [Clients -> ClientPCs]
    /\ cur \in [Clients -> Message]
    /\ timeout \in [Clients -> Nat] /\ waited \in [Clients -> Nat]
    /\ out \in [Clients -> Seq(Unit)] /\ got \in [Clients -> Seq(Unit)]
    /\ rc \in [Clients -> Codes]

DaemonOK ==
    /\ dpc \in DaemonPCs /\ dgot \in Seq(Unit) /\ dreq \in Message
    /\ dpc = "hdr" => Len(dgot) < HdrLen
    /\ dpc = "pay" => Len(dgot) < PayLen
    /\ dpc \notin {"hdr", "pay"} => dgot = <<>>

\* A caller never reads more of a part of a reply than that part has.
ReceiveOK ==
    \A c \in Clients : /\ pc[c] = "hdr" => Len(got[c]) < HdrLen
                       /\ pc[c] = "pay" => Len(got[c]) < PayLen

HistoryOK ==
    /\ sent \in Seq(Message) /\ received \in Seq(Message)
    /\ orphaned \in BOOLEAN
    /\ kills \in 0..MaxKills

\* The shapes of the state, and that no receive overruns its buffer.
TypeOK == SharedOK /\ ClientOK /\ DaemonOK /\ ReceiveOK /\ HistoryOK

\* The lock serialises the reply FIFO: of all callers, one at a time is
\* between lock_acquire and lock_release, and nobody else holds a read end,
\* whatever times out, fails to open or is killed.
ReplyChannelExclusive ==
    /\ \A c, d \in Clients : Holds(c) /\ Holds(d) => c = d
    /\ \A c \in readers : Holds(c)

\* Every return path of eyn_daemon_call releases the lock: when the lock
\* directory exists, a live caller is using it or one was killed using it.
LockAccounted == lock <=> orphaned \/ \E c \in Clients : Holds(c)

\* A call that returns a reply returns the reply to its own request.
OwnReply ==
    \A c \in Clients : rc[c] = "ok" => got[c] = Payload(cur[c])

\* The daemon takes in the requests that were written, each one whole and
\* once, in the order they were written, although senders take no lock.
RequestsIntact == kills = 0 => IsPrefix(received, sent)

\* A call with a timeout returns even when the daemon is gone, never
\* answers, or the lock is never released.
TimedCallReturns ==
    \A c \in Clients :
        At(c, "lock") /\ timeout[c] > 0 ~> pc[c] \in {"idle", "killed"}

\* A call without a timeout gets its answer, as long as the daemon is run,
\* its handlers return and nobody is killed or gives up.
CallAnswered ==
    WF_vars(DaemonStep) /\ [](kills = 0 /\ \A c \in Clients : rc[c] # "time") =>
        \A c \in Clients :
            At(c, "lock") ~> At(c, "closeR") /\ rc[c] = "ok"
=============================================================================
