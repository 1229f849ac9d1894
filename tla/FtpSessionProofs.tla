--------------------------- MODULE FtpSessionProofs ---------------------------
(* Proofs about FtpSession, for files of any length and any limit of polls. *)
EXTENDS FtpSession, SequenceTheorems, TLAPS

\* The parts of a request.
Asking == {"GREET", "USER", "PASS", "TYPE", "PASV"}
Between == {"connect", "pasv", "open", "xfer"}
Moving == {"drain", "check", "upload", "END"}
Leaving == {"leave", "QUIT"}
Fresh == pc = "idle" /\ resp = "none"

Typed ==
    /\ pc \in Asking \cup Between \cup Moving \cup Leaving \cup {"idle", "XFER"}
    /\ op \in Ops /\ held \subseteq {"control", "data", "file"}
    /\ resp \in {"none", "ok", "error"}
    /\ taken \in Nat /\ moved \in 0..Chunks
    /\ sent \in Flow /\ arrived \in Flow
    /\ broken \in BOOLEAN /\ raced \in BOOLEAN

\* What is open once the handler is on its way out.
HeldInv ==
    /\ pc \in {"idle", "connect"} => held = {}
    /\ pc \in Leaving \cup {"END"} => held = {"control"}

\* The result is known on the way out, and only there.
ResultInv ==
    /\ pc \in Leaving => resp # "none"
    /\ pc \notin Leaving \cup {"idle"} => resp = "none"

\* One command waits for its reply at a time: either the server has not
\* answered, or the answer is all there is to read.  The end of a transfer is
\* answered after the reply to its command, perhaps before that is read.
Opened == due = <<>> /\ wire = <<>> /\ said = 0
Asked(step) ==
    /\ said = 0
    /\ \/ due = <<step>> /\ wire = <<>>
       \/ due = <<>> /\ \E code \in Codes(step) : wire \in Replies(step, code)
Ended == due = <<>> /\ said \in Codes("END")
TalkInv ==
    /\ pc \in Between \/ Fresh => Opened
    /\ pc \in Asking => Asked(pc)
    /\ pc = "XFER" =>
           \/ Asked("XFER") /\ (due = <<>> => wire \in Replies("XFER", 550))
           \/ due = <<"END">> /\ said = 0 /\ wire \in Replies("XFER", 150)
           \/ /\ Ended
              /\ \E a \in Replies("XFER", 150), b \in Replies("END", said) :
                     wire = a \o b
    /\ pc \in Moving =>
           \/ due = <<"END">> /\ said = 0 /\ wire = <<>>
           \/ Ended /\ wire \in Replies("END", said)

\* Commands without a reply, when the handler gives up: one, and QUIT.  None
\* but QUIT once the end of the transfer was answered.
DueInv ==
    /\ pc = "leave" => due = <<>> \/ \E x \in Steps \ {"QUIT"} : due = <<x>>
    /\ pc \in {"QUIT", "idle"} =>
           \/ due \in {<<>>, <<"QUIT">>}
           \/ \E x \in Steps \ {"QUIT"} : due \in {<<x>>, <<x, "QUIT">>}
    /\ said # 0 => due \in {<<>>, <<"QUIT">>}

\* The server confirms what it sent whole, or took, over a sound connection.
SaidInv ==
    said = 226 => ~broken /\ (op # "PUT" => sent.closed /\ sent.n = Chunks)

\* What is read was sent, in order, and the end comes last.
FlowInv ==
    /\ pc \in Between \cup Asking \cup {"XFER"} \/ Fresh => taken = 0 /\ moved = 0
    /\ pc = "upload" => op = "PUT"
    /\ pc \in {"drain", "check"} => op # "PUT"
    /\ Fresh => sent = Silent /\ arrived = Silent
    /\ op # "PUT" =>
           /\ taken <= arrived.n /\ arrived.n <= sent.n
           /\ arrived.closed => sent.closed /\ arrived.n = sent.n
           /\ pc \in {"drain", "check"} => moved = taken
           /\ pc = "END" => \/ raced \/ broken
                            \/ arrived.closed /\ moved = arrived.n
    /\ op = "PUT" /\ pc = "END" => arrived.n = Chunks

\* What a success says.
OkInv ==
    resp = "ok" =>
        /\ said = 226
        /\ op = "FETCH" => moved = Chunks \/ raced
        /\ op = "PUT" => arrived.n = Chunks

IInv ==
    /\ Typed /\ HeldInv /\ ResultInv /\ TalkInv /\ DueInv
    /\ SaidInv /\ FlowInv /\ OkInv

----------------------------------------------------------------------------
(* Replies.                                                                *)

\* Codes by step; a transfer is begun by one code only.
LEMMA CodeFacts ==
    /\ \A step \in Steps : Codes(step) \subseteq Nat \ {0}
    /\ \A step \in Steps \ {"XFER"} : 150 \notin Codes(step)
    /\ Codes("XFER") = {150, 550}
    /\ Codes("END") = {226, 426}
    /\ Positive(226) /\ ~Positive(426)
  <1>1. ASSUME NEW step \in Steps
        PROVE  /\ Codes(step) \subseteq Nat \ {0}
               /\ step # "XFER" => 150 \notin Codes(step)
    BY DEF Codes, Steps
  <1>2. Codes("XFER") = {150, 550} /\ Codes("END") = {226, 426}
    BY DEF Codes
  <1>3. Positive(226) /\ ~Positive(426)
    BY DEF Positive
  <1> QED
    BY <1>1, <1>2, <1>3

\* A reply is one line or two; the last one is marked, no other.
LEMMA ReplyFacts ==
    ASSUME NEW step \in Steps, NEW code \in Nat, NEW r \in Replies(step, code)
    PROVE  /\ r \in Seq(Line) /\ Len(r) \in {1, 2}
           /\ r[1].re = step /\ r[1].code = code
           /\ r[Len(r)].last
           /\ \A i \in 1..Len(r) : r[i].last => i = Len(r)
  <1> DEFINE line(last) == [re |-> step, code |-> code, last |-> last]
  <1>1. line(TRUE) \in Line /\ line(FALSE) \in Line
    BY DEF Line
  <1>2. r = <<line(TRUE)>> \/ r = <<line(FALSE), line(TRUE)>>
    BY DEF Replies
  <1>3. CASE r = <<line(TRUE)>>
    BY <1>1, <1>3
  <1>4. CASE r = <<line(FALSE), line(TRUE)>>
    BY <1>1, <1>4
  <1> QED
    BY <1>2, <1>3, <1>4

\* Reading takes the first reply and leaves the next.
LEMMA FirstReply ==
    ASSUME NEW step \in Steps, NEW code \in Nat, NEW r \in Replies(step, code),
           NEW more \in Seq(Line), wire = r \o more
    PROVE  /\ ReplyReady /\ wire[1].re = step /\ wire[1].code = code
           /\ Read => wire' = more
  <1> DEFINE n == Len(r)
  <1>1. /\ r \in Seq(Line) /\ n \in {1, 2}
        /\ r[1].re = step /\ r[1].code = code
        /\ r[n].last
        /\ \A i \in 1..n : r[i].last => i = n
    BY ReplyFacts
  <1>2. /\ wire \in Seq(Line) /\ Len(wire) = n + Len(more)
        /\ \A i \in 1..n : wire[i] = r[i]
    BY <1>1, ConcatProperties
  <1>3. n \in Lasts /\ \A j \in Lasts : n <= j
    <2>1. DOMAIN wire = 1..Len(wire)
      BY <1>2
    <2>2. n \in Lasts
      BY <1>1, <1>2, <2>1, LenProperties DEF Lasts
    <2>3. \A j \in Lasts : j \in 1..n => j = n
      BY <1>1, <1>2 DEF Lasts
    <2> QED
      BY <1>1, <2>1, <2>2, <2>3 DEF Lasts
  <1>4. FirstLast = n
    <2>1. FirstLast \in Lasts /\ \A j \in Lasts : FirstLast <= j
      BY <1>3 DEF FirstLast
    <2>2. FirstLast \in Nat /\ n \in Nat
      BY <1>1, <1>2, <2>1 DEF Lasts
    <2> QED
      BY <1>3, <2>1, <2>2
  <1>5. SubSeq(wire, n + 1, Len(wire)) = more
    BY <1>1, <1>2
  <1>6. ReplyReady /\ wire[1].re = step /\ wire[1].code = code
    BY <1>1, <1>2, <1>3 DEF ReplyReady
  <1> QED
    BY <1>4, <1>5, <1>6 DEF Read

\* The only reply.
LEMMA OnlyReply ==
    ASSUME NEW step \in Steps, NEW code \in Nat, wire \in Replies(step, code)
    PROVE  /\ ReplyReady /\ wire[1].re = step /\ wire[1].code = code
           /\ Read => wire' = <<>>
  <1>1. wire \in Seq(Line)
    BY ReplyFacts
  <1>2. <<>> \in Seq(Line) /\ wire = wire \o <<>>
    BY <1>1
  <1> QED
    BY <1>2, FirstReply

LEMMA NothingToRead == ASSUME wire = <<>> PROVE ~ReplyReady
  BY DEF ReplyReady, Lasts

----------------------------------------------------------------------------
(* The client's steps.                                                     *)

LEMMA InitHolds == Init => IInv
  <1> SUFFICES ASSUME Init PROVE IInv
    OBVIOUS
  <1> USE DEF Asking, Between, Moving, Leaving, Fresh
  <1>1. Typed
    <2>1. 0 \in 0..Chunks /\ Silent \in Flow
      BY SessionAssumption DEF Silent, Flow
    <2> QED
      BY <2>1 DEF Init, Typed, Ops
  <1>2. HeldInv /\ ResultInv /\ TalkInv /\ DueInv
    BY DEF Init, HeldInv, ResultInv, TalkInv, Opened, DueInv
  <1>3. SaidInv /\ FlowInv /\ OkInv
    BY SessionAssumption DEF Init, SaidInv, FlowInv, Silent, OkInv
  <1> QED
    BY <1>1, <1>2, <1>3 DEF IInv

\* A reply that is read while one command waits is its answer, and the last.
LEMMA AskedRead ==
    ASSUME NEW step \in Steps, Asked(step), ReplyReady
    PROVE  /\ due = <<>> /\ said = 0 /\ wire[1].re = step
           /\ Read => wire' = <<>>
  <1>1. PICK code \in Codes(step) : wire \in Replies(step, code)
    BY NothingToRead DEF Asked
  <1>2. code \in Nat /\ due = <<>> /\ said = 0
    BY <1>1, CodeFacts, NothingToRead DEF Asked
  <1> QED
    BY <1>1, <1>2, OnlyReply

\* Every path that gives up leaves one command at most without a reply.
LEMMA GiveUpKeeps ==
    ASSUME IInv, GiveUp, pc \notin Leaving \cup {"idle"},
           UNCHANGED <<op, due, said, sent, broken>>,
           taken' \in Nat, moved' \in 0..Chunks, raced' \in BOOLEAN,
           arrived' \in Flow,
           op # "PUT" => UNCHANGED arrived /\ taken' <= arrived.n
    PROVE  IInv'
  <1> USE DEF GiveUp, Status, Asking, Between, Moving, Leaving, Fresh
  <1>1. Typed'
    BY DEF IInv, Typed
  <1>2. HeldInv' /\ ResultInv' /\ TalkInv'
    BY DEF HeldInv, ResultInv, TalkInv
  <1>3. DueInv'
    <2>1. due = <<>> \/ \E x \in Steps \ {"QUIT"} : due = <<x>>
      BY DEF IInv, Typed, TalkInv, Opened, Asked, Ended, Steps
    <2> QED
      BY <2>1 DEF IInv, DueInv
  <1>4. SaidInv'
    BY DEF IInv, SaidInv
  <1>5. FlowInv'
    BY DEF IInv, FlowInv
  <1>6. OkInv'
    BY DEF OkInv
  <1> QED
    BY <1>1, <1>2, <1>3, <1>4, <1>5, <1>6 DEF IInv

\* A step of the opening: only the conversation moves on.
LEMMA OpeningKeeps ==
    ASSUME IInv, pc' \in Between \cup Asking \cup {"XFER"},
           Fresh \/ (pc \in Between \cup Asking /\ op' = op),
           Typed', HeldInv', TalkInv', said = 0,
           resp' = "none",
           UNCHANGED <<taken, moved, raced, said, sent, arrived, broken>>
    PROVE  IInv'
  <1> USE DEF Asking, Between, Moving, Leaving, Fresh
  <1>1. ResultInv' /\ DueInv' /\ SaidInv' /\ OkInv'
    BY DEF ResultInv, DueInv, SaidInv, OkInv
  <1>2. FlowInv'
    <2>1. taken = 0 /\ moved = 0
      BY DEF IInv, FlowInv
    <2>2. CASE Fresh
      BY <2>1, <2>2 DEF IInv, FlowInv, Silent
    <2>3. CASE pc \in Between \cup Asking /\ op' = op
      BY <2>1, <2>3 DEF IInv, FlowInv
    <2> QED
      BY <2>2, <2>3
  <1> QED
    BY <1>1, <1>2 DEF IInv

LEMMA RequestKeeps ==
    ASSUME IInv, NEW o \in Ops, Request(o)
    PROVE  IInv'
  <1>1. /\ Fresh /\ op' = o /\ pc' = "connect"
        /\ UNCHANGED <<held, resp, Progress, server>>
    BY DEF Request, Fresh
  <1> USE DEF Progress, server, Asking, Between, Moving, Leaving
  <1>2. Opened
    BY <1>1 DEF IInv, TalkInv
  <1>3. Typed' /\ HeldInv'
    BY <1>1 DEF IInv, Typed, HeldInv, Fresh
  <1>4. TalkInv'
    BY <1>1, <1>2 DEF TalkInv, Opened, Fresh
  <1> QED
    BY <1>1, <1>2, <1>3, <1>4, OpeningKeeps DEF Opened, Fresh

LEMMA ConnectKeeps == ASSUME IInv, Connect \/ ConnectFails PROVE IInv'
  <1>1. /\ pc = "connect" /\ resp = "none"
        /\ UNCHANGED <<op, Progress, wire, Data>>
    BY DEF Connect, ConnectFails, server, Data, IInv, ResultInv, Leaving
  <1> USE DEF Progress, Data, Asking, Between, Moving, Leaving
  <1>2. due = <<>> /\ wire = <<>> /\ said = 0
    BY <1>1 DEF IInv, TalkInv, Opened
  <1>3. CASE Connect
    <2>1. /\ held' = {"control"} /\ due' = <<"GREET">> /\ pc' = "GREET"
          /\ resp' = resp
      BY <1>2, <1>3 DEF Connect, SendLine
    <2>2. Typed' /\ HeldInv'
      BY <1>1, <2>1 DEF IInv, Typed, HeldInv
    <2>3. TalkInv'
      BY <1>1, <1>2, <2>1 DEF TalkInv, Asked, Fresh
    <2> QED
      BY <1>1, <1>2, <2>1, <2>2, <2>3, OpeningKeeps
  <1>4. CASE ConnectFails
    <2>1. /\ held' = held /\ due' = due /\ pc' = "idle" /\ resp' = "error"
      BY <1>4 DEF ConnectFails, Status, server
    <2>2. Typed' /\ HeldInv' /\ ResultInv' /\ TalkInv' /\ DueInv'
      BY <1>1, <1>2, <2>1
         DEF IInv, Typed, HeldInv, ResultInv, TalkInv, DueInv, Fresh
    <2>3. SaidInv' /\ FlowInv' /\ OkInv'
      BY <1>1, <1>2, <2>1 DEF IInv, SaidInv, FlowInv, OkInv, Fresh
    <2> QED
      BY <2>2, <2>3 DEF IInv
  <1> QED
    BY <1>3, <1>4

LEMMA LoginReplyKeeps == ASSUME IInv, LoginReply PROVE IInv'
  <1>1. /\ pc \in LoginSteps /\ Read /\ resp = "none" /\ ReplyReady
        /\ UNCHANGED <<op, held, resp, Progress, Data>>
    BY DEF LoginReply, IInv, ResultInv, Leaving, LoginSteps, Read
  <1> USE DEF Progress, Data, Asking, Between, Moving, Leaving, LoginSteps
  <1>2. due = <<>> /\ wire' = <<>> /\ said = 0
    <2>1. Asked(pc) /\ pc \in Steps
      BY <1>1 DEF IInv, TalkInv, Steps
    <2> QED
      BY <1>1, <2>1, AskedRead
  <1>3. \/ pc' \in {"open", "pasv"} /\ due' = <<>>
        \/ pc' \in {"USER", "PASS", "TYPE"} /\ due' = <<pc'>>
    <2>1. LoginNext(pc, wire[1].code) \in {"USER", "PASS", "TYPE", "in", "failed"}
      BY DEF LoginNext
    <2> QED
      BY <1>2, <2>1 DEF LoginReply, SendLine
  <1>4. Typed' /\ HeldInv'
    BY <1>1, <1>3 DEF IInv, Typed, HeldInv
  <1>5. TalkInv'
    <2>1. CASE pc' \in {"open", "pasv"} /\ due' = <<>>
      BY <1>1, <1>2, <2>1 DEF TalkInv, Opened, Fresh
    <2>2. CASE pc' \in {"USER", "PASS", "TYPE"} /\ due' = <<pc'>>
      BY <1>1, <1>2, <2>2 DEF TalkInv, Asked, Fresh
    <2> QED
      BY <1>3, <2>1, <2>2
  <1> QED
    BY <1>1, <1>2, <1>3, <1>4, <1>5, OpeningKeeps

LEMMA LoginFailsKeeps == ASSUME IInv, LoginFails PROVE IInv'
  <1>1. /\ pc \in LoginSteps /\ held' = {} /\ pc' = "idle" /\ resp' = "error"
        /\ UNCHANGED <<op, Progress, due, Data>>
    BY DEF LoginFails, Status
  <1> USE DEF Progress, Data, Asking, Between, Moving, Leaving, LoginSteps
  <1>2. Typed' /\ HeldInv' /\ ResultInv' /\ TalkInv'
    BY <1>1 DEF IInv, Typed, HeldInv, ResultInv, TalkInv, Fresh
  <1>3. DueInv'
    <2>1. due = <<>> \/ \E x \in Steps \ {"QUIT"} : due = <<x>>
      BY <1>1 DEF IInv, TalkInv, Asked, Steps
    <2> QED
      BY <1>1, <2>1 DEF IInv, DueInv
  <1>4. SaidInv' /\ FlowInv' /\ OkInv'
    BY <1>1 DEF IInv, SaidInv, FlowInv, OkInv, Fresh
  <1> QED
    BY <1>2, <1>3, <1>4 DEF IInv

LEMMA SendPasvKeeps == ASSUME IInv, SendPasv PROVE IInv'
  <1>1. /\ pc = "pasv" /\ pc' = "PASV" /\ resp = "none"
        /\ UNCHANGED <<op, held, resp, Progress, wire, Data>>
    BY DEF SendPasv, IInv, ResultInv, Leaving
  <1> USE DEF Progress, Data, Asking, Between, Moving, Leaving
  <1>2. due' = <<"PASV">> /\ wire = <<>> /\ said = 0
    BY <1>1 DEF SendPasv, SendLine, IInv, TalkInv, Opened
  <1>3. Typed' /\ HeldInv'
    BY <1>1 DEF IInv, Typed, HeldInv
  <1>4. TalkInv'
    BY <1>1, <1>2 DEF TalkInv, Asked, Fresh
  <1> QED
    BY <1>1, <1>2, <1>3, <1>4, OpeningKeeps

LEMMA PasvReplyKeeps == ASSUME IInv, PasvReply PROVE IInv'
  <1>1. /\ pc = "PASV" /\ Read /\ pc' \in {"open", "xfer"} /\ resp = "none"
        /\ held' = held \cup {"data"} /\ ReplyReady
        /\ UNCHANGED <<op, resp, Progress, due, Data>>
    BY DEF PasvReply, IInv, ResultInv, Leaving, Read
  <1> USE DEF Progress, Data, Asking, Between, Moving, Leaving
  <1>2. due = <<>> /\ wire' = <<>> /\ said = 0
    <2>1. Asked(pc) /\ pc \in Steps
      BY <1>1 DEF IInv, TalkInv, Steps
    <2> QED
      BY <1>1, <2>1, AskedRead
  <1>3. Typed' /\ HeldInv'
    BY <1>1 DEF IInv, Typed, HeldInv
  <1>4. TalkInv'
    BY <1>1, <1>2 DEF TalkInv, Opened, Fresh
  <1> QED
    BY <1>1, <1>2, <1>3, <1>4, OpeningKeeps

LEMMA OpenFileKeeps == ASSUME IInv, OpenFile PROVE IInv'
  <1>1. /\ pc = "open" /\ pc' \in {"pasv", "xfer"} /\ resp = "none"
        /\ held' = held \cup {"file"}
        /\ UNCHANGED <<op, resp, Progress, server>>
    BY DEF OpenFile, IInv, ResultInv, Leaving
  <1> USE DEF Progress, server, Asking, Between, Moving, Leaving
  <1>2. Opened
    BY <1>1 DEF IInv, TalkInv
  <1>3. Typed' /\ HeldInv'
    BY <1>1 DEF IInv, Typed, HeldInv
  <1>4. TalkInv'
    BY <1>1, <1>2 DEF TalkInv, Opened, Fresh
  <1> QED
    BY <1>1, <1>2, <1>3, <1>4, OpeningKeeps DEF Opened

LEMMA SendXferKeeps == ASSUME IInv, SendXfer PROVE IInv'
  <1>1. /\ pc = "xfer" /\ pc' = "XFER" /\ resp = "none"
        /\ UNCHANGED <<op, held, resp, Progress, wire, Data>>
    BY DEF SendXfer, IInv, ResultInv, Leaving
  <1> USE DEF Progress, Data, Asking, Between, Moving, Leaving
  <1>2. due' = <<"XFER">> /\ wire = <<>> /\ said = 0
    BY <1>1 DEF SendXfer, SendLine, IInv, TalkInv, Opened
  <1>3. Typed' /\ HeldInv'
    BY <1>1 DEF IInv, Typed, HeldInv
  <1>4. TalkInv'
    BY <1>1, <1>2 DEF TalkInv, Asked, Fresh
  <1> QED
    BY <1>1, <1>2, <1>3, <1>4, OpeningKeeps

\* The steps that give up before the transfer.
LEMMA FailsKeep == ASSUME IInv, PasvFails \/ OpenFails \/ XferFails PROVE IInv'
  <1>1. /\ pc \in {"pasv", "PASV", "open", "xfer", "XFER"} /\ GiveUp
        /\ UNCHANGED <<op, Progress, due, Data>>
    BY DEF PasvFails, OpenFails, XferFails, server, Data
  <1>2. taken = 0 /\ moved = 0
    BY <1>1 DEF IInv, FlowInv, Between, Asking
  <1> QED
    BY <1>1, <1>2, GiveUpKeeps
       DEF IInv, Typed, FlowInv, Progress, Data, Leaving

\* The transfer begins: what is then in flight is the reply to its end.
LEMMA XferReplyKeeps == ASSUME IInv, XferReply PROVE IInv'
  <1>1. /\ pc = "XFER" /\ Read /\ wire[1].code \in {125, 150} /\ ReplyReady
        /\ pc' = (IF op = "PUT" THEN "upload" ELSE "drain") /\ resp = "none"
        /\ UNCHANGED <<op, held, resp, Progress, due, Data>>
    BY DEF XferReply, IInv, ResultInv, Leaving, Read
  <1> USE DEF Progress, Data, Asking, Between, Moving, Leaving
  <1>2. \/ due = <<"END">> /\ said = 0 /\ wire' = <<>>
        \/ Ended /\ wire' \in Replies("END", said)
    <2>1. CASE Asked("XFER") /\ (due = <<>> => wire \in Replies("XFER", 550))
      <3>1. wire \in Replies("XFER", 550)
        BY <1>1, <2>1, AskedRead DEF Steps
      <3>2. wire[1].code = 550
        BY <3>1, OnlyReply DEF Steps
      <3> QED
        BY <1>1, <3>2
    <2>2. CASE due = <<"END">> /\ said = 0 /\ wire \in Replies("XFER", 150)
      BY <1>1, <2>2, OnlyReply DEF Steps
    <2>3. ASSUME Ended, NEW a \in Replies("XFER", 150), NEW b \in Replies("END", said),
                 wire = a \o b
          PROVE  wire' = b
      <3>1. b \in Seq(Line)
        BY <2>3, ReplyFacts, CodeFacts DEF Ended, Steps
      <3> QED
        BY <1>1, <2>3, <3>1, FirstReply DEF Steps
    <2> QED
      BY <1>1, <2>1, <2>2, <2>3 DEF IInv, TalkInv
  <1>3. Typed' /\ HeldInv' /\ ResultInv'
    BY <1>1 DEF IInv, Typed, HeldInv, ResultInv
  <1>4. TalkInv'
    BY <1>1, <1>2 DEF TalkInv, Ended, Fresh
  <1>5. DueInv' /\ SaidInv' /\ OkInv'
    BY <1>1 DEF IInv, DueInv, SaidInv, OkInv
  <1>6. FlowInv'
    BY <1>1 DEF IInv, FlowInv, Fresh
  <1> QED
    BY <1>3, <1>4, <1>5, <1>6 DEF IInv

----------------------------------------------------------------------------
(* The transfer.                                                           *)

\* A step of the transfer leaves the conversation as it is.
LEMMA MovingKeeps ==
    ASSUME IInv, pc \in Moving, pc' \in Moving, UNCHANGED <<op, resp, due, wire>>,
           UNCHANGED <<sent, broken, said>>,
           Typed', HeldInv', FlowInv'
    PROVE  IInv'
  <1> USE DEF Asking, Between, Moving, Leaving
  <1>1. resp = "none"
    BY DEF IInv, ResultInv
  <1>2. ResultInv' /\ DueInv' /\ SaidInv' /\ OkInv'
    BY <1>1 DEF IInv, ResultInv, DueInv, SaidInv, OkInv
  <1>3. TalkInv'
    BY DEF IInv, TalkInv, Ended, Fresh
  <1> QED
    BY <1>2, <1>3 DEF IInv

LEMMA DrainKeeps == ASSUME IInv, Drain PROVE IInv'
  <1>1. PICK n \in 1..Queued : taken' = taken + n /\ moved' = moved + n
    BY DEF Drain
  <1>2. /\ pc = "drain" /\ op # "PUT"
        /\ UNCHANGED <<pc, op, held, resp, raced, server>>
    BY DEF Drain, IInv, FlowInv
  <1> USE DEF server
  <1>3. /\ taken \in Nat /\ moved = taken /\ arrived.n \in 0..Chunks /\ n \in Nat
        /\ taken + n <= arrived.n
    BY <1>1, <1>2 DEF IInv, Typed, FlowInv, Flow, Queued
  <1>4. Typed'
    BY <1>1, <1>2, <1>3, SessionAssumption DEF IInv, Typed
  <1>5. HeldInv'
    BY <1>2 DEF IInv, HeldInv
  <1>6. FlowInv'
    BY <1>1, <1>2, <1>3 DEF IInv, FlowInv, Between, Asking, Fresh
  <1> QED
    BY <1>2, <1>4, <1>5, <1>6, MovingKeeps DEF Moving

LEMMA DrainFailsKeeps == ASSUME IInv, DrainFails PROVE IInv'
  <1>1. /\ pc = "drain" /\ op # "PUT" /\ GiveUp
        /\ UNCHANGED <<op, idle, moved, raced, server>>
    BY DEF DrainFails, IInv, FlowInv
  <1>2. taken' \in Nat /\ taken' <= arrived.n
    <2>1. taken \in Nat /\ arrived.n \in Nat /\ taken <= arrived.n
      BY <1>1 DEF IInv, Typed, FlowInv, Flow
    <2>2. CASE UNCHANGED taken
      BY <2>1, <2>2
    <2>3. CASE \E n \in 1..Queued : taken' = taken + n
      BY <2>1, <2>3 DEF Queued
    <2> QED
      BY <2>2, <2>3 DEF DrainFails
  <1> QED
    BY <1>1, <1>2, GiveUpKeeps DEF IInv, Typed, server, Leaving

LEMMA DrainEmptyKeeps == ASSUME IInv, DrainEmpty PROVE IInv'
  <1>1. /\ pc = "drain" /\ pc' = "check"
        /\ UNCHANGED <<op, held, resp, Progress, server>>
    BY DEF DrainEmpty
  <1> USE DEF Progress, server
  <1>2. Typed' /\ HeldInv'
    BY <1>1 DEF IInv, Typed, HeldInv, Moving, Leaving
  <1>3. FlowInv'
    BY <1>1 DEF IInv, FlowInv, Between, Asking, Fresh
  <1> QED
    BY <1>1, <1>2, <1>3, MovingKeeps DEF Moving

\* The connection is over: all that arrived was read, or data came late.
LEMMA DrainEndsKeeps == ASSUME IInv, DrainEnds PROVE IInv'
  <1>1. /\ pc = "check" /\ pc' = "END" /\ Finished /\ op # "PUT"
        /\ raced' = (Queued > 0) /\ held' = {"control"}
        /\ UNCHANGED <<op, resp, idle, taken, moved, server>>
    BY DEF DrainEnds, IInv, FlowInv
  <1> USE DEF server
  <1>2. /\ taken \in Nat /\ moved = taken /\ arrived.n \in Nat
        /\ taken <= arrived.n
    BY <1>1 DEF IInv, Typed, FlowInv, Flow
  <1>3. (Queued > 0) \in BOOLEAN
    OBVIOUS
  <1>4. Typed' /\ HeldInv'
    BY <1>1, <1>3 DEF IInv, Typed, HeldInv, Moving, Leaving
  <1>5. raced' \/ moved = arrived.n
    <2>1. CASE Queued > 0
      BY <1>1, <2>1, Zenon
    <2>2. CASE ~(Queued > 0)
      BY <1>2, <2>2 DEF Queued
    <2> QED
      BY <2>1, <2>2
  <1>6. broken \/ arrived.closed
    BY <1>1 DEF Finished
  <1>7. FlowInv'
    BY <1>1, <1>2, <1>5, <1>6 DEF IInv, FlowInv, Between, Asking, Fresh
  <1> QED
    BY <1>1, <1>4, <1>7, MovingKeeps DEF Moving

LEMMA DrainIdleKeeps == ASSUME IInv, DrainIdle PROVE IInv'
  <1>1. /\ pc = "check" /\ op # "PUT"
        /\ UNCHANGED <<op, taken, moved, raced, server>>
    BY DEF DrainIdle, IInv, FlowInv
  <1> USE DEF server
  <1>2. CASE GiveUp
    BY <1>1, <1>2, GiveUpKeeps DEF IInv, Typed, FlowInv, Leaving
  <1>3. CASE pc' = "drain" /\ UNCHANGED <<held, resp>>
    <2>1. Typed' /\ HeldInv'
      BY <1>1, <1>3 DEF IInv, Typed, HeldInv, Moving, Leaving
    <2>2. FlowInv'
      BY <1>1, <1>3 DEF IInv, FlowInv, Between, Asking, Fresh
    <2> QED
      BY <1>1, <1>3, <2>1, <2>2, MovingKeeps DEF Moving
  <1> QED
    BY <1>2, <1>3 DEF DrainIdle

LEMMA UploadKeeps == ASSUME IInv, Upload PROVE IInv'
  <1>1. /\ pc = "upload" /\ moved < Chunks /\ moved' = moved + 1 /\ op = "PUT"
        /\ UNCHANGED <<pc, op, held, resp, idle, taken, raced, server>>
    BY DEF Upload, IInv, FlowInv
  <1> USE DEF server
  <1>2. moved' \in 0..Chunks
    BY <1>1, SessionAssumption DEF IInv, Typed
  <1>3. Typed' /\ HeldInv'
    BY <1>1, <1>2 DEF IInv, Typed, HeldInv
  <1>4. FlowInv'
    BY <1>1 DEF IInv, FlowInv, Between, Asking, Fresh
  <1> QED
    BY <1>1, <1>3, <1>4, MovingKeeps DEF Moving

\* The end of an upload: the server has got what was sent.
LEMMA HangupFacts ==
    ASSUME Typed, Hangup
    PROVE  arrived' \in Flow /\ arrived'.n = moved
  BY DEF Typed, Hangup, Flow

LEMMA UploadFailsKeeps == ASSUME IInv, UploadFails PROVE IInv'
  <1>1. /\ pc = "upload" /\ op = "PUT" /\ GiveUp /\ arrived' \in Flow
        /\ UNCHANGED <<op, Progress, due, wire, sent, broken, said>>
    BY HangupFacts DEF UploadFails, IInv, FlowInv
  <1> QED
    BY <1>1, GiveUpKeeps DEF IInv, Typed, Progress, Leaving

LEMMA UploadEndsKeeps == ASSUME IInv, UploadEnds PROVE IInv'
  <1>1. /\ pc = "upload" /\ pc' = "END" /\ op = "PUT" /\ held' = {"control"}
        /\ arrived' \in Flow /\ arrived'.n = Chunks
        /\ UNCHANGED <<op, resp, Progress, due, wire, sent, broken, said>>
    BY HangupFacts DEF UploadEnds, IInv, FlowInv
  <1> USE DEF Progress
  <1>2. Typed' /\ HeldInv'
    BY <1>1 DEF IInv, Typed, HeldInv, Moving, Leaving
  <1>3. FlowInv'
    BY <1>1 DEF FlowInv, Between, Asking, Fresh
  <1> QED
    BY <1>1, <1>2, <1>3, MovingKeeps DEF Moving

----------------------------------------------------------------------------
(* The end, and the server.                                                *)

\* Success means the server's reply at the end was read, and it was positive.
LEMMA EndReplyKeeps == ASSUME IInv, EndReply PROVE IInv'
  <1>1. /\ pc = "END" /\ pc' = "leave"
        /\ resp' = (IF ReplyReady /\ Positive(wire[1].code) THEN "ok" ELSE "error")
        /\ UNCHANGED <<op, held, Progress, due, Data>>
    BY DEF EndReply, Status
  <1> USE DEF Progress, Data, Asking, Between, Moving, Leaving
  <1>2. Typed' /\ HeldInv' /\ ResultInv' /\ TalkInv'
    BY <1>1 DEF IInv, Typed, HeldInv, ResultInv, TalkInv, Fresh
  <1>3. \/ due = <<"END">> /\ said = 0 /\ wire = <<>>
        \/ Ended /\ wire \in Replies("END", said)
    BY <1>1 DEF IInv, TalkInv
  <1>4. DueInv'
    BY <1>1, <1>3 DEF IInv, DueInv, Ended, Steps
  <1>5. SaidInv'
    BY <1>1 DEF IInv, SaidInv
  <1>6. FlowInv'
    BY <1>1 DEF IInv, FlowInv, Fresh
  <1>7. resp' = "ok" => said = 226
    <2>1. said \in Codes("END") /\ wire \in Replies("END", said) => wire[1].code = said
      BY CodeFacts, OnlyReply DEF Steps
    <2> QED
      BY <1>1, <1>3, <2>1, NothingToRead, CodeFacts DEF Ended
  <1>8. said = 226 /\ op = "FETCH" => moved = Chunks \/ raced
    BY <1>1 DEF IInv, SaidInv, FlowInv
  <1>9. op = "PUT" => arrived.n = Chunks
    BY <1>1 DEF IInv, FlowInv
  <1>10. OkInv'
    BY <1>1, <1>7, <1>8, <1>9 DEF OkInv
  <1> QED
    BY <1>2, <1>4, <1>5, <1>6, <1>10 DEF IInv

\* On the way out nothing is said of what is read any more.
LEMMA LeavingKeeps ==
    ASSUME IInv, pc \in Leaving, pc' \in {"QUIT", "idle"}, DueInv', HeldInv',
           held' \subseteq {"control", "data", "file"},
           UNCHANGED <<op, resp, Progress, Data>>
    PROVE  IInv'
  <1> USE DEF Progress, Data, Asking, Between, Moving, Leaving
  <1>1. resp # "none"
    BY DEF IInv, ResultInv
  <1>2. Typed' /\ ResultInv' /\ TalkInv'
    BY <1>1 DEF IInv, Typed, ResultInv, TalkInv, Fresh
  <1>3. SaidInv' /\ FlowInv' /\ OkInv'
    BY <1>1 DEF IInv, SaidInv, FlowInv, OkInv, Fresh
  <1> QED
    BY <1>2, <1>3 DEF IInv

LEMMA QuitKeeps == ASSUME IInv, Quit PROVE IInv'
  <1>1. /\ pc = "leave" /\ pc' = "QUIT"
        /\ UNCHANGED <<op, held, resp, Progress, wire, Data>>
        /\ due' = due \/ due' = Append(due, "QUIT")
    BY DEF Quit, SendLine
  <1>2. DueInv'
    <2>1. said' = said
      BY <1>1 DEF Data
    <2>2. CASE due = <<>>
      BY <1>1, <2>1, <2>2 DEF IInv, DueInv
    <2>3. ASSUME NEW x \in Steps \ {"QUIT"}, due = <<x>>
          PROVE  DueInv'
      <3>1. due' = <<x>> \/ due' = <<x, "QUIT">>
        BY <1>1, <2>3
      <3>2. said = 0
        BY <2>3 DEF IInv, DueInv
      <3> QED
        BY <1>1, <2>1, <3>1, <3>2 DEF DueInv
    <2> QED
      BY <1>1, <2>2, <2>3 DEF IInv, DueInv
  <1>3. HeldInv' /\ held' \subseteq {"control", "data", "file"}
    BY <1>1 DEF IInv, HeldInv, Typed, Leaving
  <1> QED
    BY <1>1, <1>2, <1>3, LeavingKeeps DEF Leaving

LEMMA CloseKeeps == ASSUME IInv, Close PROVE IInv'
  <1>1. /\ pc = "QUIT" /\ pc' = "idle" /\ held' = held \ {"control"}
        /\ UNCHANGED <<op, resp, Progress, due, Data>>
    BY DEF Close
  <1>2. HeldInv' /\ held' \subseteq {"control", "data", "file"}
    BY <1>1 DEF IInv, HeldInv, Leaving
  <1>3. DueInv'
    BY <1>1 DEF IInv, DueInv, Data
  <1> QED
    BY <1>1, <1>2, <1>3, LeavingKeeps DEF Leaving

\* What is left of one command, or of two.
LEMMA ShortTails ==
    ASSUME NEW x, NEW y
    PROVE  Tail(<<x>>) = <<>> /\ Tail(<<x, y>>) = <<y>>
  <1>1. <<x>> \in Seq({x, y}) /\ <<x, y>> \in Seq({x, y})
    OBVIOUS
  <1>2. Len(<<x>>) = 1 /\ Len(<<x, y>>) = 2 /\ Len(<<y>>) = 1 /\ <<y>>[1] = y
    OBVIOUS
  <1>3. Tail(<<x>>) \in Seq({x, y}) /\ Len(Tail(<<x>>)) = 0
    BY <1>1, <1>2, HeadTailProperties
  <1>4. /\ Tail(<<x, y>>) \in Seq({x, y}) /\ Len(Tail(<<x, y>>)) = 1
        /\ Tail(<<x, y>>)[1] = y
    BY <1>1, <1>2, HeadTailProperties
  <1>5. <<y>> \in Seq({x, y})
    OBVIOUS
  <1> QED
    BY <1>2, <1>3, <1>4, <1>5, EmptySeq, SeqEqual

\* A command that waits, or the end of a transfer, is answered.
LEMMA AnswerKeeps == ASSUME IInv, Answer PROVE IInv'
  <1>1. /\ due # <<>> /\ "control" \in held
        /\ UNCHANGED <<client, sent, arrived, broken>>
    BY DEF Answer
  <1>20. PICK code \in Codes(Head(due)) : \E lines \in Replies(Head(due), code) :
            /\ Head(due) = "END" =>
                   /\ broken \/ Over
                   /\ code = 226 => ~broken /\ Whole
            /\ wire' = wire \o lines
            /\ due' = (IF code = 150 THEN <<"END">> ELSE <<>>) \o Tail(due)
            /\ said' = IF Head(due) = "END" THEN code ELSE said
    BY DEF Answer
  <1>2. PICK lines \in Replies(Head(due), code) :
            /\ Head(due) = "END" =>
                   /\ broken \/ Over
                   /\ code = 226 => ~broken /\ Whole
            /\ wire' = wire \o lines
            /\ due' = (IF code = 150 THEN <<"END">> ELSE <<>>) \o Tail(due)
            /\ said' = IF Head(due) = "END" THEN code ELSE said
    BY <1>20
  <1> USE DEF client, Asking, Between, Moving, Leaving
  <1>3. pc \notin Between \cup {"idle"}
    BY <1>1 DEF IInv, TalkInv, Opened, HeldInv
  <1>4. PICK x \in Steps : due = <<x>> \/ (due = <<x, "QUIT">> /\ pc = "QUIT")
    BY <1>1, <1>3 DEF IInv, Typed, TalkInv, DueInv, Asked, Ended, Steps
  <1>5. /\ Head(due) = x /\ code \in Nat \ {0}
        /\ code = 150 => x = "XFER"
        /\ lines \in Seq(Line) /\ lines \in Replies(x, code) /\ code \in Codes(x)
    BY <1>2, <1>4, CodeFacts, ReplyFacts
  <1>6. /\ Tail(due) \in {<<>>, <<"QUIT">>}
        /\ due = <<x>> => Tail(due) = <<>>
        /\ pc # "QUIT" => due = <<x>>
    BY <1>4, ShortTails
  <1>7. /\ code # 150 => due' = Tail(due)
        /\ code = 150 => due' = <<"END">> \o Tail(due)
    <2>1. Tail(due) \in Seq({"QUIT"})
      <3>1. <<>> \in Seq({"QUIT"}) /\ <<"QUIT">> \in Seq({"QUIT"})
        OBVIOUS
      <3> QED
        BY <1>6, <3>1
    <2>2. <<>> \o Tail(due) = Tail(due)
      BY <2>1, ConcatEmptySeq
    <2> QED
      BY <1>2, <2>2
  <1>8. Typed' /\ HeldInv' /\ ResultInv'
    BY <1>1 DEF IInv, Typed, HeldInv, ResultInv
  <1>9. DueInv'
    <2>1. CASE code # 150
      BY <1>1, <1>3, <1>6, <1>7, <2>1 DEF IInv, DueInv
    <2>2. CASE code = 150
      <3>1. x = "XFER" /\ said = 0 /\ said' = 0
        BY <1>2, <1>4, <1>5, <2>2 DEF IInv, DueInv
      <3>2. due' = <<"END">> \/ (due' = <<"END", "QUIT">> /\ pc = "QUIT")
        BY <1>4, <1>6, <1>7, <2>2
      <3> QED
        BY <1>1, <1>3, <3>1, <3>2 DEF DueInv, Steps
    <2> QED
      BY <2>1, <2>2
  <1>10. SaidInv'
    <2>1. CASE x = "END"
      BY <1>1, <1>2, <1>5, <2>1 DEF SaidInv, Over, Whole
    <2>2. CASE x # "END"
      BY <1>1, <1>2, <1>5, <2>2 DEF IInv, SaidInv
    <2> QED
      BY <2>1, <2>2
  <1>11. FlowInv'
    BY <1>1 DEF IInv, FlowInv, Fresh
  <1>12. OkInv'
    <2>1. CASE resp = "ok"
      <3>1. said = 226 /\ x # "END"
        BY <1>4, <2>1 DEF IInv, OkInv, DueInv
      <3> QED
        BY <1>1, <1>2, <1>5, <3>1 DEF IInv, OkInv
    <2>2. CASE resp # "ok"
      BY <1>1, <2>2 DEF OkInv
    <2> QED
      BY <2>1, <2>2
  <1>13. TalkInv'
    <2>1. CASE pc \in Leaving
      BY <1>1, <2>1 DEF TalkInv, Fresh
    <2>2. CASE pc \in Asking
      <3>1. x = pc /\ wire = <<>> /\ due = <<x>> /\ said = 0
        BY <1>1, <1>4, <2>2 DEF IInv, TalkInv, Asked
      <3>2. due' = <<>> /\ wire' = lines /\ said' = 0
        BY <1>2, <1>5, <1>6, <1>7, <2>2, <3>1
      <3> QED
        BY <1>1, <1>5, <2>2, <3>1, <3>2 DEF TalkInv, Asked, Fresh
    <2>3. CASE pc \in Moving
      <3>1. x = "END" /\ wire = <<>> /\ due = <<x>>
        BY <1>1, <1>4, <2>3 DEF IInv, TalkInv, Ended
      <3>2. due' = <<>> /\ wire' = lines /\ said' = code
        BY <1>2, <1>5, <1>6, <1>7, <3>1
      <3> QED
        BY <1>1, <1>5, <2>3, <3>1, <3>2 DEF TalkInv, Ended, Fresh
    <2>4. CASE pc = "XFER"
      <3>1. CASE x = "XFER"
        <4>1. wire = <<>> /\ due = <<x>> /\ said = 0
          BY <1>1, <1>4, <2>4, <3>1 DEF IInv, TalkInv, Asked, Ended
        <4>2. wire' = lines /\ said' = 0
          BY <1>2, <1>5, <3>1, <4>1
        <4>3. CASE code = 150
          BY <1>1, <1>5, <1>6, <1>7, <2>4, <3>1, <4>1, <4>2, <4>3
             DEF TalkInv, Fresh
        <4>4. CASE code # 150
          <5>1. code = 550 /\ due' = <<>> /\ wire' \in Replies("XFER", 550)
            BY <1>5, <1>6, <1>7, <3>1, <4>1, <4>2, <4>4, CodeFacts
          <5> QED
            BY <1>1, <2>4, <4>2, <5>1, CodeFacts DEF TalkInv, Asked, Fresh
        <4> QED
          BY <4>3, <4>4
      <3>2. CASE x # "XFER"
        <4>1. x = "END" /\ due = <<x>> /\ wire \in Replies("XFER", 150)
          BY <1>1, <1>4, <2>4, <3>2 DEF IInv, TalkInv, Asked, Ended
        <4>2. due' = <<>> /\ wire' = wire \o lines /\ said' = code
          BY <1>2, <1>5, <1>6, <1>7, <4>1
        <4>3. Ended' /\ lines \in Replies("END", said')
          BY <1>5, <4>1, <4>2 DEF Ended
        <4> QED
          BY <1>1, <2>4, <4>1, <4>2, <4>3 DEF TalkInv, Fresh
      <3> QED
        BY <3>1, <3>2
    <2> QED
      BY <1>3, <2>1, <2>2, <2>3, <2>4 DEF IInv, Typed
  <1> QED
    BY <1>8, <1>9, <1>10, <1>11, <1>12, <1>13 DEF IInv

\* A step of the server that only concerns the file.
LEMMA DataKeeps ==
    ASSUME IInv, UNCHANGED <<client, due, wire, said>>,
           sent' \in Flow, arrived' \in Flow, broken' \in BOOLEAN,
           SaidInv', FlowInv', op = "PUT" => UNCHANGED arrived
    PROVE  IInv'
  <1> USE DEF client
  <1>1. Typed' /\ HeldInv' /\ ResultInv'
    BY DEF IInv, Typed, HeldInv, ResultInv
  <1>2. TalkInv'
    BY DEF IInv, TalkInv, Opened, Asked, Ended, Fresh
  <1>3. DueInv' /\ OkInv'
    BY DEF IInv, DueInv, OkInv
  <1> QED
    BY <1>1, <1>2, <1>3 DEF IInv

\* Closing a flow does not change how much of it there is.
LEMMA ClosedFlow ==
    ASSUME NEW flow \in Flow, NEW shut, shut = [flow EXCEPT !.closed = TRUE]
    PROVE  /\ shut \in Flow /\ shut.n = flow.n /\ shut.closed = TRUE
           /\ flow.n \in Nat
  <1>1. flow.n \in 0..Chunks
    BY DEF Flow
  <1>2. shut = [n |-> flow.n, closed |-> TRUE]
    BY DEF Flow
  <1>3. shut.n = flow.n
    BY <1>2
  <1>4. shut.closed = TRUE
    BY <1>2
  <1>5. shut \in Flow
    BY <1>1, <1>2 DEF Flow
  <1>6. flow.n \in Nat
    BY <1>1, SessionAssumption
  <1> QED
    BY <1>3, <1>4, <1>5, <1>6

\* While the end of a transfer is due the server has not said how it went, and
\* a request was made.
LEMMA EndIsDue ==
    ASSUME IInv, due # <<>>, Head(due) = "END"
    PROVE  said = 0 /\ ~Fresh
  <1>1. due # <<"QUIT">>
    OBVIOUS
  <1> QED
    BY <1>1 DEF IInv, DueInv, TalkInv, Opened, Codes

LEMMA ServerSendsKeeps == ASSUME IInv, ServerSends PROVE IInv'
  <1>1. /\ due # <<>> /\ Head(due) = "END" /\ op # "PUT" /\ ~sent.closed
        /\ UNCHANGED <<client, due, wire, arrived, broken, said>>
    BY DEF ServerSends, Sending
  <1> USE DEF client
  <1>2. said = 0 /\ ~Fresh
    BY <1>1, EndIsDue
  <1>3. /\ sent' \in Flow /\ sent.n <= sent'.n /\ sent.n \in Nat /\ sent'.n \in Nat
    <2>1. sent.n \in 0..Chunks /\ sent \in Flow
      BY DEF IInv, Typed, Flow
    <2>2. CASE sent.n < Chunks /\ sent' = [sent EXCEPT !.n = @ + 1]
      BY <2>1, <2>2, SessionAssumption DEF Flow
    <2>3. CASE sent' = [sent EXCEPT !.closed = TRUE]
      <3>1. /\ sent' \in Flow /\ sent'.n = sent.n /\ sent.n \in Nat
        BY <2>1, <2>3, ClosedFlow
      <3> QED
        BY <3>1
    <2> QED
      BY <2>2, <2>3 DEF ServerSends
  <1>4. arrived.n \in Nat /\ arrived.n <= sent.n /\ ~arrived.closed
    BY <1>1 DEF IInv, Typed, Flow, FlowInv
  <1>5. FlowInv'
    BY <1>1, <1>2, <1>3, <1>4 DEF IInv, FlowInv, Fresh
  <1>6. SaidInv'
    BY <1>1, <1>2 DEF SaidInv
  <1> QED
    BY <1>1, <1>3, <1>5, <1>6, DataKeeps DEF IInv, Typed

LEMMA ArriveKeeps == ASSUME IInv, Arrive PROVE IInv'
  <1>1. /\ op # "PUT" /\ "data" \in held
        /\ UNCHANGED <<client, due, wire, sent, broken, said>>
    BY DEF Arrive
  <1> USE DEF client
  <1>2. pc # "END" /\ ~Fresh
    BY <1>1 DEF IInv, HeldInv, Fresh
  <1>3. /\ arrived \in Flow /\ arrived.n \in 0..Chunks /\ sent.n \in 0..Chunks
        /\ taken \in Nat /\ taken <= arrived.n
    BY <1>1 DEF IInv, Typed, Flow, FlowInv
  <1>4. /\ arrived' \in Flow /\ arrived'.n <= sent.n /\ taken <= arrived'.n
        /\ arrived'.closed => sent.closed /\ arrived'.n = sent.n
    <2>1. CASE arrived.n < sent.n /\ arrived' = [arrived EXCEPT !.n = @ + 1]
      <3>1. ~arrived.closed
        BY <1>1, <1>3, <2>1 DEF IInv, FlowInv
      <3> QED
        BY <1>3, <2>1, <3>1, SessionAssumption DEF Flow
    <2>2. CASE /\ arrived.n = sent.n /\ sent.closed
               /\ arrived' = [arrived EXCEPT !.closed = TRUE]
      <3>1. /\ arrived' \in Flow /\ arrived'.n = arrived.n
            /\ arrived.n \in Nat
        BY <1>3, <2>2, ClosedFlow
      <3> QED
        BY <1>3, <2>2, <3>1
    <2> QED
      BY <2>1, <2>2 DEF Arrive
  <1>5. FlowInv'
    BY <1>1, <1>2, <1>4 DEF IInv, FlowInv, Fresh
  <1>6. SaidInv'
    BY <1>1 DEF IInv, SaidInv
  <1> QED
    BY <1>1, <1>4, <1>5, <1>6, DataKeeps DEF IInv, Typed

LEMMA BreakKeeps == ASSUME IInv, Break PROVE IInv'
  <1>1. /\ due # <<>> /\ Head(due) = "END" /\ broken' = TRUE
        /\ UNCHANGED <<client, due, wire, sent, arrived, said>>
    BY DEF Break
  <1> USE DEF client
  <1>2. said = 0 /\ ~Fresh
    BY <1>1, EndIsDue
  <1>3. SaidInv' /\ FlowInv'
    BY <1>1, <1>2 DEF IInv, SaidInv, FlowInv, Fresh
  <1> QED
    BY <1>1, <1>3, DataKeeps DEF IInv, Typed

LEMMA NextKeeps == ASSUME IInv, [Next]_vars PROVE IInv'
  <1>1. CASE UNCHANGED vars
    <2> USE <1>1 DEF vars, client, server
    <2>1. Typed' /\ HeldInv' /\ ResultInv' /\ DueInv' /\ SaidInv' /\ OkInv'
      BY DEF IInv, Typed, HeldInv, ResultInv, DueInv, SaidInv, OkInv
    <2>2. TalkInv' /\ FlowInv'
      BY DEF IInv, TalkInv, Opened, Asked, Ended, FlowInv, Fresh
    <2> QED
      BY <2>1, <2>2 DEF IInv
  <1>2. CASE Login
    BY <1>2, ConnectKeeps, LoginReplyKeeps, LoginFailsKeeps DEF Login
  <1>3. CASE Opening
    BY <1>3, SendPasvKeeps, PasvReplyKeeps, OpenFileKeeps, FailsKeep DEF Opening
  <1>4. CASE Transfer
    BY <1>4, SendXferKeeps, XferReplyKeeps, FailsKeep, DrainKeeps, DrainFailsKeeps,
       DrainEmptyKeeps, DrainEndsKeeps, DrainIdleKeeps, UploadKeeps,
       UploadFailsKeeps, UploadEndsKeeps DEF Transfer
  <1>5. CASE Ending
    BY <1>5, EndReplyKeeps, QuitKeeps, CloseKeeps DEF Ending
  <1>6. CASE Server
    BY <1>6, AnswerKeeps, ServerSendsKeeps, ArriveKeeps, BreakKeeps DEF Server
  <1> QED
    BY <1>1, <1>2, <1>3, <1>4, <1>5, <1>6, RequestKeeps DEF Next, Handler

\* The invariant of a request: what is open, the conversation on the control
\* connection, and the file on its way.
THEOREM SessionInvariant == FairSpec => []IInv
  <1>1. Init => IInv
    BY InitHolds
  <1>2. IInv /\ [Next]_vars => IInv'
    BY NextKeeps
  <1> QED
    BY <1>1, <1>2, PTL DEF FairSpec

----------------------------------------------------------------------------
(* What follows.                                                           *)

\* A request that is over has closed what it opened.
THEOREM AllClosed == FairSpec => []NothingLeaks
  <1>1. IInv => NothingLeaks
    BY DEF IInv, HeldInv, NothingLeaks
  <1> QED
    BY <1>1, SessionInvariant, PTL

\* A reply that is read answers the command that waits for it.
THEOREM InStep == FairSpec => []RepliesInStep
  <1>1. IInv => RepliesInStep
    <2> SUFFICES ASSUME IInv, pc \in Steps \ {"QUIT"}, ReplyReady
                 PROVE  wire[1].re = pc
      BY DEF RepliesInStep
    <2>1. CASE pc \in Asking
      BY <2>1, AskedRead DEF IInv, TalkInv
    <2>2. CASE pc = "END"
      BY <2>2, NothingToRead, OnlyReply, CodeFacts
         DEF IInv, TalkInv, Moving, Ended, Steps
    <2>3. CASE pc = "XFER"
      <3>1. CASE Asked("XFER")
        BY <2>3, <3>1, AskedRead
      <3>2. CASE wire \in Replies("XFER", 150)
        BY <2>3, <3>2, OnlyReply
      <3>3. ASSUME Ended, NEW a \in Replies("XFER", 150),
                   NEW b \in Replies("END", said), wire = a \o b
            PROVE  wire[1].re = pc
        <4>1. b \in Seq(Line)
          BY <3>3, ReplyFacts, CodeFacts DEF Ended, Steps
        <4> QED
          BY <2>3, <3>3, <4>1, FirstReply
      <3> QED
        BY <2>3, <3>1, <3>2, <3>3 DEF IInv, TalkInv
    <2> QED
      BY <2>1, <2>2, <2>3 DEF Steps, Asking
  <1> QED
    BY <1>1, SessionInvariant, PTL

\* Success is confirmed, and what it says of the file is true.
THEOREM Confirmed == FairSpec => []OkIsConfirmed
  <1>1. IInv => OkIsConfirmed
    BY DEF IInv, OkInv, OkIsConfirmed
  <1> QED
    BY <1>1, SessionInvariant, PTL

\* A file fetched with success is whole, but for the race at its end.
THEOREM FetchedWhole == FairSpec => []WholeUnlessRaced
  <1>1. IInv => WholeUnlessRaced
    BY DEF IInv, OkInv, WholeUnlessRaced
  <1> QED
    BY <1>1, SessionInvariant, PTL

\* A file put with success has reached the server whole.
THEOREM PutWhole == FairSpec => []UploadIsWhole
  <1>1. IInv => UploadIsWhole
    BY DEF IInv, OkInv, UploadIsWhole
  <1> QED
    BY <1>1, SessionInvariant, PTL
=============================================================================
