------------------------------ MODULE FtpSession ------------------------------
(***************************************************************************)
(* packages/ftpd/ftpd_uelf.c: one request of FETCH, LIST or PUT that ftpd  *)
(* carries out against an FTP server, and the server, which may be slow,   *)
(* silent, refuse or break the connection.  Replies are lines on the       *)
(* control connection; the file goes over the data connection in chunks,   *)
(* which take their time independently of the replies.                     *)
(***************************************************************************)
EXTENDS Integers, Sequences

CONSTANTS
    Chunks,     \* the length of the file
    IdlePolls   \* FTPD_DATA_IDLE_TIMEOUT_POLLS

ASSUME SessionAssumption ==
    Chunks \in Nat /\ IdlePolls \in Nat

VARIABLES
    pc,        \* where the handler is; a step of Steps: it awaits its reply
    op,        \* the request
    held,      \* the descriptors that are open
    resp,      \* the status of the answer
    idle,      \* idle_polls
    taken,     \* chunks read from the data connection
    moved,     \* chunks written to the file, or sent
    due,       \* the commands the server has not answered
    wire,      \* the reply lines that arrived
    sent,      \* chunks the server sent, and whether it closed
    arrived,   \* chunks that arrived, and whether the close did
    broken,    \* the data connection was reset
    said,      \* history: the server's reply at the end of the transfer
    raced      \* history: data came between an empty read and the check

client == <<pc, op, held, resp, idle, taken, moved, raced>>
server == <<due, wire, sent, arrived, broken, said>>
vars == <<client, server>>

Ops == {"FETCH", "LIST", "PUT"}
Steps == {"GREET", "USER", "PASS", "TYPE", "PASV", "XFER", "END", "QUIT"}

Flow == [n : 0..Chunks, closed : BOOLEAN]
Line == [re : Steps, code : Nat, last : BOOLEAN]
Silent == [n |-> 0, closed |-> FALSE]

Init ==
    /\ pc = "idle" /\ op = "FETCH" /\ held = {} /\ resp = "none"
    /\ idle = 0 /\ taken = 0 /\ moved = 0 /\ raced = FALSE
    /\ due = <<>> /\ wire = <<>> /\ sent = Silent /\ arrived = Silent
    /\ broken = FALSE /\ said = 0

Positive(code) == code \in 200..299

----------------------------------------------------------------------------
(* The server.                                                             *)

Codes(step) ==
    CASE step = "GREET" -> {220, 421}
      [] step = "USER"  -> {331, 230, 530}
      [] step = "PASS"  -> {230, 530}
      [] step = "TYPE"  -> {200, 500}
      [] step = "PASV"  -> {227, 500}
      [] step = "XFER"  -> {150, 550}
      [] step = "END"   -> {226, 426}
      [] step = "QUIT"  -> {221}

\* A reply of one line, or of two.  A server also may write lines of free
\* text between the two; ours has none with a blank where the last line has
\* one, which ftp_read_reply would take for it.
Replies(step, code) ==
    LET line(last) == [re |-> step, code |-> code, last |-> last]
    IN  {<<line(TRUE)>>, <<line(FALSE), line(TRUE)>>}

\* What the server takes for the end of the file, and for a whole one.
Over == IF op = "PUT" THEN arrived.closed ELSE sent.closed
Whole == op = "PUT" \/ sent.n = Chunks

Answer ==
    /\ due # <<>> /\ "control" \in held
    /\ \E code \in Codes(Head(due)) : \E lines \in Replies(Head(due), code) :
           /\ Head(due) = "END" =>
                  /\ broken \/ Over
                  /\ code = 226 => ~broken /\ Whole
           /\ wire' = wire \o lines
           /\ due' = (IF code = 150 THEN <<"END">> ELSE <<>>) \o Tail(due)
           /\ said' = IF Head(due) = "END" THEN code ELSE said
    /\ UNCHANGED <<client, sent, arrived, broken>>

Sending == Head(due) = "END" /\ op # "PUT" /\ ~broken /\ ~sent.closed

\* A server that cannot read its file closes early.
ServerSends ==
    /\ due # <<>> /\ Sending
    /\ \/ sent.n < Chunks /\ sent' = [sent EXCEPT !.n = @ + 1]
       \/ sent' = [sent EXCEPT !.closed = TRUE]
    /\ UNCHANGED <<client, due, wire, arrived, broken, said>>

\* The network delivers in order, at its own pace.
Arrive ==
    /\ "data" \in held /\ op # "PUT" /\ ~broken
    /\ \/ arrived.n < sent.n /\ arrived' = [arrived EXCEPT !.n = @ + 1]
       \/ /\ arrived.n = sent.n /\ sent.closed /\ ~arrived.closed
          /\ arrived' = [arrived EXCEPT !.closed = TRUE]
    /\ UNCHANGED <<client, due, wire, sent, broken, said>>

Break ==
    /\ due # <<>> /\ Head(due) = "END" /\ "data" \in held /\ ~broken
    /\ broken' = TRUE
    /\ UNCHANGED <<client, due, wire, sent, arrived, said>>

Server == Answer \/ ServerSends \/ Arrive \/ Break

----------------------------------------------------------------------------
(* Reading replies and sending commands.                                   *)

Lasts == {i \in DOMAIN wire : wire[i].last}
ReplyReady == Lasts # {}
FirstLast == CHOOSE i \in Lasts : \A j \in Lasts : i <= j

\* Mutated form: a reply is one line.
Read_OneLine ==
    /\ ReplyReady
    /\ wire' = Tail(wire)

\* ftp_read_reply: the code of the first line, up to the first line with a
\* blank after the code.
Read ==
    /\ ReplyReady
    /\ wire' = SubSeq(wire, FirstLast + 1, Len(wire))

\* Sixty seconds without the rest of a reply, or a broken connection.
NoReply == ~ReplyReady /\ UNCHANGED wire

\* The server may have closed: a command is sent, or not.
SendLine(step) == due' = Append(due, step)

Status(r) == resp' = r

Data == <<sent, arrived, broken, said>>
Progress == <<idle, taken, moved, raced>>

----------------------------------------------------------------------------
(* ftp_connect_and_login.                                                  *)

Request(o) ==
    /\ pc = "idle" /\ resp = "none"
    /\ op' = o /\ pc' = "connect"
    /\ UNCHANGED <<held, resp, Progress, server>>

ConnectFails ==
    /\ pc = "connect"
    /\ pc' = "idle" /\ Status("error")
    /\ UNCHANGED <<op, held, Progress, server>>

Connect ==
    /\ pc = "connect"
    /\ held' = {"control"} /\ SendLine("GREET") /\ pc' = "GREET"
    /\ UNCHANGED <<op, resp, Progress, wire, Data>>

\* The command that follows a reply of the login; "in" after the last.
LoginNext(step, code) ==
    CASE step = "GREET" /\ Positive(code) -> "USER"
      [] step = "USER" /\ code = 331      -> "PASS"
      [] step \in {"USER", "PASS"} /\ Positive(code) -> "TYPE"
      [] step = "TYPE" /\ Positive(code)  -> "in"
      [] OTHER                            -> "failed"

LoginSteps == {"GREET", "USER", "PASS", "TYPE"}

LoginReply ==
    /\ pc \in LoginSteps /\ Read
    /\ LET next == LoginNext(pc, wire[1].code)
       IN  /\ next # "failed"
           /\ IF next = "in"
              THEN pc' = (IF op = "PUT" THEN "open" ELSE "pasv") /\ UNCHANGED due
              ELSE pc' = next /\ SendLine(next)
    /\ UNCHANGED <<op, held, resp, Progress, Data>>

\* Refused, unanswered, or the next command cannot be sent.
LoginFails ==
    /\ pc \in LoginSteps
    /\ NoReply \/ Read
    /\ held' = {} /\ pc' = "idle" /\ Status("error")
    /\ UNCHANGED <<op, Progress, due, Data>>

----------------------------------------------------------------------------
(* ftp_open_data_connection, and opening the local file.                   *)

\* Each failing path closes what was opened before it, answers, and leaves
\* by ftp_quit_and_close.
GiveUp ==
    /\ held' = {"control"} /\ pc' = "leave" /\ Status("error")

SendPasv ==
    /\ pc = "pasv"
    /\ SendLine("PASV") /\ pc' = "PASV"
    /\ UNCHANGED <<op, held, resp, Progress, wire, Data>>

PasvReply ==
    /\ pc = "PASV" /\ Read /\ wire[1].code = 227
    /\ held' = held \cup {"data"}
    /\ pc' = IF op = "FETCH" THEN "open" ELSE "xfer"
    /\ UNCHANGED <<op, resp, Progress, due, Data>>

\* Not sent, not answered, not 227, not understood, no socket, no connection.
PasvFails ==
    /\ \/ pc = "pasv" /\ UNCHANGED wire
       \/ pc = "PASV" /\ (NoReply \/ Read)
    /\ GiveUp
    /\ UNCHANGED <<op, Progress, due, Data>>

\* FETCH opens its file after the data connection, PUT before.
OpenFile ==
    /\ pc = "open"
    /\ held' = held \cup {"file"}
    /\ pc' = IF op = "PUT" THEN "pasv" ELSE "xfer"
    /\ UNCHANGED <<op, resp, Progress, server>>

OpenFails ==
    /\ pc = "open" /\ GiveUp
    /\ UNCHANGED <<op, Progress, server>>

----------------------------------------------------------------------------
(* RETR, LIST or STOR.                                                     *)

SendXfer ==
    /\ pc = "xfer"
    /\ SendLine("XFER") /\ pc' = "XFER"
    /\ UNCHANGED <<op, held, resp, Progress, wire, Data>>

XferReply ==
    /\ pc = "XFER" /\ Read /\ wire[1].code \in {125, 150}
    /\ pc' = IF op = "PUT" THEN "upload" ELSE "drain"
    /\ UNCHANGED <<op, held, resp, Progress, due, Data>>

\* Mutated form: a refused transfer leaves the local file open.
XferFails_KeepsFile ==
    /\ \/ pc = "xfer" /\ UNCHANGED wire
       \/ pc = "XFER" /\ NoReply
       \/ pc = "XFER" /\ Read /\ wire[1].code \notin {125, 150}
    /\ held' = held \ {"data"} /\ pc' = "leave" /\ Status("error")
    /\ UNCHANGED <<op, Progress, due, Data>>

XferFails ==
    /\ \/ pc = "xfer" /\ UNCHANGED wire
       \/ pc = "XFER" /\ NoReply
       \/ pc = "XFER" /\ Read /\ wire[1].code \notin {125, 150}
    /\ GiveUp
    /\ UNCHANGED <<op, Progress, due, Data>>

----------------------------------------------------------------------------
(* ftp_drain_data_connection.                                              *)

Queued == arrived.n - taken

\* A read takes what fits, and all of it is written, or to the listing.
Drain ==
    /\ pc = "drain"
    /\ \E n \in 1..Queued :
           taken' = taken + n /\ moved' = moved + n
    /\ idle' = 0
    /\ UNCHANGED <<pc, op, held, resp, raced, server>>

\* The connection was reset, or the file takes less than was read.
DrainFails ==
    /\ pc = "drain"
    /\ \/ broken /\ UNCHANGED taken
       \/ op = "FETCH" /\ \E n \in 1..Queued : taken' = taken + n
    /\ GiveUp
    /\ UNCHANGED <<op, idle, moved, raced, server>>

DrainEmpty ==
    /\ pc = "drain" /\ Queued = 0
    /\ pc' = "check"
    /\ UNCHANGED <<op, held, resp, Progress, server>>

\* Mutated form: the connection always counts as finished.
Finished_Always == TRUE

\* ftp_data_finished: the kernel no longer has it as established.
Finished == arrived.closed \/ broken

DrainEnds ==
    /\ pc = "check" /\ Finished
    /\ raced' = (Queued > 0)
    /\ held' = {"control"} /\ pc' = "END"
    /\ UNCHANGED <<op, resp, idle, taken, moved, server>>

\* Mutated form: the poll is not counted.
DrainIdle_Uncounted ==
    /\ pc = "check" /\ ~Finished
    /\ pc' = "drain"
    /\ UNCHANGED <<op, held, resp, Progress, server>>

DrainIdle ==
    /\ pc = "check" /\ ~Finished
    /\ idle' = idle + 1
    /\ IF idle' > IdlePolls
       THEN GiveUp
       ELSE pc' = "drain" /\ UNCHANGED <<held, resp>>
    /\ UNCHANGED <<op, taken, moved, raced, server>>

----------------------------------------------------------------------------
(* The upload of handle_put.                                               *)

Upload ==
    /\ pc = "upload" /\ moved < Chunks /\ ~broken
    /\ moved' = moved + 1
    /\ UNCHANGED <<pc, op, held, resp, idle, taken, raced, server>>

\* Closing the data connection tells the server that the file ends.
Hangup == arrived' = [n |-> moved, closed |-> TRUE]

\* Mutated form: a failed read or send ends the loop like the end of file.
UploadFails_AsEnd ==
    /\ pc = "upload" /\ Hangup
    /\ held' = {"control"} /\ pc' = "END"
    /\ UNCHANGED <<op, resp, Progress, due, wire, sent, broken, said>>

UploadFails ==
    /\ pc = "upload" /\ Hangup /\ GiveUp
    /\ UNCHANGED <<op, Progress, due, wire, sent, broken, said>>

UploadEnds ==
    /\ pc = "upload" /\ moved = Chunks /\ Hangup
    /\ held' = {"control"} /\ pc' = "END"
    /\ UNCHANGED <<op, resp, Progress, due, wire, sent, broken, said>>

----------------------------------------------------------------------------
(* The end.                                                                *)

\* Mutated form: the transfer counts as done whatever the server says.
EndReply_AnyCode ==
    /\ pc = "END" /\ (Read \/ NoReply)
    /\ Status("ok") /\ pc' = "leave"
    /\ UNCHANGED <<op, held, Progress, due, Data>>

EndReply ==
    /\ pc = "END" /\ (Read \/ NoReply)
    /\ Status(IF ReplyReady /\ Positive(wire[1].code) THEN "ok" ELSE "error")
    /\ pc' = "leave"
    /\ UNCHANGED <<op, held, Progress, due, Data>>

\* ftp_quit_and_close.
Quit ==
    /\ pc = "leave"
    /\ SendLine("QUIT") \/ UNCHANGED due
    /\ pc' = "QUIT"
    /\ UNCHANGED <<op, held, resp, Progress, wire, Data>>

\* Whatever the server says to it, or nothing.
Close ==
    /\ pc = "QUIT" /\ (Read \/ NoReply)
    /\ held' = held \ {"control"} /\ pc' = "idle"
    /\ UNCHANGED <<op, resp, Progress, due, Data>>

Login == ConnectFails \/ Connect \/ LoginReply \/ LoginFails
Opening == SendPasv \/ PasvReply \/ PasvFails \/ OpenFile \/ OpenFails
Transfer ==
    \/ SendXfer \/ XferReply \/ XferFails
    \/ Drain \/ DrainFails \/ DrainEmpty \/ DrainEnds \/ DrainIdle
    \/ Upload \/ UploadFails \/ UploadEnds
Ending == EndReply \/ Quit \/ Close

Handler == Login \/ Opening \/ Transfer \/ Ending

Next == (\E o \in Ops : Request(o)) \/ Handler \/ Server

\* ftpd runs; of the server nothing is assumed.
FairSpec == Init /\ [][Next]_vars /\ WF_vars(Handler)

----------------------------------------------------------------------------
TypeOK ==
    /\ pc \in Steps \cup {"idle", "connect", "pasv", "open", "xfer", "drain",
                          "check", "upload", "leave"}
    /\ op \in Ops /\ held \subseteq {"control", "data", "file"}
    /\ resp \in {"none", "ok", "error"} /\ idle \in 0..(IdlePolls + 1)
    /\ taken \in 0..Chunks /\ moved \in 0..Chunks
    /\ due \in Seq(Steps) /\ wire \in Seq(Line)
    /\ sent \in Flow /\ arrived \in Flow
    /\ broken \in BOOLEAN /\ raced \in BOOLEAN /\ said \in {0, 226, 426}

\* Whichever way a request goes, ftpd has closed everything it opened for it
\* when it answers: a daemon that leaks one of seven sockets in a failing
\* path is soon out of them.
NothingLeaks == pc = "idle" => held = {}

\* A reply is taken for the answer to the command it answers, except after a
\* command nobody answered: then the only reply still read is the one to
\* QUIT, which is ignored.
RepliesInStep == pc \in Steps \ {"QUIT"} /\ ReplyReady => wire[1].re = pc

\* ftpd reports success only if the server has confirmed this transfer.
OkIsConfirmed == resp = "ok" => said = 226

\* A fetched file reported complete is complete, unless its last data came
\* just between a read that found nothing and the look at the connection.
WholeUnlessRaced == resp = "ok" /\ op = "FETCH" => moved = Chunks \/ raced

\* A transfer cut short by a local error is not reported as an upload, though
\* the server takes the end of the connection for the end of the file.
UploadIsWhole == resp = "ok" /\ op = "PUT" => arrived.n = Chunks

\* Every request ends, whatever the server does or leaves undone.
RequestEnds == pc # "idle" ~> pc = "idle"
=============================================================================
