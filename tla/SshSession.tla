------------------------------ MODULE SshSession ------------------------------
(***************************************************************************)
(* packages/ssh/ssh_uelf.c: one session of the SSH client, from the TCP    *)
(* connection to the end of the shell, and the server it talks to.  A      *)
(* packet goes over the wire in two pieces, its first block and the rest   *)
(* with the MAC, and a read brings any number of pieces.  A packet carries *)
(* the number its sender counted and the keys it was sealed with; one that *)
(* does not fit its receiver's fails its MAC.                              *)
(***************************************************************************)
EXTENDS Integers, Sequences, FiniteSetsExt

CONSTANTS
    ServerChannels,  \* the numbers a server may give its end of the channel
    RoundtripPkts,   \* SSH_MAX_ROUNDTRIP_PKTS
    AuthTries,       \* passwords asked for
    Lines,           \* lines looked at for the server's identification
    Window,          \* credit given at the open, and again by the client
    BufRoom,         \* pieces that fit the stream buffer
    MaxData,         \* packets of output
    MaxKeys,         \* keys the user types in the shell
    MaxNoise         \* bursts of packets or lines that nobody asked for

ASSUME SshAssumption ==
    /\ ServerChannels \subseteq Nat
    /\ {RoundtripPkts, AuthTries, Lines, Window} \subseteq Nat \ {0}
    /\ BufRoom \in Nat /\ BufRoom >= 2
    /\ {MaxData, MaxKeys, MaxNoise} \subseteq Nat

VARIABLES
    pc,         \* the message the client waits for, or where else it is
    why,        \* why it failed
    count,      \* packets looked at in this wait
    tries,      \* passwords sent
    sendSeq, recvSeq, encrypted,
    remote,     \* remote_channel
    eof,        \* stdin_closed
    typed,      \* keys typed so far
    shown,      \* output written to the terminal
    buf,        \* pieces received and not consumed
    wire,       \* pieces from the server that the client has not read
    up,         \* packets from the client that the server has not read
    srv         \* the server

control == <<pc, why, count, tries>>
keys == <<sendSeq, recvSeq, encrypted>>
channel == <<remote, eof, typed, shown>>
client == <<control, keys, channel, buf>>
vars == <<client, wire, up, srv>>

LocalChannel == 0
NoChannel == 99

Waits == {"KEXINIT", "KEXDH_REPLY", "NEWKEYS", "SERVICE_ACCEPT"}
Blocking == Waits \cup {"IDENT", "AUTH", "CHANNEL"}
Shell == {"keys", "drain"}

Init ==
    /\ pc = "IDENT" /\ why = "none" /\ count = 0 /\ tries = 0
    /\ sendSeq = 0 /\ recvSeq = 0 /\ encrypted = FALSE
    /\ remote = NoChannel /\ eof = FALSE /\ typed = 0 /\ shown = <<>>
    /\ buf = <<>> /\ wire = <<>> /\ up = <<>>
    /\ srv = [phase |-> "start", sendSeq |-> 0, recvSeq |-> 0,
              sendEnc |-> FALSE, recvEnc |-> FALSE, ch |-> NoChannel,
              credit |-> 0, sent |-> 0, noise |-> 0, eof |-> FALSE,
              closed |-> FALSE, err |-> FALSE]

----------------------------------------------------------------------------
(* Packets.                                                                *)

Msg(m) == [m |-> m, ch |-> NoChannel, n |-> 0, big |-> FALSE]
OnChannel(m, ch, n) == [m |-> m, ch |-> ch, n |-> n, big |-> FALSE]

\* The packets of msgs, counted from seq.
Sealed(msgs, seq, enc) ==
    [i \in DOMAIN msgs |-> [p |-> msgs[i], seq |-> seq + i - 1, enc |-> enc]]

\* Their pieces: the first block and the rest.
Pieces(pkts) ==
    [i \in 1..(2 * Len(pkts)) |->
        [pkt |-> pkts[(i + 1) \div 2], last |-> i % 2 = 0]]

----------------------------------------------------------------------------
(* The server follows RFC 4253, 4252 and 4254, but may also fall silent,   *)
(* disconnect or break the connection.                                     *)

Down(s, msgs) ==
    /\ wire' = wire \o Pieces(Sealed(msgs, s.sendSeq, s.sendEnc))
    /\ srv' = [s EXCEPT !.sendSeq = @ + Len(msgs)]

ServerUp == ~srv.closed /\ pc # "done"

\* Lines of text have no number and no keys: free text, then the server's
\* identification.
SrvLines(m, k) ==
    /\ ServerUp /\ srv.phase = "start"
    /\ m = "LINE" => srv.noise < MaxNoise
    /\ wire' = wire \o [i \in 1..k |->
                  [pkt |-> [p |-> Msg(m), seq |-> 0, enc |-> FALSE],
                   last |-> TRUE]]
    /\ srv' = IF m = "LINE" THEN [srv EXCEPT !.noise = @ + 1]
                            ELSE [srv EXCEPT !.phase = "ident"]
    /\ UNCHANGED <<client, up>>

SrvKexinit ==
    /\ ServerUp /\ srv.phase = "ident"
    /\ Down([srv EXCEPT !.phase = "kex"], <<Msg("KEXINIT")>>)
    /\ UNCHANGED <<client, up>>

\* What a server admits in each of its phases.
Admits(p) ==
    CASE p.m \in {"KEXINIT", "KEXDH_INIT", "NEWKEYS", "SERVICE_REQUEST"} ->
            srv.phase = "kex"
      [] p.m = "USERAUTH_REQUEST" -> srv.phase = "auth"
      [] p.m = "CHANNEL_OPEN" -> srv.phase = "authed"
      [] p.m = "REQUEST_FAILURE" -> srv.phase \notin {"kex", "auth"}
      [] p.m = "DATA" -> p.ch = srv.ch /\ ~srv.eof
      [] OTHER -> p.ch = srv.ch

SrvRead ==
    /\ ServerUp /\ srv.phase # "start" /\ up # <<>>
    /\ Head(up).p.m = "IDENT" \/ srv.phase # "ident"
    /\ up' = Tail(up)
    /\ LET pkt == Head(up)
           p == pkt.p
           s == [srv EXCEPT !.recvSeq = @ + 1]
           Silent(s2) == srv' = s2 /\ UNCHANGED wire
       IN  CASE p.m = "IDENT" -> Silent(srv)
             [] p.m # "IDENT" /\ ~(/\ pkt.seq = srv.recvSeq
                                   /\ pkt.enc = srv.recvEnc
                                   /\ Admits(p)) ->
                    Silent([s EXCEPT !.err = TRUE, !.closed = TRUE])
             [] OTHER ->
                \/ p.m = "KEXDH_INIT" /\
                    /\ wire' = wire \o
                         Pieces(Sealed(<<Msg("KEXDH_REPLY"), Msg("NEWKEYS")>>,
                                       s.sendSeq, FALSE))
                    /\ srv' = [s EXCEPT !.sendSeq = @ + 2, !.sendEnc = TRUE]
                \/ p.m = "NEWKEYS" /\ Silent([s EXCEPT !.recvEnc = TRUE])
                \/ p.m = "SERVICE_REQUEST" /\
                    Down([s EXCEPT !.phase = "auth"], <<Msg("SERVICE_ACCEPT")>>)
                \/ p.m = "USERAUTH_REQUEST" /\
                    \/ Down(s, <<Msg("USERAUTH_FAILURE")>>)
                    \/ Down([s EXCEPT !.phase = "authed"],
                            <<Msg("USERAUTH_SUCCESS")>>)
                \/ p.m = "CHANNEL_OPEN" /\
                    \/ Down(s, <<Msg("CHANNEL_OPEN_FAILURE")>>)
                    \/ \E c \in ServerChannels :
                           Down([s EXCEPT !.phase = "channel", !.ch = c,
                                          !.credit = Window],
                                <<OnChannel("CHANNEL_OPEN_CONFIRMATION", c, 0)>>)
                \/ p.m = "WINDOW_ADJUST" /\ Silent([s EXCEPT !.credit = @ + p.n])
                \/ p.m = "SHELL" /\ Silent([s EXCEPT !.phase =
                                              IF @ = "channel" THEN "shell" ELSE @])
                \/ p.m = "EOF" /\ Silent([s EXCEPT !.eof = TRUE])
                \/ p.m \in {"KEXINIT", "PTY", "DATA", "REQUEST_FAILURE"} /\ Silent(s)
    /\ UNCHANGED client

\* Bursts of packets nobody asked for: what is to be ignored at any time, a banner
\* before the login is over, requests about the whole connection after it.
\* The second kind of request wants a reply.  A server that wants new keys in
\* the middle of a session sends nothing more of it until it has them.
SrvNoise(m, k, big) ==
    /\ ServerUp /\ srv.phase \notin {"start", "ident"} /\ srv.noise < MaxNoise
    /\ m = "BANNER" => srv.phase = "auth"
    /\ big => m = "BANNER"
    /\ m \in {"GLOBAL_REQUEST", "KEEPALIVE"} =>
           srv.phase \in {"authed", "channel", "shell"}
    /\ m = "KEXINIT" => srv.phase = "shell" /\ k = 1
    /\ Down([srv EXCEPT !.noise = @ + 1,
                        !.phase = IF m = "KEXINIT" THEN "rekey" ELSE @],
            [i \in 1..k |-> [Msg(m) EXCEPT !.big = big]])
    /\ UNCHANGED <<client, up>>

\* Output, within the credit.  The client offers packets of 32768 bytes at
\* the open and takes packets of 4096: a big one is over that.
SrvData(m, big) ==
    /\ ServerUp /\ srv.phase = "shell" /\ srv.credit > 0 /\ srv.sent < MaxData
    /\ Down([srv EXCEPT !.credit = @ - 1, !.sent = @ + 1],
            <<[OnChannel(m, LocalChannel, srv.sent + 1) EXCEPT !.big = big]>>)
    /\ UNCHANGED <<client, up>>

\* The shell ends: its exit status, end of output, close.
SrvFinish ==
    /\ ServerUp /\ srv.phase = "shell"
    /\ Down([srv EXCEPT !.phase = "over"],
            <<OnChannel("EXIT_STATUS", LocalChannel, 0),
              OnChannel("EOF", LocalChannel, 0),
              OnChannel("CLOSE", LocalChannel, 0)>>)
    /\ UNCHANGED <<client, up>>

SrvDisconnect ==
    /\ ServerUp /\ srv.phase \notin {"start", "ident"}
    /\ Down([srv EXCEPT !.closed = TRUE], <<Msg("DISCONNECT")>>)
    /\ UNCHANGED <<client, up>>

SrvClose ==
    /\ ServerUp
    /\ srv' = [srv EXCEPT !.closed = TRUE]
    /\ UNCHANGED <<client, wire, up>>

Noise == {"IGNORE", "BANNER", "GLOBAL_REQUEST", "KEEPALIVE", "KEXINIT"}

Server ==
    \/ SrvLines("IDENT", 1)
    \/ \E k \in 1..Lines : SrvLines("LINE", k)
    \/ SrvKexinit
    \/ SrvRead
    \/ \E m \in Noise, k \in 1..RoundtripPkts, big \in BOOLEAN : SrvNoise(m, k, big)
    \/ \E m \in {"DATA", "EXTENDED_DATA"}, big \in BOOLEAN : SrvData(m, big)
    \/ SrvFinish
    \/ SrvDisconnect
    \/ SrvClose

----------------------------------------------------------------------------
(* The stream buffer.                                                      *)

FirstN(s, k) == SubSeq(s, 1, k)
Rest(s, k) == SubSeq(s, k + 1, Len(s))

WholeIn(b) == b # <<>> /\ (b[1].last \/ Len(b) >= 2)
FrontOf(b) == b[1].pkt
AfterOf(b) == Rest(b, IF b[1].last THEN 1 ELSE 2)

\* The packet at the front of b is well formed and, once there are keys, its
\* MAC agrees with the number counted here.
OpensIn(b) ==
    /\ ~b[1].last /\ ~FrontOf(b).p.big
    /\ FrontOf(b).enc = encrypted
    /\ encrypted => FrontOf(b).seq = recvSeq

Whole == WholeIn(buf)
Front == FrontOf(buf)

Failed(w) == pc' = "done" /\ why' = w /\ UNCHANGED <<count, tries>>

\* A blocking read goes to the network only for what the buffer lacks.
Fetch ==
    /\ pc \in Blocking /\ ~Whole /\ wire # <<>>
    /\ \E k \in 1..Min({Len(wire), BufRoom}) :
           buf' = buf \o FirstN(wire, k) /\ wire' = Rest(wire, k)
    /\ UNCHANGED <<control, keys, channel, up, srv>>

\* Mutated form: attempts are not counted, nothing is not an answer.
GiveUp_WhenClosed ==
    /\ pc \in Blocking /\ ~Whole /\ wire = <<>> /\ srv.closed
    /\ Failed("closed")
    /\ UNCHANGED <<keys, channel, buf, wire, up, srv>>

\* The connection is closed, or every attempt found nothing.
GiveUp ==
    /\ pc \in Blocking /\ ~Whole /\ wire = <<>>
    /\ Failed(IF srv.closed THEN "closed" ELSE "quiet")
    /\ UNCHANGED <<keys, channel, buf, wire, up, srv>>

----------------------------------------------------------------------------
(* From the connection to the shell.                                       *)

Sends(msgs) ==
    /\ up' = up \o Sealed(msgs, sendSeq, encrypted')
    /\ sendSeq' = sendSeq + Len(msgs)

\* The client sends msgs and waits for next; a send may fail.
Proceed(next, msgs) ==
    \/ pc' = next /\ count' = 0 /\ UNCHANGED why /\ Sends(msgs)
    \/ /\ msgs # <<>> /\ pc' = "done" /\ why' = "send"
       /\ UNCHANGED <<count, sendSeq, up>>

ReadIdentification ==
    /\ pc = "IDENT" /\ Whole
    /\ buf' = AfterOf(buf)
    /\ \/ /\ Front.p.m = "IDENT"
          /\ \/ /\ pc' = "KEXINIT" /\ count' = 0 /\ UNCHANGED <<why, tries>>
                /\ up' = Sealed(<<Msg("IDENT")>>, 0, FALSE)
                         \o Sealed(<<Msg("KEXINIT")>>, sendSeq, FALSE)
                /\ sendSeq' = sendSeq + 1
             \/ Failed("send") /\ UNCHANGED <<sendSeq, up>>
       \/ /\ Front.p.m = "LINE"
          /\ IF count + 1 = Lines THEN Failed("noise")
             ELSE count' = count + 1 /\ UNCHANGED <<pc, why, tries>>
          /\ UNCHANGED <<sendSeq, up>>
    /\ UNCHANGED <<recvSeq, encrypted, channel, wire, srv>>

Wanted ==
    CASE pc = "AUTH" -> {"USERAUTH_FAILURE", "USERAUTH_SUCCESS"}
      [] pc = "CHANNEL" -> {"CHANNEL_OPEN_CONFIRMATION", "CHANNEL_OPEN_FAILURE"}
      [] OTHER -> {pc}

Packets == Waits \cup {"AUTH", "CHANNEL"}

Refuse ==
    /\ pc \in Packets /\ Whole /\ ~OpensIn(buf)
    /\ Failed("refused")
    /\ UNCHANGED <<keys, channel, buf, wire, up, srv>>

Consume == buf' = AfterOf(buf) /\ recvSeq' = recvSeq + 1

\* Any other packet is passed over, so many of them at most; a request that
\* wants a reply is refused.
Skip ==
    /\ pc \in Packets /\ Whole /\ OpensIn(buf) /\ Front.p.m \notin Wanted
    /\ Consume
    /\ UNCHANGED encrypted
    /\ Sends(IF Front.p.m = "KEEPALIVE" THEN <<Msg("REQUEST_FAILURE")>> ELSE <<>>)
    /\ IF Front.p.m = "DISCONNECT" THEN Failed("disconnect")
       ELSE IF count + 1 = RoundtripPkts * (IF pc = "CHANNEL" THEN 8 ELSE 1)
            THEN Failed("noise")
            ELSE count' = count + 1 /\ UNCHANGED <<pc, why, tries>>
    /\ UNCHANGED <<channel, wire, srv>>

Takes(m) == pc \in Packets /\ Whole /\ OpensIn(buf) /\ Front.p.m = m /\ Consume
Unwanted(w) == Failed(w) /\ UNCHANGED <<sendSeq, up>>

\* Either side may offer no algorithm the other has.
GotKexinit ==
    /\ pc = "KEXINIT" /\ Takes("KEXINIT")
    /\ UNCHANGED <<encrypted, tries, channel, wire, srv>>
    /\ \/ Proceed("KEXDH_REPLY", <<Msg("KEXDH_INIT")>>)
       \/ Unwanted("kex")

GotKexdhReply ==
    /\ pc = "KEXDH_REPLY" /\ Takes("KEXDH_REPLY")
    /\ UNCHANGED <<encrypted, tries, channel, wire, srv>>
    /\ \/ Proceed("NEWKEYS", <<Msg("NEWKEYS")>>)
       \/ Unwanted("kex")

\* Mutated form: new keys start new numbers.
GotNewkeys_FromZero ==
    /\ pc = "NEWKEYS" /\ Takes("NEWKEYS")
    /\ encrypted' = TRUE
    /\ up' = up \o Sealed(<<Msg("SERVICE_REQUEST")>>, 0, TRUE)
    /\ sendSeq' = 1 /\ pc' = "SERVICE_ACCEPT" /\ count' = 0
    /\ UNCHANGED <<why, tries, channel, wire, srv>>

\* The keys are put in place between two packets: what the buffer holds
\* beyond this one is sealed with them already.
GotNewkeys ==
    /\ pc = "NEWKEYS" /\ Takes("NEWKEYS")
    /\ UNCHANGED <<tries, channel, wire, srv>>
    /\ \/ encrypted' = TRUE
          /\ Proceed("SERVICE_ACCEPT", <<Msg("SERVICE_REQUEST")>>)
       \/ UNCHANGED encrypted /\ Unwanted("kex")

GotServiceAccept ==
    /\ pc = "SERVICE_ACCEPT" /\ Takes("SERVICE_ACCEPT")
    /\ UNCHANGED <<encrypted, tries, channel, wire, srv>>
    /\ Proceed("password", <<>>)

Password ==
    /\ pc = "password"
    /\ UNCHANGED <<recvSeq, encrypted, channel, buf, wire, srv>>
    /\ \/ tries' = tries + 1 /\ Proceed("AUTH", <<Msg("USERAUTH_REQUEST")>>)
       \/ Unwanted("user")

GotUserauth ==
    /\ pc = "AUTH"
    /\ UNCHANGED <<encrypted, tries, channel, wire, srv>>
    /\ \/ Takes("USERAUTH_SUCCESS") /\ Proceed("CHANNEL", <<Msg("CHANNEL_OPEN")>>)
       \/ /\ Takes("USERAUTH_FAILURE")
          /\ IF tries < AuthTries THEN Proceed("password", <<>>) ELSE Unwanted("auth")

\* More credit, a terminal, a shell, and a newline for its first prompt.
Opening(ch) ==
    <<OnChannel("WINDOW_ADJUST", ch, Window), OnChannel("PTY", ch, 0),
      OnChannel("SHELL", ch, 0), OnChannel("DATA", ch, 0)>>

GotChannel ==
    /\ pc = "CHANNEL"
    /\ UNCHANGED <<encrypted, tries, eof, typed, shown, wire, srv>>
    /\ \/ /\ Takes("CHANNEL_OPEN_CONFIRMATION")
          /\ remote' = Front.p.ch
          /\ Proceed("keys", Opening(Front.p.ch))
       \/ Takes("CHANNEL_OPEN_FAILURE") /\ UNCHANGED remote /\ Unwanted("channel")

----------------------------------------------------------------------------
(* The shell: keys, then every packet that is there, and again.            *)

Key ==
    /\ pc = "keys" /\ ~eof /\ typed < MaxKeys
    /\ typed' = typed + 1
    /\ UNCHANGED <<encrypted, recvSeq, tries, remote, shown, buf, wire, srv>>
    /\ \/ UNCHANGED eof /\ Proceed("keys", <<OnChannel("DATA", remote, 0)>>)
       \/ eof' = TRUE /\ Proceed("drain", <<OnChannel("EOF", remote, 0)>>)

KeysRead ==
    /\ pc = "keys" /\ pc' = "drain"
    /\ UNCHANGED <<why, count, tries, keys, channel, buf, wire, up, srv>>

\* One read that does not wait.
Room == BufRoom - Len(buf)
Reads == IF wire = <<>> \/ Room <= 0 THEN {0} ELSE 1..Min({Len(wire), Room})
Filled(k) == buf \o FirstN(wire, k)

\* Mutated form: the end of the connection reads as nothing yet.
Over_Never == FALSE

Over == wire = <<>> /\ srv.closed /\ Room > 0

\* The read comes before the look at what the buffer holds already.
Closed ==
    /\ pc = "drain" /\ Over
    /\ Failed("closed")
    /\ UNCHANGED <<keys, channel, buf, wire, up, srv>>

Polls(k) == pc = "drain" /\ ~Over /\ k \in Reads /\ wire' = Rest(wire, k)

\* A part of a packet stays in the buffer, its keys and number untouched.
DrainPart(k) ==
    /\ Polls(k) /\ ~WholeIn(Filled(k))
    /\ buf' = Filled(k) /\ pc' = "keys"
    /\ UNCHANGED <<why, count, tries, keys, channel, up, srv>>

DrainRefuse(k) ==
    /\ Polls(k) /\ WholeIn(Filled(k)) /\ ~OpensIn(Filled(k))
    /\ buf' = Filled(k) /\ Failed("refused")
    /\ UNCHANGED <<keys, channel, up, srv>>

Drains(k, msgs) ==
    /\ Polls(k) /\ WholeIn(Filled(k)) /\ OpensIn(Filled(k))
    /\ FrontOf(Filled(k)).p.m \in msgs
    /\ buf' = AfterOf(Filled(k)) /\ recvSeq' = recvSeq + 1
    /\ UNCHANGED <<encrypted, tries, remote, eof, typed, srv>>

Drained(k) == FrontOf(Filled(k)).p

\* Mutated form: output on the second stream gives no credit back.
DrainOutput_Stdout(k) ==
    /\ Drains(k, {"DATA", "EXTENDED_DATA"})
    /\ IF Drained(k).ch # remote
       THEN UNCHANGED <<pc, why, count, sendSeq, shown, up>>
       ELSE /\ shown' = Append(shown, Drained(k).n)
            /\ Proceed("drain", IF Drained(k).m = "DATA"
                                THEN <<OnChannel("WINDOW_ADJUST", remote, 1)>>
                                ELSE <<>>)

\* Mutated form: only the first stream is shown.
DrainOutput_NoStderr(k) ==
    /\ Drains(k, {"DATA", "EXTENDED_DATA"})
    /\ IF Drained(k).ch # remote
       THEN UNCHANGED <<pc, why, count, sendSeq, shown, up>>
       ELSE /\ shown' = IF Drained(k).m = "DATA" THEN Append(shown, Drained(k).n)
                        ELSE shown
            /\ Proceed("drain", <<OnChannel("WINDOW_ADJUST", remote, 1)>>)

\* The number in a packet of output is compared with remote_channel, which is
\* the server's number for the channel; the packet names the client's.
DrainOutput(k) ==
    /\ Drains(k, {"DATA", "EXTENDED_DATA"})
    /\ IF Drained(k).ch # remote
       THEN UNCHANGED <<pc, why, count, sendSeq, shown, up>>
       ELSE /\ shown' = Append(shown, Drained(k).n)
            /\ Proceed("drain", <<OnChannel("WINDOW_ADJUST", remote, 1)>>)

DrainEnd(k) ==
    /\ Drains(k, {"EOF", "CLOSE", "DISCONNECT"})
    /\ pc' = "done"
    /\ why' = IF Drained(k).m = "DISCONNECT" THEN "disconnect" ELSE "none"
    /\ UNCHANGED <<count, sendSeq, shown, up>>

\* Everything else is dropped, a request that wants a reply and a new key
\* exchange with it.
DrainOther(k) ==
    /\ Drains(k, {"IGNORE", "BANNER", "GLOBAL_REQUEST", "KEEPALIVE", "KEXINIT",
                  "EXIT_STATUS"})
    /\ UNCHANGED <<pc, why, count, sendSeq, shown, up>>

Drain ==
    \E k \in Reads :
        DrainPart(k) \/ DrainRefuse(k) \/ DrainOutput(k) \/ DrainEnd(k)
        \/ DrainOther(k)

Client ==
    \/ Fetch \/ GiveUp \/ ReadIdentification \/ Refuse \/ Skip
    \/ GotKexinit \/ GotKexdhReply \/ GotNewkeys \/ GotServiceAccept
    \/ GotUserauth \/ GotChannel
    \/ KeysRead \/ Closed \/ Drain

User == Password \/ Key

Next == Client \/ User \/ Server

\* The client is scheduled; a user who is asked for a password types one or
\* gives up.  Nothing is promised of the server.
Spec == Init /\ [][Next]_vars /\ WF_vars(Client) /\ WF_vars(Password)

----------------------------------------------------------------------------
(* Properties.                                                             *)

Phases == {"start", "ident", "kex", "auth", "authed", "channel", "shell",
           "rekey", "over"}

\* Every variable has its type.
TypeOK ==
    /\ pc \in Blocking \cup Shell \cup {"password", "done"}
    /\ count \in 0..(8 * RoundtripPkts + Lines) /\ tries \in 0..AuthTries
    /\ {sendSeq, recvSeq, typed} \subseteq Nat
    /\ {encrypted, eof} \subseteq BOOLEAN
    /\ remote \in ServerChannels \cup {NoChannel}
    /\ Len(shown) <= MaxData /\ Len(buf) <= BufRoom + 1
    /\ srv.phase \in Phases

\* The two ends never lose step: whatever the packets in between, and however
\* reads cut the stream, each end counts and seals every packet as the other
\* expects (g_send_seq, g_recv_seq and the keys of ssh_transport_install_keys),
\* and every message goes out in the phase, and to the channel, it belongs to.
\* Only a packet over the client's own limit is refused.
InStep ==
    /\ ~srv.err
    /\ why = "refused" => FrontOf(buf).p.big

\* The terminal shows the server's output in order, with nothing missing in
\* between and nothing twice, over both streams (ssh_run_session_shell); and
\* a session that ends with status 0 has shown all of it, provided that the
\* server gave the channel the number the client gave it.
OutputIsWhole ==
    /\ shown = [i \in 1..Len(shown) |-> i]
    /\ pc = "done" /\ why = "none" /\ remote = LocalChannel =>
           Len(shown) = srv.sent

\* The sum of a sequence of numbers.
Total(s) ==
    LET upTo[n \in 0..Len(s)] == IF n = 0 THEN 0 ELSE upTo[n - 1] + s[n]
    IN  upTo[Len(s)]

\* Packets of output among pieces, and the credit in packets.
Outputs(pieces) ==
    Total([i \in DOMAIN pieces |->
              IF pieces[i].last /\ pieces[i].pkt.p.m \in {"DATA", "EXTENDED_DATA"}
              THEN 1 ELSE 0])
Credits(pkts) ==
    Total([i \in DOMAIN pkts |->
              IF pkts[i].p.m = "WINDOW_ADJUST" THEN pkts[i].p.n ELSE 0])

\* Credit is neither lost nor made: what the server may still send, the
\* output under way, the output in the stream buffer and the credit on its
\* way back are together what the client gave.
CreditKept ==
    pc \in Shell /\ remote = LocalChannel =>
        srv.credit + Outputs(buf \o wire) + Credits(up) = 2 * Window

\* A session that is opened comes to a shell or is given up: no server, by
\* silence, idle talk or refusals, keeps the client in between for ever.
OpeningEnds == <>(pc \in Shell \cup {"done"})

\* A connection that is gone is noticed, in whatever state the client is.
CloseIsNoticed == srv.closed ~> pc \in {"done", "password"}
=============================================================================
