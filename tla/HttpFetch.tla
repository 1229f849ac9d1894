----------------------------- MODULE HttpFetch -----------------------------
(***************************************************************************)
(* The download of an index or an archive by `install`                     *)
(* (packages/install/src/install/package.c, pkg_http_get_stream): requests *)
(* over the one TCP connection of the process, redirects, a second try of  *)
(* an HTTPS request, the fall back to HTTP, a response that arrives in     *)
(* pieces of any size, and its body handed to the caller's sink.           *)
(*                                                                         *)
(* The server is external.  It answers with any member of Replies and may  *)
(* close the connection at any point; a piece of what it sent arrives      *)
(* whenever the network brings it.  A body is a sequence of numbers, its   *)
(* bytes; the head of a response is HeadUnit repeated, the blank line that *)
(* ends it included.                                                       *)
(***************************************************************************)
EXTENDS Integers, Sequences, SequencesExt, FiniteSets

CONSTANTS
    Urls,          \* the URLs in play
    Https,         \* those of them whose scheme is https
    Literals,      \* those whose host is an IPv4 address
    Normal,        \* Normal[u]: u with a private host replaced by the index's
    Plain,         \* Plain[u]: the http form of an https URL, where there is one
    Archive,       \* the bytes published under every URL
    Replies,       \* what a server may answer
    RecvBuf,       \* PKG_HTTP_RECV_BUF
    HeaderBuf,     \* PKG_HTTP_MAX_HEADER
    ChunkBuf,      \* PKG_HTTP_CHUNK_BUF
    FirstLimit,    \* PKG_HTTP_FIRST_BYTE_RECV_LIMIT
    IdleLimit,     \* PKG_HTTP_IDLE_RECV_LIMIT
    MaxRedirects   \* PKG_HTTP_MAX_REDIRECTS

ASSUME FetchAssumption ==
    /\ Https \subseteq Urls /\ Literals \subseteq Urls
    /\ Normal \in [Urls -> Urls]
    /\ DOMAIN Plain \subseteq Https /\ \A u \in DOMAIN Plain : Plain[u] \in Urls \ Https
    /\ Archive \in Seq(Nat) /\ Archive # <<>>
    /\ RecvBuf \in 1..(HeaderBuf - 1) /\ HeaderBuf <= ChunkBuf /\ RecvBuf + 2 <= ChunkBuf
    /\ {HeaderBuf, ChunkBuf, FirstLimit, MaxRedirects} \subseteq Nat /\ IdleLimit \in 1..FirstLimit

(* An answer: a head, the blank line that ends it included, and a body in  *)
(* pieces, which matter where it is sent in chunks.  A chunk has a size of *)
(* one digit.                                                              *)
ASSUME RepliesAssumption ==
    /\ Replies \subseteq [kind : {"sized", "unsized", "chunked", "garbled", "refusal", "redirect"},
                          head : Nat \ {0}, chunks : Seq(Seq(Nat)), to : Urls]
    /\ \A r \in Replies : r.kind = "chunked" => \A i \in DOMAIN r.chunks : Len(r.chunks[i]) \in 1..9

VARIABLES
    at,        \* where the fetch is
    url,       \* current_url of the redirect loop
    history,   \* redirect_history, with redirect_history_count its length
    target,    \* the URL of the request in hand: current_url or its fallback
    attempt,   \* 1 or 2
    sni,       \* the handshake is the one with the trusted host's name
    link,      \* the connection: "closed", "open" or, with TLS on it, "tls"
    reply,     \* what the server answers
    wire,      \* what of it has not arrived
    rx,        \* the locals of the receive loop
    sink,      \* what the caller's writer has been given
    before,    \* ghost: how much of sink earlier attempts wrote
    early,     \* ghost: the server closed before the end of the reply
    result     \* "none", "ok", "failed"

fetchVars == <<at, url, history, target, attempt, sni, link, reply, wire, rx,
               sink, before, early, result>>

CR == 13
LF == 10
HeadUnit == 1
Digit(n) == 48 + n
NoSize == -1

(* The body of a reply, and how it is sent: as it is, or in chunks, each   *)
(* after a line with its size, and a chunk of none.                        *)
Body(r) == FlattenSeq(r.chunks)
Framed(c) == <<Digit(Len(c)), CR, LF>> \o c \o <<CR, LF>>
LastChunk == <<Digit(0), CR, LF, CR, LF>>

Encoded(r) ==
    CASE r.kind = "chunked" -> FlattenSeq([i \in DOMAIN r.chunks |-> Framed(r.chunks[i])]) \o LastChunk
      [] r.kind = "garbled" -> <<CR, LF>>
      [] OTHER -> Body(r)

Sent(r) == [i \in 1..r.head |-> HeadUnit] \o Encoded(r)

Chunked == reply.kind \in {"chunked", "garbled"}

NoReply == [kind |-> "none", head |-> 0, chunks |-> <<>>, to |-> CHOOSE u \in Urls : TRUE]

Fresh == [head |-> <<>>, headDone |-> FALSE, data |-> <<>>, buf |-> <<>>, need |-> NoSize,
          done |-> FALSE, total |-> 0, idle |-> 0, any |-> FALSE]

FetchInit ==
    /\ at = "loop"
    /\ \E u \in Urls : url = Normal[u] /\ target = url
    /\ history = <<>> /\ attempt = 1 /\ sni = FALSE /\ link = "closed"
    /\ reply = NoReply /\ wire = <<>> /\ rx = Fresh
    /\ sink = <<>> /\ before = 0 /\ early = FALSE /\ result = "none"

----------------------------------------------------------------------------
(* How an attempt ends. *)

Return(r) == at' = "returned" /\ result' = r

(* What an attempt leaves: the connection closed, its TLS context freed.   *)
Hangup == link' = "closed" /\ wire' = <<>> /\ rx' = Fresh /\ sni' = FALSE

Asking(u, n) ==
    /\ at' = "connect" /\ target' = u /\ attempt' = n /\ before' = Len(sink)
    /\ result' = result

(* An attempt that returns -1.  A request over HTTPS is tried twice, unless*)
(* the first ran out of time; memory the TLS library could not get sends   *)
(* it over HTTP, if the URL has such a form.                               *)
Retries_Always(e) == target \in Https /\ e # "timeout"
Retries(e) == target \in Https /\ attempt = 1 /\ e # "timeout"
FallsBack(e) == target \in DOMAIN Plain /\ ~Retries(e) /\ e = "alloc"

AttemptFails(e) ==
    /\ Hangup
    /\ reply' = NoReply /\ early' = FALSE
    /\ UNCHANGED <<url, history, sink>>
    /\ \/ Retries(e) /\ Asking(target, 2)
       \/ FallsBack(e) /\ Asking(Plain[target], 1)
       \/ ~Retries(e) /\ ~FallsBack(e) /\ Return("failed") /\ UNCHANGED <<target, attempt, before>>

Errors == IF target \in Https THEN {"other", "internal", "alloc"} ELSE {"other"}

----------------------------------------------------------------------------
(* The redirect loop. *)

RedirectLoop ==
    /\ at = "loop"
    /\ Len(history) <= MaxRedirects /\ ~Contains(history, url)
    /\ history' = Append(history, url)
    /\ Asking(url, 1)
    /\ UNCHANGED <<url, sni, link, reply, wire, rx, sink, early>>

GivesUp ==
    /\ at = "loop"
    /\ Len(history) > MaxRedirects \/ Contains(history, url)
    /\ Return("failed")
    /\ UNCHANGED <<url, history, target, attempt, sni, link, reply, wire, rx, sink, before, early>>

----------------------------------------------------------------------------
(* One request. *)

Connect ==
    /\ at = "connect"
    /\ at' = "ask" /\ link' = IF target \in Https THEN "tls" ELSE "open"
    /\ UNCHANGED <<url, history, target, attempt, sni, reply, wire, rx, sink, before, early, result>>

(* A handshake that fails inside is made again with the trusted host's     *)
(* name, when the URL has an address for a host.                           *)
TrustedSni(e) == e = "internal" /\ target \in Literals /\ ~sni

ConnectWithTrustedSni ==
    /\ at = "connect" /\ target \in Https /\ TrustedSni("internal")
    /\ sni' = TRUE
    /\ UNCHANGED <<at, url, history, target, attempt, link, reply, wire, rx, sink, before, early, result>>

ConnectFails ==
    /\ at = "connect"
    /\ \E e \in Errors \cup (IF target \in Https THEN {"timeout"} ELSE {}) :
            ~TrustedSni(e) /\ AttemptFails(e)

AskFails == at = "ask" /\ \E e \in Errors : AttemptFails(e)

(* The request is sent and the server picks its answer. *)
Ask ==
    /\ at = "ask"
    /\ at' = "recv"
    /\ \E r \in Replies : reply' = r /\ wire' = Sent(r)
    /\ UNCHANGED <<url, history, target, attempt, sni, link, rx, sink, before, early, result>>

----------------------------------------------------------------------------
(* The receive loop: what one read returns. *)

Incoming(n) ==
    /\ at = "recv" /\ n \in 1..RecvBuf /\ n <= Len(wire)
    /\ wire' = SubSeq(wire, n + 1, Len(wire))

Segment(n) == SubSeq(wire, 1, n)
Heard == [rx EXCEPT !.any = TRUE, !.idle = 0]

Unchanged == UNCHANGED <<url, history, target, attempt, sni, link, reply, sink, before, early, result>>

HeaderFull_Early(n) == Len(rx.head) + n + 1 >= HeaderBuf
HeaderFull(n) == Len(rx.head) + n >= HeaderBuf

RecvHeader(n) ==
    /\ Incoming(n) /\ ~rx.headDone /\ ~HeaderFull(n)
    /\ rx' = [Heard EXCEPT !.head = @ \o Segment(n)]
    /\ at' = IF Len(rx'.head) >= reply.head THEN "head" ELSE "recv"
    /\ Unchanged

HeaderTooLarge(n) ==
    at = "recv" /\ n \in 1..RecvBuf /\ n <= Len(wire) /\ ~rx.headDone /\ HeaderFull(n)
    /\ AttemptFails("other")

RecvPlain(n) ==
    /\ Incoming(n) /\ rx.headDone /\ ~Chunked
    /\ rx' = [Heard EXCEPT !.data = Segment(n)]
    /\ at' = "write"
    /\ Unchanged

ChunkFull(n) == Len(rx.buf) + n > ChunkBuf

RecvChunked(n) ==
    /\ Incoming(n) /\ rx.headDone /\ Chunked /\ ~ChunkFull(n)
    /\ rx' = [Heard EXCEPT !.buf = @ \o Segment(n)]
    /\ at' = "decode"
    /\ Unchanged

ChunkOverflow(n) ==
    at = "recv" /\ n \in 1..RecvBuf /\ n <= Len(wire) /\ rx.headDone /\ Chunked /\ ChunkFull(n)
    /\ AttemptFails("other")

Polls == IF rx.any THEN IdleLimit ELSE FirstLimit

RecvIdle ==
    /\ at = "recv" /\ rx.idle + 1 < Polls
    /\ rx' = [rx EXCEPT !.idle = @ + 1]
    /\ UNCHANGED <<at, wire>> /\ Unchanged

RecvTimeout == at = "recv" /\ rx.idle + 1 >= Polls /\ AttemptFails("timeout")

RecvFails == at = "recv" /\ \E e \in Errors : AttemptFails(e)

(* The server has closed, at the end of its reply or before. *)
RecvClosed ==
    /\ at = "recv"
    /\ at' = "close" /\ wire' = <<>> /\ early' = (wire # <<>>)
    /\ UNCHANGED <<url, history, target, attempt, sni, link, reply, rx, sink, before, result>>

----------------------------------------------------------------------------
(* The head has arrived. *)

FollowRedirect ==
    /\ at = "head" /\ reply.kind = "redirect"
    /\ Hangup
    /\ url' = Normal[reply.to] /\ reply' = NoReply /\ at' = "loop"
    /\ UNCHANGED <<history, target, attempt, sink, before, early, result>>

(* A redirect to nowhere, or a status that is neither 200 nor 206. *)
HeadRefused == at = "head" /\ reply.kind = "refusal" /\ AttemptFails("other")

(* The body starts in the read that ended the head. *)
BodyBegins_DropsRest ==
    /\ at = "head" /\ reply.kind \notin {"redirect", "refusal"}
    /\ at' = "recv" /\ rx' = [rx EXCEPT !.headDone = TRUE]
    /\ UNCHANGED wire /\ Unchanged

BodyBegins ==
    /\ at = "head" /\ reply.kind \notin {"redirect", "refusal"}
    /\ LET behind == SubSeq(rx.head, reply.head + 1, Len(rx.head))
       IN IF Chunked
          THEN /\ rx' = [rx EXCEPT !.headDone = TRUE, !.buf = behind]
               /\ at' = "decode"
          ELSE /\ rx' = [rx EXCEPT !.headDone = TRUE, !.data = behind]
               /\ at' = IF behind = <<>> THEN "recv" ELSE "write"
    /\ UNCHANGED wire /\ Unchanged

----------------------------------------------------------------------------
(* The body goes to the caller's writer, which may fail: no room, no       *)
(* memory, a failed write.                                                 *)

Enough == reply.kind = "sized" /\ rx.total + Len(rx.data) >= Len(Body(reply))

WriteBody ==
    /\ at = "write"
    /\ sink' = sink \o rx.data
    /\ rx' = [rx EXCEPT !.total = @ + Len(rx.data), !.data = <<>>]
    /\ at' = IF Enough THEN "close" ELSE "recv"
    /\ UNCHANGED <<url, history, target, attempt, sni, link, reply, wire, before, early, result>>

WriteBodyFails == at = "write" /\ AttemptFails("other")

(* The decoder of chunks, over what is in chunk_buf. *)
LineEnds == {i \in 1..(Len(rx.buf) - 1) : rx.buf[i] = CR /\ rx.buf[i + 1] = LF}
LineEnd == CHOOSE i \in LineEnds : \A j \in LineEnds : i <= j
SizeKnown == rx.need # NoSize
ParsedSize == rx.buf[1] - 48
SizeIsHex == LineEnd = 2 /\ ParsedSize \in 0..9
Dropped(n) == SubSeq(rx.buf, n + 1, Len(rx.buf))

ChunkSize ==
    /\ at = "decode" /\ ~SizeKnown /\ LineEnds # {} /\ SizeIsHex
    /\ rx' = [rx EXCEPT !.need = ParsedSize, !.buf = Dropped(LineEnd + 1), !.done = ParsedSize = 0]
    /\ at' = IF ParsedSize = 0 THEN "close" ELSE "decode"
    /\ UNCHANGED wire /\ Unchanged

InvalidSize == at = "decode" /\ ~SizeKnown /\ LineEnds # {} /\ ~SizeIsHex /\ AttemptFails("other")

WholeChunk == SizeKnown /\ Len(rx.buf) >= rx.need + 2

WriteChunk ==
    /\ at = "decode" /\ WholeChunk
    /\ sink' = sink \o SubSeq(rx.buf, 1, rx.need)
    /\ rx' = [rx EXCEPT !.total = @ + rx.need, !.buf = Dropped(rx.need + 2), !.need = NoSize]
    /\ UNCHANGED <<at, url, history, target, attempt, sni, link, reply, wire, before, early, result>>

WriteChunkFails == at = "decode" /\ WholeChunk /\ AttemptFails("other")

WantsMore ==
    /\ at = "decode"
    /\ IF SizeKnown THEN ~WholeChunk ELSE LineEnds = {}
    /\ at' = "recv"
    /\ UNCHANGED <<wire, rx>> /\ Unchanged

----------------------------------------------------------------------------
(* After the loop: the connection is closed; chunks that did not come to   *)
(* their end are a failure, anything else is what the caller looks at.     *)

Incomplete == at = "close" /\ Chunked /\ ~rx.done /\ AttemptFails("other")

Received ==
    /\ at = "close" /\ (Chunked => rx.done)
    /\ link' = "closed" /\ wire' = <<>>
    /\ at' = "received"
    /\ UNCHANGED <<url, history, target, attempt, sni, reply, rx, sink, before, early, result>>

(* What the caller makes of an archive: it must have the published digest  *)
(* and be as long as was reported.  (Of an index, only that it is one JSON *)
(* document.)                                                              *)
Digests == sink = Archive
LengthsAgree == Len(sink) = rx.total

Accept ==
    /\ at = "received" /\ Digests /\ LengthsAgree
    /\ Return("ok")
    /\ UNCHANGED <<url, history, target, attempt, sni, link, reply, wire, rx, sink, before, early>>

Reject ==
    /\ at = "received" /\ ~(Digests /\ LengthsAgree)
    /\ Return("failed")
    /\ UNCHANGED <<url, history, target, attempt, sni, link, reply, wire, rx, sink, before, early>>

Returned == at = "returned" /\ UNCHANGED fetchVars

Fetch ==
    \/ RedirectLoop \/ GivesUp
    \/ Connect \/ ConnectWithTrustedSni \/ ConnectFails \/ Ask \/ AskFails
    \/ \E n \in 1..RecvBuf :
            RecvHeader(n) \/ HeaderTooLarge(n) \/ RecvPlain(n) \/ RecvChunked(n) \/ ChunkOverflow(n)
    \/ RecvIdle \/ RecvTimeout \/ RecvFails \/ RecvClosed
    \/ FollowRedirect \/ HeadRefused \/ BodyBegins
    \/ WriteBody \/ WriteBodyFails
    \/ ChunkSize \/ InvalidSize \/ WriteChunk \/ WriteChunkFails \/ WantsMore
    \/ Incomplete \/ Received \/ Accept \/ Reject

FetchNext == Fetch \/ Returned

FetchSpec == FetchInit /\ [][FetchNext]_fetchVars /\ WF_fetchVars(Fetch)

----------------------------------------------------------------------------
TypeOK ==
    /\ at \in {"loop", "connect", "ask", "recv", "head", "write", "decode", "close",
               "received", "returned"}
    /\ url \in Urls /\ target \in Urls /\ attempt \in {1, 2} /\ sni \in BOOLEAN
    /\ history \in Seq(Urls) /\ Len(history) <= MaxRedirects + 1
    /\ link \in {"closed", "open", "tls"}
    /\ Len(rx.head) < HeaderBuf /\ Len(rx.buf) <= ChunkBuf /\ Len(rx.data) < HeaderBuf
    /\ rx.need \in {NoSize} \cup Nat /\ rx.idle \in 0..(FirstLimit - 1)
    /\ before \in 0..Len(sink) /\ early \in BOOLEAN
    /\ result \in {"none", "ok", "failed"} /\ (result # "none" <=> at = "returned")

(* What this attempt has handed to the caller's writer. *)
Written == SubSeq(sink, before + 1, Len(sink))

(* However the network cuts a response into pieces, in the middle of the   *)
(* blank line, of a chunk's size or of the CRLF after it, the body comes   *)
(* out of the receive loop in order, with nothing lost, repeated or taken  *)
(* from between two chunks; and one that is taken for complete is complete *)
(* and as long as is reported: chunks always, a body of announced or       *)
(* unknown length unless the server closed before its end (nothing in the  *)
(* loop tells then).                                                       *)
BodyIsWhole ==
    /\ at \in {"recv", "head", "write", "decode", "close"} => IsPrefix(Written, Body(reply))
    /\ at = "received" =>
           /\ rx.total = Len(Written)
           /\ Chunked \/ ~early => Written = Body(reply)

(* Whatever the pieces, a response is refused for its size only if its     *)
(* head is longer than the header buffer less one read, or one of its      *)
(* chunks with the CRLF after it does not leave room for one read in the   *)
(* chunk buffer.                                                           *)
SmallRepliesFit ==
    \A n \in 1..RecvBuf :
        at = "recv" /\ n <= Len(wire) =>
            /\ ~rx.headDone /\ HeaderFull(n) => reply.head > HeaderBuf - RecvBuf
            /\ rx.headDone /\ Chunked /\ ChunkFull(n) =>
                    \E i \in DOMAIN reply.chunks : Len(reply.chunks[i]) + 1 > ChunkBuf - RecvBuf

(* A download ends, whatever servers answer and whichever URLs they send   *)
(* the client round.                                                       *)
FetchEnds == <>(at = "returned")

=============================================================================
