---------------------------- MODULE HttpSession ----------------------------
(***************************************************************************)
(* A pool thread serves one HTTP/1 connection in the synchronous build:    *)
(* Worker::SESSION_HANDLING, Session::Processing and one CHttp object for  *)
(* each request, over TCP or TLS.                                          *)
(*                                                                         *)
(* The client's bytes are tokens: a line of a request's header with its    *)
(* newline, or a body, which has none.  A receive takes some of the tokens *)
(* that have arrived, never part of one.  The text of lines is left out    *)
(* except for what decides the course of the connection.  The descriptor   *)
(* of the connection is a number that other threads of the worker may be   *)
(* given as soon as it has been closed; whatever is then done with it      *)
(* harms somebody else.                                                    *)
(***************************************************************************)
EXTENDS Naturals, Sequences, FiniteSets, SequencesExt

CONSTANTS
  Requests, \* bound: requests the client sends
  Kinds,    \* the kinds of requests it sends, see HeadLines
  Tickets,  \* the values of m_connection_keep_alive_max
  Auths,    \* whether www_authenticate names a scheme
  Tunnels   \* the values of m_enable_http_tunneling

ASSUME HttpSessionAssumption ==
  /\ Requests \in Nat /\ Tickets \subseteq Nat
  /\ Auths \subseteq BOOLEAN /\ Tunnels \subseteq BOOLEAN

VARIABLES
  config,    \* what the server is set up to do; never changes
  sent,      \* the kinds of the requests the client has sent
  late,      \* the client has not sent the body of its last request yet
  gone,      \* the client has closed its end
  pipelined, \* it has sent a request before it had the last one's answer
  net,       \* tokens that wait to be received
  fd,        \* whose the descriptor is: "ours", "free", "foreign"
  lost,      \* what found the connection broken and closed the descriptor
  harm,      \* what has been done to somebody else's descriptor
  elapsed,   \* m_connection_keep_alive_timeout: not reached, just, passed
  tickets,   \* m_connection_keep_alive_tickets
  pc,        \* where the thread is
  buf,       \* recv_buf of the object's linesock or linessl
  http,      \* the CHttp object
  unread,    \* a body has been left unread
  reused,    \* an object has gone on after an answer
  answers    \* the answers the client was sent: whose lines each is made of

client == <<sent, late, gone, pipelined>>
world  == <<config, elapsed>>
vars == <<config, sent, late, gone, pipelined, net, fd, lost, harm, elapsed,
          tickets, pc, buf, http, unread, reused, answers>>

(* The lines of a request.  "big" is an urlencoded body of 4 MB, "neg" has *)
(* a negative Content-Length, "head" one and no body; "auth" has the right *)
(* password, "url" an absolute URL.                                        *)
HeadLines(k) ==
  CASE k = "post"    -> <<"start", "length", "end">>
    [] k = "big"     -> <<"start", "length", "end">>
    [] k = "neg"     -> <<"start", "length", "end">>
    [] k = "head"    -> <<"start", "length", "end">>
    [] k = "close"   -> <<"start", "close", "end">>
    [] k = "auth"    -> <<"start", "auth", "end">>
    [] OTHER         -> <<"start", "end">>
Body(k) == IF k \in {"post", "big"} THEN <<"body">> ELSE <<>>
Of(i, ts) == [j \in DOMAIN ts |-> [of |-> i, is |-> ts[j]]]

Method(k) == CASE k \in {"post", "big", "neg"} -> "POST" [] k = "put" -> "PUT"
               [] k = "head" -> "HEAD" [] OTHER -> "GET"
Here(k)   == k \notin {"connect", "url"}
Target(k) == IF Here(k) THEN "here" ELSE k
Length(k) == CASE k = "post" -> "some" [] k = "big" -> "big"
               [] k = "neg" -> "negative" [] OTHER -> "none"

(* CHttp::CHttp: keep-alive is off for the last ticket and when its time   *)
(* is up (at once if the timeout is 0).                                    *)
Enabled == tickets # 1 /\ elapsed = "under"

Object(on) == [method |-> "GET", target |-> "here", length |-> "none",
               passed |-> FALSE, enabled |-> on, keep |-> on, from |-> {}]

Init ==
  /\ config \in [tls : BOOLEAN, auth : Auths, tunnel : Tunnels]
  /\ sent = <<>> /\ late = FALSE /\ gone = FALSE /\ pipelined = FALSE
  /\ net = <<>>
  /\ fd = "ours" /\ lost = "no" /\ harm = {}
  /\ elapsed \in {"under", "at"} /\ tickets \in Tickets
  /\ pc = IF config.tls THEN "handshake" ELSE "line"
  /\ buf = <<>>
  /\ http = Object(Enabled)
  /\ unread = FALSE /\ reused = FALSE /\ answers = <<>>

-----------------------------------------------------------------------------
(* The client, time, and the other threads of the worker (which matter     *)
(* until the thread is done).                                              *)
Request(k) ==
  /\ Len(sent) < Requests /\ ~late /\ ~gone /\ pc \notin {"handshake", "closed"}
  /\ sent' = Append(sent, k)
  /\ net' = net \o Of(Len(sent) + 1, HeadLines(k))
  /\ late' = (Body(k) # <<>>)
  /\ pipelined' = (pipelined \/ Len(answers) < Len(sent))
  /\ UNCHANGED <<gone, fd, lost, harm, tickets, pc, buf, http, unread, reused, answers>>
  /\ UNCHANGED world

SendBody ==
  /\ late /\ ~gone /\ pc # "closed"
  /\ net' = net \o Of(Len(sent), Body(Last(sent)))
  /\ late' = FALSE
  /\ UNCHANGED <<sent, gone, pipelined, fd, lost, harm, tickets, pc, buf, http,
                 unread, reused, answers>>
  /\ UNCHANGED world

Leave ==
  /\ ~gone /\ pc # "closed"
  /\ gone' = TRUE
  /\ UNCHANGED <<sent, late, pipelined, net, fd, lost, harm, tickets, pc, buf, http,
                 unread, reused, answers>>
  /\ UNCHANGED world

Pass ==
  /\ elapsed' = CASE elapsed = "under" -> "at" [] OTHER -> "over"
  /\ elapsed # "over" /\ pc # "closed"
  /\ UNCHANGED <<config, net, fd, lost, harm, tickets, pc, buf, http, unread,
                 reused, answers>>
  /\ UNCHANGED client

Reuse ==
  /\ fd = "free" /\ pc # "closed"
  /\ fd' = "foreign"
  /\ UNCHANGED <<net, lost, harm, tickets, pc, buf, http, unread, reused, answers>>
  /\ UNCHANGED <<client, world>>

-----------------------------------------------------------------------------
(* Every use of the descriptor, whoever's it is by now.                    *)
Harm(what) == harm \cup IF fd = "foreign" THEN {what} ELSE {}

(* A reader or a writer that finds the connection broken closes the        *)
(* descriptor at once and does not say so.                                 *)
Break(where) ==
  /\ fd' = "free"
  /\ harm' = Harm("closed")
  /\ lost' = IF lost = "no" THEN where ELSE lost

(* SSL_accept: the handshake ends, or fails and everything is cleaned up;  *)
(* while the client says nothing it is tried again and again.              *)
Accepted ==
  /\ pc = "handshake" /\ ~gone
  /\ pc' = "line"
  /\ UNCHANGED <<net, fd, lost, harm, tickets, buf, http, unread, reused, answers>>
  /\ UNCHANGED <<client, world>>

Refused ==
  /\ pc = "handshake"
  /\ pc' = "closed"
  /\ fd' = "free"
  /\ UNCHANGED <<net, lost, harm, tickets, buf, http, unread, reused, answers>>
  /\ UNCHANGED <<client, world>>

(* lrecv: a line that is in the buffer; else what is there and some more   *)
(* of what has arrived, until there is a line.  (Here and below, a         *)
(* definition whose name begins with Slip is a faulty variant of the one   *)
(* after it and is used by nothing.)                                       *)
IsLine(t) == t.is # "body"
LineEnd(ts) == SelectInSeq(ts, IsLine)

(* LineParse: what a line does to the object.  What a body has left before *)
(* its first newline is part of the line, which then means nothing.        *)
Meant(line) == IF Len(line) = 1 THEN line[1].is ELSE "nothing"

Parse(o, line) ==
  LET k == sent[Last(line).of]
      p == [o EXCEPT !.from = @ \cup {t.of : t \in Range(line)}]
  IN CASE Meant(line) = "start"  -> [p EXCEPT !.method = Method(k), !.target =
                                       IF Here(k) THEN @ ELSE Target(k)]
       [] Meant(line) = "close"  -> [p EXCEPT !.keep = FALSE]
       [] Meant(line) = "length" -> [p EXCEPT !.length =
                                       IF o.method = "HEAD" THEN "none" ELSE Length(k)]
       [] Meant(line) = "auth"   -> [p EXCEPT !.passed = TRUE]
       [] OTHER                  -> p

TakeLine(ts) ==
  LET n == LineEnd(ts)
      line == SubSeq(ts, 1, n)
  IN /\ buf' = SubSeq(ts, n + 1, Len(ts))
     /\ http' = Parse(http, line)
     /\ pc' = IF Meant(line) = "end" THEN "data" ELSE "line"

LineBuffered ==
  /\ pc = "line" /\ LineEnd(buf) > 0
  /\ TakeLine(buf)
  /\ UNCHANGED <<net, fd, lost, harm, tickets, unread, reused, answers>>
  /\ UNCHANGED <<client, world>>

LineReceived ==
  /\ pc = "line" /\ LineEnd(buf) = 0 /\ fd = "ours"
  /\ \E n \in 1 .. Len(net) :
       LET ts == buf \o SubSeq(net, 1, n) IN
       /\ net' = SubSeq(net, n + 1, Len(net))
       /\ IF LineEnd(ts) > 0 THEN TakeLine(ts)
          ELSE buf' = ts /\ UNCHANGED <<pc, http>>
  /\ UNCHANGED <<fd, lost, harm, tickets, unread, reused, answers>>
  /\ UNCHANGED <<client, world>>

(* The client has gone, or nothing has come for the idle time (a TLS       *)
(* connection has none: SSL_read is tried again at once), or select does   *)
(* not know the descriptor any more.                                       *)
Over(timed) == /\ net = <<>> \/ fd # "ours"
               /\ gone \/ timed \/ fd # "ours"

NothingMore(timed) == Over(timed)

LineLost ==
  /\ pc = "line" /\ LineEnd(buf) = 0
  /\ NothingMore(~config.tls)
  /\ fd' = "free"
  /\ harm' = Harm("closed") \cup Harm("read")
  /\ lost' = IF lost = "no" THEN "line" ELSE lost
  /\ pc' = "ended"
  /\ buf' = <<>>
  /\ UNCHANGED <<net, tickets, http, unread, reused, answers>>
  /\ UNCHANGED <<client, world>>

(* On somebody else's descriptor his bytes are the next lines (of which    *)
(* there are, as a bound, those of one receive).                           *)
LineStrange ==
  /\ "read" \notin harm
  /\ pc = "line" /\ LineEnd(buf) = 0 /\ fd = "foreign"
  /\ harm' = Harm("read")
  /\ pc' \in {"line", "data"}
  /\ UNCHANGED <<net, fd, lost, tickets, buf, http, unread, reused, answers>>
  /\ UNCHANGED <<client, world>>

-----------------------------------------------------------------------------
(* DataParse and RecvPostData: the body, if there is one and it is not too *)
(* long to be wanted.                                                      *)
Wanted == http.length = "some"

NoBody ==
  /\ pc = "data" /\ http.length # "negative" /\ ~Wanted
  /\ unread' = (unread \/ http.length = "big")
  /\ pc' = "reply"
  /\ UNCHANGED <<net, fd, lost, harm, tickets, buf, http, reused, answers>>
  /\ UNCHANGED <<client, world>>

(* drecv: first what the reader has, then the socket. *)
BodyReceived ==
  /\ pc = "data" /\ Wanted
  /\ LET ts == buf \o net IN
     /\ ts # <<>> /\ (buf # <<>> \/ fd = "ours")
     /\ buf' = IF buf # <<>> THEN Tail(buf) ELSE <<>>
     /\ net' = IF buf # <<>> THEN net ELSE Tail(net)
     /\ http' = [http EXCEPT !.from = @ \cup {ts[1].of}]
  /\ pc' = "reply"
  /\ UNCHANGED <<fd, lost, harm, tickets, unread, reused, answers>>
  /\ UNCHANGED <<client, world>>

(* Without its body the request is answered all the same. *)
BodyLost ==
  /\ pc = "data" /\ Wanted /\ buf = <<>>
  /\ Over(~config.tls)
  /\ fd' = "free"
  /\ harm' = Harm("closed") \cup Harm("read")
  /\ lost' = IF lost = "no" THEN "body" ELSE lost
  /\ pc' = "reply"
  /\ UNCHANGED <<net, tickets, buf, http, unread, reused, answers>>
  /\ UNCHANGED <<client, world>>

-----------------------------------------------------------------------------
(* Send: it succeeds, or finds the connection broken (of a client without  *)
(* TLS that does not read, too: only there does a send time out), or is    *)
(* somebody else's.                                                        *)
Send ==
  \/ /\ fd = "ours"
     /\ answers' = IF gone THEN answers ELSE Append(answers, http.from)
     /\ UNCHANGED <<fd, lost, harm>>
  \/ /\ (fd = "ours" /\ (gone \/ ~config.tls)) \/ fd = "free"
     /\ Break("answer") /\ UNCHANGED answers
  \/ /\ fd = "foreign"
     /\ harm' = Harm("written")
     /\ UNCHANGED <<fd, lost, answers>>

Kept(o) == o.keep /\ o.enabled

(* ResponseReply and DataParse send an answer and say how to go on: the    *)
(* connection is closed, or kept if the object keeps it.                   *)
Reply(o, closes) ==
  /\ Send
  /\ http' = o
  /\ pc' = IF closes \/ ~Kept(o) THEN "ended" ELSE "kept"
  /\ UNCHANGED <<net, tickets, buf, unread, reused>>
  /\ UNCHANGED <<client, world>>

TooShort == pc = "data" /\ http.length = "negative" /\ Reply(http, TRUE)

(* 401 or 407: the object takes the next request, too. *)
Passed(o) == o.passed \/ ~config.auth

Challenge ==
  /\ pc = "reply" /\ ~Passed(http)
  /\ Send
  /\ reused' = TRUE
  /\ pc' = "line"
  /\ UNCHANGED <<net, tickets, buf, http, unread>>
  /\ UNCHANGED <<client, world>>

(* 405 for PUT and DELETE, 500 when an extension wants no answer: closed. *)
NotAllowed == /\ pc = "reply" /\ Passed(http) /\ http.target = "here"
              /\ Reply(http, TRUE)

(* Response: the document's answer, which ends with the connection unless  *)
(* the length was known beforehand.                                        *)
Document ==
  /\ pc = "reply" /\ Passed(http) /\ http.target = "here" /\ http.method # "PUT"
  /\ \E sized \in BOOLEAN : Reply([http EXCEPT !.keep = @ /\ sized], FALSE)

(* 404 or 405 without tunnelling or when an extension refuses it. *)
NoTunnel == /\ pc = "reply" /\ Passed(http) /\ http.target # "here"
            /\ Reply(http, FALSE)

(* The tunnel answers by itself; a CONNECT ends with the connection.       *)
Tunnelled ==
  /\ pc = "reply" /\ Passed(http) /\ http.target # "here" /\ config.tunnel
  /\ \E sized \in BOOLEAN : Reply([http EXCEPT !.keep = @ /\ sized], FALSE)

-----------------------------------------------------------------------------
(* CHttp::~CHttp shuts the connection down unless it is kept.              *)
SlipCloses == /\ harm' = IF Kept(http) THEN harm ELSE Harm("closed")
              /\ fd' = IF Kept(http) THEN fd ELSE "free"
Gone       == /\ harm' = IF Kept(http) THEN harm ELSE Harm("shut down")
              /\ UNCHANGED fd

(* Session::Processing: one ticket less; the last, or the time, ends it.   *)
LastOne == tickets = 1 \/ tickets = 0 \/ elapsed = "over"

SlipKeepsObject == http
NewObject == Object(Enabled')

Again ==
  /\ pc = "kept" /\ ~LastOne
  /\ tickets' = tickets - 1
  /\ http' = NewObject
  /\ buf' = <<>>
  /\ pc' = "line"
  /\ UNCHANGED <<net, fd, lost, harm, unread, reused, answers>>
  /\ UNCHANGED <<client, world>>

Ended ==
  /\ pc = "ended" \/ (pc = "kept" /\ LastOne)
  /\ Gone
  /\ pc' = "close"
  /\ buf' = <<>>
  /\ UNCHANGED <<net, lost, tickets, http, unread, reused, answers>>
  /\ UNCHANGED <<client, world>>

(* SESSION_HANDLING says goodbye to a TLS client and closes the socket.    *)
Close ==
  /\ pc = "close"
  /\ harm' = Harm("closed") \cup IF config.tls THEN Harm("written") ELSE {}
  /\ fd' = "free"
  /\ pc' = "closed"
  /\ UNCHANGED <<net, lost, tickets, buf, http, unread, reused, answers>>
  /\ UNCHANGED <<client, world>>

-----------------------------------------------------------------------------
Thread ==
  \/ Accepted \/ Refused \/ LineBuffered \/ LineReceived \/ LineLost
  \/ LineStrange \/ NoBody \/ BodyReceived \/ BodyLost \/ TooShort \/ Challenge \/ NotAllowed
  \/ Document \/ NoTunnel \/ Tunnelled \/ Again \/ Ended \/ Close

Next ==
  \/ (\E k \in Kinds : Request(k)) \/ SendBody \/ Leave \/ Pass \/ Reuse
  \/ Thread

Spec == Init /\ [][Next]_vars

(* The thread runs, and idle time passes; what the client does is its own  *)
(* affair.  A handshake may fail but need not: that of a client that says  *)
(* nothing goes on.                                                        *)
FairSpec == Spec /\ WF_vars(Thread /\ pc # "handshake")
                 /\ WF_vars(gone /\ Refused)

-----------------------------------------------------------------------------
TypeOK ==
  /\ sent \in Seq(Kinds) /\ Len(sent) <= Requests
  /\ fd \in {"ours", "free", "foreign"}
  /\ lost \in {"no", "line", "body", "answer"}
  /\ harm \subseteq {"closed", "read", "written", "shut down"}
  /\ elapsed \in {"under", "at", "over"} /\ tickets \in Nat
  /\ pc \in {"handshake", "line", "data", "reply", "kept", "ended", "close", "closed"}
  /\ http.from \subseteq 1 .. Len(sent)

(* An answer is that to the client's next request and made of that         *)
(* request's lines and body alone, unless the client has sent requests     *)
(* ahead (a buffer with the beginning of the next one goes with its        *)
(* object), a body was too long to be read and is taken for lines, or an   *)
(* object that asked for a password has gone on to the next request.       *)
AnswersOwnRequest ==
  pipelined \/ unread \/ reused \/
    \A i \in DOMAIN answers : answers[i] = {i}

(* The descriptor is given up only where the connection is found broken,   *)
(* and what is then done to the next owner of its number: another reader   *)
(* takes its bytes and a request is answered into it only after a body was *)
(* lost, as a thread whose line was lost does neither.                     *)
HarmAfterLoss ==
  /\ TypeOK
  /\ harm # {} => lost # "no"
  /\ "read" \in harm => lost \in {"body", "answer"}
  /\ lost = "line" /\ ~config.tls => "written" \notin harm

=============================================================================
