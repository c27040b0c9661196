----------------------------- MODULE Http2Conn -----------------------------
(***************************************************************************)
(* One HTTP/2 connection (CHttp2, http2_stream) and the thread that serves *)
(* it, in the default build, without _WITH_ASYNC_.                         *)
(*                                                                         *)
(* The thread reads a frame and handles it to its end, the whole response  *)
(* to a request included.  A response that has used up the window of its   *)
(* stream reads the next frame itself and handles that first: responses    *)
(* nest, and the activations that are under way form a stack.  What        *)
(* arrives is chosen when it is read; what it may be is up to the client,  *)
(* a correct one that knows what it has sent but not what became of it.    *)
(*                                                                         *)
(* An http2_stream object is named by the number of its creation, so that  *)
(* an address is never used twice.  Data is counted in units.  Of times    *)
(* the model keeps the second.  The windows that limit the client's own    *)
(* data, the window of the connection, the contents of headers, priorities *)
(* and padding are left out: nothing below depends on them.  The pieces in *)
(* which a page is sent are one body here.                                 *)
(***************************************************************************)
EXTENDS Integers, Sequences, FiniteSets

CONSTANTS
  Streams,      \* stream identifiers of the client: odd
  Pushes,       \* length of m_http2_push_list
  MaxFrames,    \* bound: frames from the client but for those not counted
  MaxTime,      \* bound: seconds
  Bodies,       \* units a response may have
  PostBody,     \* units of the body of a POST
  FrameMax,     \* units of data that fit m_max_frame_size
  PushAllowed,  \* what the configuration may say of push promises
  Window,       \* HTTP2_DEFAULT_WINDOW_SIZE
  Limit,        \* the m_max_concurrent_streams of the constructor
  InitWindows,  \* values of the client's SETTINGS_INITIAL_WINDOW_SIZE
  Limits,       \* values of its SETTINGS_MAX_CONCURRENT_STREAMS
  Increments,   \* what a WINDOW_UPDATE may carry
  LostBit       \* the power of two that stands for 2^24

ASSUME Http2Assumption ==
  /\ Streams \subseteq {n \in Nat : n % 2 = 1}
  /\ Streams # {} /\ IsFiniteSet(Streams)
  /\ Pushes \in Nat /\ MaxFrames \in Nat /\ MaxTime \in Nat
  /\ Bodies \subseteq Nat /\ PostBody \in Nat \ {0} /\ FrameMax \in Nat \ {0}
  /\ PushAllowed \subseteq BOOLEAN
  /\ Window \in Nat /\ Limit \in Nat
  /\ InitWindows \subseteq Nat /\ Limits \subseteq Nat
  /\ Increments \subseteq Nat \ {0}
  /\ LostBit \in Nat \ {0, 1}

(* Promised streams take the even numbers after that of their request.     *)
LastId == LET top == CHOOSE n \in Streams : \A m \in Streams : m <= n
          IN  top + 2 * Pushes
Ids    == 1 .. LastId
Objs   == 1 .. MaxFrames + Pushes
None   == 0

StreamStates == {"idle", "reserved_local", "open", "half_closed_remote",
                 "half_closed_local", "closed"}
Methods == {"GET", "POST"}
PCs == {"head", "data", "wait", "end", "push", "fin"}

VARIABLES
  conn,     \* "open", "closed", "dangling": a deleted object was used, or
            \* "stuck": a send does not return
  list,     \* m_stream_list: the object of each identifier, or None
  obj,      \* the http2_stream objects
  made,     \* how many have been created
  stack,    \* the responses under way, the innermost last
  setting,  \* the m_initial_peer_window_size, m_max_concurrent_streams and
            \* m_enable_push that are in force
  pushed,   \* m_pushed_request, m_pushed_response
  now,      \* time()
  gone,     \* the client has left: sends fail
  client,   \* what the client has done with each stream
  upload,   \* units of request body it has yet to send
  header,   \* the stream of a header block that is not complete, or None
  frames    \* frames received

server == <<conn, list, obj, made, stack>>
vars == <<conn, list, obj, made, stack, setting, pushed, now, gone, client,
          upload, header, frames>>

-----------------------------------------------------------------------------
(* The table of streams.                                                   *)

Table == [list |-> list, obj |-> obj, made |-> made]

(* create_stream_instance; what follows live is for the properties: the    *)
(* window it started with, this and the increments for it, what was sent,  *)
(* and how END_STREAM was sent.                                            *)
NewStream == [state |-> "idle", win |-> setting.window, used |-> now,
              method |-> "GET", need |-> 0, got |-> 0, promise |-> FALSE, live |-> TRUE,
              initial |-> setting.window, granted |-> setting.window, sent |-> 0, ended |-> "no"]

Create(t, i) == [list |-> [t.list EXCEPT ![i] = t.made + 1],
                 obj  |-> [t.obj EXCEPT ![t.made + 1] = NewStream],
                 made |-> t.made + 1]

Entries(t) == {i \in Ids : t.list[i] # None}

SetState(t, i, s) == [t EXCEPT !.obj[t.list[i]].state = s]

(* The walk over the table: an entry replaces the candidate when it is     *)
(* closed or has been used longer ago.                                     *)
Oldest(t) ==
  LET f[i \in 0 .. LastId] ==
        IF i = 0 THEN None
        ELSE IF t.list[i] # None
                /\ \/ f[i - 1] = None
                   \/ t.obj[t.list[i]].state = "closed"
                   \/ t.obj[t.list[f[i - 1]]].used > t.obj[t.list[i]].used
             THEN i ELSE f[i - 1]
  IN  f[LastId]

Full(t) == Entries(t) # {} /\ Cardinality(Entries(t)) >= setting.limit

(* RST_STREAM is sent for the victim and its object deleted.               *)
Evict(t, i) ==
  [t EXCEPT !.obj[t.list[i]].state = "closed", !.obj[t.list[i]].live = FALSE,
            !.list[i] = None]

(* A frame of a stream that is not in the table creates it.                *)
Admit(i) ==
  LET room == IF Full(Table) THEN Evict(Table, Oldest(Table)) ELSE Table
      t == IF list[i] # None THEN Table ELSE Create(room, i)
  IN  [t EXCEPT !.obj[t.list[i]].used = now]

Refused(s, type) ==
  \/ s = "idle" /\ type \notin {"HEADERS", "PRIORITY"}
  \/ /\ s \in {"reserved_local", "half_closed_remote", "closed"}
     /\ type \notin {"RST_STREAM", "PRIORITY", "WINDOW_UPDATE"}

(* END_STREAM received, and sent.                                          *)
EndReceived(s) ==
  IF s # "half_closed_local" THEN "half_closed_remote" ELSE "closed"
SlipOtherHalf(s) ==
  IF s # "half_closed_local" THEN "half_closed_remote" ELSE "closed"
EndSent(s) ==
  IF s # "half_closed_remote" THEN "half_closed_local" ELSE "closed"

RemoteEnd(t, i) == SetState(t, i, EndReceived(t.obj[t.list[i]].state))

-----------------------------------------------------------------------------
(* How the handling of a frame ends.                                       *)

Top == stack[Len(stack)]
SetTop(pc) == [stack EXCEPT ![Len(stack)].pc = pc]

(* ProtRecv is called by Processing, or by a response that is out of       *)
(* window, which ignores its result and tries to send again.               *)
Nested    == stack # <<>>
Receiving == conn = "open" /\ (Nested => Top.pc = "wait")
Resumed   == IF Nested THEN SetTop("data") ELSE stack

Install(t) == list' = t.list /\ obj' = t.obj /\ made' = t.made

(* CONTINUE_SESSION: the result is the length of the payload.              *)
Proceed(t, len) ==
  /\ Install(t)
  /\ stack' = Resumed
  /\ conn' = IF Nested \/ len > 0 THEN conn ELSE "closed"

(* END_SESSION: the result is -1.                                          *)
EndSession(t) == Proceed(t, 0)

(* http2_stream::Response: a page, or a reply such as 401 or 405 that ends *)
(* without END_STREAM.  One that starts over while it is under way deletes *)
(* the document it is still using.                                         *)
Respond(t, i, fin, len) ==
  LET o == t.list[i] IN
  /\ Install(t)
  /\ IF \E k \in DOMAIN stack : stack[k].o = o
     THEN conn' = "dangling" /\ UNCHANGED stack
     ELSE \E body \in Bodies, kind \in {"doc", "error"} :
            /\ stack' = Append(Resumed,
                               [s |-> i, o |-> o, pc |-> "head", left |-> body,
                                kind |-> kind, fin |-> fin, it |-> None, at |-> None,
                                len |-> len])
            /\ UNCHANGED conn

-----------------------------------------------------------------------------
(* The frames.                                                             *)

Arrives ==
  /\ Receiving /\ ~gone
  /\ header = None
  /\ frames < MaxFrames
  /\ frames' = frames + 1
  /\ UNCHANGED <<now, gone>>

Known(i) == client[i] \in {"open", "done"}

(* PushPromise, once in the life of the connection, for every path of the  *)
(* list: the first even identifier that is free gets a reserved stream.    *)
Promising == setting.push /\ pushed = "none"

Promised(t, i) ==
  LET free(u) == CHOOSE n \in (i + 1) .. LastId :
                   /\ n % 2 = 0 /\ u.list[n] = None
                   /\ \A m \in (i + 1) .. (n - 1) :
                        m % 2 = 0 => u.list[m] # None
      reserve(u, n) ==
        [SetState(Create(u, n), n, "reserved_local") EXCEPT
           !.obj[u.made + 1].promise = TRUE]
      f[k \in 0 .. Pushes] ==
        IF k = 0 THEN t ELSE reserve(f[k - 1], free(f[k - 1]))
  IN  IF Promising THEN f[Pushes] ELSE t

(* TransHttp2ParseHttp1Header and what follows it.                         *)
Block(t, i, fin) ==
  LET u == Promised(t, i) IN
  /\ pushed' = IF Promising THEN "requested" ELSE pushed
  /\ client' = [n \in Ids |->
                  IF n % 2 = 0 /\ u.list[n] # t.list[n] THEN "done"
                  ELSE IF n = i /\ fin THEN "done"
                  ELSE IF n = i THEN "open" ELSE client[n]]
  /\ IF u.obj[u.list[i]].method = "POST"
     THEN Proceed(IF fin THEN RemoteEnd(u, i) ELSE u, 1)
     ELSE Respond(u, i, fin, 1)

Headers(t, i, whole, fin) ==
  IF whole
  THEN Block(t, i, fin) /\ header' = None
  ELSE /\ Proceed(IF fin THEN RemoteEnd(t, i) ELSE t, 1)
       /\ client' = [client EXCEPT ![i] = IF fin THEN "done" ELSE "open"]
       /\ header' = i
       /\ UNCHANGED pushed

(* The first HEADERS of a stream; need is the Content-Length of a POST,    *)
(* zero when it has none.                                                  *)
RecvRequest(i) ==
  /\ Arrives
  /\ \A n \in Streams : n >= i => client[n] = "idle"
  /\ LET a == Admit(i) IN
     \E m \in Methods, need \in {0, PostBody}, whole, fin \in BOOLEAN :
       /\ need > 0 => m = "POST" /\ ~fin
       /\ upload' = [upload EXCEPT ![i] =
                       IF m = "POST" /\ ~fin THEN PostBody ELSE 0]
       /\ Headers([a EXCEPT !.obj[a.list[i]].state = "open",
                            !.obj[a.list[i]].method = m,
                            !.obj[a.list[i]].need = need], i, whole, fin)
  /\ UNCHANGED setting

(* Trailers: HEADERS of a stream whose request has begun.                  *)
RecvTrailers(i) ==
  /\ Arrives
  /\ client[i] = "open" /\ upload[i] = 0
  /\ LET a == Admit(i) IN
     IF Refused(a.obj[a.list[i]].state, "HEADERS")
     THEN /\ EndSession(a)
          /\ client' = [client EXCEPT ![i] = "done"]
          /\ UNCHANGED <<header, pushed>>
     ELSE Headers(SetState(a, i, "open"), i, TRUE, TRUE)
  /\ UNCHANGED <<setting, upload>>

(* Not counted either: the rest of the header block.                       *)
RecvContinuation(i) ==
  /\ Receiving /\ ~gone
  /\ header = i /\ header' = None
  /\ LET a == Admit(i) IN
     IF Refused(a.obj[a.list[i]].state, "CONTINUATION")
     THEN EndSession(a) /\ UNCHANGED <<client, pushed>>
     ELSE Block(a, i, FALSE)
  /\ UNCHANGED <<setting, now, gone, upload, frames>>

(* PushPostData answers FALSE when what has come reaches the length that   *)
(* was declared.                                                           *)
RecvData(i, n, fin) ==
  /\ Arrives
  /\ client[i] = "open" /\ n <= upload[i]
  /\ IF fin THEN n = upload[i] ELSE n > 0
  /\ upload' = [upload EXCEPT ![i] = @ - n]
  /\ client' = [client EXCEPT ![i] = IF fin THEN "done" ELSE @]
  /\ LET a == Admit(i)
         o == a.list[i]
         t == [a EXCEPT !.obj[o].got = @ + n]
     IN  IF Refused(a.obj[o].state, "DATA") \/ a.obj[o].state # "open"
         THEN EndSession(a)
         ELSE IF t.obj[o].got >= t.obj[o].need
         THEN Respond(t, i, fin, n)
         ELSE Proceed(IF fin THEN RemoteEnd(t, i) ELSE t, n)
  /\ UNCHANGED <<setting, pushed, header>>

(* ntohl(win_size << 1) of a bit field whose first bit is the lowest one   *)
(* of the first octet: bit 24 of the number is lost.                       *)
Decoded(n) == IF (n \div LostBit) % 2 = 1 THEN n - LostBit ELSE n

(* A WINDOW_UPDATE of nothing is answered with GOAWAY.                     *)
GrantTo(a, i, n) == 
  [a EXCEPT !.obj[a.list[i]].win = @ + Decoded(n),
            !.obj[a.list[i]].granted = @ + n]

RecvWindowUpdate(i, n) ==
  /\ Arrives
  /\ Known(i)
  /\ LET a == Admit(i) IN
     IF Refused(a.obj[a.list[i]].state, "WINDOW_UPDATE")
     THEN EndSession(a)
     ELSE Proceed(GrantTo(a, i, n), 4)
  /\ UNCHANGED <<setting, pushed, client, upload, header>>

(* Not counted among the frames: a unit for the response that waits.       *)
GrantOne ==
  /\ Receiving /\ ~gone /\ header = None
  /\ Nested /\ list[Top.s] = Top.o /\ Known(Top.s)
  /\ Proceed(GrantTo(Admit(Top.s), Top.s, 1), 4)
  /\ UNCHANGED <<setting, pushed, now, gone, client, upload, header, frames>>

(* The entry goes, the object stays.  With an error code GOAWAY is sent    *)
(* and the session continues.                                              *)
RecvRst(i) ==
  /\ Arrives
  /\ Known(i)
  /\ client' = [client EXCEPT ![i] = "reset"]
  /\ LET a == Admit(i) IN
     IF Refused(a.obj[a.list[i]].state, "RST_STREAM")
     THEN EndSession(a)
     ELSE Proceed([SetState(a, i, "closed") EXCEPT !.list[i] = None], 4)
  /\ UNCHANGED <<setting, pushed, upload, header>>

RecvPriority(i) ==
  /\ Arrives
  /\ i \in Streams \/ Known(i)
  /\ Proceed(Admit(i), 5)
  /\ UNCHANGED <<setting, pushed, client, upload, header>>

(* Only the first parameter of the frame is read.  That there is one is    *)
(* assumed.  The streams there are keep their windows, which the client    *)
(* counts as changed with its initial size.                                *)
RecvSettings ==
  /\ Arrives
  /\ \/ \E w \in InitWindows : setting' = [setting EXCEPT !.window = w]
     \/ \E n \in Limits : setting' = [setting EXCEPT !.limit = n]
     \/ \E p \in BOOLEAN : setting' = [setting EXCEPT !.push = p]
  /\ Proceed(Table, 6)
  /\ UNCHANGED <<pushed, client, upload, header>>

(* The acknowledgement of the server's own SETTINGS has no payload.        *)
RecvSettingsAck ==
  /\ Arrives
  /\ Proceed(Table, 0)
  /\ UNCHANGED <<setting, pushed, client, upload, header>>

(* PING, or WINDOW_UPDATE of the connection.                               *)
RecvOther ==
  /\ Arrives
  /\ Proceed(Table, 4)
  /\ UNCHANGED <<setting, pushed, client, upload, header>>

RecvGoaway ==
  /\ Arrives
  /\ EndSession(Table)
  /\ UNCHANGED <<setting, pushed, client, upload, header>>

(* HttpRecv fails and closes the socket: SSLRead waits without a limit, so *)
(* the client has left.                                                    *)
RecvNothing ==
  /\ Receiving
  /\ EndSession(Table)
  /\ gone' = TRUE
  /\ UNCHANGED <<setting, pushed, now, client, upload, header, frames>>

-----------------------------------------------------------------------------
(* The responses.  A step that uses an object that is gone is undefined.   *)

environment == <<setting, now, gone, client, upload, header, frames>>

Running(pc) == conn = "open" /\ Nested /\ Top.pc = pc /\ obj[Top.o].live

UseDangling ==
  /\ conn = "open" /\ Nested /\ Top.pc # "wait"
  /\ ~obj[Top.o].live
  /\ conn' = "dangling"
  /\ UNCHANGED <<list, obj, made, stack, pushed, environment>>

(* TransHttp1SendHttp2Header.                                              *)
SendHeader ==
  /\ Running("head")
  /\ obj' = IF list[Top.s] = None THEN obj
            ELSE [obj EXCEPT ![list[Top.s]].state = "open"]
  /\ stack' = SetTop("data")
  /\ UNCHANGED <<conn, list, made, pushed, environment>>

AfterBody == IF Top.kind = "doc" THEN "end" ELSE "fin"

(* One turn of the loop of TransHttp1SendHttp2Content: how much fits the   *)
(* frame and the window, and where it leads.  Without window the next      *)
(* frame is read, after a DATA frame of padding alone.                     *)
SlipFrameOnly(l, m, n) == IF l <= m THEN l ELSE m
Least(l, m, n) == CHOOSE k \in {l, m, n} : k <= l /\ k <= m /\ k <= n

SlipGivesUp(n) ==
  IF Top.left = n \/ obj[Top.o].win = n THEN AfterBody ELSE "data"
SlipNeverReads(n) == IF Top.left = n THEN AfterBody ELSE "data"
Onward(n) ==
  IF Top.left = n THEN AfterBody
  ELSE IF obj[Top.o].win = n THEN "wait" ELSE "data"

SendData ==
  /\ Running("data")
  /\ LET n == Least(Top.left, FrameMax, obj[Top.o].win)
     IN  IF gone
         THEN stack' = SetTop(AfterBody) /\ UNCHANGED obj
         ELSE /\ obj' = [obj EXCEPT ![Top.o].win = @ - n,
                                    ![Top.o].sent = @ + n]
              /\ stack' = [SetTop(Onward(n)) EXCEPT ![Len(stack)].left = @ - n]
  /\ UNCHANGED <<conn, list, made, pushed, environment>>

(* SendHttp2EmptyContent with END_STREAM, on whatever stream has the       *)
(* identifier now; then SendHttp2PushPromiseResponse, once.                *)
Ended(r) ==
  [r EXCEPT !.state = EndSent(r.state),
            !.ended = IF gone THEN @
                      ELSE IF Top.left = 0 THEN "whole" ELSE "short"]

SendEnd ==
  /\ Running("end")
  /\ obj' = IF list[Top.s] = None THEN obj
            ELSE [obj EXCEPT ![list[Top.s]] = Ended(@)]
  /\ IF setting.push /\ pushed = "requested"
     THEN pushed' = "answered" /\ stack' = SetTop("push")
     ELSE stack' = SetTop("fin") /\ UNCHANGED pushed
  /\ UNCHANGED <<conn, list, made, environment>>

(* The walk over the even entries of the table.  Moving on from an entry   *)
(* that has been erased is undefined.                                      *)
Promises ==
  {i \in Ids : i % 2 = 0 /\ i > Top.it /\ list[i] # None /\ obj[list[i]].promise}

PushNext ==
  /\ Running("push")
  /\ IF Top.it # None /\ list[Top.it] # Top.at
     THEN conn' = "dangling" /\ UNCHANGED stack
     ELSE /\ UNCHANGED conn
          /\ IF Promises = {}
             THEN stack' = SetTop("fin")
             ELSE LET i == CHOOSE n \in Promises : \A m \in Promises : n <= m
                  IN  \E body \in Bodies, kind \in {"doc", "error"} :
                        stack' = Append([stack EXCEPT ![Len(stack)].it = i,
                                                   ![Len(stack)].at = list[i]],
                          [s |-> i, o |-> list[i], pc |-> "head",
                           left |-> body, kind |-> kind, fin |-> FALSE,
                           it |-> None, at |-> None, len |-> 1])
  /\ UNCHANGED <<list, obj, made, pushed, environment>>

(* What is left of the handling of the frame that asked for the response.  *)
Finish ==
  /\ Running("fin")
  /\ obj' = IF Top.fin
            THEN [obj EXCEPT ![Top.o].state = EndReceived(@)] ELSE obj
  /\ stack' = SubSeq(stack, 1, Len(stack) - 1)
  /\ conn' = IF Len(stack) = 1 /\ Top.len = 0 THEN "closed" ELSE conn
  /\ UNCHANGED <<list, made, pushed, environment>>

-----------------------------------------------------------------------------
(* The world.                                                              *)

(* The clock is read when a frame is handled, to date its stream.          *)
Tick ==
  /\ Receiving /\ now < MaxTime
  /\ \E i \in Ids : list[i] # None /\ obj[list[i]].used = now
  /\ now' = now + 1
  /\ UNCHANGED <<server, setting, pushed, gone, client, upload, header, frames>>

(* The client leaves and a send is the first to notice; when a read is, it *)
(* is RecvNothing.                                                         *)
Leave ==
  /\ Running("data") \/ Running("end")
  /\ ~gone /\ gone' = TRUE
  /\ UNCHANGED <<server, setting, pushed, now, client, upload, header, frames>>

(* SSLWrite tries again without a limit when the client does not read.     *)
Stall ==
  /\ Running("head") \/ Running("data") \/ Running("end")
  /\ conn' = "stuck"
  /\ UNCHANGED <<list, obj, made, stack, pushed, environment>>

Stopped == conn # "open" /\ UNCHANGED vars

Init ==
  /\ conn = "open"
  /\ list = [i \in Ids |-> None]
  /\ \E p \in PushAllowed :
       setting = [window |-> Window, limit |-> Limit, push |-> p]
  /\ now = 0
  /\ obj = [o \in Objs |-> NewStream]
  /\ made = 0
  /\ stack = <<>>
  /\ pushed = "none"
  /\ gone = FALSE
  /\ client = [i \in Ids |-> "idle"]
  /\ upload = [i \in Ids |-> 0]
  /\ header = None
  /\ frames = 0

Receive ==
  \/ \E i \in Streams : \/ RecvRequest(i)
                       \/ RecvTrailers(i)
                       \/ RecvContinuation(i)
                       \/ \E n \in {0, 1}, fin \in BOOLEAN : RecvData(i, n, fin)
  \/ \E i \in Ids : \/ \E n \in Increments : RecvWindowUpdate(i, n)
                   \/ RecvRst(i)
                   \/ RecvPriority(i)
  \/ RecvSettings \/ RecvSettingsAck \/ RecvOther \/ RecvGoaway
  \/ GrantOne \/ RecvNothing

Reply ==
  SendHeader \/ SendData \/ SendEnd \/ PushNext \/ Finish \/ UseDangling

Next == Receive \/ Reply \/ Tick \/ Leave \/ Stall \/ Stopped

Spec == Init /\ [][Next]_vars

(* The thread runs.  The client owes nothing: neither SSLRead nor SSLWrite *)
(* has a time-out.                                                         *)
FairSpec == Spec /\ WF_vars(Reply)

-----------------------------------------------------------------------------
(* Properties.                                                             *)

StreamType ==
  [state : StreamStates, win : Nat, used : 0 .. MaxTime, method : Methods,
   need : {0, PostBody}, got : Nat, promise : BOOLEAN, live : BOOLEAN,
   initial : Nat, granted : Nat, sent : Nat, ended : {"no", "whole", "short"}]

Activation ==
  [s : Ids, o : Objs, pc : PCs, left : Nat, kind : {"doc", "error"},
   fin : BOOLEAN, it : Ids \cup {None}, at : Objs \cup {None}, len : {0, 1}]

(* Every variable has its type, and the table holds existing objects only. *)
TypeOK ==
  /\ conn \in {"open", "closed", "dangling", "stuck"}
  /\ list \in [Ids -> Objs \cup {None}]
  /\ obj \in [Objs -> StreamType]
  /\ made \in 0 .. MaxFrames + Pushes
  /\ stack \in Seq(Activation)
  /\ setting \in [window : InitWindows \cup {Window},
                  limit : Limits \cup {Limit}, push : BOOLEAN]
  /\ pushed \in {"none", "requested", "answered"}
  /\ now \in 0 .. MaxTime
  /\ gone \in BOOLEAN
  /\ client \in [Ids -> {"idle", "open", "done", "reset"}]
  /\ upload \in [Ids -> 0 .. PostBody]
  /\ header \in Ids \cup {None}
  /\ frames \in 0 .. MaxFrames

(* What the client counts as granted to a stream: its increments, and its  *)
(* initial size as it is now.                                              *)
Credit(r) == r.granted + setting.window - r.initial

(* No stream is sent more data, its padding not counted, than its window   *)
(* by the client's count, however responses nest and whatever is reset,    *)
(* evicted or created anew meanwhile; but for a client that makes its      *)
(* initial size smaller, which is for the streams to come only.            *)
WindowKept ==
  \A o \in Objs :
     obj[o].sent <= Credit(obj[o]) \/ setting.window < obj[o].initial

(* And the tables of the connection are of their type.                     *)
WindowAccounts == TypeOK /\ WindowKept

(* END_STREAM follows the whole body: a response is not cut short by a     *)
(* window that was used up or by the frames handled in the middle of it.   *)
EndMeansWhole == \A o \in Objs : obj[o].ended # "short"

(* What the table says of the ends of a stream is so: END_STREAM was sent  *)
(* on one that is closed on our side, unless the client had left, and the  *)
(* client is through with one that is closed on its side.                  *)
HalfClosedIsReal ==
  \A i \in Ids : list[i] # None =>
    LET r == obj[list[i]] IN
    /\ r.state \in {"half_closed_local", "closed"} => r.ended # "no" \/ gone
    /\ r.state \in {"half_closed_remote", "closed"} => client[i] = "done"

(* What the client grants is what the server counts: the increment of a    *)
(* WINDOW_UPDATE is a number of 31 bits.                                   *)
GrantCounted == \A o \in Objs : obj[o].win + obj[o].sent = obj[o].granted

(* The thread gets back from the responses under way, however they nest,   *)
(* and reads for the connection again, unless the connection is over or    *)
(* stuck in a send, the client has left, or a stream was reset or evicted  *)
(* while it was being answered; or it waits for ever for the client to go on, and then the    *)
(* innermost response's window is used up as the server counts it (for the *)
(* client it need not be: see RecvSettings and Decoded).                   *)
Orphan == \E k \in DOMAIN stack : list[stack[k].s] # stack[k].o

OutOfWindow == Nested /\ Top.pc = "wait" /\ obj[Top.o].win = 0

GetsBack ==
  stack # <<>> ~>
    (stack = <<>> \/ conn # "open" \/ gone \/ Orphan \/ []OutOfWindow)
=============================================================================
