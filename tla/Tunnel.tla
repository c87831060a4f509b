------------------------------- MODULE Tunnel -------------------------------
(***************************************************************************)
(* One SOCKS5 tunnel, end to end: the client's negotiation and its two     *)
(* relay threads (ghostbro-client/src/main.rs), two TCP streams of bounded *)
(* capacity, and the server's NoiseFramedStream (ghostbro-server/src/      *)
(* noise.rs) under the SOCKS5 library's negotiation and copy loop.         *)
(*                                                                         *)
(* Every socket call is a step and moves any number of bytes the socket    *)
(* lets it move; what a thread or a poll does between two socket calls is  *)
(* part of the step.  NoiseFramedStream keeps its progress in its fields,  *)
(* so a poll that returns Pending and the poll that goes on from there are *)
(* two steps of the same action.                                           *)
(*                                                                         *)
(* Bytes of a direction are numbered, so loss, duplication and reordering  *)
(* all show.  A sealed frame is its plaintext and a seal, which opens only *)
(* over exactly that plaintext and with exactly the next nonce.            *)
(***************************************************************************)
EXTENDS Naturals, Sequences

CONSTANTS
    MaxPlain,       \* max_plaintext_len, also the size of the client's read_buf
    Base,           \* values of one byte of the length prefix
    Window,         \* bytes a TCP stream holds before a write blocks
    UpLen,          \* bound: payload bytes the application sends
    DownLen,        \* bound: payload bytes the target sends
    Faults          \* which of "app", "target" may fail

MaxFrame == MaxPlain + 1

\* A frame holds any message of the negotiation.
ASSUME MaxPlainAssumption == MaxPlain \in Nat \ {0, 1}
ASSUME BaseAssumption == Base \in Nat \ {0, 1} /\ MaxFrame < Base * Base
ASSUME WindowAssumption == Window \in Nat \ {0}
ASSUME LengthsAssumption == UpLen \in Nat /\ DownLen \in Nat
ASSUME FaultsAssumption == Faults \subseteq {"app", "target"}

VARIABLES
    client,         \* the client: negotiation, relay threads, Noise counters
    server,         \* the server: SOCKS5 state, NoiseFramedStream, copy buffers
    up, down,       \* the TCP streams: bytes in flight and how they end
    app,            \* the local application
    target,         \* the SOCKS5 layer and the target behind it
    broken          \* some part has failed

vars == <<client, server, up, down, app, target, broken>>

(***************************************************************************)
(* The SOCKS5 messages, as the first numbers of their direction.  The      *)
(* greeting is the frame whose first byte selects the protocol.            *)
(***************************************************************************)
Greeting == <<1>>
Request == <<2, 3>>
Method == <<1>>
Success == <<2>>
Refusal == <<0>>

(***************************************************************************)
(* Frames: two length bytes, the ciphertext, the seal.                     *)
(***************************************************************************)
Header(n) == << [k |-> "len", v |-> n \div Base], [k |-> "len", v |-> n % Base] >>

Seal(data, nonce) ==
    [i \in 1..Len(data) |-> [k |-> "data", v |-> data[i]]]
        \o << [k |-> "seal", v |-> <<nonce, data>>] >>

Frame(data, nonce) == Header(Len(data) + 1) \o Seal(data, nonce)

\* What a byte counts for when it is taken for a byte of a length.
Value(u) == IF u.k = "seal" THEN 0 ELSE u.v
FrameLen(header) == Value(header[1]) * Base + Value(header[2])

\* The bytes of plaintext among the units, in order.
Payload(units) ==
    LET data[i \in 0..Len(units)] ==
            IF i = 0 THEN <<>>
            ELSE IF units[i].k = "data" THEN Append(data[i - 1], units[i].v)
            ELSE data[i - 1]
    IN data[Len(units)]

\* Whether read_message accepts a frame body under a nonce.
Opens(body, nonce) == body = Seal(Payload(body), nonce)

Lesser(m, n) == IF m < n THEN m ELSE n
Drop(s, n) == SubSeq(s, n + 1, Len(s))
Take(s, n) == SubSeq(s, 1, n)

\* Socket calls: how many of n bytes may move now.
Writable(wire, n) == 1..Lesser(n, Window - Len(wire.units))
Readable(wire, n) == 1..Lesser(n, Len(wire.units))

Pushed(wire, units) == [wire EXCEPT !.units = @ \o units]
Pulled(wire, n) == [wire EXCEPT !.units = Drop(@, n)]

\* A relay thread that has returned, and a client that holds no socket.
Over(t) == t \in {"done", "failed"}
Gone(c) == c.pc = "failed" \/ (Over(c.upT) /\ Over(c.dnT))

(***************************************************************************)
(* The client.                                                             *)
(***************************************************************************)
\* The client's state becomes c; when that drops the last clone of the
\* sockets, both of its streams end.
ClientBecomes(c) ==
    /\ client' = c
    /\ up' = [up EXCEPT !.end = IF Gone(c) THEN "fin" ELSE @]

NegotiationFails ==
    /\ ClientBecomes([client EXCEPT !.pc = "failed", !.out = <<>>, !.inp = <<>>])
    /\ app' = [app EXCEPT !.eof = TRUE]
    /\ broken' = TRUE
    /\ UNCHANGED <<server, target>>

\* write_encrypted_frame seals what the program hands in; write_all follows.
Encrypts(data, pc) ==
    /\ client' = [client EXCEPT !.pc = pc, !.tx = @ + 1,
                               !.out = Frame(data, client.tx)]
    /\ app' = [app EXCEPT !.sent = @ \o data]

\* negotiate_local_socks5_tunnel, after the handshake.
Greet ==
    /\ client.pc = "start"
    /\ Encrypts(Greeting, "method")
    /\ UNCHANGED <<server, up, down, target, broken>>

\* One write call of write_frame's write_all.
ClientWrites ==
    /\ client.out # <<>> /\ ~Gone(client)
    /\ server.pc # "closed"
    /\ \E n \in Writable(up, Len(client.out)) :
           /\ up' = Pushed(up, Take(client.out, n))
           /\ client' = [client EXCEPT !.out = Drop(@, n)]
    /\ UNCHANGED <<server, down, app, target, broken>>

\* The server is gone: the kernel swallows the bytes or reports the reset.
ClientWritesToClosed ==
    /\ client.out # <<>> /\ ~Gone(client)
    /\ server.pc = "closed"
    /\ \/ /\ client' = [client EXCEPT !.out = <<>>]
          /\ UNCHANGED <<server, up, down, app, target, broken>>
       \/ /\ client.pc # "open"
          /\ NegotiationFails
          /\ UNCHANGED down
       \/ /\ client.pc = "open"
          /\ ClientBecomes([client EXCEPT !.upT = "failed", !.out = <<>>])
          /\ app' = [app EXCEPT !.eof = @ \/ Gone(client')]
          /\ broken' = TRUE
          /\ UNCHANGED <<server, down, target>>

\* client_to_proxy reads what the application wrote, at most read_buf of it.
ReadLocal ==
    /\ client.pc = "open" /\ client.upT = "running" /\ client.out = <<>>
    /\ app.over = "open"
    /\ LET s == Len(app.sent)
           left == Len(Greeting) + Len(Request) + UpLen - s
       IN \E n \in 1..Lesser(MaxPlain, left) :
              Encrypts([i \in 1..n |-> s + i], "open")
    /\ UNCHANGED <<server, up, down, target, broken>>

MutLocalEof ==              \* mutant: the end is not passed on
    /\ client.upT = "running" /\ client.out = <<>>
    /\ app.over = "closed"
    /\ ClientBecomes([client EXCEPT !.upT = "done"])
    /\ app' = [app EXCEPT !.eof = @ \/ Gone(client')]
    /\ UNCHANGED <<server, down, target, broken>>

\* The application has shut down its side: so does the thread.
LocalEof ==
    /\ client.upT = "running" /\ client.out = <<>>
    /\ app.over = "closed"
    /\ client' = [client EXCEPT !.upT = "done"]
    /\ up' = [up EXCEPT !.end = "fin"]
    /\ app' = [app EXCEPT !.eof = @ \/ Gone(client')]
    /\ UNCHANGED <<server, down, target, broken>>

\* A read error returns without the shutdown: the other thread's clone keeps
\* the stream to the server open.
LocalReadFails ==
    /\ client.upT = "running" /\ client.out = <<>>
    /\ app.over = "reset"
    /\ ClientBecomes([client EXCEPT !.upT = "failed"])
    /\ UNCHANGED <<server, down, app, target, broken>>

\* Who reads the stream from the server: the negotiation, which has written
\* its message, or the proxy_to_client thread, which has written its frame.
ClientReading ==
    \/ client.pc \in {"method", "reply"} /\ client.out = <<>>
    \/ client.pc = "open" /\ client.dnT = "running" /\ client.local = <<>>

\* Bytes read_exact still waits for, of the length or of the frame.
Missing(inp) ==
    IF Len(inp) < 2 THEN 2 - Len(inp) ELSE 2 + FrameLen(inp) - Len(inp)

DownThreadFails ==
    /\ ClientBecomes([client EXCEPT !.dnT = "failed", !.local = <<>>, !.inp = <<>>])
    /\ app' = [app EXCEPT !.eof = @ \/ Gone(client')]
    /\ broken' = TRUE
    /\ UNCHANGED <<server, target>>

\* proxy_to_client leaves its loop: the application sees the end.
DownThreadStops ==
    /\ ClientBecomes([client EXCEPT !.dnT = "done", !.inp = <<>>])
    /\ app' = [app EXCEPT !.eof = TRUE]
    /\ UNCHANGED <<server, target, broken>>

ClientReadFails == IF client.pc = "open" THEN DownThreadFails ELSE NegotiationFails

\* What a whole frame does: the negotiation takes one frame for one message,
\* the thread hands it to the application and stops at an empty one.
ClientDecrypts(body) ==
    LET data == Payload(body)
        c == [client EXCEPT !.inp = <<>>, !.rx = @ + 1]
        expected == [method |-> Method, reply |-> Success, open |-> data]
    IN
    IF ~Opens(body, client.rx) \/ data # expected[client.pc]
    THEN ClientReadFails
    ELSE CASE client.pc = "method" ->
                /\ client' = [c EXCEPT !.pc = "reply", !.tx = @ + 1,
                                       !.out = Frame(Request, client.tx)]
                /\ app' = [app EXCEPT !.sent = @ \o Request, !.got = @ \o data]
                /\ UNCHANGED <<server, up, target, broken>>
           [] client.pc = "reply" ->
                /\ client' = [c EXCEPT !.pc = "open"]
                /\ app' = [app EXCEPT !.got = @ \o data]
                /\ UNCHANGED <<server, up, target, broken>>
           [] client.pc = "open" /\ data # <<>> ->
                /\ client' = [c EXCEPT !.local = data]
                /\ UNCHANGED <<server, up, app, target, broken>>
           [] OTHER -> DownThreadStops

ClientReads ==
    /\ ClientReading
    /\ \E n \in Readable(down, Missing(client.inp)) :
           LET inp == client.inp \o Take(down.units, n)
           IN /\ down' = Pulled(down, n)
              /\ IF Missing(inp) = 0
                 THEN ClientDecrypts(Drop(inp, 2))
                 ELSE /\ client' = [client EXCEPT !.inp = inp]
                      /\ UNCHANGED <<server, up, app, target, broken>>

\* read_frame_optional: an end inside the length counts as a clean end too.
ClientSeesEnd ==
    /\ ClientReading
    /\ down.units = <<>> /\ down.end # "open"
    /\ IF down.end = "fin" /\ Len(client.inp) < 2 /\ client.pc = "open"
       THEN DownThreadStops ELSE ClientReadFails
    /\ UNCHANGED down

\* The application has taken all of proxy_to_client's write_all.
AppReads ==
    /\ client.local # <<>> /\ app.over # "reset"
    /\ app' = [app EXCEPT !.got = @ \o client.local]
    /\ client' = [client EXCEPT !.local = <<>>]
    /\ UNCHANGED <<server, up, down, target, broken>>

LocalWriteFails ==
    /\ client.local # <<>> /\ app.over = "reset"
    /\ DownThreadFails
    /\ UNCHANGED down

AppCloses ==
    /\ client.pc = "open" /\ ~Gone(client) /\ app.over = "open"
    /\ app' = [app EXCEPT !.over = "closed"]
    /\ UNCHANGED <<client, server, up, down, target, broken>>

AppFails ==
    /\ "app" \in Faults
    /\ client.pc = "open" /\ ~Gone(client) /\ app.over # "reset"
    /\ app' = [app EXCEPT !.over = "reset"]
    /\ broken' = TRUE
    /\ UNCHANGED <<client, server, up, down, target>>

(***************************************************************************)
(* The server.  NoiseFramedStream's fields: len is read_len up to          *)
(* read_len_pos, size the length of encrypted_read (0: not sized yet),     *)
(* body its filled part, plain what is left of plaintext, pend what is     *)
(* left of pending_write.                                                  *)
(***************************************************************************)
\* handle_connection returns with an error: both sockets are dropped.  What
\* the kernel still holds is delivered, or lost to a reset.
ServerFails ==
    /\ server' = [server EXCEPT !.pc = "closed", !.len = <<>>, !.size = 0,
                      !.body = <<>>, !.plain = <<>>, !.pend = <<>>,
                      !.upBuf = <<>>, !.downBuf = <<>>]
    /\ \/ down' = [down EXCEPT !.end = IF @ = "open" THEN "fin" ELSE @]
       \/ \E n \in 0..Len(down.units) :
              down' = [units |-> Take(down.units, n), end |-> "reset"]
    /\ target' = [target EXCEPT !.eof = TRUE]
    /\ broken' = TRUE
    /\ up' = [up EXCEPT !.units = <<>>]
    /\ UNCHANGED <<client, app>>

\* poll_read gets as far as the socket: nothing pends, nothing is buffered,
\* and whoever is above asks for bytes.
Polling ==
    \/ server.pc \in {"first", "greeting", "command"} /\ server.downBuf = <<>>
    \/ server.pc = "relay" /\ server.upT = "copying" /\ server.upBuf = <<>>

ServerReading == Polling /\ server.pend = <<>> /\ server.plain = <<>>

MutReadLength ==            \* mutant: a poll that returns Pending forgets its byte
    /\ ServerReading /\ Len(server.len) < 2
    /\ \E n \in Readable(up, 2) :
           LET header == Take(up.units, n)
               size == IF n = 2 THEN FrameLen(header) ELSE 0
           IN IF n = 2 /\ size \notin 1..MaxFrame
              THEN ServerFails
              ELSE /\ server' = [server EXCEPT !.len = IF n = 2 THEN header ELSE <<>>,
                                               !.size = size]
                   /\ up' = Pulled(up, n)
                   /\ UNCHANGED <<client, down, app, target, broken>>

\* poll_read_outer_frame: the length, in one read or in two; the completed
\* length sizes the frame.  A frame of length zero has no seal to open.
ReadLength ==
    /\ ServerReading /\ Len(server.len) < 2
    /\ \E n \in Readable(up, 2 - Len(server.len)) :
           LET header == server.len \o Take(up.units, n)
               size == IF Len(header) = 2 THEN FrameLen(header) ELSE 0
           IN IF Len(header) = 2 /\ size \notin 1..MaxFrame
              THEN ServerFails
              ELSE /\ server' = [server EXCEPT !.len = header, !.size = size]
                   /\ up' = Pulled(up, n)
                   /\ UNCHANGED <<client, down, app, target, broken>>

\* The frame is complete: the reader's fields are reset and it is opened.
\* The first frame, read by handle_connection, becomes initial_plaintext.
Opened(body) ==
    [server EXCEPT !.len = <<>>, !.size = 0, !.body = <<>>,
                   !.plain = Payload(body), !.rx = @ + 1,
                   !.pc = IF @ = "first" THEN "greeting" ELSE @]

\* poll_read_outer_frame: the frame, over any number of polls.
ReadBody ==
    /\ ServerReading /\ Len(server.len) = 2
    /\ \E n \in Readable(up, server.size - Len(server.body)) :
           LET body == server.body \o Take(up.units, n)
           IN IF Len(body) = server.size /\ ~Opens(body, server.rx)
              THEN ServerFails
              ELSE /\ server' = IF Len(body) = server.size THEN Opened(body)
                                ELSE [server EXCEPT !.body = body]
                   /\ up' = Pulled(up, n)
                   /\ UNCHANGED <<client, down, app, target, broken>>

MutServerSeesEnd ==         \* mutant: the end of the stream passes for no data yet
    /\ ServerReading
    /\ up.units = <<>> /\ up.end # "open"
    /\ server.len # <<>> \/ server.pc # "relay"
    /\ ServerFails

\* An end between two frames is the end of the stream, inside one an error;
\* so is any end before the relay has begun.
ServerSeesEnd ==
    /\ ServerReading
    /\ up.units = <<>> /\ up.end # "open"
    /\ IF server.len = <<>> /\ server.pc = "relay"
       THEN /\ server' = [server EXCEPT !.upT = "eof"]
            /\ UNCHANGED <<client, up, down, app, target, broken>>
       ELSE ServerFails

\* The SOCKS5 library reads its messages from the stream, in any pieces, and
\* answers with one write.
ParseGreeting ==
    /\ server.pc = "greeting" /\ server.plain # <<>> /\ server.pend = <<>>
    /\ target' = [target EXCEPT !.got = @ \o Take(server.plain, 1),
                                !.sent = @ \o Method]
    /\ server' = [server EXCEPT !.plain = Tail(@), !.pc = "command",
                                !.downBuf = Method]
    /\ UNCHANGED <<client, up, down, app, broken>>

ParseCommand ==
    /\ server.pc = "command" /\ server.plain # <<>> /\ server.pend = <<>>
    /\ server.downBuf = <<>>
    /\ LET missing == Len(Greeting) + Len(Request) - Len(target.got)
       IN \E n \in 1..Lesser(missing, Len(server.plain)) :
              /\ target' = [target EXCEPT !.got = @ \o Take(server.plain, n)]
              /\ server' = [server EXCEPT !.plain = Drop(@, n),
                               !.pc = IF n = missing THEN "connecting" ELSE @]
    /\ UNCHANGED <<client, up, down, app, broken>>

\* run_tcp_proxy and the errors before it: no address, a refusal, success.
Connect ==
    /\ server.pc = "connecting"
    /\ \/ ServerFails
       \/ \E answer \in {Success, Refusal} :
              /\ server' = [server EXCEPT !.downBuf = answer,
                     !.pc = IF answer = Success THEN "replying" ELSE "refusing"]
              /\ target' = [target EXCEPT !.sent = @ \o answer]
              /\ UNCHANGED <<client, up, down, app, broken>>

\* The answer is out: the copy loop starts, or the connection is closed.
Answered ==
    /\ server.downBuf = <<>> /\ server.pend = <<>>
    /\ \/ /\ server.pc = "replying"
          /\ server' = [server EXCEPT !.pc = "relay"]
          /\ UNCHANGED <<client, up, down, app, target, broken>>
       \/ /\ server.pc = "refusing"
          /\ ServerFails

MutServes ==                \* mutant: a short read drops the rest of the frame
    /\ server.pc = "relay" /\ server.plain # <<>> /\ server.pend = <<>>
    /\ server.upBuf = <<>>
    /\ \E n \in 1..Len(server.plain) :
           server' = [server EXCEPT !.upBuf = Take(server.plain, n), !.plain = <<>>]
    /\ UNCHANGED <<client, up, down, app, target, broken>>

\* poll_read with bytes buffered: as many as the caller's buffer takes.
Serves ==
    /\ server.pc = "relay" /\ server.plain # <<>> /\ server.pend = <<>>
    /\ server.upBuf = <<>>
    /\ \E n \in 1..Len(server.plain) :
           server' = [server EXCEPT !.upBuf = Take(server.plain, n),
                                    !.plain = Drop(@, n)]
    /\ UNCHANGED <<client, up, down, app, target, broken>>

\* The copy loop writes to the target, which is assumed to read what it is
\* sent (the write never stays pending), and, after the last byte, ends it.
WriteTarget ==
    /\ server.pc = "relay" /\ server.upBuf # <<>>
    /\ target' = [target EXCEPT !.got = @ \o server.upBuf]
    /\ server' = [server EXCEPT !.upBuf = <<>>]
    /\ UNCHANGED <<client, up, down, app, broken>>

EndTarget ==
    /\ server.pc = "relay" /\ server.upT = "eof" /\ server.upBuf = <<>>
    /\ target' = [target EXCEPT !.eof = TRUE]
    /\ server' = [server EXCEPT !.upT = "done"]
    /\ UNCHANGED <<client, up, down, app, broken>>

\* The copy loop reads from the target.
ReadTarget ==
    /\ server.pc = "relay" /\ server.dnT = "copying" /\ server.downBuf = <<>>
    /\ target.over = "open"
    /\ LET s == Len(target.sent)
       IN \E n \in 1..(Len(Method) + Len(Success) + DownLen - s) :
              LET data == [i \in 1..n |-> s + i]
              IN /\ target' = [target EXCEPT !.sent = @ \o data]
                 /\ server' = [server EXCEPT !.downBuf = data]
    /\ UNCHANGED <<client, up, down, app, broken>>

TargetCloses ==
    /\ server.pc = "relay" /\ target.over = "open"
    /\ target' = [target EXCEPT !.over = "closed"]
    /\ UNCHANGED <<client, server, up, down, app, broken>>

TargetEof ==
    /\ server.pc = "relay" /\ server.dnT = "copying" /\ server.downBuf = <<>>
    /\ target.over = "closed"
    /\ server' = [server EXCEPT !.dnT = "eof"]
    /\ UNCHANGED <<client, up, down, app, target, broken>>

TargetFails ==
    /\ "target" \in Faults
    /\ server.pc = "relay"
    /\ ServerFails

MutPollWrite ==             \* mutant: a frame still pending is replaced
    /\ server.pc # "closed" /\ server.downBuf # <<>>
    /\ LET n == Lesser(Len(server.downBuf), MaxPlain)
       IN server' = [server EXCEPT !.pend = Frame(Take(server.downBuf, n), server.tx),
                                   !.downBuf = Drop(@, n), !.tx = @ + 1]
    /\ UNCHANGED <<client, up, down, app, target, broken>>

MutSealAll ==               \* mutant: a buffer is sealed in one frame, however long
    /\ server.pc # "closed" /\ server.downBuf # <<>> /\ server.pend = <<>>
    /\ server' = [server EXCEPT !.pend = Frame(server.downBuf, server.tx),
                                !.downBuf = <<>>, !.tx = @ + 1]
    /\ UNCHANGED <<client, up, down, app, target, broken>>

\* poll_write: nothing may pend; the bytes of one frame are taken, sealed and
\* reported as written.
PollWrite ==
    /\ server.pc # "closed" /\ server.downBuf # <<>> /\ server.pend = <<>>
    /\ LET n == Lesser(Len(server.downBuf), MaxPlain)
       IN server' = [server EXCEPT !.pend = Frame(Take(server.downBuf, n), server.tx),
                                   !.downBuf = Drop(@, n), !.tx = @ + 1]
    /\ UNCHANGED <<client, up, down, app, target, broken>>

\* One write call of poll_flush_pending, which every poll makes first.
FlushPending ==
    /\ server.pc # "closed" /\ server.pend # <<>>
    /\ \/ /\ ~Gone(client)
          /\ \E n \in Writable(down, Len(server.pend)) :
                 /\ down' = Pushed(down, Take(server.pend, n))
                 /\ server' = [server EXCEPT !.pend = Drop(@, n)]
          /\ UNCHANGED <<client, up, app, target, broken>>
       \/ /\ Gone(client)
          /\ ServerFails

MutPollShutdown ==          \* mutant: the shutdown does not wait for the flush
    /\ server.pc = "relay" /\ server.dnT = "eof"
    /\ server' = [server EXCEPT !.dnT = "done", !.pend = <<>>]
    /\ down' = [down EXCEPT !.end = "fin"]
    /\ UNCHANGED <<client, up, app, target, broken>>

\* poll_shutdown: flush, then end the stream to the client.
PollShutdown ==
    /\ server.pc = "relay" /\ server.dnT = "eof" /\ server.pend = <<>>
    /\ server' = [server EXCEPT !.dnT = "done"]
    /\ down' = [down EXCEPT !.end = "fin"]
    /\ UNCHANGED <<client, up, app, target, broken>>

\* Both directions have ended: handle_socks5 returns.
RelayCloses ==
    /\ server.pc = "relay" /\ server.upT = "done" /\ server.dnT = "done"
    /\ server' = [server EXCEPT !.pc = "closed"]
    /\ UNCHANGED <<client, up, down, app, target, broken>>

SessionOver == server.pc = "closed" /\ Gone(client)

Finished == SessionOver /\ UNCHANGED vars

(***************************************************************************)
(* The specification.                                                      *)
(***************************************************************************)
Init ==
    /\ client = [pc |-> "start", out |-> <<>>, inp |-> <<>>, local |-> <<>>,
                 tx |-> 0, rx |-> 0, upT |-> "running", dnT |-> "running"]
    /\ server = [pc |-> "first", len |-> <<>>, size |-> 0, body |-> <<>>,
                 plain |-> <<>>, pend |-> <<>>, upBuf |-> <<>>, downBuf |-> <<>>,
                 tx |-> 0, rx |-> 0, upT |-> "copying", dnT |-> "copying"]
    /\ up = [units |-> <<>>, end |-> "open"]
    /\ down = [units |-> <<>>, end |-> "open"]
    /\ app = [sent |-> <<>>, over |-> "open", got |-> <<>>, eof |-> FALSE]
    /\ target = [sent |-> <<>>, over |-> "open", got |-> <<>>, eof |-> FALSE]
    /\ broken = FALSE

ClientUp == Greet \/ ClientWrites \/ ClientWritesToClosed \/ LocalEof \/ LocalReadFails
ClientDown == ClientReads \/ ClientSeesEnd \/ LocalWriteFails
CopyUp == ReadLength \/ ReadBody \/ ServerSeesEnd
          \/ ParseGreeting \/ ParseCommand \/ Connect \/ Serves \/ WriteTarget
          \/ EndTarget \/ RelayCloses
CopyDown == Answered \/ TargetEof \/ PollWrite \/ FlushPending \/ PollShutdown
Ends == ReadLocal \/ AppCloses \/ AppFails \/ ReadTarget \/ TargetCloses \/ TargetFails

Next == ClientUp \/ ClientDown \/ CopyUp \/ CopyDown \/ AppReads \/ Ends \/ Finished

Spec == Init /\ [][Next]_vars

\* The client's threads and the server's task are scheduled, sockets move what
\* they can, the application takes what it is given and the target reads what
\* it is sent.  Nobody has to send or to close.  CopyUp waits while a frame is
\* pending, so its weak fairness carries an upload only because the target
\* sends no more than DownLen bytes.
FairSpec ==
    /\ Spec
    /\ WF_vars(ClientUp) /\ WF_vars(ClientDown)
    /\ WF_vars(CopyUp) /\ WF_vars(CopyDown)
    /\ WF_vars(AppReads)

(***************************************************************************)
(* Properties.                                                             *)
(***************************************************************************)
Unit == [k: {"len", "data"}, v: Nat] \cup [k: {"seal"}, v: Nat \X Seq(Nat)]

(* Types of the two ends, the streams and NoiseFramedStream's fields: a     *)
(* frame never outgrows its buffer, and no stream holds more than it can.   *)
TypeOK ==
    /\ client.pc \in {"start", "method", "reply", "open", "failed"}
    /\ {client.upT, client.dnT} \subseteq {"running", "done", "failed"}
    /\ {client.out, client.inp, up.units, down.units, server.len, server.body,
        server.pend} \subseteq Seq(Unit)
    /\ {client.local, server.plain, server.upBuf, server.downBuf, app.sent, app.got,
        target.sent, target.got} \subseteq Seq(Nat)
    /\ server.pc \in {"first", "greeting", "command", "connecting", "replying",
                      "refusing", "relay", "closed"}
    /\ {server.upT, server.dnT} \subseteq {"copying", "eof", "done"}
    /\ Len(server.len) <= 2 /\ server.size <= MaxFrame
    /\ Len(server.body) <= server.size /\ Len(server.pend) <= 2 + MaxFrame
    /\ \A w \in {up, down} : Len(w.units) <= Window /\ w.end \in {"open", "fin", "reset"}

(* poll_read, poll_write, poll_flush_pending and the client's two threads:  *)
(* as long as nothing has failed, what has come out of a direction, what    *)
(* its buffers and the stream still hold, and nothing else, put together in *)
(* order is what was handed in.                                             *)
NothingLostInTransit ==
    ~broken =>
        /\ target.got \o server.upBuf \o server.plain
               \o Payload(server.body \o up.units \o client.out) = app.sent
        /\ app.got \o client.local \o Payload(client.inp \o down.units \o server.pend)
               \o server.downBuf = target.sent

(* poll_read_outer_frame, read_frame_optional and the message counters of   *)
(* the two TransportStates: a reader is never out of step with its writer.  *)
(* Of what is on its way to a reader, the next frame is one its length      *)
(* announces and its nonce opens, in whatever pieces it was written and     *)
(* read and whatever has failed: a failure can end a stream inside a frame, *)
(* and the reader then never has it whole.                                  *)
FramesOpen ==
    /\ LET coming == server.body \o up.units \o client.out
       IN server.size # 0 /\ server.size <= Len(coming) =>
              Opens(Take(coming, server.size), server.rx)
    /\ LET coming == client.inp \o down.units \o server.pend
           size == FrameLen(coming)
       IN client.pc # "failed" /\ client.dnT = "running" /\ Len(coming) >= 2 =>
              /\ size \in 1..MaxFrame
              /\ 2 + size <= Len(coming) =>
                     Opens(SubSeq(coming, 3, 2 + size), client.rx)

UpStream == INSTANCE ByteStream WITH
    sent <- app.sent, closed <- client.upT = "done",
    got <- target.got, eof <- target.eof, broken <- broken

DownStream == INSTANCE ByteStream WITH
    sent <- target.sent, closed <- server.dnT = "eof" \/ server.dnT = "done",
    got <- app.got, eof <- app.eof, broken <- broken

(* client_to_proxy and NoiseFramedStream's read half, negotiation included, *)
(* implement a byte stream from the application to the target.              *)
UpIsAByteStream == UpStream!Spec

(* NoiseFramedStream's write half and proxy_to_client, negotiation          *)
(* included, implement a byte stream from the target to the application:    *)
(* no reply frame swallows payload, no shutdown overtakes a pending frame,  *)
(* whatever fails.                                                          *)
DownIsAByteStream == DownStream!Spec

\* Everyone waits on everyone.  The application died, proxy_to_client failed on
\* it and reads no more; client_to_proxy is inside a write_all the server does
\* not read; the server reads nothing before its pending frame is out.
CircularWait ==
    /\ app.over = "reset" /\ client.dnT = "failed"
    /\ client.out # <<>> /\ Len(up.units) = Window
    /\ server.pend # <<>> /\ Len(down.units) = Window

(* relay_local_socks5 and run_tcp_proxy: once the application is gone,      *)
(* orderly or not, and the target has ended its stream, both threads return *)
(* and the server's session (and its slot) ends, whatever else failed, with *)
(* the exception of a CircularWait.  The target reads what it is sent: one  *)
(* that ended its own stream and reads no more would hold the session too.  *)
DeadSessionsEnd ==
    (app.over # "open" /\ target.over = "closed") ~> (SessionOver \/ CircularWait)

(* poll_read waits behind poll_flush_pending, so the upload depends on the  *)
(* download being read.  While it is, and the target has finitely much to   *)
(* send (DownLen bytes, closed or not), an upload the application has ended *)
(* arrives whole, with its end, whatever frames it had to wait behind.  A   *)
(* target that sends for ever is not claimed: it could keep a frame pending *)
(* whenever poll_read looks.                                                *)
UploadArrives ==
    app.over = "closed" ~> (broken \/ (target.eof /\ target.got = app.sent))
=============================================================================
