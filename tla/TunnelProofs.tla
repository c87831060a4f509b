----------------------------- MODULE TunnelProofs -----------------------------
(***************************************************************************)
(* Proofs about Tunnel for every frame size, base of the length prefix,    *)
(* window and length of the two streams, with either end failing at any    *)
(* moment.                                                                 *)
(***************************************************************************)
EXTENDS TunnelFrames

-------------------------------------------------------------------------------
(* Types.                                                                  *)

ClientState ==
    [pc: {"start", "method", "reply", "open", "failed"}, out: Seq(Unit), inp: Seq(Unit),
     local: Seq(Nat), tx: Nat, rx: Nat,
     upT: {"running", "done", "failed"}, dnT: {"running", "done", "failed"}]

ServerState ==
    [pc: {"first", "greeting", "command", "connecting", "replying", "refusing",
          "relay", "closed"},
     len: Seq(Unit), size: Nat, body: Seq(Unit), plain: Seq(Nat), pend: Seq(Unit),
     upBuf: Seq(Nat), downBuf: Seq(Nat), tx: Nat, rx: Nat,
     upT: {"copying", "eof", "done"}, dnT: {"copying", "eof", "done"}]

Wire == [units: Seq(Unit), end: {"open", "fin", "reset"}]

EndState == [sent: Seq(Nat), over: {"open", "closed", "reset"}, got: Seq(Nat), eof: BOOLEAN]

\* The read half is at rest, inside a length, or inside the frame it announced.
ServerOK ==
    /\ server \in ServerState
    /\ Len(server.len) <= 2 /\ Len(server.pend) <= 2 + MaxFrame
    /\ Len(server.len) < 2 => server.size = 0 /\ Len(server.body) = 0
    /\ Len(server.len) = 2 => /\ server.size \in 1..MaxFrame
                              /\ server.size = FrameLen(server.len)
                              /\ Len(server.body) < server.size

UpOK == up \in Wire /\ Len(up.units) <= Window
DownOK == down \in Wire /\ Len(down.units) <= Window

TypeInv ==
    /\ client \in ClientState
    /\ ServerOK
    /\ UpOK /\ DownOK
    /\ app \in EndState /\ target \in EndState
    /\ broken \in BOOLEAN

LEMMA TypeInvTypes == TypeInv => TypeOK
<1> SUFFICES ASSUME TypeInv PROVE TypeOK
  OBVIOUS
<1>1. /\ client.pc \in {"start", "method", "reply", "open", "failed"}
      /\ {client.upT, client.dnT} \subseteq {"running", "done", "failed"}
      /\ client.out \in Seq(Unit) /\ client.inp \in Seq(Unit) /\ client.local \in Seq(Nat)
  BY DEF TypeInv, ClientState
<1>2. /\ server.pc \in {"first", "greeting", "command", "connecting", "replying",
                        "refusing", "relay", "closed"}
      /\ {server.upT, server.dnT} \subseteq {"copying", "eof", "done"}
      /\ server.len \in Seq(Unit) /\ server.body \in Seq(Unit) /\ server.pend \in Seq(Unit)
      /\ server.plain \in Seq(Nat) /\ server.upBuf \in Seq(Nat) /\ server.downBuf \in Seq(Nat)
  BY DEF TypeInv, ServerOK, ServerState
<1>3. /\ Len(server.len) <= 2 /\ server.size <= MaxFrame
      /\ Len(server.body) <= server.size /\ Len(server.pend) <= 2 + MaxFrame
  <2>1. MaxFrame \in Nat /\ Len(server.len) \in Nat /\ Len(server.body) \in Nat
    BY <1>2, MaxPlainAssumption DEF MaxFrame
  <2>2. Len(server.len) <= 2 /\ Len(server.pend) <= 2 + MaxFrame
    BY DEF TypeInv, ServerOK
  <2>3. CASE Len(server.len) < 2
    <3>1. server.size = 0 /\ Len(server.body) = 0
      BY <2>3 DEF TypeInv, ServerOK
    <3>2. QED
      BY <2>1, <2>2, <3>1
  <2>4. CASE Len(server.len) = 2
    <3>1. server.size \in 1..MaxFrame /\ Len(server.body) < server.size
      BY <2>4 DEF TypeInv, ServerOK
    <3>2. QED
      BY <2>1, <2>2, <3>1
  <2>5. \A n \in Nat : n <= 2 => n < 2 \/ n = 2
    OBVIOUS
  <2>6. QED
    BY <2>1, <2>2, <2>3, <2>4, <2>5, Zenon
<1>4. /\ up.units \in Seq(Unit) /\ down.units \in Seq(Unit)
      /\ \A w \in {up, down} : Len(w.units) <= Window /\ w.end \in {"open", "fin", "reset"}
  BY DEF TypeInv, UpOK, DownOK, Wire
<1>5. /\ app.sent \in Seq(Nat) /\ app.got \in Seq(Nat)
      /\ target.sent \in Seq(Nat) /\ target.got \in Seq(Nat)
  BY DEF TypeInv, EndState
<1>6. QED
  BY <1>1, <1>2, <1>3, <1>4, <1>5, Zenon DEF TypeOK

(* The fields, for the provers.                                            *)
LEMMA ClientFields ==
    ASSUME client \in ClientState
    PROVE  /\ client.out \in Seq(Unit) /\ client.inp \in Seq(Unit) /\ client.local \in Seq(Nat)
           /\ client.tx \in Nat /\ client.rx \in Nat
BY DEF ClientState

LEMMA ServerFields ==
    ASSUME server \in ServerState
    PROVE  /\ server.len \in Seq(Unit) /\ server.body \in Seq(Unit) /\ server.pend \in Seq(Unit)
           /\ server.plain \in Seq(Nat) /\ server.upBuf \in Seq(Nat)
           /\ server.downBuf \in Seq(Nat)
           /\ server.size \in Nat /\ server.tx \in Nat /\ server.rx \in Nat
BY DEF ServerState

LEMMA WireFields ==
    /\ UpOK => up.units \in Seq(Unit) /\ Len(up.units) \in Nat
    /\ DownOK => down.units \in Seq(Unit) /\ Len(down.units) \in Nat
BY DEF UpOK, DownOK, Wire

LEMMA EndFields ==
    /\ app \in EndState => app.sent \in Seq(Nat) /\ app.got \in Seq(Nat)
    /\ target \in EndState => target.sent \in Seq(Nat) /\ target.got \in Seq(Nat)
BY DEF EndState

LEMMA Messages ==
    /\ Greeting \in Seq(Nat) /\ Len(Greeting) = 1
    /\ Request \in Seq(Nat) /\ Len(Request) = 2
    /\ Method \in Seq(Nat) /\ Len(Method) = 1
    /\ Success \in Seq(Nat) /\ Len(Success) = 1
    /\ Refusal \in Seq(Nat) /\ Len(Refusal) = 1
BY DEF Greeting, Request, Method, Success, Refusal

LEMMA Moves ==
    ASSUME NEW w, w.units \in Seq(Unit), NEW m \in Int
    PROVE  /\ \A n \in Readable(w, m) :
                  n \in Nat /\ 1 <= n /\ n <= m /\ n \in 0..Len(w.units)
           /\ \A n \in Writable(w, m) :
                  n \in Nat /\ 1 <= n /\ n <= m /\ Len(w.units) + n <= Window
<1>1. PICK l \in Nat : l = Len(w.units)
  OBVIOUS
<1>2. Window \in Nat
  BY WindowAssumption
<1>3. Readable(w, m) = 1..(IF m < l THEN m ELSE l)
  BY <1>1 DEF Readable, Lesser
<1>4. Writable(w, m) = 1..(IF m < Window - l THEN m ELSE Window - l)
  BY <1>1 DEF Writable, Lesser
<1>5. \A n \in 1..(IF m < l THEN m ELSE l) : n \in Nat /\ 1 <= n /\ n <= m /\ n \in 0..l
  OBVIOUS
<1>6. \A n \in 1..(IF m < Window - l THEN m ELSE Window - l) :
          n \in Nat /\ 1 <= n /\ n <= m /\ l + n <= Window
  BY <1>2
<1>7. QED
  BY <1>1, <1>3, <1>4, <1>5, <1>6

LEMMA UnitPieces ==
    ASSUME NEW s \in Seq(Unit), NEW n \in 0..Len(s)
    PROVE  /\ Take(s, n) \in Seq(Unit) /\ Drop(s, n) \in Seq(Unit)
           /\ Len(Take(s, n)) = n /\ Len(Drop(s, n)) = Len(s) - n
           /\ Take(s, n) \o Drop(s, n) = s
BY Pieces

LEMMA NumberPieces ==
    ASSUME NEW s \in Seq(Nat), NEW n \in 0..Len(s)
    PROVE  /\ Take(s, n) \in Seq(Nat) /\ Drop(s, n) \in Seq(Nat)
           /\ Len(Take(s, n)) = n /\ Len(Drop(s, n)) = Len(s) - n
           /\ Take(s, n) \o Drop(s, n) = s
BY Pieces

LEMMA Constants ==
    MaxPlain \in Nat /\ MaxPlain >= 2 /\ MaxFrame \in Nat /\ MaxFrame = MaxPlain + 1
BY MaxPlainAssumption DEF MaxFrame

LEMMA ClientBecomesType ==
    ASSUME TypeInv, NEW c \in ClientState, ClientBecomes(c)
    PROVE  client' \in ClientState /\ UpOK'
<1>1. up' \in Wire
  BY DEF TypeInv, UpOK, Wire, ClientBecomes
<1>2. up'.units = up.units
  BY DEF TypeInv, UpOK, Wire, ClientBecomes
<1>3. QED
  BY <1>1, <1>2 DEF TypeInv, UpOK, ClientBecomes

LEMMA NegotiationFailsType ==
    ASSUME TypeInv, NegotiationFails, DownOK'
    PROVE  TypeInv'
<1>1. [client EXCEPT !.pc = "failed", !.out = <<>>, !.inp = <<>>] \in ClientState
  BY Units DEF TypeInv, ClientState
<1>2. client' \in ClientState /\ UpOK'
  BY <1>1, ClientBecomesType DEF NegotiationFails
<1>3. app' \in EndState /\ target' \in EndState /\ broken' \in BOOLEAN
  BY DEF NegotiationFails, TypeInv, EndState
<1>4. ServerOK'
  BY DEF NegotiationFails, TypeInv, ServerOK
<1>5. QED
  BY <1>2, <1>3, <1>4 DEF TypeInv

LEMMA DownThreadFailsType ==
    ASSUME TypeInv, DownThreadFails, DownOK'
    PROVE  TypeInv'
<1>1. [client EXCEPT !.dnT = "failed", !.local = <<>>, !.inp = <<>>] \in ClientState
  BY Units, Numbers DEF TypeInv, ClientState
<1>2. client' \in ClientState /\ UpOK'
  BY <1>1, ClientBecomesType DEF DownThreadFails
<1>3. app' \in EndState /\ target' \in EndState /\ broken' \in BOOLEAN
  BY DEF DownThreadFails, TypeInv, EndState, Gone, Over
<1>4. ServerOK'
  BY DEF DownThreadFails, TypeInv, ServerOK
<1>5. QED
  BY <1>2, <1>3, <1>4 DEF TypeInv

LEMMA DownThreadStopsType ==
    ASSUME TypeInv, DownThreadStops, DownOK'
    PROVE  TypeInv'
<1>1. [client EXCEPT !.dnT = "done", !.inp = <<>>] \in ClientState
  BY Units DEF TypeInv, ClientState
<1>2. client' \in ClientState /\ UpOK'
  BY <1>1, ClientBecomesType DEF DownThreadStops
<1>3. app' \in EndState /\ target' \in EndState /\ broken' \in BOOLEAN
  BY DEF DownThreadStops, TypeInv, EndState
<1>4. ServerOK'
  BY DEF DownThreadStops, TypeInv, ServerOK
<1>5. QED
  BY <1>2, <1>3, <1>4 DEF TypeInv

LEMMA ClientReadFailsType == ASSUME TypeInv, ClientReadFails, DownOK' PROVE TypeInv'
BY NegotiationFailsType, DownThreadFailsType, Zenon DEF ClientReadFails

LEMMA ServerFailsType == ASSUME TypeInv, ServerFails PROVE TypeInv'
<1>1. ServerOK'
  <2>1. server' \in ServerState /\ server'.len = <<>> /\ server'.pend = <<>>
        /\ server'.size = 0 /\ server'.body = <<>>
    BY Units, Numbers DEF ServerFails, TypeInv, ServerOK, ServerState
  <2>2. QED
    BY <2>1, Constants DEF ServerOK
<1>2. UpOK'
  <2>1. up' \in Wire /\ up'.units = <<>>
    BY Units DEF ServerFails, TypeInv, UpOK, Wire
  <2>2. QED
    BY <2>1, WindowAssumption DEF UpOK
<1>3. DownOK'
  <2>1. CASE down' = [down EXCEPT !.end = IF @ = "open" THEN "fin" ELSE @]
    <3>1. down' \in Wire /\ down'.units = down.units
      BY <2>1 DEF TypeInv, DownOK, Wire
    <3>2. QED
      BY <3>1 DEF TypeInv, DownOK
  <2>2. ASSUME NEW n \in 0..Len(down.units),
               down' = [units |-> Take(down.units, n), end |-> "reset"]
        PROVE  DownOK'
    <3>1. /\ Take(down.units, n) \in Seq(Unit) /\ Len(Take(down.units, n)) = n
          /\ Len(down.units) \in Nat /\ Len(down.units) <= Window
      BY WireFields, UnitPieces DEF TypeInv, DownOK
    <3>2. down' \in Wire /\ down'.units = Take(down.units, n)
      BY <2>2, <3>1 DEF Wire
    <3>3. QED
      BY <3>1, <3>2, WindowAssumption DEF DownOK
  <2>3. QED
    BY <2>1, <2>2 DEF ServerFails
<1>4. /\ app' \in EndState /\ target' \in EndState /\ broken' \in BOOLEAN
      /\ client' \in ClientState
  BY DEF ServerFails, TypeInv, EndState
<1>5. QED
  BY <1>1, <1>2, <1>3, <1>4 DEF TypeInv

LEMMA EncryptsType ==
    ASSUME TypeInv, NEW data \in Seq(Nat),
           NEW pc \in {"start", "method", "reply", "open", "failed"}, Encrypts(data, pc)
    PROVE  client' \in ClientState /\ app' \in EndState
<1>1. client.tx \in Nat /\ client.tx + 1 \in Nat /\ app.sent \in Seq(Nat)
  BY ClientFields, EndFields DEF TypeInv
<1>2. Frame(data, client.tx) \in Seq(Unit) /\ app.sent \o data \in Seq(Nat)
  BY <1>1, FrameFacts, Numbers
<1>3. client' \in ClientState
  BY <1>1, <1>2 DEF Encrypts, TypeInv, ClientState
<1>4. app' \in EndState
  BY <1>2 DEF Encrypts, TypeInv, EndState
<1>5. QED
  BY <1>3, <1>4

LEMMA PulledType ==
    ASSUME TypeInv, NEW n \in Nat
    PROVE  /\ up' = Pulled(up, n) /\ n \in 0..Len(up.units) => UpOK'
           /\ down' = Pulled(down, n) /\ n \in 0..Len(down.units) => DownOK'
<1>w. Window \in Nat
  BY WindowAssumption
<1>1. ASSUME up' = Pulled(up, n), n \in 0..Len(up.units) PROVE UpOK'
  <2>1. /\ Len(up.units) \in Nat /\ Len(up.units) <= Window
        /\ Drop(up.units, n) \in Seq(Unit) /\ Len(Drop(up.units, n)) = Len(up.units) - n
    BY <1>1, WireFields, UnitPieces DEF TypeInv, UpOK
  <2>2. up' \in Wire /\ up'.units = Drop(up.units, n)
    BY <1>1, <2>1 DEF Pulled, TypeInv, UpOK, Wire
  <2>3. QED
    BY <1>w, <2>1, <2>2 DEF UpOK
<1>2. ASSUME down' = Pulled(down, n), n \in 0..Len(down.units) PROVE DownOK'
  <2>1. /\ Len(down.units) \in Nat /\ Len(down.units) <= Window
        /\ Drop(down.units, n) \in Seq(Unit) /\ Len(Drop(down.units, n)) = Len(down.units) - n
    BY <1>2, WireFields, UnitPieces DEF TypeInv, DownOK
  <2>2. down' \in Wire /\ down'.units = Drop(down.units, n)
    BY <1>2, <2>1 DEF Pulled, TypeInv, DownOK, Wire
  <2>3. QED
    BY <1>w, <2>1, <2>2 DEF DownOK
<1>3. QED
  BY <1>1, <1>2

LEMMA PushedType ==
    ASSUME TypeInv, NEW s \in Seq(Unit)
    PROVE  /\ up' = Pushed(up, s) /\ Len(up.units) + Len(s) <= Window => UpOK'
           /\ down' = Pushed(down, s) /\ Len(down.units) + Len(s) <= Window => DownOK'
<1>1. ASSUME up' = Pushed(up, s), Len(up.units) + Len(s) <= Window PROVE UpOK'
  <2>1. up.units \in Seq(Unit)
    BY WireFields DEF TypeInv
  <2>2. up.units \o s \in Seq(Unit) /\ Len(up.units \o s) = Len(up.units) + Len(s)
    BY <2>1, UnitsAt
  <2>3. up' \in Wire /\ up'.units = up.units \o s
    BY <1>1, <2>2 DEF Pushed, TypeInv, UpOK, Wire
  <2>4. QED
    BY <1>1, <2>2, <2>3 DEF UpOK
<1>2. ASSUME down' = Pushed(down, s), Len(down.units) + Len(s) <= Window PROVE DownOK'
  <2>1. down.units \in Seq(Unit)
    BY WireFields DEF TypeInv
  <2>2. down.units \o s \in Seq(Unit) /\ Len(down.units \o s) = Len(down.units) + Len(s)
    BY <2>1, UnitsAt
  <2>3. down' \in Wire /\ down'.units = down.units \o s
    BY <1>2, <2>2 DEF Pushed, TypeInv, DownOK, Wire
  <2>4. QED
    BY <1>2, <2>2, <2>3 DEF DownOK
<1>3. QED
  BY <1>1, <1>2

\* The numbers an end sends next.
LEMMA CountType ==
    ASSUME NEW s \in Nat, NEW n \in Nat
    PROVE  /\ [i \in 1..n |-> s + i] \in Seq(Nat) /\ Len([i \in 1..n |-> s + i]) = n
OBVIOUS

LEMMA ClientUpType ==
    ASSUME TypeInv, ClientUp \/ ReadLocal \/ AppCloses \/ AppFails
    PROVE  TypeInv'
<1>f. /\ client.out \in Seq(Unit) /\ up.units \in Seq(Unit) /\ app.sent \in Seq(Nat)
      /\ Len(client.out) \in Nat
  BY ClientFields, WireFields, EndFields DEF TypeInv
<1>1. CASE Greet
  <2>1. client' \in ClientState /\ app' \in EndState
    BY <1>1, EncryptsType, Messages DEF Greet
  <2>2. QED
    BY <1>1, <2>1 DEF Greet, TypeInv, ServerOK, UpOK, DownOK
<1>2. CASE ClientWrites
  <2>1. PICK n \in Writable(up, Len(client.out)) :
            /\ up' = Pushed(up, Take(client.out, n))
            /\ client' = [client EXCEPT !.out = Drop(@, n)]
    BY <1>2 DEF ClientWrites
  <2>2. n \in Nat /\ 1 <= n /\ n <= Len(client.out) /\ Len(up.units) + n <= Window
    BY <1>f, Moves
  <2>3. n \in 0..Len(client.out)
    BY <1>f, <2>2
  <2>4. /\ Take(client.out, n) \in Seq(Unit) /\ Len(Take(client.out, n)) = n
        /\ Drop(client.out, n) \in Seq(Unit)
    BY <1>f, <2>3, UnitPieces
  <2>5. UpOK'
    BY <2>1, <2>2, <2>4, PushedType
  <2>6. client' \in ClientState
    BY <2>1, <2>4 DEF TypeInv, ClientState
  <2>7. QED
    BY <1>2, <2>5, <2>6 DEF ClientWrites, TypeInv, ServerOK, DownOK
<1>3. CASE ClientWritesToClosed
  <2>1. CASE /\ client' = [client EXCEPT !.out = <<>>]
             /\ UNCHANGED <<server, up, down, app, target, broken>>
    <3>1. client' \in ClientState
      BY <2>1, Units DEF TypeInv, ClientState
    <3>2. QED
      BY <2>1, <3>1 DEF TypeInv, ServerOK, UpOK, DownOK
  <2>2. CASE NegotiationFails /\ UNCHANGED down
    <3>1. DownOK'
      BY <2>2 DEF TypeInv, DownOK
    <3>2. QED
      BY <2>2, <3>1, NegotiationFailsType
  <2>3. CASE /\ ClientBecomes([client EXCEPT !.upT = "failed", !.out = <<>>])
             /\ app' = [app EXCEPT !.eof = @ \/ Gone(client')]
             /\ broken' = TRUE
             /\ UNCHANGED <<server, down, target>>
    <3>1. [client EXCEPT !.upT = "failed", !.out = <<>>] \in ClientState
      BY Units DEF TypeInv, ClientState
    <3>2. client' \in ClientState /\ UpOK'
      BY <2>3, <3>1, ClientBecomesType
    <3>3. app' \in EndState
      BY <2>3 DEF TypeInv, EndState, Gone, Over
    <3>4. QED
      BY <2>3, <3>2, <3>3 DEF TypeInv, ServerOK, DownOK
  <2>4. QED
    BY <1>3, <2>1, <2>2, <2>3 DEF ClientWritesToClosed
<1>4. CASE LocalEof
  <2>1. client' \in ClientState
    BY <1>4 DEF LocalEof, TypeInv, ClientState
  <2>2. UpOK'
    BY <1>4 DEF LocalEof, TypeInv, UpOK, Wire
  <2>3. app' \in EndState
    BY <1>4 DEF LocalEof, TypeInv, EndState, Gone, Over
  <2>4. QED
    BY <1>4, <2>1, <2>2, <2>3 DEF LocalEof, TypeInv, ServerOK, DownOK
<1>5. CASE LocalReadFails
  <2>1. [client EXCEPT !.upT = "failed"] \in ClientState
    BY DEF TypeInv, ClientState
  <2>2. client' \in ClientState /\ UpOK'
    BY <1>5, <2>1, ClientBecomesType DEF LocalReadFails
  <2>3. QED
    BY <1>5, <2>2 DEF LocalReadFails, TypeInv, ServerOK, DownOK
<1>6. CASE ReadLocal
  <2> DEFINE s == Len(app.sent)
             left == Len(Greeting) + Len(Request) + UpLen - s
  <2>1. PICK n \in 1..Lesser(MaxPlain, left) : Encrypts([i \in 1..n |-> s + i], "open")
    BY <1>6, Zenon DEF ReadLocal
  <2>2. s \in Nat /\ n \in Nat
    BY <1>f
  <2>3. [i \in 1..n |-> s + i] \in Seq(Nat)
    BY <2>2, CountType
  <2>4. client' \in ClientState /\ app' \in EndState
    BY <2>1, <2>3, EncryptsType
  <2>5. QED
    BY <1>6, <2>4 DEF ReadLocal, TypeInv, ServerOK, UpOK, DownOK
<1>7. CASE AppCloses \/ AppFails
  <2>1. app' \in EndState
    BY <1>7 DEF AppCloses, AppFails, TypeInv, EndState
  <2>2. QED
    BY <1>7, <2>1 DEF AppCloses, AppFails, TypeInv, ServerOK, UpOK, DownOK
<1>8. QED
  BY <1>1, <1>2, <1>3, <1>4, <1>5, <1>6, <1>7 DEF ClientUp

LEMMA ClientDownType ==
    ASSUME TypeInv, ClientDown \/ AppReads
    PROVE  TypeInv'
<1>f. /\ client.inp \in Seq(Unit) /\ down.units \in Seq(Unit) /\ client.local \in Seq(Nat)
      /\ app.sent \in Seq(Nat) /\ app.got \in Seq(Nat) /\ client.tx \in Nat /\ client.rx \in Nat
      /\ client.pc \in {"start", "method", "reply", "open", "failed"}
  BY ClientFields, WireFields, EndFields DEF TypeInv, ClientState
<1>1. ASSUME DownOK', UNCHANGED <<server, up, target, broken>>,
             client' \in ClientState, app' \in EndState
      PROVE  TypeInv'
  BY <1>1 DEF TypeInv, ServerOK, UpOK
<1>2. ASSUME NEW body \in Seq(Unit), ClientDecrypts(body), DownOK'
      PROVE  TypeInv'
  <2> DEFINE data == Payload(body)
             c == [client EXCEPT !.inp = <<>>, !.rx = @ + 1]
  <2>1. data \in Seq(Nat) /\ c \in ClientState
    <3>1. data \in Seq(Nat)
      BY PayloadType
    <3>2. client.rx + 1 \in Nat
      BY <1>f
    <3>3. c \in ClientState
      BY <3>2, Units DEF TypeInv, ClientState
    <3>4. QED
      BY <3>1, <3>3
  <2>2. CASE ClientReadFails
    BY <1>2, <2>2, ClientReadFailsType
  <2>3. CASE /\ client' = [c EXCEPT !.pc = "reply", !.tx = @ + 1,
                                    !.out = Frame(Request, client.tx)]
             /\ app' = [app EXCEPT !.sent = @ \o Request, !.got = @ \o data]
             /\ UNCHANGED <<server, up, target, broken>>
    <3>1. Frame(Request, client.tx) \in Seq(Unit)
      BY <1>f, Messages, FrameFacts
    <3>2. app.sent \o Request \in Seq(Nat) /\ app.got \o data \in Seq(Nat)
      BY <1>f, <2>1, Messages, Numbers, Zenon
    <3> HIDE DEF data, c
    <3>3. c.tx \in Nat /\ c.tx + 1 \in Nat
      BY <2>1 DEF ClientState
    <3>4. client' \in ClientState
      BY <2>1, <2>3, <3>1, <3>3 DEF ClientState
    <3>5. app' \in EndState
      BY <2>3, <3>2 DEF TypeInv, EndState
    <3>6. QED
      BY <1>1, <1>2, <2>3, <3>4, <3>5
  <2>4. CASE /\ client' = [c EXCEPT !.pc = "open"]
             /\ app' = [app EXCEPT !.got = @ \o data]
             /\ UNCHANGED <<server, up, target, broken>>
    <3>1. app.got \o data \in Seq(Nat)
      BY <1>f, <2>1, Numbers, Zenon
    <3> HIDE DEF data, c
    <3>2. client' \in ClientState
      BY <2>1, <2>4 DEF ClientState
    <3>3. app' \in EndState
      BY <2>4, <3>1 DEF TypeInv, EndState
    <3>4. QED
      BY <1>1, <1>2, <2>4, <3>2, <3>3
  <2>5. CASE /\ client' = [c EXCEPT !.local = data]
             /\ UNCHANGED <<server, up, app, target, broken>>
    <3> HIDE DEF data, c
    <3>1. client' \in ClientState
      BY <2>1, <2>5 DEF ClientState
    <3>2. app' \in EndState
      BY <2>5 DEF TypeInv
    <3>3. QED
      BY <1>1, <1>2, <2>5, <3>1, <3>2
  <2>6. CASE DownThreadStops
    BY <1>2, <2>6, DownThreadStopsType
  <2>7. QED
    BY <1>2, <2>2, <2>3, <2>4, <2>5, <2>6 DEF ClientDecrypts
<1>3. CASE ClientReads
  <2>1. PICK n \in Readable(down, Missing(client.inp)) :
            LET inp == client.inp \o Take(down.units, n)
            IN /\ down' = Pulled(down, n)
               /\ IF Missing(inp) = 0
                  THEN ClientDecrypts(Drop(inp, 2))
                  ELSE /\ client' = [client EXCEPT !.inp = inp]
                       /\ UNCHANGED <<server, up, app, target, broken>>
    BY <1>3, Zenon DEF ClientReads
  <2>2. n \in Nat /\ n \in 0..Len(down.units)
    BY <1>f, MissingType, Moves
  <2>3. DownOK'
    BY <2>1, <2>2, PulledType
  <2> DEFINE inp == client.inp \o Take(down.units, n)
  <2>4. inp \in Seq(Unit)
    <3>1. Take(down.units, n) \in Seq(Unit)
      BY <1>f, <2>2, UnitPieces
    <3>2. QED
      BY <1>f, <3>1, Units, Zenon
  <2>5. CASE Missing(inp) = 0 /\ ClientDecrypts(Drop(inp, 2))
    <3>1. 2 \in 0..Len(inp)
      <4> HIDE DEF inp
      <4>1. PICK l \in Nat : l = Len(inp)
        BY <2>4
      <4>2. l >= 2
        <5>1. SUFFICES ASSUME l < 2 PROVE FALSE
          BY <4>1
        <5>2. Missing(inp) = 2 - l
          BY <4>1, <5>1 DEF Missing
        <5>3. QED
          BY <2>5, <4>1, <5>1, <5>2
      <4>3. QED
        BY <4>1, <4>2
    <3> HIDE DEF inp
    <3>2. Drop(inp, 2) \in Seq(Unit)
      BY <2>4, <3>1, UnitPieces
    <3>3. QED
      BY <1>2, <2>3, <2>5, <3>2
  <2>6. CASE client' = [client EXCEPT !.inp = inp] /\ UNCHANGED <<server, up, app, target, broken>>
    <3> HIDE DEF inp
    <3>1. client' \in ClientState
      BY <2>4, <2>6 DEF TypeInv, ClientState
    <3>2. app' \in EndState
      BY <2>6 DEF TypeInv
    <3>3. QED
      BY <1>1, <2>3, <2>6, <3>1, <3>2
  <2>7. QED
    BY <2>1, <2>5, <2>6, Zenon
<1>4. CASE ClientSeesEnd
  <2>1. DownOK'
    BY <1>4 DEF ClientSeesEnd, TypeInv, DownOK
  <2>2. ClientReadFails \/ DownThreadStops
    BY <1>4, Zenon DEF ClientSeesEnd
  <2>3. QED
    BY <2>1, <2>2, ClientReadFailsType, DownThreadStopsType
<1>5. CASE LocalWriteFails
  <2>1. DownOK'
    BY <1>5 DEF LocalWriteFails, TypeInv, DownOK
  <2>2. QED
    BY <1>5, <2>1, DownThreadFailsType DEF LocalWriteFails
<1>6. CASE AppReads
  <2>1. app.got \o client.local \in Seq(Nat)
    BY <1>f, Numbers, Zenon
  <2>2. app' \in EndState
    BY <1>6, <2>1 DEF AppReads, TypeInv, EndState
  <2>3. client' \in ClientState
    BY <1>6, Numbers DEF AppReads, TypeInv, ClientState
  <2>4. QED
    BY <1>6, <2>2, <2>3 DEF AppReads, TypeInv, ServerOK, UpOK, DownOK
<1>7. QED
  BY <1>3, <1>4, <1>5, <1>6 DEF ClientDown

\* A step of the server that leaves the two streams' bookkeeping to others.
LEMMA AtRest ==
    ASSUME TypeInv, server' \in ServerState,
           server'.len = server.len, server'.size = server.size,
           server'.body = server.body,
           Len(server'.pend) <= 2 + MaxFrame
    PROVE  ServerOK'
BY DEF TypeInv, ServerOK

LEMMA CopyUpType ==
    ASSUME TypeInv, CopyUp \/ TargetFails
    PROVE  TypeInv'
<1>f. /\ server.len \in Seq(Unit) /\ server.body \in Seq(Unit) /\ up.units \in Seq(Unit)
      /\ server.plain \in Seq(Nat) /\ server.upBuf \in Seq(Nat)
      /\ target.got \in Seq(Nat) /\ target.sent \in Seq(Nat)
      /\ server.size \in Nat /\ server.rx \in Nat
  BY ServerFields, WireFields, EndFields DEF TypeInv, ServerOK
<1>l. /\ Len(server.len) \in Nat /\ Len(server.body) \in Nat /\ Len(server.len) <= 2
      /\ Len(server.len) < 2 => server.size = 0 /\ Len(server.body) = 0
      /\ Len(server.len) = 2 => server.size \in 1..MaxFrame /\ server.size = FrameLen(server.len)
      /\ Len(server.pend) <= 2 + MaxFrame
  BY <1>f DEF TypeInv, ServerOK
<1>1. ASSUME ServerOK', UpOK', UNCHANGED <<client, down, app, target, broken>>
      PROVE  TypeInv'
  BY <1>1 DEF TypeInv, DownOK
<1>2. ASSUME ServerOK', target' \in EndState, UNCHANGED <<client, up, down, app, broken>>
      PROVE  TypeInv'
  BY <1>2 DEF TypeInv, DownOK, UpOK
<1>3. CASE ReadLength
  <2>1. PICK n \in Readable(up, 2 - Len(server.len)) :
           LET header == server.len \o Take(up.units, n)
               size == IF Len(header) = 2 THEN FrameLen(header) ELSE 0
           IN IF Len(header) = 2 /\ size \notin 1..MaxFrame
              THEN ServerFails
              ELSE /\ server' = [server EXCEPT !.len = header, !.size = size]
                   /\ up' = Pulled(up, n)
                   /\ UNCHANGED <<client, down, app, target, broken>>
    BY <1>3, Zenon DEF ReadLength
  <2> DEFINE header == server.len \o Take(up.units, n)
             size == IF Len(header) = 2 THEN FrameLen(header) ELSE 0
  <2>2. n \in Nat /\ n \in 0..Len(up.units) /\ n <= 2 - Len(server.len)
    <3>1. 2 - Len(server.len) \in Int
      BY <1>l
    <3>2. QED
      BY <1>f, <3>1, Moves
  <2>3. header \in Seq(Unit) /\ Len(header) \in Nat /\ Len(header) <= 2
    <3>1. Take(up.units, n) \in Seq(Unit) /\ Len(Take(up.units, n)) = n
      BY <1>f, <2>2, UnitPieces
    <3>2. header \in Seq(Unit) /\ Len(header) = Len(server.len) + n
      BY <1>f, <3>1, Joined, ZenonT(30)
    <3> HIDE DEF header
    <3>3. QED
      BY <1>l, <2>2, <3>2
  <2>4. CASE ServerFails
    BY <2>4, ServerFailsType
  <2>5. CASE /\ ~(Len(header) = 2 /\ size \notin 1..MaxFrame)
             /\ server' = [server EXCEPT !.len = header, !.size = size]
             /\ up' = Pulled(up, n)
             /\ UNCHANGED <<client, down, app, target, broken>>
    <3> HIDE DEF header
    <3>1. /\ Len(header) = 2 => size \in 1..MaxFrame /\ size = FrameLen(header)
          /\ Len(header) < 2 => size = 0
      <4>1. \A i \in Nat : i < 2 => i # 2
        OBVIOUS
      <4>2. QED
        BY <2>3, <2>5, <4>1, Zenon
    <3> HIDE DEF size
    <3>2. size \in Nat
      <4>1. \A i \in Nat : i <= 2 => i < 2 \/ i = 2
        OBVIOUS
      <4>2. 0 \in Nat /\ \A i \in 1..MaxFrame : i \in Nat
        OBVIOUS
      <4>3. QED
        BY <2>3, <3>1, <4>1, <4>2, Zenon
    <3>3. server' \in ServerState /\ server'.len = header /\ server'.size = size
          /\ server'.body = server.body /\ server'.pend = server.pend
      BY <2>3, <2>5, <3>2 DEF TypeInv, ServerOK, ServerState
    <3>4. Len(server.body) = 0
      BY <1>3, <1>l DEF ReadLength
    <3>5. ServerOK'
      BY <1>l, <2>3, <3>1, <3>3, <3>4 DEF ServerOK
    <3>6. UpOK'
      BY <2>2, <2>5, PulledType
    <3>7. QED
      BY <1>1, <2>5, <3>5, <3>6
  <2>6. QED
    BY <2>1, <2>4, <2>5, Zenon
<1>4. CASE ReadBody
  <2>1. PICK n \in Readable(up, server.size - Len(server.body)) :
           LET body == server.body \o Take(up.units, n)
           IN IF Len(body) = server.size /\ ~Opens(body, server.rx)
              THEN ServerFails
              ELSE /\ server' = IF Len(body) = server.size THEN Opened(body)
                                ELSE [server EXCEPT !.body = body]
                   /\ up' = Pulled(up, n)
                   /\ UNCHANGED <<client, down, app, target, broken>>
    BY <1>4, Zenon DEF ReadBody
  <2> DEFINE body == server.body \o Take(up.units, n)
  <2>2. n \in Nat /\ n \in 0..Len(up.units) /\ n <= server.size - Len(server.body)
    <3>1. server.size - Len(server.body) \in Int
      BY <1>f, <1>l
    <3>2. QED
      BY <1>f, <3>1, Moves
  <2>3. body \in Seq(Unit) /\ Len(body) \in Nat /\ Len(body) <= server.size
    <3>1. Take(up.units, n) \in Seq(Unit) /\ Len(Take(up.units, n)) = n
      BY <1>f, <2>2, UnitPieces
    <3>2. body \in Seq(Unit) /\ Len(body) = Len(server.body) + n
      BY <1>f, <3>1, Joined, ZenonT(30)
    <3> HIDE DEF body
    <3>3. QED
      BY <1>f, <1>l, <2>2, <3>2
  <2>4. CASE ServerFails
    BY <2>4, ServerFailsType
  <2>5. CASE /\ Len(body) = server.size
             /\ server' = Opened(body)
             /\ up' = Pulled(up, n)
             /\ UNCHANGED <<client, down, app, target, broken>>
    <3> HIDE DEF body
    <3>1. Payload(body) \in Seq(Nat) /\ server.rx + 1 \in Nat
      BY <1>f, <2>3, PayloadType
    <3>2. /\ server' \in ServerState /\ server'.len = <<>> /\ server'.size = 0
          /\ server'.body = <<>> /\ server'.pend = server.pend
      BY <2>5, <3>1, Units DEF Opened, TypeInv, ServerOK, ServerState
    <3>3. ServerOK'
      BY <1>l, <3>2 DEF ServerOK
    <3>4. UpOK'
      BY <2>2, <2>5, PulledType
    <3>5. QED
      BY <1>1, <2>5, <3>3, <3>4
  <2>6. CASE /\ Len(body) # server.size
             /\ server' = [server EXCEPT !.body = body]
             /\ up' = Pulled(up, n)
             /\ UNCHANGED <<client, down, app, target, broken>>
    <3> HIDE DEF body
    <3>1. /\ server' \in ServerState /\ server'.len = server.len
          /\ server'.size = server.size
          /\ server'.body = body /\ server'.pend = server.pend
      BY <2>3, <2>6 DEF TypeInv, ServerOK, ServerState
    <3>2. Len(server.len) = 2 /\ Len(body) < server.size
      BY <1>4, <1>f, <2>3, <2>6 DEF ReadBody
    <3>3. ServerOK'
      BY <1>l, <3>1, <3>2 DEF ServerOK
    <3>4. UpOK'
      BY <2>2, <2>6, PulledType
    <3>5. QED
      BY <1>1, <2>6, <3>3, <3>4
  <2>7. QED
    BY <2>1, <2>4, <2>5, <2>6, Zenon
<1>5. CASE ServerSeesEnd
  <2>1. CASE ServerFails
    BY <2>1, ServerFailsType
  <2>2. CASE /\ server' = [server EXCEPT !.upT = "eof"]
             /\ UNCHANGED <<client, up, down, app, target, broken>>
    <3>1. /\ server' \in ServerState /\ server'.len = server.len
          /\ server'.size = server.size
          /\ server'.body = server.body /\ server'.pend = server.pend
      BY <2>2 DEF TypeInv, ServerOK, ServerState
    <3>2. ServerOK' /\ UpOK'
      BY <1>l, <2>2, <3>1, AtRest DEF TypeInv, UpOK
    <3>3. QED
      BY <1>1, <2>2, <3>2
  <2>3. QED
    BY <1>5, <2>1, <2>2, Zenon DEF ServerSeesEnd
<1>6. CASE ParseGreeting
  <2>1. server.plain # <<>> /\ Len(server.plain) \in Nat /\ 1 \in 0..Len(server.plain)
    BY <1>6, <1>f DEF ParseGreeting
  <2>2. Take(server.plain, 1) \in Seq(Nat) /\ Tail(server.plain) \in Seq(Nat)
    BY <1>f, <2>1, NumberPieces
  <2>3. target.got \o Take(server.plain, 1) \in Seq(Nat) /\ target.sent \o Method \in Seq(Nat)
    BY <1>f, <2>2, Messages, Numbers, Zenon
  <2>4. target' \in EndState
    BY <1>6, <2>3 DEF ParseGreeting, TypeInv, EndState
  <2>5. /\ server' \in ServerState /\ server'.len = server.len
        /\ server'.size = server.size
        /\ server'.body = server.body /\ server'.pend = server.pend
    BY <1>6, <2>2, Messages DEF ParseGreeting, TypeInv, ServerOK, ServerState
  <2>6. ServerOK'
    BY <1>l, <2>5, AtRest
  <2>7. QED
    BY <1>2, <1>6, <2>4, <2>6 DEF ParseGreeting
<1>7. CASE ParseCommand
  <2> DEFINE missing == Len(Greeting) + Len(Request) - Len(target.got)
  <2>1. PICK n \in 1..Lesser(missing, Len(server.plain)) :
              /\ target' = [target EXCEPT !.got = @ \o Take(server.plain, n)]
              /\ server' = [server EXCEPT !.plain = Drop(@, n),
                               !.pc = IF n = missing THEN "connecting" ELSE @]
    BY <1>7, Zenon DEF ParseCommand
  <2>2. n \in 0..Len(server.plain)
    <3>1. Len(target.got) \in Nat /\ Len(server.plain) \in Nat
      BY <1>f
    <3>2. missing \in Int
      BY <3>1, Messages
    <3> HIDE DEF missing
    <3>3. QED
      BY <3>1, <3>2 DEF Lesser
  <2>3. Take(server.plain, n) \in Seq(Nat) /\ Drop(server.plain, n) \in Seq(Nat)
    BY <1>f, <2>2, NumberPieces
  <2>4. target.got \o Take(server.plain, n) \in Seq(Nat)
    BY <1>f, <2>3, Numbers, Zenon
  <2>5. target' \in EndState
    BY <2>1, <2>4 DEF TypeInv, EndState
  <2> HIDE DEF missing
  <2>6. /\ server' \in ServerState /\ server'.len = server.len
        /\ server'.size = server.size
        /\ server'.body = server.body /\ server'.pend = server.pend
    BY <2>1, <2>3 DEF TypeInv, ServerOK, ServerState
  <2>7. ServerOK'
    BY <1>l, <2>6, AtRest
  <2>8. QED
    BY <1>2, <1>7, <2>5, <2>7 DEF ParseCommand
<1>8. CASE Connect
  <2>1. CASE ServerFails
    BY <2>1, ServerFailsType
  <2>2. ASSUME NEW answer \in {Success, Refusal},
               server' = [server EXCEPT !.downBuf = answer,
                     !.pc = IF answer = Success THEN "replying" ELSE "refusing"],
               target' = [target EXCEPT !.sent = @ \o answer],
               UNCHANGED <<client, up, down, app, broken>>
        PROVE  TypeInv'
    <3>1. answer \in Seq(Nat)
      BY Messages, Zenon
    <3>2. target.sent \o answer \in Seq(Nat)
      BY <1>f, <3>1, Numbers, Zenon
    <3>3. target' \in EndState
      BY <2>2, <3>2 DEF TypeInv, EndState
    <3>4. /\ server' \in ServerState /\ server'.len = server.len
          /\ server'.size = server.size
          /\ server'.body = server.body /\ server'.pend = server.pend
      BY <2>2, <3>1 DEF TypeInv, ServerOK, ServerState
    <3>5. ServerOK'
      BY <1>l, <3>4, AtRest
    <3>6. QED
      BY <1>2, <2>2, <3>3, <3>5
  <2>3. QED
    BY <1>8, <2>1, <2>2 DEF Connect
<1>9. CASE Serves
  <2>1. PICK n \in 1..Len(server.plain) :
           server' = [server EXCEPT !.upBuf = Take(server.plain, n),
                                    !.plain = Drop(@, n)]
    BY <1>9 DEF Serves
  <2>2. n \in 0..Len(server.plain)
    BY <1>f
  <2>3. Take(server.plain, n) \in Seq(Nat) /\ Drop(server.plain, n) \in Seq(Nat)
    BY <1>f, <2>2, NumberPieces
  <2>4. /\ server' \in ServerState /\ server'.len = server.len
        /\ server'.size = server.size
        /\ server'.body = server.body /\ server'.pend = server.pend
    BY <2>1, <2>3 DEF TypeInv, ServerOK, ServerState
  <2>5. ServerOK' /\ UpOK'
    BY <1>9, <1>l, <2>4, AtRest DEF Serves, TypeInv, UpOK
  <2>6. QED
    BY <1>1, <1>9, <2>5 DEF Serves
<1>10. CASE WriteTarget
  <2>1. target.got \o server.upBuf \in Seq(Nat)
    BY <1>f, Numbers, Zenon
  <2>2. target' \in EndState
    BY <1>10, <2>1 DEF WriteTarget, TypeInv, EndState
  <2>3. /\ server' \in ServerState /\ server'.len = server.len
        /\ server'.size = server.size
        /\ server'.body = server.body /\ server'.pend = server.pend
    BY <1>10, Numbers DEF WriteTarget, TypeInv, ServerOK, ServerState
  <2>4. ServerOK'
    BY <1>l, <2>3, AtRest
  <2>5. QED
    BY <1>2, <1>10, <2>2, <2>4 DEF WriteTarget
<1>11. CASE EndTarget \/ RelayCloses
  <2>1. target' \in EndState
    BY <1>11 DEF EndTarget, RelayCloses, TypeInv, EndState
  <2>2. /\ server' \in ServerState /\ server'.len = server.len
        /\ server'.size = server.size
        /\ server'.body = server.body /\ server'.pend = server.pend
    BY <1>11 DEF EndTarget, RelayCloses, TypeInv, ServerOK, ServerState
  <2>3. ServerOK'
    BY <1>l, <2>2, AtRest
  <2>4. QED
    BY <1>2, <1>11, <2>1, <2>3 DEF EndTarget, RelayCloses
<1>12. CASE TargetFails
  BY <1>12, ServerFailsType DEF TargetFails
<1>13. QED
  BY <1>3, <1>4, <1>5, <1>6, <1>7, <1>8, <1>9, <1>10, <1>11, <1>12 DEF CopyUp

LEMMA CopyDownType ==
    ASSUME TypeInv, CopyDown \/ ReadTarget \/ TargetCloses
    PROVE  TypeInv'
<1>f. /\ server.pend \in Seq(Unit) /\ down.units \in Seq(Unit)
      /\ server.downBuf \in Seq(Nat) /\ target.sent \in Seq(Nat)
      /\ server.tx \in Nat /\ server.tx + 1 \in Nat
      /\ Len(server.pend) \in Nat /\ Len(server.pend) <= 2 + MaxFrame
  <2>1. server \in ServerState /\ Len(server.pend) <= 2 + MaxFrame
    BY DEF TypeInv, ServerOK
  <2>2. server.pend \in Seq(Unit) /\ server.downBuf \in Seq(Nat) /\ server.tx \in Nat
    BY <2>1, ServerFields
  <2>3. QED
    BY <2>1, <2>2, WireFields, EndFields DEF TypeInv
<1>1. ASSUME ServerOK', DownOK', UNCHANGED <<client, up, app, target, broken>>
      PROVE  TypeInv'
  BY <1>1 DEF TypeInv, UpOK
<1>2. ASSUME ServerOK', target' \in EndState, UNCHANGED <<client, up, down, app, broken>>
      PROVE  TypeInv'
  BY <1>2 DEF TypeInv, DownOK, UpOK
<1>3. CASE Answered
  <2>1. CASE ServerFails
    BY <2>1, ServerFailsType
  <2>2. CASE /\ server' = [server EXCEPT !.pc = "relay"]
             /\ UNCHANGED <<client, up, down, app, target, broken>>
    <3>1. /\ server' \in ServerState /\ server'.len = server.len
          /\ server'.size = server.size
          /\ server'.body = server.body /\ server'.pend = server.pend
      BY <2>2 DEF TypeInv, ServerOK, ServerState
    <3>2. ServerOK' /\ DownOK'
      BY <1>f, <2>2, <3>1, AtRest DEF TypeInv, DownOK
    <3>3. QED
      BY <1>1, <2>2, <3>2
  <2>3. QED
    BY <1>3, <2>1, <2>2 DEF Answered
<1>4. CASE TargetEof
  <2>1. /\ server' \in ServerState /\ server'.len = server.len
        /\ server'.size = server.size
        /\ server'.body = server.body /\ server'.pend = server.pend
    BY <1>4 DEF TargetEof, TypeInv, ServerOK, ServerState
  <2>2. ServerOK' /\ DownOK'
    BY <1>f, <1>4, <2>1, AtRest DEF TargetEof, TypeInv, DownOK
  <2>3. QED
    BY <1>1, <1>4, <2>2 DEF TargetEof
<1>5. CASE PollWrite
  <2> DEFINE n == Lesser(Len(server.downBuf), MaxPlain)
  <2>1. n \in Nat /\ n <= MaxPlain /\ n \in 0..Len(server.downBuf)
    <3>1. PICK l \in Nat : l = Len(server.downBuf)
      BY <1>f
    <3>2. QED
      BY <3>1, Constants DEF Lesser
  <2>2. server' = [server EXCEPT !.pend = Frame(Take(server.downBuf, n), server.tx),
                                 !.downBuf = Drop(@, n), !.tx = @ + 1]
    BY <1>5 DEF PollWrite
  <2> HIDE DEF n
  <2>3. /\ Take(server.downBuf, n) \in Seq(Nat) /\ Len(Take(server.downBuf, n)) = n
        /\ Drop(server.downBuf, n) \in Seq(Nat)
    BY <1>f, <2>1, NumberPieces
  <2>4. PICK x \in Seq(Unit) : x = Frame(Take(server.downBuf, n), server.tx) /\ Len(x) = n + 3
    BY <1>f, <2>3, FrameFacts
  <2>5. /\ server' \in ServerState /\ server'.len = server.len
        /\ server'.size = server.size
        /\ server'.body = server.body /\ server'.pend = x
    BY <1>f, <2>2, <2>3, <2>4 DEF TypeInv, ServerOK, ServerState
  <2>6. Len(x) <= 2 + MaxFrame
    BY <2>1, <2>4, Constants
  <2>7. ServerOK' /\ DownOK'
    BY <1>5, <2>5, <2>6, AtRest DEF PollWrite, TypeInv, DownOK
  <2>8. QED
    BY <1>1, <1>5, <2>7 DEF PollWrite
<1>6. CASE FlushPending
  <2>1. CASE ServerFails
    BY <2>1, ServerFailsType
  <2>2. ASSUME NEW n \in Writable(down, Len(server.pend)),
               down' = Pushed(down, Take(server.pend, n)),
               server' = [server EXCEPT !.pend = Drop(@, n)],
               UNCHANGED <<client, up, app, target, broken>>
        PROVE  TypeInv'
    <3>1. n \in Nat /\ 1 <= n /\ n <= Len(server.pend) /\ Len(down.units) + n <= Window
      BY <1>f, Moves
    <3>2. n \in 0..Len(server.pend)
      BY <1>f, <3>1
    <3>3. /\ Take(server.pend, n) \in Seq(Unit) /\ Len(Take(server.pend, n)) = n
          /\ Drop(server.pend, n) \in Seq(Unit)
          /\ Len(Drop(server.pend, n)) = Len(server.pend) - n
      BY <1>f, <3>2, UnitPieces
    <3>4. DownOK'
      BY <2>2, <3>1, <3>3, PushedType
    <3>5. /\ server' \in ServerState /\ server'.len = server.len
          /\ server'.size = server.size
          /\ server'.body = server.body /\ server'.pend = Drop(server.pend, n)
      BY <2>2, <3>3 DEF TypeInv, ServerOK, ServerState
    <3>6. Len(server'.pend) <= 2 + MaxFrame
      BY <1>f, <3>1, <3>3, <3>5, Constants
    <3>7. ServerOK'
      BY <3>5, <3>6, AtRest
    <3>8. QED
      BY <1>1, <2>2, <3>4, <3>7
  <2>3. QED
    BY <1>6, <2>1, <2>2 DEF FlushPending
<1>7. CASE PollShutdown
  <2>1. /\ server' \in ServerState /\ server'.len = server.len
        /\ server'.size = server.size
        /\ server'.body = server.body /\ server'.pend = server.pend
    BY <1>7 DEF PollShutdown, TypeInv, ServerOK, ServerState
  <2>2. ServerOK'
    BY <1>f, <2>1, AtRest
  <2>3. DownOK'
    BY <1>7 DEF PollShutdown, TypeInv, DownOK, Wire
  <2>4. QED
    BY <1>1, <1>7, <2>2, <2>3 DEF PollShutdown
<1>8. CASE ReadTarget
  <2> DEFINE s == Len(target.sent)
             data(n) == [i \in 1..n |-> s + i]
  <2>1. PICK n \in 1..(Len(Method) + Len(Success) + DownLen - s) :
            /\ target' = [target EXCEPT !.sent = @ \o data(n)]
            /\ server' = [server EXCEPT !.downBuf = data(n)]
    BY <1>8, Zenon DEF ReadTarget
  <2>2. s \in Nat /\ n \in Nat
    BY <1>f
  <2>3. data(n) \in Seq(Nat)
    BY <2>2, CountType
  <2> HIDE DEF data, s
  <2>4. target.sent \o data(n) \in Seq(Nat)
    BY <1>f, <2>3, Numbers, Zenon
  <2>5. target' \in EndState
    BY <2>1, <2>4 DEF TypeInv, EndState
  <2>6. /\ server' \in ServerState /\ server'.len = server.len
        /\ server'.size = server.size
        /\ server'.body = server.body /\ server'.pend = server.pend
    BY <2>1, <2>3 DEF TypeInv, ServerOK, ServerState
  <2>7. ServerOK'
    BY <1>f, <2>6, AtRest
  <2>8. QED
    BY <1>2, <1>8, <2>5, <2>7 DEF ReadTarget
<1>9. CASE TargetCloses
  <2>1. target' \in EndState /\ ServerOK'
    BY <1>9 DEF TargetCloses, TypeInv, EndState, ServerOK
  <2>2. QED
    BY <1>2, <1>9, <2>1 DEF TargetCloses
<1>10. QED
  BY <1>3, <1>4, <1>5, <1>6, <1>7, <1>8, <1>9 DEF CopyDown

LEMMA TypeInit == Init => TypeInv
<1> SUFFICES ASSUME Init PROVE TypeInv
  OBVIOUS
<1>1. client \in ClientState
  BY Units, Numbers DEF Init, ClientState
<1>2. ServerOK
  <2>1. /\ server \in ServerState /\ server.len = <<>> /\ server.size = 0
        /\ server.body = <<>> /\ server.pend = <<>>
    BY Units, Numbers DEF Init, ServerState
  <2>2. QED
    BY <2>1, Constants DEF ServerOK
<1>3. UpOK /\ DownOK
  <2>1. up \in Wire /\ down \in Wire /\ up.units = <<>> /\ down.units = <<>>
    BY Units DEF Init, Wire
  <2>2. QED
    BY <2>1, WindowAssumption DEF UpOK, DownOK
<1>4. app \in EndState /\ target \in EndState /\ broken \in BOOLEAN
  BY Numbers DEF Init, EndState
<1>5. QED
  BY <1>1, <1>2, <1>3, <1>4 DEF TypeInv

LEMMA TypeNext == TypeInv /\ [Next]_vars => TypeInv'
<1> SUFFICES ASSUME TypeInv, [Next]_vars PROVE TypeInv'
  OBVIOUS
<1>1. CASE UNCHANGED vars
  BY <1>1 DEF vars, TypeInv, ServerOK, UpOK, DownOK
<1>2. CASE ClientUp \/ ReadLocal \/ AppCloses \/ AppFails
  BY <1>2, ClientUpType
<1>3. CASE ClientDown \/ AppReads
  BY <1>3, ClientDownType
<1>4. CASE CopyUp \/ TargetFails
  BY <1>4, CopyUpType
<1>5. CASE CopyDown \/ ReadTarget \/ TargetCloses
  BY <1>5, CopyDownType
<1>6. QED
  BY <1>1, <1>2, <1>3, <1>4, <1>5, Zenon DEF Next, Ends, Finished

(* NoiseFramedStream's fields and the client's buffers keep their types and *)
(* sizes: a frame never outgrows encrypted_read, a length is never read     *)
(* into a third byte, and no stream holds more than its window.             *)
THEOREM TypeCorrect == Spec => []TypeOK
<1>1. Spec => []TypeInv
  BY TypeInit, TypeNext, PTL DEF Spec
<1>2. QED
  BY <1>1, TypeInvTypes, PTL

-------------------------------------------------------------------------------
(* Who may be where: what the threads, the copy loop and the ends know of  *)
(* one another.                                                            *)

ClientControl ==
    /\ "failed" \in {client.pc, client.upT, client.dnT} \/ app.over = "reset" => broken
    /\ client.pc # "open" => /\ client.upT = "running" /\ client.dnT = "running"
                             /\ client.local = <<>> /\ app.over = "open"
    /\ client.pc = "start" => client.out = <<>>
    /\ client.upT # "running" => client.out = <<>>
    /\ client.dnT # "running" => client.local = <<>> /\ client.inp = <<>>
    /\ app.eof => client.pc = "failed" \/ client.dnT # "running"
    /\ client.dnT = "done" => app.eof

ServerControl ==
    /\ server.upT # "copying" => /\ server.pc \in {"relay", "closed"}
                                 /\ server.plain = <<>> /\ server.upBuf = <<>>
                                 /\ server.len = <<>>
    /\ server.dnT # "copying" => server.pc \in {"relay", "closed"} /\ server.downBuf = <<>>
    /\ server.dnT = "done" => server.pend = <<>>
    /\ server.pc = "closed" => /\ server.len = <<>> /\ server.plain = <<>>
                               /\ server.pend = <<>> /\ server.downBuf = <<>>
    /\ server.pc # "relay" => server.upBuf = <<>>
    /\ server.pc \in {"first", "greeting", "connecting"} => server.downBuf = <<>>
    /\ target.eof => server.upT = "done" \/ server.pc = "closed"

\* An end is passed on only when all before it is; a failure is remembered.
EndControl ==
    ~broken => /\ up.end # "open" => client.upT = "done"
               /\ server.upT # "copying" => client.upT = "done" /\ up.units = <<>>
               /\ down.end # "open" => server.dnT = "done"
               /\ server.pc = "closed" => server.upT = "done" /\ server.dnT = "done"

Control == ClientControl /\ ServerControl /\ EndControl

LEMMA ControlInit == Init => Control
BY DEF Init, Control, ClientControl, ServerControl, EndControl

LEMMA NegotiationFailsControl ==
    ASSUME TypeInv, Control, client.pc # "open", NegotiationFails
    PROVE  Control'
<1>1. ClientControl'
  BY DEF TypeInv, ClientState, EndState, NegotiationFails, ClientBecomes, Control, ClientControl
<1>2. ServerControl' /\ EndControl'
  BY DEF NegotiationFails, Control, ServerControl, EndControl
<1>3. QED
  BY <1>1, <1>2 DEF Control

LEMMA DownThreadFailsControl ==
    ASSUME TypeInv, Control, client.pc = "open", DownThreadFails
    PROVE  Control'
<1>1. ClientControl'
  BY DEF TypeInv, ClientState, EndState, DownThreadFails, ClientBecomes, Control, ClientControl,
         Gone, Over
<1>2. ServerControl' /\ EndControl'
  BY DEF DownThreadFails, Control, ServerControl, EndControl
<1>3. QED
  BY <1>1, <1>2 DEF Control

LEMMA DownThreadStopsControl ==
    ASSUME TypeInv, Control, client.pc = "open", client.local = <<>>, DownThreadStops,
           down'.end = down.end
    PROVE  Control'
<1>1. ClientControl'
  BY DEF TypeInv, ClientState, EndState, DownThreadStops, ClientBecomes, Control, ClientControl
<1>2. ServerControl'
  BY DEF DownThreadStops, Control, ServerControl
<1>3. EndControl'
  BY DEF TypeInv, UpOK, ClientState, Wire, DownThreadStops, ClientBecomes, Control,
         ClientControl, EndControl, Gone, Over
<1>4. QED
  BY <1>1, <1>2, <1>3 DEF Control

LEMMA ServerFailsControl == ASSUME TypeInv, Control, ServerFails PROVE Control'
<1>1. ClientControl'
  BY DEF ServerFails, Control, ClientControl
<1>2. ServerControl'
  BY DEF TypeInv, ServerOK, ServerState, EndState, ServerFails, Control, ServerControl
<1>3. EndControl'
  BY DEF ServerFails, EndControl
<1>4. QED
  BY <1>1, <1>2, <1>3 DEF Control

LEMMA ClientUpControl ==
    ASSUME TypeInv, Control, ClientUp \/ ReadLocal \/ AppCloses \/ AppFails
    PROVE  Control'
<1>1. CASE Greet \/ ReadLocal
  <2>1. PICK data, pc : /\ Encrypts(data, pc) /\ client.upT = "running"
                        /\ pc \in {"method", "open"} /\ (pc = "open" <=> client.pc = "open")
                        /\ UNCHANGED <<server, up, down, target, broken>>
    BY <1>1 DEF Greet, ReadLocal, Control, ClientControl
  <2>2. ClientControl'
    <3>1. /\ client'.pc = pc /\ client'.upT = client.upT /\ client'.dnT = client.dnT
          /\ client'.local = client.local /\ client'.inp = client.inp
          /\ app'.over = app.over /\ app'.eof = app.eof
      BY <2>1 DEF TypeInv, ClientState, EndState, Encrypts
    <3>2. client.pc # "failed"
      BY <1>1 DEF Greet, ReadLocal
    <3>3. QED
      BY <2>1, <3>1, <3>2, Zenon DEF Control, ClientControl
  <2>3. ServerControl'
    BY <2>1 DEF Control, ServerControl
  <2>4. EndControl'
    BY <2>1 DEF TypeInv, ClientState, Encrypts, Control, EndControl
  <2>5. QED
    BY <2>2, <2>3, <2>4 DEF Control
<1>2. CASE ClientWrites
  <2>1. PICK n : /\ up' = Pushed(up, Take(client.out, n))
                 /\ client' = [client EXCEPT !.out = Drop(@, n)]
    BY <1>2 DEF ClientWrites
  <2>2. client.upT = "running" /\ client.pc # "start"
    BY <1>2 DEF ClientWrites, Control, ClientControl
  <2>3. ClientControl'
    BY <1>2, <2>1, <2>2 DEF ClientWrites, TypeInv, ClientState, Control, ClientControl
  <2>4. ServerControl'
    BY <1>2 DEF ClientWrites, Control, ServerControl
  <2>5. EndControl'
    <3>1. up'.end = up.end /\ client'.upT = client.upT
      BY <2>1 DEF TypeInv, UpOK, Wire, ClientState, Pushed
    <3>2. QED
      BY <1>2, <2>2, <3>1 DEF ClientWrites, Control, EndControl
  <2>6. QED
    BY <2>3, <2>4, <2>5 DEF Control
<1>3. CASE ClientWritesToClosed
  <2>1. CASE /\ client' = [client EXCEPT !.out = <<>>]
             /\ UNCHANGED <<server, up, down, app, target, broken>>
    <3>1. ClientControl'
      BY <2>1 DEF TypeInv, ClientState, Control, ClientControl
    <3>2. ServerControl'
      BY <2>1 DEF Control, ServerControl
    <3>3. client'.upT = client.upT
      BY <2>1 DEF TypeInv, ClientState
    <3>4. EndControl'
      BY <2>1, <3>3 DEF Control, EndControl
    <3>5. QED
      BY <3>1, <3>2, <3>4 DEF Control
  <2>2. CASE client.pc # "open" /\ NegotiationFails
    BY <2>2, NegotiationFailsControl
  <2>3. CASE /\ client.pc = "open"
             /\ ClientBecomes([client EXCEPT !.upT = "failed", !.out = <<>>])
             /\ app' = [app EXCEPT !.eof = @ \/ Gone(client')]
             /\ broken' = TRUE
             /\ UNCHANGED <<server, down, target>>
    <3>1. ClientControl'
      BY <2>3 DEF TypeInv, ClientState, EndState, ClientBecomes, Control, ClientControl,
                  Gone, Over
    <3>2. ServerControl' /\ EndControl'
      BY <2>3 DEF Control, ServerControl, EndControl
    <3>3. QED
      BY <3>1, <3>2 DEF Control
  <2>4. QED
    BY <1>3, <2>1, <2>2, <2>3 DEF ClientWritesToClosed
<1>4. CASE LocalEof
  <2>1. ClientControl'
    BY <1>4 DEF LocalEof, TypeInv, ClientState, EndState, Control, ClientControl, Gone, Over
  <2>2. ServerControl'
    BY <1>4 DEF LocalEof, Control, ServerControl
  <2>3. EndControl'
    BY <1>4 DEF LocalEof, TypeInv, ClientState, UpOK, Wire, Control, EndControl
  <2>4. QED
    BY <2>1, <2>2, <2>3 DEF Control
<1>5. CASE LocalReadFails
  <2>1. ClientControl'
    BY <1>5 DEF LocalReadFails, TypeInv, ClientState, ClientBecomes, Control, ClientControl
  <2>2. ServerControl'
    BY <1>5 DEF LocalReadFails, Control, ServerControl
  <2>3. EndControl'
    BY <1>5 DEF LocalReadFails, Control, ClientControl, EndControl
  <2>4. QED
    BY <2>1, <2>2, <2>3 DEF Control
<1>6. CASE AppCloses \/ AppFails
  <2>1. ClientControl'
    BY <1>6 DEF AppCloses, AppFails, TypeInv, EndState, Control, ClientControl
  <2>2. ServerControl' /\ EndControl'
    BY <1>6 DEF AppCloses, AppFails, Control, ServerControl, EndControl
  <2>3. QED
    BY <2>1, <2>2 DEF Control
<1>7. QED
  BY <1>1, <1>2, <1>3, <1>4, <1>5, <1>6 DEF ClientUp

\* What ClientReads may do.
LEMMA ClientReadsCases ==
    ASSUME TypeInv, ClientReads
    PROVE  \E n \in Readable(down, Missing(client.inp)) :
               /\ down' = Pulled(down, n)
               /\ \/ /\ Missing(client.inp \o Take(down.units, n)) # 0
                     /\ client' = [client EXCEPT !.inp = client.inp \o Take(down.units, n)]
                     /\ UNCHANGED <<server, up, app, target, broken>>
                  \/ /\ Missing(client.inp \o Take(down.units, n)) = 0
                     /\ ClientDecrypts(Drop(client.inp \o Take(down.units, n), 2))
BY Zenon DEF ClientReads

LEMMA ClientDecryptsCases ==
    ASSUME TypeInv, ClientReading, NEW body, ClientDecrypts(body)
    PROVE  \/ client.pc # "open" /\ NegotiationFails
           \/ client.pc = "open" /\ DownThreadFails
           \/ /\ client.pc = "method" /\ Payload(body) = Method
              /\ client' = [client EXCEPT !.inp = <<>>, !.rx = @ + 1, !.pc = "reply",
                               !.tx = @ + 1, !.out = Frame(Request, client.tx)]
              /\ app' = [app EXCEPT !.sent = @ \o Request, !.got = @ \o Payload(body)]
              /\ UNCHANGED <<server, up, target, broken>>
           \/ /\ client.pc = "reply" /\ Payload(body) = Success
              /\ client' = [client EXCEPT !.inp = <<>>, !.rx = @ + 1, !.pc = "open"]
              /\ app' = [app EXCEPT !.got = @ \o Payload(body)]
              /\ UNCHANGED <<server, up, target, broken>>
           \/ /\ client.pc = "open" /\ Payload(body) # <<>>
              /\ client' = [client EXCEPT !.inp = <<>>, !.rx = @ + 1, !.local = Payload(body)]
              /\ UNCHANGED <<server, up, app, target, broken>>
           \/ client.pc = "open" /\ Payload(body) = <<>> /\ DownThreadStops
<1>1. PICK data : data = Payload(body)
  OBVIOUS
<1>2. CASE ~Opens(body, client.rx) \/
           data # [method |-> Method, reply |-> Success, open |-> data][client.pc]
  <2>1. ClientReadFails
    BY <1>1, <1>2 DEF ClientDecrypts
  <2>2. QED
    BY <2>1 DEF ClientReadFails
<1>3. CASE ~(~Opens(body, client.rx) \/
             data # [method |-> Method, reply |-> Success, open |-> data][client.pc])
  <2>1. client.pc \in {"method", "reply", "open"}
    BY DEF ClientReading
  <2>2. CASE client.pc = "method"
    <3>1. /\ client' = [[client EXCEPT !.inp = <<>>, !.rx = @ + 1]
                            EXCEPT !.pc = "reply", !.tx = @ + 1, !.out = Frame(Request, client.tx)]
          /\ app' = [app EXCEPT !.sent = @ \o Request, !.got = @ \o data]
          /\ UNCHANGED <<server, up, target, broken>>
      BY <1>1, <1>3, <2>2 DEF ClientDecrypts
    <3>2. client' = [client EXCEPT !.inp = <<>>, !.rx = @ + 1, !.pc = "reply",
                               !.tx = @ + 1, !.out = Frame(Request, client.tx)]
      BY <3>1 DEF TypeInv, ClientState
    <3>3. data = Method
      BY <1>3, <2>2
    <3>4. QED
      BY <1>1, <2>2, <3>1, <3>2, <3>3
  <2>3. CASE client.pc = "reply"
    <3>1. /\ client' = [[client EXCEPT !.inp = <<>>, !.rx = @ + 1] EXCEPT !.pc = "open"]
          /\ app' = [app EXCEPT !.got = @ \o data]
          /\ UNCHANGED <<server, up, target, broken>>
      BY <1>1, <1>3, <2>3 DEF ClientDecrypts
    <3>2. client' = [client EXCEPT !.inp = <<>>, !.rx = @ + 1, !.pc = "open"]
      BY <3>1 DEF TypeInv, ClientState
    <3>3. data = Success
      BY <1>3, <2>3
    <3>4. QED
      BY <1>1, <2>3, <3>1, <3>2, <3>3
  <2>4. CASE client.pc = "open" /\ data # <<>>
    <3>1. /\ client' = [[client EXCEPT !.inp = <<>>, !.rx = @ + 1] EXCEPT !.local = data]
          /\ UNCHANGED <<server, up, app, target, broken>>
      BY <1>1, <1>3, <2>4 DEF ClientDecrypts
    <3>2. client' = [client EXCEPT !.inp = <<>>, !.rx = @ + 1, !.local = data]
      BY <3>1 DEF TypeInv, ClientState
    <3>3. QED
      BY <1>1, <2>4, <3>1, <3>2
  <2>5. CASE client.pc = "open" /\ data = <<>>
    <3>1. DownThreadStops
      BY <1>1, <1>3, <2>5 DEF ClientDecrypts
    <3>2. QED
      BY <1>1, <2>5, <3>1
  <2>6. QED
    BY <2>1, <2>2, <2>3, <2>4, <2>5
<1>4. QED
  BY <1>2, <1>3

LEMMA ClientDownControl ==
    ASSUME TypeInv, Control, ClientDown \/ AppReads
    PROVE  Control'
<1>1. ASSUME UNCHANGED <<server, up, target, broken>>, down'.end = down.end,
             client'.upT = client.upT, ClientControl'
      PROVE  Control'
  <2>1. ServerControl'
    BY <1>1 DEF Control, ServerControl
  <2>2. EndControl'
    BY <1>1 DEF Control, EndControl
  <2>3. QED
    BY <1>1, <2>1, <2>2 DEF Control
<1>2. CASE ClientReads
  <2>1. PICK n : /\ down' = Pulled(down, n)
                 /\ \/ /\ client' = [client EXCEPT !.inp = client.inp \o Take(down.units, n)]
                       /\ UNCHANGED <<server, up, app, target, broken>>
                    \/ ClientDecrypts(Drop(client.inp \o Take(down.units, n), 2))
    BY <1>2, ClientReadsCases, Zenon
  <2>2. down'.end = down.end
    BY <2>1 DEF TypeInv, DownOK, Wire, Pulled
  <2>r. ClientReading
    BY <1>2 DEF ClientReads
  <2>3. CASE /\ client' = [client EXCEPT !.inp = client.inp \o Take(down.units, n)]
             /\ UNCHANGED <<server, up, app, target, broken>>
    <3>1. ClientControl' /\ client'.upT = client.upT
      BY <2>3, <2>r DEF ClientReading, TypeInv, ClientState, Control, ClientControl
    <3>2. QED
      BY <1>1, <2>2, <2>3, <3>1
  <2>4. CASE ClientDecrypts(Drop(client.inp \o Take(down.units, n), 2))
    <3>b. PICK body : body = Drop(client.inp \o Take(down.units, n), 2)
      OBVIOUS
    <3>c. ClientDecrypts(body)
      BY <2>4, <3>b
    <3>1. CASE client.pc # "open" /\ NegotiationFails
      BY <3>1, NegotiationFailsControl
    <3>2. CASE client.pc = "open" /\ DownThreadFails
      BY <3>2, DownThreadFailsControl
    <3>3. CASE /\ client.pc = "method"
               /\ client' = [client EXCEPT !.inp = <<>>, !.rx = @ + 1, !.pc = "reply",
                               !.tx = @ + 1, !.out = Frame(Request, client.tx)]
               /\ app' = [app EXCEPT !.sent = @ \o Request, !.got = @ \o Payload(body)]
               /\ UNCHANGED <<server, up, target, broken>>
      <4>1. ClientControl' /\ client'.upT = client.upT
        BY <3>3 DEF TypeInv, ClientState, EndState, Control, ClientControl
      <4>2. QED
        BY <1>1, <2>2, <3>3, <4>1
    <3>4. CASE /\ client.pc = "reply"
               /\ client' = [client EXCEPT !.inp = <<>>, !.rx = @ + 1, !.pc = "open"]
               /\ app' = [app EXCEPT !.got = @ \o Payload(body)]
               /\ UNCHANGED <<server, up, target, broken>>
      <4>1. ClientControl' /\ client'.upT = client.upT
        BY <3>4 DEF TypeInv, ClientState, EndState, Control, ClientControl
      <4>2. QED
        BY <1>1, <2>2, <3>4, <4>1
    <3>5. CASE /\ client.pc = "open"
               /\ client' = [client EXCEPT !.inp = <<>>, !.rx = @ + 1, !.local = Payload(body)]
               /\ UNCHANGED <<server, up, app, target, broken>>
      <4>1. client.dnT = "running"
        BY <2>r, <3>5 DEF ClientReading
      <4>2. ClientControl' /\ client'.upT = client.upT
        BY <3>5, <4>1 DEF TypeInv, ClientState, Control, ClientControl
      <4>3. QED
        BY <1>1, <2>2, <3>5, <4>2
    <3>6. CASE client.pc = "open" /\ DownThreadStops
      <4>1. client.local = <<>>
        BY <2>r, <3>6 DEF ClientReading
      <4>2. QED
        BY <2>2, <3>6, <4>1, DownThreadStopsControl
    <3>7. QED
      BY <2>r, <3>c, <3>1, <3>2, <3>3, <3>4, <3>5, <3>6, ClientDecryptsCases
  <2>5. QED
    BY <2>1, <2>3, <2>4
<1>3. CASE ClientSeesEnd
  <2>1. CASE client.pc = "open"
    <3>1. client.local = <<>> /\ down'.end = down.end
      BY <1>3, <2>1 DEF ClientSeesEnd, ClientReading
    <3>2. DownThreadStops \/ DownThreadFails
      BY <1>3, <2>1, Zenon DEF ClientSeesEnd, ClientReadFails
    <3>3. QED
      BY <2>1, <3>1, <3>2, DownThreadStopsControl, DownThreadFailsControl
  <2>2. CASE client.pc # "open"
    <3>1. NegotiationFails
      BY <1>3, <2>2, Zenon DEF ClientSeesEnd, ClientReadFails
    <3>2. QED
      BY <2>2, <3>1, NegotiationFailsControl
  <2>3. QED
    BY <2>1, <2>2
<1>4. CASE LocalWriteFails
  <2>1. client.pc = "open" /\ DownThreadFails
    BY <1>4 DEF LocalWriteFails, Control, ClientControl
  <2>2. QED
    BY <2>1, DownThreadFailsControl
<1>5. CASE AppReads
  <2>1. ClientControl' /\ client'.upT = client.upT /\ down'.end = down.end
    BY <1>5 DEF AppReads, TypeInv, ClientState, EndState, Control, ClientControl
  <2>2. QED
    BY <1>1, <1>5, <2>1 DEF AppReads
<1>6. QED
  BY <1>2, <1>3, <1>4, <1>5 DEF ClientDown

LEMMA CopyUpControl ==
    ASSUME TypeInv, Control, CopyUp \/ TargetFails
    PROVE  Control'
<1>1. ASSUME UNCHANGED <<client, app, down, broken>>, ServerControl', EndControl'
      PROVE  Control'
  <2>1. ClientControl'
    BY <1>1 DEF Control, ClientControl
  <2>2. QED
    BY <1>1, <2>1 DEF Control
<1>r. ServerReading => server.pc # "closed" /\ server.upT = "copying" /\ server.plain = <<>>
  BY DEF ServerReading, Polling, Control, ServerControl
<1>2. CASE ReadLength
  <2>1. CASE ServerFails
    BY <2>1, ServerFailsControl
  <2>2. ASSUME NEW header, NEW size, NEW n,
               server' = [server EXCEPT !.len = header, !.size = size],
               up' = Pulled(up, n), UNCHANGED <<client, down, app, target, broken>>
        PROVE  Control'
    <3>0. server.pc # "closed" /\ server.upT = "copying"
      BY <1>2, <1>r DEF ReadLength
    <3>1. /\ server'.pc = server.pc /\ server'.upT = server.upT /\ server'.dnT = server.dnT
          /\ server'.pend = server.pend /\ server'.downBuf = server.downBuf
          /\ up'.end = up.end /\ server'.upBuf = server.upBuf
      BY <2>2 DEF TypeInv, ServerOK, ServerState, UpOK, Wire, Pulled
    <3>2. ServerControl'
      BY <2>2, <3>0, <3>1, Zenon DEF Control, ServerControl
    <3>3. EndControl'
      BY <2>2, <3>0, <3>1, Zenon DEF Control, EndControl
    <3>4. QED
      BY <1>1, <2>2, <3>2, <3>3
  <2>3. QED
    BY <1>2, <2>1, <2>2, Zenon DEF ReadLength
<1>3. CASE ReadBody
  <2>1. CASE ServerFails
    BY <2>1, ServerFailsControl
  <2>2. ASSUME NEW body, NEW n,
               server' = Opened(body) \/ server' = [server EXCEPT !.body = body],
               up' = Pulled(up, n), UNCHANGED <<client, down, app, target, broken>>
        PROVE  Control'
    <3>0. server.pc # "closed" /\ server.upT = "copying"
      BY <1>3, <1>r DEF ReadBody
    <3>1. /\ server'.upT = server.upT /\ server'.dnT = server.dnT
          /\ server'.pend = server.pend /\ server'.downBuf = server.downBuf
          /\ up'.end = up.end /\ server'.upBuf = server.upBuf
          /\ server'.pc = server.pc \/ (server.pc = "first" /\ server'.pc = "greeting")
      BY <2>2 DEF TypeInv, ServerOK, ServerState, UpOK, Wire, Pulled, Opened
    <3>2. ServerControl'
      BY <2>2, <3>0, <3>1 DEF Control, ServerControl
    <3>3. EndControl'
      BY <2>2, <3>0, <3>1 DEF Control, EndControl
    <3>4. QED
      BY <1>1, <2>2, <3>2, <3>3
  <2>3. QED
    BY <1>3, <2>1, <2>2, Zenon DEF ReadBody
<1>4. CASE ServerSeesEnd
  <2>1. CASE ServerFails
    BY <2>1, ServerFailsControl
  <2>2. CASE /\ server.len = <<>> /\ server.pc = "relay"
             /\ server' = [server EXCEPT !.upT = "eof"]
             /\ UNCHANGED <<client, up, down, app, target, broken>>
    <3>0. /\ server.upBuf = <<>> /\ server.plain = <<>> /\ server.upT = "copying"
          /\ up.units = <<>> /\ up.end # "open"
      BY <1>4, <2>2 DEF ServerSeesEnd, ServerReading, Polling
    <3>1. ServerControl'
      BY <2>2, <3>0 DEF TypeInv, ServerOK, ServerState, Control, ServerControl
    <3>2. EndControl'
      BY <2>2, <3>0 DEF TypeInv, ServerOK, ServerState, Control, EndControl
    <3>3. QED
      BY <1>1, <2>2, <3>1, <3>2
  <2>3. QED
    BY <1>4, <2>1, <2>2, Zenon DEF ServerSeesEnd
<1>5. ASSUME UNCHANGED <<client, up, down, app, broken>>, server.pc # "closed",
             server.upT = "copying", server'.upT = server.upT,
             server.dnT = "copying" \/ (server'.pc = server.pc /\ server'.downBuf = server.downBuf),
             server'.dnT = server.dnT, server'.pend = server.pend,
             server'.pc # "closed", target'.eof = target.eof,
             server'.pc = "relay" \/ server'.upBuf = server.upBuf,
             server.pc = "relay" => server'.pc = "relay",
             server'.pc \in {"first", "greeting", "connecting"} => server'.downBuf = <<>>
      PROVE  Control'
  <2>1. ServerControl'
    <3>1. server'.pc # "relay" => server'.upBuf = <<>>
      BY <1>5 DEF Control, ServerControl
    <3>2. QED
      BY <1>5, <3>1 DEF Control, ServerControl
  <2>2. EndControl'
    BY <1>5, Zenon DEF Control, EndControl
  <2>3. QED
    BY <1>1, <1>5, <2>1, <2>2
<1>6. CASE ParseGreeting
  <2>1. server.upT = "copying" /\ server.dnT = "copying"
    BY <1>6 DEF ParseGreeting, Control, ServerControl
  <2>2. /\ server'.upT = server.upT /\ server'.dnT = server.dnT /\ server'.pend = server.pend
        /\ server'.pc = "command" /\ target'.eof = target.eof
        /\ server'.upBuf = server.upBuf
    BY <1>6 DEF ParseGreeting, TypeInv, ServerOK, ServerState, EndState
  <2>3. QED
    BY <1>5, <1>6, <2>1, <2>2 DEF ParseGreeting
<1>7. CASE ParseCommand
  <2>1. server.upT = "copying" /\ server.dnT = "copying"
    BY <1>7 DEF ParseCommand, Control, ServerControl
  <2>2. PICK n, pc : /\ target' = [target EXCEPT !.got = @ \o Take(server.plain, n)]
                     /\ server' = [server EXCEPT !.plain = Drop(@, n), !.pc = pc]
                     /\ pc \in {"connecting", "command"}
    BY <1>7 DEF ParseCommand
  <2>3. /\ server'.upT = server.upT /\ server'.dnT = server.dnT /\ server'.pend = server.pend
        /\ server'.pc = pc /\ target'.eof = target.eof
        /\ server'.upBuf = server.upBuf /\ server'.downBuf = server.downBuf
    BY <2>2 DEF TypeInv, ServerOK, ServerState, EndState
  <2>4. QED
    BY <1>5, <1>7, <2>1, <2>2, <2>3 DEF ParseCommand
<1>8. CASE Connect
  <2>1. CASE ServerFails
    BY <2>1, ServerFailsControl
  <2>2. ASSUME NEW answer, NEW pc \in {"replying", "refusing"},
               server' = [server EXCEPT !.downBuf = answer, !.pc = pc],
               target' = [target EXCEPT !.sent = @ \o answer],
               UNCHANGED <<client, up, down, app, broken>>
        PROVE  Control'
    <3>1. server.upT = "copying" /\ server.dnT = "copying" /\ server.pc = "connecting"
      BY <1>8 DEF Connect, Control, ServerControl
    <3>2. /\ server'.upT = server.upT /\ server'.dnT = server.dnT /\ server'.pend = server.pend
          /\ server'.pc = pc /\ target'.eof = target.eof
          /\ server'.upBuf = server.upBuf
      BY <2>2 DEF TypeInv, ServerOK, ServerState, EndState
    <3>3. QED
      BY <1>5, <2>2, <3>1, <3>2
  <2>3. QED
    BY <1>8, <2>1, <2>2 DEF Connect
<1>9. CASE Serves
  <2>1. server.upT = "copying" /\ server.pc = "relay"
    BY <1>9 DEF Serves, Control, ServerControl
  <2>2. PICK n : server' = [server EXCEPT !.upBuf = Take(server.plain, n), !.plain = Drop(@, n)]
    BY <1>9 DEF Serves
  <2>3. /\ server'.upT = server.upT /\ server'.dnT = server.dnT /\ server'.pend = server.pend
        /\ server'.pc = server.pc /\ server'.downBuf = server.downBuf
    BY <2>2 DEF TypeInv, ServerOK, ServerState
  <2>4. QED
    BY <1>5, <1>9, <2>1, <2>3 DEF Serves
<1>10. CASE WriteTarget
  <2>1. server.upT = "copying" /\ server.pc = "relay"
    BY <1>10 DEF WriteTarget, Control, ServerControl
  <2>2. /\ server'.upT = server.upT /\ server'.dnT = server.dnT /\ server'.pend = server.pend
        /\ server'.pc = server.pc /\ server'.downBuf = server.downBuf
        /\ target'.eof = target.eof
    BY <1>10 DEF WriteTarget, TypeInv, ServerOK, ServerState, EndState
  <2>3. QED
    BY <1>5, <1>10, <2>1, <2>2 DEF WriteTarget
<1>11. CASE EndTarget
  <2>1. ServerControl'
    BY <1>11 DEF EndTarget, TypeInv, ServerOK, ServerState, EndState, Control, ServerControl
  <2>2. EndControl'
    BY <1>11 DEF EndTarget, TypeInv, ServerOK, ServerState, Control, EndControl
  <2>3. QED
    BY <1>1, <1>11, <2>1, <2>2 DEF EndTarget
<1>12. CASE RelayCloses
  <2>1. ServerControl'
    BY <1>12 DEF RelayCloses, TypeInv, ServerOK, ServerState, Control, ServerControl
  <2>2. EndControl'
    BY <1>12 DEF RelayCloses, TypeInv, ServerOK, ServerState, Control, EndControl
  <2>3. QED
    BY <1>1, <1>12, <2>1, <2>2 DEF RelayCloses
<1>13. CASE TargetFails
  BY <1>13, ServerFailsControl DEF TargetFails
<1>14. QED
  BY <1>2, <1>3, <1>4, <1>6, <1>7, <1>8, <1>9, <1>10, <1>11, <1>12, <1>13 DEF CopyUp

LEMMA CopyDownControl ==
    ASSUME TypeInv, Control, CopyDown \/ ReadTarget \/ TargetCloses
    PROVE  Control'
<1>1. ASSUME UNCHANGED <<client, app, up, broken>>, ServerControl', EndControl'
      PROVE  Control'
  <2>1. ClientControl'
    BY <1>1 DEF Control, ClientControl
  <2>2. QED
    BY <1>1, <2>1 DEF Control
<1>2. CASE Answered
  <2>1. CASE ServerFails
    BY <2>1, ServerFailsControl
  <2>2. CASE /\ server.pc = "replying" /\ server' = [server EXCEPT !.pc = "relay"]
             /\ UNCHANGED <<client, up, down, app, target, broken>>
    <3>1. ServerControl'
      BY <2>2 DEF TypeInv, ServerOK, ServerState, Control, ServerControl
    <3>2. EndControl'
      BY <2>2 DEF TypeInv, ServerOK, ServerState, Control, EndControl
    <3>3. QED
      BY <1>1, <2>2, <3>1, <3>2
  <2>3. QED
    BY <1>2, <2>1, <2>2 DEF Answered
<1>3. CASE TargetEof
  <2>1. ServerControl'
    BY <1>3 DEF TargetEof, TypeInv, ServerOK, ServerState, Control, ServerControl
  <2>2. EndControl'
    BY <1>3 DEF TargetEof, TypeInv, ServerOK, ServerState, Control, EndControl
  <2>3. QED
    BY <1>1, <1>3, <2>1, <2>2 DEF TargetEof
<1>4. CASE PollWrite
  <2>1. PICK x, y : server' = [server EXCEPT !.pend = x, !.downBuf = y, !.tx = @ + 1]
    BY <1>4 DEF PollWrite
  <2>2. server.dnT = "copying" /\ server.pc # "closed"
    BY <1>4 DEF PollWrite, Control, ServerControl
  <2>3. ServerControl'
    BY <1>4, <2>1, <2>2 DEF PollWrite, TypeInv, ServerOK, ServerState, Control, ServerControl
  <2>4. EndControl'
    BY <1>4, <2>1, <2>2 DEF PollWrite, TypeInv, ServerOK, ServerState, Control, EndControl
  <2>5. QED
    BY <1>1, <1>4, <2>3, <2>4 DEF PollWrite
<1>5. CASE FlushPending
  <2>1. CASE ServerFails
    BY <2>1, ServerFailsControl
  <2>2. ASSUME NEW n, NEW x, down' = Pushed(down, x),
               server' = [server EXCEPT !.pend = Drop(@, n)],
               UNCHANGED <<client, up, app, target, broken>>
        PROVE  Control'
    <3>1. server.dnT # "done" /\ server.pc # "closed"
      BY <1>5 DEF FlushPending, Control, ServerControl
    <3>2. ServerControl'
      BY <2>2, <3>1 DEF TypeInv, ServerOK, ServerState, Control, ServerControl
    <3>3. down'.end = down.end
      BY <2>2 DEF TypeInv, DownOK, Wire, Pushed
    <3>4. EndControl'
      BY <2>2, <3>1, <3>3 DEF TypeInv, ServerOK, ServerState, Control, EndControl
    <3>5. QED
      BY <1>1, <2>2, <3>2, <3>4
  <2>3. QED
    BY <1>5, <2>1, <2>2 DEF FlushPending
<1>6. CASE PollShutdown
  <2>1. ServerControl'
    BY <1>6 DEF PollShutdown, TypeInv, ServerOK, ServerState, Control, ServerControl
  <2>2. EndControl'
    BY <1>6 DEF PollShutdown, TypeInv, ServerOK, ServerState, Control, EndControl
  <2>3. QED
    BY <1>1, <1>6, <2>1, <2>2 DEF PollShutdown
<1>7. CASE ReadTarget
  <2>1. PICK x : /\ target' = [target EXCEPT !.sent = @ \o x]
                 /\ server' = [server EXCEPT !.downBuf = x]
    BY <1>7 DEF ReadTarget
  <2>2. ServerControl'
    BY <1>7, <2>1 DEF ReadTarget, TypeInv, ServerOK, ServerState, EndState, Control, ServerControl
  <2>3. EndControl'
    BY <1>7, <2>1 DEF ReadTarget, TypeInv, ServerOK, ServerState, Control, EndControl
  <2>4. QED
    BY <1>1, <1>7, <2>2, <2>3 DEF ReadTarget
<1>8. CASE TargetCloses
  <2>1. ServerControl' /\ EndControl'
    BY <1>8 DEF TargetCloses, TypeInv, EndState, Control, ServerControl, EndControl
  <2>2. QED
    BY <1>1, <1>8, <2>1 DEF TargetCloses
<1>9. QED
  BY <1>2, <1>3, <1>4, <1>5, <1>6, <1>7, <1>8 DEF CopyDown

LEMMA ControlNext == TypeInv /\ Control /\ [Next]_vars => Control'
<1> SUFFICES ASSUME TypeInv, Control, [Next]_vars PROVE Control'
  OBVIOUS
<1>1. CASE UNCHANGED vars
  BY <1>1 DEF vars, Control, ClientControl, ServerControl, EndControl
<1>2. CASE ClientUp \/ ReadLocal \/ AppCloses \/ AppFails
  BY <1>2, ClientUpControl
<1>3. CASE ClientDown \/ AppReads
  BY <1>3, ClientDownControl
<1>4. CASE CopyUp \/ TargetFails
  BY <1>4, CopyUpControl
<1>5. CASE CopyDown \/ ReadTarget \/ TargetCloses
  BY <1>5, CopyDownControl
<1>6. QED
  BY <1>1, <1>2, <1>3, <1>4, <1>5, Zenon DEF Next, Ends, Finished

-------------------------------------------------------------------------------
(* From the application to the target: whatever fails, a server that still *)
(* reads is in step with the client's writer, and what has arrived, what   *)
(* is held and what is on its way is what was sent, less what a client     *)
(* that gave up threw away.                                                *)

UpWire == server.len \o server.body \o up.units \o client.out

UpStep == server.pc # "closed" => InStep(UpWire, server.rx, client.tx, client.pc # "failed")

UpHeld == target.got \o server.upBuf \o server.plain
              \o Payload(server.body \o up.units \o client.out)

UpAccount ==
    server.pc # "closed" \/ ~broken =>
        \E rest \in Seq(Nat) : /\ UpHeld \o rest = app.sent
                               /\ client.pc # "failed" => rest = <<>>

UpInv == UpStep /\ UpAccount

LEMMA UpFields ==
    ASSUME TypeInv
    PROVE  /\ server.len \in Seq(Unit) /\ server.body \in Seq(Unit) /\ up.units \in Seq(Unit)
           /\ client.out \in Seq(Unit)
           /\ target.got \in Seq(Nat) /\ server.upBuf \in Seq(Nat) /\ server.plain \in Seq(Nat)
           /\ app.sent \in Seq(Nat) /\ client.tx \in Nat /\ server.rx \in Nat
           /\ UpWire \in Seq(Unit) /\ UpHeld \in Seq(Nat)
           /\ server.body \o up.units \in Seq(Unit)
           /\ target.got \o server.upBuf \in Seq(Nat)
           /\ (target.got \o server.upBuf) \o server.plain \in Seq(Nat)
<1>1. /\ server.len \in Seq(Unit) /\ server.body \in Seq(Unit) /\ up.units \in Seq(Unit)
      /\ client.out \in Seq(Unit)
      /\ target.got \in Seq(Nat) /\ server.upBuf \in Seq(Nat) /\ server.plain \in Seq(Nat)
      /\ app.sent \in Seq(Nat) /\ client.tx \in Nat /\ server.rx \in Nat
  BY ClientFields, ServerFields, WireFields, EndFields DEF TypeInv, ServerOK
<1>2. UpWire \in Seq(Unit)
  BY <1>1, Units, Zenon DEF UpWire
<1>3. server.body \o up.units \in Seq(Unit)
  BY <1>1, Units, Zenon
<1>4. (server.body \o up.units) \o client.out \in Seq(Unit)
  BY <1>1, <1>3, Units, Zenon
<1>5. Payload(server.body \o up.units \o client.out) \in Seq(Nat)
  BY <1>4, PayloadType
<1>6. target.got \o server.upBuf \in Seq(Nat)
  BY <1>1, Numbers, Zenon
<1>7. (target.got \o server.upBuf) \o server.plain \in Seq(Nat)
  BY <1>1, <1>6, Numbers, Zenon
<1>8. UpHeld \in Seq(Nat)
  BY <1>5, <1>7, Numbers, Zenon DEF UpHeld
<1>9. QED
  BY <1>1, <1>2, <1>3, <1>6, <1>7, <1>8

LEMMA UpKept ==
    ASSUME UpInv, server'.pc # "closed" => server.pc # "closed", broken => broken',
           client'.pc = "failed" <=> client.pc = "failed",
           UpWire' = UpWire, server'.rx = server.rx, client'.tx = client.tx,
           UpHeld' = UpHeld, app'.sent = app.sent
    PROVE  UpInv'
<1>1. UpStep'
  BY Zenon DEF UpInv, UpStep
<1>2. UpAccount'
  BY Zenon DEF UpInv, UpAccount
<1>3. QED
  BY <1>1, <1>2 DEF UpInv

(* Nothing of this direction has changed.                                  *)
LEMMA UpUntouched ==
    ASSUME UpInv, server'.pc # "closed" => server.pc # "closed", broken => broken',
           client'.pc = "failed" <=> client.pc = "failed",
           server'.len = server.len, server'.body = server.body, up'.units = up.units,
           client'.out = client.out, server'.rx = server.rx, client'.tx = client.tx,
           target'.got = target.got, server'.upBuf = server.upBuf,
           server'.plain = server.plain, app'.sent = app.sent
    PROVE  UpInv'
<1>1. UpWire' = UpWire
  BY DEF UpWire
<1>2. UpHeld' = UpHeld
  BY DEF UpHeld
<1>3. QED
  BY <1>1, <1>2, UpKept, Zenon

LEMMA UpClosed == ASSUME server'.pc = "closed", broken' PROVE UpInv'
BY DEF UpInv, UpStep, UpAccount

(* The client seals bytes of the application.                              *)
LEMMA UpSend ==
    ASSUME TypeInv, UpInv, client.out = <<>>, client.pc # "failed", client'.pc # "failed",
           NEW data \in Seq(Nat), Len(data) \in 1..MaxPlain,
           client'.out = Frame(data, client.tx), client'.tx = client.tx + 1,
           app'.sent = app.sent \o data,
           UNCHANGED <<server, up, broken, target>>
    PROVE  UpInv'
<1>f. /\ server.len \in Seq(Unit) /\ server.body \in Seq(Unit) /\ up.units \in Seq(Unit)
      /\ app.sent \in Seq(Nat) /\ client.tx \in Nat /\ server.rx \in Nat
      /\ UpWire \in Seq(Unit) /\ UpHeld \in Seq(Nat)
      /\ server.body \o up.units \in Seq(Unit)
      /\ (target.got \o server.upBuf) \o server.plain \in Seq(Nat)
  BY UpFields
<1>x. PICK x \in Seq(Unit) : x = Frame(data, client.tx) /\ Payload(x) = data
  BY <1>f, FrameFacts
<1>1. UpStep'
  <2>1. SUFFICES ASSUME server.pc # "closed"
                 PROVE  InStep(UpWire', server.rx, client.tx + 1, client'.pc # "failed")
    BY DEF UpStep
  <2>2. InStep(UpWire, server.rx, client.tx, TRUE)
    BY <2>1, InStepWeaker, Zenon DEF UpInv, UpStep
  <2>3. UpWire' = UpWire \o Frame(data, client.tx)
    <3>1. PICK p \in Seq(Unit) : p = (server.len \o server.body) \o up.units
      BY <1>f, Units, Zenon
    <3>2. UpWire = p \o <<>>
      BY <3>1 DEF UpWire
    <3>3. UpWire' = p \o x
      BY <1>x, <3>1 DEF UpWire
    <3>4. p \o <<>> = p
      BY Units, Zenon
    <3>5. QED
      BY <1>x, <3>2, <3>3, <3>4, Zenon
  <2>4. InStep(UpWire \o Frame(data, client.tx), server.rx, client.tx + 1, TRUE)
    BY <1>f, <2>2, AppendInStep
  <2>5. QED
    BY <2>3, <2>4, InStepWeaker, Zenon
<1>2. UpAccount'
  <2>1. SUFFICES ASSUME server.pc # "closed" \/ ~broken
                 PROVE  UpHeld' \o <<>> = app.sent \o data
    BY Numbers, Zenon DEF UpAccount
  <2>2. UpHeld \o <<>> = app.sent
    BY <2>1, Zenon DEF UpInv, UpAccount
  <2>3. PICK b \in Seq(Unit), h \in Seq(Nat) :
            b = server.body \o up.units /\ h = (target.got \o server.upBuf) \o server.plain
    BY <1>f
  <2>4. UpHeld = h \o Payload(b)
    <3>1. UpHeld = h \o Payload(b \o <<>>)
      BY <2>3 DEF UpHeld
    <3>2. b \o <<>> = b
      BY Units, Zenon
    <3>3. QED
      BY <3>1, <3>2
  <2>5. UpHeld' = h \o Payload(b \o x)
    BY <1>x, <2>3 DEF UpHeld
  <2>6. Payload(b) \in Seq(Nat) /\ Payload(b \o x) = Payload(b) \o data
    BY <1>x, PayloadType, PayloadJoined
  <2>7. PICK q \in Seq(Nat) : q = Payload(b)
    BY <2>6
  <2>8. (h \o q) \o data = h \o (q \o data)
    BY Numbers, ZenonT(30)
  <2>9. UpHeld' = UpHeld \o data
    BY <2>4, <2>5, <2>6, <2>7, <2>8, Zenon
  <2>10. UpHeld \o <<>> = UpHeld
    BY <1>f, Numbers, Zenon
  <2>11. UpHeld \o data \in Seq(Nat)
    BY <1>f, Numbers, Zenon
  <2>12. (UpHeld \o data) \o <<>> = UpHeld \o data
    BY <2>11, Numbers, Zenon
  <2>13. QED
    BY <2>2, <2>9, <2>10, <2>12, Zenon
<1>3. QED
  BY <1>1, <1>2 DEF UpInv

(* The client gives up, and what it had not written is gone.               *)
LEMMA UpCut ==
    ASSUME TypeInv, UpInv, client'.out = <<>>, client'.pc = "failed", broken',
           client'.tx = client.tx, app'.sent = app.sent, up'.units = up.units,
           UNCHANGED <<server, target>>
    PROVE  UpInv'
<1>f. /\ server.len \in Seq(Unit) /\ server.body \in Seq(Unit) /\ up.units \in Seq(Unit)
      /\ client.out \in Seq(Unit)
      /\ app.sent \in Seq(Nat) /\ client.tx \in Nat /\ server.rx \in Nat
      /\ server.body \o up.units \in Seq(Unit)
      /\ (target.got \o server.upBuf) \o server.plain \in Seq(Nat)
  BY UpFields
<1>1. UpStep'
  <2>1. SUFFICES ASSUME server.pc # "closed"
                 PROVE  InStep(UpWire', server.rx, client.tx, FALSE)
    BY DEF UpStep
  <2>2. PICK p \in Seq(Unit) : p = (server.len \o server.body) \o up.units
    BY <1>f, Units, Zenon
  <2>3. UpWire = p \o client.out
    BY <2>2 DEF UpWire
  <2>4. UpWire' = p
    <3>1. UpWire' = p \o <<>>
      BY <2>2 DEF UpWire
    <3>2. QED
      BY <3>1, Units, Zenon
  <2>5. InStep(p \o client.out, server.rx, client.tx, client.pc # "failed")
    BY <2>1, <2>3, Zenon DEF UpInv, UpStep
  <2>6. InStep(p, server.rx, client.tx, FALSE)
    BY <1>f, <2>5, CutInStep
  <2>7. QED
    BY <2>4, <2>6
<1>2. UpAccount'
  <2>1. SUFFICES ASSUME server.pc # "closed"
                 PROVE  \E rest \in Seq(Nat) : UpHeld' \o rest = app.sent
    BY Zenon DEF UpAccount
  <2>2. PICK rest \in Seq(Nat) : UpHeld \o rest = app.sent
    BY <2>1, Zenon DEF UpInv, UpAccount
  <2>3. PICK b \in Seq(Unit), h \in Seq(Nat) :
            b = server.body \o up.units /\ h = (target.got \o server.upBuf) \o server.plain
    BY <1>f
  <2>4. UpHeld' = h \o Payload(b)
    <3>1. UpHeld' = h \o Payload(b \o <<>>)
      BY <2>3 DEF UpHeld
    <3>2. b \o <<>> = b
      BY Units, Zenon
    <3>3. QED
      BY <3>1, <3>2
  <2>5. UpHeld = h \o Payload(b \o client.out)
    BY <2>3 DEF UpHeld
  <2>6. PICK q \in Seq(Nat), r \in Seq(Nat) :
            q = Payload(b) /\ r = Payload(client.out) /\ Payload(b \o client.out) = q \o r
    BY <1>f, PayloadType, PayloadJoined, ZenonT(30)
  <2>7. Shifts(h, q, r, rest)
    BY NumbersShift, Zenon
  <2>8. UpHeld' \o (r \o rest) = app.sent /\ r \o rest \in Seq(Nat)
    BY <2>2, <2>4, <2>5, <2>6, <2>7, Numbers, Zenon DEF Shifts
  <2>9. QED
    BY <2>8, Zenon
<1>3. QED
  BY <1>1, <1>2 DEF UpInv

(* One write call of the client.                                           *)
LEMMA UpWritten ==
    ASSUME TypeInv, UpInv, ClientWrites
    PROVE  UpInv'
<1>f. /\ server.len \in Seq(Unit) /\ server.body \in Seq(Unit) /\ up.units \in Seq(Unit)
      /\ client.out \in Seq(Unit) /\ Len(client.out) \in Nat
  BY UpFields
<1>1. PICK n \in Writable(up, Len(client.out)) :
            /\ up' = Pushed(up, Take(client.out, n))
            /\ client' = [client EXCEPT !.out = Drop(@, n)]
  BY DEF ClientWrites
<1>2. n \in 0..Len(client.out)
  BY <1>f, Moves
<1>3. PICK x \in Seq(Unit), y \in Seq(Unit) :
          x = Take(client.out, n) /\ y = Drop(client.out, n) /\ x \o y = client.out
  <2>1. /\ Take(client.out, n) \in Seq(Unit) /\ Drop(client.out, n) \in Seq(Unit)
        /\ Take(client.out, n) \o Drop(client.out, n) = client.out
    BY <1>f, <1>2, UnitPieces
  <2>2. QED
    BY <2>1, Zenon
<1>4. /\ up'.units = up.units \o x /\ client'.out = y /\ client'.tx = client.tx
      /\ client'.pc = client.pc
  BY <1>1, <1>3 DEF TypeInv, UpOK, Wire, ClientState, Pushed
<1>u. UNCHANGED <<server, target, app, broken>>
  BY DEF ClientWrites
<1>5. UpWire' = UpWire
  <2>1. PICK p \in Seq(Unit) : p = server.len \o server.body
    BY <1>f, Units, Zenon
  <2>2. UpWire = (p \o up.units) \o (x \o y)
    BY <1>3, <2>1 DEF UpWire
  <2>3. UpWire' = (p \o (up.units \o x)) \o y
    BY <1>4, <1>u, <2>1 DEF UpWire
  <2>4. Shifts(p, up.units, x, y)
    BY <1>f, UnitsShift, Zenon
  <2>5. QED
    BY <2>2, <2>3, <2>4, Zenon DEF Shifts
<1>6. UpHeld' = UpHeld
  <2>1. Shifts(server.body, up.units, x, y)
    BY <1>f, UnitsShift, Zenon
  <2>2. (server.body \o up.units \o client.out)' = server.body \o up.units \o client.out
    BY <1>3, <1>4, <1>u, <2>1, Zenon DEF Shifts
  <2>3. QED
    BY <1>u, <2>2 DEF UpHeld
<1>7. QED
  BY <1>4, <1>5, <1>6, <1>u, UpKept

(* The server has read bytes of a length.                                  *)
LEMMA UpLength ==
    ASSUME TypeInv, UpInv, Control, ReadLength
    PROVE  UpInv'
<1>f. /\ server.len \in Seq(Unit) /\ server.body \in Seq(Unit) /\ up.units \in Seq(Unit)
      /\ client.out \in Seq(Unit) /\ client.tx \in Nat /\ server.rx \in Nat
      /\ Len(server.len) \in Nat
  BY UpFields
<1>1. PICK n \in Readable(up, 2 - Len(server.len)) :
           LET header == server.len \o Take(up.units, n)
               size == IF Len(header) = 2 THEN FrameLen(header) ELSE 0
           IN IF Len(header) = 2 /\ size \notin 1..MaxFrame
              THEN ServerFails
              ELSE /\ server' = [server EXCEPT !.len = header, !.size = size]
                   /\ up' = Pulled(up, n)
                   /\ UNCHANGED <<client, down, app, target, broken>>
  BY Zenon DEF ReadLength
<1>2. CASE ServerFails
  <2>1. server'.pc = "closed" /\ broken'
    BY <1>2 DEF ServerFails, TypeInv, ServerOK, ServerState
  <2>2. QED
    BY <2>1, UpClosed
<1>3. ASSUME NEW size,
             server' = [server EXCEPT !.len = server.len \o Take(up.units, n), !.size = size],
             up' = Pulled(up, n), UNCHANGED <<client, down, app, target, broken>>
      PROVE  UpInv'
  <2>1. n \in Nat /\ n \in 0..Len(up.units) /\ n <= 2 - Len(server.len)
    <3>1. 2 - Len(server.len) \in Int
      BY <1>f
    <3>2. QED
      BY <1>f, <3>1, Moves
  <2>2. PICK x \in Seq(Unit), y \in Seq(Unit) :
            x = Take(up.units, n) /\ y = Drop(up.units, n) /\ x \o y = up.units /\ Len(x) = n
    BY <1>f, <2>1, UnitPieces, ZenonT(30)
  <2>3. server.body = <<>>
    <3>1. Len(server.body) = 0
      BY DEF ReadLength, TypeInv, ServerOK
    <3>2. QED
      BY <1>f, <3>1
  <2>4. /\ server'.len = server.len \o x /\ server'.body = <<>> /\ up'.units = y
        /\ server'.rx = server.rx /\ server'.pc = server.pc
        /\ server'.upBuf = server.upBuf /\ server'.plain = server.plain
    BY <1>3, <2>2, <2>3 DEF TypeInv, ServerOK, ServerState, UpOK, Wire, Pulled
  <2>5. server.len \o <<>> = server.len /\ \A s \in Seq(Unit) : s \o <<>> = s /\ <<>> \o s = s
    BY <1>f, Units, Zenon
  <2>6. UpWire' = UpWire
    <3>1. UpWire = (server.len \o (x \o y)) \o client.out
      BY <2>2, <2>3, <2>5 DEF UpWire
    <3>2. PICK h \in Seq(Unit) : h = server.len \o x
      BY <1>f, Units, Zenon
    <3>3. UpWire' = (h \o <<>> \o y) \o client.out
      BY <1>3, <2>4, <3>2 DEF UpWire
    <3>4. UpWire' = (h \o y) \o client.out
      BY <2>5, <3>3
    <3>5. Associates(server.len, x, y)
      BY <1>f, UnitsAssociate, Zenon
    <3>6. QED
      BY <3>1, <3>2, <3>4, <3>5, Zenon DEF Associates
  <2>7. Payload(x) = <<>>
    <3>1. server.pc # "closed"
      BY DEF ReadLength, ServerReading, Polling
    <3>2. PICK h \in Seq(Unit), z \in Seq(Unit) : h = server.len \o x /\ z = y \o client.out
      BY <1>f, Units, Zenon
    <3>3. UpWire' = h \o z
      <4>1. UpWire' = (h \o <<>> \o y) \o client.out
        BY <1>3, <2>4, <3>2 DEF UpWire
      <4>2. UpWire' = (h \o y) \o client.out
        BY <2>5, <4>1
      <4>3. Associates(h, y, client.out)
        BY <1>f, UnitsAssociate, Zenon
      <4>4. QED
        BY <3>2, <4>2, <4>3, Zenon DEF Associates
    <3>4. InStep(h \o z, server.rx, client.tx, client.pc # "failed")
      BY <2>6, <3>1, <3>3, Zenon DEF UpInv, UpStep
    <3>5. Len(h) <= 2
      <4>1. Len(server.len \o x) = Len(server.len) + Len(x)
        BY <1>f, Joined, Zenon
      <4>2. QED
        BY <1>f, <2>1, <2>2, <3>2, <4>1
    <3>6. Payload(h) = <<>>
      BY <1>f, <3>4, <3>5, LengthBytes
    <3>7. Payload(h) = Payload(server.len) \o Payload(x)
      BY <1>f, <3>2, PayloadJoined
    <3>8. Payload(server.len) \in Seq(Nat) /\ Payload(x) \in Seq(Nat)
      BY <1>f, PayloadType
    <3>9. \A s, t \in Seq(Nat) : s \o t = <<>> => t = <<>>
      OBVIOUS
    <3>10. QED
      BY <3>6, <3>7, <3>8, <3>9, Zenon
  <2>8. UpHeld' = UpHeld
    <3>1. PICK z \in Seq(Unit) : z = y \o client.out
      BY <1>f, Units, Zenon
    <3>2. (server.body \o up.units \o client.out)' = z
      <4>1. (server.body \o up.units \o client.out)' = (<<>> \o y) \o client.out
        BY <1>3, <2>4
      <4>2. QED
        BY <2>5, <3>1, <4>1
    <3>3. server.body \o up.units \o client.out = x \o z
      <4>1. server.body \o up.units \o client.out = (<<>> \o (x \o y)) \o client.out
        BY <2>2, <2>3
      <4>2. x \o y \in Seq(Unit)
        BY Units, Zenon
      <4>3. server.body \o up.units \o client.out = (x \o y) \o client.out
        BY <2>5, <4>1, <4>2
      <4>4. Associates(x, y, client.out)
        BY <1>f, UnitsAssociate, Zenon
      <4>5. QED
        BY <3>1, <4>3, <4>4, Zenon DEF Associates
    <3>4. Payload(x \o z) = Payload(z)
      <4>1. Payload(x \o z) = <<>> \o Payload(z)
        BY <2>7, PayloadJoined
      <4>2. Payload(z) \in Seq(Nat)
        BY PayloadType
      <4>3. QED
        BY <4>1, <4>2, Numbers, Zenon
    <3>5. QED
      BY <1>3, <2>4, <3>2, <3>3, <3>4 DEF UpHeld
  <2>9. QED
    BY <1>3, <2>4, <2>6, <2>8, UpKept
<1>4. QED
  BY <1>1, <1>2, <1>3, Zenon

(* The server has read bytes of a frame, or all of it.                     *)
LEMMA UpBody ==
    ASSUME TypeInv, UpInv, ReadBody
    PROVE  UpInv'
<1>f. /\ server.len \in Seq(Unit) /\ server.body \in Seq(Unit) /\ up.units \in Seq(Unit)
      /\ client.out \in Seq(Unit) /\ client.tx \in Nat /\ server.rx \in Nat
  BY UpFields
<1>g. target.got \o server.upBuf \in Seq(Nat)
  BY UpFields
<1>l. Len(server.len) = 2 /\ server.size = FrameLen(server.len) /\ server.size \in Nat
  BY DEF ReadBody, TypeInv, ServerOK, ServerState
<1>c. server.plain = <<>> /\ server.pc # "closed"
  BY DEF ReadBody, ServerReading, Polling
<1>1. PICK n \in Readable(up, server.size - Len(server.body)) :
           LET body == server.body \o Take(up.units, n)
           IN IF Len(body) = server.size /\ ~Opens(body, server.rx)
              THEN ServerFails
              ELSE /\ server' = IF Len(body) = server.size THEN Opened(body)
                                ELSE [server EXCEPT !.body = body]
                   /\ up' = Pulled(up, n)
                   /\ UNCHANGED <<client, down, app, target, broken>>
  BY Zenon DEF ReadBody
<1>2. n \in 0..Len(up.units)
  <2>1. server.size - Len(server.body) \in Int
    BY <1>f, <1>l
  <2>2. QED
    BY <1>f, <2>1, Moves
<1>3. PICK x \in Seq(Unit), y \in Seq(Unit) :
          x = Take(up.units, n) /\ y = Drop(up.units, n) /\ x \o y = up.units
  <2>1. /\ Take(up.units, n) \in Seq(Unit) /\ Drop(up.units, n) \in Seq(Unit)
        /\ Take(up.units, n) \o Drop(up.units, n) = up.units
    BY <1>f, <1>2, UnitPieces
  <2>2. QED
    BY <2>1, Zenon
<1>4. CASE ServerFails
  <2>1. server'.pc = "closed" /\ broken'
    BY <1>4 DEF ServerFails, TypeInv, ServerOK, ServerState
  <2>2. QED
    BY <2>1, UpClosed
<1>5. CASE /\ server' = [server EXCEPT !.body = server.body \o x]
           /\ up' = Pulled(up, n)
           /\ UNCHANGED <<client, down, app, target, broken>>
  <2>1. /\ server'.len = server.len /\ server'.body = server.body \o x /\ up'.units = y
        /\ server'.rx = server.rx /\ server'.pc = server.pc
        /\ server'.upBuf = server.upBuf /\ server'.plain = server.plain
    BY <1>3, <1>5 DEF TypeInv, ServerOK, ServerState, UpOK, Wire, Pulled
  <2>2. UpWire' = UpWire
    <3>1. Shifts(server.len, server.body, x, y)
      BY <1>f, UnitsShift, Zenon
    <3>2. UpWire = ((server.len \o server.body) \o (x \o y)) \o client.out
      BY <1>3 DEF UpWire
    <3>3. UpWire' = ((server.len \o (server.body \o x)) \o y) \o client.out
      BY <1>5, <2>1 DEF UpWire
    <3>4. QED
      BY <3>1, <3>2, <3>3, Zenon DEF Shifts
  <2>3. UpHeld' = UpHeld
    <3>1. Associates(server.body, x, y)
      BY <1>f, UnitsAssociate, Zenon
    <3>2. server.body \o up.units = server.body \o (x \o y)
      BY <1>3
    <3>3. server'.body \o up'.units = (server.body \o x) \o y
      BY <2>1
    <3>4. server'.body \o up'.units = server.body \o up.units
      BY <3>1, <3>2, <3>3, Zenon DEF Associates
    <3>5. QED
      BY <1>5, <2>1, <3>4 DEF UpHeld
  <2>4. QED
    BY <1>5, <2>1, <2>2, <2>3, UpKept
<1>6. CASE /\ Len(server.body \o x) = server.size
           /\ server' = Opened(server.body \o x)
           /\ up' = Pulled(up, n)
           /\ UNCHANGED <<client, down, app, target, broken>>
  <2>b. PICK b \in Seq(Unit) : b = server.body \o x /\ Len(b) = server.size
    BY <1>f, <1>6, Units, Zenon
  <2>a. PICK a \in Seq(Unit) : a = server.len \o b
    BY <1>f, Units, Zenon
  <2>z. PICK z \in Seq(Unit) : z = y \o client.out
    BY <1>f, Units, Zenon
  <2>1. /\ server'.len = <<>> /\ server'.body = <<>> /\ up'.units = y
        /\ server'.rx = server.rx + 1 /\ server'.pc # "closed"
        /\ server'.upBuf = server.upBuf /\ server'.plain = Payload(b)
    BY <1>3, <1>6, <1>c, <2>b DEF TypeInv, ServerOK, ServerState, UpOK, Wire, Pulled, Opened
  <2>2. UpWire = a \o z
    <3>1. Shifts(server.len, server.body, x, y)
      BY <1>f, UnitsShift, Zenon
    <3>2. UpWire = ((server.len \o server.body) \o (x \o y)) \o client.out
      BY <1>3 DEF UpWire
    <3>3. UpWire = (a \o y) \o client.out
      BY <2>a, <2>b, <3>1, <3>2, Zenon DEF Shifts
    <3>4. Associates(a, y, client.out)
      BY <1>f, UnitsAssociate, Zenon
    <3>5. QED
      BY <2>z, <3>3, <3>4, Zenon DEF Associates
  <2>3. Missing(a) = 0
    <3>1. Len(server.len \o b) = Len(server.len) + Len(b)
      BY <1>f, Joined, Zenon
    <3>2. Len(a) = 2 + server.size
      BY <1>l, <2>a, <2>b, <3>1
    <3>3. FrameLen(a) = server.size
      <4>1. Len(server.len) >= 2
        BY <1>l
      <4>2. FrameLen(server.len \o b) = FrameLen(server.len)
        BY <1>f, <4>1, SameFrameLen, Zenon
      <4>3. QED
        BY <1>l, <2>a, <4>2, Zenon
    <3>4. Missing(a) = 2 + FrameLen(a) - Len(a)
      BY <1>l, <3>2 DEF Missing
    <3>5. QED
      BY <1>l, <3>2, <3>3, <3>4
  <2>4. InStep(a \o z, server.rx, client.tx, client.pc # "failed")
    BY <1>c, <2>2, Zenon DEF UpInv, UpStep
  <2>5. PICK d \in Seq(Nat) : /\ Drop(a, 2) = Seal(d, server.rx)
                              /\ InStep(z, server.rx + 1, client.tx, client.pc # "failed")
    BY <1>f, <2>3, <2>4, CompleteFrame, Zenon
  <2>6. Drop(a, 2) = b
    <3>1. Drop(server.len \o b, Len(server.len)) = b
      BY <1>f, CutBetween, Zenon
    <3>2. QED
      BY <1>l, <2>a, <3>1, Zenon
  <2>7. Payload(b) = d
    BY <1>f, <2>5, <2>6, SealFacts
  <2>8. \A s \in Seq(Unit) : <<>> \o s = s
    BY Units, Zenon
  <2>9. UpWire' = z
    <3>1. UpWire' = ((<<>> \o <<>>) \o y) \o client.out
      BY <1>6, <2>1 DEF UpWire
    <3>2. <<>> \o <<>> = <<>>
      OBVIOUS
    <3>3. <<>> \o y = y
      BY <2>8, Zenon
    <3>4. QED
      BY <2>z, <3>1, <3>2, <3>3
  <2>10. UpStep'
    BY <1>6, <2>1, <2>5, <2>9, Zenon DEF UpStep
  <2>11. UpHeld' = UpHeld
    <3>1. (server.body \o up.units \o client.out)' = z
      <4>1. (server.body \o up.units \o client.out)' = (<<>> \o y) \o client.out
        BY <1>6, <2>1
      <4>2. QED
        BY <2>8, <2>z, <4>1
    <3>2. server.body \o up.units \o client.out = b \o z
      <4>1. Shifts(server.body, x, y, client.out)
        BY <1>f, UnitsShift, Zenon
      <4>2. QED
        BY <1>3, <2>b, <2>z, <4>1, Zenon DEF Shifts
    <3>3. PICK q \in Seq(Nat) : q = Payload(z)
      BY PayloadType, Zenon
    <3>4. Payload(b \o z) = d \o q
      BY <2>7, <3>3, PayloadJoined
    <3>5. PICK g \in Seq(Nat) : g = target.got \o server.upBuf
      BY <1>g
    <3>6. UpHeld = (g \o <<>>) \o (d \o q)
      BY <1>c, <3>2, <3>4, <3>5 DEF UpHeld
    <3>7. UpHeld' = (g \o d) \o q
      BY <1>6, <2>1, <2>7, <3>1, <3>3, <3>5 DEF UpHeld
    <3>8. g \o <<>> = g /\ Associates(g, d, q)
      BY Numbers, NumbersAssociate, Zenon
    <3>9. QED
      BY <3>6, <3>7, <3>8, Zenon DEF Associates
  <2>12. UpAccount'
    BY <1>6, <1>c, <2>1, <2>11, Zenon DEF UpInv, UpAccount
  <2>13. QED
    BY <2>10, <2>12 DEF UpInv
<1>7. QED
  BY <1>1, <1>3, <1>4, <1>5, <1>6, Zenon

(* The bytes of a frame move on to the target.                             *)
LEMMA UpDelivered ==
    ASSUME TypeInv, Control, UpInv, ParseGreeting \/ ParseCommand \/ Serves \/ WriteTarget
    PROVE  UpInv'
<1>f. /\ target.got \in Seq(Nat) /\ server.upBuf \in Seq(Nat) /\ server.plain \in Seq(Nat)
  BY UpFields
<1>1. ASSUME server'.pc # "closed", server.pc # "closed",
             UNCHANGED <<client, up, app, broken>>,
             server'.len = server.len, server'.body = server.body, server'.rx = server.rx,
             (target'.got \o server'.upBuf) \o server'.plain
                 = (target.got \o server.upBuf) \o server.plain
      PROVE  UpInv'
  <2>1. UpWire' = UpWire
    BY <1>1 DEF UpWire
  <2>2. UpHeld' = UpHeld
    BY <1>1 DEF UpHeld
  <2>3. QED
    BY <1>1, <2>1, <2>2, UpKept
<1>2. ASSUME NEW n \in 1..Len(server.plain), server.upBuf = <<>>,
             target'.got = target.got \o Take(server.plain, n),
             server'.upBuf = <<>>, server'.plain = Drop(server.plain, n)
      PROVE  (target'.got \o server'.upBuf) \o server'.plain
                 = (target.got \o server.upBuf) \o server.plain
  <2>1. n \in 0..Len(server.plain)
    BY <1>f
  <2>2. PICK x \in Seq(Nat), y \in Seq(Nat) :
            x = Take(server.plain, n) /\ y = Drop(server.plain, n) /\ x \o y = server.plain
    <3>1. /\ Take(server.plain, n) \in Seq(Nat) /\ Drop(server.plain, n) \in Seq(Nat)
          /\ Take(server.plain, n) \o Drop(server.plain, n) = server.plain
      BY <1>f, <2>1, NumberPieces
    <3>2. QED
      BY <3>1, Zenon
  <2>3. PICK g \in Seq(Nat), q \in Seq(Nat) : g = target.got /\ q = g \o x
    BY <1>f, Numbers, Zenon
  <2>4. g \o <<>> = g /\ q \o <<>> = q /\ Associates(g, x, y)
    BY Numbers, NumbersAssociate, Zenon
  <2>5. target'.got \o server'.upBuf = q
    BY <1>2, <2>2, <2>3, <2>4
  <2>6. target.got \o server.upBuf = g
    BY <1>2, <2>3, <2>4
  <2>7. QED
    BY <1>2, <2>2, <2>3, <2>4, <2>5, <2>6, Zenon DEF Associates
<1>3. CASE ParseGreeting
  <2>1. server.upBuf = <<>> /\ server.pc # "closed" /\ server.plain # <<>>
    BY <1>3 DEF ParseGreeting, Control, ServerControl
  <2>2. 1 \in 1..Len(server.plain)
    BY <1>f, <2>1
  <2>3. Tail(server.plain) = Drop(server.plain, 1)
    BY <1>f, <2>1 DEF Drop
  <2>4. /\ server'.pc # "closed" /\ server'.len = server.len /\ server'.body = server.body
        /\ server'.rx = server.rx /\ server'.upBuf = server.upBuf
        /\ server'.plain = Tail(server.plain)
        /\ target'.got = target.got \o Take(server.plain, 1)
    BY <1>3 DEF ParseGreeting, TypeInv, ServerOK, ServerState, EndState
  <2>5. UNCHANGED <<client, up, app, broken>>
    BY <1>3 DEF ParseGreeting
  <2>6. (target'.got \o server'.upBuf) \o server'.plain
            = (target.got \o server.upBuf) \o server.plain
    BY <1>2, <2>1, <2>2, <2>3, <2>4
  <2>7. QED
    BY <1>1, <2>1, <2>4, <2>5, <2>6, Zenon
<1>4. CASE ParseCommand
  <2>1. server.upBuf = <<>> /\ server.pc # "closed"
    BY <1>4 DEF ParseCommand, Control, ServerControl
  <2> DEFINE missing == Len(Greeting) + Len(Request) - Len(target.got)
  <2>2. PICK n \in 1..Lesser(missing, Len(server.plain)) :
              /\ target' = [target EXCEPT !.got = @ \o Take(server.plain, n)]
              /\ server' = [server EXCEPT !.plain = Drop(@, n),
                               !.pc = IF n = missing THEN "connecting" ELSE @]
    BY <1>4, Zenon DEF ParseCommand
  <2>3. n \in 1..Len(server.plain)
    <3>1. Len(target.got) \in Nat /\ Len(server.plain) \in Nat
      BY <1>f
    <3>2. missing \in Int
      BY <3>1, Messages
    <3> HIDE DEF missing
    <3>3. QED
      BY <3>1, <3>2 DEF Lesser
  <2> HIDE DEF missing
  <2>4. /\ server'.pc # "closed" /\ server'.len = server.len /\ server'.body = server.body
        /\ server'.rx = server.rx /\ server'.upBuf = server.upBuf
        /\ server'.plain = Drop(server.plain, n)
        /\ target'.got = target.got \o Take(server.plain, n)
    BY <2>1, <2>2 DEF TypeInv, ServerOK, ServerState, EndState
  <2>5. UNCHANGED <<client, up, app, broken>>
    BY <1>4 DEF ParseCommand
  <2>6. (target'.got \o server'.upBuf) \o server'.plain
            = (target.got \o server.upBuf) \o server.plain
    BY <1>2, <2>1, <2>3, <2>4
  <2>7. QED
    BY <1>1, <2>1, <2>4, <2>5, <2>6, Zenon
<1>5. CASE Serves
  <2>1. server.upBuf = <<>> /\ server.pc # "closed"
    BY <1>5 DEF Serves
  <2>2. PICK n \in 1..Len(server.plain) :
           server' = [server EXCEPT !.upBuf = Take(server.plain, n), !.plain = Drop(@, n)]
    BY <1>5 DEF Serves
  <2>3. n \in 0..Len(server.plain)
    BY <1>f
  <2>4. PICK x \in Seq(Nat), y \in Seq(Nat) :
            x = Take(server.plain, n) /\ y = Drop(server.plain, n) /\ x \o y = server.plain
    <3>1. /\ Take(server.plain, n) \in Seq(Nat) /\ Drop(server.plain, n) \in Seq(Nat)
          /\ Take(server.plain, n) \o Drop(server.plain, n) = server.plain
      BY <1>f, <2>3, NumberPieces
    <3>2. QED
      BY <3>1, Zenon
  <2>5. /\ server'.pc # "closed" /\ server'.len = server.len /\ server'.body = server.body
        /\ server'.rx = server.rx /\ server'.upBuf = x /\ server'.plain = y
    BY <2>1, <2>2, <2>4 DEF TypeInv, ServerOK, ServerState
  <2>6. UNCHANGED <<client, up, app, broken>> /\ target'.got = target.got
    BY <1>5 DEF Serves
  <2>7. target.got \o <<>> = target.got /\ Associates(target.got, x, y)
    BY <1>f, Numbers, NumbersAssociate, Zenon
  <2>8. (target.got \o x) \o y = (target.got \o <<>>) \o server.plain
    BY <2>4, <2>7, Zenon DEF Associates
  <2>9. (target'.got \o server'.upBuf) \o server'.plain
            = (target.got \o server.upBuf) \o server.plain
    BY <2>1, <2>5, <2>6, <2>8
  <2>10. QED
    BY <1>1, <2>1, <2>5, <2>6, <2>9, Zenon
<1>6. CASE WriteTarget
  <2>1. /\ server.pc = "relay" /\ server'.pc = "relay"
        /\ server'.len = server.len /\ server'.body = server.body
        /\ server'.rx = server.rx /\ server'.upBuf = <<>> /\ server'.plain = server.plain
        /\ target'.got = target.got \o server.upBuf
    BY <1>6 DEF WriteTarget, TypeInv, ServerOK, ServerState, EndState
  <2>2. UNCHANGED <<client, up, app, broken>>
    BY <1>6 DEF WriteTarget
  <2>3. PICK g \in Seq(Nat) : g = target.got \o server.upBuf
    BY <1>f, Numbers, Zenon
  <2>4. g \o <<>> = g
    BY Numbers, Zenon
  <2>5. (target'.got \o server'.upBuf) \o server'.plain
            = (target.got \o server.upBuf) \o server.plain
    BY <2>1, <2>3, <2>4
  <2>6. QED
    BY <1>1, <2>1, <2>2, <2>5
<1>7. QED
  BY <1>3, <1>4, <1>5, <1>6

LEMMA UpInit == Init => UpInv
<1> SUFFICES ASSUME Init PROVE UpInv
  OBVIOUS
<1>1. <<>> \o <<>> = <<>>
  OBVIOUS
<1>2. UpWire = <<>>
  BY <1>1 DEF Init, UpWire
<1>3. InStep(<<>>, 0, 0, TRUE)
  BY EmptyInStep
<1>4. client.pc # "failed" /\ server.rx = 0 /\ client.tx = 0
  BY DEF Init
<1>5. UpStep
  BY <1>2, <1>3, <1>4, InStepWeaker, Zenon DEF UpStep
<1>6. UpHeld = <<>> /\ app.sent = <<>>
  BY <1>1, PayloadEmpty DEF Init, UpHeld
<1>7. UpAccount
  <2>1. UpHeld \o <<>> = app.sent
    BY <1>1, <1>6
  <2>2. QED
    BY <2>1, Numbers, Zenon DEF UpAccount
<1>8. QED
  BY <1>5, <1>7 DEF UpInv

LEMMA UpNegotiationFails ==
    ASSUME TypeInv, UpInv, NegotiationFails
    PROVE  UpInv'
<1>1. /\ client'.out = <<>> /\ client'.pc = "failed" /\ client'.tx = client.tx /\ broken'
      /\ app'.sent = app.sent /\ up'.units = up.units
  BY DEF NegotiationFails, ClientBecomes, TypeInv, ClientState, EndState, UpOK, Wire
<1>2. UNCHANGED <<server, target>>
  BY DEF NegotiationFails
<1>3. QED
  BY <1>1, <1>2, UpCut

LEMMA UpDownThread ==
    ASSUME TypeInv, UpInv, DownThreadFails \/ DownThreadStops
    PROVE  UpInv'
<1>1. /\ client'.out = client.out /\ client'.pc = client.pc /\ client'.tx = client.tx
      /\ app'.sent = app.sent /\ up'.units = up.units
  BY DEF DownThreadFails, DownThreadStops, ClientBecomes, TypeInv, ClientState, EndState,
         UpOK, Wire
<1>2. UNCHANGED <<server, target>> /\ (broken => broken')
  BY DEF DownThreadFails, DownThreadStops
<1>3. QED
  BY <1>1, <1>2, UpUntouched

LEMMA UpServerFails == ASSUME TypeInv, ServerFails PROVE UpInv'
<1>1. server'.pc = "closed" /\ broken'
  BY DEF ServerFails, TypeInv, ServerOK, ServerState
<1>2. QED
  BY <1>1, UpClosed

LEMMA UpByClient ==
    ASSUME TypeInv, Control, UpInv,
           ClientUp \/ ReadLocal \/ AppCloses \/ AppFails \/ ClientDown \/ AppReads
    PROVE  UpInv'
<1>f. app.sent \in Seq(Nat) /\ Len(app.sent) \in Nat
  BY UpFields
<1>1. ASSUME NEW data \in Seq(Nat), Len(data) \in 1..MaxPlain,
             NEW pc \in {"method", "open"}, Encrypts(data, pc),
             client.out = <<>>, client.pc # "failed",
             UNCHANGED <<server, up, down, target, broken>>
      PROVE  UpInv'
  <2>1. /\ client'.out = Frame(data, client.tx) /\ client'.tx = client.tx + 1
        /\ client'.pc = pc /\ app'.sent = app.sent \o data
    BY <1>1 DEF Encrypts, TypeInv, ClientState, EndState
  <2>2. client'.pc # "failed" /\ UNCHANGED <<server, up, broken, target>>
    BY <1>1, <2>1
  <2>3. QED
    BY <1>1, <2>1, <2>2, UpSend
<1>2. CASE Greet
  <2>1. client.out = <<>> /\ client.pc # "failed" /\ Encrypts(Greeting, "method")
        /\ UNCHANGED <<server, up, down, target, broken>>
    BY <1>2 DEF Greet, Control, ClientControl
  <2>2. Greeting \in Seq(Nat) /\ Len(Greeting) \in 1..MaxPlain
    BY Messages, Constants
  <2>3. QED
    BY <1>1, <2>1, <2>2
<1>3. CASE ReadLocal
  <2> DEFINE s == Len(app.sent)
             left == Len(Greeting) + Len(Request) + UpLen - s
  <2>1. PICK n \in 1..Lesser(MaxPlain, left) : Encrypts([i \in 1..n |-> s + i], "open")
    BY <1>3, Zenon DEF ReadLocal
  <2>2. s \in Nat /\ n \in Nat /\ n \in 1..MaxPlain
    <3>1. left \in Int
      BY <1>f, Messages, LengthsAssumption
    <3> HIDE DEF left
    <3>2. QED
      BY <1>f, <3>1, Constants DEF Lesser
  <2>3. PICK data \in Seq(Nat) : data = [i \in 1..n |-> s + i] /\ Len(data) = n
    BY <2>2, CountType
  <2>4. client.out = <<>> /\ client.pc # "failed"
        /\ UNCHANGED <<server, up, down, target, broken>>
    BY <1>3 DEF ReadLocal
  <2>5. Len(data) \in 1..MaxPlain /\ Encrypts(data, "open")
    BY <2>1, <2>2, <2>3
  <2>6. QED
    BY <1>1, <2>4, <2>5
<1>4. CASE ClientWrites
  BY <1>4, UpWritten
<1>5. CASE ClientWritesToClosed
  <2>1. CASE broken
    <3>1. server'.pc = "closed" /\ broken'
      BY <1>5, <2>1 DEF ClientWritesToClosed, NegotiationFails
    <3>2. QED
      BY <3>1, UpClosed
  <2>2. CASE ~broken
    <3>1. client.out = <<>>
      BY <1>5, <2>2 DEF ClientWritesToClosed, Control, EndControl, ClientControl
    <3>2. QED
      BY <1>5, <3>1 DEF ClientWritesToClosed
  <2>3. QED
    BY <2>1, <2>2
<1>6. CASE LocalEof \/ LocalReadFails
  <2>1. /\ client'.out = client.out /\ client'.pc = client.pc /\ client'.tx = client.tx
        /\ app'.sent = app.sent /\ up'.units = up.units
    BY <1>6 DEF LocalEof, LocalReadFails, ClientBecomes, TypeInv, ClientState, EndState, UpOK, Wire
  <2>2. UNCHANGED <<server, target, broken>>
    BY <1>6 DEF LocalEof, LocalReadFails
  <2>3. QED
    BY <2>1, <2>2, UpUntouched
<1>7. CASE AppCloses \/ AppFails
  <2>1. app'.sent = app.sent /\ (broken => broken') /\ UNCHANGED <<client, server, up, target>>
    BY <1>7 DEF AppCloses, AppFails, TypeInv, EndState
  <2>2. QED
    BY <2>1, UpUntouched
<1>8. CASE AppReads
  <2>1. /\ client'.out = client.out /\ client'.pc = client.pc /\ client'.tx = client.tx
        /\ app'.sent = app.sent
    BY <1>8 DEF AppReads, TypeInv, ClientState, EndState
  <2>2. UNCHANGED <<server, up, target, broken>>
    BY <1>8 DEF AppReads
  <2>3. QED
    BY <2>1, <2>2, UpUntouched
<1>9. CASE LocalWriteFails
  BY <1>9, UpDownThread DEF LocalWriteFails
<1>10. CASE ClientSeesEnd
  <2>1. DownThreadFails \/ DownThreadStops \/ NegotiationFails
    BY <1>10, Zenon DEF ClientSeesEnd, ClientReadFails
  <2>2. QED
    BY <2>1, UpDownThread, UpNegotiationFails
<1>11. CASE ClientReads
  <2>1. PICK n : \/ /\ client' = [client EXCEPT !.inp = client.inp \o Take(down.units, n)]
                    /\ UNCHANGED <<server, up, app, target, broken>>
                 \/ ClientDecrypts(Drop(client.inp \o Take(down.units, n), 2))
    BY <1>11, ClientReadsCases, Zenon
  <2>r. ClientReading
    BY <1>11 DEF ClientReads
  <2>2. CASE /\ client' = [client EXCEPT !.inp = client.inp \o Take(down.units, n)]
             /\ UNCHANGED <<server, up, app, target, broken>>
    <3>1. client'.out = client.out /\ client'.pc = client.pc /\ client'.tx = client.tx
      BY <2>2 DEF TypeInv, ClientState
    <3>2. QED
      BY <2>2, <3>1, UpUntouched
  <2>3. CASE ClientDecrypts(Drop(client.inp \o Take(down.units, n), 2))
    <3>b. PICK body : body = Drop(client.inp \o Take(down.units, n), 2)
      OBVIOUS
    <3>c. ClientDecrypts(body)
      BY <2>3, <3>b
    <3>1. CASE NegotiationFails \/ DownThreadFails \/ DownThreadStops
      BY <3>1, UpNegotiationFails, UpDownThread
    <3>2. CASE /\ client.pc = "method"
               /\ client' = [client EXCEPT !.inp = <<>>, !.rx = @ + 1, !.pc = "reply",
                               !.tx = @ + 1, !.out = Frame(Request, client.tx)]
               /\ app' = [app EXCEPT !.sent = @ \o Request, !.got = @ \o Payload(body)]
               /\ UNCHANGED <<server, up, target, broken>>
      <4>1. /\ client'.out = Frame(Request, client.tx) /\ client'.tx = client.tx + 1
            /\ client'.pc = "reply" /\ app'.sent = app.sent \o Request
        BY <3>2 DEF TypeInv, ClientState, EndState
      <4>2. client.out = <<>>
        BY <2>r, <3>2 DEF ClientReading
      <4>3. Request \in Seq(Nat) /\ Len(Request) \in 1..MaxPlain
        BY Messages, Constants
      <4>4. client.pc # "failed" /\ client'.pc # "failed" /\ UNCHANGED <<server, up, broken, target>>
        BY <3>2, <4>1
      <4>5. QED
        BY <4>1, <4>2, <4>3, <4>4, UpSend
    <3>3. CASE /\ client.pc = "reply"
               /\ client' = [client EXCEPT !.inp = <<>>, !.rx = @ + 1, !.pc = "open"]
               /\ app' = [app EXCEPT !.got = @ \o Payload(body)]
               /\ UNCHANGED <<server, up, target, broken>>
      <4>1. /\ client'.out = client.out /\ client'.pc = "open" /\ client'.tx = client.tx
            /\ app'.sent = app.sent
        BY <3>3 DEF TypeInv, ClientState, EndState
      <4>2. client'.pc = "failed" <=> client.pc = "failed"
        BY <3>3, <4>1
      <4>3. QED
        BY <3>3, <4>1, <4>2, UpUntouched
    <3>4. CASE /\ client' = [client EXCEPT !.inp = <<>>, !.rx = @ + 1, !.local = Payload(body)]
               /\ UNCHANGED <<server, up, app, target, broken>>
      <4>1. client'.out = client.out /\ client'.pc = client.pc /\ client'.tx = client.tx
        BY <3>4 DEF TypeInv, ClientState
      <4>2. QED
        BY <3>4, <4>1, UpUntouched
    <3>5. QED
      BY <2>r, <3>c, <3>1, <3>2, <3>3, <3>4, ClientDecryptsCases
  <2>4. QED
    BY <2>1, <2>2, <2>3
<1>12. QED
  BY <1>2, <1>3, <1>4, <1>5, <1>6, <1>7, <1>8, <1>9, <1>10, <1>11 DEF ClientUp, ClientDown

LEMMA UpByServer ==
    ASSUME TypeInv, Control, UpInv, CopyUp \/ CopyDown \/ ReadTarget \/ TargetCloses \/ TargetFails
    PROVE  UpInv'
<1>1. CASE ServerFails
  BY <1>1, UpServerFails
<1>2. CASE ReadLength
  BY <1>2, UpLength
<1>3. CASE ReadBody
  BY <1>3, UpBody
<1>4. CASE ParseGreeting \/ ParseCommand \/ Serves \/ WriteTarget
  BY <1>4, UpDelivered
<1>5. ASSUME server'.pc # "closed" => server.pc # "closed", UNCHANGED <<client, app, up, broken>>,
             server'.len = server.len, server'.body = server.body, server'.rx = server.rx,
             server'.upBuf = server.upBuf, server'.plain = server.plain,
             target'.got = target.got
      PROVE  UpInv'
  BY <1>5, UpUntouched
<1>6. CASE ServerSeesEnd \/ Connect \/ EndTarget \/ RelayCloses \/ Answered \/ TargetEof
           \/ PollShutdown \/ TargetCloses
  <2>1. SUFFICES ASSUME ~ServerFails PROVE UpInv'
    BY <1>1
  <2>2. UNCHANGED <<client, app, up, broken>>
    BY <1>6, <2>1 DEF ServerSeesEnd, Connect, EndTarget, RelayCloses, Answered, TargetEof,
                      PollShutdown, TargetCloses
  <2>3. /\ server'.len = server.len /\ server'.body = server.body /\ server'.rx = server.rx
        /\ server'.upBuf = server.upBuf /\ server'.plain = server.plain
        /\ server'.pc # "closed" => server.pc # "closed"
    BY <1>6, <2>1 DEF ServerSeesEnd, Connect, EndTarget, RelayCloses, Answered, TargetEof,
                      PollShutdown, TargetCloses, TypeInv, ServerOK, ServerState
  <2>4. target'.got = target.got
    BY <1>6, <2>1 DEF ServerSeesEnd, Connect, EndTarget, RelayCloses, Answered, TargetEof,
                      PollShutdown, TargetCloses, TypeInv, EndState
  <2>5. QED
    BY <1>5, <2>2, <2>3, <2>4
<1>7. CASE PollWrite \/ FlushPending \/ ReadTarget
  <2>1. SUFFICES ASSUME ~ServerFails PROVE UpInv'
    BY <1>1
  <2>2. UNCHANGED <<client, app, up, broken>>
    BY <1>7, <2>1 DEF PollWrite, FlushPending, ReadTarget
  <2>3. PICK x, y, z : server' = [server EXCEPT !.pend = x, !.downBuf = y, !.tx = z]
    <3>1. CASE PollWrite
      BY <3>1, Zenon DEF PollWrite
    <3>2. CASE FlushPending
      <4>1. PICK x : server' = [server EXCEPT !.pend = x]
        BY <2>1, <3>2 DEF FlushPending
      <4>2. server' = [server EXCEPT !.pend = x, !.downBuf = server.downBuf, !.tx = server.tx]
        BY <4>1 DEF TypeInv, ServerOK, ServerState
      <4>3. QED
        BY <4>2, Zenon
    <3>3. CASE ReadTarget
      <4>1. PICK y : server' = [server EXCEPT !.downBuf = y]
        BY <3>3 DEF ReadTarget
      <4>2. server' = [server EXCEPT !.pend = server.pend, !.downBuf = y, !.tx = server.tx]
        BY <4>1 DEF TypeInv, ServerOK, ServerState
      <4>3. QED
        BY <4>2, Zenon
    <3>4. QED
      BY <1>7, <3>1, <3>2, <3>3
  <2>4. /\ server'.len = server.len /\ server'.body = server.body /\ server'.rx = server.rx
        /\ server'.upBuf = server.upBuf /\ server'.plain = server.plain
        /\ server'.pc = server.pc
    BY <2>3 DEF TypeInv, ServerOK, ServerState
  <2>5. target'.got = target.got
    BY <1>7, <2>1 DEF PollWrite, FlushPending, ReadTarget, TypeInv, EndState
  <2>6. QED
    BY <1>5, <2>2, <2>4, <2>5
<1>8. CASE TargetFails
  BY <1>1, <1>8 DEF TargetFails
<1>9. QED
  BY <1>2, <1>3, <1>4, <1>6, <1>7, <1>8 DEF CopyUp, CopyDown

LEMMA UpNext == TypeInv /\ Control /\ UpInv /\ [Next]_vars => UpInv'
<1> SUFFICES ASSUME TypeInv, Control, UpInv, [Next]_vars PROVE UpInv'
  OBVIOUS
<1>1. CASE UNCHANGED vars
  BY <1>1, UpUntouched DEF vars
<1>2. CASE ClientUp \/ ReadLocal \/ AppCloses \/ AppFails \/ ClientDown \/ AppReads
  BY <1>2, UpByClient
<1>3. CASE CopyUp \/ CopyDown \/ ReadTarget \/ TargetCloses \/ TargetFails
  BY <1>3, UpByServer
<1>4. QED
  BY <1>1, <1>2, <1>3, Zenon DEF Next, Ends, Finished

-------------------------------------------------------------------------------
(* From the target to the application: whatever fails, a client that still *)
(* reads is in step with the server's writer, and what has arrived, what   *)
(* is held and what is on its way is what was sent, less what a server     *)
(* that failed threw away.                                                 *)

DownLive == client.pc # "failed" /\ client.dnT = "running"

DownWire == client.inp \o down.units \o server.pend

DownStep ==
    DownLive => InStep(DownWire, client.rx, server.tx, ~broken \/ server.pc # "closed")

DownHeld == app.got \o client.local \o Payload(DownWire)

DownAccount ==
    DownLive \/ ~broken =>
        \E rest \in Seq(Nat) :
            /\ DownHeld \o rest = target.sent
            /\ ~broken \/ server.pc # "closed" => rest = server.downBuf

DownInv == DownStep /\ DownAccount

LEMMA DownFields ==
    ASSUME TypeInv
    PROVE  /\ client.inp \in Seq(Unit) /\ down.units \in Seq(Unit) /\ server.pend \in Seq(Unit)
           /\ app.got \in Seq(Nat) /\ client.local \in Seq(Nat) /\ server.downBuf \in Seq(Nat)
           /\ target.sent \in Seq(Nat) /\ server.tx \in Nat /\ client.rx \in Nat
           /\ client.inp \o down.units \in Seq(Unit)
           /\ DownWire \in Seq(Unit) /\ Payload(DownWire) \in Seq(Nat)
           /\ app.got \o client.local \in Seq(Nat) /\ DownHeld \in Seq(Nat)
<1>1. /\ client.inp \in Seq(Unit) /\ down.units \in Seq(Unit) /\ server.pend \in Seq(Unit)
      /\ app.got \in Seq(Nat) /\ client.local \in Seq(Nat) /\ server.downBuf \in Seq(Nat)
      /\ target.sent \in Seq(Nat) /\ server.tx \in Nat /\ client.rx \in Nat
  BY ClientFields, ServerFields, WireFields, EndFields DEF TypeInv, ServerOK
<1>2. client.inp \o down.units \in Seq(Unit)
  BY <1>1, Units, Zenon
<1>3. DownWire \in Seq(Unit)
  BY <1>1, <1>2, Units, Zenon DEF DownWire
<1>4. Payload(DownWire) \in Seq(Nat)
  BY <1>3, PayloadType
<1>5. app.got \o client.local \in Seq(Nat)
  BY <1>1, Numbers, Zenon
<1>6. DownHeld \in Seq(Nat)
  BY <1>4, <1>5, Numbers, Zenon DEF DownHeld
<1>7. QED
  BY <1>1, <1>2, <1>3, <1>4, <1>5, <1>6

LEMMA DownKept ==
    ASSUME DownInv, DownLive' => DownLive, server'.pc # "closed" => server.pc # "closed",
           broken => broken', DownWire' = DownWire, client'.rx = client.rx,
           server'.tx = server.tx, DownHeld' = DownHeld, server'.downBuf = server.downBuf,
           target'.sent = target.sent
    PROVE  DownInv'
<1>1. DownStep'
  <2>1. SUFFICES ASSUME DownLive'
                 PROVE  InStep(DownWire, client.rx, server.tx, ~broken' \/ server'.pc # "closed")
    BY Zenon DEF DownStep
  <2>2. InStep(DownWire, client.rx, server.tx, ~broken \/ server.pc # "closed")
    BY <2>1 DEF DownInv, DownStep
  <2>3. QED
    BY <2>2, InStepWeaker, Zenon
<1>2. DownAccount'
  BY Zenon DEF DownInv, DownAccount
<1>3. QED
  BY <1>1, <1>2 DEF DownInv

(* Nothing of this direction has changed.                                  *)
LEMMA DownUntouched ==
    ASSUME DownInv, server'.pc # "closed" => server.pc # "closed", broken => broken',
           client'.pc # "failed" => client.pc # "failed", client'.dnT = client.dnT,
           client'.inp = client.inp, down'.units = down.units, server'.pend = server.pend,
           client'.rx = client.rx, server'.tx = server.tx, app'.got = app.got,
           client'.local = client.local, server'.downBuf = server.downBuf,
           target'.sent = target.sent
    PROVE  DownInv'
<1>1. DownWire' = DownWire
  BY DEF DownWire
<1>2. DownHeld' = DownHeld
  BY <1>1 DEF DownHeld
<1>3. DownLive' => DownLive
  BY DEF DownLive
<1>4. QED
  BY <1>1, <1>2, <1>3, DownKept, Zenon

LEMMA DownDead == ASSUME ~DownLive', broken' PROVE DownInv'
BY DEF DownInv, DownStep, DownAccount

(* A part of the answer, or of what the target sent, reaches the server.   *)
LEMMA DownSent ==
    ASSUME TypeInv, DownInv, NEW data \in Seq(Nat), server.downBuf = <<>>,
           server.pc # "closed", server'.pc # "closed",
           server'.downBuf = data, target'.sent = target.sent \o data,
           server'.pend = server.pend, server'.tx = server.tx,
           UNCHANGED <<client, down, app, broken>>
    PROVE  DownInv'
<1>f. target.sent \in Seq(Nat) /\ DownHeld \in Seq(Nat)
  BY DownFields
<1>1. DownWire' = DownWire
  BY DEF DownWire
<1>2. DownHeld' = DownHeld
  BY <1>1 DEF DownHeld
<1>3. DownStep'
  BY <1>1, InStepWeaker, Zenon DEF DownInv, DownStep, DownLive
<1>4. DownAccount'
  <2>1. SUFFICES ASSUME DownLive \/ ~broken PROVE DownHeld \o data = target.sent \o data
    BY <1>2, Zenon DEF DownAccount, DownLive
  <2>2. DownHeld \o <<>> = target.sent
    BY <2>1, Zenon DEF DownInv, DownAccount
  <2>3. DownHeld \o <<>> = DownHeld
    BY <1>f, Numbers, Zenon
  <2>4. QED
    BY <2>2, <2>3
<1>5. QED
  BY <1>3, <1>4 DEF DownInv

(* The server fails, and what it had not written is gone, with what a      *)
(* reset takes off the stream.                                             *)
LEMMA DownCut ==
    ASSUME TypeInv, DownInv, ServerFails
    PROVE  DownInv'
<1>f. /\ client.inp \in Seq(Unit) /\ down.units \in Seq(Unit) /\ server.pend \in Seq(Unit)
      /\ server.tx \in Nat /\ client.rx \in Nat
      /\ app.got \o client.local \in Seq(Nat)
  BY DownFields
<1>1. PICK x \in Seq(Unit), y \in Seq(Unit) : x \o y = down.units /\ down'.units = x
  <2>1. CASE down' = [down EXCEPT !.end = IF @ = "open" THEN "fin" ELSE @]
    <3>1. down'.units = down.units
      BY <2>1 DEF TypeInv, DownOK, Wire
    <3>2. down.units \o <<>> = down.units /\ <<>> \in Seq(Unit)
      BY <1>f, Units, Zenon
    <3>3. QED
      BY <1>f, <3>1, <3>2, Zenon
  <2>2. ASSUME NEW n \in 0..Len(down.units),
               down' = [units |-> Take(down.units, n), end |-> "reset"]
        PROVE  \E x \in Seq(Unit), y \in Seq(Unit) : x \o y = down.units /\ down'.units = x
    <3>1. /\ Take(down.units, n) \in Seq(Unit) /\ Drop(down.units, n) \in Seq(Unit)
          /\ Take(down.units, n) \o Drop(down.units, n) = down.units
      BY <1>f, UnitPieces
    <3>2. down'.units = Take(down.units, n)
      BY <2>2
    <3>3. QED
      BY <3>1, <3>2, Zenon
  <2>3. QED
    BY <2>1, <2>2 DEF ServerFails
<1>2. /\ server'.pc = "closed" /\ server'.pend = <<>> /\ server'.tx = server.tx
      /\ target'.sent = target.sent /\ broken' /\ UNCHANGED <<client, app>>
  BY DEF ServerFails, TypeInv, ServerOK, ServerState, EndState
<1>3. PICK p \in Seq(Unit), r \in Seq(Unit) : p = client.inp \o x /\ r = y \o server.pend
  BY <1>f, Units, Zenon
<1>4. DownWire = p \o r
  <2>1. Shifts(client.inp, x, y, server.pend)
    BY <1>f, UnitsShift, Zenon
  <2>2. DownWire = (client.inp \o (x \o y)) \o server.pend
    BY <1>1 DEF DownWire
  <2>3. QED
    BY <1>3, <2>1, <2>2, Zenon DEF Shifts
<1>5. DownWire' = p
  <2>1. DownWire' = p \o <<>>
    BY <1>1, <1>2, <1>3 DEF DownWire
  <2>2. QED
    BY <2>1, Units, Zenon
<1>6. DownStep'
  <2>1. SUFFICES ASSUME DownLive PROVE InStep(p, client.rx, server.tx, FALSE)
    BY <1>2, <1>5 DEF DownStep, DownLive
  <2>2. InStep(p \o r, client.rx, server.tx, ~broken \/ server.pc # "closed")
    BY <1>4, <2>1 DEF DownInv, DownStep
  <2>3. QED
    BY <1>f, <2>2, CutInStep
<1>7. DownAccount'
  <2>1. SUFFICES ASSUME DownLive
                 PROVE  \E rest \in Seq(Nat) : DownHeld' \o rest = target.sent
    BY <1>2, Zenon DEF DownAccount, DownLive
  <2>2. PICK rest \in Seq(Nat) : DownHeld \o rest = target.sent
    BY <2>1, Zenon DEF DownInv, DownAccount
  <2>3. PICK h \in Seq(Nat) : h = app.got \o client.local
    BY <1>f
  <2>4. PICK q \in Seq(Nat), t \in Seq(Nat) :
            q = Payload(p) /\ t = Payload(r) /\ Payload(p \o r) = q \o t
    BY PayloadType, PayloadJoined
  <2>5. DownHeld = h \o (q \o t)
    BY <1>4, <2>3, <2>4 DEF DownHeld
  <2>6. DownHeld' = h \o q
    BY <1>2, <1>5, <2>3, <2>4 DEF DownHeld
  <2>7. Shifts(h, q, t, rest)
    BY NumbersShift, Zenon
  <2>8. DownHeld' \o (t \o rest) = target.sent /\ t \o rest \in Seq(Nat)
    BY <2>2, <2>5, <2>6, <2>7, Numbers, Zenon DEF Shifts
  <2>9. QED
    BY <2>8, Zenon
<1>8. QED
  BY <1>6, <1>7 DEF DownInv


(* The server seals bytes of the target, one frame of them.                *)
LEMMA DownSealed ==
    ASSUME TypeInv, DownInv, PollWrite
    PROVE  DownInv'
<1>f. /\ client.inp \in Seq(Unit) /\ down.units \in Seq(Unit) /\ server.tx \in Nat
      /\ client.rx \in Nat /\ server.downBuf \in Seq(Nat)
      /\ client.inp \o down.units \in Seq(Unit)
      /\ app.got \o client.local \in Seq(Nat)
  BY DownFields
<1>c. server.pc # "closed" /\ server.downBuf # <<>> /\ server.pend = <<>>
  BY DEF PollWrite
<1>1. PICK n : /\ n = Lesser(Len(server.downBuf), MaxPlain)
               /\ server' = [server EXCEPT !.pend = Frame(Take(server.downBuf, n), server.tx),
                                           !.downBuf = Drop(@, n), !.tx = @ + 1]
  BY Zenon DEF PollWrite
<1>2. n \in 0..Len(server.downBuf) /\ n \in 1..MaxPlain
  <2>1. Len(server.downBuf) \in Nat /\ Len(server.downBuf) # 0
    BY <1>f, <1>c
  <2>2. QED
    BY <1>1, <2>1, Constants DEF Lesser
<1>3. PICK dt \in Seq(Nat), dr \in Seq(Nat) :
          /\ dt = Take(server.downBuf, n) /\ dr = Drop(server.downBuf, n)
          /\ dt \o dr = server.downBuf /\ Len(dt) \in 1..MaxPlain
  <2>1. /\ Take(server.downBuf, n) \in Seq(Nat) /\ Drop(server.downBuf, n) \in Seq(Nat)
        /\ Take(server.downBuf, n) \o Drop(server.downBuf, n) = server.downBuf
        /\ Len(Take(server.downBuf, n)) = n
    BY <1>f, <1>2, NumberPieces
  <2>2. QED
    BY <1>2, <2>1, Zenon
<1>4. PICK x \in Seq(Unit) : x = Frame(dt, server.tx) /\ Payload(x) = dt
  BY <1>f, FrameFacts
<1>5. /\ server'.pc = server.pc /\ server'.pend = x /\ server'.downBuf = dr
      /\ server'.tx = server.tx + 1
  BY <1>1, <1>3, <1>4 DEF TypeInv, ServerOK, ServerState
<1>u. UNCHANGED <<client, down, app, target, broken>>
  BY DEF PollWrite
<1>6. PICK p \in Seq(Unit) : p = client.inp \o down.units
  BY <1>f
<1>7. DownWire = p
  <2>1. DownWire = p \o <<>>
    BY <1>c, <1>6 DEF DownWire
  <2>2. QED
    BY <2>1, Units, Zenon
<1>8. DownWire' = p \o x
  BY <1>5, <1>6, <1>u DEF DownWire
<1>9. DownStep'
  <2>1. SUFFICES ASSUME DownLive
                 PROVE  InStep(p \o x, client.rx, server.tx + 1, TRUE)
    BY <1>5, <1>8, <1>u, InStepWeaker, Zenon DEF DownStep, DownLive
  <2>2. InStep(p, client.rx, server.tx, TRUE)
    BY <1>c, <1>7, <2>1, InStepWeaker, Zenon DEF DownInv, DownStep
  <2>3. InStep(p \o Frame(dt, server.tx), client.rx, server.tx + 1, TRUE)
    BY <1>f, <1>3, <2>2, AppendInStep
  <2>4. QED
    BY <1>4, <2>3
<1>10. DownAccount'
  <2>1. SUFFICES ASSUME DownLive \/ ~broken
                 PROVE  DownHeld' \o dr = target.sent
    BY <1>5, <1>u, Zenon DEF DownAccount, DownLive
  <2>2. DownHeld \o server.downBuf = target.sent
    BY <1>c, <2>1, Zenon DEF DownInv, DownAccount
  <2>3. PICK h \in Seq(Nat) : h = app.got \o client.local
    BY <1>f
  <2>4. PICK q \in Seq(Nat) : q = Payload(p) /\ Payload(p \o x) = q \o dt
    BY <1>4, PayloadType, PayloadJoined
  <2>5. DownHeld = h \o q
    BY <1>7, <2>3, <2>4 DEF DownHeld
  <2>6. DownHeld' = h \o (q \o dt)
    BY <1>8, <1>u, <2>3, <2>4 DEF DownHeld
  <2>7. Shifts(h, q, dt, dr)
    BY NumbersShift, Zenon
  <2>8. QED
    BY <1>3, <2>2, <2>5, <2>6, <2>7, Zenon DEF Shifts
<1>11. QED
  BY <1>9, <1>10 DEF DownInv

(* One write call of the server.                                           *)
LEMMA DownWritten ==
    ASSUME TypeInv, DownInv, FlushPending
    PROVE  DownInv'
<1>1. CASE ServerFails
  BY <1>1, DownCut
<1>2. ASSUME NEW n \in Writable(down, Len(server.pend)),
             down' = Pushed(down, Take(server.pend, n)),
             server' = [server EXCEPT !.pend = Drop(@, n)],
             UNCHANGED <<client, up, app, target, broken>>
      PROVE  DownInv'
  <2>f. /\ client.inp \in Seq(Unit) /\ down.units \in Seq(Unit) /\ server.pend \in Seq(Unit)
        /\ Len(server.pend) \in Nat
    BY DownFields
  <2>1. n \in 0..Len(server.pend)
    BY <2>f, Moves
  <2>2. PICK x \in Seq(Unit), y \in Seq(Unit) :
            x = Take(server.pend, n) /\ y = Drop(server.pend, n) /\ x \o y = server.pend
    <3>1. /\ Take(server.pend, n) \in Seq(Unit) /\ Drop(server.pend, n) \in Seq(Unit)
          /\ Take(server.pend, n) \o Drop(server.pend, n) = server.pend
      BY <2>f, <2>1, UnitPieces
    <3>2. QED
      BY <3>1, Zenon
  <2>3. /\ down'.units = down.units \o x /\ server'.pend = y /\ server'.tx = server.tx
        /\ server'.pc = server.pc /\ server'.downBuf = server.downBuf
    BY <1>2, <2>2 DEF TypeInv, DownOK, Wire, ServerOK, ServerState, Pushed
  <2>4. DownWire' = DownWire
    <3>1. DownWire = (client.inp \o down.units) \o (x \o y)
      BY <2>2 DEF DownWire
    <3>2. DownWire' = (client.inp \o (down.units \o x)) \o y
      BY <1>2, <2>3 DEF DownWire
    <3>3. Shifts(client.inp, down.units, x, y)
      BY <2>f, UnitsShift, Zenon
    <3>4. QED
      BY <3>1, <3>2, <3>3, Zenon DEF Shifts
  <2>5. DownHeld' = DownHeld
    BY <1>2, <2>4 DEF DownHeld
  <2>6. DownLive' => DownLive
    BY <1>2 DEF DownLive
  <2>7. QED
    BY <1>2, <2>3, <2>4, <2>5, <2>6, DownKept
<1>3. QED
  BY <1>1, <1>2 DEF FlushPending

(* Who reads is live.                                                      *)
LEMMA ReaderLives == ASSUME Control, ClientReading PROVE DownLive /\ client.local = <<>>
BY DEF Control, ClientControl, ClientReading, DownLive

(* The client has read bytes of a frame, or all of it.                     *)
LEMMA DownRead ==
    ASSUME TypeInv, Control, DownInv, ClientReads
    PROVE  DownInv'
<1>f. /\ client.inp \in Seq(Unit) /\ down.units \in Seq(Unit) /\ server.pend \in Seq(Unit)
      /\ server.tx \in Nat /\ client.rx \in Nat /\ app.got \in Seq(Nat)
  BY DownFields
<1>r. ClientReading
  BY DEF ClientReads
<1>l. DownLive /\ client.local = <<>>
  BY <1>r, ReaderLives
<1>1. PICK n \in Readable(down, Missing(client.inp)) :
               /\ down' = Pulled(down, n)
               /\ \/ /\ Missing(client.inp \o Take(down.units, n)) # 0
                     /\ client' = [client EXCEPT !.inp = client.inp \o Take(down.units, n)]
                     /\ UNCHANGED <<server, up, app, target, broken>>
                  \/ /\ Missing(client.inp \o Take(down.units, n)) = 0
                     /\ ClientDecrypts(Drop(client.inp \o Take(down.units, n), 2))
  BY ClientReadsCases, Zenon
<1>2. n \in 0..Len(down.units)
  <2>1. Missing(client.inp) \in Int
    BY <1>f, MissingType
  <2>2. QED
    BY <1>f, <2>1, Moves
<1>3. PICK x \in Seq(Unit), y \in Seq(Unit) :
          x = Take(down.units, n) /\ y = Drop(down.units, n) /\ x \o y = down.units
  <2>1. /\ Take(down.units, n) \in Seq(Unit) /\ Drop(down.units, n) \in Seq(Unit)
        /\ Take(down.units, n) \o Drop(down.units, n) = down.units
    BY <1>f, <1>2, UnitPieces
  <2>2. QED
    BY <2>1, Zenon
<1>4. PICK a \in Seq(Unit), z \in Seq(Unit) : a = client.inp \o x /\ z = y \o server.pend
  BY <1>f, Units, Zenon
<1>5. down'.units = y
  BY <1>1, <1>3 DEF TypeInv, DownOK, Wire, Pulled
<1>6. DownWire = a \o z
  <2>1. Shifts(client.inp, x, y, server.pend)
    BY <1>f, UnitsShift, Zenon
  <2>2. DownWire = (client.inp \o (x \o y)) \o server.pend
    BY <1>3 DEF DownWire
  <2>3. QED
    BY <1>4, <2>1, <2>2, Zenon DEF Shifts
<1>7. CASE /\ client' = [client EXCEPT !.inp = a]
           /\ UNCHANGED <<server, up, app, target, broken>>
  <2>1. /\ client'.inp = a /\ client'.pc = client.pc /\ client'.dnT = client.dnT
        /\ client'.rx = client.rx /\ client'.local = client.local
    BY <1>7 DEF TypeInv, ClientState
  <2>2. DownWire' = (a \o y) \o server.pend
    BY <1>5, <1>7, <2>1 DEF DownWire
  <2>3. Associates(a, y, server.pend)
    BY <1>f, UnitsAssociate, Zenon
  <2>4. DownWire' = DownWire
    BY <1>4, <1>6, <2>2, <2>3, Zenon DEF Associates
  <2>5. DownHeld' = DownHeld
    BY <1>7, <2>1, <2>4 DEF DownHeld
  <2>6. QED
    BY <1>7, <1>l, <2>1, <2>4, <2>5, DownKept
<1>8. CASE Missing(a) = 0 /\ ClientDecrypts(Drop(a, 2))
  <2>w. PICK whole : whole = (~broken \/ server.pc # "closed")
    OBVIOUS
  <2>1. InStep(a \o z, client.rx, server.tx, whole)
    BY <1>6, <1>l, <2>w DEF DownInv, DownStep
  <2>2. PICK d \in Seq(Nat) :
            /\ Len(d) \in 1..MaxPlain
            /\ a = Frame(d, client.rx) /\ Drop(a, 2) = Seal(d, client.rx)
            /\ InStep(z, client.rx + 1, server.tx, whole)
    BY <1>f, <1>8, <2>1, CompleteFrame, Zenon
  <2>3. PICK body : body = Drop(a, 2) /\ Payload(body) = d
    BY <1>f, <2>2, SealFacts
  <2>4. d # <<>>
    BY <2>2
  <2>5. Payload(a) = d
    BY <1>f, <2>2, FrameFacts
  <2>6. ASSUME client'.inp = <<>>, client'.rx = client.rx + 1, client'.dnT = client.dnT,
               client'.pc # "failed", app'.got \o client'.local = app.got \o d,
               UNCHANGED <<server, target, broken>>
        PROVE  DownInv'
    <3>1. DownWire' = z
      <4>1. DownWire' = (<<>> \o y) \o server.pend
        BY <1>5, <2>6 DEF DownWire
      <4>2. <<>> \o y = y
        BY Units, Zenon
      <4>3. QED
        BY <1>4, <4>1, <4>2
    <3>2. DownStep'
      BY <2>2, <2>6, <2>w, <3>1 DEF DownStep
    <3>3. PICK q \in Seq(Nat) : q = Payload(z)
      BY PayloadType
    <3>4. Payload(a \o z) = d \o q
      BY <2>5, <3>3, PayloadJoined
    <3>5. PICK g \in Seq(Nat) : g = app.got
      BY <1>f
    <3>6. DownHeld = (g \o <<>>) \o (d \o q)
      BY <1>6, <1>l, <3>4, <3>5 DEF DownHeld
    <3>7. DownHeld' = (g \o d) \o q
      BY <2>6, <3>1, <3>3, <3>5 DEF DownHeld
    <3>8. g \o <<>> = g /\ Associates(g, d, q)
      BY Numbers, NumbersAssociate, Zenon
    <3>9. DownHeld' = DownHeld
      BY <3>6, <3>7, <3>8, Zenon DEF Associates
    <3>10. DownAccount'
      BY <1>l, <2>6, <3>9, Zenon DEF DownInv, DownAccount
    <3>11. QED
      BY <3>2, <3>10 DEF DownInv
  <2>7. CASE NegotiationFails \/ DownThreadFails
    <3>1. ~DownLive' /\ broken'
      BY <2>7 DEF NegotiationFails, DownThreadFails, ClientBecomes, TypeInv, ClientState, DownLive
    <3>2. QED
      BY <3>1, DownDead
  <2>g. PICK g \in Seq(Nat), q \in Seq(Nat) : g = app.got /\ q = g \o d /\ q \o <<>> = q
    BY <1>f, Numbers, ZenonT(30)
  <2>8. CASE /\ client.pc = "method"
             /\ client' = [client EXCEPT !.inp = <<>>, !.rx = @ + 1, !.pc = "reply",
                               !.tx = @ + 1, !.out = Frame(Request, client.tx)]
             /\ app' = [app EXCEPT !.sent = @ \o Request, !.got = @ \o Payload(body)]
             /\ UNCHANGED <<server, up, target, broken>>
    <3>1. /\ client'.inp = <<>> /\ client'.rx = client.rx + 1 /\ client'.dnT = client.dnT
          /\ client'.pc = "reply" /\ client'.local = <<>> /\ app'.got = app.got \o d
      BY <1>l, <2>3, <2>8 DEF TypeInv, ClientState, EndState
    <3>2. app'.got \o client'.local = app.got \o d
      BY <2>g, <3>1
    <3>3. QED
      BY <2>6, <2>8, <3>1, <3>2
  <2>9. CASE /\ client.pc = "reply"
             /\ client' = [client EXCEPT !.inp = <<>>, !.rx = @ + 1, !.pc = "open"]
             /\ app' = [app EXCEPT !.got = @ \o Payload(body)]
             /\ UNCHANGED <<server, up, target, broken>>
    <3>1. /\ client'.inp = <<>> /\ client'.rx = client.rx + 1 /\ client'.dnT = client.dnT
          /\ client'.pc = "open" /\ client'.local = <<>> /\ app'.got = app.got \o d
      BY <1>l, <2>3, <2>9 DEF TypeInv, ClientState, EndState
    <3>2. app'.got \o client'.local = app.got \o d
      BY <2>g, <3>1
    <3>3. QED
      BY <2>6, <2>9, <3>1, <3>2
  <2>10. CASE /\ client.pc = "open"
              /\ client' = [client EXCEPT !.inp = <<>>, !.rx = @ + 1, !.local = Payload(body)]
              /\ UNCHANGED <<server, up, app, target, broken>>
    <3>1. /\ client'.inp = <<>> /\ client'.rx = client.rx + 1 /\ client'.dnT = client.dnT
          /\ client'.pc = "open" /\ client'.local = d
      BY <2>3, <2>10 DEF TypeInv, ClientState
    <3>2. QED
      BY <2>6, <2>10, <3>1
  <2>11. ClientDecrypts(body)
    BY <1>8, <2>3
  <2>12. QED
    BY <1>r, <2>3, <2>4, <2>7, <2>8, <2>9, <2>10, <2>11, ClientDecryptsCases
<1>9. QED
  BY <1>1, <1>3, <1>4, <1>7, <1>8, Zenon


(* proxy_to_client stops at the end of the stream: with nothing broken,    *)
(* all that was sent has been handed on.                                   *)
LEMMA DownEnds ==
    ASSUME TypeInv, Control, DownInv, ClientReading, DownThreadStops,
           down.units = <<>>, down.end # "open", Len(client.inp) < 2, UNCHANGED down
    PROVE  DownInv'
<1>f. /\ client.inp \in Seq(Unit) /\ server.tx \in Nat /\ client.rx \in Nat
      /\ Len(client.inp) \in Nat
  BY DownFields
<1>l. DownLive /\ client.local = <<>>
  BY ReaderLives
<1>1. /\ client'.dnT = "done" /\ client'.inp = <<>> /\ client'.local = client.local
      /\ app'.got = app.got /\ UNCHANGED <<server, target, broken>>
  BY DEF DownThreadStops, ClientBecomes, TypeInv, ClientState, EndState
<1>2. ~DownLive'
  BY <1>1 DEF DownLive
<1>3. CASE broken
  BY <1>1, <1>2, <1>3, DownDead
<1>4. CASE ~broken
  <2>1. server.pend = <<>>
    BY <1>4 DEF Control, EndControl, ServerControl
  <2>2. DownWire = client.inp \o <<>>
    <3>1. DownWire = (client.inp \o <<>>) \o <<>>
      BY <2>1 DEF DownWire
    <3>2. client.inp \o <<>> = client.inp
      BY <1>f, Units, Zenon
    <3>3. QED
      BY <3>1, <3>2
  <2>3. Payload(client.inp) = <<>>
    <3>1. PICK whole : whole = (~broken \/ server.pc # "closed")
      OBVIOUS
    <3>2. InStep(client.inp \o <<>>, client.rx, server.tx, whole)
      BY <1>l, <2>2, <3>1 DEF DownInv, DownStep
    <3>3. Len(client.inp) <= 2
      BY <1>f
    <3>4. <<>> \in Seq(Unit)
      OBVIOUS
    <3>5. QED
      BY <1>f, <3>2, <3>3, <3>4, LengthBytes, Zenon
  <2>4. Payload(DownWire) = <<>>
    <3>1. client.inp \o <<>> = client.inp
      BY <1>f, Units, Zenon
    <3>2. QED
      BY <2>2, <2>3, <3>1
  <2>5. Payload(DownWire)' = <<>>
    <3>1. DownWire' = (<<>> \o <<>>) \o <<>>
      BY <1>1, <2>1 DEF DownWire
    <3>2. <<>> \o <<>> = <<>>
      OBVIOUS
    <3>3. QED
      BY <3>1, <3>2, PayloadEmpty
  <2>6. DownHeld' = DownHeld
    BY <1>1, <2>4, <2>5 DEF DownHeld
  <2>7. DownAccount'
    BY <1>1, <1>l, <2>6, Zenon DEF DownInv, DownAccount
  <2>8. QED
    BY <1>2, <2>7 DEF DownInv, DownStep
<1>5. QED
  BY <1>3, <1>4

LEMMA DownInit == Init => DownInv
<1> SUFFICES ASSUME Init PROVE DownInv
  OBVIOUS
<1>1. <<>> \o <<>> = <<>>
  OBVIOUS
<1>2. DownWire = <<>>
  BY <1>1 DEF Init, DownWire
<1>3. InStep(<<>>, 0, 0, TRUE)
  BY EmptyInStep
<1>4. client.rx = 0 /\ server.tx = 0 /\ ~broken
  BY DEF Init
<1>5. DownStep
  BY <1>2, <1>3, <1>4, InStepWeaker, Zenon DEF DownStep
<1>6. DownHeld = <<>> /\ target.sent = <<>> /\ server.downBuf = <<>>
  BY <1>1, <1>2, PayloadEmpty DEF Init, DownHeld
<1>7. DownAccount
  <2>1. DownHeld \o <<>> = target.sent
    BY <1>1, <1>6
  <2>2. QED
    BY <1>6, <2>1, Numbers, Zenon DEF DownAccount
<1>8. QED
  BY <1>5, <1>7 DEF DownInv

LEMMA DownReaderFails ==
    ASSUME TypeInv, NegotiationFails \/ DownThreadFails
    PROVE  DownInv'
<1>1. ~DownLive' /\ broken'
  BY DEF NegotiationFails, DownThreadFails, ClientBecomes, TypeInv, ClientState, DownLive
<1>2. QED
  BY <1>1, DownDead

LEMMA DownByClient ==
    ASSUME TypeInv, Control, DownInv,
           ClientUp \/ ReadLocal \/ AppCloses \/ AppFails \/ ClientDown \/ AppReads
    PROVE  DownInv'
<1>1. ASSUME UNCHANGED <<server, down, target>>, broken => broken',
             client'.pc # "failed" => client.pc # "failed", client'.dnT = client.dnT,
             client'.inp = client.inp, client'.rx = client.rx, app'.got = app.got,
             client'.local = client.local
      PROVE  DownInv'
  BY <1>1, DownUntouched
<1>2. ASSUME NEW data, NEW pc \in {"method", "open"}, Encrypts(data, pc), client.pc # "failed",
             UNCHANGED <<server, up, down, target, broken>>
      PROVE  DownInv'
  <2>1. /\ client'.dnT = client.dnT /\ client'.inp = client.inp /\ client'.rx = client.rx
        /\ client'.local = client.local /\ app'.got = app.got
    BY <1>2 DEF Encrypts, TypeInv, ClientState, EndState
  <2>2. QED
    BY <1>1, <1>2, <2>1
<1>3. CASE Greet
  BY <1>2, <1>3 DEF Greet
<1>4. CASE ReadLocal
  <2>1. PICK data : Encrypts(data, "open")
    BY <1>4, Zenon DEF ReadLocal
  <2>2. client.pc # "failed" /\ UNCHANGED <<server, up, down, target, broken>>
    BY <1>4 DEF ReadLocal
  <2>3. QED
    BY <1>2, <2>1, <2>2
<1>5. CASE ClientWrites
  <2>1. PICK x : client' = [client EXCEPT !.out = x]
    BY <1>5 DEF ClientWrites
  <2>2. /\ client'.dnT = client.dnT /\ client'.inp = client.inp /\ client'.rx = client.rx
        /\ client'.local = client.local /\ client'.pc = client.pc
    BY <2>1 DEF TypeInv, ClientState
  <2>3. QED
    BY <1>1, <1>5, <2>2 DEF ClientWrites
<1>6. CASE ClientWritesToClosed
  <2>1. CASE NegotiationFails
    BY <2>1, DownReaderFails
  <2>2. SUFFICES ASSUME ~NegotiationFails PROVE DownInv'
    BY <2>1
  <2>3. /\ client'.dnT = client.dnT /\ client'.inp = client.inp /\ client'.rx = client.rx
        /\ client'.local = client.local /\ client'.pc = client.pc
    BY <1>6, <2>2 DEF ClientWritesToClosed, ClientBecomes, TypeInv, ClientState
  <2>4. app'.got = app.got /\ UNCHANGED <<server, down, target>> /\ (broken => broken')
    BY <1>6, <2>2 DEF ClientWritesToClosed, TypeInv, EndState
  <2>5. QED
    BY <1>1, <2>3, <2>4
<1>7. CASE LocalEof \/ LocalReadFails
  <2>1. /\ client'.dnT = client.dnT /\ client'.inp = client.inp /\ client'.rx = client.rx
        /\ client'.local = client.local /\ client'.pc = client.pc
    BY <1>7 DEF LocalEof, LocalReadFails, ClientBecomes, TypeInv, ClientState
  <2>2. app'.got = app.got /\ UNCHANGED <<server, down, target, broken>>
    BY <1>7 DEF LocalEof, LocalReadFails, TypeInv, EndState
  <2>3. QED
    BY <1>1, <2>1, <2>2
<1>8. CASE AppCloses \/ AppFails
  <2>1. app'.got = app.got /\ UNCHANGED <<client, server, down, target>> /\ (broken => broken')
    BY <1>8 DEF AppCloses, AppFails, TypeInv, EndState
  <2>2. QED
    BY <1>1, <2>1
<1>9. CASE ClientReads
  BY <1>9, DownRead
<1>10. CASE ClientSeesEnd
  <2>1. CASE NegotiationFails \/ DownThreadFails
    BY <2>1, DownReaderFails
  <2>2. SUFFICES ASSUME ~(NegotiationFails \/ DownThreadFails) PROVE DownInv'
    BY <2>1
  <2>3. DownThreadStops /\ down.end = "fin" /\ Len(client.inp) < 2
    BY <1>10, <2>2, Zenon DEF ClientSeesEnd, ClientReadFails
  <2>4. ClientReading /\ down.units = <<>> /\ down.end # "open" /\ UNCHANGED down
    BY <1>10 DEF ClientSeesEnd
  <2>5. QED
    BY <2>3, <2>4, DownEnds
<1>11. CASE LocalWriteFails
  BY <1>11, DownReaderFails DEF LocalWriteFails
<1>12. CASE AppReads
  <2>f. app.got \o client.local \in Seq(Nat)
    BY DownFields
  <2>1. /\ client'.dnT = client.dnT /\ client'.inp = client.inp /\ client'.rx = client.rx
        /\ client'.local = <<>> /\ client'.pc = client.pc
        /\ app'.got = app.got \o client.local
    BY <1>12 DEF AppReads, TypeInv, ClientState, EndState
  <2>2. UNCHANGED <<server, down, target, broken>>
    BY <1>12 DEF AppReads
  <2>3. DownWire' = DownWire
    BY <2>1, <2>2 DEF DownWire
  <2>4. PICK g \in Seq(Nat) : g = app.got \o client.local
    BY <2>f
  <2>5. g \o <<>> = g
    BY Numbers, Zenon
  <2>6. app'.got \o client'.local = app.got \o client.local
    BY <2>1, <2>4, <2>5
  <2>7. DownHeld' = DownHeld
    BY <2>3, <2>6 DEF DownHeld
  <2>8. DownLive' => DownLive
    BY <2>1 DEF DownLive
  <2>9. QED
    BY <2>1, <2>2, <2>3, <2>7, <2>8, DownKept
<1>13. QED
  BY <1>3, <1>4, <1>5, <1>6, <1>7, <1>8, <1>9, <1>10, <1>11, <1>12 DEF ClientUp, ClientDown

LEMMA DownByServer ==
    ASSUME TypeInv, Control, DownInv,
           CopyUp \/ CopyDown \/ ReadTarget \/ TargetCloses \/ TargetFails
    PROVE  DownInv'
<1>1. CASE ServerFails
  BY <1>1, DownCut
<1>2. CASE PollWrite
  BY <1>2, DownSealed
<1>3. CASE FlushPending
  BY <1>3, DownWritten
<1>4. CASE TargetFails
  BY <1>1, <1>4 DEF TargetFails
<1>5. CASE ParseGreeting
  <2>1. server.downBuf = <<>> /\ server.pc # "closed"
    BY <1>5 DEF ParseGreeting, Control, ServerControl
  <2>2. /\ server'.pc # "closed" /\ server'.downBuf = Method /\ server'.pend = server.pend
        /\ server'.tx = server.tx /\ target'.sent = target.sent \o Method
    BY <1>5 DEF ParseGreeting, TypeInv, ServerOK, ServerState, EndState
  <2>3. UNCHANGED <<client, down, app, broken>>
    BY <1>5 DEF ParseGreeting
  <2>4. QED
    BY <2>1, <2>2, <2>3, DownSent, Messages
<1>6. CASE Connect
  <2>1. SUFFICES ASSUME ~ServerFails PROVE DownInv'
    BY <1>1
  <2>2. PICK answer \in {Success, Refusal}, pc \in {"replying", "refusing"} :
              /\ server' = [server EXCEPT !.downBuf = answer, !.pc = pc]
              /\ target' = [target EXCEPT !.sent = @ \o answer]
              /\ UNCHANGED <<client, up, down, app, broken>>
    BY <1>6, <2>1 DEF Connect
  <2>3. server.downBuf = <<>> /\ server.pc # "closed" /\ answer \in Seq(Nat)
    BY <1>6, Messages DEF Connect, Control, ServerControl
  <2>4. /\ server'.pc # "closed" /\ server'.downBuf = answer /\ server'.pend = server.pend
        /\ server'.tx = server.tx /\ target'.sent = target.sent \o answer
    BY <2>2 DEF TypeInv, ServerOK, ServerState, EndState
  <2>5. QED
    BY <2>2, <2>3, <2>4, DownSent
<1>7. CASE ReadTarget
  <2>f. Len(target.sent) \in Nat
    BY DownFields
  <2>1. PICK n \in 1..(Len(Method) + Len(Success) + DownLen - Len(target.sent)) :
            /\ target' = [target EXCEPT !.sent = @ \o [i \in 1..n |-> Len(target.sent) + i]]
            /\ server' = [server EXCEPT !.downBuf = [i \in 1..n |-> Len(target.sent) + i]]
    BY <1>7, Zenon DEF ReadTarget
  <2>2. n \in Nat
    BY <2>f, Messages, LengthsAssumption
  <2>3. PICK data \in Seq(Nat) : data = [i \in 1..n |-> Len(target.sent) + i]
    BY <2>f, <2>2, CountType
  <2>4. /\ server'.pc = server.pc /\ server'.downBuf = data /\ server'.pend = server.pend
        /\ server'.tx = server.tx /\ target'.sent = target.sent \o data
    BY <2>1, <2>3 DEF TypeInv, ServerOK, ServerState, EndState
  <2>5. /\ server.pc # "closed" /\ server.downBuf = <<>>
        /\ UNCHANGED <<client, up, down, app, broken>>
    BY <1>7 DEF ReadTarget
  <2>6. QED
    BY <2>4, <2>5, DownSent
<1>8. ASSUME server'.pc # "closed" => server.pc # "closed", UNCHANGED <<client, app, broken>>,
             down'.units = down.units, server'.pend = server.pend, server'.tx = server.tx,
             server'.downBuf = server.downBuf, target'.sent = target.sent
      PROVE  DownInv'
  BY <1>8, DownUntouched
<1>9. CASE ServerSeesEnd \/ EndTarget \/ RelayCloses \/ Answered \/ TargetEof
           \/ PollShutdown \/ TargetCloses
  <2>1. SUFFICES ASSUME ~ServerFails PROVE DownInv'
    BY <1>1
  <2>2. UNCHANGED <<client, app, broken>> /\ down'.units = down.units
    BY <1>9, <2>1 DEF ServerSeesEnd, EndTarget, RelayCloses, Answered, TargetEof,
                      PollShutdown, TargetCloses, TypeInv, DownOK, Wire
  <2>3. /\ server'.pend = server.pend /\ server'.tx = server.tx
        /\ server'.downBuf = server.downBuf
        /\ server'.pc # "closed" => server.pc # "closed"
    BY <1>9, <2>1 DEF ServerSeesEnd, EndTarget, RelayCloses, Answered, TargetEof,
                      PollShutdown, TargetCloses, TypeInv, ServerOK, ServerState
  <2>4. target'.sent = target.sent
    BY <1>9, <2>1 DEF ServerSeesEnd, EndTarget, RelayCloses, Answered, TargetEof,
                      PollShutdown, TargetCloses, TypeInv, EndState
  <2>5. QED
    BY <1>8, <2>2, <2>3, <2>4
<1>10. CASE ParseCommand \/ Serves \/ WriteTarget
  <2>1. UNCHANGED <<client, app, broken>> /\ down'.units = down.units
    BY <1>10 DEF ParseCommand, Serves, WriteTarget
  <2>2. PICK pc, plain, upBuf :
            server' = [server EXCEPT !.pc = pc, !.plain = plain, !.upBuf = upBuf]
    <3>1. CASE ParseCommand
      <4>1. PICK pc, plain : server' = [server EXCEPT !.plain = plain, !.pc = pc]
        BY <3>1, Zenon DEF ParseCommand
      <4>2. server' = [server EXCEPT !.pc = pc, !.plain = plain, !.upBuf = server.upBuf]
        BY <4>1 DEF TypeInv, ServerOK, ServerState
      <4>3. QED
        BY <4>2, Zenon
    <3>2. CASE Serves
      <4>1. PICK plain, upBuf : server' = [server EXCEPT !.upBuf = upBuf, !.plain = plain]
        BY <3>2, Zenon DEF Serves
      <4>2. server' = [server EXCEPT !.pc = server.pc, !.plain = plain, !.upBuf = upBuf]
        BY <4>1 DEF TypeInv, ServerOK, ServerState
      <4>3. QED
        BY <4>2, Zenon
    <3>3. CASE WriteTarget
      <4>1. server' = [server EXCEPT !.pc = server.pc, !.plain = server.plain, !.upBuf = <<>>]
        BY <3>3 DEF WriteTarget, TypeInv, ServerOK, ServerState
      <4>2. QED
        BY <4>1, Zenon
    <3>4. QED
      BY <1>10, <3>1, <3>2, <3>3
  <2>3. /\ server'.pend = server.pend /\ server'.tx = server.tx
        /\ server'.downBuf = server.downBuf
    BY <2>2 DEF TypeInv, ServerOK, ServerState
  <2>4. server.pc # "closed" /\ target'.sent = target.sent
    BY <1>10 DEF ParseCommand, Serves, WriteTarget, TypeInv, EndState
  <2>5. QED
    BY <1>8, <2>1, <2>3, <2>4
<1>11. CASE ReadLength \/ ReadBody
  <2>1. SUFFICES ASSUME ~ServerFails PROVE DownInv'
    BY <1>1
  <2>2. UNCHANGED <<client, app, broken, target, down>> /\ server.pc # "closed"
    BY <1>11, <2>1 DEF ReadLength, ReadBody, ServerReading, Polling
  <2>3. CASE ReadLength
    <3>1. PICK x, y : server' = [server EXCEPT !.len = x, !.size = y]
      BY <2>1, <2>3, Zenon DEF ReadLength
    <3>2. /\ server'.pend = server.pend /\ server'.tx = server.tx
          /\ server'.downBuf = server.downBuf
      BY <3>1 DEF TypeInv, ServerOK, ServerState
    <3>3. QED
      BY <1>8, <2>2, <3>2
  <2>4. CASE ReadBody
    <3>1. PICK b : server' = Opened(b) \/ server' = [server EXCEPT !.body = b]
      BY <2>1, <2>4, Zenon DEF ReadBody
    <3>2. /\ server'.pend = server.pend /\ server'.tx = server.tx
          /\ server'.downBuf = server.downBuf
      BY <3>1 DEF TypeInv, ServerOK, ServerState, Opened
    <3>3. QED
      BY <1>8, <2>2, <3>2
  <2>5. QED
    BY <1>11, <2>3, <2>4
<1>12. QED
  BY <1>2, <1>3, <1>4, <1>5, <1>6, <1>7, <1>9, <1>10, <1>11 DEF CopyUp, CopyDown

LEMMA DownNext == TypeInv /\ Control /\ DownInv /\ [Next]_vars => DownInv'
<1> SUFFICES ASSUME TypeInv, Control, DownInv, [Next]_vars PROVE DownInv'
  OBVIOUS
<1>1. CASE UNCHANGED vars
  BY <1>1, DownUntouched DEF vars
<1>2. CASE ClientUp \/ ReadLocal \/ AppCloses \/ AppFails \/ ClientDown \/ AppReads
  BY <1>2, DownByClient
<1>3. CASE CopyUp \/ CopyDown \/ ReadTarget \/ TargetCloses \/ TargetFails
  BY <1>3, DownByServer
<1>4. QED
  BY <1>1, <1>2, <1>3, Zenon DEF Next, Ends, Finished

-------------------------------------------------------------------------------
(* The invariant, and what it says of the tunnel.                          *)

TInv == TypeInv /\ Control /\ UpInv /\ DownInv

LEMMA TInvInit == Init => TInv
BY TypeInit, ControlInit, UpInit, DownInit DEF TInv

LEMMA TInvNext == TInv /\ [Next]_vars => TInv'
BY TypeNext, ControlNext, UpNext, DownNext DEF TInv

LEMMA TInvAlways == Spec => []TInv
BY TInvInit, TInvNext, PTL DEF Spec

LEMMA UpFrameOpens ==
    ASSUME TInv, server.size # 0,
           server.size <= Len(server.body \o up.units \o client.out)
    PROVE  Opens(Take(server.body \o up.units \o client.out, server.size), server.rx)
<1>f. /\ server.len \in Seq(Unit) /\ server.body \in Seq(Unit) /\ up.units \in Seq(Unit)
      /\ client.out \in Seq(Unit) /\ client.tx \in Nat /\ server.rx \in Nat
      /\ server.body \o up.units \in Seq(Unit)
  BY UpFields DEF TInv
<1>1. Len(server.len) = 2 /\ server.size = FrameLen(server.len) /\ server.size \in Nat
  <2>1. Len(server.len) \in Nat /\ Len(server.len) <= 2
    BY <1>f DEF TInv, TypeInv, ServerOK
  <2>2. ~(Len(server.len) < 2)
    BY DEF TInv, TypeInv, ServerOK
  <2>3. Len(server.len) = 2
    <3>1. PICK l \in Nat : l = Len(server.len)
      BY <2>1
    <3>2. l <= 2 /\ ~(l < 2) => l = 2
      OBVIOUS
    <3>3. QED
      BY <2>1, <2>2, <3>1, <3>2, Zenon
  <2>4. QED
    BY <2>3 DEF TInv, TypeInv, ServerOK, ServerState
<1>2. server.pc # "closed"
  <2>1. server.len # <<>>
    BY <1>1
  <2>2. QED
    BY <2>1 DEF TInv, Control, ServerControl
<1>3. PICK w \in Seq(Unit), b \in Seq(Unit) : w = b \o client.out /\ b = server.body \o up.units
  BY <1>f, Units, Zenon
<1>4. UpWire = server.len \o w
  <2>1. Associates(server.len, server.body, up.units) /\ Associates(server.len, b, client.out)
    BY <1>f, UnitsAssociate, Zenon
  <2>2. UpWire = (server.len \o b) \o client.out
    BY <1>3, <2>1, Zenon DEF UpWire, Associates
  <2>3. QED
    BY <1>3, <2>1, <2>2, Zenon DEF Associates
<1>5. server.size \in 0..Len(w)
  <2>1. server.size <= Len(w)
    BY <1>3, Zenon
  <2>2. QED
    BY <1>1, <2>1
<1>6. PICK x \in Seq(Unit), z \in Seq(Unit) :
          x = Take(w, server.size) /\ x \o z = w /\ Len(x) = server.size
  <2>1. /\ Take(w, server.size) \in Seq(Unit) /\ Drop(w, server.size) \in Seq(Unit)
        /\ Take(w, server.size) \o Drop(w, server.size) = w
        /\ Len(Take(w, server.size)) = server.size
    BY <1>5, UnitPieces
  <2>2. QED
    BY <2>1, Zenon
<1>7. PICK a \in Seq(Unit) : a = server.len \o x
  BY <1>f, Units, Zenon
<1>8. UpWire = a \o z
  <2>1. Associates(server.len, x, z)
    BY <1>f, UnitsAssociate, Zenon
  <2>2. QED
    BY <1>4, <1>6, <1>7, <2>1, Zenon DEF Associates
<1>9. Missing(a) = 0
  <2>1. Len(server.len \o x) = Len(server.len) + Len(x)
    BY <1>f, Joined, Zenon
  <2>2. Len(a) = 2 + server.size
    BY <1>1, <1>6, <1>7, <2>1
  <2>3. Len(server.len) >= 2
    BY <1>1
  <2>4. FrameLen(server.len \o x) = FrameLen(server.len)
    BY <1>f, <2>3, SameFrameLen, Zenon
  <2>5. FrameLen(a) = server.size
    BY <1>1, <1>7, <2>4, Zenon
  <2>6. Missing(a) = 2 + FrameLen(a) - Len(a)
    BY <1>1, <2>2 DEF Missing
  <2>7. QED
    BY <1>1, <2>2, <2>5, <2>6
<1>10. InStep(a \o z, server.rx, client.tx, client.pc # "failed")
  BY <1>2, <1>8, Zenon DEF TInv, UpInv, UpStep
<1>11. PICK d \in Seq(Nat) : Drop(a, 2) = Seal(d, server.rx)
  <2>1. PICK whole : whole = (client.pc # "failed")
    OBVIOUS
  <2>2. InStep(a \o z, server.rx, client.tx, whole)
    BY <1>10, <2>1
  <2>3. QED
    BY <1>f, <1>9, <2>2, CompleteFrame, Zenon
<1>12. Drop(a, 2) = x
  <2>1. Drop(server.len \o x, Len(server.len)) = x
    BY <1>f, CutBetween, Zenon
  <2>2. QED
    BY <1>1, <1>7, <2>1, Zenon
<1>13. Opens(x, server.rx)
  BY <1>f, <1>11, <1>12, SealFacts
<1>14. QED
  BY <1>3, <1>6, <1>13

LEMMA DownFrameOpens ==
    ASSUME TInv, DownLive, Len(DownWire) >= 2
    PROVE  /\ FrameLen(DownWire) \in 1..MaxFrame
           /\ 2 + FrameLen(DownWire) <= Len(DownWire) =>
                  Opens(SubSeq(DownWire, 3, 2 + FrameLen(DownWire)), client.rx)
<1>f. server.tx \in Nat /\ client.rx \in Nat /\ DownWire \in Seq(Unit)
  BY DownFields DEF TInv
<1>1. PICK w \in Seq(Unit) : w = DownWire /\ Len(w) >= 2
  BY <1>f
<1>b. PICK whole : whole = (~broken \/ server.pc # "closed")
  OBVIOUS
<1>2. InStep(w, client.rx, server.tx, whole)
  BY <1>1, <1>b DEF TInv, DownInv, DownStep
<1>3. w # <<>>
  BY <1>1
<1>4. PICK d \in Seq(Nat) : Len(d) \in 1..MaxPlain /\ Begins(w, 0, d, client.rx)
  BY <1>f, <1>2, <1>3, FirstInStep, Zenon
<1>5. /\ FrameLen(w) = Len(d) + 1
      /\ Len(d) + 3 <= Len(w) => SubSeq(w, 3, Len(d) + 3) = Seal(d, client.rx)
  BY <1>f, <1>1, <1>4, FirstFrame
<1>6. Opens(Seal(d, client.rx), client.rx)
  BY <1>f, SealFacts
<1>7. PICK n \in Nat : n = Len(d) /\ n \in 1..MaxPlain
  BY <1>4
<1>8. FrameLen(w) = n + 1 /\ n + 1 \in 1..MaxFrame /\ 2 + (n + 1) = n + 3
  BY <1>5, <1>7, Constants
<1>9. 2 + FrameLen(w) = Len(d) + 3
  BY <1>7, <1>8
<1>10. QED
  BY <1>1, <1>5, <1>6, <1>8, <1>9

(* FramesOpen, for every instance: poll_read_outer_frame and               *)
(* read_frame_optional are never out of step with the frames written to    *)
(* them, however the socket calls cut them and whatever has failed.        *)
THEOREM ReadersInStep == Spec => []FramesOpen
<1>1. TInv => FramesOpen
  <2> SUFFICES ASSUME TInv PROVE FramesOpen
    OBVIOUS
  <2>1. LET coming == server.body \o up.units \o client.out
        IN server.size # 0 /\ server.size <= Len(coming) =>
               Opens(Take(coming, server.size), server.rx)
    BY UpFrameOpens, Zenon
  <2>2. LET coming == client.inp \o down.units \o server.pend
            size == FrameLen(coming)
        IN client.pc # "failed" /\ client.dnT = "running" /\ Len(coming) >= 2 =>
               /\ size \in 1..MaxFrame
               /\ 2 + size <= Len(coming) =>
                      Opens(SubSeq(coming, 3, 2 + size), client.rx)
    BY DownFrameOpens, Zenon DEF DownLive, DownWire
  <2>3. QED
    BY <2>1, <2>2, Zenon DEF FramesOpen
<1>2. QED
  BY <1>1, TInvAlways, PTL

(* NothingLostInTransit, for every instance: as long as nothing has failed *)
(* neither direction has lost, doubled, reordered or made up a byte.       *)
THEOREM NothingLost == Spec => []NothingLostInTransit
<1>1. TInv => NothingLostInTransit
  <2> SUFFICES ASSUME TInv, ~broken PROVE
          /\ target.got \o server.upBuf \o server.plain
                 \o Payload(server.body \o up.units \o client.out) = app.sent
          /\ app.got \o client.local \o Payload(client.inp \o down.units \o server.pend)
                 \o server.downBuf = target.sent
    BY Zenon DEF NothingLostInTransit
  <2>1. UpHeld = app.sent
    <3>1. client.pc # "failed"
      BY DEF TInv, Control, ClientControl
    <3>2. UpHeld \o <<>> = app.sent
      BY <3>1, Zenon DEF TInv, UpInv, UpAccount
    <3>3. UpHeld \in Seq(Nat)
      BY UpFields DEF TInv
    <3>4. QED
      BY <3>2, <3>3, Numbers, Zenon
  <2>2. DownHeld \o server.downBuf = target.sent
    BY Zenon DEF TInv, DownInv, DownAccount
  <2>3. QED
    BY <2>1, <2>2, Zenon DEF UpHeld, DownHeld, DownWire
<1>2. QED
  BY <1>1, TInvAlways, PTL

-------------------------------------------------------------------------------
(* The tunnel implements a byte stream in each direction.                  *)

LEMMA Begun ==
    ASSUME NEW s \in Seq(Nat), NEW t \in Seq(Nat)
    PROVE  /\ UpStream!IsPrefix(s, s \o t) /\ DownStream!IsPrefix(s, s \o t)
           /\ t # <<>> => /\ UpStream!IsStrictPrefix(s, s \o t)
                          /\ DownStream!IsStrictPrefix(s, s \o t)
<1>1. Len(s) <= Len(s \o t) /\ SubSeq(s, 1, Len(s)) = SubSeq(s \o t, 1, Len(s))
  OBVIOUS
<1>2. t # <<>> => s # s \o t
  <2>1. SUFFICES ASSUME t # <<>> PROVE Len(s) # Len(s \o t)
    OBVIOUS
  <2>2. QED
    BY <2>1
<1>3. QED
  BY <1>1, <1>2 DEF UpStream!IsPrefix, DownStream!IsPrefix,
                    UpStream!IsStrictPrefix, DownStream!IsStrictPrefix

(* What has come out is the beginning of what went in, as long as more can *)
(* come.                                                                   *)
UpPrefix == server.pc # "closed" => UpStream!IsPrefix(target.got, app.sent)

DownPrefix == DownLive => DownStream!IsPrefix(app.got, target.sent)

LEMMA UpBegun == TInv => UpPrefix
<1> SUFFICES ASSUME TInv, server.pc # "closed"
             PROVE  UpStream!IsPrefix(target.got, app.sent)
  BY DEF UpPrefix
<1>1. PICK rest \in Seq(Nat) : UpHeld \o rest = app.sent
  BY Zenon DEF TInv, UpInv, UpAccount
<1>2. /\ target.got \in Seq(Nat) /\ server.upBuf \in Seq(Nat) /\ server.plain \in Seq(Nat)
      /\ server.body \in Seq(Unit) /\ up.units \in Seq(Unit) /\ client.out \in Seq(Unit)
      /\ server.body \o up.units \in Seq(Unit)
  BY UpFields DEF TInv
<1>3. (server.body \o up.units) \o client.out \in Seq(Unit)
  BY <1>2, Units, Zenon
<1>4. PICK g \in Seq(Nat), u \in Seq(Nat), p \in Seq(Nat), q \in Seq(Nat) :
          /\ g = target.got /\ u = server.upBuf /\ p = server.plain
          /\ q = Payload(server.body \o up.units \o client.out)
  BY <1>2, <1>3, PayloadType, Zenon
<1>5. ((g \o u) \o p) \o q \o rest = app.sent
  BY <1>1, <1>4 DEF UpHeld
<1>6. PICK x \in Seq(Nat), y \in Seq(Nat), z \in Seq(Nat) :
          x = u \o p /\ y = x \o q /\ z = y \o rest
  BY Numbers, Zenon
<1>7. Associates(g, u, p) /\ Associates(g, x, q) /\ Associates(g, y, rest)
  BY NumbersAssociate, Zenon
<1>8. g \o z = app.sent
  BY <1>5, <1>6, <1>7, Zenon DEF Associates
<1>9. QED
  BY <1>4, <1>8, Begun

LEMMA DownBegun == TInv => DownPrefix
<1> SUFFICES ASSUME TInv, DownLive
             PROVE  DownStream!IsPrefix(app.got, target.sent)
  BY DEF DownPrefix
<1>1. PICK rest \in Seq(Nat) : DownHeld \o rest = target.sent
  BY Zenon DEF TInv, DownInv, DownAccount
<1>2. /\ app.got \in Seq(Nat) /\ client.local \in Seq(Nat)
      /\ Payload(DownWire) \in Seq(Nat)
  BY DownFields DEF TInv
<1>3. PICK g \in Seq(Nat), u \in Seq(Nat), q \in Seq(Nat) :
          g = app.got /\ u = client.local /\ q = Payload(DownWire)
  BY <1>2, Zenon
<1>4. (g \o u) \o q \o rest = target.sent
  BY <1>1, <1>3 DEF DownHeld
<1>5. PICK x \in Seq(Nat), z \in Seq(Nat) : x = u \o q /\ z = x \o rest
  BY Numbers, Zenon
<1>6. Associates(g, u, q) /\ Associates(g, x, rest)
  BY NumbersAssociate, Zenon
<1>7. g \o z = target.sent
  BY <1>4, <1>5, <1>6, Zenon DEF Associates
<1>8. QED
  BY <1>3, <1>7, Begun

(* The steps of a byte stream, as the tunnel takes them.                   *)
LEMMA UpStutters ==
    ASSUME app'.sent = app.sent, client'.upT = "done" <=> client.upT = "done",
           target'.got = target.got, target'.eof = target.eof, broken' = broken
    PROVE  [UpStream!Next]_(UpStream!streamVars)
BY DEF UpStream!streamVars

LEMMA UpBreaks ==
    ASSUME app'.sent = app.sent, client'.upT = "done" <=> client.upT = "done",
           target'.got = target.got, target.eof => target'.eof, broken'
    PROVE  UpStream!Next
BY DEF UpStream!Next, UpStream!Break

LEMMA UpSends ==
    ASSUME TypeInv, NEW data \in Seq(Nat), data # <<>>, app'.sent = app.sent \o data,
           client.upT # "done", client'.upT = client.upT, UNCHANGED <<target, broken>>
    PROVE  UpStream!Next
<1>1. app.sent \in Seq(Nat)
  BY EndFields DEF TypeInv
<1>2. UpStream!IsStrictPrefix(app.sent, app'.sent)
  BY <1>1, Begun
<1>3. UpStream!Send
  BY <1>2 DEF UpStream!Send
<1>4. QED
  BY <1>3 DEF UpStream!Next

LEMMA UpReceives ==
    ASSUME TypeInv, NEW data \in Seq(Nat), data # <<>>, target'.got = target.got \o data,
           ~target.eof, target'.eof = target.eof,
           UpStream!IsPrefix(target'.got, app.sent), UNCHANGED <<app, client, broken>>
    PROVE  UpStream!Next
<1>1. target.got \in Seq(Nat)
  BY EndFields DEF TypeInv
<1>2. UpStream!IsStrictPrefix(target.got, target'.got)
  BY <1>1, Begun
<1>3. UpStream!Receive
  BY <1>2 DEF UpStream!Receive
<1>4. QED
  BY <1>3 DEF UpStream!Next

LEMMA DownStutters ==
    ASSUME target'.sent = target.sent, server'.dnT = "copying" <=> server.dnT = "copying",
           TypeInv, TypeInv', app'.got = app.got, app'.eof = app.eof, broken' = broken
    PROVE  [DownStream!Next]_(DownStream!streamVars)
BY DEF DownStream!streamVars, TypeInv, ServerOK, ServerState

LEMMA DownBreaks ==
    ASSUME target'.sent = target.sent, server'.dnT = server.dnT,
           app'.got = app.got, app.eof => app'.eof, broken'
    PROVE  DownStream!Next
BY DEF DownStream!Next, DownStream!Break

LEMMA DownSends ==
    ASSUME TypeInv, NEW data \in Seq(Nat), data # <<>>, target'.sent = target.sent \o data,
           server.dnT = "copying", server'.dnT = server.dnT, UNCHANGED <<app, broken>>
    PROVE  DownStream!Next
<1>1. target.sent \in Seq(Nat)
  BY EndFields DEF TypeInv
<1>2. DownStream!IsStrictPrefix(target.sent, target'.sent)
  BY <1>1, Begun
<1>3. DownStream!Send
  BY <1>2 DEF DownStream!Send
<1>4. QED
  BY <1>3 DEF DownStream!Next

LEMMA DownReceives ==
    ASSUME TypeInv, NEW data \in Seq(Nat), data # <<>>, app'.got = app.got \o data,
           ~app.eof, app'.eof = app.eof,
           DownStream!IsPrefix(app'.got, target.sent), UNCHANGED <<server, target, broken>>
    PROVE  DownStream!Next
<1>1. app.got \in Seq(Nat)
  BY EndFields DEF TypeInv
<1>2. DownStream!IsStrictPrefix(app.got, app'.got)
  BY <1>1, Begun
<1>3. DownStream!Receive
  BY <1>2 DEF DownStream!Receive
<1>4. QED
  BY <1>3 DEF DownStream!Next


(* The end is shown to the target when it has everything, or when a part   *)
(* has failed.                                                             *)
LEMMA UpEnds ==
    ASSUME TInv, EndTarget
    PROVE  UpStream!Next
<1>f. /\ target.got \in Seq(Nat) /\ server.body \in Seq(Unit)
  BY UpFields DEF TInv
<1>1. /\ target'.eof = TRUE /\ target'.got = target.got
      /\ UNCHANGED <<client, app, broken>>
  BY DEF EndTarget, TInv, TypeInv, EndState
<1>2. CASE broken
  BY <1>1, <1>2, UpBreaks
<1>3. CASE ~broken
  <2>1. client.upT = "done" /\ up.units = <<>>
    BY <1>3 DEF EndTarget, TInv, Control, EndControl
  <2>2. client.out = <<>> /\ client.pc # "failed"
    BY <1>3, <2>1 DEF TInv, Control, ClientControl
  <2>3. server.upBuf = <<>> /\ server.plain = <<>> /\ server.len = <<>>
    BY DEF EndTarget, TInv, Control, ServerControl
  <2>4. server.body = <<>>
    <3>1. Len(server.len) < 2
      BY <2>3
    <3>2. Len(server.body) = 0
      BY <3>1 DEF TInv, TypeInv, ServerOK
    <3>3. QED
      BY <1>f, <3>2
  <2>5. \A s \in Seq(Nat) : s \o <<>> = s
    BY Numbers, Zenon
  <2>6. UpHeld = target.got
    <3>1. <<>> \o <<>> = <<>>
      OBVIOUS
    <3>2. server.body \o up.units \o client.out = <<>>
      BY <2>1, <2>2, <2>4, <3>1
    <3>3. PICK g \in Seq(Nat) : g = target.got /\ g \o <<>> = g
      BY <1>f, <2>5, Zenon
    <3>4. UpHeld = ((g \o <<>>) \o <<>>) \o <<>>
      BY <2>3, <3>2, <3>3, PayloadEmpty DEF UpHeld
    <3>5. QED
      BY <3>3, <3>4
  <2>7. UpHeld \o <<>> = app.sent
    BY <1>3, <2>2, Zenon DEF TInv, UpInv, UpAccount
  <2>8. target.got = app.sent
    BY <1>f, <2>5, <2>6, <2>7, Zenon
  <2>9. ~target.eof
    BY DEF EndTarget, TInv, Control, ServerControl
  <2>10. UpStream!End
    BY <1>1, <2>1, <2>8, <2>9 DEF UpStream!End
  <2>11. QED
    BY <2>10 DEF UpStream!Next
<1>4. QED
  BY <1>2, <1>3

LEMMA UpStreamClient ==
    ASSUME TInv, ClientUp \/ ReadLocal \/ AppCloses \/ AppFails \/ ClientDown \/ AppReads
    PROVE  [UpStream!Next]_(UpStream!streamVars)
<1>t. TypeInv /\ Control
  BY DEF TInv
<1>f. app.sent \in Seq(Nat) /\ Len(app.sent) \in Nat
  BY UpFields DEF TInv
<1>1. ASSUME NEW data \in Seq(Nat), data # <<>>, NEW pc, Encrypts(data, pc),
             client.upT = "running", UNCHANGED <<target, broken>>
      PROVE  UpStream!Next
  <2>1. client'.upT = client.upT /\ app'.sent = app.sent \o data
    BY <1>1, <1>t DEF Encrypts, TypeInv, ClientState, EndState
  <2>2. QED
    BY <1>1, <1>t, <2>1, UpSends
<1>2. CASE Greet
  <2>1. client.upT = "running" /\ Encrypts(Greeting, "method") /\ UNCHANGED <<target, broken>>
    BY <1>2, <1>t DEF Greet, Control, ClientControl
  <2>2. Greeting \in Seq(Nat) /\ Greeting # <<>>
    BY Messages, SMTT(30)
  <2>3. QED
    BY <1>1, <2>1, <2>2
<1>3. CASE ReadLocal
  <2> DEFINE s == Len(app.sent)
             left == Len(Greeting) + Len(Request) + UpLen - s
  <2>1. PICK n \in 1..Lesser(MaxPlain, left) : Encrypts([i \in 1..n |-> s + i], "open")
    BY <1>3, Zenon DEF ReadLocal
  <2>2. s \in Nat /\ n \in Nat /\ n # 0
    <3>1. left \in Int
      BY <1>f, Messages, LengthsAssumption
    <3> HIDE DEF left
    <3>2. QED
      BY <1>f, <3>1, Constants DEF Lesser
  <2>3. PICK data \in Seq(Nat) : data = [i \in 1..n |-> s + i] /\ Len(data) = n
    BY <2>2, CountType
  <2>4. client.upT = "running" /\ UNCHANGED <<target, broken>>
    BY <1>3 DEF ReadLocal
  <2>5. data # <<>> /\ Encrypts(data, "open")
    BY <2>1, <2>2, <2>3
  <2>6. QED
    BY <1>1, <2>4, <2>5
<1>4. CASE NegotiationFails \/ DownThreadFails
  <2>1. client'.upT = client.upT /\ app'.sent = app.sent /\ broken' /\ UNCHANGED target
    BY <1>4, <1>t DEF NegotiationFails, DownThreadFails, ClientBecomes, TypeInv, ClientState,
                      EndState
  <2>2. QED
    BY <2>1, UpBreaks
<1>5. CASE DownThreadStops
  <2>1. client'.upT = client.upT /\ app'.sent = app.sent /\ UNCHANGED <<target, broken>>
    BY <1>5, <1>t DEF DownThreadStops, ClientBecomes, TypeInv, ClientState, EndState
  <2>2. QED
    BY <2>1, UpStutters
<1>6. CASE ClientWrites
  <2>1. PICK x : client' = [client EXCEPT !.out = x]
    BY <1>6 DEF ClientWrites
  <2>2. client'.upT = client.upT
    BY <1>t, <2>1 DEF TypeInv, ClientState
  <2>3. QED
    BY <1>6, <2>2, UpStutters DEF ClientWrites
<1>7. CASE ClientWritesToClosed
  <2>1. client.upT = "running"
    BY <1>7, <1>t DEF ClientWritesToClosed, Control, ClientControl, TypeInv, ClientState
  <2>2. CASE /\ client' = [client EXCEPT !.out = <<>>]
             /\ UNCHANGED <<server, up, down, app, target, broken>>
    <3>1. client'.upT = client.upT
      BY <1>t, <2>2 DEF TypeInv, ClientState
    <3>2. QED
      BY <2>2, <3>1, UpStutters
  <2>3. CASE /\ ClientBecomes([client EXCEPT !.upT = "failed", !.out = <<>>])
             /\ app' = [app EXCEPT !.eof = @ \/ Gone(client')]
             /\ broken' = TRUE
             /\ UNCHANGED <<server, down, target>>
    <3>1. client'.upT = "failed" /\ app'.sent = app.sent
      BY <1>t, <2>3 DEF ClientBecomes, TypeInv, ClientState, EndState
    <3>2. QED
      BY <2>1, <2>3, <3>1, UpBreaks
  <2>4. QED
    BY <1>4, <1>7, <2>2, <2>3 DEF ClientWritesToClosed
<1>8. CASE LocalEof
  <2>1. /\ client.upT = "running" /\ client'.upT = "done" /\ app'.sent = app.sent
        /\ UNCHANGED <<target, broken>>
    BY <1>8, <1>t DEF LocalEof, TypeInv, ClientState, EndState
  <2>2. UpStream!Close
    BY <2>1 DEF UpStream!Close
  <2>3. QED
    BY <2>2 DEF UpStream!Next
<1>9. CASE LocalReadFails
  <2>1. /\ client.upT = "running" /\ client'.upT = "failed" /\ UNCHANGED <<app, target, broken>>
    BY <1>9, <1>t DEF LocalReadFails, ClientBecomes, TypeInv, ClientState
  <2>2. QED
    BY <2>1, UpStutters
<1>10. CASE AppCloses
  <2>1. app'.sent = app.sent /\ UNCHANGED <<client, target, broken>>
    BY <1>10, <1>t DEF AppCloses, TypeInv, EndState
  <2>2. QED
    BY <2>1, UpStutters
<1>11. CASE AppFails
  <2>1. app'.sent = app.sent /\ broken' /\ UNCHANGED <<client, target>>
    BY <1>11, <1>t DEF AppFails, TypeInv, EndState
  <2>2. QED
    BY <2>1, UpBreaks
<1>12. CASE AppReads
  <2>1. app'.sent = app.sent /\ client'.upT = client.upT /\ UNCHANGED <<target, broken>>
    BY <1>12, <1>t DEF AppReads, TypeInv, EndState, ClientState
  <2>2. QED
    BY <2>1, UpStutters
<1>13. CASE ClientSeesEnd \/ LocalWriteFails
  <2>1. DownThreadFails \/ DownThreadStops \/ NegotiationFails
    BY <1>13, Zenon DEF ClientSeesEnd, ClientReadFails, LocalWriteFails
  <2>2. QED
    BY <1>4, <1>5, <2>1
<1>14. CASE ClientReads
  <2>1. PICK n : \/ /\ client' = [client EXCEPT !.inp = client.inp \o Take(down.units, n)]
                    /\ UNCHANGED <<server, up, app, target, broken>>
                 \/ ClientDecrypts(Drop(client.inp \o Take(down.units, n), 2))
    BY <1>14, <1>t, ClientReadsCases, Zenon
  <2>r. ClientReading
    BY <1>14 DEF ClientReads
  <2>2. CASE /\ client' = [client EXCEPT !.inp = client.inp \o Take(down.units, n)]
             /\ UNCHANGED <<server, up, app, target, broken>>
    <3>1. client'.upT = client.upT
      BY <1>t, <2>2 DEF TypeInv, ClientState
    <3>2. QED
      BY <2>2, <3>1, UpStutters
  <2>3. CASE ClientDecrypts(Drop(client.inp \o Take(down.units, n), 2))
    <3>b. PICK body : body = Drop(client.inp \o Take(down.units, n), 2)
      OBVIOUS
    <3>c. ClientDecrypts(body)
      BY <2>3, <3>b
    <3>1. CASE /\ client.pc = "method"
               /\ client' = [client EXCEPT !.inp = <<>>, !.rx = @ + 1, !.pc = "reply",
                               !.tx = @ + 1, !.out = Frame(Request, client.tx)]
               /\ app' = [app EXCEPT !.sent = @ \o Request, !.got = @ \o Payload(body)]
               /\ UNCHANGED <<server, up, target, broken>>
      <4>1. client.upT = "running"
        BY <1>t, <3>1 DEF Control, ClientControl
      <4>2. client'.upT = client.upT /\ app'.sent = app.sent \o Request
        BY <1>t, <3>1 DEF TypeInv, ClientState, EndState
      <4>3. Request \in Seq(Nat) /\ Request # <<>>
        BY DEF Request
      <4>4. QED
        BY <1>t, <3>1, <4>1, <4>2, <4>3, UpSends
    <3>2. CASE /\ client.pc = "reply"
               /\ client' = [client EXCEPT !.inp = <<>>, !.rx = @ + 1, !.pc = "open"]
               /\ app' = [app EXCEPT !.got = @ \o Payload(body)]
               /\ UNCHANGED <<server, up, target, broken>>
      <4>1. client'.upT = client.upT /\ app'.sent = app.sent
        BY <1>t, <3>2 DEF TypeInv, ClientState, EndState
      <4>2. QED
        BY <3>2, <4>1, UpStutters
    <3>3. CASE /\ client' = [client EXCEPT !.inp = <<>>, !.rx = @ + 1, !.local = Payload(body)]
               /\ UNCHANGED <<server, up, app, target, broken>>
      <4>1. client'.upT = client.upT
        BY <1>t, <3>3 DEF TypeInv, ClientState
      <4>2. QED
        BY <3>3, <4>1, UpStutters
    <3>4. QED
      BY <1>4, <1>5, <1>t, <2>r, <3>c, <3>1, <3>2, <3>3, ClientDecryptsCases
  <2>4. QED
    BY <2>1, <2>2, <2>3
<1>15. QED
  BY <1>2, <1>3, <1>6, <1>7, <1>8, <1>9, <1>10, <1>11, <1>12, <1>13, <1>14
     DEF ClientUp, ClientDown

LEMMA UpStreamServer ==
    ASSUME TInv, UpPrefix', CopyUp \/ CopyDown \/ ReadTarget \/ TargetCloses \/ TargetFails
    PROVE  [UpStream!Next]_(UpStream!streamVars)
<1>t. TypeInv /\ Control
  BY DEF TInv
<1>f. server.plain \in Seq(Nat) /\ server.upBuf \in Seq(Nat) /\ Len(target.got) \in Nat
      /\ Len(server.plain) \in Nat
  BY UpFields DEF TInv
<1>1. CASE ServerFails
  <2>1. target'.got = target.got /\ target'.eof = TRUE /\ broken' /\ UNCHANGED <<client, app>>
    BY <1>1, <1>t DEF ServerFails, TypeInv, EndState
  <2>2. QED
    BY <2>1, UpBreaks
<1>2. CASE EndTarget
  BY <1>2, UpEnds
<1>3. ASSUME NEW data \in Seq(Nat), data # <<>>, target'.got = target.got \o data,
             target'.eof = target.eof, ~target.eof, server'.pc # "closed",
             UNCHANGED <<app, client, broken>>
      PROVE  UpStream!Next
  <2>1. UpStream!IsPrefix(target'.got, app'.sent)
    BY <1>3 DEF UpPrefix
  <2>2. UpStream!IsPrefix(target'.got, app.sent)
    BY <1>3, <2>1
  <2>3. QED
    BY <1>3, <1>t, <2>2, UpReceives
<1>4. ASSUME NEW n \in 1..Len(server.plain)
      PROVE  Take(server.plain, n) \in Seq(Nat) /\ Take(server.plain, n) # <<>>
  <2>1. n \in 0..Len(server.plain) /\ n # 0
    BY <1>f
  <2>2. Take(server.plain, n) \in Seq(Nat) /\ Len(Take(server.plain, n)) = n
    BY <1>f, <2>1, NumberPieces
  <2>3. QED
    BY <2>1, <2>2
<1>5. CASE ParseGreeting
  <2>1. 1 \in 1..Len(server.plain)
    BY <1>f, <1>5 DEF ParseGreeting
  <2>2. /\ target'.got = target.got \o Take(server.plain, 1) /\ target'.eof = target.eof
        /\ server'.pc # "closed" /\ UNCHANGED <<app, client, broken>>
    BY <1>5, <1>t DEF ParseGreeting, TypeInv, ServerOK, ServerState, EndState
  <2>3. ~target.eof
    BY <1>5, <1>t DEF ParseGreeting, Control, ServerControl
  <2>4. QED
    BY <1>3, <1>4, <2>1, <2>2, <2>3
<1>6. CASE ParseCommand
  <2> DEFINE missing == Len(Greeting) + Len(Request) - Len(target.got)
  <2>1. PICK n \in 1..Lesser(missing, Len(server.plain)) :
              /\ target' = [target EXCEPT !.got = @ \o Take(server.plain, n)]
              /\ server' = [server EXCEPT !.plain = Drop(@, n),
                               !.pc = IF n = missing THEN "connecting" ELSE @]
    BY <1>6, Zenon DEF ParseCommand
  <2>2. n \in 1..Len(server.plain)
    <3>1. missing \in Int
      BY <1>f, Messages
    <3> HIDE DEF missing
    <3>2. QED
      BY <1>f, <3>1 DEF Lesser
  <2> HIDE DEF missing
  <2>3. server.pc = "command" /\ UNCHANGED <<app, client, broken>>
    BY <1>6 DEF ParseCommand
  <2>4. /\ target'.got = target.got \o Take(server.plain, n) /\ target'.eof = target.eof
        /\ server'.pc # "closed"
    BY <1>t, <2>1, <2>3 DEF TypeInv, ServerOK, ServerState, EndState
  <2>5. ~target.eof
    BY <1>t, <2>3 DEF Control, ServerControl
  <2>6. QED
    BY <1>3, <1>4, <2>2, <2>3, <2>4, <2>5
<1>7. CASE WriteTarget
  <2>1. /\ target'.got = target.got \o server.upBuf /\ target'.eof = target.eof
        /\ server'.pc # "closed" /\ UNCHANGED <<app, client, broken>>
        /\ server.upBuf # <<>>
    BY <1>7, <1>t DEF WriteTarget, TypeInv, ServerOK, ServerState, EndState
  <2>2. ~target.eof
    BY <1>7, <1>t DEF WriteTarget, Control, ServerControl
  <2>3. QED
    BY <1>3, <1>f, <2>1, <2>2
<1>8. ASSUME target'.got = target.got, target'.eof = target.eof,
             UNCHANGED <<app, client, broken>>
      PROVE  [UpStream!Next]_(UpStream!streamVars)
  BY <1>8, UpStutters
<1>9. CASE ReadLength \/ ReadBody
  <2>1. ServerFails \/ UNCHANGED <<client, app, target, broken>>
    BY <1>9, Zenon DEF ReadLength, ReadBody
  <2>2. QED
    BY <1>1, <1>8, <2>1
<1>10. CASE ServerSeesEnd \/ Connect \/ RelayCloses \/ Answered \/ TargetEof \/ PollWrite
            \/ FlushPending \/ PollShutdown \/ Serves
  <2>1. \/ ServerFails
        \/ target'.got = target.got /\ target'.eof = target.eof /\ UNCHANGED <<client, app, broken>>
    BY <1>10, <1>t DEF ServerSeesEnd, Connect, RelayCloses, Answered, TargetEof, PollWrite,
                       FlushPending, PollShutdown, Serves, TypeInv, EndState
  <2>2. QED
    BY <1>1, <1>8, <2>1
<1>11. CASE ReadTarget \/ TargetCloses
  <2>1. target'.got = target.got /\ target'.eof = target.eof /\ UNCHANGED <<client, app, broken>>
    BY <1>11, <1>t DEF ReadTarget, TargetCloses, TypeInv, EndState
  <2>2. QED
    BY <1>8, <2>1
<1>12. CASE TargetFails
  BY <1>1, <1>12 DEF TargetFails
<1>13. QED
  BY <1>2, <1>5, <1>6, <1>7, <1>9, <1>10, <1>11, <1>12 DEF CopyUp, CopyDown

LEMMA UpStreamStep ==
    TInv /\ UpPrefix' /\ [Next]_vars => [UpStream!Next]_(UpStream!streamVars)
<1> SUFFICES ASSUME TInv, UpPrefix', [Next]_vars
             PROVE  [UpStream!Next]_(UpStream!streamVars)
  OBVIOUS
<1>1. CASE UNCHANGED vars
  BY <1>1, UpStutters DEF vars
<1>2. CASE ClientUp \/ ReadLocal \/ AppCloses \/ AppFails \/ ClientDown \/ AppReads
  BY <1>2, UpStreamClient
<1>3. CASE CopyUp \/ CopyDown \/ ReadTarget \/ TargetCloses \/ TargetFails
  BY <1>3, UpStreamServer
<1>4. QED
  BY <1>1, <1>2, <1>3, Zenon DEF Next, Ends, Finished

(* UpIsAByteStream, for every instance: what the application sends reaches *)
(* the target as a byte stream, and its end only after the last byte       *)
(* unless a part has failed.                                               *)
THEOREM UploadIsAByteStream == Spec => UpIsAByteStream
<1>1. Init => UpStream!Init
  BY DEF Init, UpStream!Init
<1>2. QED
  BY <1>1, TInvAlways, UpBegun, UpStreamStep, PTL DEF Spec, UpIsAByteStream, UpStream!Spec


(* A frame the client opens holds at least a byte: what proxy_to_client    *)
(* takes for the end of the stream is never sent.                          *)
LEMMA NoEmptyFrame ==
    ASSUME TInv, ClientReading, NEW n \in Readable(down, Missing(client.inp)),
           Missing(client.inp \o Take(down.units, n)) = 0
    PROVE  Payload(Drop(client.inp \o Take(down.units, n), 2)) # <<>>
<1>f. /\ client.inp \in Seq(Unit) /\ down.units \in Seq(Unit) /\ server.pend \in Seq(Unit)
      /\ server.tx \in Nat /\ client.rx \in Nat
  BY DownFields DEF TInv
<1>1. n \in 0..Len(down.units)
  <2>1. Missing(client.inp) \in Int
    BY <1>f, MissingType
  <2>2. QED
    BY <1>f, <2>1, Moves
<1>2. PICK x \in Seq(Unit), y \in Seq(Unit) : x = Take(down.units, n) /\ x \o y = down.units
  <2>1. /\ Take(down.units, n) \in Seq(Unit) /\ Drop(down.units, n) \in Seq(Unit)
        /\ Take(down.units, n) \o Drop(down.units, n) = down.units
    BY <1>f, <1>1, UnitPieces
  <2>2. QED
    BY <2>1, Zenon
<1>3. PICK a \in Seq(Unit), z \in Seq(Unit) : a = client.inp \o x /\ z = y \o server.pend
  BY <1>f, Units, Zenon
<1>4. DownWire = a \o z
  <2>1. Shifts(client.inp, x, y, server.pend)
    BY <1>f, UnitsShift, Zenon
  <2>2. DownWire = (client.inp \o (x \o y)) \o server.pend
    BY <1>2 DEF DownWire
  <2>3. QED
    BY <1>3, <2>1, <2>2, Zenon DEF Shifts
<1>5. PICK whole : whole = (~broken \/ server.pc # "closed")
  OBVIOUS
<1>6. InStep(a \o z, client.rx, server.tx, whole)
  <2>1. DownLive
    BY ReaderLives DEF TInv
  <2>2. QED
    BY <1>4, <1>5, <2>1 DEF TInv, DownInv, DownStep
<1>7. Missing(a) = 0
  BY <1>2, <1>3
<1>8. PICK d \in Seq(Nat) : Len(d) \in 1..MaxPlain /\ Drop(a, 2) = Seal(d, client.rx)
  BY <1>f, <1>6, <1>7, CompleteFrame, Zenon
<1>9. Payload(Drop(a, 2)) = d
  BY <1>f, <1>8, SealFacts
<1>10. d # <<>>
  BY <1>8
<1>11. QED
  BY <1>2, <1>3, <1>9, <1>10

(* The end is shown to the application when it has everything, or when a   *)
(* part has failed.                                                        *)
LEMMA DownStops ==
    ASSUME TInv, TInv', ClientReading, DownThreadStops,
           down.units = <<>>, down.end # "open", UNCHANGED down
    PROVE  DownStream!Next
<1>f. app.got \in Seq(Nat)
  BY DownFields DEF TInv
<1>t. TypeInv /\ Control
  BY DEF TInv
<1>1. /\ client'.inp = <<>> /\ client'.local = client.local /\ app'.got = app.got
      /\ app'.eof = TRUE /\ UNCHANGED <<server, target, broken>>
  BY <1>t DEF DownThreadStops, ClientBecomes, TypeInv, ClientState, EndState
<1>2. DownLive /\ client.local = <<>>
  BY <1>t, ReaderLives
<1>3. CASE broken
  BY <1>1, <1>3, DownBreaks
<1>4. CASE ~broken
  <2>1. server.dnT = "done" /\ server.pend = <<>> /\ server.downBuf = <<>>
    BY <1>4, <1>t DEF Control, EndControl, ServerControl
  <2>2. ~app.eof
    BY <1>2, <1>t DEF Control, ClientControl, DownLive
  <2>3. DownHeld' \o <<>> = target.sent
    <3>1. DownAccount'
      BY DEF TInv, DownInv
    <3>2. ~broken' /\ server'.downBuf = <<>> /\ target'.sent = target.sent
      BY <1>1, <1>4, <2>1
    <3>3. QED
      BY <3>1, <3>2, Zenon DEF DownAccount
  <2>4. PICK g \in Seq(Nat) : g = app.got /\ g \o <<>> = g
    BY <1>f, Numbers, Zenon
  <2>5. DownHeld' = g
    <3>1. <<>> \o <<>> = <<>>
      OBVIOUS
    <3>2. DownWire' = <<>>
      BY <1>1, <2>1, <3>1 DEF DownWire
    <3>3. DownHeld' = (g \o <<>>) \o <<>>
      BY <1>1, <1>2, <2>4, <3>2, PayloadEmpty DEF DownHeld
    <3>4. QED
      BY <2>4, <3>3
  <2>6. app.got = target.sent
    BY <2>3, <2>4, <2>5
  <2>7. DownStream!End
    BY <1>1, <2>1, <2>2, <2>6 DEF DownStream!End
  <2>8. QED
    BY <2>7 DEF DownStream!Next
<1>5. QED
  BY <1>3, <1>4

LEMMA DownStreamClient ==
    ASSUME TInv, TInv', DownPrefix',
           ClientUp \/ ReadLocal \/ AppCloses \/ AppFails \/ ClientDown \/ AppReads
    PROVE  [DownStream!Next]_(DownStream!streamVars)
<1>t. TypeInv /\ Control
  BY DEF TInv
<1>p. TypeInv'
  BY DEF TInv
<1>1. ASSUME UNCHANGED <<server, target, broken>>, app'.got = app.got, app'.eof = app.eof
      PROVE  [DownStream!Next]_(DownStream!streamVars)
  BY <1>1, <1>p, <1>t, DownStutters
<1>2. ASSUME UNCHANGED <<server, target>>, app'.got = app.got, app.eof => app'.eof, broken'
      PROVE  DownStream!Next
  BY <1>2, DownBreaks
<1>3. ASSUME NEW data \in Seq(Nat), data # <<>>, app'.got = app.got \o data,
             app'.eof = app.eof, DownLive, DownLive', UNCHANGED <<server, target, broken>>
      PROVE  DownStream!Next
  <2>1. ~app.eof
    BY <1>3, <1>t DEF DownLive, Control, ClientControl
  <2>2. DownStream!IsPrefix(app'.got, target'.sent)
    BY <1>3 DEF DownPrefix
  <2>3. DownStream!IsPrefix(app'.got, target.sent)
    BY <1>3, <2>2
  <2>4. QED
    BY <1>3, <1>t, <2>1, <2>3, DownReceives
<1>4. CASE Greet \/ ReadLocal
  <2>1. PICK data, pc : Encrypts(data, pc)
    BY <1>4, Zenon DEF Greet, ReadLocal
  <2>2. app'.got = app.got /\ app'.eof = app.eof
    BY <1>t, <2>1 DEF Encrypts, TypeInv, EndState
  <2>3. UNCHANGED <<server, target, broken>>
    BY <1>4 DEF Greet, ReadLocal
  <2>4. QED
    BY <1>1, <2>2, <2>3
<1>5. CASE NegotiationFails \/ DownThreadFails
  <2>1. /\ app'.got = app.got /\ (app.eof => app'.eof) /\ broken'
        /\ UNCHANGED <<server, target>>
    BY <1>5, <1>t DEF NegotiationFails, DownThreadFails, TypeInv, EndState
  <2>2. QED
    BY <1>2, <2>1
<1>6. CASE ClientWrites
  BY <1>1, <1>6 DEF ClientWrites
<1>7. CASE ClientWritesToClosed
  <2>1. CASE UNCHANGED <<server, up, down, app, target, broken>>
    BY <1>1, <2>1
  <2>2. CASE /\ app' = [app EXCEPT !.eof = @ \/ Gone(client')]
             /\ broken' = TRUE
             /\ UNCHANGED <<server, down, target>>
    <3>1. app'.got = app.got /\ (app.eof => app'.eof)
      BY <1>t, <2>2 DEF TypeInv, EndState
    <3>2. QED
      BY <1>2, <2>2, <3>1
  <2>3. QED
    BY <1>5, <1>7, <2>1, <2>2 DEF ClientWritesToClosed
<1>8. CASE LocalEof
  <2>1. /\ app'.got = app.got /\ app'.eof = (app.eof \/ Gone(client'))
        /\ client'.pc = client.pc /\ client'.dnT = client.dnT
        /\ UNCHANGED <<server, target, broken>>
    BY <1>8, <1>t DEF LocalEof, TypeInv, ClientState, EndState
  <2>2. CASE broken
    BY <1>2, <2>1, <2>2
  <2>3. CASE ~broken
    <3>1. Gone(client') => app.eof
      BY <1>t, <2>1, <2>3 DEF Gone, Over, Control, ClientControl
    <3>2. app.eof \in BOOLEAN
      BY <1>t DEF TypeInv, EndState
    <3>3. app'.eof = app.eof
      BY <2>1, <3>1, <3>2
    <3>4. QED
      BY <1>1, <2>1, <3>3
  <2>4. QED
    BY <2>2, <2>3
<1>9. CASE LocalReadFails
  BY <1>1, <1>9 DEF LocalReadFails
<1>10. CASE AppCloses
  <2>1. app'.got = app.got /\ app'.eof = app.eof /\ UNCHANGED <<server, target, broken>>
    BY <1>10, <1>t DEF AppCloses, TypeInv, EndState
  <2>2. QED
    BY <1>1, <2>1
<1>11. CASE AppFails
  <2>1. app'.got = app.got /\ app'.eof = app.eof /\ broken' /\ UNCHANGED <<server, target>>
    BY <1>11, <1>t DEF AppFails, TypeInv, EndState
  <2>2. QED
    BY <1>2, <2>1
<1>12. CASE AppReads
  <2>1. /\ app'.got = app.got \o client.local /\ app'.eof = app.eof
        /\ client'.pc = client.pc /\ client'.dnT = client.dnT
        /\ client.local # <<>> /\ UNCHANGED <<server, target, broken>>
    BY <1>12, <1>t DEF AppReads, TypeInv, ClientState, EndState
  <2>2. DownLive /\ DownLive'
    BY <1>t, <2>1 DEF DownLive, Control, ClientControl
  <2>3. client.local \in Seq(Nat)
    BY DownFields DEF TInv
  <2>4. QED
    BY <1>3, <2>1, <2>2, <2>3
<1>13. CASE ClientSeesEnd
  <2>1. \/ NegotiationFails \/ DownThreadFails
        \/ DownThreadStops /\ ClientReading /\ down.units = <<>> /\ down.end # "open"
           /\ UNCHANGED down
    BY <1>13, Zenon DEF ClientSeesEnd, ClientReadFails
  <2>2. QED
    BY <1>5, <2>1, DownStops
<1>14. CASE LocalWriteFails
  BY <1>5, <1>14 DEF LocalWriteFails
<1>15. CASE ClientReads
  <2>1. PICK n \in Readable(down, Missing(client.inp)) :
               \/ UNCHANGED <<server, up, app, target, broken>>
               \/ /\ Missing(client.inp \o Take(down.units, n)) = 0
                  /\ ClientDecrypts(Drop(client.inp \o Take(down.units, n), 2))
    BY <1>15, <1>t, ClientReadsCases, Zenon
  <2>r. ClientReading
    BY <1>15 DEF ClientReads
  <2>2. CASE UNCHANGED <<server, up, app, target, broken>>
    BY <1>1, <2>2
  <2>3. CASE /\ Missing(client.inp \o Take(down.units, n)) = 0
             /\ ClientDecrypts(Drop(client.inp \o Take(down.units, n), 2))
    <3>b. PICK body : body = Drop(client.inp \o Take(down.units, n), 2)
      OBVIOUS
    <3>c. ClientDecrypts(body)
      BY <2>3, <3>b
    <3>d. Payload(body) # <<>>
      BY <2>3, <2>r, <3>b, NoEmptyFrame
    <3>1. DownLive
      BY <1>t, <2>r, ReaderLives
    <3>2. CASE /\ client.pc = "method" /\ Payload(body) = Method
               /\ client' = [client EXCEPT !.inp = <<>>, !.rx = @ + 1, !.pc = "reply",
                               !.tx = @ + 1, !.out = Frame(Request, client.tx)]
               /\ app' = [app EXCEPT !.sent = @ \o Request, !.got = @ \o Payload(body)]
               /\ UNCHANGED <<server, up, target, broken>>
      <4>1. /\ client'.pc = "reply" /\ client'.dnT = client.dnT
            /\ app'.got = app.got \o Method /\ app'.eof = app.eof
        BY <1>t, <3>2 DEF TypeInv, ClientState, EndState
      <4>2. DownLive' /\ Method \in Seq(Nat) /\ Method # <<>>
        BY <3>1, <4>1 DEF DownLive, Method
      <4>3. QED
        BY <1>3, <3>1, <3>2, <4>1, <4>2
    <3>3. CASE /\ client.pc = "reply" /\ Payload(body) = Success
               /\ client' = [client EXCEPT !.inp = <<>>, !.rx = @ + 1, !.pc = "open"]
               /\ app' = [app EXCEPT !.got = @ \o Payload(body)]
               /\ UNCHANGED <<server, up, target, broken>>
      <4>1. /\ client'.pc = "open" /\ client'.dnT = client.dnT
            /\ app'.got = app.got \o Success /\ app'.eof = app.eof
        BY <1>t, <3>3 DEF TypeInv, ClientState, EndState
      <4>2. DownLive' /\ Success \in Seq(Nat) /\ Success # <<>>
        BY <3>1, <4>1 DEF DownLive, Success
      <4>3. QED
        BY <1>3, <3>1, <3>3, <4>1, <4>2
    <3>4. CASE UNCHANGED <<server, up, app, target, broken>>
      BY <1>1, <3>4
    <3>5. QED
      BY <1>5, <1>t, <2>r, <3>c, <3>d, <3>2, <3>3, <3>4, ClientDecryptsCases
  <2>4. QED
    BY <2>1, <2>2, <2>3
<1>16. QED
  BY <1>4, <1>6, <1>7, <1>8, <1>9, <1>10, <1>11, <1>12, <1>13, <1>14, <1>15
     DEF ClientUp, ClientDown

LEMMA DownStreamServer ==
    ASSUME TInv, TInv', CopyUp \/ CopyDown \/ ReadTarget \/ TargetCloses \/ TargetFails
    PROVE  [DownStream!Next]_(DownStream!streamVars)
<1>t. TypeInv /\ Control
  BY DEF TInv
<1>p. TypeInv'
  BY DEF TInv
<1>1. CASE ServerFails
  <2>1. /\ target'.sent = target.sent /\ server'.dnT = server.dnT /\ broken'
        /\ UNCHANGED app
    BY <1>1, <1>t DEF ServerFails, TypeInv, ServerOK, ServerState, EndState
  <2>2. QED
    BY <2>1, DownBreaks
<1>2. ASSUME NEW data \in Seq(Nat), data # <<>>, target'.sent = target.sent \o data,
             server.dnT = "copying", server'.dnT = server.dnT, UNCHANGED <<app, broken>>
      PROVE  DownStream!Next
  BY <1>2, <1>t, DownSends
<1>3. CASE ParseGreeting
  <2>1. /\ target'.sent = target.sent \o Method /\ server'.dnT = server.dnT
        /\ UNCHANGED <<app, broken>>
    BY <1>3, <1>t DEF ParseGreeting, TypeInv, ServerOK, ServerState, EndState
  <2>2. server.dnT = "copying"
    BY <1>3, <1>t DEF ParseGreeting, Control, ServerControl
  <2>3. Method \in Seq(Nat) /\ Method # <<>>
    BY DEF Method
  <2>4. QED
    BY <1>2, <2>1, <2>2, <2>3
<1>4. CASE Connect
  <2>1. SUFFICES ASSUME ~ServerFails PROVE DownStream!Next
    BY <1>1
  <2>2. PICK answer \in {Success, Refusal}, pc \in {"replying", "refusing"} :
              /\ server' = [server EXCEPT !.downBuf = answer, !.pc = pc]
              /\ target' = [target EXCEPT !.sent = @ \o answer]
              /\ UNCHANGED <<client, up, down, app, broken>>
    BY <1>4, <2>1 DEF Connect
  <2>3. target'.sent = target.sent \o answer /\ server'.dnT = server.dnT
    BY <1>t, <2>2 DEF TypeInv, ServerOK, ServerState, EndState
  <2>4. server.dnT = "copying"
    BY <1>4, <1>t DEF Connect, Control, ServerControl
  <2>5. answer \in Seq(Nat) /\ answer # <<>>
    <3>1. Success # <<>> /\ Refusal # <<>>
      BY DEF Success, Refusal
    <3>2. QED
      BY <3>1, Messages
  <2>6. QED
    BY <1>2, <2>2, <2>3, <2>4, <2>5
<1>5. CASE ReadTarget
  <2>f. Len(target.sent) \in Nat
    BY DownFields DEF TInv
  <2>1. PICK n \in 1..(Len(Method) + Len(Success) + DownLen - Len(target.sent)) :
            /\ target' = [target EXCEPT !.sent = @ \o [i \in 1..n |-> Len(target.sent) + i]]
            /\ server' = [server EXCEPT !.downBuf = [i \in 1..n |-> Len(target.sent) + i]]
    BY <1>5, Zenon DEF ReadTarget
  <2>2. n \in Nat /\ n # 0
    BY <2>f, Messages, LengthsAssumption
  <2>3. PICK data \in Seq(Nat) : data = [i \in 1..n |-> Len(target.sent) + i] /\ Len(data) = n
    BY <2>f, <2>2, CountType
  <2>4. target'.sent = target.sent \o data /\ server'.dnT = server.dnT
    BY <1>t, <2>1, <2>3 DEF TypeInv, ServerOK, ServerState, EndState
  <2>5. server.dnT = "copying" /\ UNCHANGED <<app, broken>>
    BY <1>5 DEF ReadTarget
  <2>6. data # <<>>
    BY <2>2, <2>3
  <2>7. QED
    BY <1>2, <2>4, <2>5, <2>6
<1>6. CASE TargetEof
  <2>1. /\ server.dnT = "copying" /\ server'.dnT = "eof" /\ UNCHANGED <<target, app, broken>>
    BY <1>6, <1>t DEF TargetEof, TypeInv, ServerOK, ServerState
  <2>2. DownStream!Close
    BY <2>1 DEF DownStream!Close
  <2>3. QED
    BY <2>2 DEF DownStream!Next
<1>7. ASSUME target'.sent = target.sent, UNCHANGED <<app, broken>>,
             server'.dnT = "copying" <=> server.dnT = "copying"
      PROVE  [DownStream!Next]_(DownStream!streamVars)
  BY <1>7, <1>p, <1>t, DownStutters
<1>8. CASE ReadLength
  <2>1. \/ ServerFails
        \/ /\ \E x, y : server' = [server EXCEPT !.len = x, !.size = y]
           /\ UNCHANGED <<app, target, broken>>
    BY <1>8, Zenon DEF ReadLength
  <2>2. ServerFails \/ (server'.dnT = server.dnT /\ UNCHANGED <<app, target, broken>>)
    BY <1>t, <2>1 DEF TypeInv, ServerOK, ServerState
  <2>3. QED
    BY <1>1, <1>7, <2>2
<1>9. CASE ReadBody
  <2>1. \/ ServerFails
        \/ /\ \E b : server' = Opened(b) \/ server' = [server EXCEPT !.body = b]
           /\ UNCHANGED <<app, target, broken>>
    BY <1>9, Zenon DEF ReadBody
  <2>2. ServerFails \/ (server'.dnT = server.dnT /\ UNCHANGED <<app, target, broken>>)
    BY <1>t, <2>1 DEF TypeInv, ServerOK, ServerState, Opened
  <2>3. QED
    BY <1>1, <1>7, <2>2
<1>10. CASE ServerSeesEnd \/ Answered \/ PollWrite \/ FlushPending \/ Serves \/ WriteTarget
            \/ ParseCommand \/ EndTarget \/ RelayCloses \/ PollShutdown \/ TargetCloses
  <2>1. SUFFICES ASSUME ~ServerFails PROVE [DownStream!Next]_(DownStream!streamVars)
    BY <1>1
  <2>2. UNCHANGED <<app, broken>>
    BY <1>10, <2>1 DEF ServerSeesEnd, Answered, PollWrite, FlushPending, Serves, WriteTarget,
                       ParseCommand, EndTarget, RelayCloses, PollShutdown, TargetCloses
  <2>3. target'.sent = target.sent
    BY <1>10, <1>t, <2>1 DEF ServerSeesEnd, Answered, PollWrite, FlushPending, Serves,
               WriteTarget, ParseCommand, EndTarget, RelayCloses, PollShutdown, TargetCloses,
               TypeInv, EndState
  <2>4. server'.dnT = "copying" <=> server.dnT = "copying"
    BY <1>10, <1>t, <2>1 DEF ServerSeesEnd, Answered, PollWrite, FlushPending, Serves,
               WriteTarget, ParseCommand, EndTarget, RelayCloses, PollShutdown, TargetCloses,
               TypeInv, ServerOK, ServerState
  <2>5. QED
    BY <1>7, <2>2, <2>3, <2>4
<1>11. CASE TargetFails
  BY <1>1, <1>11 DEF TargetFails
<1>12. QED
  BY <1>3, <1>4, <1>5, <1>6, <1>8, <1>9, <1>10, <1>11 DEF CopyUp, CopyDown

LEMMA DownStreamStep ==
    TInv /\ TInv' /\ DownPrefix' /\ [Next]_vars => [DownStream!Next]_(DownStream!streamVars)
<1> SUFFICES ASSUME TInv, TInv', DownPrefix', [Next]_vars
             PROVE  [DownStream!Next]_(DownStream!streamVars)
  OBVIOUS
<1>1. CASE UNCHANGED vars
  BY <1>1, DownStutters DEF vars, TInv
<1>2. CASE ClientUp \/ ReadLocal \/ AppCloses \/ AppFails \/ ClientDown \/ AppReads
  BY <1>2, DownStreamClient
<1>3. CASE CopyUp \/ CopyDown \/ ReadTarget \/ TargetCloses \/ TargetFails
  BY <1>3, DownStreamServer
<1>4. QED
  BY <1>1, <1>2, <1>3, Zenon DEF Next, Ends, Finished

(* DownIsAByteStream, for every instance: what the target sends reaches    *)
(* the application as a byte stream, and its end only after the last byte  *)
(* unless a part has failed.                                               *)
THEOREM DownloadIsAByteStream == Spec => DownIsAByteStream
<1>1. Init => DownStream!Init
  BY DEF Init, DownStream!Init
<1>2. QED
  BY <1>1, TInvAlways, DownBegun, DownStreamStep, PTL
     DEF Spec, DownIsAByteStream, DownStream!Spec
==============================================================================
