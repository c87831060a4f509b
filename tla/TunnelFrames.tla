----------------------------- MODULE TunnelFrames -----------------------------
(***************************************************************************)
(* Facts about Tunnel's frames that TunnelProofs rests on: what Payload    *)
(* computes, what Header, Seal and Frame are made of, and what it means    *)
(* that a stream is in step with the message counters at its two ends.     *)
(* None of them is about a state of the tunnel.                            *)
(***************************************************************************)
EXTENDS Tunnel, WellFoundedInduction, SequenceTheorems, TLAPS

(* Induction, in a form that takes a set and no operator.                  *)
LEMMA SetInduction ==
    ASSUME NEW S, 0 \in S, \A n \in Nat : n \in S => n + 1 \in S
    PROVE  \A n \in Nat : n \in S
<1> DEFINE R == {p \in Nat \X Nat : p[1] < p[2]}
           T == {n \in Nat : n \notin S}
<1>1. IsWellFoundedOn(R, Nat)
  BY NatLessThanWellFounded DEF OpToRel
<1>2. SUFFICES ASSUME T # {} PROVE FALSE
  BY Zenon
<1>3. PICK x \in T : \A y \in T : ~(<<y, x>> \in R)
  <2> HIDE DEF R
  <2>1. T \subseteq Nat
    OBVIOUS
  <2>2. QED
    BY <1>1, <1>2, <2>1, WFMin, Zenon
<1>4. x # 0 /\ x \in Nat /\ x - 1 \in Nat
  OBVIOUS
<1>5. <<x - 1, x>> \in R
  BY <1>4
<1>6. x - 1 \in S
  BY <1>3, <1>4, <1>5
<1>7. x \in S
  BY <1>4, <1>6
<1>8. QED
  BY <1>7

-------------------------------------------------------------------------------
(* Sequences in pieces.                                                    *)

LEMMA Pieces ==
    ASSUME NEW S, NEW s \in Seq(S), NEW n \in 0..Len(s)
    PROVE  /\ Take(s, n) \in Seq(S) /\ Drop(s, n) \in Seq(S)
           /\ Len(Take(s, n)) = n /\ Len(Drop(s, n)) = Len(s) - n
           /\ \A i \in 1..n : Take(s, n)[i] = s[i]
           /\ \A i \in 1..(Len(s) - n) : Drop(s, n)[i] = s[n + i]
           /\ Take(s, n) \o Drop(s, n) = s
<1> PICK m \in Nat : m = Len(s)
  OBVIOUS
<1>1. Take(s, n) \in Seq(S) /\ Len(Take(s, n)) = n /\ \A i \in 1..n : Take(s, n)[i] = s[i]
  BY DEF Take
<1>2. /\ Drop(s, n) \in Seq(S) /\ Len(Drop(s, n)) = m - n
      /\ \A i \in 1..(m - n) : Drop(s, n)[i] = s[n + i]
  BY DEF Drop
<1>3. Len(Take(s, n) \o Drop(s, n)) = m
  BY <1>1, <1>2
<1>4. ASSUME NEW i \in 1..m PROVE (Take(s, n) \o Drop(s, n))[i] = s[i]
  <2>1. CASE i <= n
    BY <1>1, <1>2, <2>1
  <2>2. CASE ~(i <= n)
    <3>1. i - n \in 1..(m - n)
      BY <2>2
    <3>2. (Take(s, n) \o Drop(s, n))[i] = Drop(s, n)[i - n]
      BY <1>1, <1>2, <2>2
    <3>3. n + (i - n) = i
      OBVIOUS
    <3>4. QED
      BY <1>2, <3>1, <3>2, <3>3
  <2>3. QED
    BY <2>1, <2>2
<1>5. Take(s, n) \o Drop(s, n) \in Seq(S)
  BY <1>1, <1>2
<1>6. Take(s, n) \o Drop(s, n) = s
  BY <1>3, <1>4, <1>5, SeqEqual
<1>7. QED
  BY <1>1, <1>2, <1>6

LEMMA Units ==
    /\ \A s, t \in Seq(Unit) : s \o t \in Seq(Unit)
    /\ \A s, t, u \in Seq(Unit) : (s \o t) \o u = s \o (t \o u)
    /\ \A s \in Seq(Unit) : s \o <<>> = s /\ <<>> \o s = s
    /\ <<>> \in Seq(Unit)
OBVIOUS

LEMMA Joined ==
    \A s, t \in Seq(Unit) : s \o t \in Seq(Unit) /\ Len(s \o t) = Len(s) + Len(t)
OBVIOUS

LEMMA Numbers ==
    /\ \A s, t \in Seq(Nat) : s \o t \in Seq(Nat)
    /\ \A s, t, u \in Seq(Nat) : (s \o t) \o u = s \o (t \o u)
    /\ \A s \in Seq(Nat) : s \o <<>> = s /\ <<>> \o s = s
    /\ <<>> \in Seq(Nat)
OBVIOUS

LEMMA AppendLast ==
    \A s, t \in Seq(Nat), v \in Nat : Append(s \o t, v) = s \o Append(t, v)
<1>1. PICK S : S = Nat
  OBVIOUS
<1>2. ASSUME NEW s \in Seq(S), NEW t \in Seq(S), NEW v \in S
      PROVE  Append(s \o t, v) = s \o Append(t, v)
  OBVIOUS
<1>3. QED
  BY <1>1, <1>2, Zenon

(* A cut at n of s falls where it does in anything that begins with s.     *)
LEMMA CutInside ==
    ASSUME NEW S, NEW s \in Seq(S), NEW t \in Seq(S), NEW n \in 0..Len(s)
    PROVE  Take(s \o t, n) = Take(s, n) /\ Drop(s \o t, n) = Drop(s, n) \o t
<1>1. s \o t \in Seq(S) /\ n \in 0..Len(s \o t)
  OBVIOUS
<1>2. Take(s \o t, n) = Take(s, n)
  BY DEF Take
<1>3. Take(s, n) \o (Drop(s, n) \o t) = Take(s, n) \o Drop(s \o t, n)
  <2>1. Take(s, n) \in Seq(S) /\ Drop(s, n) \in Seq(S) /\ Take(s, n) \o Drop(s, n) = s
    BY Pieces
  <2>2. Take(s \o t, n) \o Drop(s \o t, n) = s \o t
    BY <1>1, Pieces
  <2>3. \A a, b \in Seq(S) : (a \o b) \o t = a \o (b \o t)
    OBVIOUS
  <2>4. QED
    BY <1>2, <2>1, <2>2, <2>3, Zenon
<1>4. Drop(s, n) \in Seq(S) /\ Drop(s \o t, n) \in Seq(S) /\ Take(s, n) \in Seq(S)
  BY <1>1, Pieces
<1>5. Drop(s, n) \o t \in Seq(S)
  BY <1>4
<1>6. QED
  BY <1>2, <1>3, <1>4, <1>5, ConcatSimplifications

LEMMA CutBetween ==
    ASSUME NEW S, NEW s \in Seq(S), NEW t \in Seq(S)
    PROVE  Take(s \o t, Len(s)) = s /\ Drop(s \o t, Len(s)) = t
BY DEF Take, Drop

LEMMA ConcatAt ==
    ASSUME NEW S, NEW s \in Seq(S), NEW t \in Seq(S), NEW y, y = s \o t,
           NEW a, NEW b, a = Len(s), b = Len(t)
    PROVE  /\ y \in Seq(S) /\ Len(y) = a + b
           /\ \A i \in 1..a : y[i] = s[i]
           /\ \A i \in 1..b : y[a + i] = t[i]
<1>1. a \in Nat /\ b \in Nat
  OBVIOUS
<1>2. y \in Seq(S) /\ Len(y) = a + b
  OBVIOUS
<1>3. ASSUME NEW i \in 1..a PROVE y[i] = s[i]
  OBVIOUS
<1>4. ASSUME NEW i \in 1..b PROVE y[a + i] = t[i]
  <2>1. PICK j \in Nat : j = a + i
    BY <1>1
  <2>2. j \in 1..(a + b) /\ ~(j <= a) /\ j - a = i
    BY <1>1, <2>1
  <2>3. y[j] = t[j - a]
    BY <1>1, <2>2
  <2>4. QED
    BY <2>1, <2>2, <2>3
<1>5. QED
  BY <1>2, <1>3, <1>4

LEMMA UnitsAt ==
    ASSUME NEW s \in Seq(Unit), NEW t \in Seq(Unit)
    PROVE  /\ s \o t \in Seq(Unit) /\ Len(s \o t) = Len(s) + Len(t)
           /\ \A i \in 1..Len(s) : (s \o t)[i] = s[i]
           /\ \A i \in 1..Len(t) : (s \o t)[Len(s) + i] = t[i]
OBVIOUS

-------------------------------------------------------------------------------
(* What Payload computes.                                                  *)

Grows(f, u, n) ==
    /\ f[0] = <<>>
    /\ \A i \in 1..n : f[i] = IF u[i].k = "data" THEN Append(f[i - 1], u[i].v)
                              ELSE f[i - 1]

LEMMA PayloadGrows ==
    ASSUME NEW u \in Seq(Unit)
    PROVE  \E f : Payload(u) = f[Len(u)] /\ Grows(f, u, Len(u))
<1> DEFINE Body(f, n) == [i \in 0..n |->
               IF i = 0 THEN <<>>
               ELSE IF u[i].k = "data" THEN Append(f[i - 1], u[i].v)
               ELSE f[i - 1]]
           S == {n \in Nat : \E f : f = Body(f, n)}
<1>1. 0 \in S
  <2> DEFINE g == [i \in 0..0 |-> <<>>]
  <2>1. g = Body(g, 0)
    OBVIOUS
  <2>2. QED
    BY <2>1
<1>2. ASSUME NEW n \in Nat, n \in S PROVE n + 1 \in S
  <2>1. PICK f : f = Body(f, n)
    BY <1>2
  <2> DEFINE g == [i \in 0..(n + 1) |->
                   IF i <= n THEN f[i]
                   ELSE IF u[n + 1].k = "data" THEN Append(f[n], u[n + 1].v) ELSE f[n]]
  <2>2. \A i \in 0..n : f[i] = IF i = 0 THEN <<>>
               ELSE IF u[i].k = "data" THEN Append(f[i - 1], u[i].v)
               ELSE f[i - 1]
    BY <2>1
  <2>3. ASSUME NEW i \in 0..(n + 1) PROVE g[i] = Body(g, n + 1)[i]
    <3>1. CASE i = 0
      BY <2>2, <3>1
    <3>2. CASE i \in 1..n
      <4>1. i - 1 \in 0..n /\ i \in 0..n /\ i # 0
        BY <3>2
      <4>2. g[i] = f[i] /\ g[i - 1] = f[i - 1]
        BY <4>1
      <4>3. QED
        BY <2>2, <4>1, <4>2
    <3>3. CASE i = n + 1
      <4>1. i - 1 = n /\ i # 0 /\ n \in 0..(n + 1) /\ n <= n /\ ~(i <= n)
        BY <3>3
      <4>2. g[i - 1] = f[n]
        BY <4>1
      <4>3. QED
        BY <3>3, <4>1, <4>2
    <3>4. QED
      BY <3>1, <3>2, <3>3
  <2>4. g = Body(g, n + 1)
    BY <2>3
  <2>5. \E h : h = Body(h, n + 1)
    <3> HIDE DEF g, Body
    <3>1. QED
      BY <2>4, Zenon
  <2>6. n + 1 \in Nat
    OBVIOUS
  <2>7. QED
    BY <2>5, <2>6, Zenon
<1>3. \A n \in Nat : n \in S
  <2> HIDE DEF S
  <2>1. QED
    BY <1>1, <1>2, SetInduction
<1>4. Len(u) \in Nat
  OBVIOUS
<1> DEFINE data == CHOOSE f : f = Body(f, Len(u))
<1>5. data = Body(data, Len(u))
  BY <1>3, <1>4, Zenon
<1>6. Payload(u) = data[Len(u)]
  BY DEF Payload
<1>7. Grows(data, u, Len(u))
  <2> HIDE DEF data
  <2>1. PICK n \in Nat : n = Len(u)
    BY <1>4
  <2>2. \A i \in 0..n : data[i] = Body(data, n)[i]
    BY <1>5, <2>1
  <2>3. data[0] = <<>>
    BY <2>2
  <2>4. \A i \in 1..n : data[i] = IF u[i].k = "data" THEN Append(data[i - 1], u[i].v)
                                 ELSE data[i - 1]
    BY <2>2
  <2>5. QED
    BY <2>1, <2>3, <2>4 DEF Grows
<1>8. QED
  BY <1>6, <1>7, Zenon

LEMMA DataIsNumber == \A u \in Unit : u.k = "data" => u.v \in Nat
BY DEF Unit

LEMMA GrowsType ==
    ASSUME NEW u \in Seq(Unit), NEW f, NEW n \in 0..Len(u), Grows(f, u, Len(u))
    PROVE  f[n] \in Seq(Nat)
<1> PICK m \in Nat : m = Len(u)
  OBVIOUS
<1> DEFINE S == {i \in Nat : i <= m => f[i] \in Seq(Nat)}
<1>1. 0 \in S
  <2>1. f[0] = <<>>
    BY DEF Grows
  <2>2. <<>> \in Seq(Nat)
    OBVIOUS
  <2>3. QED
    BY <2>1, <2>2
<1>2. ASSUME NEW i \in Nat, i \in S PROVE i + 1 \in S
  <2>1. SUFFICES ASSUME i + 1 <= m PROVE f[i + 1] \in Seq(Nat)
    BY <1>2
  <2>2. i + 1 \in 1..m /\ (i + 1) - 1 = i /\ i <= m
    BY <2>1
  <2>3. f[i] \in Seq(Nat)
    BY <1>2, <2>2
  <2>4. f[i + 1] = IF u[i + 1].k = "data" THEN Append(f[i], u[i + 1].v) ELSE f[i]
    BY <2>2 DEF Grows
  <2>5. u[i + 1] \in Unit
    BY <2>2
  <2>6. u[i + 1].k = "data" => u[i + 1].v \in Nat
    BY <2>5, DataIsNumber
  <2>7. QED
    BY <2>3, <2>4, <2>6
<1>3. \A i \in Nat : i \in S
  <2> HIDE DEF S
  <2>1. QED
    BY <1>1, <1>2, SetInduction
<1>4. QED
  BY <1>3

LEMMA PayloadType ==
    ASSUME NEW u \in Seq(Unit)
    PROVE  Payload(u) \in Seq(Nat)
<1>1. PICK f : Payload(u) = f[Len(u)] /\ Grows(f, u, Len(u))
  BY PayloadGrows
<1>2. Len(u) \in 0..Len(u)
  OBVIOUS
<1>3. QED
  BY <1>1, <1>2, GrowsType

LEMMA PayloadEmpty == Payload(<<>>) = <<>>
<1>1. <<>> \in Seq(Unit) /\ Len(<<>>) = 0
  OBVIOUS
<1>2. PICK f : Payload(<<>>) = f[0] /\ Grows(f, <<>>, 0)
  BY <1>1, PayloadGrows
<1>3. QED
  BY <1>2 DEF Grows

(* Payload takes a sequence piece by piece.                                *)
LEMMA PayloadJoined ==
    ASSUME NEW u \in Seq(Unit), NEW w \in Seq(Unit)
    PROVE  Payload(u \o w) = Payload(u) \o Payload(w)
<1> DEFINE x == u \o w
<1>m. PICK m \in Nat : m = Len(u)
  OBVIOUS
<1>n. PICK n \in Nat : n = Len(w)
  OBVIOUS
<1>0. /\ x \in Seq(Unit) /\ Len(x) = m + n
      /\ \A i \in 1..m : x[i] = u[i]
      /\ \A i \in 1..n : x[m + i] = w[i]
  BY <1>m, <1>n
<1> HIDE DEF x
<1>1. PICK f : Payload(u) = f[m] /\ Grows(f, u, m)
  BY <1>m, PayloadGrows
<1>2. PICK e : Payload(w) = e[n] /\ Grows(e, w, n)
  BY <1>n, PayloadGrows
<1>3. PICK h : Payload(x) = h[m + n] /\ Grows(h, x, m + n)
  BY <1>0, PayloadGrows
<1>4. \A i \in 0..m : f[i] \in Seq(Nat)
  BY <1>m, <1>1, GrowsType
<1>5. \A i \in 0..n : e[i] \in Seq(Nat)
  BY <1>n, <1>2, GrowsType
<1> DEFINE S == {i \in Nat : i <= m => h[i] = f[i]}
           T == {i \in Nat : i <= n => h[m + i] = f[m] \o e[i]}
<1>6. \A i \in Nat : i \in S
  <2>1. 0 \in S
    BY <1>1, <1>3 DEF Grows
  <2>2. ASSUME NEW i \in Nat, i \in S PROVE i + 1 \in S
    <3>1. SUFFICES ASSUME i + 1 <= m PROVE h[i + 1] = f[i + 1]
      BY <2>2
    <3>2. i + 1 \in 1..m /\ i + 1 \in 1..(m + n) /\ (i + 1) - 1 = i /\ i <= m
      BY <3>1
    <3>3. h[i] = f[i] /\ x[i + 1] = u[i + 1]
      BY <1>0, <2>2, <3>2
    <3>4. f[i + 1] = IF u[i + 1].k = "data" THEN Append(f[i], u[i + 1].v) ELSE f[i]
      BY <1>1, <3>2 DEF Grows
    <3>5. h[i + 1] = IF x[i + 1].k = "data" THEN Append(h[i], x[i + 1].v) ELSE h[i]
      BY <1>3, <3>2 DEF Grows
    <3>6. QED
      BY <3>3, <3>4, <3>5
  <2>3. QED
    <3> HIDE DEF S
    <3>1. QED
      BY <2>1, <2>2, SetInduction
<1>7. \A i \in Nat : i \in T
  <2>1. 0 \in T
    <3>1. h[m] = f[m] /\ m + 0 = m
      BY <1>6
    <3>2. e[0] = <<>>
      BY <1>2 DEF Grows
    <3>3. f[m] \in Seq(Nat)
      BY <1>4
    <3>4. f[m] \o <<>> = f[m]
      BY <3>3
    <3>5. QED
      BY <3>1, <3>2, <3>4
  <2>2. ASSUME NEW i \in Nat, i \in T PROVE i + 1 \in T
    <3>1. SUFFICES ASSUME i + 1 <= n PROVE h[m + (i + 1)] = f[m] \o e[i + 1]
      <4>1. i + 1 \in Nat
        OBVIOUS
      <4>2. QED
        BY <4>1, Zenon
    <3>2. /\ i + 1 \in 1..n /\ m + (i + 1) \in 1..(m + n) /\ (i + 1) - 1 = i /\ i <= n
          /\ (m + (i + 1)) - 1 = m + i /\ i \in 0..n /\ m \in 0..m
      BY <3>1
    <3>3. h[m + i] = f[m] \o e[i] /\ x[m + (i + 1)] = w[i + 1]
      BY <1>0, <2>2, <3>2
    <3>4. e[i + 1] = IF w[i + 1].k = "data" THEN Append(e[i], w[i + 1].v) ELSE e[i]
      BY <1>2, <3>2 DEF Grows
    <3>5. h[m + (i + 1)] = IF w[i + 1].k = "data" THEN Append(f[m] \o e[i], w[i + 1].v)
                           ELSE f[m] \o e[i]
      BY <1>3, <3>2, <3>3 DEF Grows
    <3>6. w[i + 1] \in Unit
      BY <1>n, <3>2
    <3>7. f[m] \in Seq(Nat) /\ e[i] \in Seq(Nat)
      BY <1>4, <1>5, <3>2
    <3>8. CASE w[i + 1].k = "data"
      <4>1. w[i + 1].v \in Nat
        BY <3>6, <3>8, DataIsNumber
      <4>2. Append(f[m] \o e[i], w[i + 1].v) = f[m] \o Append(e[i], w[i + 1].v)
        BY <3>7, <4>1, AppendLast, Zenon
      <4>3. QED
        BY <3>4, <3>5, <3>8, <4>2
    <3>9. CASE w[i + 1].k # "data"
      BY <3>4, <3>5, <3>9
    <3>10. QED
      BY <3>8, <3>9
  <2>3. QED
    <3> HIDE DEF T
    <3>1. QED
      BY <2>1, <2>2, SetInduction
<1>8. h[m + n] = f[m] \o e[n]
  <2>1. n \in T /\ n <= n
    <3> HIDE DEF T
    <3>1. QED
      BY <1>7
  <2>2. QED
    BY <2>1, Zenon
<1>9. QED
  BY <1>1, <1>2, <1>3, <1>8 DEF x

(* Units that carry no data.                                               *)
LEMMA PayloadNone ==
    ASSUME NEW u \in Seq(Unit), \A i \in 1..Len(u) : u[i].k # "data"
    PROVE  Payload(u) = <<>>
<1>m. PICK m \in Nat : m = Len(u)
  OBVIOUS
<1>1. PICK f : Payload(u) = f[m] /\ Grows(f, u, m)
  BY <1>m, PayloadGrows
<1> DEFINE S == {i \in Nat : i <= m => f[i] = <<>>}
<1>2. 0 \in S
  BY <1>1 DEF Grows
<1>3. ASSUME NEW i \in Nat, i \in S PROVE i + 1 \in S
  <2>1. SUFFICES ASSUME i + 1 <= m PROVE f[i + 1] = <<>>
    BY <1>3
  <2>2. i + 1 \in 1..m /\ (i + 1) - 1 = i /\ i <= m
    BY <2>1
  <2>3. f[i + 1] = IF u[i + 1].k = "data" THEN Append(f[i], u[i + 1].v) ELSE f[i]
    BY <1>1, <2>2 DEF Grows
  <2>4. QED
    BY <1>m, <1>3, <2>2, <2>3
<1>4. \A i \in Nat : i \in S
  <2> HIDE DEF S
  <2>1. QED
    BY <1>2, <1>3, SetInduction
<1>5. QED
  BY <1>1, <1>4

(* Units that are all data.                                                *)
LEMMA PayloadData ==
    ASSUME NEW d \in Seq(Nat)
    PROVE  /\ [i \in 1..Len(d) |-> [k |-> "data", v |-> d[i]]] \in Seq(Unit)
           /\ Payload([i \in 1..Len(d) |-> [k |-> "data", v |-> d[i]]]) = d
<1>m. PICK m \in Nat : m = Len(d)
  OBVIOUS
<1> DEFINE u == [i \in 1..m |-> [k |-> "data", v |-> d[i]]]
<1>0. u \in Seq(Unit) /\ Len(u) = m /\ \A i \in 1..m : u[i].k = "data" /\ u[i].v = d[i]
  <2>1. \A i \in 1..m : d[i] \in Nat
    BY <1>m
  <2>2. \A i \in 1..m : [k |-> "data", v |-> d[i]] \in Unit
    BY <2>1 DEF Unit
  <2>3. QED
    BY <2>2
<1> HIDE DEF u
<1>1. PICK f : Payload(u) = f[m] /\ Grows(f, u, m)
  BY <1>0, PayloadGrows
<1> DEFINE S == {i \in Nat : i <= m => f[i] = SubSeq(d, 1, i)}
<1>2. 0 \in S
  <2>1. f[0] = <<>>
    BY <1>1 DEF Grows
  <2>2. SubSeq(d, 1, 0) = <<>>
    OBVIOUS
  <2>3. QED
    BY <2>1, <2>2
<1>3. ASSUME NEW i \in Nat, i \in S PROVE i + 1 \in S
  <2>1. SUFFICES ASSUME i + 1 <= m PROVE f[i + 1] = SubSeq(d, 1, i + 1)
    BY <1>3
  <2>2. i + 1 \in 1..m /\ (i + 1) - 1 = i /\ i <= m
    BY <2>1
  <2>3. f[i + 1] = IF u[i + 1].k = "data" THEN Append(f[i], u[i + 1].v) ELSE f[i]
    BY <1>1, <2>2 DEF Grows
  <2>4. f[i + 1] = Append(SubSeq(d, 1, i), d[i + 1])
    BY <1>0, <1>3, <2>2, <2>3
  <2>5. Append(SubSeq(d, 1, i), d[i + 1]) = SubSeq(d, 1, i + 1)
    BY <1>m, <2>2
  <2>6. QED
    BY <2>4, <2>5
<1>4. \A i \in Nat : i \in S
  <2> HIDE DEF S
  <2>1. QED
    BY <1>2, <1>3, SetInduction
<1>5. Payload(u) = SubSeq(d, 1, m)
  BY <1>1, <1>4
<1>6. SubSeq(d, 1, m) = d
  BY <1>m
<1>7. QED
  BY <1>m, <1>0, <1>5, <1>6 DEF u

-------------------------------------------------------------------------------
(* Frames.                                                                 *)

LEMMA Division ==
    ASSUME NEW n \in Nat, NEW q, NEW r, q = n \div Base, r = n % Base
    PROVE  q \in Nat /\ r \in Nat /\ q * Base + r = n
<1>1. Base \in Nat /\ Base > 0
  BY BaseAssumption
<1>2. q \in Nat /\ r \in Nat
  BY <1>1
<1>3. Base * q + r = n
  BY <1>1
<1>4. q * Base + r = n
  <2>1. \A a, b, c \in Nat : a * b + c = b * a + c
    OBVIOUS
  <2>2. QED
    BY <1>1, <1>2, <1>3, <2>1, Zenon
<1>5. QED
  BY <1>2, <1>4

LEMMA HeaderFacts ==
    ASSUME NEW n \in Nat
    PROVE  /\ Header(n) \in Seq(Unit) /\ Len(Header(n)) = 2
           /\ Payload(Header(n)) = <<>>
           /\ Value(Header(n)[1]) * Base + Value(Header(n)[2]) = n
<1>1. PICK q, r : q = n \div Base /\ r = n % Base
  OBVIOUS
<1>2. q \in Nat /\ r \in Nat /\ q * Base + r = n
  BY <1>1, Division
<1>3. Header(n) = << [k |-> "len", v |-> q], [k |-> "len", v |-> r] >>
  BY <1>1 DEF Header
<1>4. [k |-> "len", v |-> q] \in Unit /\ [k |-> "len", v |-> r] \in Unit
  BY <1>2 DEF Unit
<1>5. Header(n) \in Seq(Unit) /\ Len(Header(n)) = 2
  BY <1>3, <1>4
<1>6. Header(n)[1] = [k |-> "len", v |-> q] /\ Header(n)[2] = [k |-> "len", v |-> r]
  BY <1>3
<1>7. Value(Header(n)[1]) = q /\ Value(Header(n)[2]) = r
  BY <1>6 DEF Value
<1>8. \A i \in 1..2 : Header(n)[i].k # "data"
  BY <1>6
<1>9. Payload(Header(n)) = <<>>
  BY <1>5, <1>8, PayloadNone
<1>10. QED
  BY <1>2, <1>5, <1>7, <1>9, Zenon

LEMMA SealFacts ==
    ASSUME NEW d \in Seq(Nat), NEW nonce \in Nat
    PROVE  /\ Seal(d, nonce) \in Seq(Unit) /\ Len(Seal(d, nonce)) = Len(d) + 1
           /\ Payload(Seal(d, nonce)) = d
           /\ Opens(Seal(d, nonce), nonce)
<1> DEFINE data == [i \in 1..Len(d) |-> [k |-> "data", v |-> d[i]]]
           seal == << [k |-> "seal", v |-> <<nonce, d>>] >>
<1>1. data \in Seq(Unit) /\ Payload(data) = d
  BY PayloadData
<1>2. Len(data) = Len(d)
  OBVIOUS
<1>3. [k |-> "seal", v |-> <<nonce, d>>] \in Unit
  BY DEF Unit
<1>4. seal \in Seq(Unit) /\ Len(seal) = 1 /\ seal[1].k = "seal"
  BY <1>3
<1>5. Payload(seal) = <<>>
  <2> HIDE DEF seal
  <2>1. \A i \in 1..Len(seal) : seal[i].k # "data"
    BY <1>4
  <2>2. QED
    BY <1>4, <2>1, PayloadNone
<1>6. Seal(d, nonce) = data \o seal
  BY DEF Seal
<1> HIDE DEF data, seal
<1>7. Seal(d, nonce) \in Seq(Unit) /\ Len(Seal(d, nonce)) = Len(d) + 1
  <2>1. \A a, c \in Seq(Unit) : a \o c \in Seq(Unit) /\ Len(a \o c) = Len(a) + Len(c)
    OBVIOUS
  <2>2. QED
    BY <1>1, <1>2, <1>4, <1>6, <2>1, Zenon
<1>8. Payload(Seal(d, nonce)) = d \o <<>>
  BY <1>1, <1>4, <1>5, <1>6, PayloadJoined, Zenon
<1>9. d \o <<>> = d
  BY Numbers, Zenon
<1>10. QED
  BY <1>7, <1>8, <1>9 DEF Opens

LEMMA FrameFacts ==
    ASSUME NEW d \in Seq(Nat), NEW nonce \in Nat
    PROVE  /\ Frame(d, nonce) \in Seq(Unit) /\ Len(Frame(d, nonce)) = Len(d) + 3
           /\ Payload(Frame(d, nonce)) = d
<1>1. Len(d) + 1 \in Nat
  OBVIOUS
<1> DEFINE h == Header(Len(d) + 1)
           b == Seal(d, nonce)
<1>2. h \in Seq(Unit) /\ Len(h) = 2 /\ Payload(h) = <<>>
  BY <1>1, HeaderFacts
<1>3. b \in Seq(Unit) /\ Len(b) = Len(d) + 1 /\ Payload(b) = d
  BY SealFacts
<1>4. Frame(d, nonce) = h \o b
  BY DEF Frame
<1> HIDE DEF h, b
<1>5. Frame(d, nonce) \in Seq(Unit) /\ Len(Frame(d, nonce)) = Len(d) + 3
  <2>1. \A a, c \in Seq(Unit) : a \o c \in Seq(Unit) /\ Len(a \o c) = Len(a) + Len(c)
    OBVIOUS
  <2>2. Len(d) \in Nat
    OBVIOUS
  <2>3. Frame(d, nonce) \in Seq(Unit) /\ Len(Frame(d, nonce)) = 2 + (Len(d) + 1)
    BY <1>2, <1>3, <1>4, <2>1, Zenon
  <2>4. \A n \in Nat : 2 + (n + 1) = n + 3
    OBVIOUS
  <2>5. QED
    BY <2>2, <2>3, <2>4
<1>6. Payload(Frame(d, nonce)) = <<>> \o d
  BY <1>2, <1>3, <1>4, PayloadJoined, Zenon
<1>7. <<>> \o d = d
  BY Numbers, Zenon
<1>8. QED
  BY <1>5, <1>6, <1>7

-------------------------------------------------------------------------------
(* Streams in step: w begins with the frames of message counters k to      *)
(* m - 1, the i-th with the bytes fs[i] and after pos[i] other units, as   *)
(* far as w goes; all of them are there when w is whole.                   *)

Begins(w, p, d, nonce) ==
    \A j \in 1..(Len(d) + 3) : p + j <= Len(w) => w[p + j] = Frame(d, nonce)[j]

Positions(k, m, pos) ==
    /\ pos \in [Nat -> Int]
    /\ k <= m /\ pos[k] = 0
    /\ \A i, j \in k..m : i <= j => pos[i] <= pos[j]

Layout(w, k, m, fs, pos) ==
    /\ fs \in [Nat -> Seq(Nat)]
    /\ Positions(k, m, pos)
    /\ \A i \in k..(m - 1) : /\ Len(fs[i]) \in 1..MaxPlain
                             /\ pos[i + 1] = pos[i] + (Len(fs[i]) + 3)
                             /\ Begins(w, pos[i], fs[i], i)

InStep(w, k, m, whole) ==
    \E fs, pos : /\ Layout(w, k, m, fs, pos)
                 /\ Len(w) <= pos[m]
                 /\ whole => Len(w) = pos[m]

LEMMA EmptyInStep == ASSUME NEW k \in Nat PROVE InStep(<<>>, k, k, TRUE)
<1> DEFINE fs == [i \in Nat |-> <<>>]
           pos == [i \in Nat |-> 0]
<1>1. Layout(<<>>, k, k, fs, pos)
  BY DEF Layout, Positions
<1>2. Len(<<>>) = pos[k]
  OBVIOUS
<1> HIDE DEF fs, pos
<1>3. Len(<<>>) <= pos[k]
  BY <1>2
<1>4. QED
  BY <1>1, <1>2, <1>3, Zenon DEF InStep

(* The writer seals another frame.                                         *)
LEMMA AppendInStep ==
    ASSUME NEW w \in Seq(Unit), NEW k \in Nat, NEW m \in Nat, InStep(w, k, m, TRUE),
           NEW d \in Seq(Nat), Len(d) \in 1..MaxPlain
    PROVE  InStep(w \o Frame(d, m), k, m + 1, TRUE)
<1>1. PICK fs, pos : Layout(w, k, m, fs, pos) /\ Len(w) = pos[m]
  BY Zenon DEF InStep
<1>2. PICK n \in Nat : n = Len(d)
  OBVIOUS
<1>3. PICK l \in Nat : l = Len(w)
  OBVIOUS
<1>4. PICK x \in Seq(Unit) : x = Frame(d, m) /\ Len(x) = n + 3
  BY <1>2, FrameFacts
<1>y. PICK y : y = w \o x
  OBVIOUS
<1>5. /\ y \in Seq(Unit) /\ Len(y) = l + (n + 3)
      /\ \A i \in 1..l : y[i] = w[i]
      /\ \A i \in 1..(n + 3) : y[l + i] = x[i]
  <2>1. PICK z \in Nat : z = n + 3 /\ z = Len(x)
    BY <1>4
  <2>2. /\ y \in Seq(Unit) /\ Len(y) = l + z
        /\ \A i \in 1..l : y[i] = w[i]
        /\ \A i \in 1..z : y[l + i] = x[i]
    <3>1. z = Len(x)
      BY <2>1
    <3>2. QED
      BY <1>3, <3>1, <1>y, UnitsAt, Zenon
  <2>3. QED
    BY <2>1, <2>2, Zenon
<1> DEFINE fs2 == [fs EXCEPT ![m] = d]
           pos2 == [pos EXCEPT ![m + 1] = l + (n + 3)]
<1>f. fs \in [Nat -> Seq(Nat)] /\ Positions(k, m, pos) /\ pos[m] = l
  BY <1>1, <1>3 DEF Layout
<1>6. fs2 \in [Nat -> Seq(Nat)] /\ fs2[m] = d /\ \A i \in k..(m - 1) : fs2[i] = fs[i]
  <2>1. fs2 \in [Nat -> Seq(Nat)] /\ fs2[m] = d
    BY <1>f
  <2>2. ASSUME NEW i \in k..(m - 1) PROVE fs2[i] = fs[i]
    <3>1. i \in Nat /\ i # m
      OBVIOUS
    <3>2. QED
      BY <1>f, <3>1
  <2>3. QED
    BY <2>1, <2>2
<1>i. pos \in [Nat -> Int] /\ l + (n + 3) \in Int /\ m + 1 \in Nat
  BY <1>f DEF Positions
<1>7. /\ pos2 \in [Nat -> Int] /\ pos2[m + 1] = l + (n + 3)
      /\ \A i \in k..m : pos2[i] = pos[i]
  <2>1. pos2 \in [Nat -> Int] /\ pos2[m + 1] = l + (n + 3)
    BY <1>i
  <2>2. ASSUME NEW i \in k..m PROVE pos2[i] = pos[i]
    <3>1. i \in Nat /\ i # m + 1
      OBVIOUS
    <3>2. QED
      BY <1>i, <3>1
  <2>3. QED
    BY <2>1, <2>2
<1> HIDE DEF fs2, pos2
<1>p. /\ k <= m /\ pos[k] = 0
      /\ \A i \in k..m : pos[i] \in Int /\ 0 <= pos[i] /\ pos[i] <= l
      /\ \A i, j \in k..m : i <= j => pos[i] <= pos[j]
  <2>1. k \in Nat /\ m \in Nat /\ k <= m /\ pos[k] = 0
    BY <1>f DEF Positions
  <2>2. \A i, j \in k..m : i <= j => pos[i] <= pos[j]
    BY <1>f DEF Positions
  <2>3. ASSUME NEW i \in k..m PROVE pos[i] \in Int /\ 0 <= pos[i] /\ pos[i] <= l
    <3>1. k \in k..m /\ m \in k..m /\ k <= i /\ i <= m /\ i \in Nat
      BY <2>1
    <3>2. pos[k] <= pos[i] /\ pos[i] <= pos[m]
      BY <2>2, <3>1
    <3>3. pos[i] \in Int
      BY <1>i, <3>1
    <3>4. QED
      BY <1>f, <2>1, <3>2, <3>3
  <2>4. QED
    BY <2>1, <2>2, <2>3
<1>8. \A i, j \in k..(m + 1) : i <= j => pos2[i] <= pos2[j]
  <2> SUFFICES ASSUME NEW i \in k..(m + 1), NEW j \in k..(m + 1), i <= j
               PROVE  pos2[i] <= pos2[j]
    OBVIOUS
  <2>1. CASE j = m + 1 /\ i = m + 1
    BY <1>7, <2>1
  <2>2. CASE j = m + 1 /\ i \in k..m
    <3>1. pos2[j] = l + (n + 3)
      BY <1>7, <2>2
    <3>2. pos2[i] = pos[i] /\ pos[i] \in Int /\ pos[i] <= l
      BY <1>7, <1>p, <2>2
    <3>3. QED
      BY <3>1, <3>2
  <2>3. CASE j \in k..m
    <3>1. i \in k..m
      BY <2>3
    <3>2. QED
      BY <1>p, <1>7, <2>3, <3>1
  <2>4. QED
    BY <2>1, <2>2, <2>3
<1>9. ASSUME NEW i \in k..m
      PROVE  /\ Len(fs2[i]) \in 1..MaxPlain
             /\ pos2[i + 1] = pos2[i] + (Len(fs2[i]) + 3)
             /\ Begins(y, pos2[i], fs2[i], i)
  <2>1. CASE i = m
    <3>1. fs2[i] = d /\ pos2[i] = l /\ pos2[i + 1] = l + (n + 3)
      BY <1>6, <1>7, <1>p, <1>f, <2>1
    <3>2. Begins(y, l, d, m)
      BY <1>2, <1>4, <1>5 DEF Begins
    <3>3. QED
      BY <1>2, <2>1, <3>1, <3>2
  <2>2. CASE i \in k..(m - 1)
    <3>1. i + 1 \in k..m /\ i \in k..m
      BY <2>2
    <3>2. /\ fs2[i] = fs[i] /\ pos2[i] = pos[i] /\ pos2[i + 1] = pos[i + 1]
      BY <1>6, <1>7, <2>2, <3>1
    <3>3. /\ Len(fs[i]) \in 1..MaxPlain
          /\ pos[i + 1] = pos[i] + (Len(fs[i]) + 3)
          /\ Begins(w, pos[i], fs[i], i)
      BY <1>1, <2>2 DEF Layout
    <3>4. PICK c \in Nat : c = Len(fs[i])
      BY <3>3, MaxPlainAssumption
    <3>5. pos[i] \in Int /\ 0 <= pos[i] /\ pos[i + 1] <= l
      BY <1>p, <3>1
    <3>6. Begins(y, pos[i], fs[i], i)
      <4> SUFFICES ASSUME NEW j \in 1..(c + 3)
                   PROVE  y[pos[i] + j] = Frame(fs[i], i)[j]
        BY <3>4 DEF Begins
      <4>1. pos[i] + j \in 1..l
        <5>1. PICK p \in Int, q \in Int : p = pos[i] /\ q = pos[i + 1]
          BY <1>p, <3>1
        <5>2. q = p + (c + 3) /\ 0 <= p /\ q <= l
          BY <3>3, <3>4, <3>5, <5>1
        <5>3. p + j \in 1..l
          BY <5>2
        <5>4. QED
          BY <5>1, <5>3
      <4>2. w[pos[i] + j] = Frame(fs[i], i)[j]
        BY <1>3, <3>3, <3>4, <4>1 DEF Begins
      <4>3. QED
        BY <1>5, <4>1, <4>2
    <3>7. QED
      BY <3>2, <3>3, <3>6
  <2>3. QED
    BY <2>1, <2>2
<1>10. Layout(y, k, m + 1, fs2, pos2)
  <2>1. k <= m + 1 /\ pos2[k] = 0 /\ (m + 1) - 1 = m
    <3>1. k <= m
      BY <1>p
    <3>2. k \in k..m /\ k <= m + 1 /\ (m + 1) - 1 = m
      BY <3>1
    <3>3. pos2[k] = pos[k] /\ pos[k] = 0
      BY <1>p, <1>7, <3>2, Zenon
    <3>4. QED
      BY <3>2, <3>3, Zenon
  <2>2. Positions(k, m + 1, pos2)
    BY <1>7, <1>8, <2>1 DEF Positions
  <2>3. QED
    BY <1>6, <1>9, <2>1, <2>2, Zenon DEF Layout
<1>11. Len(y) = pos2[m + 1] /\ Len(y) <= pos2[m + 1]
  BY <1>5, <1>7
<1>12. InStep(y, k, m + 1, TRUE)
  BY <1>10, <1>11, Zenon DEF InStep
<1>13. QED
  BY <1>4, <1>y, <1>12

(* A stream that was cut off is still in step.                             *)
LEMMA CutInStep ==
    ASSUME NEW a \in Seq(Unit), NEW b \in Seq(Unit), NEW k \in Nat, NEW m \in Nat,
           NEW whole, InStep(a \o b, k, m, whole)
    PROVE  InStep(a, k, m, FALSE)
<1>1. PICK fs, pos : Layout(a \o b, k, m, fs, pos) /\ Len(a \o b) <= pos[m]
  BY Zenon DEF InStep
<1>2. PICK l \in Nat, n \in Nat : l = Len(a) /\ n = Len(b)
  OBVIOUS
<1>y. PICK y : y = a \o b
  OBVIOUS
<1>3. y = a \o b /\ Len(y) = l + n /\ \A i \in 1..l : y[i] = a[i]
  BY <1>2, <1>y, ConcatAt
<1>p. /\ pos[m] \in Int
      /\ \A i \in k..m : pos[i] \in Int /\ 0 <= pos[i]
  <2>1. Positions(k, m, pos)
    BY <1>1 DEF Layout
  <2>2. pos \in [Nat -> Int] /\ pos[m] \in Int
    BY <2>1 DEF Positions
  <2>3. ASSUME NEW i \in k..m PROVE pos[i] \in Int /\ 0 <= pos[i]
    <3>1. k \in k..m /\ k <= i /\ i \in Nat
      OBVIOUS
    <3>2. pos[k] = 0 /\ pos[k] <= pos[i]
      BY <2>1, <3>1 DEF Positions
    <3>3. QED
      BY <2>2, <3>1, <3>2
  <2>4. QED
    BY <2>2, <2>3
<1>4. pos[m] \in Int
  BY <1>p
<1>5. Len(a) <= pos[m]
  BY <1>1, <1>2, <1>3, <1>4
<1>6. ASSUME NEW i \in k..(m - 1) PROVE Begins(a, pos[i], fs[i], i)
  <2>1. Begins(y, pos[i], fs[i], i)
    BY <1>1, <1>3 DEF Layout
  <2>2. Len(fs[i]) \in Nat
    BY <1>1, MaxPlainAssumption DEF Layout
  <2>3. pos[i] \in Int /\ 0 <= pos[i]
    BY <1>p
  <2>4. SUFFICES ASSUME NEW j \in 1..(Len(fs[i]) + 3), pos[i] + j <= l
                 PROVE  a[pos[i] + j] = Frame(fs[i], i)[j]
    BY <1>2 DEF Begins
  <2>5. pos[i] + j \in 1..l /\ pos[i] + j <= l + n
    BY <2>2, <2>3, <2>4
  <2>6. y[pos[i] + j] = Frame(fs[i], i)[j]
    BY <1>3, <2>1, <2>5 DEF Begins
  <2>7. QED
    BY <1>3, <2>5, <2>6
<1>7. Layout(a, k, m, fs, pos)
  BY <1>1, <1>6 DEF Layout
<1>8. QED
  BY <1>5, <1>7, Zenon DEF InStep

(* What a reader that is in step has before it.                            *)
LEMMA FirstInStep ==
    ASSUME NEW w \in Seq(Unit), w # <<>>, NEW k \in Nat, NEW m \in Nat, NEW whole,
           InStep(w, k, m, whole)
    PROVE  \E d \in Seq(Nat) :
               /\ Len(d) \in 1..MaxPlain
               /\ Begins(w, 0, d, k)
               /\ whole => Len(d) + 3 <= Len(w)
               /\ Len(d) + 3 <= Len(w) => InStep(Drop(w, Len(d) + 3), k + 1, m, whole)
<1>1. PICK fs, pos : /\ Layout(w, k, m, fs, pos) /\ Len(w) <= pos[m]
                     /\ whole => Len(w) = pos[m]
  BY Zenon DEF InStep
<1>2. PICK l \in Nat : l = Len(w) /\ l >= 1
  OBVIOUS
<1>f. fs \in [Nat -> Seq(Nat)] /\ Positions(k, m, pos)
  BY <1>1 DEF Layout
<1>i. pos \in [Nat -> Int] /\ k <= m /\ pos[k] = 0
  BY <1>f DEF Positions
<1>3. k # m /\ k + 1 \in k..m /\ k \in k..(m - 1)
  <2>1. pos[m] \in Int /\ l <= pos[m]
    BY <1>1, <1>2, <1>i
  <2>2. k # m
    BY <1>2, <1>i, <2>1
  <2>3. QED
    BY <1>i, <2>2
<1>4. PICK d \in Seq(Nat) : d = fs[k]
  BY <1>f
<1>5. Len(d) \in 1..MaxPlain /\ pos[k + 1] = pos[k] + (Len(d) + 3) /\ Begins(w, pos[k], d, k)
  BY <1>1, <1>3, <1>4 DEF Layout
<1>6. PICK n \in Nat : n = Len(d)
  OBVIOUS
<1>7. pos[k + 1] = n + 3 /\ Begins(w, 0, d, k)
  BY <1>5, <1>6, <1>i
<1>8. \A i \in (k + 1)..m : pos[i] \in Int /\ n + 3 <= pos[i]
  <2> SUFFICES ASSUME NEW i \in (k + 1)..m PROVE pos[i] \in Int /\ n + 3 <= pos[i]
    OBVIOUS
  <2>1. i \in k..m /\ k + 1 <= i /\ i \in Nat
    OBVIOUS
  <2>2. pos[k + 1] <= pos[i]
    BY <1>3, <1>f, <2>1 DEF Positions
  <2>3. QED
    BY <1>7, <1>i, <2>1, <2>2
<1>9. whole => n + 3 <= l
  <2>1. m \in (k + 1)..m
    BY <1>3
  <2>2. QED
    BY <1>1, <1>2, <1>8, <2>1
<1>10. ASSUME n + 3 <= l PROVE InStep(Drop(w, n + 3), k + 1, m, whole)
  <2>1. PICK y : y = Drop(w, n + 3)
    OBVIOUS
  <2>2. n + 3 \in 0..Len(w)
    BY <1>2, <1>10
  <2>3. /\ y \in Seq(Unit) /\ Len(y) = l - (n + 3)
        /\ \A i \in 1..(l - (n + 3)) : y[i] = w[(n + 3) + i]
    BY <1>2, <2>1, <2>2, Pieces
  <2> DEFINE pos2 == [i \in Nat |-> pos[i] - (n + 3)]
  <2>4. pos2 \in [Nat -> Int] /\ \A i \in Nat : pos2[i] = pos[i] - (n + 3)
    BY <1>i
  <2> HIDE DEF pos2
  <2>5. Positions(k + 1, m, pos2)
    <3>1. k + 1 <= m /\ pos2[k + 1] = 0
      BY <1>3, <1>7, <2>4
    <3>2. ASSUME NEW i \in (k + 1)..m, NEW j \in (k + 1)..m, i <= j
          PROVE  pos2[i] <= pos2[j]
      <4>1. i \in k..m /\ j \in k..m /\ i \in Nat /\ j \in Nat
        OBVIOUS
      <4>2. pos[i] <= pos[j] /\ pos[i] \in Int /\ pos[j] \in Int
        BY <1>f, <1>i, <3>2, <4>1 DEF Positions
      <4>3. pos2[i] = pos[i] - (n + 3) /\ pos2[j] = pos[j] - (n + 3)
        BY <2>4, <4>1
      <4>4. QED
        BY <4>2, <4>3
    <3>3. QED
      BY <2>4, <3>1, <3>2 DEF Positions
  <2>6. ASSUME NEW i \in (k + 1)..(m - 1)
        PROVE  /\ Len(fs[i]) \in 1..MaxPlain
               /\ pos2[i + 1] = pos2[i] + (Len(fs[i]) + 3)
               /\ Begins(y, pos2[i], fs[i], i)
    <3>1. i \in k..(m - 1) /\ i \in (k + 1)..m /\ i \in Nat /\ i + 1 \in Nat /\ i + 1 \in (k + 1)..m
      OBVIOUS
    <3>2. /\ Len(fs[i]) \in 1..MaxPlain
          /\ pos[i + 1] = pos[i] + (Len(fs[i]) + 3)
          /\ Begins(w, pos[i], fs[i], i)
      BY <1>1, <3>1 DEF Layout
    <3>3. PICK c \in Nat : c = Len(fs[i])
      BY <3>2, MaxPlainAssumption
    <3>4. PICK p \in Int : p = pos[i] /\ n + 3 <= p
      BY <1>8, <3>1
    <3>5. pos2[i] = p - (n + 3)
      BY <2>4, <3>1, <3>4
    <3>6. pos2[i + 1] = pos2[i] + (c + 3)
      <4>1. pos[i + 1] = p + (c + 3)
        BY <3>2, <3>3, <3>4
      <4>2. pos2[i + 1] = (p + (c + 3)) - (n + 3)
        BY <2>4, <3>1, <4>1
      <4>3. QED
        BY <3>5, <4>2
    <3>7. Begins(y, p - (n + 3), fs[i], i)
      <4> SUFFICES ASSUME NEW j \in 1..(c + 3), (p - (n + 3)) + j <= l - (n + 3)
                   PROVE  y[(p - (n + 3)) + j] = Frame(fs[i], i)[j]
        BY <2>3, <3>3 DEF Begins
      <4>1. PICK q \in Nat : q = (p - (n + 3)) + j
        BY <3>4
      <4>2. q \in 1..(l - (n + 3)) /\ (n + 3) + q = p + j /\ p + j <= l
        <5>1. p \in Int /\ j \in Int /\ 1 <= j /\ n + 3 <= p
          BY <3>4
        <5>2. 1 <= q /\ q <= l - (n + 3)
          BY <4>1, <5>1
        <5>3. QED
          BY <4>1, <5>1, <5>2
      <4>3. y[q] = w[p + j]
        BY <2>3, <4>2
      <4>4. w[p + j] = Frame(fs[i], i)[j]
        BY <1>2, <3>2, <3>3, <3>4, <4>2 DEF Begins
      <4>5. QED
        BY <4>1, <4>3, <4>4
    <3>8. QED
      BY <3>2, <3>3, <3>5, <3>6, <3>7
  <2>7. Layout(y, k + 1, m, fs, pos2)
    BY <1>f, <2>5, <2>6, Zenon DEF Layout
  <2>8. Len(y) <= pos2[m] /\ (whole => Len(y) = pos2[m])
    <3>1. pos[m] \in Int /\ pos2[m] = pos[m] - (n + 3)
      BY <1>i, <2>4
    <3>2. l <= pos[m] /\ (whole => l = pos[m])
      BY <1>1, <1>2
    <3>3. QED
      BY <2>3, <3>1, <3>2
  <2>9. InStep(y, k + 1, m, whole)
    BY <2>7, <2>8, Zenon DEF InStep
  <2>10. QED
    BY <2>1, <2>9, Zenon
<1>11. QED
  BY <1>2, <1>5, <1>6, <1>7, <1>9, <1>10, Zenon

(* The first frame, as the readers see it.                                 *)
LEMMA FirstFrame ==
    ASSUME NEW w \in Seq(Unit), NEW d \in Seq(Nat), NEW nonce \in Nat,
           Begins(w, 0, d, nonce)
    PROVE  /\ Len(w) >= 2 => FrameLen(w) = Len(d) + 1
           /\ \A i \in 1..2 : i <= Len(w) => w[i].k = "len"
           /\ Len(d) + 3 <= Len(w) => /\ Take(w, Len(d) + 3) = Frame(d, nonce)
                                      /\ SubSeq(w, 3, Len(d) + 3) = Seal(d, nonce)
<1>1. PICK n \in Nat, l \in Nat : n = Len(d) /\ l = Len(w)
  OBVIOUS
<1>2. PICK h \in Seq(Unit) : /\ h = Header(n + 1) /\ Len(h) = 2
                             /\ Value(h[1]) * Base + Value(h[2]) = n + 1
                             /\ h[1].k = "len" /\ h[2].k = "len"
  <2>1. /\ Header(n + 1) \in Seq(Unit) /\ Len(Header(n + 1)) = 2
        /\ Value(Header(n + 1)[1]) * Base + Value(Header(n + 1)[2]) = n + 1
    BY HeaderFacts
  <2>2. Header(n + 1)[1].k = "len" /\ Header(n + 1)[2].k = "len"
    BY DEF Header
  <2>3. QED
    BY <2>1, <2>2, Zenon
<1>3. PICK b \in Seq(Unit) : b = Seal(d, nonce) /\ Len(b) = n + 1
  BY <1>1, SealFacts
<1>4. PICK f \in Seq(Unit) : f = Frame(d, nonce) /\ Len(f) = n + 3
  BY <1>1, FrameFacts
<1>5. f = h \o b
  BY <1>1, <1>2, <1>3, <1>4 DEF Frame
<1>6. f[1] = h[1] /\ f[2] = h[2]
  BY <1>2, <1>5
<1>7. \A j \in 1..(n + 3) : j <= l => w[j] = f[j]
  <2>1. SUFFICES ASSUME NEW j \in 1..(n + 3), j <= l PROVE w[j] = f[j]
    OBVIOUS
  <2>2. 0 + j = j
    OBVIOUS
  <2>3. QED
    BY <1>1, <1>4, <2>1, <2>2 DEF Begins
<1>8. l >= 2 => FrameLen(w) = n + 1
  <2>1. SUFFICES ASSUME l >= 2 PROVE Value(w[1]) * Base + Value(w[2]) = n + 1
    BY DEF FrameLen
  <2>2. w[1] = h[1] /\ w[2] = h[2]
    BY <1>6, <1>7, <2>1
  <2>3. QED
    BY <1>2, <2>2, Zenon
<1>9. \A i \in 1..2 : i <= l => w[i].k = "len"
  <2>1. SUFFICES ASSUME NEW i \in 1..2, i <= l PROVE w[i].k = "len"
    OBVIOUS
  <2>2. w[i] = f[i]
    <3>1. i \in 1..(n + 3)
      OBVIOUS
    <3>2. QED
      BY <1>7, <2>1, <3>1
  <2>3. CASE i = 1
    BY <1>2, <1>6, <2>2, <2>3
  <2>4. CASE i = 2
    BY <1>2, <1>6, <2>2, <2>4
  <2>5. QED
    BY <2>3, <2>4
<1>10. ASSUME n + 3 <= l
       PROVE  Take(w, n + 3) = f /\ SubSeq(w, 3, n + 3) = b
  <2>1. Take(w, n + 3) = f
    <3>1. n + 3 \in 0..Len(w)
      BY <1>1, <1>10
    <3>2. PICK t \in Seq(Unit) : /\ t = Take(w, n + 3) /\ Len(t) = n + 3
                                 /\ \A i \in 1..(n + 3) : t[i] = w[i]
      BY <3>1, Pieces
    <3>3. \A i \in 1..(n + 3) : t[i] = f[i]
      BY <1>7, <1>10, <3>2
    <3>4. t = f
      BY <1>4, <3>2, <3>3, SeqEqual
    <3>5. QED
      BY <3>2, <3>4
  <2>2. SubSeq(w, 3, n + 3) = b
    <3>1. PICK t : t = SubSeq(w, 3, n + 3)
      OBVIOUS
    <3>2. t \in Seq(Unit) /\ Len(t) = n + 1 /\ \A i \in 1..(n + 1) : t[i] = w[2 + i]
      <4>1. \A i \in 3..(n + 3) : w[i] \in Unit
        BY <1>1, <1>10
      <4>2. 3 \in Int /\ n + 3 \in Int /\ 3 <= n + 3
        OBVIOUS
      <4>3. /\ t \in Seq(Unit)
            /\ Len(t) = IF 3 <= n + 3 THEN (n + 3) - 3 + 1 ELSE 0
            /\ \A i \in 1..((n + 3) - 3 + 1) : t[i] = w[3 + i - 1]
        BY <3>1, <4>1, <4>2, SubSeqProperties
      <4>4. (n + 3) - 3 + 1 = n + 1 /\ \A i \in 1..(n + 1) : 3 + i - 1 = 2 + i
        OBVIOUS
      <4>5. QED
        BY <4>2, <4>3, <4>4
    <3>3. \A i \in 1..(n + 1) : f[2 + i] = b[i]
      <4>1. PICK c \in Nat : c = n + 1 /\ c = Len(b)
        BY <1>3
      <4>2. \A i \in 1..c : f[2 + i] = b[i]
        <5>1. c = Len(b) /\ 2 = Len(h)
          BY <1>2, <4>1
        <5>2. \A i \in 1..Len(b) : (h \o b)[Len(h) + i] = b[i]
          BY UnitsAt
        <5>3. QED
          BY <1>5, <5>1, <5>2
      <4>3. QED
        BY <4>1, <4>2
    <3>4. ASSUME NEW i \in 1..(n + 1) PROVE t[i] = b[i]
      <4>1. PICK j \in 1..(n + 3) : j = 2 + i /\ j <= l
        BY <1>10
      <4>2. t[i] = w[j] /\ w[j] = f[j] /\ f[j] = b[i]
        BY <1>7, <3>2, <3>3, <4>1
      <4>3. QED
        BY <4>2
    <3>5. t = b
      BY <1>3, <3>2, <3>4, SeqEqual
    <3>6. QED
      BY <3>1, <3>5
  <2>3. QED
    BY <2>1, <2>2
<1>11. QED
  BY <1>1, <1>3, <1>4, <1>8, <1>9, <1>10, Zenon

LEMMA ValueType == ASSUME NEW u \in Unit PROVE Value(u) \in Nat
BY DEF Unit, Value

LEMMA FrameLenType ==
    ASSUME NEW s \in Seq(Unit), Len(s) >= 2
    PROVE  FrameLen(s) \in Nat
<1>1. s[1] \in Unit /\ s[2] \in Unit
  OBVIOUS
<1>2. PICK a \in Nat, b \in Nat : a = Value(s[1]) /\ b = Value(s[2])
  BY <1>1, ValueType
<1>3. a * Base + b \in Nat
  BY BaseAssumption
<1>4. QED
  BY <1>2, <1>3, Zenon DEF FrameLen

LEMMA MissingType == ASSUME NEW s \in Seq(Unit) PROVE Missing(s) \in Int
<1>1. PICK l \in Nat : l = Len(s)
  OBVIOUS
<1>2. CASE l < 2
  BY <1>1, <1>2 DEF Missing
<1>3. CASE ~(l < 2)
  <2>1. FrameLen(s) \in Nat
    BY <1>1, <1>3, FrameLenType
  <2>2. Missing(s) = 2 + FrameLen(s) - l
    BY <1>1, <1>3 DEF Missing
  <2>3. QED
    BY <2>1, <2>2
<1>4. QED
  BY <1>2, <1>3

LEMMA InStepWeaker ==
    ASSUME NEW w, NEW k, NEW m, NEW p, NEW q, q => p, InStep(w, k, m, p)
    PROVE  InStep(w, k, m, q)
BY Zenon DEF InStep

(* How pieces may be regrouped; as predicates, so that a proof can name the *)
(* pieces it means.                                                        *)
Associates(a, b, c) == (a \o b) \o c = a \o (b \o c)
Shifts(p, u, x, y) == (p \o (u \o x)) \o y = (p \o u) \o (x \o y)

LEMMA UnitsAssociate == \A a, b, c \in Seq(Unit) : Associates(a, b, c)
BY DEF Associates

LEMMA UnitsShift == \A p, u, x, y \in Seq(Unit) : Shifts(p, u, x, y)
BY SMTT(30) DEF Shifts

LEMMA NumbersAssociate == \A a, b, c \in Seq(Nat) : Associates(a, b, c)
BY DEF Associates

LEMMA NumbersShift == \A p, u, x, y \in Seq(Nat) : Shifts(p, u, x, y)
<1>1. SUFFICES ASSUME NEW p \in Seq(Nat), NEW u \in Seq(Nat), NEW x \in Seq(Nat),
                      NEW y \in Seq(Nat)
               PROVE  Shifts(p, u, x, y)
  BY Zenon
<1>2. Associates(p, u, x) /\ p \o u \in Seq(Nat)
  BY NumbersAssociate, Numbers, Zenon
<1>3. Associates(p \o u, x, y)
  BY <1>2, NumbersAssociate, Zenon
<1>4. QED
  BY <1>2, <1>3, Zenon DEF Associates, Shifts

LEMMA SameFrameLen ==
    ASSUME NEW a \in Seq(Unit), NEW z \in Seq(Unit), Len(a) >= 2
    PROVE  FrameLen(a \o z) = FrameLen(a)
<1>1. 1 \in 1..Len(a) /\ 2 \in 1..Len(a)
  OBVIOUS
<1>2. (a \o z)[1] = a[1] /\ (a \o z)[2] = a[2]
  BY <1>1, UnitsAt
<1>3. QED
  BY <1>2, Zenon DEF FrameLen

(* A reader that has all a length announces has the next frame.            *)
LEMMA CompleteFrame ==
    ASSUME NEW a \in Seq(Unit), NEW z \in Seq(Unit), NEW k \in Nat, NEW m \in Nat, NEW whole,
           InStep(a \o z, k, m, whole), Missing(a) = 0
    PROVE  \E d \in Seq(Nat) :
               /\ Len(d) \in 1..MaxPlain
               /\ a = Frame(d, k) /\ Drop(a, 2) = Seal(d, k)
               /\ InStep(z, k + 1, m, whole)
<1>1. PICK l \in Nat : l = Len(a)
  OBVIOUS
<1>2. l >= 2 /\ FrameLen(a) \in Nat /\ l = FrameLen(a) + 2
  <2>1. l >= 2
    <3>1. SUFFICES ASSUME l < 2 PROVE FALSE
      OBVIOUS
    <3>2. Missing(a) = 2 - l
      BY <1>1, <3>1 DEF Missing
    <3>3. QED
      BY <3>1, <3>2
  <2>2. FrameLen(a) \in Nat
    BY <1>1, <2>1, FrameLenType
  <2>3. Missing(a) = 2 + FrameLen(a) - l
    BY <1>1, <2>1 DEF Missing
  <2>4. QED
    BY <2>1, <2>2, <2>3
<1>3. PICK w \in Seq(Unit) : w = a \o z
  BY Units, Zenon
<1>4. Len(w) \in Nat /\ Len(w) >= l /\ w # <<>> /\ FrameLen(w) = FrameLen(a)
  <2>1. Len(w) = l + Len(z)
    BY <1>1, <1>3, Joined, Zenon
  <2>2. Len(w) \in Nat /\ Len(w) >= l
    <3>1. PICK i \in Nat : i = Len(z)
      OBVIOUS
    <3>2. QED
      BY <2>1, <3>1
  <2>3. w # <<>>
    BY <1>2, <2>2
  <2>4. QED
    BY <1>1, <1>2, <1>3, <2>2, <2>3, SameFrameLen
<1>5. PICK d \in Seq(Nat) :
               /\ Len(d) \in 1..MaxPlain
               /\ Begins(w, 0, d, k)
               /\ Len(d) + 3 <= Len(w) => InStep(Drop(w, Len(d) + 3), k + 1, m, whole)
  <2>1. InStep(w, k, m, whole)
    BY <1>3, Zenon
  <2>2. QED
    BY <1>4, <2>1, FirstInStep, Zenon
<1>6. PICK n \in Nat : n = Len(d)
  OBVIOUS
<1>7. FrameLen(w) = n + 1
  BY <1>2, <1>4, <1>5, <1>6, FirstFrame
<1>8. l = n + 3
  BY <1>2, <1>4, <1>7
<1>9. n + 3 <= Len(w)
  BY <1>4, <1>8
<1>10. Take(w, n + 3) = Frame(d, k)
  BY <1>5, <1>6, <1>9, FirstFrame
<1>11. Take(w, l) = a /\ Drop(w, l) = z
  BY <1>1, <1>3, CutBetween, Zenon
<1>12. a = Frame(d, k)
  BY <1>8, <1>10, <1>11
<1>13. InStep(z, k + 1, m, whole)
  <2>1. InStep(Drop(w, n + 3), k + 1, m, whole)
    BY <1>5, <1>6, <1>9
  <2>2. QED
    BY <1>8, <1>11, <2>1
<1>14. Drop(a, 2) = Seal(d, k)
  <2>1. PICK h \in Seq(Unit) : h = Header(n + 1) /\ Len(h) = 2
    BY HeaderFacts
  <2>2. PICK b \in Seq(Unit) : b = Seal(d, k)
    BY SealFacts
  <2>3. a = h \o b
    BY <1>6, <1>12, <2>1, <2>2 DEF Frame
  <2>4. Drop(h \o b, Len(h)) = b
    BY CutBetween
  <2>5. QED
    BY <2>1, <2>2, <2>3, <2>4
<1>15. QED
  BY <1>5, <1>12, <1>13, <1>14, Zenon

(* The bytes of a length carry no data.                                    *)
LEMMA LengthBytes ==
    ASSUME NEW a \in Seq(Unit), NEW z \in Seq(Unit), NEW k \in Nat, NEW m \in Nat, NEW whole,
           InStep(a \o z, k, m, whole), Len(a) <= 2
    PROVE  Payload(a) = <<>>
<1>1. CASE a = <<>>
  BY <1>1, PayloadEmpty
<1>2. CASE a # <<>>
  <2>1. PICK w \in Seq(Unit) : w = a \o z
    BY Units, Zenon
  <2>2. /\ w # <<>> /\ Len(a) \in Nat /\ Len(w) \in Nat /\ Len(a) <= Len(w)
        /\ \A i \in 1..Len(a) : w[i] = a[i]
    BY <1>2, <2>1
  <2>3. PICK d \in Seq(Nat) : Begins(w, 0, d, k)
    <3>1. InStep(w, k, m, whole)
      BY <2>1
    <3>2. QED
      BY <2>2, <3>1, FirstInStep, Zenon
  <2>4. \A i \in 1..2 : i <= Len(w) => w[i].k = "len"
    BY <2>3, FirstFrame
  <2>5. \A i \in 1..Len(a) : a[i].k # "data"
    <3>1. SUFFICES ASSUME NEW i \in 1..Len(a) PROVE a[i].k # "data"
      OBVIOUS
    <3>2. i \in 1..2 /\ i <= Len(w)
      BY <2>2
    <3>3. w[i].k = "len" /\ w[i] = a[i]
      BY <2>2, <2>4, <3>2, Zenon
    <3>4. QED
      BY <3>3
  <2>6. QED
    BY <2>5, PayloadNone
<1>3. QED
  BY <1>1, <1>2
==============================================================================
