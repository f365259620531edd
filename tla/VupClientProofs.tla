--------------------------- MODULE VupClientProofs ---------------------------
(***************************************************************************)
(* The proof that the client handles each request at most once, loses none *)
(* of an accepted client but to the full pool, and keeps the order of      *)
(* those that arrive when it is connected; for every size of the pool and  *)
(* any number of requests and changes.                                     *)
(*                                                                         *)
(* What was handled, what is left of the array and what is in the pool     *)
(* form one line.  A packet joins it at its end and leaves it once; Tick   *)
(* only moves the two borders, except that a packet that came before the   *)
(* answer goes back to the end.                                            *)
(***************************************************************************)
EXTENDS VupClient, SequenceTheorems, FiniteSetTheorems, TLAPS

USE ClientAssumption

\* Three sequences, one behind the other.
Chain(h, b, p) == h \o b \o p

Line == Chain(handled, batch, pool)

\* No message is twice in q.
Distinct(q) == \A x, y \in DOMAIN q : q[x] = q[y] => x = y

\* The messages of l are in q, in that order.
Follows(l, q) ==
  /\ \A i \in DOMAIN l : \E x \in DOMAIN q : q[x] = l[i]
  /\ \A i, j \in DOMAIN l : i < j =>
       \E x, y \in DOMAIN q : x < y /\ q[x] = l[i] /\ q[y] = l[j]

\* A message is in the line, on its way, or lost.
Apart ==
  /\ Distinct(Line)
  /\ ToSet(Line) \cap (net \cup lost) = {}
  /\ net \cap lost = {}

Somewhere == ToSet(Line) \cup net \cup lost

\* Where a message is, it was sent; and the client knows no more than was answered.
OnlySent ==
  /\ \A m \in Somewhere : IsSent(m)
  /\ registering => answer = "none"
  /\ connected => answer = "Accept"
  /\ answer # "Accept" => sent = 0

NoneGone ==
  answer = "Accept" => \A n \in 1..sent : \E m \in Message : m.n = n /\ m \in Somewhere

\* The array is filled once per tick, with packets that are there.
TickState ==
  /\ mainPc = "idle" => asked = 0 /\ batch = <<>>
  /\ asked > 0 => batch = <<>>
  /\ asked <= Len(pool)

\* While Tick waits for the answer, nothing in its array came after the answer.
LateAfterAnswer ==
  /\ ~connected => late = <<>>
  /\ mainPc = "waiting" =>
       (asked > 0 => ~connected) /\ ToSet(batch) \cap ToSet(late) = {}

ClientInv ==
  /\ TypeOK /\ Apart /\ OnlySent /\ NoneGone /\ TickState
  /\ Follows(late, Line) /\ LateAfterAnswer

-----------------------------------------------------------------------------
(* Lines. *)

\* q is made of h, b and p.
IsLine(q, h, b, p) ==
  /\ Len(q) = Len(h) + Len(b) + Len(p)
  /\ \A x \in 1..Len(h) : q[x] = h[x]
  /\ \A x \in 1..Len(b) : q[Len(h) + x] = b[x]
  /\ \A x \in 1..Len(p) : q[Len(h) + Len(b) + x] = p[x]

\* r is q without the n messages behind the first a.
IsShorter(r, q, a, n) ==
  /\ a + n <= Len(q) /\ Len(r) = Len(q) - n
  /\ \A x \in DOMAIN r : r[x] = IF x <= a THEN q[x] ELSE q[x + n]
Part(q, a, n) == {q[x] : x \in (a + 1)..(a + n)}

\* Concatenation of sequences of messages.
LEMMA TwoPieces ==
  ASSUME NEW s \in Seq(Message), NEW t \in Seq(Message)
  PROVE  /\ s \o t \in Seq(Message) /\ Len(s \o t) = Len(s) + Len(t)
         /\ \A x \in 1..(Len(s) + Len(t)) :
              (s \o t)[x] = IF x <= Len(s) THEN s[x] ELSE t[x - Len(s)]
  BY ConcatProperties

LEMMA ThreePieces ==
  ASSUME NEW s \in Seq(Message), NEW t \in Seq(Message), NEW u \in Seq(Message)
  PROVE  (s \o t) \o u = s \o (t \o u)
  BY ConcatAssociative

\* The places of a line, piece by piece, and what is in it.
LEMMA LinePieces ==
  ASSUME NEW h \in Seq(Message), NEW b \in Seq(Message), NEW p \in Seq(Message)
  PROVE  Chain(h, b, p) \in Seq(Message) /\ IsLine(Chain(h, b, p), h, b, p)
<1> DEFINE hb == h \o b
<1>1. /\ hb \in Seq(Message) /\ Len(hb) = Len(h) + Len(b)
      /\ \A x \in 1..(Len(h) + Len(b)) : hb[x] = IF x <= Len(h) THEN h[x] ELSE b[x - Len(h)]
  BY ConcatProperties
<1> HIDE DEF hb
<1>2. /\ hb \o p \in Seq(Message) /\ Len(hb \o p) = Len(hb) + Len(p)
      /\ \A x \in 1..(Len(hb) + Len(p)) : (hb \o p)[x] = IF x <= Len(hb) THEN hb[x] ELSE p[x - Len(hb)]
  <2>1. hb \in Seq(Message)
    BY <1>1
  <2> QED
    BY <2>1, TwoPieces
<1>3. \A x \in 1..Len(h) : (hb \o p)[x] = h[x]
  BY <1>1, <1>2
<1>4. \A x \in 1..Len(b) : (hb \o p)[Len(h) + x] = b[x]
  <2> TAKE x \in 1..Len(b)
  <2>1. Len(h) + x \in 1..(Len(h) + Len(b)) /\ ~(Len(h) + x <= Len(h)) /\ (Len(h) + x) - Len(h) = x
    OBVIOUS
  <2>2. hb[Len(h) + x] = b[x]
    BY <1>1, <2>1
  <2> QED
    BY <1>1, <1>2, <2>1, <2>2
<1>5. \A x \in 1..Len(p) : (hb \o p)[Len(h) + Len(b) + x] = p[x]
  <2> TAKE x \in 1..Len(p)
  <2> DEFINE z == Len(h) + Len(b) + x
  <2>1. z \in 1..(Len(hb) + Len(p)) /\ ~(z <= Len(hb)) /\ z - Len(hb) = x
    BY <1>1
  <2> HIDE DEF z
  <2>2. (hb \o p)[z] = p[x]
    BY <1>2, <2>1
  <2> QED
    BY <2>2 DEF z
<1> QED
  BY <1>1, <1>2, <1>3, <1>4, <1>5 DEF hb, IsLine, Chain

LEMMA LineSet ==
  ASSUME NEW h \in Seq(Message), NEW b \in Seq(Message), NEW p \in Seq(Message)
  PROVE  ToSet(Chain(h, b, p)) = ToSet(h) \cup ToSet(b) \cup ToSet(p)
<1> DEFINE q == Chain(h, b, p)
<1>1. /\ q \in Seq(Message) /\ Len(q) = Len(h) + Len(b) + Len(p)
      /\ \A x \in 1..Len(h) : q[x] = h[x]
      /\ \A x \in 1..Len(b) : q[Len(h) + x] = b[x]
      /\ \A x \in 1..Len(p) : q[Len(h) + Len(b) + x] = p[x]
  <2>1. q \in Seq(Message) /\ IsLine(q, h, b, p)
    BY LinePieces
  <2> QED
    BY <2>1 DEF IsLine
<1>0. /\ DOMAIN h = 1..Len(h) /\ DOMAIN b = 1..Len(b) /\ DOMAIN p = 1..Len(p)
      /\ Len(h) \in Nat /\ Len(b) \in Nat /\ Len(p) \in Nat
      /\ DOMAIN q = 1..(Len(h) + Len(b) + Len(p))
  BY <1>1
<1> HIDE DEF q
<1>2. ASSUME NEW x \in DOMAIN q PROVE q[x] \in ToSet(h) \cup ToSet(b) \cup ToSet(p)
  <2>1. CASE x \in 1..Len(h)
    BY <1>1, <2>1 DEF ToSet
  <2>2. CASE x > Len(h) /\ x <= Len(h) + Len(b)
    <3> DEFINE y == x - Len(h)
    <3>1. y \in 1..Len(b) /\ x = Len(h) + y
      BY <1>1, <2>2
    <3> HIDE DEF y
    <3>2. q[x] = b[y] /\ y \in DOMAIN b
      BY <1>0, <1>1, <3>1
    <3> QED
      BY <3>2 DEF ToSet
  <2>3. CASE x > Len(h) + Len(b)
    <3> DEFINE y == x - Len(h) - Len(b)
    <3>1. y \in 1..Len(p) /\ x = Len(h) + Len(b) + y
      BY <1>1, <2>3
    <3> HIDE DEF y
    <3>2. q[x] = p[y] /\ y \in DOMAIN p
      BY <1>0, <1>1, <3>1
    <3> QED
      BY <3>2 DEF ToSet
  <2> QED
    BY <1>1, <2>1, <2>2, <2>3
<1>3. ASSUME NEW x \in DOMAIN h PROVE h[x] \in ToSet(q)
  <2>1. x \in DOMAIN q /\ q[x] = h[x]
    BY <1>0, <1>1
  <2> QED
    BY <2>1 DEF ToSet
<1>4. ASSUME NEW x \in DOMAIN b PROVE b[x] \in ToSet(q)
  <2>1. x \in 1..Len(b)
    BY <1>0
  <2>2. q[Len(h) + x] = b[x]
    BY <1>1, <2>1
  <2>3. Len(h) + x \in DOMAIN q
    BY <1>0, <2>1
  <2> QED
    BY <2>2, <2>3 DEF ToSet
<1>5. ASSUME NEW x \in DOMAIN p PROVE p[x] \in ToSet(q)
  <2>1. Len(h) + Len(b) + x \in DOMAIN q /\ q[Len(h) + Len(b) + x] = p[x]
    BY <1>0, <1>1
  <2> QED
    BY <2>1 DEF ToSet
<1>6. ToSet(q) = ToSet(h) \cup ToSet(b) \cup ToSet(p)
  BY <1>2, <1>3, <1>4, <1>5 DEF ToSet
<1> QED
  BY <1>6 DEF q

\* A new message joins the line.
LEMMA LineJoined ==
  ASSUME NEW q \in Seq(Message), NEW m \in Message \ ToSet(q), Distinct(q)
  PROVE  /\ Distinct(Append(q, m)) /\ ToSet(Append(q, m)) = ToSet(q) \cup {m}
         /\ \A l \in Seq(Message) : Follows(l, q) =>
              Follows(l, Append(q, m)) /\ Follows(Append(l, m), Append(q, m))
<1> DEFINE r == Append(q, m)
           last == Len(q) + 1
<1>1. /\ DOMAIN r = 1..last /\ DOMAIN q = 1..Len(q) /\ Len(q) \in Nat
      /\ \A x \in 1..Len(q) : r[x] = q[x]
      /\ r[last] = m /\ \A x \in 1..Len(q) : q[x] # m
  BY DEF ToSet
<1>2. Distinct(r)
  BY <1>1 DEF Distinct
<1>3. ToSet(r) = ToSet(q) \cup {m}
  BY <1>1 DEF ToSet
<1>4. ASSUME NEW l \in Seq(Message), Follows(l, q)
      PROVE  Follows(l, r) /\ Follows(Append(l, m), r)
  <2> HIDE DEF r
  <2>1. /\ \A i \in DOMAIN l : \E x \in DOMAIN q : q[x] = l[i]
        /\ \A i, j \in DOMAIN l : i < j =>
             \E x, y \in DOMAIN q : x < y /\ q[x] = l[i] /\ q[y] = l[j]
    BY <1>4 DEF Follows
  <2>2. \A i \in DOMAIN l : \E x \in DOMAIN q : r[x] = l[i]
    BY <1>1, <2>1
  <2>3. \A i, j \in DOMAIN l : i < j =>
          \E x, y \in DOMAIN q : x < y /\ r[x] = l[i] /\ r[y] = l[j]
    BY <1>1, <2>1
  <2>4. DOMAIN q \subseteq DOMAIN r /\ last \in DOMAIN r /\ \A x \in DOMAIN q : x < last
    BY <1>1
  <2>5. Follows(l, r)
    BY <2>2, <2>3, <2>4 DEF Follows
  <2> DEFINE k == Append(l, m)
  <2>6. /\ DOMAIN k = 1..(Len(l) + 1) /\ DOMAIN l = 1..Len(l) /\ Len(l) \in Nat
        /\ \A i \in 1..Len(l) : k[i] = l[i]
        /\ k[Len(l) + 1] = m
    OBVIOUS
  <2> HIDE DEF k
  <2>7. ASSUME NEW i \in DOMAIN k PROVE \E x \in DOMAIN r : r[x] = k[i]
    <3>1. CASE i = Len(l) + 1
      BY <1>1, <2>4, <2>6, <3>1
    <3>2. CASE i \in DOMAIN l
      BY <2>2, <2>4, <2>6, <3>2
    <3> QED
      BY <2>6, <3>1, <3>2
  <2>8. ASSUME NEW i \in DOMAIN k, NEW j \in DOMAIN k, i < j
        PROVE  \E x, y \in DOMAIN r : x < y /\ r[x] = k[i] /\ r[y] = k[j]
    <3>1. i \in DOMAIN l
      BY <2>6, <2>8
    <3>2. CASE j = Len(l) + 1
      <4>1. PICK x \in DOMAIN q : r[x] = l[i]
        BY <2>2, <3>1
      <4>2. x \in DOMAIN r /\ x < last /\ r[x] = k[i] /\ r[last] = k[j]
        BY <1>1, <2>4, <2>6, <3>1, <3>2, <4>1
      <4> QED
        BY <2>4, <4>2
    <3>3. CASE j \in DOMAIN l
      <4>1. PICK x \in DOMAIN q, y \in DOMAIN q : x < y /\ r[x] = l[i] /\ r[y] = l[j]
        BY <2>3, <2>8, <3>1, <3>3
      <4> QED
        BY <2>4, <2>6, <3>1, <3>3, <4>1
    <3> QED
      BY <2>6, <3>2, <3>3
  <2>9. Follows(k, r)
    BY <2>7, <2>8 DEF Follows
  <2> QED
    BY <2>5, <2>9 DEF k
<1> QED
  BY <1>2, <1>3, <1>4

\* A part of the line leaves it.
LEMMA LineLeft ==
  ASSUME NEW q \in Seq(Message), Distinct(q), NEW a \in Nat, NEW n \in Nat,
         NEW r \in Seq(Message), IsShorter(r, q, a, n)
  PROVE  /\ Distinct(r) /\ ToSet(r) = ToSet(q) \ Part(q, a, n)
         /\ \A l \in Seq(Message) : Follows(l, q) /\ Part(q, a, n) \cap ToSet(l) = {} => Follows(l, r)
<1> DEFINE gone == {q[x] : x \in (a + 1)..(a + n)}
<1>0. /\ a + n <= Len(q) /\ Len(r) = Len(q) - n /\ gone = Part(q, a, n)
      /\ \A x \in DOMAIN r : r[x] = IF x <= a THEN q[x] ELSE q[x + n]
  BY DEF IsShorter, Part
<1> DEFINE up(x) == IF x <= a THEN x ELSE x + n
           down(x) == IF x <= a THEN x ELSE x - n
<1>1. DOMAIN r = 1..(Len(q) - n) /\ DOMAIN q = 1..Len(q) /\ Len(q) \in Nat
      /\ a + n <= Len(q)
  BY <1>0
<1>2. ASSUME NEW x \in DOMAIN r
      PROVE  up(x) \in DOMAIN q /\ up(x) \notin (a + 1)..(a + n) /\ r[x] = q[up(x)]
  BY <1>0, <1>1
<1>3. ASSUME NEW x \in DOMAIN r, NEW y \in DOMAIN r PROVE up(x) = up(y) => x = y
  BY <1>1
<1>4. ASSUME NEW x \in DOMAIN q, x \notin (a + 1)..(a + n)
      PROVE  down(x) \in DOMAIN r /\ r[down(x)] = q[x]
  <2>1. down(x) \in DOMAIN r /\ up(down(x)) = x
    BY <1>1, <1>4
  <2> QED
    BY <1>2, <2>1
<1>5. ASSUME NEW x \in DOMAIN q, NEW y \in DOMAIN q, x \notin (a + 1)..(a + n),
             y \notin (a + 1)..(a + n), x < y
      PROVE  down(x) < down(y)
  BY <1>1, <1>5
<1> HIDE DEF up, down
<1>6. Distinct(r)
  BY <1>2, <1>3 DEF Distinct
<1>8. ASSUME NEW x \in DOMAIN q, q[x] \notin gone PROVE x \notin (a + 1)..(a + n)
  BY <1>8
<1>9. ToSet(r) = ToSet(q) \ gone
  <2>1. ASSUME NEW x \in DOMAIN r PROVE r[x] \in ToSet(q) /\ r[x] \notin gone
    <3>1. up(x) \in DOMAIN q /\ up(x) \notin (a + 1)..(a + n) /\ r[x] = q[up(x)]
      BY <1>2
    <3>2. (a + 1)..(a + n) \subseteq DOMAIN q
      BY <1>1
    <3>3. \A y \in (a + 1)..(a + n) : q[y] # q[up(x)]
      BY <3>1, <3>2 DEF Distinct
    <3> QED
      BY <3>1, <3>3 DEF ToSet
  <2>2. ASSUME NEW x \in DOMAIN q, q[x] \notin gone PROVE q[x] \in ToSet(r)
    BY <1>4, <1>8, <2>2 DEF ToSet
  <2> QED
    BY <2>1, <2>2 DEF ToSet
<1>10. ASSUME NEW l \in Seq(Message), Follows(l, q), gone \cap ToSet(l) = {} PROVE Follows(l, r)
  <2>1. ASSUME NEW i \in DOMAIN l, NEW x \in DOMAIN q, q[x] = l[i]
        PROVE  x \notin (a + 1)..(a + n)
    <3>1. q[x] \notin gone
      BY <1>10, <2>1 DEF ToSet
    <3> QED
      BY <3>1, <1>8
  <2>2. ASSUME NEW i \in DOMAIN l PROVE \E x \in DOMAIN r : r[x] = l[i]
    <3>1. PICK x \in DOMAIN q : q[x] = l[i]
      BY <1>10 DEF Follows
    <3> QED
      BY <1>4, <2>1, <3>1
  <2>3. ASSUME NEW i \in DOMAIN l, NEW j \in DOMAIN l, i < j
        PROVE  \E x, y \in DOMAIN r : x < y /\ r[x] = l[i] /\ r[y] = l[j]
    <3>1. PICK x \in DOMAIN q, y \in DOMAIN q : x < y /\ q[x] = l[i] /\ q[y] = l[j]
      BY <1>10, <2>3 DEF Follows
    <3>2. x \notin (a + 1)..(a + n) /\ y \notin (a + 1)..(a + n)
      BY <2>1, <3>1
    <3> QED
      BY <1>4, <1>5, <3>1, <3>2
  <2> QED
    BY <2>2, <2>3 DEF Follows
<1> QED
  BY <1>0, <1>6, <1>9, <1>10

\* c is b without its first n.
IsRest(c, b, n) ==
  n \in 0..Len(b) /\ Len(c) = Len(b) - n /\ \A x \in 1..Len(c) : c[x] = b[x + n]
Taken(b, n) == {b[x] : x \in 1..n}

\* The first n packets of the array are taken out.
LEMMA ArrayAdvances ==
  ASSUME NEW h \in Seq(Message), NEW b \in Seq(Message), NEW p \in Seq(Message), Distinct(Chain(h, b, p)),
         NEW c \in Seq(Message), NEW n \in Nat, IsRest(c, b, n)
  PROVE  /\ Distinct(Chain(h, c, p))
         /\ ToSet(Chain(h, c, p)) = ToSet(Chain(h, b, p)) \ Taken(b, n)
         /\ \A l \in Seq(Message) : Follows(l, Chain(h, b, p)) /\ Taken(b, n) \cap ToSet(l) = {}
              => Follows(l, Chain(h, c, p))
<1>0. n \in 0..Len(b) /\ Len(c) = Len(b) - n /\ \A x \in 1..Len(c) : c[x] = b[x + n]
  BY DEF IsRest
<1> DEFINE q == Chain(h, b, p)
           r == Chain(h, c, p)
           a == Len(h)
<1>1. q \in Seq(Message) /\ IsLine(q, h, b, p) /\ Distinct(q)
  BY LinePieces
<1>2. r \in Seq(Message) /\ IsLine(r, h, c, p)
  BY LinePieces
<1> HIDE DEF q, r
<1>3. /\ Len(q) = Len(h) + Len(b) + Len(p)
      /\ \A x \in 1..Len(h) : q[x] = h[x]
      /\ \A x \in 1..Len(b) : q[Len(h) + x] = b[x]
      /\ \A x \in 1..Len(p) : q[Len(h) + Len(b) + x] = p[x]
  BY <1>1 DEF IsLine
<1>4. /\ Len(r) = Len(h) + Len(c) + Len(p)
      /\ \A x \in 1..Len(h) : r[x] = h[x]
      /\ \A x \in 1..Len(c) : r[Len(h) + x] = c[x]
      /\ \A x \in 1..Len(p) : r[Len(h) + Len(c) + x] = p[x]
  BY <1>2 DEF IsLine
<1>5. a \in Nat /\ n \in Nat /\ Len(b) \in Nat /\ Len(p) \in Nat /\ Len(c) \in Nat
      /\ a + n <= Len(q) /\ Len(r) = Len(q) - n /\ DOMAIN r = 1..(a + Len(c) + Len(p))
      /\ Len(c) = Len(b) - n /\ DOMAIN h = 1..a
  BY <1>0, <1>2, <1>3, <1>4
<1>6a. ASSUME NEW x \in 1..a PROVE r[x] = q[x]
  BY <1>3, <1>4
<1>6b. ASSUME NEW x \in (a + 1)..(a + Len(c)) PROVE r[x] = q[x + n]
  <2>1. x - a \in 1..Len(c) /\ a + (x - a) = x
    BY <1>5
  <2>2. (x - a) + n \in 1..Len(b) /\ a + ((x - a) + n) = x + n
    BY <1>5
  <2>3. r[x] = b[(x - a) + n]
    BY <1>0, <1>4, <2>1
  <2>4. q[x + n] = b[(x - a) + n]
    BY <1>3, <2>2
  <2> QED
    BY <2>3, <2>4
<1>6c. ASSUME NEW x \in (a + Len(c) + 1)..(a + Len(c) + Len(p)) PROVE r[x] = q[x + n]
  <2> DEFINE y == x - a - Len(c)
  <2>1. y \in 1..Len(p) /\ x = a + Len(c) + y /\ x + n = a + Len(b) + y
    BY <1>5
  <2> HIDE DEF y
  <2> QED
    BY <1>3, <1>4, <2>1
<1>6. ASSUME NEW x \in DOMAIN r PROVE r[x] = IF x <= a THEN q[x] ELSE q[x + n]
  <2>1. \/ x \in 1..a /\ x <= a
        \/ x \in (a + 1)..(a + Len(c)) /\ ~(x <= a)
        \/ x \in (a + Len(c) + 1)..(a + Len(c) + Len(p)) /\ ~(x <= a)
    BY <1>5
  <2> QED
    BY <1>6a, <1>6b, <1>6c, <2>1
<1>7. IsShorter(r, q, a, n)
  BY <1>5, <1>6 DEF IsShorter
<1>8. Part(q, a, n) = Taken(b, n)
  <2>1. ASSUME NEW x \in 1..n PROVE a + x \in (a + 1)..(a + n) /\ q[a + x] = b[x]
    BY <1>0, <1>3, <1>5
  <2>2. ASSUME NEW x \in (a + 1)..(a + n) PROVE x - a \in 1..n /\ q[x] = b[x - a]
    <3>1. x - a \in 1..n /\ a + (x - a) = x
      BY <1>5
    <3> QED
      BY <2>1, <3>1
  <2>3. ASSUME NEW m \in Part(q, a, n) PROVE m \in Taken(b, n)
    BY <2>2 DEF Part, Taken
  <2>4. ASSUME NEW x \in 1..n PROVE b[x] \in Part(q, a, n)
    BY <2>1 DEF Part
  <2> QED
    BY <2>3, <2>4 DEF Taken
<1>9. /\ Distinct(r) /\ ToSet(r) = ToSet(q) \ Part(q, a, n)
      /\ \A l \in Seq(Message) : Follows(l, q) /\ Part(q, a, n) \cap ToSet(l) = {} => Follows(l, r)
  BY <1>1, <1>2, <1>5, <1>7, LineLeft
<1> QED
  BY <1>8, <1>9 DEF q, r

\* The first of the array is handled.
LEMMA BorderMoves ==
  ASSUME NEW h \in Seq(Message), NEW b \in Seq(Message), NEW p \in Seq(Message), b # <<>>
  PROVE  Chain(Append(h, Head(b)), Tail(b), p) = Chain(h, b, p)
<1>1. Head(b) \in Message /\ Tail(b) \in Seq(Message) /\ <<Head(b)>> \in Seq(Message)
      /\ b = <<Head(b)>> \o Tail(b)
  BY HeadTailProperties
<1>2. Append(h, Head(b)) = h \o <<Head(b)>>
  BY <1>1, AppendIsConcat
<1>3. (h \o <<Head(b)>>) \o Tail(b) = h \o (<<Head(b)>> \o Tail(b))
  <2>1. ASSUME NEW s \in Seq(Message), NEW t \in Seq(Message)
        PROVE  (h \o s) \o t = h \o (s \o t)
    BY ThreePieces, ZenonT(30)
  <2> QED
    BY <1>1, <2>1
<1> QED
  BY <1>1, <1>2, <1>3 DEF Chain

\* p is taken apart behind its first n.
Splits(f, g, p, n) == f = SubSeq(p, 1, n) /\ g = SubSeq(p, n + 1, Len(p))

\* The array is filled from the pool.
LEMMA ArrayFilled ==
  ASSUME NEW h \in Seq(Message), NEW p \in Seq(Message), NEW n \in 1..Len(p), NEW f, NEW g,
         Splits(f, g, p, n)
  PROVE  /\ f \in Seq(Message) /\ g \in Seq(Message) /\ Len(g) = Len(p) - n
         /\ Chain(h, f, g) = Chain(h, <<>>, p)
<1>0. f = SubSeq(p, 1, n) /\ g = SubSeq(p, n + 1, Len(p))
  BY DEF Splits
<1>1. f \in Seq(Message) /\ g \in Seq(Message) /\ Len(g) = Len(p) - n
  BY <1>0, SubSeqProperties
<1>2. f \o g = SubSeq(p, 1, Len(p))
  BY <1>0, ConcatAdjacentSubSeq
<1>3. SubSeq(p, 1, Len(p)) = p
  BY SubSeqFull
<1>4. f \o g = p
  BY <1>2, <1>3
<1>5. (h \o f) \o g = h \o (f \o g)
  <2>1. h \in Seq(Message) /\ f \in Seq(Message) /\ g \in Seq(Message)
    BY <1>1
  <2> QED
    BY <2>1, ThreePieces, ZenonT(30)
<1>6. h \o <<>> = h
  BY ConcatEmptySeq
<1> QED
  BY <1>1, <1>4, <1>5, <1>6 DEF Chain

\* What joins the pool joins the line.
LEMMA EndGrows ==
  ASSUME NEW h \in Seq(Message), NEW b \in Seq(Message), NEW p \in Seq(Message), NEW m \in Message
  PROVE  Chain(h, b, Append(p, m)) = Append(Chain(h, b, p), m)
<1> DEFINE q == h \o b
<1>1. q \in Seq(Message) /\ <<m>> \in Seq(Message)
  BY ConcatProperties
<1> HIDE DEF q
<1>2. Append(p, m) = p \o <<m>> /\ q \o p \in Seq(Message)
  BY <1>1, AppendIsConcat, ConcatProperties
<1>3. Append(q \o p, m) = (q \o p) \o <<m>>
  BY <1>2, AppendIsConcat
<1> DEFINE l == <<m>>
<1> HIDE DEF l
<1>4. (q \o p) \o l = q \o (p \o l)
  <2>1. q \in Seq(Message) /\ l \in Seq(Message)
    BY <1>1 DEF l
  <2>2. ASSUME NEW s \in Seq(Message), NEW t \in Seq(Message)
        PROVE  (s \o p) \o t = s \o (p \o t)
    BY ThreePieces, ZenonT(30)
  <2> QED
    BY <2>1, <2>2, ZenonT(30)
<1> QED
  BY <1>2, <1>3, <1>4 DEF q, l, Chain

-----------------------------------------------------------------------------
(* The invariant. *)

\* The line is one of messages.
LEMMA LineTyped ==
  ASSUME TypeOK
  PROVE  /\ Line \in Seq(Message)
         /\ ToSet(Line) = ToSet(handled) \cup ToSet(batch) \cup ToSet(pool)
         /\ Somewhere \subseteq Message
<1>1. handled \in Seq(Message) /\ batch \in Seq(Message) /\ pool \in Seq(Message)
      /\ net \subseteq Message /\ lost \subseteq Message
  BY DEF TypeOK
<1>2. Line \in Seq(Message)
  BY <1>1, LinePieces DEF Line
<1>3. ToSet(Line) = ToSet(handled) \cup ToSet(batch) \cup ToSet(pool)
  BY <1>1, LineSet DEF Line
<1>4. ToSet(Line) \subseteq Message
  BY <1>2 DEF ToSet
<1> QED
  BY <1>1, <1>2, <1>3, <1>4 DEF Somewhere

\* A packet that reaches the pool is the new end of the line.
LEMMA LineGrows ==
  ASSUME TypeOK, NEW m \in Message, pool' = Append(pool, m), UNCHANGED <<handled, batch>>
  PROVE  Line' = Append(Line, m)
<1>1. handled \in Seq(Message) /\ batch \in Seq(Message) /\ pool \in Seq(Message)
  BY DEF TypeOK
<1>2. Chain(handled, batch, Append(pool, m)) = Append(Chain(handled, batch, pool), m)
  BY <1>1, EndGrows
<1> QED
  BY <1>2 DEF Line

LEMMA InitClient == Init => ClientInv
<1> SUFFICES ASSUME Init PROVE ClientInv
  OBVIOUS
<1>1. TypeOK
  <2>1. handled \in Seq(Message) /\ batch \in Seq(Message) /\ pool \in Seq(Message)
        /\ late \in Seq(Message) /\ Len(pool) = 0
    BY DEF Init
  <2>2. {link, registering, receiver, connected} \subseteq BOOLEAN
        /\ {value, flushed, reported} \subseteq Values
    BY DEF Init
  <2>3. asked \in 0..PoolMax /\ sent \in 0..MaxSends /\ changes \in 0..MaxChanges
        /\ Len(pool) <= PoolMax
    BY <2>1 DEF Init
  <2> QED
    BY <2>1, <2>2, <2>3 DEF Init, TypeOK
<1>2. Line = <<>> /\ ToSet(Line) = {}
  BY DEF Init, Line, Chain, ToSet
<1>3. Apart /\ OnlySent /\ NoneGone
  BY <1>2 DEF Init, Apart, Distinct, OnlySent, NoneGone, Somewhere
<1>4. Follows(late, Line) /\ TickState /\ LateAfterAnswer
  BY <1>2 DEF Init, Follows, TickState, LateAfterAnswer, ToSet
<1> QED
  BY <1>1, <1>3, <1>4 DEF ClientInv

\* What the manager sends was not sent before.
LEMMA SendKeeps ==
  ASSUME ClientInv, NEW m \in Message, m \notin Somewhere, net' = net \cup {m},
         UNCHANGED <<handled, batch, pool, lost, late, connected, mainPc, asked>>,
         TypeOK', OnlySent', NoneGone'
  PROVE  ClientInv'
<1>1. Line' = Line
  BY DEF Line
<1>2. Apart'
  BY <1>1 DEF ClientInv, Apart, Somewhere
<1>3. Follows(late, Line)' /\ TickState' /\ LateAfterAnswer'
  BY <1>1 DEF ClientInv, TickState, LateAfterAnswer
<1> QED
  BY <1>2, <1>3 DEF ClientInv

LEMMA AnswerKeeps == ASSUME ClientInv, NEW ans \in Answers, AnswerRegister(ans) PROVE ClientInv'
<1> DEFINE m == [type |-> ans, n |-> 0]
<1>1. /\ registering /\ ~registering' /\ answer' = ans /\ net' = net \cup {m} /\ sent' = sent
      /\ UNCHANGED <<handled, batch, pool, lost, late, connected, mainPc, asked>>
      /\ UNCHANGED <<link, receiver, client, valueVars>> /\ registering' = FALSE
  BY DEF AnswerRegister
<1>2. TypeOK /\ answer = "none" /\ sent = 0 /\ ~connected /\ Somewhere \subseteq Message
  BY <1>1, LineTyped DEF ClientInv, OnlySent
<1>3. m \in Message /\ m.type = ans /\ m.n = 0
  BY DEF Message
<1> HIDE DEF m
<1>4. ans # "none" /\ ans \notin Requests
  BY DEF Answers, Requests
<1>5. \A x \in Somewhere : IsSent(x)
  BY DEF ClientInv, OnlySent
<1>6. m \notin Somewhere
  BY <1>2, <1>3, <1>4, <1>5 DEF IsSent
<1>7. Somewhere = {}
  <2> SUFFICES ASSUME NEW x \in Somewhere PROVE FALSE
    OBVIOUS
  <2>1. x \in Message /\ IsSent(x)
    BY <1>2, <1>5
  <2>2. x.type \in Requests \cup Answers /\ x.n \in 0..MaxSends
    BY <2>1 DEF Message
  <2> QED
    BY <1>2, <2>1, <2>2 DEF IsSent, Requests, Answers
<1>8. Somewhere' = {m}
  BY <1>1, <1>7 DEF Somewhere, Line
<1>9. OnlySent'
  BY <1>1, <1>2, <1>3, <1>8 DEF OnlySent, IsSent
<1>10. NoneGone'
  BY <1>1, <1>2 DEF NoneGone
<1>11. TypeOK'
  BY <1>1, <1>2, <1>3 DEF TypeOK, valueVars
<1> QED
  BY <1>1, <1>3, <1>6, <1>9, <1>10, <1>11, SendKeeps

LEMMA RequestKeeps == ASSUME ClientInv, NEW type \in Requests, Request(type) PROVE ClientInv'
<1> DEFINE m == [type |-> type, n |-> sent + 1]
<1>1. /\ answer = "Accept" /\ sent < MaxSends /\ sent' = sent + 1 /\ net' = net \cup {m}
      /\ UNCHANGED <<handled, batch, pool, lost, late, connected, mainPc, asked>>
      /\ UNCHANGED <<link, receiver, client, valueVars, registering, answer>>
  BY DEF Request
<1>2. TypeOK /\ Somewhere \subseteq Message /\ sent \in 0..MaxSends
  BY LineTyped DEF ClientInv, TypeOK
<1>3. m \in Message /\ m.type = type /\ m.n = sent + 1
  BY <1>1, <1>2 DEF Message
<1> HIDE DEF m
<1>4. \A x \in Somewhere : IsSent(x) /\ x.n \in 0..MaxSends
  BY <1>2 DEF ClientInv, OnlySent, Message
<1>5. m \notin Somewhere
  BY <1>2, <1>3, <1>4 DEF IsSent
<1>6. Somewhere' = Somewhere \cup {m}
  BY <1>1 DEF Somewhere, Line
<1>7. OnlySent'
  <2>1. ASSUME NEW x \in Somewhere PROVE IsSent(x)'
    BY <1>1, <1>2, <1>4 DEF IsSent
  <2>2. ASSUME NEW x, x = m PROVE IsSent(x)'
    BY <1>1, <1>2, <1>3, <2>2 DEF IsSent
  <2> QED
    BY <1>1, <1>6, <2>1, <2>2 DEF OnlySent, ClientInv
<1>8. NoneGone'
  <2> SUFFICES ASSUME NEW n \in 1..(sent + 1)
               PROVE  \E x \in Message : x.n = n /\ x \in Somewhere \cup {m}
    BY <1>1, <1>6 DEF NoneGone
  <2>1. CASE n = sent + 1
    BY <1>3, <2>1
  <2>2. CASE n \in 1..sent
    BY <1>1, <2>2 DEF ClientInv, NoneGone
  <2> QED
    BY <1>2, <2>1, <2>2
<1>9. TypeOK'
  BY <1>1, <1>2, <1>3 DEF TypeOK, valueVars
<1> QED
  BY <1>1, <1>3, <1>5, <1>7, <1>8, <1>9, SendKeeps

\* A message is on its way to the pool, or is put back there.
LEMMA InsertKeeps ==
  ASSUME ClientInv, NEW m \in Message, InsertUDPData(m)
  PROVE  /\ pool' \in Seq(Message) /\ Len(pool') <= PoolMax /\ lost' \subseteq Message
         /\ Len(pool') \in Nat /\ Len(pool) \in Nat /\ Len(pool) <= Len(pool')
<1>1. pool \in Seq(Message) /\ Len(pool) \in Nat /\ Len(pool) <= PoolMax /\ lost \subseteq Message
  BY DEF ClientInv, TypeOK
<1>2. CASE Len(pool) < PoolMax
  <2>1. pool' = Append(pool, m) /\ lost' = lost
    BY <1>2 DEF InsertUDPData
  <2> QED
    BY <1>1, <1>2, <2>1, AppendProperties
<1>3. CASE ~(Len(pool) < PoolMax)
  BY <1>1, <1>3 DEF InsertUDPData
<1> QED
  BY <1>2, <1>3

\* The network's and the program's steps that move no packet.
LEMMA NothingMoved ==
  ASSUME ClientInv, TypeOK', TickState', LateAfterAnswer',
         UNCHANGED <<handled, batch, pool, net, lost, late, answer, sent, registering, connected>>
  PROVE  ClientInv'
<1>1. Line' = Line /\ Somewhere' = Somewhere
  BY DEF Line, Somewhere
<1>2. Apart'
  BY <1>1 DEF ClientInv, Apart
<1>3. OnlySent' /\ NoneGone'
  BY <1>1 DEF ClientInv, OnlySent, NoneGone, IsSent
<1>4. Follows(late, Line)'
  BY <1>1 DEF ClientInv
<1> QED
  BY <1>2, <1>3, <1>4 DEF ClientInv

LEMMA QuietKeeps ==
  ASSUME ClientInv,
         Break \/ ReceiveFails \/ (\E x \in Values : Change(x)) \/ EndTick \/ UNCHANGED vars
  PROVE  ClientInv'
<1>1. UNCHANGED <<handled, batch, pool, net, lost, late, answer, sent, registering, connected, asked>>
  BY DEF Break, ReceiveFails, Change, EndTick, vars, managerVars
<1>2. TypeOK /\ TickState /\ LateAfterAnswer
  BY DEF ClientInv
<1>3. CASE UNCHANGED mainPc
  <2>1. TypeOK'
    <3>1. CASE Break \/ ReceiveFails \/ EndTick \/ UNCHANGED vars
      BY <1>1, <1>2, <1>3, <3>1 DEF Break, ReceiveFails, EndTick, vars, valueVars, TypeOK
    <3>2. CASE \E x \in Values : Change(x)
      BY <1>1, <1>2, <1>3, <3>2 DEF Change, TypeOK
    <3> QED
      BY <3>1, <3>2
  <2>2. TickState' /\ LateAfterAnswer'
    BY <1>1, <1>2, <1>3 DEF TickState, LateAfterAnswer
  <2> QED
    BY <1>1, <2>1, <2>2, NothingMoved
<1>4. CASE EndTick
  <2>1. TypeOK'
    BY <1>2, <1>4 DEF EndTick, managerVars, valueVars, TypeOK
  <2>2. TickState' /\ LateAfterAnswer'
    BY <1>2, <1>4 DEF EndTick, TickState, LateAfterAnswer
  <2> QED
    BY <1>1, <2>1, <2>2, NothingMoved
<1> QED
  BY <1>3, <1>4 DEF Break, ReceiveFails, Change, vars

LEMMA StartTickKeeps == ASSUME ClientInv, StartTick PROVE ClientInv'
<1>1. UNCHANGED <<handled, batch, pool, net, lost, late, answer, sent, registering, connected>>
  BY DEF StartTick, managerVars
<1>2. TypeOK /\ TickState /\ LateAfterAnswer /\ Len(pool) \in Nat
  BY DEF ClientInv, TypeOK
<1>3. mainPc' = Loop /\ asked' = Len(pool) /\ batch = <<>>
  BY <1>2 DEF StartTick, TickState
<1>4. value' = value /\ changes' = changes /\ {flushed', reported'} \subseteq Values
  BY <1>2 DEF StartTick, HandleWatchedValue, TypeOK
<1>5. TypeOK'
  BY <1>1, <1>2, <1>3, <1>4 DEF TypeOK, StartTick, Loop
<1>6. TickState'
  BY <1>1, <1>2, <1>3 DEF TickState, Loop
<1>7. LateAfterAnswer'
  <2>1. ToSet(batch) = {}
    BY <1>3 DEF ToSet
  <2> QED
    BY <1>1, <1>2, <1>3, <2>1 DEF LateAfterAnswer, Loop
<1> QED
  BY <1>1, <1>5, <1>6, <1>7, NothingMoved

\* A packet arrives at the end of the line, or finds the pool full.
LEMMA ReceiveKeeps == ASSUME ClientInv, NEW m \in net, Receive(m) PROVE ClientInv'
<1>1. /\ net' = net \ {m} /\ InsertUDPData(m)
      /\ late' = IF connected /\ Len(pool) < PoolMax THEN Append(late, m) ELSE late
      /\ UNCHANGED <<link, managerVars, receiver, client, connected, mainPc, asked, batch,
                     handled, valueVars>>
  BY DEF Receive
<1>2. /\ TypeOK /\ Apart /\ OnlySent /\ NoneGone /\ TickState /\ Follows(late, Line)
      /\ LateAfterAnswer
  BY DEF ClientInv
<1>3. m \in Message /\ late \in Seq(Message) /\ net' \subseteq Message
  BY <1>1, <1>2 DEF TypeOK
<1>4. late' \in Seq(Message)
  BY <1>1, <1>3, AppendProperties
<1>5. /\ pool' \in Seq(Message) /\ Len(pool') <= PoolMax /\ lost' \subseteq Message
      /\ Len(pool') \in Nat /\ Len(pool) \in Nat /\ Len(pool) <= Len(pool')
  BY <1>1, <1>3, InsertKeeps
<1>6. TypeOK'
  BY <1>1, <1>2, <1>3, <1>4, <1>5 DEF TypeOK, managerVars, valueVars
<1>7. /\ Line \in Seq(Message) /\ Distinct(Line) /\ m \notin ToSet(Line) /\ m \notin lost
      /\ ToSet(batch) \subseteq ToSet(Line)
  BY <1>2, LineTyped DEF Apart
<1>8. /\ Apart' /\ Somewhere' = Somewhere /\ Follows(late, Line)'
      /\ ToSet(late') \subseteq ToSet(late) \cup {m}
  <2>1. CASE Len(pool) < PoolMax
    <3>1. pool' = Append(pool, m) /\ lost' = lost
      BY <1>1, <2>1 DEF InsertUDPData
    <3>2. Line' = Append(Line, m)
      BY <1>1, <1>2, <1>3, <3>1, LineGrows
    <3>3. /\ Distinct(Line') /\ ToSet(Line') = ToSet(Line) \cup {m}
          /\ Follows(late, Line') /\ Follows(Append(late, m), Line')
      BY <1>2, <1>3, <1>7, <3>2, LineJoined
    <3>4. Apart' /\ Somewhere' = Somewhere
      BY <1>1, <1>2, <1>7, <3>1, <3>3 DEF Apart, Somewhere
    <3>5. Follows(late', Line')
      BY <1>1, <3>3
    <3>6. ToSet(late') \subseteq ToSet(late) \cup {m}
      BY <1>1, <1>3 DEF ToSet
    <3> QED
      BY <3>4, <3>5, <3>6
  <2>2. CASE ~(Len(pool) < PoolMax)
    <3>1. pool' = pool /\ lost' = lost \cup {m} /\ late' = late
      BY <1>1, <2>2 DEF InsertUDPData
    <3>2. Line' = Line
      BY <1>1, <3>1 DEF Line
    <3> QED
      BY <1>1, <1>2, <1>7, <3>1, <3>2 DEF Apart, Somewhere
  <2> QED
    BY <2>1, <2>2
<1>9. OnlySent' /\ NoneGone'
  BY <1>1, <1>2, <1>8 DEF OnlySent, NoneGone, IsSent, managerVars
<1>10. TickState'
  BY <1>1, <1>2, <1>5 DEF TickState, TypeOK
<1>11. LateAfterAnswer'
  BY <1>1, <1>2, <1>7, <1>8 DEF LateAfterAnswer
<1> QED
  BY <1>6, <1>8, <1>9, <1>10, <1>11 DEF ClientInv

\* The array takes over the front of the pool; the line stays.
LEMMA FetchKeeps == ASSUME ClientInv, Fetch PROVE ClientInv'
<1>1. /\ asked > 0 /\ mainPc # "idle" /\ batch' = SubSeq(pool, 1, asked) /\ asked' = 0
      /\ pool' = SubSeq(pool, asked + 1, Len(pool))
      /\ UNCHANGED <<link, managerVars, net, receiver, lost, client, connected, mainPc,
                     handled, late, valueVars>>
  BY DEF Fetch, Rest
<1>2. /\ TypeOK /\ Apart /\ OnlySent /\ NoneGone /\ TickState /\ Follows(late, Line)
      /\ LateAfterAnswer
  BY DEF ClientInv
<1>3. batch = <<>> /\ asked \in 1..Len(pool) /\ handled \in Seq(Message) /\ pool \in Seq(Message)
  BY <1>1, <1>2 DEF TickState, TypeOK
<1>4. Splits(batch', pool', pool, asked)
  BY <1>1 DEF Splits
<1>5. /\ batch' \in Seq(Message) /\ pool' \in Seq(Message) /\ Len(pool') = Len(pool) - asked
      /\ Line' = Line
  <2>1. ASSUME NEW f, NEW g, Splits(f, g, pool, asked)
        PROVE  Chain(handled, f, g) = Chain(handled, <<>>, pool)
    BY <1>3, <2>1, ArrayFilled
  <2>2. Line' = Line
    BY <1>1, <1>3, <1>4, <2>1 DEF Line
  <2> QED
    BY <1>3, <1>4, <2>2, ArrayFilled
<1>6. Len(pool') <= PoolMax /\ Len(pool') \in Nat
  BY <1>2, <1>3, <1>5 DEF TypeOK
<1>7. TypeOK'
  BY <1>1, <1>2, <1>5, <1>6, SMTT(30) DEF TypeOK, managerVars, valueVars
<1>8. Apart' /\ OnlySent' /\ NoneGone' /\ Follows(late, Line)'
  BY <1>1, <1>2, <1>5 DEF Apart, OnlySent, NoneGone, Somewhere, IsSent, managerVars
<1>9. TickState'
  <2>1. asked' = 0 /\ mainPc' # "idle"
    BY <1>1
  <2> QED
    BY <1>6, <2>1 DEF TickState
<1>10. LateAfterAnswer'
  <2>1. mainPc = "waiting" => late = <<>>
    BY <1>1, <1>2 DEF LateAfterAnswer
  <2>2. ToSet(<<>>) = {}
    BY DEF ToSet
  <2> QED
    BY <1>1, <1>2, <2>1, <2>2 DEF LateAfterAnswer
<1> QED
  BY <1>7, <1>8, <1>9, <1>10 DEF ClientInv

\* The first packet of the array is handled; the line stays.
LEMMA HandleKeeps == ASSUME ClientInv, HandleRecvPack PROVE ClientInv'
<1>1. /\ mainPc = "handling" /\ batch # <<>> /\ handled' = Append(handled, Head(batch))
      /\ batch' = Tail(batch) /\ client' \in {client, "exited"}
      /\ UNCHANGED <<link, managerVars, net, receiver, pool, lost, connected, mainPc, asked,
                     late, valueVars>>
  BY DEF HandleRecvPack
<1>2. /\ TypeOK /\ Apart /\ OnlySent /\ NoneGone /\ TickState /\ Follows(late, Line)
      /\ LateAfterAnswer
  BY DEF ClientInv
<1>3. handled \in Seq(Message) /\ batch \in Seq(Message) /\ pool \in Seq(Message)
  BY <1>2 DEF TypeOK
<1>4. Head(batch) \in Message /\ Tail(batch) \in Seq(Message)
  BY <1>1, <1>3, HeadTailProperties
<1>5. handled' \in Seq(Message)
  BY <1>1, <1>3, <1>4, AppendProperties
<1>6. Line' = Line
  <2>1. Chain(Append(handled, Head(batch)), Tail(batch), pool) = Chain(handled, batch, pool)
    BY <1>1, <1>3, BorderMoves
  <2> QED
    BY <1>1, <2>1 DEF Line
<1>7. TypeOK'
  BY <1>1, <1>2, <1>4, <1>5 DEF TypeOK, managerVars, valueVars
<1>8. Apart' /\ OnlySent' /\ NoneGone' /\ Follows(late, Line)'
  BY <1>1, <1>2, <1>6 DEF Apart, OnlySent, NoneGone, Somewhere, IsSent, managerVars
<1>9. TickState' /\ LateAfterAnswer'
  BY <1>1, <1>2 DEF TickState, LateAfterAnswer
<1> QED
  BY <1>7, <1>8, <1>9 DEF ClientInv

\* The answer, or a packet that came before it, leaves the array; the latter goes
\* back to the end of the line, or is lost.
LEMMA WaitKeeps == ASSUME ClientInv, WaitForRegisterACK PROVE ClientInv'
<1> DEFINE m == Head(batch)
<1>1. /\ mainPc = "waiting" /\ batch # <<>>
      /\ UNCHANGED <<link, managerVars, net, receiver, client, mainPc, asked, handled, late,
                     valueVars>>
  BY DEF WaitForRegisterACK
<1>2. /\ TypeOK /\ Apart /\ OnlySent /\ NoneGone /\ TickState /\ Follows(late, Line)
      /\ LateAfterAnswer
  BY DEF ClientInv
<1>3. /\ handled \in Seq(Message) /\ batch \in Seq(Message) /\ pool \in Seq(Message)
      /\ late \in Seq(Message) /\ asked = 0 /\ Len(pool) \in Nat /\ lost \subseteq Message
      /\ Line \in Seq(Message) /\ Distinct(Line)
  BY <1>1, <1>2, LineTyped DEF TypeOK, TickState, Apart
<1>4. /\ m \in Message /\ Tail(batch) \in Seq(Message) /\ Len(batch) \in Nat \ {0}
      /\ Len(Tail(batch)) = Len(batch) - 1 /\ m = batch[1]
      /\ \A x \in 1..Len(Tail(batch)) : Tail(batch)[x] = batch[x + 1]
  BY <1>1, <1>3, HeadTailProperties
<1>5. m \in ToSet(batch) /\ m \in ToSet(Line) /\ IsSent(m)
  <2>1. m \in ToSet(batch)
    BY <1>3, <1>4 DEF ToSet
  <2> QED
    BY <1>2, <2>1, LineTyped DEF OnlySent, Somewhere
<1>6. m \notin ToSet(late) /\ ToSet(batch) \cap ToSet(late) = {}
  BY <1>1, <1>2, <1>5 DEF LateAfterAnswer
<1>6a. PICK c \in Seq(Message) : c = Tail(batch) /\ IsRest(c, batch, 1) /\ ToSet(c) \subseteq ToSet(batch)
  <2>1. IsRest(Tail(batch), batch, 1)
    BY <1>4 DEF IsRest
  <2>2. ToSet(Tail(batch)) \subseteq ToSet(batch)
    BY <1>3, <1>4 DEF ToSet
  <2> QED
    BY <1>4, <2>1, <2>2
<1> DEFINE rest == Chain(handled, c, pool)
<1>7. /\ rest \in Seq(Message) /\ Distinct(rest) /\ ToSet(rest) = ToSet(Line) \ {m}
      /\ Follows(late, rest)
  <2>1. Taken(batch, 1) = {m}
    BY <1>4 DEF Taken
  <2>2. /\ Distinct(rest) /\ ToSet(rest) = ToSet(Line) \ Taken(batch, 1)
        /\ \A l \in Seq(Message) :
             Follows(l, Line) /\ Taken(batch, 1) \cap ToSet(l) = {} => Follows(l, rest)
    <3>1. 1 \in Nat /\ Distinct(Chain(handled, batch, pool))
      BY <1>3 DEF Line
    <3>2. handled \in Seq(Message) /\ batch \in Seq(Message) /\ pool \in Seq(Message)
      BY <1>3
    <3>3. IsRest(c, batch, 1)
      BY <1>6a
    <3> QED
      BY <3>1, <3>2, <3>3, ArrayAdvances DEF Line
  <2>3. rest \in Seq(Message)
    BY <1>3, LinePieces
  <2> QED
    BY <1>2, <1>3, <1>6, <2>1, <2>2, <2>3
<1>8. ASSUME batch' = c PROVE ToSet(batch') \cap ToSet(late) = {} /\ batch' \in Seq(Message)
  BY <1>6, <1>8, <1>6a
<1> HIDE DEF m, rest
<1>10. CASE m.type = "Accept" /\ connected' = TRUE /\ batch' = c
            /\ UNCHANGED <<pool, lost>>
  <2>1. TypeOK'
    BY <1>1, <1>2, <1>8, <1>10 DEF TypeOK, managerVars, valueVars
  <2>2. Line' = rest
    BY <1>1, <1>10 DEF Line, rest
  <2>3. Apart' /\ Follows(late, Line)'
    BY <1>1, <1>2, <1>7, <1>10, <2>2 DEF Apart
  <2>4. /\ m.n = 0 /\ answer = "Accept"
    BY <1>4, <1>5, <1>10 DEF IsSent, Requests, Message
  <2>5. Somewhere' = Somewhere \ {m}
    BY <1>1, <1>2, <1>5, <1>7, <1>10, <2>2 DEF Somewhere, Apart
  <2>6. OnlySent'
    BY <1>1, <1>2, <1>10, <2>4, <2>5 DEF OnlySent, IsSent, managerVars
  <2>7. NoneGone'
    BY <1>1, <1>2, <2>4, <2>5 DEF NoneGone, managerVars
  <2>8. TickState'
    BY <1>1, <1>2, <1>3, <1>10 DEF TickState
  <2>9. LateAfterAnswer'
    BY <1>1, <1>2, <1>3, <1>8, <1>10 DEF LateAfterAnswer
  <2> QED
    BY <2>1, <2>3, <2>6, <2>7, <2>8, <2>9 DEF ClientInv
<1>11. CASE m.type = "Refuse" /\ connected' = FALSE /\ batch' = <<>> /\ UNCHANGED <<pool, lost>>
  <2>1. TypeOK'
    <3>1. batch' \in Seq(Message)
      BY <1>11
    <3> QED
      BY <1>1, <1>2, <1>11, <3>1 DEF TypeOK, managerVars, valueVars
  <2>2. m.n = 0 /\ answer = "Refuse" /\ ~connected /\ late = <<>>
    BY <1>2, <1>4, <1>5, <1>11 DEF IsSent, Requests, Message, OnlySent, LateAfterAnswer
  <2>3. /\ Distinct(Line') /\ ToSet(Line') \subseteq ToSet(Line)
    <3>1. PICK e \in Seq(Message) : e = <<>> /\ IsRest(e, batch, Len(batch))
      <4>1. <<>> \in Seq(Message) /\ Len(<<>>) = 0 /\ 1..0 = {}
        OBVIOUS
      <4>2. Len(batch) \in 0..Len(batch) /\ Len(batch) - Len(batch) = 0
        BY <1>4
      <4> QED
        BY <4>1, <4>2 DEF IsRest
    <3>2. /\ Distinct(Chain(handled, e, pool))
          /\ ToSet(Chain(handled, e, pool)) \subseteq ToSet(Line)
      <4>1. Len(batch) \in Nat /\ Distinct(Chain(handled, batch, pool)) /\ IsRest(e, batch, Len(batch))
        BY <1>3, <1>4, <3>1 DEF Line
      <4>2. handled \in Seq(Message) /\ batch \in Seq(Message) /\ pool \in Seq(Message)
        BY <1>3
      <4> QED
        BY <4>1, <4>2, ArrayAdvances DEF Line
    <3> QED
      BY <1>1, <1>11, <3>1, <3>2 DEF Line
  <2>4. Apart' /\ Somewhere' \subseteq Somewhere
    BY <1>1, <1>2, <1>11, <2>3 DEF Apart, Somewhere
  <2>5. OnlySent' /\ NoneGone'
    BY <1>1, <1>2, <1>11, <2>2, <2>4 DEF OnlySent, NoneGone, IsSent, managerVars
  <2>6. Follows(late, Line)'
    BY <1>1, <2>2 DEF Follows
  <2>7. TickState'
    BY <1>1, <1>2, <1>3, <1>11 DEF TickState
  <2>8. LateAfterAnswer'
    <3>1. ToSet(batch') = {}
      BY <1>11 DEF ToSet
    <3> QED
      BY <1>1, <1>2, <1>3, <2>2, <3>1 DEF LateAfterAnswer
  <2> QED
    BY <2>1, <2>4, <2>5, <2>6, <2>7, <2>8 DEF ClientInv
<1>12. CASE m.type \in Requests /\ InsertUDPData(m) /\ batch' = c /\ UNCHANGED connected
  <2>1. /\ pool' \in Seq(Message) /\ Len(pool') <= PoolMax /\ lost' \subseteq Message
        /\ Len(pool') \in Nat /\ Len(pool) \in Nat /\ Len(pool) <= Len(pool')
    BY <1>4, <1>12, InsertKeeps
  <2>2. TypeOK'
    BY <1>1, <1>2, <1>8, <1>12, <2>1 DEF TypeOK, managerVars, valueVars
  <2>3. Apart' /\ Somewhere' = Somewhere /\ Follows(late, Line)'
    <3>1. CASE pool' = Append(pool, m) /\ lost' = lost
      <4>1. Line' = Append(rest, m)
        <5>1. Line' = Chain(handled, c, Append(pool, m))
          BY <1>1, <1>12, <3>1 DEF Line
        <5>2. m \in Message /\ handled \in Seq(Message) /\ pool \in Seq(Message)
          BY <1>3, <1>4
        <5>3. Chain(handled, c, Append(pool, m)) = Append(Chain(handled, c, pool), m)
          BY <5>2, EndGrows
        <5> QED
          BY <5>1, <5>3 DEF rest
      <4>2. m \in Message \ ToSet(rest)
        BY <1>4, <1>7
      <4>3. /\ Distinct(Line') /\ ToSet(Line') = ToSet(rest) \cup {m} /\ Follows(late, Line')
        BY <1>3, <1>7, <4>1, <4>2, LineJoined
      <4>4. ToSet(Line') = ToSet(Line)
        BY <1>5, <1>7, <4>3
      <4> QED
        BY <1>1, <1>2, <3>1, <4>3, <4>4 DEF Apart, Somewhere
    <3>2. CASE pool' = pool /\ lost' = lost \cup {m}
      <4>1. Line' = rest
        BY <1>1, <1>12, <3>2 DEF Line, rest
      <4> QED
        BY <1>1, <1>2, <1>5, <1>7, <3>2, <4>1 DEF Apart, Somewhere
    <3> QED
      BY <1>12, <3>1, <3>2 DEF InsertUDPData
  <2>4. OnlySent' /\ NoneGone'
    BY <1>1, <1>2, <1>12, <2>3 DEF OnlySent, NoneGone, IsSent, managerVars
  <2>5. TickState'
    BY <1>1, <1>2, <1>3, <1>12, <2>1 DEF TickState
  <2>6. LateAfterAnswer'
    BY <1>1, <1>2, <1>3, <1>8, <1>12 DEF LateAfterAnswer
  <2> QED
    BY <2>2, <2>3, <2>4, <2>5, <2>6 DEF ClientInv
<1> QED
  BY <1>6a, <1>10, <1>11, <1>12 DEF WaitForRegisterACK, PutBack, m

LEMMA ClientAlways == Spec => []ClientInv
<1>1. ASSUME ClientInv, [Next]_vars PROVE ClientInv'
  BY <1>1, AnswerKeeps, RequestKeeps, QuietKeeps, ReceiveKeeps, StartTickKeeps, FetchKeeps,
     WaitKeeps, HandleKeeps
  DEF Next, Manager, Receiver, Tick
<1> QED
  BY InitClient, <1>1, PTL DEF Spec

-----------------------------------------------------------------------------
(* What the client promises. *)

\* A message is at most once in q.
LEMMA CountDistinct ==
  ASSUME NEW q, Distinct(q), NEW m
  PROVE  Count(q, m) = IF m \in ToSet(q) THEN 1 ELSE 0
<1>1. CASE m \in ToSet(q)
  <2>1. PICK x \in DOMAIN q : q[x] = m
    BY <1>1 DEF ToSet
  <2>2. {i \in DOMAIN q : q[i] = m} = {x}
    BY <2>1 DEF Distinct
  <2> QED
    BY <1>1, <2>2, FS_Singleton DEF Count
<1>2. CASE m \notin ToSet(q)
  <2>1. {i \in DOMAIN q : q[i] = m} = {}
    BY <1>2 DEF ToSet
  <2> QED
    BY <1>2, <2>1, FS_EmptySet DEF Count
<1> QED
  BY <1>1, <1>2

\* The pieces of a line without repetition have none, and share nothing.
LEMMA PiecesApart ==
  ASSUME NEW h \in Seq(Message), NEW b \in Seq(Message), NEW p \in Seq(Message), Distinct(Chain(h, b, p))
  PROVE  /\ Distinct(h) /\ Distinct(b) /\ Distinct(p)
         /\ ToSet(h) \cap ToSet(b) = {} /\ ToSet(h) \cap ToSet(p) = {}
         /\ ToSet(b) \cap ToSet(p) = {}
<1> DEFINE q == Chain(h, b, p)
<1>1. q \in Seq(Message) /\ IsLine(q, h, b, p) /\ Distinct(q)
  BY LinePieces
<1> HIDE DEF q
<1>2. /\ DOMAIN h = 1..Len(h) /\ DOMAIN b = 1..Len(b) /\ DOMAIN p = 1..Len(p)
      /\ Len(h) \in Nat /\ Len(b) \in Nat /\ Len(p) \in Nat
      /\ DOMAIN q = 1..(Len(h) + Len(b) + Len(p))
  BY <1>1 DEF IsLine
<1>3. \A x \in DOMAIN h : x \in DOMAIN q /\ q[x] = h[x]
  BY <1>1, <1>2 DEF IsLine
<1>4. \A x \in DOMAIN b : Len(h) + x \in DOMAIN q /\ q[Len(h) + x] = b[x]
  BY <1>1, <1>2 DEF IsLine
<1>5. \A x \in DOMAIN p : Len(h) + Len(b) + x \in DOMAIN q /\ q[Len(h) + Len(b) + x] = p[x]
  BY <1>1, <1>2 DEF IsLine
<1>6. Distinct(h)
  BY <1>1, <1>3 DEF Distinct
<1>7. Distinct(b)
  BY <1>1, <1>2, <1>4 DEF Distinct
<1>8. Distinct(p)
  BY <1>1, <1>2, <1>5 DEF Distinct
<1>9. ASSUME NEW x \in DOMAIN h, NEW y \in DOMAIN b PROVE h[x] # b[y]
  BY <1>1, <1>2, <1>3, <1>4 DEF Distinct
<1>10. ASSUME NEW x \in DOMAIN h, NEW y \in DOMAIN p PROVE h[x] # p[y]
  BY <1>1, <1>2, <1>3, <1>5 DEF Distinct
<1>11. ASSUME NEW x \in DOMAIN b, NEW y \in DOMAIN p PROVE b[x] # p[y]
  BY <1>1, <1>2, <1>4, <1>5 DEF Distinct
<1> QED
  BY <1>6, <1>7, <1>8, <1>9, <1>10, <1>11 DEF ToSet

\* The packets that come before the answer go round the pool, and still each
\* request is in one place at most; those of an accepted client are all there, in
\* the line, on their way, or lost to the full pool (_WaitForRegisterACK).
THEOREM HandledOnce == Spec => []ExactlyOnce
<1>1. ASSUME ClientInv PROVE ExactlyOnce
  <2>1. /\ TypeOK /\ Apart /\ NoneGone
        /\ handled \in Seq(Message) /\ batch \in Seq(Message) /\ pool \in Seq(Message)
    BY <1>1 DEF ClientInv, TypeOK
  <2>2. /\ Distinct(handled) /\ Distinct(batch) /\ Distinct(pool)
        /\ ToSet(handled) \cap ToSet(batch) = {} /\ ToSet(handled) \cap ToSet(pool) = {}
        /\ ToSet(batch) \cap ToSet(pool) = {}
    BY <2>1, PiecesApart DEF Apart, Line
  <2>3. ToSet(Line) = ToSet(handled) \cup ToSet(batch) \cup ToSet(pool)
    BY <2>1, LineTyped
  <2>4. ASSUME NEW m \in Message PROVE Places(m) = IF m \in Somewhere THEN 1 ELSE 0
    <3>1. /\ Count(pool, m) = IF m \in ToSet(pool) THEN 1 ELSE 0
          /\ Count(batch, m) = IF m \in ToSet(batch) THEN 1 ELSE 0
          /\ Count(handled, m) = IF m \in ToSet(handled) THEN 1 ELSE 0
      BY <2>2, CountDistinct
    <3> QED
      BY <2>1, <2>2, <2>3, <3>1 DEF Places, Somewhere, Apart
  <2> QED
    BY <2>1, <2>4 DEF ExactlyOnce, NoneGone
<1> QED
  BY <1>1, ClientAlways, PTL

\* Requests that arrive after the answer are handled in the order of their
\* arrival, none left out, though early ones are still in the pool then.
THEOREM HandledInOrder == Spec => []InOrder
<1>1. ASSUME ClientInv PROVE InOrder
  <2>1. /\ TypeOK /\ Distinct(Line) /\ Follows(late, Line)
        /\ handled \in Seq(Message) /\ batch \in Seq(Message) /\ pool \in Seq(Message)
    BY <1>1 DEF ClientInv, TypeOK, Apart
  <2>2. Line \in Seq(Message) /\ IsLine(Line, handled, batch, pool)
    BY <2>1, LinePieces DEF Line
  <2>3. /\ DOMAIN handled = 1..Len(handled) /\ Len(handled) \in Nat /\ DOMAIN Line = 1..Len(Line)
        /\ \A x \in DOMAIN handled : x \in DOMAIN Line /\ Line[x] = handled[x]
    BY <2>1, <2>2, SMTT(30) DEF IsLine
  <2>4. ASSUME NEW i \in DOMAIN late, NEW j \in DOMAIN late, i < j, late[j] \in ToSet(handled)
        PROVE  \E k, l \in DOMAIN handled : k < l /\ handled[k] = late[i] /\ handled[l] = late[j]
    <3>1. PICK x \in DOMAIN Line, y \in DOMAIN Line :
            x < y /\ Line[x] = late[i] /\ Line[y] = late[j]
      BY <2>1, <2>4 DEF Follows
    <3>2. PICK z \in DOMAIN handled : handled[z] = late[j]
      BY <2>4 DEF ToSet
    <3>3. z = y
      BY <2>1, <2>3, <3>1, <3>2 DEF Distinct
    <3>4. x \in DOMAIN handled
      BY <2>3, <3>1, <3>2, <3>3
    <3> QED
      BY <2>3, <3>1, <3>2, <3>3, <3>4
  <2> QED
    BY <2>4 DEF InOrder
<1> QED
  BY <1>1, ClientAlways, PTL
=============================================================================
