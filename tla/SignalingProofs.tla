-------------------------- MODULE SignalingProofs ---------------------------
(***************************************************************************)
(* Proofs about Signaling: types, and that however the offers, answers and *)
(* candidates of two pages cross, they end up connected.                   *)
(***************************************************************************)
EXTENDS Signaling, TLAPS

Elems(q) == {q[i] : i \in DOMAIN q}

-----------------------------------------------------------------------------
(* Routes.                                                                 *)

\* What an operation of a peer stands for: "ask" and "reply" are an offer and an answer
\* that are being made, the others have come from the other page.
Kind(op) ==
  CASE op \in {"createOffer", "setOffer"}   -> "ask"
    [] op \in {"createAnswer", "setAnswer"} -> "reply"
    [] op = "setRemote"                     -> "offer"
    [] op = "applyAnswer"                   -> "answer"
    [] OTHER                                -> "ice"

\* The route from a to b: what is in b's chain for a, what is on its way down to b, and
\* what is on its way up from a, oldest first.
RouteOf(c, d, u, a, b) ==
  [i \in 1 .. Len(c) + Len(d) + Len(u) |->
     IF i <= Len(c) THEN Kind(c[i].op)
     ELSE IF i <= Len(c) + Len(d)
     THEN IF d[i - Len(c)].from = a THEN d[i - Len(c)].kind ELSE "other"
     ELSE IF u[i - Len(c) - Len(d)].to = b THEN u[i - Len(c) - Len(d)].kind ELSE "other"]

Route(a, b) == RouteOf(chain[b][a], down[b], up[a], a, b)

In(r, k)       == \E i \in DOMAIN r : r[i] = k
Once(r, k)     == \A i, j \in DOMAIN r : r[i] = k /\ r[j] = k => i = j
Ahead(r, k, l) == \A i, j \in DOMAIN r : r[i] = k /\ r[j] = l => i < j
Led(r)         == \A i \in DOMAIN r : r[i] = "ice" =>
                    \E j \in DOMAIN r : j < i /\ r[j] \in {"offer", "answer"}

\* Where the session that a offers to b is.
Asking(a, b)    == In(Route(b, a), "ask")
Offering(a, b)  == In(Route(a, b), "offer")
Replying(a, b)  == In(Route(a, b), "reply")
Answering(a, b) == In(Route(b, a), "answer")

-----------------------------------------------------------------------------
(* The invariant.                                                          *)

Made(a, b)      == peer[a][b] # None
Has(a, b, s)    == Made(a, b) /\ peer[a][b].sig = s
Agrees(a, b, s) == Made(a, b) /\ peer[a][b].cur = s
Ices(a, b)      == Made(a, b) /\ peer[a][b].ice
Cands(a, b)     == Made(a, b) /\ peer[a][b].cands
Knows(a, b)     == Made(a, b) /\ Described(a, b)
Touched(a, b)   == Has(a, b, "have-local") \/ Knows(a, b)
Open(a)         == page[a] # "closed"
Mute(a)         == page[a] \notin {"in", "closed"}
Asked(a, b)     == a \in offered /\ b \in list[a]

\* A page and its socket.
PageInv == \A a \in Pages :
  /\ page[a] = "new" => a \notin rows /\ a \notin bound
  /\ page[a] = "in" => a \in bound
  /\ \A p \in Elems(down[a]) : p.kind = "ack" => a \in bound /\ p.from = a
  /\ a \in bound /\ Open(a) => a \in rows
  /\ page[a] \notin {"in", "closed"} => up[a] = <<>> /\ list[a] = None
  /\ up[a] # <<>> => a \in bound
  /\ a \in ready => a \in offered
  /\ a \in offered => list[a] # None
  /\ a \in offered /\ Open(a) => a \in ready
  /\ list[a] # None => \A b \in list[a] : b # a /\ role[b] = "participant"
  /\ ~Open(a) => /\ down[a] = <<>>
                 /\ \A b \in Pages : \A o \in Elems(chain[a][b]) : Kind(o.op) = "ask"

\* Nobody signals to itself.
SelfInv == \A a \in Pages :
  /\ peer[a][a] = None
  /\ \A s \in Elems(up[a]) : s.to # a
  /\ \A p \in Elems(down[a]) : p.kind # "ack" => p.from # a

\* Of two participants in the room, one finds the other.
ListInv == \A a, b \in Pages :
  /\ a # b /\ Open(a) /\ Open(b) /\ role[a] = "participant" /\ role[b] = "participant"
  /\ list[a] # None /\ list[b] # None
  => b \in list[a] \/ a \in list[b]

\* The route from a to b, whether or not a is still there.
SideInv(a, b) == Open(b) =>
  /\ Offering(b, a) \/ Replying(b, a) \/ Answering(b, a) => Touched(b, a)
  /\ \/ Knows(b, a) \/ <<a, b>> \in lost
     \/ /\ Led(Route(a, b))
        /\ Open(a) /\ Ices(a, b) => In(Route(a, b), "offer") \/ In(Route(a, b), "answer")
  /\ Made(b, a) => Agrees(b, a, None) \/ Agrees(b, a, a) \/ Agrees(b, a, b)

\* Nothing comes from a page that has not joined.
MuteInv(a, b) == Mute(a) =>
  ~Offering(a, b) /\ ~Answering(b, a) /\ ~In(Route(a, b), "ice") /\ ~Cands(b, a)

\* The session that a offers to b is in one place.
TokenInv(a, b) ==
  /\ Once(Route(b, a), "ask") /\ Once(Route(a, b), "offer")
  /\ Once(Route(a, b), "reply") /\ Once(Route(b, a), "answer")
  /\ Asking(a, b) => ~Offering(a, b) /\ ~Replying(a, b) /\ ~Answering(a, b)
  /\ Offering(a, b) => ~Replying(a, b) /\ ~Answering(a, b)
  /\ Replying(a, b) => ~Answering(a, b)
  /\ Asking(a, b) \/ Offering(a, b) \/ Replying(a, b) \/ Answering(a, b) => Asked(a, b)

\* What is past: the session has been offered, rolled back, answered, or agreed upon.
PastInv(a, b) ==
  /\ Has(a, b, "have-local") => ~Asking(a, b) /\ ~Agrees(a, b, a) /\ Asked(a, b)
  /\ <<a, b>> \in rolled => /\ ~Asking(a, b) /\ ~Has(a, b, "have-local") /\ ~Agrees(a, b, a)
                            /\ Asked(a, b)
  /\ <<b, a>> \in lost => /\ ~Asking(a, b) /\ ~Offering(a, b) /\ ~Replying(a, b)
                          /\ ~Answering(a, b) /\ Asked(a, b)
                          /\ Made(b, a) /\ ~Agrees(b, a, None)
  /\ Agrees(b, a, a) => ~Asking(a, b) /\ ~Offering(a, b) /\ ~Replying(a, b) /\ Asked(a, b)
  /\ Agrees(a, b, a) => /\ ~Asking(a, b) /\ ~Offering(a, b) /\ ~Replying(a, b)
                        /\ ~Answering(a, b) /\ Asked(a, b)

\* b has still to offer to a, or a to take the offer.
Late(b, a) ==
  \/ list[b] = None
  \/ a \in list[b] /\ (b \notin offered \/ Asking(b, a) \/ Offering(b, a))

\* What is to come.
DueInv(a, b) ==
  /\ Has(b, a, "have-remote") <=> Replying(a, b)
  /\ Has(a, b, "have-local") =>
       Offering(a, b) \/ Replying(a, b) \/ Answering(a, b) \/ <<b, a>> \in lost
  /\ Has(a, b, "have-local") /\ <<b, a>> \in lost /\ role[a] = "participant" =>
       Late(b, a)
  /\ Asked(a, b) => Asking(a, b) \/ Touched(a, b)
  /\ Asked(a, b) => Asking(a, b) \/ Offering(a, b) \/ Touched(b, a)

\* How two sessions cross.
CrossInv(a, b) ==
  /\ Offering(a, b) \/ Replying(a, b) \/ Answering(a, b) =>
       Has(a, b, "have-local") \/ <<a, b>> \in rolled
  /\ <<a, b>> \in rolled /\ (Offering(a, b) \/ Replying(a, b) \/ Answering(a, b)) =>
       \/ <<b, a>> \in rolled
       \/ Offering(a, b) /\ Has(b, a, "have-local") /\ Agrees(b, a, None)
  /\ <<a, b>> \in rolled => Ahead(Route(a, b), "offer", "answer")
  /\ <<a, b>> \notin rolled => Ahead(Route(a, b), "answer", "offer")
  /\ Answering(a, b) => Agrees(b, a, a)
  /\ Answering(a, b) /\ Answering(b, a) => <<a, b>> \in rolled /\ <<b, a>> \in rolled
  /\ ~(Agrees(a, b, a) /\ Agrees(b, a, b))
  /\ Agrees(a, b, b) /\ Agrees(b, a, a) =>
       \/ Has(a, b, "have-local") /\ Answering(a, b)
       \/ Has(b, a, "have-local") /\ Answering(b, a)
       \/ <<a, b>> \in rolled /\ <<b, a>> \in rolled

\* The candidates of a reach b.
Reaches(a, b) == <<a, b>> \notin lost /\
  \/ a \in ready /\ (Ices(a, b) \/ (Has(a, b, "have-remote") /\ Agrees(a, b, None)))
  \/ In(Route(a, b), "ice")
  \/ Cands(b, a)

ReachInv(a, b) == Touched(a, b) => Reaches(a, b) \/ Reaches(b, a)

SessionInv(a, b) ==
  TokenInv(a, b) /\ PastInv(a, b) /\ DueInv(a, b) /\ CrossInv(a, b) /\ ReachInv(a, b)

PairInv(a, b) ==
  SideInv(a, b) /\ MuteInv(a, b) /\ (Open(a) /\ Open(b) => SessionInv(a, b))

PairsInv == \A a, b \in Pages : a # b => PairInv(a, b)

\* What a sends has media, unless it made its peer for b without a stream.
MediaInv == \A a, b \in Pages : <<a, b>> \in early \/
  /\ Made(a, b) => peer[a][b].tracks
  /\ \A o \in Elems(chain[a][b]) : o.op \in {"setOffer", "setAnswer"} => o.media
  /\ \A s \in Elems(up[a]) : s.to = b /\ s.kind # "ice" => s.media
  /\ \A p \in Elems(down[b]) : p.from = a /\ p.kind \in {"offer", "answer"} => p.media
  /\ \A o \in Elems(chain[b][a]) : o.op \in {"setRemote", "applyAnswer"} => o.media
  /\ Knows(b, a) => peer[b][a].hears

-----------------------------------------------------------------------------
(* Queues and routes.                                                      *)

\* s is r without what is at p.
Without(r, s, p) ==
  \E n \in Nat :
    /\ p \in 1 .. n /\ DOMAIN r = 1 .. n /\ DOMAIN s = 1 .. (n - 1)
    /\ \A i \in 1 .. (n - 1) : s[i] = IF i < p THEN r[i] ELSE r[i + 1]

\* The pages cannot tell r from s.
Alike(r, s) ==
  \/ r = s
  \/ \E p \in Nat : r[p] = "other" /\ Without(r, s, p)
  \/ \E p \in Nat : s[p] = "other" /\ Without(s, r, p)

LEMMA ElemFacts ==
  ASSUME NEW T, NEW q \in Seq(T)
  PROVE  /\ Elems(q) \subseteq T
         /\ q # <<>> => Head(q) \in Elems(q) /\ Elems(Tail(q)) \subseteq Elems(q)
         /\ \A x \in T : Elems(Append(q, x)) = Elems(q) \union {x}
<1>1. \A i \in DOMAIN q : q[i] \in T
  OBVIOUS
<1>2. ASSUME q # <<>> PROVE Head(q) \in Elems(q) /\ Elems(Tail(q)) \subseteq Elems(q)
  <2>1. 1 \in DOMAIN q /\ Head(q) = q[1]
    BY <1>2
  <2>2. \A i \in DOMAIN Tail(q) : i + 1 \in DOMAIN q /\ Tail(q)[i] = q[i + 1]
    BY <1>2
  <2> QED BY <2>1, <2>2 DEF Elems
<1>3. ASSUME NEW x \in T PROVE Elems(Append(q, x)) = Elems(q) \union {x}
  <2>1. /\ \A i \in DOMAIN q : i \in DOMAIN Append(q, x) /\ Append(q, x)[i] = q[i]
        /\ Len(q) + 1 \in DOMAIN Append(q, x) /\ Append(q, x)[Len(q) + 1] = x
        /\ \A i \in DOMAIN Append(q, x) : i \in DOMAIN q \/ i = Len(q) + 1
    OBVIOUS
  <2> QED BY <2>1 DEF Elems
<1> QED BY <1>1, <1>2, <1>3 DEF Elems

LEMMA TakenFromChain ==
  ASSUME NEW c \in Seq(Op), NEW d \in Seq(Packet), NEW u \in Seq(Signal), NEW a, NEW b,
         c # <<>>
  PROVE  /\ Without(RouteOf(c, d, u, a, b), RouteOf(Tail(c), d, u, a, b), 1)
         /\ RouteOf(c, d, u, a, b)[1] = Kind(Head(c).op)
<1> DEFINE n == Len(c) + Len(d) + Len(u)
           r == RouteOf(c, d, u, a, b)
           s == RouteOf(Tail(c), d, u, a, b)
<1>1. /\ Len(c) \in Nat /\ Len(d) \in Nat /\ Len(u) \in Nat /\ Len(c) >= 1
      /\ Len(Tail(c)) = Len(c) - 1 /\ \A i \in 1 .. (Len(c) - 1) : Tail(c)[i] = c[i + 1]
      /\ Head(c) = c[1]
  OBVIOUS
<1>2. n \in Nat /\ 1 \in 1 .. n /\ DOMAIN r = 1 .. n /\ DOMAIN s = 1 .. (n - 1)
  BY <1>1 DEF RouteOf
<1>3. ASSUME NEW i \in 1 .. (n - 1) PROVE s[i] = r[i + 1]
  BY <1>1, <1>2 DEF RouteOf
<1>4. r[1] = Kind(Head(c).op)
  BY <1>1, <1>2 DEF RouteOf
<1> HIDE DEF n, r, s
<1>5. Without(r, s, 1)
  BY <1>2, <1>3 DEF Without
<1> QED BY <1>4, <1>5 DEF r, s

LEMMA PutOnChain ==
  ASSUME NEW c \in Seq(Op), NEW d \in Seq(Packet), NEW u \in Seq(Signal), NEW a, NEW b,
         NEW o \in Op
  PROVE  /\ Without(RouteOf(Append(c, o), d, u, a, b), RouteOf(c, d, u, a, b), Len(c) + 1)
         /\ RouteOf(Append(c, o), d, u, a, b)[Len(c) + 1] = Kind(o.op)
<1> DEFINE n == Len(c) + 1 + Len(d) + Len(u)
           r == RouteOf(Append(c, o), d, u, a, b)
           s == RouteOf(c, d, u, a, b)
           p == Len(c) + 1
<1>1. /\ Len(c) \in Nat /\ Len(d) \in Nat /\ Len(u) \in Nat
      /\ Len(Append(c, o)) = p /\ \A i \in 1 .. Len(c) : Append(c, o)[i] = c[i]
      /\ Append(c, o)[p] = o
  OBVIOUS
<1>2. n \in Nat /\ p \in 1 .. n /\ DOMAIN r = 1 .. n /\ DOMAIN s = 1 .. (n - 1)
  BY <1>1 DEF RouteOf
<1>3. ASSUME NEW i \in 1 .. (n - 1) PROVE s[i] = IF i < p THEN r[i] ELSE r[i + 1]
  <2>1. CASE i < p
    BY <1>1, <1>2, <2>1 DEF RouteOf
  <2>2. CASE ~(i < p)
    BY <1>1, <1>2, <2>2 DEF RouteOf
  <2> QED BY <2>1, <2>2
<1>4. r[p] = Kind(o.op)
  BY <1>1, <1>2 DEF RouteOf
<1> HIDE DEF n, r, s, p
<1>5. Without(r, s, p)
  BY <1>2, <1>3 DEF Without
<1> QED BY <1>4, <1>5 DEF r, s, p

\* What b finds at p in its socket, and what it makes of it.
Arrived(p, a) == IF p.from = a THEN p.kind ELSE "other"
Leaving(s, b) == IF s.to = b THEN s.kind ELSE "other"

LEMMA TakenFromDown ==
  ASSUME NEW c \in Seq(Op), NEW d \in Seq(Packet), NEW u \in Seq(Signal), NEW a, NEW b,
         d # <<>>
  PROVE  /\ Without(RouteOf(c, d, u, a, b), RouteOf(c, Tail(d), u, a, b), Len(c) + 1)
         /\ RouteOf(c, d, u, a, b)[Len(c) + 1] = Arrived(Head(d), a)
<1> DEFINE n == Len(c) + Len(d) + Len(u)
           r == RouteOf(c, d, u, a, b)
           s == RouteOf(c, Tail(d), u, a, b)
           p == Len(c) + 1
<1>1. /\ Len(c) \in Nat /\ Len(d) \in Nat /\ Len(u) \in Nat /\ Len(d) >= 1
      /\ Len(Tail(d)) = Len(d) - 1 /\ \A i \in 1 .. (Len(d) - 1) : Tail(d)[i] = d[i + 1]
      /\ Head(d) = d[1]
  OBVIOUS
<1>2. n \in Nat /\ p \in 1 .. n /\ DOMAIN r = 1 .. n /\ DOMAIN s = 1 .. (n - 1)
  BY <1>1 DEF RouteOf
<1>3. ASSUME NEW i \in 1 .. (n - 1) PROVE s[i] = IF i < p THEN r[i] ELSE r[i + 1]
  <2>1. CASE i < p
    BY <1>1, <1>2, <2>1 DEF RouteOf
  <2>2. CASE ~(i < p) /\ i <= Len(c) + Len(d) - 1
    <3>1. Tail(d)[i - Len(c)] = d[i + 1 - Len(c)]
      BY <1>1, <1>2, <2>2
    <3> QED BY <1>1, <1>2, <2>2, <3>1 DEF RouteOf
  <2>3. CASE ~(i <= Len(c) + Len(d) - 1)
    BY <1>1, <1>2, <2>3 DEF RouteOf
  <2> QED BY <2>1, <2>2, <2>3
<1>4. r[p] = Arrived(Head(d), a)
  BY <1>1, <1>2 DEF RouteOf, Arrived
<1> HIDE DEF n, r, s, p
<1>5. Without(r, s, p)
  BY <1>2, <1>3 DEF Without
<1> QED BY <1>4, <1>5 DEF r, s, p

LEMMA PutOnDown ==
  ASSUME NEW c \in Seq(Op), NEW d \in Seq(Packet), NEW u \in Seq(Signal), NEW a, NEW b,
         NEW x \in Packet
  PROVE  /\ Without(RouteOf(c, Append(d, x), u, a, b), RouteOf(c, d, u, a, b),
                    Len(c) + Len(d) + 1)
         /\ RouteOf(c, Append(d, x), u, a, b)[Len(c) + Len(d) + 1] = Arrived(x, a)
<1> DEFINE n == Len(c) + 1 + Len(d) + Len(u)
           r == RouteOf(c, Append(d, x), u, a, b)
           s == RouteOf(c, d, u, a, b)
           p == Len(c) + Len(d) + 1
<1>1. /\ Len(c) \in Nat /\ Len(d) \in Nat /\ Len(u) \in Nat
      /\ Len(Append(d, x)) = Len(d) + 1 /\ \A i \in 1 .. Len(d) : Append(d, x)[i] = d[i]
      /\ Append(d, x)[Len(d) + 1] = x
  OBVIOUS
<1>2. n \in Nat /\ p \in 1 .. n /\ DOMAIN r = 1 .. n /\ DOMAIN s = 1 .. (n - 1)
  BY <1>1 DEF RouteOf
<1>3. ASSUME NEW i \in 1 .. (n - 1) PROVE s[i] = IF i < p THEN r[i] ELSE r[i + 1]
  <2>1. CASE i <= Len(c)
    BY <1>1, <1>2, <2>1 DEF RouteOf
  <2>2. CASE ~(i <= Len(c)) /\ i < p
    <3>1. Append(d, x)[i - Len(c)] = d[i - Len(c)]
      BY <1>1, <1>2, <2>2
    <3> QED BY <1>1, <1>2, <2>2, <3>1 DEF RouteOf
  <2>3. CASE ~(i < p)
    BY <1>1, <1>2, <2>3 DEF RouteOf
  <2> QED BY <2>1, <2>2, <2>3
<1>4. r[p] = Arrived(x, a)
  BY <1>1, <1>2 DEF RouteOf, Arrived
<1> HIDE DEF n, r, s, p
<1>5. Without(r, s, p)
  BY <1>2, <1>3 DEF Without
<1> QED BY <1>4, <1>5 DEF r, s, p

LEMMA TakenFromUp ==
  ASSUME NEW c \in Seq(Op), NEW d \in Seq(Packet), NEW u \in Seq(Signal), NEW a, NEW b,
         u # <<>>
  PROVE  /\ Without(RouteOf(c, d, u, a, b), RouteOf(c, d, Tail(u), a, b),
                    Len(c) + Len(d) + 1)
         /\ RouteOf(c, d, u, a, b)[Len(c) + Len(d) + 1] = Leaving(Head(u), b)
<1> DEFINE n == Len(c) + Len(d) + Len(u)
           r == RouteOf(c, d, u, a, b)
           s == RouteOf(c, d, Tail(u), a, b)
           p == Len(c) + Len(d) + 1
<1>1. /\ Len(c) \in Nat /\ Len(d) \in Nat /\ Len(u) \in Nat /\ Len(u) >= 1
      /\ Len(Tail(u)) = Len(u) - 1 /\ \A i \in 1 .. (Len(u) - 1) : Tail(u)[i] = u[i + 1]
      /\ Head(u) = u[1]
  OBVIOUS
<1>2. n \in Nat /\ p \in 1 .. n /\ DOMAIN r = 1 .. n /\ DOMAIN s = 1 .. (n - 1)
  BY <1>1 DEF RouteOf
<1>3. ASSUME NEW i \in 1 .. (n - 1) PROVE s[i] = IF i < p THEN r[i] ELSE r[i + 1]
  <2>1. CASE i < p
    BY <1>1, <1>2, <2>1 DEF RouteOf
  <2>2. CASE ~(i < p)
    <3>1. Tail(u)[i - Len(c) - Len(d)] = u[i + 1 - Len(c) - Len(d)]
      BY <1>1, <1>2, <2>2
    <3> QED BY <1>1, <1>2, <2>2, <3>1 DEF RouteOf
  <2> QED BY <2>1, <2>2
<1>4. r[p] = Leaving(Head(u), b)
  BY <1>1, <1>2 DEF RouteOf, Leaving
<1> HIDE DEF n, r, s, p
<1>5. Without(r, s, p)
  BY <1>2, <1>3 DEF Without
<1> QED BY <1>4, <1>5 DEF r, s, p

LEMMA PutOnUp ==
  ASSUME NEW c \in Seq(Op), NEW d \in Seq(Packet), NEW u \in Seq(Signal), NEW a, NEW b,
         NEW x \in Signal
  PROVE  /\ Without(RouteOf(c, d, Append(u, x), a, b), RouteOf(c, d, u, a, b),
                    Len(c) + Len(d) + Len(u) + 1)
         /\ RouteOf(c, d, Append(u, x), a, b)[Len(c) + Len(d) + Len(u) + 1] = Leaving(x, b)
         /\ DOMAIN RouteOf(c, d, Append(u, x), a, b) = 1 .. (Len(c) + Len(d) + Len(u) + 1)
<1> DEFINE r == RouteOf(c, d, Append(u, x), a, b)
           s == RouteOf(c, d, u, a, b)
           p == Len(c) + Len(d) + Len(u) + 1
<1>1. /\ Len(c) \in Nat /\ Len(d) \in Nat /\ Len(u) \in Nat
      /\ Len(Append(u, x)) = Len(u) + 1 /\ \A i \in 1 .. Len(u) : Append(u, x)[i] = u[i]
      /\ Append(u, x)[Len(u) + 1] = x
  OBVIOUS
<1>2. p \in Nat /\ p \in 1 .. p /\ DOMAIN r = 1 .. p /\ DOMAIN s = 1 .. (p - 1)
  BY <1>1 DEF RouteOf
<1>3. ASSUME NEW i \in 1 .. (p - 1) PROVE s[i] = r[i]
  <2>1. CASE i <= Len(c) + Len(d)
    BY <1>1, <1>2, <2>1 DEF RouteOf
  <2>2. CASE ~(i <= Len(c) + Len(d))
    <3>1. Append(u, x)[i - Len(c) - Len(d)] = u[i - Len(c) - Len(d)]
      BY <1>1, <1>2, <2>2
    <3> QED BY <1>1, <1>2, <2>2, <3>1 DEF RouteOf
  <2> QED BY <2>1, <2>2
<1>4. r[p] = Leaving(x, b)
  BY <1>1, <1>2 DEF RouteOf, Leaving
<1>5. Without(r, s, p) /\ r[p] = Leaving(x, b) /\ DOMAIN r = 1 .. p
  <2> HIDE DEF r, s, p
  <2> QED BY <1>2, <1>3, <1>4 DEF Without
<1> QED BY <1>5

\* A packet that goes from one queue to the next keeps its place.
LEMMA DownToChain ==
  ASSUME NEW c \in Seq(Op), NEW d \in Seq(Packet), NEW u \in Seq(Signal), NEW a, NEW b,
         NEW o \in Op, d # <<>>, Arrived(Head(d), a) = Kind(o.op)
  PROVE  RouteOf(Append(c, o), Tail(d), u, a, b) = RouteOf(c, d, u, a, b)
<1> DEFINE n == Len(c) + Len(d) + Len(u)
           r == RouteOf(c, d, u, a, b)
           s == RouteOf(Append(c, o), Tail(d), u, a, b)
<1>1. /\ Len(c) \in Nat /\ Len(d) \in Nat /\ Len(u) \in Nat /\ Len(d) >= 1
      /\ Len(Tail(d)) = Len(d) - 1 /\ \A i \in 1 .. (Len(d) - 1) : Tail(d)[i] = d[i + 1]
      /\ Head(d) = d[1]
      /\ Len(Append(c, o)) = Len(c) + 1 /\ \A i \in 1 .. Len(c) : Append(c, o)[i] = c[i]
      /\ Append(c, o)[Len(c) + 1] = o
  OBVIOUS
<1>2. n \in Nat /\ r = [i \in 1 .. n |-> r[i]] /\ s = [i \in 1 .. n |-> s[i]]
  BY <1>1 DEF RouteOf
<1>3. ASSUME NEW i \in 1 .. n PROVE s[i] = r[i]
  <2>1. CASE i <= Len(c)
    BY <1>1, <1>2, <2>1 DEF RouteOf
  <2>2. CASE i = Len(c) + 1
    BY <1>1, <1>2, <2>2 DEF RouteOf, Arrived
  <2>3. CASE i > Len(c) + 1 /\ i <= Len(c) + Len(d)
    <3>1. Tail(d)[i - (Len(c) + 1)] = d[i - Len(c)]
      BY <1>1, <1>2, <2>3
    <3> QED BY <1>1, <1>2, <2>3, <3>1 DEF RouteOf
  <2>4. CASE i > Len(c) + Len(d)
    BY <1>1, <1>2, <2>4 DEF RouteOf
  <2> QED BY <1>1, <2>1, <2>2, <2>3, <2>4
<1> HIDE DEF n, r, s
<1>4. r = s
  BY <1>2, <1>3
<1> QED BY <1>4 DEF r, s

LEMMA UpToDown ==
  ASSUME NEW c \in Seq(Op), NEW d \in Seq(Packet), NEW u \in Seq(Signal), NEW a, NEW b,
         NEW x \in Packet, u # <<>>, Leaving(Head(u), b) = Arrived(x, a)
  PROVE  RouteOf(c, Append(d, x), Tail(u), a, b) = RouteOf(c, d, u, a, b)
<1> DEFINE n == Len(c) + Len(d) + Len(u)
           r == RouteOf(c, d, u, a, b)
           s == RouteOf(c, Append(d, x), Tail(u), a, b)
<1>1. /\ Len(c) \in Nat /\ Len(d) \in Nat /\ Len(u) \in Nat /\ Len(u) >= 1
      /\ Len(Tail(u)) = Len(u) - 1 /\ \A i \in 1 .. (Len(u) - 1) : Tail(u)[i] = u[i + 1]
      /\ Head(u) = u[1]
      /\ Len(Append(d, x)) = Len(d) + 1 /\ \A i \in 1 .. Len(d) : Append(d, x)[i] = d[i]
      /\ Append(d, x)[Len(d) + 1] = x
  OBVIOUS
<1>2. n \in Nat /\ r = [i \in 1 .. n |-> r[i]] /\ s = [i \in 1 .. n |-> s[i]]
  <2>1. n \in Nat /\ n = Len(c) + Len(Append(d, x)) + Len(Tail(u))
    BY <1>1
  <2>2. r = [i \in 1 .. n |-> r[i]]
    BY DEF RouteOf
  <2>3. s = [i \in 1 .. n |-> s[i]]
    BY <2>1 DEF RouteOf
  <2> QED BY <2>1, <2>2, <2>3
<1>3. ASSUME NEW i \in 1 .. n PROVE s[i] = r[i]
  <2>1. CASE i <= Len(c)
    BY <1>1, <1>2, <2>1 DEF RouteOf
  <2>2. CASE i > Len(c) /\ i <= Len(c) + Len(d)
    <3>1. Append(d, x)[i - Len(c)] = d[i - Len(c)]
      BY <1>1, <1>2, <2>2
    <3> QED BY <1>1, <1>2, <2>2, <3>1 DEF RouteOf
  <2>3. CASE i = Len(c) + Len(d) + 1
    BY <1>1, <1>2, <2>3 DEF RouteOf, Arrived, Leaving
  <2>4. CASE i > Len(c) + Len(d) + 1
    <3>1. Tail(u)[i - Len(c) - (Len(d) + 1)] = u[i - Len(c) - Len(d)]
      BY <1>1, <1>2, <2>4
    <3> QED BY <1>1, <1>2, <2>4, <3>1 DEF RouteOf
  <2>5. i \in Nat /\ Len(c) + Len(d) \in Nat /\ Len(c) \in Nat
    BY <1>1
  <2> HIDE DEF r, s
  <2> QED BY <2>1, <2>2, <2>3, <2>4, <2>5
<1> HIDE DEF n, r, s
<1>4. r = s
  BY <1>2, <1>3
<1> QED BY <1>4 DEF r, s

\* What is in a route after something has been taken from it, ...
LEMMA TakenFacts ==
  ASSUME NEW r, NEW s, NEW p, Without(r, s, p)
  PROVE  /\ In(r, r[p])
         /\ \A k : In(s, k) => In(r, k)
         /\ \A k : In(r, k) => In(s, k) \/ k = r[p]
         /\ \A k : Once(r, k) => Once(s, k) /\ (k = r[p] => ~In(s, k))
         /\ \A k, l : Ahead(r, k, l) => Ahead(s, k, l)
         /\ Led(r) /\ r[p] \notin {"offer", "answer"} => Led(s)
<1>1. PICK n \in Nat :
        /\ p \in 1 .. n /\ DOMAIN r = 1 .. n /\ DOMAIN s = 1 .. (n - 1)
        /\ \A i \in 1 .. (n - 1) : s[i] = IF i < p THEN r[i] ELSE r[i + 1]
  BY DEF Without
<1> DEFINE of(i) == IF i < p THEN i ELSE i + 1
           at(j) == IF j < p THEN j ELSE j - 1
<1>2. \A i \in DOMAIN s : of(i) \in DOMAIN r /\ s[i] = r[of(i)] /\ of(i) # p
  BY <1>1
<1>3. \A i, j \in DOMAIN s : (i < j <=> of(i) < of(j)) /\ (of(i) = of(j) => i = j)
  BY <1>1
<1>4. \A j \in DOMAIN r : j # p => at(j) \in DOMAIN s /\ s[at(j)] = r[j]
  BY <1>1
<1>5. \A i \in DOMAIN s, j \in DOMAIN r : j # p /\ j < of(i) => at(j) < i
  BY <1>1
<1>6. p \in DOMAIN r
  BY <1>1
<1> HIDE DEF of, at
<1>7. Led(r) /\ r[p] \notin {"offer", "answer"} => Led(s)
  <2> SUFFICES ASSUME Led(r), r[p] \notin {"offer", "answer"}, NEW i \in DOMAIN s, s[i] = "ice"
               PROVE  \E j \in DOMAIN s : j < i /\ s[j] \in {"offer", "answer"}
    BY DEF Led
  <2>1. PICK j \in DOMAIN r : j < of(i) /\ r[j] \in {"offer", "answer"}
    BY <1>2 DEF Led
  <2> QED BY <2>1, <1>4, <1>5
<1>8. In(r, r[p]) /\ \A k : In(s, k) => In(r, k)
  BY <1>2, <1>6 DEF In
<1>9. \A k : In(r, k) => In(s, k) \/ k = r[p]
  BY <1>4 DEF In
<1>10. \A k : Once(r, k) => Once(s, k) /\ (k = r[p] => ~In(s, k))
  BY <1>2, <1>3, <1>6 DEF Once, In
<1>11. \A k, l : Ahead(r, k, l) => Ahead(s, k, l)
  BY <1>2, <1>3 DEF Ahead
<1> QED BY <1>7, <1>8, <1>9, <1>10, <1>11

\* ... and after something has been put into it.
LEMMA PutFacts ==
  ASSUME NEW r, NEW s, NEW p, Without(r, s, p)
  PROVE  /\ \A k : Once(s, k) /\ k # r[p] => Once(r, k)
         /\ ~In(s, r[p]) => Once(r, r[p])
         /\ \A k, l : Ahead(s, k, l) /\ r[p] \notin {k, l} => Ahead(r, k, l)
         /\ Led(s) /\ r[p] # "ice" => Led(r)
<1>1. PICK n \in Nat :
        /\ p \in 1 .. n /\ DOMAIN r = 1 .. n /\ DOMAIN s = 1 .. (n - 1)
        /\ \A i \in 1 .. (n - 1) : s[i] = IF i < p THEN r[i] ELSE r[i + 1]
  BY DEF Without
<1> DEFINE of(i) == IF i < p THEN i ELSE i + 1
           at(j) == IF j < p THEN j ELSE j - 1
<1>2. \A i \in DOMAIN s : of(i) \in DOMAIN r /\ s[i] = r[of(i)]
  BY <1>1
<1>3. \A j \in DOMAIN r : j # p => at(j) \in DOMAIN s /\ s[at(j)] = r[j]
  BY <1>1
<1>4. \A i, j \in DOMAIN r : i # p /\ j # p => (i < j <=> at(i) < at(j)) /\ (at(i) = at(j) => i = j)
  BY <1>1
<1>5. \A i \in DOMAIN s, j \in DOMAIN r : j # p /\ i < at(j) => of(i) < j
  BY <1>1
<1> HIDE DEF of, at
<1>6. Led(s) /\ r[p] # "ice" => Led(r)
  <2> SUFFICES ASSUME Led(s), r[p] # "ice", NEW j \in DOMAIN r, r[j] = "ice"
               PROVE  \E i \in DOMAIN r : i < j /\ r[i] \in {"offer", "answer"}
    BY DEF Led
  <2>1. PICK i \in DOMAIN s : i < at(j) /\ s[i] \in {"offer", "answer"}
    BY <1>3 DEF Led
  <2>2. j # p
    OBVIOUS
  <2> QED BY <2>1, <2>2, <1>2, <1>5
<1>7. \A k : Once(s, k) /\ k # r[p] => Once(r, k)
  BY <1>3, <1>4 DEF Once
<1>8. ~In(s, r[p]) => Once(r, r[p])
  BY <1>3 DEF Once, In
<1>9. \A k, l : Ahead(s, k, l) /\ r[p] \notin {k, l} => Ahead(r, k, l)
  <2> SUFFICES ASSUME NEW k, NEW l, Ahead(s, k, l), r[p] \notin {k, l},
                      NEW i \in DOMAIN r, NEW j \in DOMAIN r, r[i] = k, r[j] = l
               PROVE  i < j
    BY DEF Ahead
  <2>1. i # p /\ j # p
    OBVIOUS
  <2> QED BY <2>1, <1>3, <1>4 DEF Ahead
<1> QED BY <1>6, <1>7, <1>8, <1>9

\* What is sent comes last.
LEMMA LastFacts ==
  ASSUME NEW r, NEW s, NEW p, Without(r, s, p), DOMAIN r = 1 .. p
  PROVE  /\ \A k : k # r[p] /\ Ahead(s, k, r[p]) => Ahead(r, k, r[p])
         /\ \A k : k # r[p] /\ ~In(s, k) => Ahead(r, r[p], k)
         /\ Led(s) /\ r[p] = "ice" /\ (In(s, "offer") \/ In(s, "answer")) => Led(r)
<1>1. PICK n \in Nat :
        /\ p \in 1 .. n /\ DOMAIN r = 1 .. n /\ DOMAIN s = 1 .. (n - 1)
        /\ \A i \in 1 .. (n - 1) : s[i] = IF i < p THEN r[i] ELSE r[i + 1]
  BY DEF Without
<1>2. n = p
  BY <1>1
<1>3. p \in Nat /\ \A i \in DOMAIN r : i # p => i \in DOMAIN s /\ r[i] = s[i] /\ i < p
  BY <1>1, <1>2
<1>4. \A i \in DOMAIN s : i \in DOMAIN r /\ r[i] = s[i] /\ i < p
  BY <1>1, <1>2
<1>5. p \in DOMAIN r
  BY <1>1
<1>6. \A k : k # r[p] /\ Ahead(s, k, r[p]) => Ahead(r, k, r[p])
  BY <1>3, <1>4, <1>5 DEF Ahead
<1>7. \A k : k # r[p] /\ ~In(s, k) => Ahead(r, r[p], k)
  BY <1>3 DEF Ahead, In
<1>8. Led(s) /\ r[p] = "ice" /\ (In(s, "offer") \/ In(s, "answer")) => Led(r)
  BY <1>3, <1>4, <1>5 DEF Led, In
<1> QED BY <1>6, <1>7, <1>8

\* What is first is ahead of nothing that is ahead of it.
LEMMA FirstFacts ==
  ASSUME NEW r, NEW s, Without(r, s, 1)
  PROVE  /\ \A k : k # r[1] /\ Ahead(r, k, r[1]) => ~In(r, k)
         /\ r[1] = "ice" => ~Led(r)
<1>1. PICK n \in Nat : 1 \in 1 .. n /\ DOMAIN r = 1 .. n
  BY DEF Without
<1> QED BY <1>1 DEF Ahead, In, Led

LEMMA AlikeFacts ==
  ASSUME NEW r, NEW s, Alike(r, s)
  PROVE  /\ \A k : k # "other" => (In(s, k) <=> In(r, k)) /\ (Once(r, k) => Once(s, k))
         /\ \A k, l : "other" \notin {k, l} /\ Ahead(r, k, l) => Ahead(s, k, l)
         /\ Led(r) => Led(s)
<1>1. CASE r = s
  BY <1>1
<1>2. ASSUME NEW p \in Nat, r[p] = "other", Without(r, s, p)
      PROVE  /\ \A k : k # "other" => (In(s, k) <=> In(r, k)) /\ (Once(r, k) => Once(s, k))
             /\ \A k, l : "other" \notin {k, l} /\ Ahead(r, k, l) => Ahead(s, k, l)
             /\ Led(r) => Led(s)
  BY <1>2, TakenFacts
<1>3. ASSUME NEW p \in Nat, s[p] = "other", Without(s, r, p)
      PROVE  /\ \A k : k # "other" => (In(s, k) <=> In(r, k)) /\ (Once(r, k) => Once(s, k))
             /\ \A k, l : "other" \notin {k, l} /\ Ahead(r, k, l) => Ahead(s, k, l)
             /\ Led(r) => Led(s)
  BY <1>3, TakenFacts, PutFacts
<1> QED BY <1>1, <1>2, <1>3 DEF Alike
-----------------------------------------------------------------------------
(* Types.                                                                  *)

LEMMA TypeInit == Init => TypeOK
<1> SUFFICES ASSUME Init PROVE TypeOK
  OBVIOUS
<1>1. <<>> \in Seq(Op) /\ <<>> \in Seq(Signal) /\ <<>> \in Seq(Packet)
  OBVIOUS
<1>2. /\ chain \in [Pages -> [Pages -> Seq(Op)]]
      /\ up \in [Pages -> Seq(Signal)] /\ down \in [Pages -> Seq(Packet)]
      /\ \A a, b \in Pages : chain[a][b] = <<>>
  BY <1>1 DEF Init
<1>3. peer \in [Pages -> [Pages -> Peer \union {None}]]
  BY DEF Init
<1>7. list \in [Pages -> (SUBSET Pages) \union {None}]
  BY DEF Init
<1>4. /\ media \in [Pages -> {"asked", "granted", "denied"}]
      /\ page \in [Pages -> {"new", "joining", "failed", "in", "closed"}]
  BY DEF Init
<1>5. /\ rows = {} /\ bound = {} /\ ready = {} /\ stream = {} /\ offered = {} /\ rolled = {}
      /\ lost = {} /\ early = {} /\ role \in [Pages -> {"participant", "spectator"}]
  BY DEF Init
<1>6. shown \in [Pages -> SUBSET Pages]
  BY DEF Init
<1> QED BY <1>2, <1>3, <1>4, <1>5, <1>6, <1>7 DEF TypeOK

\* The handlers of a peer.
LEMMA PeerTypes ==
  ASSUME TypeOK, NEW a \in Pages, NEW b \in Pages
  PROVE  /\ NewPeer(TRUE) \in Peer /\ NewPeer(FALSE) \in Peer
         /\ peer[a][b] # None => peer[a][b] \in Peer
         /\ chain[a][b] \in Seq(Op)
         /\ chain[a][b] # <<>> => /\ peer[a][b] \in Peer /\ peer[a][b] # None
                                  /\ Head(chain[a][b]) \in Op
                                  /\ Tail(chain[a][b]) \in Seq(Op)
         /\ \A op \in Ops, m \in BOOLEAN :
              /\ Call(op, m) \in Op /\ <<Call(op, m)>> \in Seq(Op)
              /\ Append(chain[a][b], Call(op, m)) \in Seq(Op)
<1>1. chain[a][b] \in Seq(Op) /\ peer[a][b] \in Peer \union {None}
  BY DEF TypeOK
<1>2. NewPeer(TRUE) \in Peer /\ NewPeer(FALSE) \in Peer
  BY DEF NewPeer, Peer
<1>3. ASSUME chain[a][b] # <<>>
      PROVE  /\ peer[a][b] \in Peer /\ peer[a][b] # None
             /\ Head(chain[a][b]) \in Op /\ Tail(chain[a][b]) \in Seq(Op)
  <2>1. peer[a][b] # None
    BY <1>3 DEF TypeOK
  <2>2. Head(chain[a][b]) \in Op /\ Tail(chain[a][b]) \in Seq(Op)
    BY <1>1, <1>3
  <2> QED BY <1>1, <2>1, <2>2
<1>4. ASSUME NEW op \in Ops, NEW m \in BOOLEAN
      PROVE  /\ Call(op, m) \in Op /\ <<Call(op, m)>> \in Seq(Op)
             /\ Append(chain[a][b], Call(op, m)) \in Seq(Op)
  <2>1. Call(op, m) \in Op
    BY DEF Call, Op
  <2> HIDE DEF Call
  <2> QED BY <1>1, <2>1
<1> QED BY <1>1, <1>2, <1>3, <1>4

\* What is left of the chain, and what its handler goes on with.
LEMMA DoneTypes ==
  ASSUME TypeOK, NEW a \in Pages, NEW b \in Pages, chain[a][b] # <<>>,
         NEW next \in Seq(Op), Done(a, b, next)
  PROVE  /\ chain' \in [Pages -> [Pages -> Seq(Op)]]
         /\ \A x, y \in Pages : chain'[x][y] # <<>> => chain[x][y] # <<>>
<1>1. Tail(chain[a][b]) \o next \in Seq(Op)
  <2>1. Tail(chain[a][b]) \in Seq(Op)
    BY PeerTypes
  <2> QED BY <2>1
<1>2. chain \in [Pages -> [Pages -> Seq(Op)]]
  BY DEF TypeOK
<1> QED BY <1>1, <1>2 DEF Done

LEMMA SentTypes ==
  ASSUME TypeOK, NEW a \in Pages, NEW b \in Pages, NEW k \in {"offer", "answer", "ice"},
         NEW m \in BOOLEAN
  PROVE  Sent(a, b, k, m) \in [Pages -> Seq(Signal)]
<1>1. [kind |-> k, to |-> b, media |-> m] \in Signal
  BY DEF Signal
<1>2. up \in [Pages -> Seq(Signal)]
  BY DEF TypeOK
<1>3. Append(up[a], [kind |-> k, to |-> b, media |-> m]) \in Seq(Signal)
  BY <1>1, <1>2
<1> QED BY <1>2, <1>3 DEF Sent

LEMMA PeerSet ==
  ASSUME TypeOK, NEW a \in Pages, NEW b \in Pages, NEW p \in Peer,
         peer' = [peer EXCEPT ![a][b] = p]
  PROVE  /\ peer' \in [Pages -> [Pages -> Peer \union {None}]]
         /\ \A x, y \in Pages : peer[x][y] # None => peer'[x][y] # None
         /\ peer'[a][b] # None
<1>1. peer \in [Pages -> [Pages -> Peer \union {None}]]
  BY DEF TypeOK
<1>2. p # None
  BY SignalingAssumption
<1> QED BY <1>1, <1>2

LEMMA TypeKept ==
  ASSUME TypeOK, UNCHANGED <<joining, ready, stream, offered, early>>,
         peer' \in [Pages -> [Pages -> Peer \union {None}]],
         \A x, y \in Pages : peer[x][y] # None => peer'[x][y] # None,
         chain' \in [Pages -> [Pages -> Seq(Op)]],
         \A x, y \in Pages : chain'[x][y] # <<>> => chain[x][y] # <<>>,
         shown' \in [Pages -> SUBSET Pages],
         up' \in [Pages -> Seq(Signal)], down' \in [Pages -> Seq(Packet)],
         rolled' \subseteq Pages \X Pages, lost' \subseteq Pages \X Pages
  PROVE  TypeOK'
<1>1. \A x, y \in Pages : chain'[x][y] # <<>> => peer'[x][y] # None
  BY DEF TypeOK
<1> QED BY <1>1 DEF TypeOK, joining

LEMMA PerformTypes ==
  ASSUME TypeOK, NEW a \in Pages, NEW b \in Pages, Perform(a, b)
  PROVE  TypeOK'
<1> DEFINE p == peer[a][b]
           o == Head(chain[a][b])
<1>0. <<>> \in Seq(Op)
  OBVIOUS
<1>1. /\ chain[a][b] # <<>> /\ p \in Peer /\ o \in Op
      /\ \A op \in Ops, m \in BOOLEAN : <<Call(op, m)>> \in Seq(Op)
  <2>1. chain[a][b] # <<>>
    BY DEF Perform, CreateOffer, SetOffer, Rejects, SetRemote, CreateAnswer, SetAnswer,
           ApplyAnswer, AddIce, Runs
  <2> QED BY <2>1, PeerTypes
<1>2. p.tracks \in BOOLEAN /\ p.ice \in BOOLEAN /\ p.cands \in BOOLEAN /\ o.media \in BOOLEAN
  BY <1>1 DEF Peer, Op
<1>3. Described(a, b) \in BOOLEAN /\ RollsBack(a, b) \in BOOLEAN
  BY DEF Described, RollsBack
<1>4. \A hasMedia \in BOOLEAN : Show(a, b, hasMedia) => shown' \in [Pages -> SUBSET Pages]
  BY DEF Show, TypeOK
<1>5. CASE CreateOffer(a, b)
  <2>1. <<Call("setOffer", p.tracks)>> \in Seq(Op)
    BY <1>1, <1>2 DEF Ops
  <2>2. Done(a, b, <<Call("setOffer", p.tracks)>>)
    BY <1>5 DEF CreateOffer
  <2> HIDE DEF p
  <2>3. chain' \in [Pages -> [Pages -> Seq(Op)]]
         /\ \A x, y \in Pages : chain'[x][y] # <<>> => chain[x][y] # <<>>
    BY <1>1, <2>1, <2>2, DoneTypes
  <2> QED BY <1>5, <2>3, TypeKept DEF CreateOffer, TypeOK, notes, wires
<1>6. CASE SetOffer(a, b)
  <2>1. [p EXCEPT !.sig = "have-local", !.pend = a, !.ice = @ \/ p.cur = None] \in Peer
    BY <1>1 DEF Peer
  <2>7. peer' = [peer EXCEPT ![a][b] = [p EXCEPT !.sig = "have-local", !.pend = a, !.ice = @ \/ p.cur = None]]
    BY <1>1, <1>6 DEF SetOffer, Peer
  <2>2. /\ peer' \in [Pages -> [Pages -> Peer \union {None}]]
        /\ \A x, y \in Pages : peer[x][y] # None => peer'[x][y] # None
    BY <2>1, <2>7, PeerSet
  <2>3. up' \in [Pages -> Seq(Signal)]
    BY <1>2, <1>6, SentTypes DEF SetOffer
  <2>4. chain' \in [Pages -> [Pages -> Seq(Op)]]
         /\ \A x, y \in Pages : chain'[x][y] # <<>> => chain[x][y] # <<>>
    BY <1>0, <1>1, <1>6, DoneTypes DEF SetOffer
  <2> QED BY <1>6, <2>2, <2>3, <2>4, TypeKept DEF SetOffer, TypeOK, notes, wires
<1>7. ASSUME NEW op, NEW sigs, Rejects(a, b, op, sigs) PROVE TypeOK'
  <2>1. chain' \in [Pages -> [Pages -> Seq(Op)]]
         /\ \A x, y \in Pages : chain'[x][y] # <<>> => chain[x][y] # <<>>
    BY <1>0, <1>1, <1>7, DoneTypes DEF Rejects
  <2> QED BY <1>7, <2>1, TypeKept DEF Rejects, TypeOK, notes, wires
<1>8. CASE SetRemote(a, b)
  <2>1. [p EXCEPT !.sig = "have-remote", !.pend = b, !.hears = o.media,
                  !.ice = @ /\ ~RollsBack(a, b)] \in Peer
    BY <1>1, <1>2, <1>3 DEF Peer
  <2>7. peer' = [peer EXCEPT ![a][b] = [p EXCEPT !.sig = "have-remote", !.pend = b, !.hears = o.media,
                  !.ice = @ /\ ~RollsBack(a, b)]]
    BY <1>1, <1>8 DEF SetRemote, Peer
  <2>2. /\ peer' \in [Pages -> [Pages -> Peer \union {None}]]
        /\ \A x, y \in Pages : peer[x][y] # None => peer'[x][y] # None
    BY <2>1, <2>7, PeerSet
  <2>3. <<Call("createAnswer", FALSE)>> \in Seq(Op)
    BY <1>1 DEF Ops
  <2>4. chain' \in [Pages -> [Pages -> Seq(Op)]]
         /\ \A x, y \in Pages : chain'[x][y] # <<>> => chain[x][y] # <<>>
    BY <1>1, <1>8, <2>3, DoneTypes DEF SetRemote
  <2>5. rolled' \subseteq Pages \X Pages
    BY <1>8 DEF SetRemote, TypeOK
  <2>6. shown' \in [Pages -> SUBSET Pages]
    BY <1>2, <1>4, <1>8 DEF SetRemote
  <2> QED BY <1>8, <2>2, <2>4, <2>5, <2>6, TypeKept DEF SetRemote, TypeOK, notes, wires
<1>9. CASE CreateAnswer(a, b)
  <2>1. <<Call("setAnswer", p.tracks)>> \in Seq(Op)
    BY <1>1, <1>2 DEF Ops
  <2>2. Done(a, b, <<Call("setAnswer", p.tracks)>>)
    BY <1>9 DEF CreateAnswer
  <2> HIDE DEF p
  <2>3. chain' \in [Pages -> [Pages -> Seq(Op)]]
         /\ \A x, y \in Pages : chain'[x][y] # <<>> => chain[x][y] # <<>>
    BY <1>1, <2>1, <2>2, DoneTypes
  <2> QED BY <1>9, <2>3, TypeKept DEF CreateAnswer, TypeOK, notes, wires
<1>10. CASE SetAnswer(a, b)
  <2>1. [p EXCEPT !.sig = "stable", !.cur = b, !.pend = None, !.ice = @ \/ p.cur = None] \in Peer
    BY <1>1 DEF Peer
  <2>7. peer' = [peer EXCEPT ![a][b] = [p EXCEPT !.sig = "stable", !.cur = b, !.pend = None, !.ice = @ \/ p.cur = None]]
    BY <1>1, <1>10 DEF SetAnswer, Peer
  <2>2. /\ peer' \in [Pages -> [Pages -> Peer \union {None}]]
        /\ \A x, y \in Pages : peer[x][y] # None => peer'[x][y] # None
    BY <2>1, <2>7, PeerSet
  <2>3. up' \in [Pages -> Seq(Signal)]
    BY <1>2, <1>10, SentTypes DEF SetAnswer
  <2>4. chain' \in [Pages -> [Pages -> Seq(Op)]]
         /\ \A x, y \in Pages : chain'[x][y] # <<>> => chain[x][y] # <<>>
    BY <1>0, <1>1, <1>10, DoneTypes DEF SetAnswer
  <2>5. lost' \subseteq Pages \X Pages
    BY <1>10 DEF SetAnswer, TypeOK
  <2> QED BY <1>10, <2>2, <2>3, <2>4, <2>5, TypeKept DEF SetAnswer, TypeOK, notes, wires
<1>11. CASE ApplyAnswer(a, b)
  <2>1. [p EXCEPT !.sig = "stable", !.cur = a, !.pend = None, !.hears = o.media] \in Peer
    BY <1>1, <1>2 DEF Peer
  <2>7. peer' = [peer EXCEPT ![a][b] = [p EXCEPT !.sig = "stable", !.cur = a, !.pend = None, !.hears = o.media]]
    BY <1>11 DEF ApplyAnswer
  <2>2. /\ peer' \in [Pages -> [Pages -> Peer \union {None}]]
        /\ \A x, y \in Pages : peer[x][y] # None => peer'[x][y] # None
    BY <2>1, <2>7, PeerSet
  <2>3. chain' \in [Pages -> [Pages -> Seq(Op)]]
         /\ \A x, y \in Pages : chain'[x][y] # <<>> => chain[x][y] # <<>>
    BY <1>0, <1>1, <1>11, DoneTypes DEF ApplyAnswer
  <2>4. shown' \in [Pages -> SUBSET Pages]
    BY <1>2, <1>4, <1>11 DEF ApplyAnswer
  <2> QED BY <1>11, <2>2, <2>3, <2>4, TypeKept DEF ApplyAnswer, TypeOK, notes, wires
<1>12. CASE AddIce(a, b)
  <2>1. [p EXCEPT !.cands = @ \/ Described(a, b)] \in Peer
    BY <1>1, <1>2, <1>3 DEF Peer
  <2>2. peer' = [peer EXCEPT ![a][b] = [p EXCEPT !.cands = @ \/ Described(a, b)]]
    BY <1>12 DEF AddIce
  <2>3. /\ peer' \in [Pages -> [Pages -> Peer \union {None}]]
        /\ \A x, y \in Pages : peer[x][y] # None => peer'[x][y] # None
    BY <2>1, <2>2, PeerSet
  <2>4. chain' \in [Pages -> [Pages -> Seq(Op)]]
         /\ \A x, y \in Pages : chain'[x][y] # <<>> => chain[x][y] # <<>>
    BY <1>0, <1>1, <1>12, DoneTypes DEF AddIce
  <2> QED BY <1>12, <2>3, <2>4, TypeKept DEF AddIce, TypeOK, notes, wires
<1> QED BY <1>5, <1>6, <1>7, <1>8, <1>9, <1>10, <1>11, <1>12 DEF Perform

LEMMA JoiningTypes ==
  ASSUME TypeOK, NEW a \in Pages,
         \/ AskJoin(a) \/ SaveRow(a) \/ Acknowledge(a) \/ TimeOut(a) \/ ServeList(a)
         \/ Answer(a, "granted") \/ Answer(a, "denied") \/ Depart(a)
  PROVE  TypeOK'
<1>1. CASE Acknowledge(a)
  <2>1. [kind |-> "ack", from |-> a, media |-> FALSE] \in Packet
    BY DEF Packet
  <2>2. down' \in [Pages -> Seq(Packet)]
    <3>1. down[a] \in Seq(Packet) /\ down \in [Pages -> Seq(Packet)]
      BY DEF TypeOK
    <3>2. Append(down[a], [kind |-> "ack", from |-> a, media |-> FALSE]) \in Seq(Packet)
      BY <2>1, <3>1
    <3> QED BY <1>1, <3>1, <3>2 DEF Acknowledge
  <2> QED BY <1>1, <2>2 DEF Acknowledge, TypeOK, rtc, notes
<1>2. CASE AskJoin(a) \/ SaveRow(a) \/ TimeOut(a) \/ Depart(a)
  BY <1>2 DEF AskJoin, SaveRow, TimeOut, Depart, TypeOK, rtc, wires, notes
<1>3. ASSUME NEW x \in {"granted", "denied"}, Answer(a, x) PROVE TypeOK'
  BY <1>3 DEF Answer, TypeOK, rtc, wires, notes
<1>4. CASE ServeList(a)
  <2>1. list' \in [Pages -> (SUBSET Pages) \union {None}]
    BY <1>4 DEF ServeList, TypeOK
  <2> QED BY <1>4, <2>1 DEF ServeList, TypeOK, rtc, wires, notes
<1> QED BY <1>1, <1>2, <1>3, <1>4

LEMMA CloseTypes ==
  ASSUME TypeOK, NEW a \in Pages, Close(a)
  PROVE  TypeOK'
<1>1. <<>> \in Seq(Packet) /\ <<>> \in Seq(Op)
  OBVIOUS
<1>2. down' \in [Pages -> Seq(Packet)]
  BY <1>1 DEF Close, TypeOK
<1>3. chain' \in [Pages -> [Pages -> Seq(Op)]]
  BY <1>1 DEF Close, TypeOK
<1>4. peer' \in [Pages -> [Pages -> Peer \union {None}]]
  BY DEF Close, TypeOK
<1>5. \A x, y \in Pages : chain'[x][y] # <<>> => peer'[x][y] # None
  BY DEF Close, TypeOK
<1>6. /\ page' \in [Pages -> {"new", "joining", "failed", "in", "closed"}]
      /\ shown' \in [Pages -> SUBSET Pages]
  BY DEF Close, TypeOK
<1>7. ready' \subseteq Pages /\ stream' \subseteq Pages
  BY DEF Close, TypeOK
<1> QED BY <1>2, <1>3, <1>4, <1>5, <1>6, <1>7 DEF Close, TypeOK, notes

\* The peers that a page makes, and what is called on them.
LEMMA ConnectTypes ==
  ASSUME TypeOK, NEW a \in Pages, Connect(a)
  PROVE  TypeOK'
<1> DEFINE sends == role[a] = "participant"
<1>1. list[a] \in SUBSET Pages
  BY DEF Connect, TypeOK
<1>2. ASSUME NEW b \in Pages PROVE PeerOf(a, b, sends) \in Peer
  <2>1. NewPeer(sends) \in Peer
    BY PeerTypes DEF NewPeer, Peer
  <2> QED BY <2>1, PeerTypes DEF PeerOf
<1>3. ASSUME NEW b \in Pages PROVE Append(chain[a][b], Call("createOffer", FALSE)) \in Seq(Op)
  BY PeerTypes DEF Ops
<1>4. peer' = [peer EXCEPT ![a] =
                 [b \in Pages |-> IF b \in list[a] THEN PeerOf(a, b, sends) ELSE peer[a][b]]]
  BY DEF Connect, TypeOK
<1>5. chain' = [chain EXCEPT ![a] =
                  [b \in Pages |-> IF b \in list[a]
                                   THEN Append(chain[a][b], Call("createOffer", FALSE))
                                   ELSE chain[a][b]]]
  BY DEF Connect, TypeOK
<1>6. early' \subseteq Pages \X Pages /\ offered' \subseteq Pages
  BY <1>1 DEF Connect, TypeOK
<1>7. ready' \subseteq Pages /\ stream' \subseteq Pages
  BY DEF Connect, TypeOK
<1> HIDE DEF sends
<1>8. peer' \in [Pages -> [Pages -> Peer \union {None}]]
  <2>1. [b \in Pages |-> IF b \in list[a] THEN PeerOf(a, b, sends) ELSE peer[a][b]]
          \in [Pages -> Peer \union {None}]
    BY <1>2 DEF TypeOK
  <2> HIDE DEF Peer
  <2> QED BY <1>4, <2>1 DEF TypeOK
<1>9. chain' \in [Pages -> [Pages -> Seq(Op)]]
  <2>1. [b \in Pages |-> IF b \in list[a]
                         THEN Append(chain[a][b], Call("createOffer", FALSE))
                         ELSE chain[a][b]] \in [Pages -> Seq(Op)]
    <3>1. \A b \in Pages : chain[a][b] \in Seq(Op)
      BY DEF TypeOK
    <3> HIDE DEF Call
    <3> QED BY <1>3, <3>1
  <2> QED BY <1>5, <2>1 DEF TypeOK
<1>10. ASSUME NEW x \in Pages, NEW y \in Pages, chain'[x][y] # <<>> PROVE peer'[x][y] # None
  <2>1. CASE x = a /\ y \in list[a]
    BY <1>2, <1>4, <2>1, SignalingAssumption DEF TypeOK
  <2>2. CASE x # a \/ y \notin list[a]
    <3>1. chain'[x][y] = chain[x][y] /\ peer'[x][y] = peer[x][y]
      BY <1>4, <1>5, <2>2 DEF TypeOK
    <3> QED BY <1>10, <3>1 DEF TypeOK
  <2> QED BY <2>1, <2>2
<1> QED BY <1>6, <1>7, <1>8, <1>9, <1>10 DEF Connect, TypeOK, joining, wires

LEMMA ShareTypes ==
  ASSUME TypeOK, NEW a \in Pages, ShareScreen(a)
  PROVE  /\ TypeOK'
         /\ \A x, y \in Pages : peer'[x][y] =
              IF x = a /\ peer[x][y] # None THEN [peer[x][y] EXCEPT !.tracks = TRUE]
              ELSE peer[x][y]
<1>1. peer' = [peer EXCEPT ![a] =
                 [b \in Pages |-> IF peer[a][b] = None THEN None
                                  ELSE [peer[a][b] EXCEPT !.tracks = TRUE]]]
  BY DEF ShareScreen, TypeOK
<1>2. ASSUME NEW b \in Pages, peer[a][b] # None
      PROVE  [peer[a][b] EXCEPT !.tracks = TRUE] \in Peer
  BY <1>2, PeerTypes DEF Peer
<1>3. \A x, y \in Pages : peer'[x][y] =
        IF x = a /\ peer[x][y] # None THEN [peer[x][y] EXCEPT !.tracks = TRUE]
        ELSE peer[x][y]
  <2>1. peer \in [Pages -> [Pages -> Peer \union {None}]]
    BY DEF TypeOK
  <2> HIDE DEF Peer
  <2>2. \A x, y \in Pages : x # a => peer'[x][y] = peer[x][y]
    BY <1>1, <2>1
  <2>3. \A y \in Pages : peer'[a][y] = IF peer[a][y] = None THEN None
                                       ELSE [peer[a][y] EXCEPT !.tracks = TRUE]
    BY <1>1, <2>1
  <2> QED BY <2>2, <2>3
<1>4. peer' \in [Pages -> [Pages -> Peer \union {None}]]
  <2>1. [b \in Pages |-> IF peer[a][b] = None THEN None
                         ELSE [peer[a][b] EXCEPT !.tracks = TRUE]]
          \in [Pages -> Peer \union {None}]
    BY <1>2
  <2> QED BY <1>1, <2>1 DEF TypeOK
<1>5. ASSUME NEW x \in Pages, NEW y \in Pages, chain'[x][y] # <<>> PROVE peer'[x][y] # None
  <2>1. chain[x][y] # <<>> /\ peer[x][y] # None
    BY <1>5 DEF ShareScreen, TypeOK
  <2> QED BY <1>2, <1>3, <2>1, SignalingAssumption
<1>6. stream' \subseteq Pages
  BY DEF ShareScreen, TypeOK
<1> QED BY <1>3, <1>4, <1>5, <1>6 DEF ShareScreen, TypeOK, joining, wires, notes

LEMMA GatherTypes ==
  ASSUME TypeOK, NEW a \in Pages, NEW b \in Pages, Gather(a, b)
  PROVE  TypeOK'
<1>1. [peer[a][b] EXCEPT !.ice = FALSE] \in Peer
  BY PeerTypes DEF Gather, Peer
<1>2. peer' = [peer EXCEPT ![a][b] = [peer[a][b] EXCEPT !.ice = FALSE]]
  BY DEF Gather
<1>3. /\ peer' \in [Pages -> [Pages -> Peer \union {None}]]
      /\ \A x, y \in Pages : peer[x][y] # None => peer'[x][y] # None
  BY <1>1, <1>2, PeerSet
<1>4. up' \in [Pages -> Seq(Signal)]
  BY SentTypes DEF Gather, TypeOK
<1> QED BY <1>3, <1>4, TypeKept DEF Gather, TypeOK, notes

\* The packets of a page.
LEMMA WireTypes ==
  ASSUME TypeOK, NEW a \in Pages
  PROVE  /\ up[a] \in Seq(Signal) /\ down[a] \in Seq(Packet)
         /\ up[a] # <<>> => Head(up[a]) \in Signal /\ Tail(up[a]) \in Seq(Signal)
         /\ down[a] # <<>> => Head(down[a]) \in Packet /\ Tail(down[a]) \in Seq(Packet)
<1>1. up[a] \in Seq(Signal) /\ down[a] \in Seq(Packet)
  BY DEF TypeOK
<1> HIDE DEF Signal, Packet
<1> QED BY <1>1

LEMMA RelayTypes ==
  ASSUME TypeOK, NEW a \in Pages, Relay(a)
  PROVE  /\ TypeOK'
         /\ Head(up[a]) \in Signal
         /\ [kind |-> Head(up[a]).kind, from |-> a, media |-> Head(up[a]).media] \in Packet
<1> DEFINE s == Head(up[a])
           x == [kind |-> s.kind, from |-> a, media |-> s.media]
<1>1. s \in Signal /\ Tail(up[a]) \in Seq(Signal)
  BY WireTypes DEF Relay
<1>2. x \in Packet
  BY <1>1 DEF Signal, Packet
<1>3. s.to \in Pages
  BY <1>1 DEF Signal
<1>4. up' \in [Pages -> Seq(Signal)]
  BY <1>1 DEF Relay, TypeOK
<1>5. Append(down[s.to], x) \in Seq(Packet)
  <2> HIDE DEF s, x
  <2> QED BY <1>2, <1>3, WireTypes
<1>6. down' = [down EXCEPT ![s.to] = Append(@, x)] \/ down' = down
  BY DEF Relay
<1> HIDE DEF s, x
<1>7. down' \in [Pages -> Seq(Packet)]
  BY <1>3, <1>5, <1>6 DEF TypeOK
<1> QED BY <1>1, <1>2, <1>4, <1>7 DEF Relay, TypeOK, joining, rtc, notes, s, x

LEMMA TakeTypes ==
  ASSUME TypeOK, NEW a \in Pages, TakeAck(a) \/ TakeOffer(a) \/ TakeOther(a)
  PROVE  /\ TypeOK'
         /\ Head(down[a]) \in Packet
<1> DEFINE p == Head(down[a])
           b == p.from
<1>1. p \in Packet /\ Tail(down[a]) \in Seq(Packet)
  BY WireTypes DEF TakeAck, TakeOffer, TakeOther
<1>2. b \in Pages /\ p.media \in BOOLEAN
  BY <1>1 DEF Packet
<1>3. down' \in [Pages -> Seq(Packet)]
  BY <1>1 DEF TakeAck, TakeOffer, TakeOther, TypeOK
<1>4. ASSUME NEW op \in Ops PROVE Append(chain[a][b], Call(op, p.media)) \in Seq(Op)
  BY <1>2, PeerTypes
<1>5. CASE TakeAck(a)
  <2>1. page' \in [Pages -> {"new", "joining", "failed", "in", "closed"}]
    BY <1>5 DEF TakeAck, TypeOK
  <2> QED BY <1>1, <1>3, <1>5, <2>1 DEF TakeAck, TypeOK, rtc, notes
<1>6. CASE TakeOffer(a)
  <2>1. PeerOf(a, b, a \in stream) \in Peer
    <3>1. NewPeer(a \in stream) \in Peer
      BY PeerTypes DEF NewPeer, Peer
    <3> QED BY <1>2, <3>1, PeerTypes DEF PeerOf
  <2>2. peer' = [peer EXCEPT ![a][b] = PeerOf(a, b, a \in stream)]
    BY <1>6 DEF TakeOffer
  <2> HIDE DEF b, p
  <2>3. /\ peer' \in [Pages -> [Pages -> Peer \union {None}]]
        /\ \A x, y \in Pages : peer[x][y] # None => peer'[x][y] # None
        /\ peer'[a][b] # None
    BY <1>2, <2>1, <2>2, PeerSet
  <2>4. chain' = [chain EXCEPT ![a][b] = Append(chain[a][b], Call("setRemote", p.media))]
    BY <1>6 DEF TakeOffer, b, p
  <2>5. Append(chain[a][b], Call("setRemote", p.media)) \in Seq(Op)
    BY <1>4 DEF Ops
  <2> HIDE DEF Call
  <2>6. chain' \in [Pages -> [Pages -> Seq(Op)]]
    BY <1>2, <2>4, <2>5 DEF TypeOK
  <2>7. ASSUME NEW x \in Pages, NEW y \in Pages, chain'[x][y] # <<>> PROVE peer'[x][y] # None
    <3>1. CASE x = a /\ y = b
      BY <2>3, <3>1
    <3>2. CASE ~(x = a /\ y = b)
      <4>1. chain'[x][y] = chain[x][y]
        BY <1>2, <2>4, <3>2 DEF TypeOK
      <4> QED BY <2>3, <2>7, <4>1 DEF TypeOK
    <3> QED BY <3>1, <3>2
  <2>8. early' \subseteq Pages \X Pages
    BY <1>2, <1>6 DEF TakeOffer, TypeOK, b, p
  <2> QED BY <1>1, <1>3, <1>6, <2>3, <2>6, <2>7, <2>8 DEF TakeOffer, TypeOK, joining, p
<1>7. CASE TakeOther(a)
  <2> DEFINE op == IF p.kind = "answer" THEN "applyAnswer" ELSE "addIce"
  <2>1. Append(chain[a][b], Call(op, p.media)) \in Seq(Op)
    BY <1>4 DEF Ops
  <2>2. chain' = IF peer[a][b] = None THEN chain
                 ELSE [chain EXCEPT ![a][b] = Append(chain[a][b], Call(op, p.media))]
    BY <1>7 DEF TakeOther
  <2> HIDE DEF b, p, op, Call
  <2>3. chain' \in [Pages -> [Pages -> Seq(Op)]]
    BY <1>2, <2>1, <2>2 DEF TypeOK
  <2>4. ASSUME NEW x \in Pages, NEW y \in Pages, chain'[x][y] # <<>> PROVE peer'[x][y] # None
    <3>0. peer' = peer
      BY <1>7 DEF TakeOther
    <3>1. CASE x = a /\ y = b
      BY <2>2, <2>4, <3>0, <3>1 DEF TypeOK
    <3>2. CASE ~(x = a /\ y = b)
      <4>1. chain'[x][y] = chain[x][y]
        BY <1>2, <2>2, <3>2 DEF TypeOK
      <4> QED BY <2>4, <3>0, <4>1 DEF TypeOK
    <3> QED BY <3>1, <3>2
  <2> QED BY <1>1, <1>3, <1>7, <2>3, <2>4 DEF TakeOther, TypeOK, joining, notes, p
<1> QED BY <1>1, <1>5, <1>6, <1>7

LEMMA TypeNext == TypeOK /\ Next => TypeOK'
<1> SUFFICES ASSUME TypeOK, Next PROVE TypeOK'
  OBVIOUS
<1>1. ASSUME NEW a \in Pages, NEW b \in Pages, ConnectionLost(a, b) PROVE TypeOK'
  BY <1>1 DEF ConnectionLost, TypeOK, joining, wires, notes
<1> QED BY <1>1, JoiningTypes, CloseTypes, ConnectTypes, ShareTypes, RelayTypes, TakeTypes,
           PerformTypes, GatherTypes DEF Next

\* TypeOK of every instance: whatever is called on a connection is called on one that
\* the page has.
THEOREM SignalsTyped == Spec => []TypeOK
<1>1. TypeOK /\ UNCHANGED vars => TypeOK'
  BY DEF TypeOK, vars
<1> QED BY <1>1, TypeInit, TypeNext, PTL DEF Spec
-----------------------------------------------------------------------------
(* What a step does to a route.                                            *)

\* The first of r, a k, is taken.
Takes(r, s, k) == Without(r, s, 1) /\ r[1] = k

\* The first of r, a k, is taken, and its handler goes on with an l.
Turns(r, s, k, l) ==
  \E mid : Takes(r, mid, k) /\ \E p \in Nat : Without(s, mid, p) /\ s[p] = l

\* A k is put behind the operations there are.
Puts(r, s, k) == \E p \in Nat : Without(s, r, p) /\ s[p] = k

\* A k is sent.
Sends(r, s, k) == \E p \in Nat : Without(s, r, p) /\ s[p] = k /\ DOMAIN s = 1 .. p

LEMMA TakesFacts ==
  ASSUME NEW r, NEW s, NEW k, Takes(r, s, k)
  PROVE  /\ In(r, k)
         /\ \A m : m # k => (In(s, m) <=> In(r, m))
         /\ Once(r, k) => ~In(s, k)
         /\ \A m : In(s, m) => In(r, m)
         /\ \A m : Once(r, m) => Once(s, m)
         /\ \A m, n : Ahead(r, m, n) => Ahead(s, m, n)
         /\ \A m : m # k /\ Ahead(r, m, k) => ~In(r, m)
         /\ k \notin {"offer", "answer"} /\ Led(r) => Led(s)
         /\ k = "ice" => ~Led(r)
<1>1. Without(r, s, 1) /\ r[1] = k
  BY DEF Takes
<1> QED BY <1>1, TakenFacts, FirstFacts

LEMMA PutsFacts ==
  ASSUME NEW r, NEW s, NEW k, Puts(r, s, k)
  PROVE  /\ In(s, k)
         /\ \A m : m # k => (In(s, m) <=> In(r, m))
         /\ \A m : m # k /\ Once(r, m) => Once(s, m)
         /\ ~In(r, k) => Once(s, k)
         /\ \A m, n : k \notin {m, n} /\ Ahead(r, m, n) => Ahead(s, m, n)
         /\ k # "ice" /\ Led(r) => Led(s)
<1>1. PICK p \in Nat : Without(s, r, p) /\ s[p] = k
  BY DEF Puts
<1> QED BY <1>1, TakenFacts, PutFacts

LEMMA TurnsFacts ==
  ASSUME NEW r, NEW s, NEW k, NEW l, Turns(r, s, k, l), k # "ice", l # "ice"
  PROVE  /\ In(r, k) /\ In(s, l)
         /\ \A m : m \notin {k, l} => (In(s, m) <=> In(r, m))
         /\ k # l /\ Once(r, k) => ~In(s, k)
         /\ \A m : m # l /\ Once(r, m) => Once(s, m)
         /\ ~In(r, l) => Once(s, l)
         /\ k = l /\ Once(r, k) => Once(s, k)
         /\ \A m, n : l \notin {m, n} /\ Ahead(r, m, n) => Ahead(s, m, n)
         /\ \A m : m # k /\ Ahead(r, m, k) => ~In(r, m)
         /\ k \notin {"offer", "answer"} /\ Led(r) => Led(s)
<1>1. PICK mid : Takes(r, mid, k) /\ Puts(mid, s, l)
  BY DEF Turns, Puts
<1>2. /\ In(r, k)
      /\ \A m : m # k => (In(mid, m) <=> In(r, m))
      /\ Once(r, k) => ~In(mid, k)
      /\ \A m : In(mid, m) => In(r, m)
      /\ \A m : Once(r, m) => Once(mid, m)
      /\ \A m, n : Ahead(r, m, n) => Ahead(mid, m, n)
      /\ \A m : m # k /\ Ahead(r, m, k) => ~In(r, m)
      /\ k \notin {"offer", "answer"} /\ Led(r) => Led(mid)
  BY <1>1, TakesFacts
<1>3. /\ In(s, l)
      /\ \A m : m # l => (In(s, m) <=> In(mid, m))
      /\ \A m : m # l /\ Once(mid, m) => Once(s, m)
      /\ ~In(mid, l) => Once(s, l)
      /\ \A m, n : l \notin {m, n} /\ Ahead(mid, m, n) => Ahead(s, m, n)
      /\ Led(mid) => Led(s)
  BY <1>1, PutsFacts
<1> QED BY <1>2, <1>3

LEMMA SendsFacts ==
  ASSUME NEW r, NEW s, NEW k, Sends(r, s, k)
  PROVE  /\ In(s, k)
         /\ \A m : m # k => (In(s, m) <=> In(r, m))
         /\ \A m : m # k /\ Once(r, m) => Once(s, m)
         /\ ~In(r, k) => Once(s, k)
         /\ \A m, n : k \notin {m, n} /\ Ahead(r, m, n) => Ahead(s, m, n)
         /\ \A m : m # k /\ Ahead(r, m, k) => Ahead(s, m, k)
         /\ \A m : m # k /\ ~In(r, m) => Ahead(s, k, m)
         /\ Led(r) /\ (k = "ice" => In(r, "offer") \/ In(r, "answer")) => Led(s)
<1>1. PICK p \in Nat : Without(s, r, p) /\ s[p] = k /\ DOMAIN s = 1 .. p
  BY DEF Sends
<1> QED BY <1>1, TakenFacts, PutFacts, LastFacts

\* The operation at the head of a's chain for b is done, and its handler calls the next.
LEMMA DoneRoute ==
  ASSUME TypeOK, NEW a \in Pages, NEW b \in Pages, chain[a][b] # <<>>
  PROVE  /\ Done(a, b, <<>>) /\ down'[a] = down[a] /\ up'[b] = up[b] =>
              Takes(Route(b, a), Route(b, a)', Kind(Head(chain[a][b]).op))
         /\ \A o \in Op : Done(a, b, <<o>>) /\ down'[a] = down[a] /\ up'[b] = up[b] =>
              Turns(Route(b, a), Route(b, a)', Kind(Head(chain[a][b]).op), Kind(o.op))
         /\ \A next : Done(a, b, next) =>
              \A x, y \in Pages : x # a \/ y # b => chain'[x][y] = chain[x][y]
<1> DEFINE c == chain[a][b]
           d == down[a]
           u == up[b]
<1>1. c \in Seq(Op) /\ d \in Seq(Packet) /\ u \in Seq(Signal) /\ Tail(c) \in Seq(Op)
  BY PeerTypes, WireTypes
<1>2. chain \in [Pages -> [Pages -> Seq(Op)]]
  BY DEF TypeOK
<1>3. Tail(c) \o <<>> = Tail(c) /\ \A o \in Op : Tail(c) \o <<o>> = Append(Tail(c), o)
  <2> HIDE DEF c
  <2> QED BY <1>1
<1>4. Takes(RouteOf(c, d, u, b, a), RouteOf(Tail(c), d, u, b, a), Kind(Head(c).op))
  <2> HIDE DEF c, d, u
  <2> QED BY <1>1, TakenFromChain DEF Takes
<1>5. ASSUME NEW o \in Op
      PROVE  Turns(RouteOf(c, d, u, b, a), RouteOf(Append(Tail(c), o), d, u, b, a),
                   Kind(Head(c).op), Kind(o.op))
  <2> HIDE DEF c, d, u
  <2>1. /\ Without(RouteOf(Append(Tail(c), o), d, u, b, a), RouteOf(Tail(c), d, u, b, a),
                   Len(Tail(c)) + 1)
        /\ RouteOf(Append(Tail(c), o), d, u, b, a)[Len(Tail(c)) + 1] = Kind(o.op)
    <3> DEFINE t == Tail(c)
    <3>1. t \in Seq(Op) /\ d \in Seq(Packet) /\ u \in Seq(Signal) /\ o \in Op
      BY <1>1
    <3> HIDE DEF t
    <3>2. /\ Without(RouteOf(Append(t, o), d, u, b, a), RouteOf(t, d, u, b, a), Len(t) + 1)
          /\ RouteOf(Append(t, o), d, u, b, a)[Len(t) + 1] = Kind(o.op)
      BY <3>1, PutOnChain
    <3> QED BY <3>2 DEF t
  <2>2. Len(Tail(c)) + 1 \in Nat
    BY <1>1
  <2> QED BY <1>4, <2>1, <2>2 DEF Turns
<1>6. Route(b, a) = RouteOf(c, d, u, b, a)
  BY DEF Route
<1>7. Route(b, a)' = RouteOf(chain'[a][b], down'[a], up'[b], b, a)
  BY DEF Route
<1>8. \A next : Done(a, b, next) => chain'[a][b] = Tail(c) \o next
  BY <1>2 DEF Done
<1>9. \A next : Done(a, b, next) =>
        \A x, y \in Pages : x # a \/ y # b => chain'[x][y] = chain[x][y]
  BY <1>2 DEF Done
<1>10. ASSUME Done(a, b, <<>>), down'[a] = down[a], up'[b] = up[b]
       PROVE  Takes(Route(b, a), Route(b, a)', Kind(Head(c).op))
  <2>1. chain'[a][b] = Tail(c)
    BY <1>3, <1>8, <1>10
  <2>2. Route(b, a)' = RouteOf(Tail(c), d, u, b, a)
    BY <1>7, <1>10, <2>1
  <2> QED BY <1>4, <1>6, <2>2
<1>11. ASSUME NEW o \in Op, Done(a, b, <<o>>), down'[a] = down[a], up'[b] = up[b]
       PROVE  Turns(Route(b, a), Route(b, a)', Kind(Head(c).op), Kind(o.op))
  <2>1. chain'[a][b] = Append(Tail(c), o)
    BY <1>3, <1>8, <1>11
  <2>2. Route(b, a)' = RouteOf(Append(Tail(c), o), d, u, b, a)
    BY <1>7, <1>11, <2>1
  <2> QED BY <1>5, <1>6, <2>2
<1> QED BY <1>9, <1>10, <1>11

\* A signal is sent, if the page has joined.
LEMMA SentRoute ==
  ASSUME TypeOK, NEW a \in Pages, NEW b \in Pages, NEW k \in {"offer", "answer", "ice"},
         NEW m \in BOOLEAN, up' = Sent(a, b, k, m), down' = down
  PROVE  /\ page[a] = "in" /\ chain'[b][a] = chain[b][a] =>
              Sends(Route(a, b), Route(a, b)', k)
         /\ page[a] # "in" /\ chain'[b][a] = chain[b][a] => Route(a, b)' = Route(a, b)
         /\ \A x, y \in Pages : (x # a \/ y # b) /\ chain'[y][x] = chain[y][x] =>
              Alike(Route(x, y), Route(x, y)')
         /\ \A x \in Pages : x # a => up'[x] = up[x]
<1> DEFINE s == [kind |-> k, to |-> b, media |-> m]
<1>1. s \in Signal
  BY DEF Signal
<1>2. up \in [Pages -> Seq(Signal)]
  BY DEF TypeOK
<1>3. \A x \in Pages : x # a => up'[x] = up[x]
  BY <1>2 DEF Sent
<1>4. CASE page[a] = "in"
  <2>1. up'[a] = Append(up[a], s)
    BY <1>2, <1>4 DEF Sent
  <2>2. ASSUME NEW y \in Pages, chain'[y][a] = chain[y][a]
        PROVE  /\ y = b => Sends(Route(a, y), Route(a, y)', k)
               /\ y # b => Alike(Route(a, y), Route(a, y)')
    <3> DEFINE c == chain[y][a]
               d == down[y]
               u == up[a]
               p == Len(c) + Len(d) + Len(u) + 1
    <3>1. c \in Seq(Op) /\ d \in Seq(Packet) /\ u \in Seq(Signal)
      BY PeerTypes, WireTypes
    <3>3. Route(a, y)' = RouteOf(c, d, Append(u, s), a, y)
      BY <2>1, <2>2 DEF Route
    <3>4. Route(a, y) = RouteOf(c, d, u, a, y)
      BY DEF Route
    <3>6. Leaving(s, y) = IF y = b THEN k ELSE "other"
      BY DEF Leaving
    <3> HIDE DEF c, d, u, s
    <3>2. /\ Without(RouteOf(c, d, Append(u, s), a, y), RouteOf(c, d, u, a, y), p)
          /\ RouteOf(c, d, Append(u, s), a, y)[p] = Leaving(s, y)
          /\ DOMAIN RouteOf(c, d, Append(u, s), a, y) = 1 .. p
      BY <1>1, <3>1, PutOnUp
    <3>5. p \in Nat
      BY <3>1
    <3> HIDE DEF p
    <3> QED BY <3>2, <3>3, <3>4, <3>5, <3>6 DEF Sends, Alike
  <2>3. ASSUME NEW x \in Pages, NEW y \in Pages, x # a, chain'[y][x] = chain[y][x]
        PROVE  Route(x, y)' = Route(x, y)
    BY <1>3, <2>3 DEF Route
  <2> QED BY <1>3, <1>4, <2>2, <2>3 DEF Alike
<1>5. CASE page[a] # "in"
  <2>1. up' = up
    BY <1>5 DEF Sent
  <2>2. ASSUME NEW x \in Pages, NEW y \in Pages, chain'[y][x] = chain[y][x]
        PROVE  Route(x, y)' = Route(x, y)
    BY <2>1, <2>2 DEF Route
  <2> QED BY <1>3, <1>5, <2>2 DEF Alike
<1> QED BY <1>4, <1>5

\* For the invariant the routes are the same.
Similar(r, s) ==
  /\ \A k \in {"ask", "offer", "reply", "answer", "ice"} :
       (In(s, k) <=> In(r, k)) /\ (Once(r, k) => Once(s, k))
  /\ \A k, l \in {"offer", "answer"} : Ahead(r, k, l) => Ahead(s, k, l)
  /\ Led(r) => Led(s)

LEMMA AlikeIsSimilar == \A r, s : Alike(r, s) => Similar(r, s)
<1> SUFFICES ASSUME NEW r, NEW s, Alike(r, s) PROVE Similar(r, s)
  OBVIOUS
<1>1. /\ \A k : k # "other" => (In(s, k) <=> In(r, k)) /\ (Once(r, k) => Once(s, k))
      /\ \A k, l : "other" \notin {k, l} /\ Ahead(r, k, l) => Ahead(s, k, l)
      /\ Led(r) => Led(s)
  BY AlikeFacts
<1> QED BY <1>1 DEF Similar

LEMMA TurnIsSimilar ==
  ASSUME NEW r, NEW s, NEW k \in {"ask", "reply"}, Turns(r, s, k, k)
  PROVE  Similar(r, s)
<1>1. PICK mid : Takes(r, mid, k) /\ Puts(mid, s, k)
  BY DEF Turns, Puts
<1>2. /\ In(r, k) /\ In(s, k)
      /\ \A m : m # k => (In(mid, m) <=> In(r, m)) /\ (In(s, m) <=> In(mid, m))
      /\ Once(r, k) => ~In(mid, k)
      /\ ~In(mid, k) => Once(s, k)
      /\ \A m : Once(r, m) => Once(mid, m)
      /\ \A m : m # k /\ Once(mid, m) => Once(s, m)
      /\ \A m, n : Ahead(r, m, n) => Ahead(mid, m, n)
      /\ \A m, n : k \notin {m, n} /\ Ahead(mid, m, n) => Ahead(s, m, n)
      /\ Led(r) => Led(mid)
      /\ Led(mid) => Led(s)
  BY <1>1, TakesFacts, PutsFacts
<1> QED BY <1>2 DEF Similar

\* What the step leaves of what is not between a and b.
Elsewhere(a, b) ==
  /\ \A x, y \in Pages : x # a \/ y # b => peer'[x][y] = peer[x][y]
  /\ \A x, y \in Pages : {x, y} # {a, b} => Alike(Route(x, y), Route(x, y)')
  /\ UNCHANGED <<joining, ready, stream, offered, early>>

LEMMA CalledStep ==
  ASSUME TypeOK, NEW a \in Pages, NEW b \in Pages, a # b, chain[a][b] # <<>>,
         NEW next \in Seq(Op), Done(a, b, next), UNCHANGED wires
  PROVE  /\ \A x, y \in Pages : {x, y} # {a, b} => Alike(Route(x, y), Route(x, y)')
         /\ Route(a, b)' = Route(a, b)
         /\ next = <<>> =>
              Takes(Route(b, a), Route(b, a)', Kind(Head(chain[a][b]).op))
         /\ \A o \in Op : next = <<o>> =>
              Turns(Route(b, a), Route(b, a)', Kind(Head(chain[a][b]).op), Kind(o.op))
<1>1. \A x, y \in Pages : x # a \/ y # b => chain'[x][y] = chain[x][y]
  BY DoneRoute
<1>2. \A x, y \in Pages : x # b \/ y # a => Route(x, y)' = Route(x, y)
  BY <1>1 DEF Route, wires
<1>3. \A x, y \in Pages : {x, y} # {a, b} => Alike(Route(x, y), Route(x, y)')
  BY <1>2 DEF Alike
<1>4. down'[a] = down[a] /\ up'[b] = up[b]
  BY DEF wires
<1> QED BY <1>2, <1>3, <1>4, DoneRoute

LEMMA CreateStep ==
  ASSUME TypeOK, NEW a \in Pages, NEW b \in Pages, a # b,
         CreateOffer(a, b) \/ CreateAnswer(a, b)
  PROVE  /\ Elsewhere(a, b) /\ UNCHANGED <<peer, rolled, lost>>
         /\ Route(a, b)' = Route(a, b) /\ Similar(Route(b, a), Route(b, a)')
<1>0. chain[a][b] # <<>>
  BY DEF CreateOffer, CreateAnswer, Runs
<1>1. peer[a][b].tracks \in BOOLEAN
  BY <1>0, PeerTypes DEF Peer
<1>2. ASSUME NEW op \in {"setOffer", "setAnswer"},
             Kind(Head(chain[a][b]).op) \in {"ask", "reply"},
             Kind(op) = Kind(Head(chain[a][b]).op),
             Done(a, b, <<Call(op, peer[a][b].tracks)>>), UNCHANGED wires
      PROVE  /\ \A x, y \in Pages : {x, y} # {a, b} => Alike(Route(x, y), Route(x, y)')
             /\ Route(a, b)' = Route(a, b) /\ Similar(Route(b, a), Route(b, a)')
  <2> DEFINE o == Call(op, peer[a][b].tracks)
  <2>1. o \in Op /\ <<o>> \in Seq(Op)
    BY <1>1, PeerTypes DEF Ops
  <2>2. o.op = op
    BY DEF Call
  <2> HIDE DEF o
  <2>3. Done(a, b, <<o>>)
    BY <1>2 DEF o
  <2>4. /\ \A x, y \in Pages : {x, y} # {a, b} => Alike(Route(x, y), Route(x, y)')
        /\ Route(a, b)' = Route(a, b)
        /\ Turns(Route(b, a), Route(b, a)', Kind(Head(chain[a][b]).op), Kind(o.op))
    BY <1>0, <1>2, <2>1, <2>3, CalledStep
  <2> QED BY <1>2, <2>2, <2>4, TurnIsSimilar
<1>3. CASE CreateOffer(a, b)
  <2>1. Kind(Head(chain[a][b]).op) = "ask" /\ Kind("setOffer") = "ask"
    BY <1>3 DEF CreateOffer, Runs, Kind
  <2> QED BY <1>2, <1>3, <2>1 DEF CreateOffer, Elsewhere, notes
<1>4. CASE CreateAnswer(a, b)
  <2>1. Kind(Head(chain[a][b]).op) = "reply" /\ Kind("setAnswer") = "reply"
    BY <1>4 DEF CreateAnswer, Runs, Kind
  <2> QED BY <1>2, <1>4, <2>1 DEF CreateAnswer, Elsewhere, notes
<1> QED BY <1>3, <1>4

LEMMA RejectStep ==
  ASSUME TypeOK, NEW a \in Pages, NEW b \in Pages, a # b, NEW op, NEW sigs,
         Rejects(a, b, op, sigs)
  PROVE  /\ Elsewhere(a, b) /\ UNCHANGED <<peer, rolled, lost>>
         /\ Route(a, b)' = Route(a, b)
         /\ Takes(Route(b, a), Route(b, a)', Kind(op))
         /\ Made(a, b) /\ peer[a][b].sig \in sigs
<1>0. chain[a][b] # <<>> /\ Head(chain[a][b]).op = op
  BY DEF Rejects, Runs
<1>1. <<>> \in Seq(Op) /\ UNCHANGED wires
  BY DEF Rejects
<1>2. Made(a, b) /\ peer[a][b].sig \in sigs
  BY <1>0, PeerTypes DEF Rejects, Made
<1>3. /\ \A x, y \in Pages : {x, y} # {a, b} => Alike(Route(x, y), Route(x, y)')
      /\ Route(a, b)' = Route(a, b)
      /\ Takes(Route(b, a), Route(b, a)', Kind(op))
  BY <1>0, <1>1, CalledStep DEF Rejects
<1> QED BY <1>2, <1>3 DEF Rejects, Elsewhere, notes

\* The peer of a for b has become p.
Becomes(a, b, p) ==
  Made(a, b) /\ Made(a, b)' /\ peer'[a][b] = p

LEMMA BecomesPeer ==
  ASSUME TypeOK, NEW a \in Pages, NEW b \in Pages, NEW p \in Peer, Made(a, b),
         peer' = [peer EXCEPT ![a][b] = p]
  PROVE  /\ Becomes(a, b, p)
         /\ \A x, y \in Pages : x # a \/ y # b => peer'[x][y] = peer[x][y]
<1>1. peer \in [Pages -> [Pages -> Peer \union {None}]]
  BY DEF TypeOK
<1>2. p # None
  BY SignalingAssumption
<1> HIDE DEF Peer
<1> QED BY <1>1, <1>2 DEF Becomes, Made

LEMMA SetRemoteStep ==
  ASSUME TypeOK, NEW a \in Pages, NEW b \in Pages, a # b, SetRemote(a, b)
  PROVE  /\ Elsewhere(a, b) /\ lost' = lost
         /\ rolled' = IF RollsBack(a, b) THEN rolled \union {<<a, b>>} ELSE rolled
         /\ Route(a, b)' = Route(a, b)
         /\ Turns(Route(b, a), Route(b, a)', "offer", "reply")
         /\ Becomes(a, b, [peer[a][b] EXCEPT !.sig = "have-remote", !.pend = b,
                             !.hears = Head(chain[a][b]).media,
                             !.ice = peer[a][b].ice /\ ~RollsBack(a, b)])
<1> DEFINE q == [peer[a][b] EXCEPT !.sig = "have-remote", !.pend = b,
                   !.hears = Head(chain[a][b]).media,
                   !.ice = peer[a][b].ice /\ ~RollsBack(a, b)]
           o == Call("createAnswer", FALSE)
<1>0. chain[a][b] # <<>> /\ Head(chain[a][b]).op = "setRemote"
  BY DEF SetRemote, Runs
<1>1. peer[a][b] \in Peer /\ Made(a, b) /\ Head(chain[a][b]) \in Op
  BY <1>0, PeerTypes DEF Made
<1>2. q \in Peer
  BY <1>1 DEF Peer, Op, RollsBack
<1>3. peer' = [peer EXCEPT ![a][b] = q]
  BY DEF SetRemote
<1>4. o \in Op /\ <<o>> \in Seq(Op)
  BY PeerTypes DEF Ops
<1>5. Done(a, b, <<o>>) /\ UNCHANGED wires
  BY DEF SetRemote
<1>6. Kind(Head(chain[a][b]).op) = "offer" /\ Kind(o.op) = "reply"
  BY <1>0 DEF Kind, Call
<1> HIDE DEF q, o
<1>7. /\ \A x, y \in Pages : {x, y} # {a, b} => Alike(Route(x, y), Route(x, y)')
      /\ Route(a, b)' = Route(a, b)
      /\ Turns(Route(b, a), Route(b, a)', "offer", "reply")
  BY <1>0, <1>4, <1>5, <1>6, CalledStep
<1>8. /\ Becomes(a, b, q)
      /\ \A x, y \in Pages : x # a \/ y # b => peer'[x][y] = peer[x][y]
  BY <1>1, <1>2, <1>3, BecomesPeer
<1> QED BY <1>7, <1>8 DEF SetRemote, Elsewhere, q

LEMMA ApplyAnswerStep ==
  ASSUME TypeOK, NEW a \in Pages, NEW b \in Pages, a # b, ApplyAnswer(a, b)
  PROVE  /\ Elsewhere(a, b) /\ UNCHANGED <<rolled, lost>>
         /\ Route(a, b)' = Route(a, b)
         /\ Takes(Route(b, a), Route(b, a)', "answer")
         /\ Becomes(a, b, [peer[a][b] EXCEPT !.sig = "stable", !.cur = a, !.pend = None,
                             !.hears = Head(chain[a][b]).media])
         /\ peer[a][b].sig = "have-local"
<1> DEFINE q == [peer[a][b] EXCEPT !.sig = "stable", !.cur = a, !.pend = None,
                   !.hears = Head(chain[a][b]).media]
<1>0. chain[a][b] # <<>> /\ Head(chain[a][b]).op = "applyAnswer" /\ peer[a][b].sig = "have-local"
  BY DEF ApplyAnswer, Runs
<1>1. peer[a][b] \in Peer /\ Made(a, b) /\ Head(chain[a][b]) \in Op
  BY <1>0, PeerTypes DEF Made
<1>2. q \in Peer
  BY <1>1 DEF Peer, Op
<1>3. peer' = [peer EXCEPT ![a][b] = q]
  BY DEF ApplyAnswer
<1>4. <<>> \in Seq(Op) /\ Done(a, b, <<>>) /\ UNCHANGED wires
  BY DEF ApplyAnswer
<1>6. Kind(Head(chain[a][b]).op) = "answer"
  BY <1>0 DEF Kind
<1> HIDE DEF q
<1>7. /\ \A x, y \in Pages : {x, y} # {a, b} => Alike(Route(x, y), Route(x, y)')
      /\ Route(a, b)' = Route(a, b)
      /\ Takes(Route(b, a), Route(b, a)', "answer")
  BY <1>0, <1>4, <1>6, CalledStep
<1>8. /\ Becomes(a, b, q)
      /\ \A x, y \in Pages : x # a \/ y # b => peer'[x][y] = peer[x][y]
  BY <1>1, <1>2, <1>3, BecomesPeer
<1> QED BY <1>0, <1>7, <1>8 DEF ApplyAnswer, Elsewhere, q, notes

LEMMA AddIceStep ==
  ASSUME TypeOK, NEW a \in Pages, NEW b \in Pages, a # b, AddIce(a, b)
  PROVE  /\ Elsewhere(a, b) /\ UNCHANGED <<rolled, lost>>
         /\ Route(a, b)' = Route(a, b)
         /\ Takes(Route(b, a), Route(b, a)', "ice")
         /\ Becomes(a, b, [peer[a][b] EXCEPT !.cands = peer[a][b].cands \/ Described(a, b)])
<1> DEFINE q == [peer[a][b] EXCEPT !.cands = peer[a][b].cands \/ Described(a, b)]
<1>0. chain[a][b] # <<>> /\ Head(chain[a][b]).op = "addIce"
  BY DEF AddIce, Runs
<1>1. peer[a][b] \in Peer /\ Made(a, b)
  BY <1>0, PeerTypes DEF Made
<1>2. q \in Peer
  BY <1>1 DEF Peer, Described
<1>3. peer' = [peer EXCEPT ![a][b] = q]
  BY DEF AddIce
<1>4. <<>> \in Seq(Op) /\ Done(a, b, <<>>) /\ UNCHANGED wires
  BY DEF AddIce
<1>6. Kind(Head(chain[a][b]).op) = "ice"
  BY <1>0 DEF Kind
<1> HIDE DEF q
<1>7. /\ \A x, y \in Pages : {x, y} # {a, b} => Alike(Route(x, y), Route(x, y)')
      /\ Route(a, b)' = Route(a, b)
      /\ Takes(Route(b, a), Route(b, a)', "ice")
  BY <1>0, <1>4, <1>6, CalledStep
<1>8. /\ Becomes(a, b, q)
      /\ \A x, y \in Pages : x # a \/ y # b => peer'[x][y] = peer[x][y]
  BY <1>1, <1>2, <1>3, BecomesPeer
<1> QED BY <1>7, <1>8 DEF AddIce, Elsewhere, q, notes

\* One operation of a is done, and a packet leaves a, if it has joined.
LEMMA SayingStep ==
  ASSUME TypeOK, NEW a \in Pages, NEW b \in Pages, a # b, chain[a][b] # <<>>,
         Done(a, b, <<>>), NEW k \in {"offer", "answer"}, NEW m \in BOOLEAN,
         up' = Sent(a, b, k, m), down' = down
  PROVE  /\ \A x, y \in Pages : {x, y} # {a, b} => Alike(Route(x, y), Route(x, y)')
         /\ Takes(Route(b, a), Route(b, a)', Kind(Head(chain[a][b]).op))
         /\ page[a] = "in" => Sends(Route(a, b), Route(a, b)', k)
         /\ page[a] # "in" => Route(a, b)' = Route(a, b)
<1>1. \A x, y \in Pages : x # a \/ y # b => chain'[x][y] = chain[x][y]
  BY DoneRoute
<1>2. /\ page[a] = "in" /\ chain'[b][a] = chain[b][a] =>
           Sends(Route(a, b), Route(a, b)', k)
      /\ page[a] # "in" /\ chain'[b][a] = chain[b][a] => Route(a, b)' = Route(a, b)
      /\ \A x, y \in Pages : (x # a \/ y # b) /\ chain'[y][x] = chain[y][x] =>
           Alike(Route(x, y), Route(x, y)')
      /\ \A x \in Pages : x # a => up'[x] = up[x]
  BY SentRoute
<1>3. \A x, y \in Pages : {x, y} # {a, b} => Alike(Route(x, y), Route(x, y)')
  BY <1>1, <1>2
<1>4. up'[b] = up[b] /\ down'[a] = down[a]
  BY <1>2
<1>5. Takes(Route(b, a), Route(b, a)', Kind(Head(chain[a][b]).op))
  BY <1>4, DoneRoute
<1> QED BY <1>1, <1>2, <1>3, <1>5

LEMMA SetOfferStep ==
  ASSUME TypeOK, NEW a \in Pages, NEW b \in Pages, a # b, SetOffer(a, b)
  PROVE  /\ Elsewhere(a, b) /\ UNCHANGED <<rolled, lost>>
         /\ Takes(Route(b, a), Route(b, a)', "ask")
         /\ page[a] = "in" => Sends(Route(a, b), Route(a, b)', "offer")
         /\ page[a] # "in" => Route(a, b)' = Route(a, b)
         /\ Becomes(a, b, [peer[a][b] EXCEPT !.sig = "have-local", !.pend = a,
                             !.ice = peer[a][b].ice \/ peer[a][b].cur = None])
         /\ peer[a][b].sig # "have-remote"
<1> DEFINE q == [peer[a][b] EXCEPT !.sig = "have-local", !.pend = a,
                   !.ice = peer[a][b].ice \/ peer[a][b].cur = None]
<1>0. /\ chain[a][b] # <<>> /\ Head(chain[a][b]).op = "setOffer"
      /\ peer[a][b].sig # "have-remote"
  BY DEF SetOffer, Runs
<1>1. peer[a][b] \in Peer /\ Made(a, b) /\ Head(chain[a][b]) \in Op
  BY <1>0, PeerTypes DEF Made
<1>2. q \in Peer /\ Head(chain[a][b]).media \in BOOLEAN
  BY <1>1 DEF Peer, Op
<1>3. peer' = [peer EXCEPT ![a][b] = q]
  BY DEF SetOffer
<1>4. /\ Done(a, b, <<>>) /\ down' = down
      /\ up' = Sent(a, b, "offer", Head(chain[a][b]).media)
  BY DEF SetOffer
<1>6. Kind(Head(chain[a][b]).op) = "ask"
  BY <1>0 DEF Kind
<1> HIDE DEF q
<1>7. /\ \A x, y \in Pages : {x, y} # {a, b} => Alike(Route(x, y), Route(x, y)')
      /\ Takes(Route(b, a), Route(b, a)', "ask")
      /\ page[a] = "in" => Sends(Route(a, b), Route(a, b)', "offer")
      /\ page[a] # "in" => Route(a, b)' = Route(a, b)
  BY <1>0, <1>2, <1>4, <1>6, SayingStep
<1>8. /\ Becomes(a, b, q)
      /\ \A x, y \in Pages : x # a \/ y # b => peer'[x][y] = peer[x][y]
  BY <1>1, <1>2, <1>3, BecomesPeer
<1> QED BY <1>0, <1>7, <1>8 DEF SetOffer, Elsewhere, q, notes

LEMMA SetAnswerStep ==
  ASSUME TypeOK, NEW a \in Pages, NEW b \in Pages, a # b, SetAnswer(a, b)
  PROVE  /\ Elsewhere(a, b) /\ rolled' = rolled
         /\ lost' = IF page[a] = "in" THEN lost ELSE lost \union {<<a, b>>}
         /\ Takes(Route(b, a), Route(b, a)', "reply")
         /\ page[a] = "in" => Sends(Route(a, b), Route(a, b)', "answer")
         /\ page[a] # "in" => Route(a, b)' = Route(a, b)
         /\ Becomes(a, b, [peer[a][b] EXCEPT !.sig = "stable", !.cur = b, !.pend = None,
                             !.ice = peer[a][b].ice \/ peer[a][b].cur = None])
         /\ peer[a][b].sig = "have-remote"
<1> DEFINE q == [peer[a][b] EXCEPT !.sig = "stable", !.cur = b, !.pend = None,
                   !.ice = peer[a][b].ice \/ peer[a][b].cur = None]
<1>0. /\ chain[a][b] # <<>> /\ Head(chain[a][b]).op = "setAnswer"
      /\ peer[a][b].sig = "have-remote"
  BY DEF SetAnswer, Runs
<1>1. peer[a][b] \in Peer /\ Made(a, b) /\ Head(chain[a][b]) \in Op
  BY <1>0, PeerTypes DEF Made
<1>2. q \in Peer /\ Head(chain[a][b]).media \in BOOLEAN
  BY <1>1 DEF Peer, Op
<1>3. peer' = [peer EXCEPT ![a][b] = q]
  BY DEF SetAnswer
<1>4. /\ Done(a, b, <<>>) /\ down' = down
      /\ up' = Sent(a, b, "answer", Head(chain[a][b]).media)
  BY DEF SetAnswer
<1>6. Kind(Head(chain[a][b]).op) = "reply"
  BY <1>0 DEF Kind
<1> HIDE DEF q
<1>7. /\ \A x, y \in Pages : {x, y} # {a, b} => Alike(Route(x, y), Route(x, y)')
      /\ Takes(Route(b, a), Route(b, a)', "reply")
      /\ page[a] = "in" => Sends(Route(a, b), Route(a, b)', "answer")
      /\ page[a] # "in" => Route(a, b)' = Route(a, b)
  BY <1>0, <1>2, <1>4, <1>6, SayingStep
<1>8. /\ Becomes(a, b, q)
      /\ \A x, y \in Pages : x # a \/ y # b => peer'[x][y] = peer[x][y]
  BY <1>1, <1>2, <1>3, BecomesPeer
<1> QED BY <1>0, <1>7, <1>8 DEF SetAnswer, Elsewhere, q

LEMMA GatherStep ==
  ASSUME TypeOK, NEW a \in Pages, NEW b \in Pages, Gather(a, b)
  PROVE  /\ \A x, y \in Pages : x # a \/ y # b => peer'[x][y] = peer[x][y]
         /\ UNCHANGED <<joining, ready, stream, chain, notes>>
         /\ \A x, y \in Pages : x # a \/ y # b => Alike(Route(x, y), Route(x, y)')
         /\ page[a] = "in" /\ a \in ready => Sends(Route(a, b), Route(a, b)', "ice")
         /\ page[a] # "in" \/ a \notin ready => Route(a, b)' = Route(a, b)
         /\ Becomes(a, b, [peer[a][b] EXCEPT !.ice = FALSE])
         /\ peer[a][b].ice
<1> DEFINE q == [peer[a][b] EXCEPT !.ice = FALSE]
<1>1. peer[a][b] \in Peer /\ Made(a, b)
  BY PeerTypes DEF Made, Gather
<1>2. q \in Peer
  BY <1>1 DEF Peer
<1>3. peer' = [peer EXCEPT ![a][b] = q]
  BY DEF Gather
<1> HIDE DEF q
<1>4. /\ Becomes(a, b, q)
      /\ \A x, y \in Pages : x # a \/ y # b => peer'[x][y] = peer[x][y]
  BY <1>1, <1>2, <1>3, BecomesPeer
<1>5. CASE a \in ready
  <2>1. up' = Sent(a, b, "ice", FALSE) /\ chain' = chain /\ down' = down
    BY <1>5 DEF Gather
  <2>2. /\ page[a] = "in" => Sends(Route(a, b), Route(a, b)', "ice")
        /\ page[a] # "in" => Route(a, b)' = Route(a, b)
        /\ \A x, y \in Pages : x # a \/ y # b => Alike(Route(x, y), Route(x, y)')
    BY <2>1, SentRoute
  <2> QED BY <1>4, <1>5, <2>2 DEF Gather, q
<1>6. CASE a \notin ready
  <2>1. UNCHANGED <<up, chain, down>>
    BY <1>6 DEF Gather
  <2>2. \A x, y \in Pages : Route(x, y)' = Route(x, y)
    BY <2>1 DEF Route
  <2> QED BY <1>4, <1>6, <2>2 DEF Gather, q, Alike
<1> QED BY <1>5, <1>6

\* Nothing new is in the route.
Shrinks(r, s) == \A k : In(s, k) => k = "other" \/ In(r, k)

LEMMA ShrinkFacts ==
  /\ \A r, s : Alike(r, s) => Shrinks(r, s)
  /\ \A r, s, p : Without(r, s, p) => Shrinks(r, s)
<1>1. ASSUME NEW r, NEW s, Alike(r, s) PROVE Shrinks(r, s)
  <2>1. \A k : k # "other" => (In(s, k) <=> In(r, k))
    BY <1>1, AlikeFacts
  <2> QED BY <2>1 DEF Shrinks
<1>2. ASSUME NEW r, NEW s, NEW p, Without(r, s, p) PROVE Shrinks(r, s)
  <2>1. \A k : In(s, k) => In(r, k)
    BY <1>2, TakenFacts
  <2> QED BY <2>1 DEF Shrinks
<1> QED BY <1>1, <1>2

\* A packet is relayed: it keeps its place, unless the page it is for has gone.
LEMMA RelayStep ==
  ASSUME TypeOK, SelfInv, PageInv, NEW a \in Pages, Relay(a)
  PROVE  /\ UNCHANGED <<joining, rtc, notes>>
         /\ \A x, y \in Pages : Shrinks(Route(x, y), Route(x, y)')
         /\ \A x, y \in Pages : x # y =>
              \/ Alike(Route(x, y), Route(x, y)')
              \/ x = a /\ page[y] = "closed"
<1> DEFINE s == Head(up[a])
           z == [kind |-> s.kind, from |-> a, media |-> s.media]
<1>1. s \in Signal /\ z \in Packet /\ up[a] # <<>>
  BY RelayTypes DEF Relay
<1>2. a \in bound
  BY DEF Relay, PageInv
<1>3. s.to \in Pages /\ s.to # a
  <2>1. s \in Elems(up[a])
    BY <1>1, WireTypes, ElemFacts
  <2> QED BY <1>1, <2>1 DEF SelfInv, Signal
<1>4. PICK t \in Pages : t = s.to
  BY <1>3
<1>5. PICK v \in Packet : v = z
  BY <1>1
<1>6. /\ UNCHANGED <<joining, rtc, notes>> /\ chain' = chain
      /\ up' = [up EXCEPT ![a] = Tail(@)]
  BY DEF Relay, rtc
<1>7. up'[a] = Tail(up[a]) /\ \A x \in Pages : x # a => up'[x] = up[x]
  BY <1>6 DEF TypeOK
<1>8. /\ page[t] # "closed" => down'[t] = Append(down[t], v)
      /\ page[t] = "closed" => down'[t] = down[t]
      /\ \A y \in Pages : y # t => down'[y] = down[y]
  BY <1>2, <1>4, <1>5 DEF Relay, TypeOK
<1>9. v.from = a /\ v.kind = s.kind /\ Leaving(s, t) = v.kind
  BY <1>4, <1>5 DEF Leaving
<1>10. \A y \in Pages : y # t => Leaving(s, y) = "other"
  BY <1>4 DEF Leaving
<1>11. t # a
  BY <1>3, <1>4
<1> HIDE DEF s, z
<1>12. ASSUME NEW x \in Pages, NEW y \in Pages
       PROVE  /\ Shrinks(Route(x, y), Route(x, y)')
              /\ x # y => Alike(Route(x, y), Route(x, y)') \/ (x = a /\ page[y] = "closed")
  <2> DEFINE c == chain[y][x]
             d == down[y]
             u == up[x]
             i == Len(c) + Len(d) + 1
             e == down'[y]
             w == up'[x]
  <2>1. c \in Seq(Op) /\ d \in Seq(Packet) /\ u \in Seq(Signal)
    BY PeerTypes, WireTypes
  <2>2. Route(x, y) = RouteOf(c, d, u, x, y)
    BY DEF Route
  <2>3. Route(x, y)' = RouteOf(c, e, w, x, y)
    BY <1>6 DEF Route
  <2>4. e = IF y = t /\ page[t] # "closed" THEN Append(d, v) ELSE d
    BY <1>8
  <2>5. w = IF x = a THEN Tail(u) ELSE u
    BY <1>7
  <2>6. x = a => u # <<>> /\ Head(u) = s
    BY <1>1 DEF s
  <2> HIDE DEF c, d, u, e, w
  <2>7. i \in Nat
    BY <2>1
  <2>8. CASE x # a /\ e = d
    <3>1. Alike(Route(x, y), Route(x, y)')
      BY <2>2, <2>3, <2>5, <2>8 DEF Alike
    <3> QED BY <3>1, ShrinkFacts
  <2>9. CASE x # a /\ e = Append(d, v)
    <3>1. /\ Without(RouteOf(c, Append(d, v), u, x, y), RouteOf(c, d, u, x, y), i)
          /\ RouteOf(c, Append(d, v), u, x, y)[i] = Arrived(v, x)
      BY <2>1, PutOnDown
    <3>2. Arrived(v, x) = "other"
      BY <1>9, <2>9 DEF Arrived
    <3> HIDE DEF i
    <3>3. Alike(Route(x, y), Route(x, y)')
      BY <2>2, <2>3, <2>5, <2>7, <2>9, <3>1, <3>2 DEF Alike
    <3> QED BY <3>3, ShrinkFacts
  <2>10. CASE x = a /\ e = d
    <3>1. /\ Without(RouteOf(c, d, u, x, y), RouteOf(c, d, Tail(u), x, y), i)
          /\ RouteOf(c, d, u, x, y)[i] = Leaving(s, y)
      BY <2>1, <2>6, <2>10, TakenFromUp
    <3>2. y = t => page[y] = "closed"
      <4>1. ASSUME Append(d, v) = d PROVE FALSE
        <5>1. Len(Append(d, v)) = Len(d) + 1 /\ Len(d) \in Nat
          BY <2>1
        <5> QED BY <4>1, <5>1
      <4> QED BY <2>4, <2>10, <4>1
    <3> HIDE DEF i
    <3>3. Shrinks(Route(x, y), Route(x, y)')
      BY <2>2, <2>3, <2>5, <2>10, <3>1, ShrinkFacts
    <3>4. y # t => Alike(Route(x, y), Route(x, y)')
      BY <1>10, <2>2, <2>3, <2>5, <2>7, <2>10, <3>1 DEF Alike
    <3> QED BY <2>10, <3>2, <3>3, <3>4
  <2>11. CASE x = a /\ e = Append(d, v) /\ y = t
    <3>1. Arrived(v, x) = Leaving(Head(u), y)
      BY <1>9, <2>6, <2>11 DEF Arrived
    <3>2. RouteOf(c, Append(d, v), Tail(u), x, y) = RouteOf(c, d, u, x, y)
      BY <2>1, <2>6, <2>11, <3>1, UpToDown
    <3>3. Alike(Route(x, y), Route(x, y)')
      BY <2>2, <2>3, <2>5, <2>11, <3>2 DEF Alike
    <3> QED BY <3>3, ShrinkFacts
  <2> QED BY <2>4, <2>8, <2>9, <2>10, <2>11
<1> QED BY <1>6, <1>12

\* A packet is taken: who does not send it does not notice.
LEMMA DownRoute ==
  ASSUME TypeOK, NEW a \in Pages, down[a] # <<>>, down'[a] = Tail(down[a]),
         NEW x \in Pages, chain'[a][x] = chain[a][x], up' = up
  PROVE  /\ Arrived(Head(down[a]), x) = "other" => Alike(Route(x, a), Route(x, a)')
         /\ chain[a][x] = <<>> =>
              Takes(Route(x, a), Route(x, a)', Arrived(Head(down[a]), x))
<1> DEFINE c == chain[a][x]
           d == down[a]
           u == up[x]
           i == Len(c) + 1
<1>1. c \in Seq(Op) /\ d \in Seq(Packet) /\ u \in Seq(Signal)
  BY PeerTypes, WireTypes
<1>2. Route(x, a) = RouteOf(c, d, u, x, a)
  BY DEF Route
<1>3. Route(x, a)' = RouteOf(c, Tail(d), u, x, a)
  BY DEF Route
<1>4. d # <<>>
  OBVIOUS
<1> HIDE DEF c, d, u
<1>5. /\ Without(RouteOf(c, d, u, x, a), RouteOf(c, Tail(d), u, x, a), i)
      /\ RouteOf(c, d, u, x, a)[i] = Arrived(Head(d), x)
  BY <1>1, <1>4, TakenFromDown
<1>6. i \in Nat /\ (c = <<>> => i = 1)
  BY <1>1
<1> HIDE DEF i
<1>7. Arrived(Head(d), x) = "other" => Alike(Route(x, a), Route(x, a)')
  BY <1>2, <1>3, <1>5, <1>6 DEF Alike
<1>8. c = <<>> => Takes(Route(x, a), Route(x, a)', Arrived(Head(d), x))
  BY <1>2, <1>3, <1>5, <1>6 DEF Takes
<1> QED BY <1>7, <1>8 DEF c, d

\* What goes on elsewhere.
LEMMA RouteStays ==
  ASSUME NEW x, NEW y, chain'[y][x] = chain[y][x], down'[y] = down[y], up'[x] = up[x]
  PROVE  Route(x, y)' = Route(x, y) /\ Alike(Route(x, y), Route(x, y)')
<1>1. Route(x, y)' = Route(x, y)
  BY DEF Route
<1> QED BY <1>1 DEF Alike

LEMMA TakeAckStep ==
  ASSUME TypeOK, PageInv, NEW a \in Pages, TakeAck(a)
  PROVE  /\ UNCHANGED <<role, rows, bound, list, media, rtc, up, notes>>
         /\ \A x, y \in Pages : x # y => Alike(Route(x, y), Route(x, y)')
         /\ a \in bound
<1>1. Head(down[a]).kind = "ack" /\ Head(down[a]).from = a /\ a \in bound
  <2>1. Head(down[a]) \in Elems(down[a])
    BY WireTypes, ElemFacts DEF TakeAck
  <2> QED BY <2>1 DEF PageInv, TakeAck
<1>2. /\ UNCHANGED <<chain, up>> /\ down[a] # <<>> /\ down'[a] = Tail(down[a])
      /\ \A y \in Pages : y # a => down'[y] = down[y]
  BY DEF TakeAck, rtc, TypeOK
<1>3. ASSUME NEW x \in Pages, x # a PROVE Alike(Route(x, a), Route(x, a)')
  <2>1. Arrived(Head(down[a]), x) = "other"
    BY <1>1, <1>3 DEF Arrived
  <2> QED BY <1>2, <2>1, DownRoute
<1>4. ASSUME NEW x \in Pages, NEW y \in Pages, y # a PROVE Alike(Route(x, y), Route(x, y)')
  BY <1>2, <1>4, RouteStays
<1> QED BY <1>1, <1>3, <1>4 DEF TakeAck

LEMMA TakeOfferStep ==
  ASSUME TypeOK, SelfInv, NEW a \in Pages, TakeOffer(a)
  PROVE  /\ UNCHANGED <<joining, ready, stream, shown, up, offered, rolled, lost>>
         /\ \A x, y \in Pages : x # y => Alike(Route(x, y), Route(x, y)')
         /\ \E b \in Pages :
              /\ b # a /\ In(Route(b, a), "offer")
              /\ \A x, y \in Pages : x # a \/ y # b => peer'[x][y] = peer[x][y]
              /\ peer'[a][b] = PeerOf(a, b, a \in stream)
              /\ early' = IF peer[a][b] = None /\ a \notin stream
                          THEN early \union {<<a, b>>} ELSE early
<1> DEFINE p == Head(down[a])
<1>1. p \in Packet /\ p \in Elems(down[a]) /\ p.kind = "offer"
  BY WireTypes, ElemFacts DEF TakeOffer
<1>2. PICK b \in Pages : b = p.from
  BY <1>1 DEF Packet
<1>3. b # a
  BY <1>1, <1>2 DEF SelfInv
<1>4. PICK o \in Op : o = Call("setRemote", p.media)
  BY <1>1 DEF Packet, Call, Op, Ops
<1>5. /\ chain' = [chain EXCEPT ![a][b] = Append(@, o)]
      /\ down' = [down EXCEPT ![a] = Tail(@)] /\ up' = up
      /\ peer' = [peer EXCEPT ![a][b] = PeerOf(a, b, a \in stream)]
      /\ early' = IF peer[a][b] = None /\ a \notin stream
                  THEN early \union {<<a, b>>} ELSE early
  BY <1>2, <1>4 DEF TakeOffer
<1>6. chain \in [Pages -> [Pages -> Seq(Op)]] /\ peer \in [Pages -> [Pages -> Peer \union {None}]]
  BY DEF TypeOK
<1>7. /\ chain'[a][b] = Append(chain[a][b], o)
      /\ \A x, y \in Pages : x # a \/ y # b => chain'[x][y] = chain[x][y]
      /\ down'[a] = Tail(down[a]) /\ \A y \in Pages : y # a => down'[y] = down[y]
  BY <1>5, <1>6 DEF TypeOK
<1>8. /\ \A x, y \in Pages : x # a \/ y # b => peer'[x][y] = peer[x][y]
      /\ peer'[a][b] = PeerOf(a, b, a \in stream)
  <2> HIDE DEF Peer
  <2> QED BY <1>5, <1>6
<1>9. Kind(o.op) = "offer" /\ Arrived(p, b) = "offer"
  BY <1>1, <1>2, <1>4 DEF Kind, Call, Arrived
<1>10. Route(b, a)' = Route(b, a) /\ In(Route(b, a), "offer")
  <2> DEFINE c == chain[a][b]
             d == down[a]
             u == up[b]
             i == Len(c) + 1
  <2>1. c \in Seq(Op) /\ d \in Seq(Packet) /\ u \in Seq(Signal) /\ d # <<>>
    BY PeerTypes, WireTypes DEF TakeOffer
  <2>2. Route(b, a) = RouteOf(c, d, u, b, a)
    BY DEF Route
  <2>3. Route(b, a)' = RouteOf(Append(c, o), Tail(d), u, b, a)
    BY <1>5, <1>7 DEF Route
  <2>4. Arrived(Head(d), b) = Kind(o.op) /\ Arrived(Head(d), b) = "offer"
    BY <1>9
  <2> HIDE DEF c, d, u
  <2>5. RouteOf(Append(c, o), Tail(d), u, b, a) = RouteOf(c, d, u, b, a)
    BY <2>1, <2>4, DownToChain
  <2>6. /\ Without(RouteOf(c, d, u, b, a), RouteOf(c, Tail(d), u, b, a), i)
        /\ RouteOf(c, d, u, b, a)[i] = Arrived(Head(d), b)
    BY <2>1, TakenFromDown
  <2>7. In(RouteOf(c, d, u, b, a), "offer")
    BY <2>4, <2>6, TakenFacts
  <2> QED BY <2>2, <2>3, <2>5, <2>7
<1>11. ASSUME NEW x \in Pages, x # a, x # b PROVE Alike(Route(x, a), Route(x, a)')
  <2>1. Arrived(Head(down[a]), x) = "other"
    BY <1>2, <1>11 DEF Arrived
  <2>2. down[a] # <<>>
    BY DEF TakeOffer
  <2> QED BY <1>5, <1>7, <1>11, <2>1, <2>2, DownRoute
<1>12. ASSUME NEW x \in Pages, NEW y \in Pages, y # a PROVE Alike(Route(x, y), Route(x, y)')
  BY <1>5, <1>7, <1>12, RouteStays
<1>13. Alike(Route(b, a), Route(b, a)')
  BY <1>10 DEF Alike
<1>14. \A x, y \in Pages : x # y => Alike(Route(x, y), Route(x, y)')
  BY <1>11, <1>12, <1>13
<1>15. /\ b # a /\ In(Route(b, a), "offer")
       /\ \A x, y \in Pages : x # a \/ y # b => peer'[x][y] = peer[x][y]
       /\ peer'[a][b] = PeerOf(a, b, a \in stream)
       /\ early' = IF peer[a][b] = None /\ a \notin stream
                   THEN early \union {<<a, b>>} ELSE early
  BY <1>3, <1>5, <1>8, <1>10
<1> QED BY <1>14, <1>15 DEF TakeOffer

LEMMA TakeOtherStep ==
  ASSUME TypeOK, SelfInv, NEW a \in Pages, TakeOther(a)
  PROVE  /\ UNCHANGED <<joining, ready, stream, peer, shown, up, notes>>
         /\ \E b \in Pages :
              /\ b # a
              /\ \A x, y \in Pages : x # y /\ (x # b \/ y # a \/ Made(a, b)) =>
                   Alike(Route(x, y), Route(x, y)')
              /\ ~Made(a, b) => \E k \in {"answer", "ice"} : Takes(Route(b, a), Route(b, a)', k)
<1> DEFINE p == Head(down[a])
           op == IF p.kind = "answer" THEN "applyAnswer" ELSE "addIce"
<1>1. p \in Packet /\ p \in Elems(down[a]) /\ p.kind \in {"answer", "ice"}
  BY WireTypes, ElemFacts DEF TakeOther
<1>2. PICK b \in Pages : b = p.from
  BY <1>1 DEF Packet
<1>3. b # a
  BY <1>1, <1>2 DEF SelfInv
<1>4. PICK o \in Op : o = Call(op, p.media)
  <2>1. op \in Ops /\ p.media \in BOOLEAN
    BY <1>1 DEF Packet, Ops
  <2> HIDE DEF op, p
  <2> QED BY <2>1, PeerTypes
<1>5. /\ chain' = IF peer[a][b] = None THEN chain ELSE [chain EXCEPT ![a][b] = Append(@, o)]
      /\ down' = [down EXCEPT ![a] = Tail(@)] /\ up' = up
  BY <1>2, <1>4 DEF TakeOther
<1>6. chain \in [Pages -> [Pages -> Seq(Op)]]
  BY DEF TypeOK
<1>7. /\ chain'[a][b] = IF Made(a, b) THEN Append(chain[a][b], o) ELSE chain[a][b]
      /\ \A x, y \in Pages : x # a \/ y # b => chain'[x][y] = chain[x][y]
      /\ down'[a] = Tail(down[a]) /\ \A y \in Pages : y # a => down'[y] = down[y]
  BY <1>5, <1>6 DEF TypeOK, Made
<1>8. PICK k \in {"answer", "ice"} : k = p.kind
  BY <1>1
<1>9. Kind(o.op) = k /\ Arrived(p, b) = k
  BY <1>1, <1>2, <1>4, <1>8 DEF Kind, Call, Arrived
<1>10. ASSUME Made(a, b) PROVE Alike(Route(b, a), Route(b, a)')
  <2> DEFINE c == chain[a][b]
             d == down[a]
             u == up[b]
  <2>1. c \in Seq(Op) /\ d \in Seq(Packet) /\ u \in Seq(Signal) /\ d # <<>>
    BY PeerTypes, WireTypes DEF TakeOther
  <2>2. Route(b, a) = RouteOf(c, d, u, b, a)
    BY DEF Route
  <2>3. Route(b, a)' = RouteOf(Append(c, o), Tail(d), u, b, a)
    BY <1>5, <1>7, <1>10 DEF Route
  <2>4. Arrived(Head(d), b) = Kind(o.op)
    BY <1>9
  <2> HIDE DEF c, d, u
  <2>5. RouteOf(Append(c, o), Tail(d), u, b, a) = RouteOf(c, d, u, b, a)
    BY <2>1, <2>4, DownToChain
  <2> QED BY <2>2, <2>3, <2>5 DEF Alike
<1>11. ASSUME NEW x \in Pages, x # a, x # b PROVE Alike(Route(x, a), Route(x, a)')
  <2>1. Arrived(Head(down[a]), x) = "other"
    BY <1>2, <1>11 DEF Arrived
  <2>2. down[a] # <<>>
    BY DEF TakeOther
  <2> QED BY <1>5, <1>7, <1>11, <2>1, <2>2, DownRoute
<1>12. ASSUME NEW x \in Pages, NEW y \in Pages, y # a PROVE Alike(Route(x, y), Route(x, y)')
  BY <1>5, <1>7, <1>12, RouteStays
<1>13. ASSUME ~Made(a, b) PROVE Takes(Route(b, a), Route(b, a)', k)
  <2>1. chain[a][b] = <<>> /\ chain'[a][b] = chain[a][b] /\ down[a] # <<>>
    BY <1>7, <1>13 DEF TypeOK, Made, TakeOther
  <2>2. Arrived(Head(down[a]), b) = k
    BY <1>9
  <2> QED BY <1>5, <1>7, <2>1, <2>2, DownRoute
<1>14. /\ b # a
       /\ \A x, y \in Pages : x # y /\ (x # b \/ y # a \/ Made(a, b)) =>
            Alike(Route(x, y), Route(x, y)')
       /\ ~Made(a, b) => Takes(Route(b, a), Route(b, a)', k)
  BY <1>3, <1>10, <1>11, <1>12, <1>13
<1> QED BY <1>14 DEF TakeOther

LEMMA JoiningStep ==
  ASSUME TypeOK, NEW a \in Pages,
         \/ AskJoin(a) \/ SaveRow(a) \/ Acknowledge(a) \/ TimeOut(a) \/ ServeList(a)
         \/ Answer(a, "granted") \/ Answer(a, "denied") \/ Depart(a)
  PROVE  /\ UNCHANGED <<role, rtc, up, notes>>
         /\ \A x, y \in Pages : x # y => Alike(Route(x, y), Route(x, y)')
<1>1. CASE Acknowledge(a)
  <2>1. PICK z \in Packet : z = [kind |-> "ack", from |-> a, media |-> FALSE]
    BY DEF Packet
  <2>2. /\ UNCHANGED <<role, rtc, up, notes, chain>>
        /\ down'[a] = Append(down[a], z) /\ \A y \in Pages : y # a => down'[y] = down[y]
    BY <1>1, <2>1 DEF Acknowledge, TypeOK, rtc
  <2>3. ASSUME NEW x \in Pages, x # a PROVE Alike(Route(x, a), Route(x, a)')
    <3> DEFINE c == chain[a][x]
               d == down[a]
               u == up[x]
               i == Len(c) + Len(d) + 1
    <3>1. c \in Seq(Op) /\ d \in Seq(Packet) /\ u \in Seq(Signal)
      BY PeerTypes, WireTypes
    <3>2. Route(x, a) = RouteOf(c, d, u, x, a)
      BY DEF Route
    <3>3. Route(x, a)' = RouteOf(c, Append(d, z), u, x, a)
      BY <2>2 DEF Route
    <3>4. Arrived(z, x) = "other"
      BY <2>1, <2>3 DEF Arrived
    <3> HIDE DEF c, d, u
    <3>5. /\ Without(RouteOf(c, Append(d, z), u, x, a), RouteOf(c, d, u, x, a), i)
          /\ RouteOf(c, Append(d, z), u, x, a)[i] = Arrived(z, x)
      BY <3>1, PutOnDown
    <3>6. i \in Nat
      BY <3>1
    <3> HIDE DEF i
    <3> QED BY <3>2, <3>3, <3>4, <3>5, <3>6 DEF Alike
  <2>4. ASSUME NEW x \in Pages, NEW y \in Pages, y # a PROVE Alike(Route(x, y), Route(x, y)')
    BY <2>2, <2>4, RouteStays
  <2> QED BY <2>2, <2>3, <2>4
<1>2. CASE ~Acknowledge(a)
  <2>1. UNCHANGED <<role, rtc, up, notes, chain, down>>
    BY <1>2 DEF AskJoin, SaveRow, TimeOut, ServeList, Answer, Depart, rtc, wires
  <2> QED BY <2>1, RouteStays
<1> QED BY <1>1, <1>2

LEMMA ConnectStep ==
  ASSUME TypeOK, NEW a \in Pages, Connect(a)
  PROVE  /\ UNCHANGED <<joining, shown, wires, rolled, lost>>
         /\ list[a] # None /\ list[a] \subseteq Pages /\ a \notin offered
         /\ offered' = offered \union {a} /\ ready' = ready \union {a}
         /\ \A x, y \in Pages : x # a \/ y \notin list[a] =>
              peer'[x][y] = peer[x][y] /\ Alike(Route(y, x), Route(y, x)')
         /\ \A y \in list[a] : /\ peer'[a][y] = PeerOf(a, y, role[a] = "participant")
                               /\ Puts(Route(y, a), Route(y, a)', "ask")
<1> DEFINE sends == role[a] = "participant"
<1>1. list[a] \in SUBSET Pages /\ list[a] # None
  BY DEF Connect, TypeOK
<1>2. PICK o \in Op : o = Call("createOffer", FALSE)
  BY DEF Call, Op, Ops
<1>3. chain' = [chain EXCEPT ![a] =
                  [b \in Pages |-> IF b \in list[a] THEN Append(chain[a][b], o)
                                   ELSE chain[a][b]]]
  BY <1>2 DEF Connect, TypeOK
<1>4. peer' = [peer EXCEPT ![a] =
                 [b \in Pages |-> IF b \in list[a] THEN PeerOf(a, b, sends) ELSE peer[a][b]]]
  BY DEF Connect, TypeOK
<1>5. chain \in [Pages -> [Pages -> Seq(Op)]] /\ peer \in [Pages -> [Pages -> Peer \union {None}]]
  BY DEF TypeOK
<1> HIDE DEF Peer, sends
<1>6. \A x, y \in Pages : x # a \/ y \notin list[a] => chain'[x][y] = chain[x][y]
  BY <1>3, <1>5
<1>7. \A x, y \in Pages : x # a \/ y \notin list[a] => peer'[x][y] = peer[x][y]
  BY <1>4, <1>5
<1>8. \A y \in list[a] : chain'[a][y] = Append(chain[a][y], o)
  BY <1>1, <1>3, <1>5
<1>9. \A y \in list[a] : peer'[a][y] = PeerOf(a, y, sends)
  BY <1>1, <1>4, <1>5
<1>10. down' = down /\ up' = up
  BY DEF Connect, wires
<1>11. ASSUME NEW x \in Pages, NEW y \in Pages, x # a \/ y \notin list[a]
       PROVE  Alike(Route(y, x), Route(y, x)')
  BY <1>6, <1>10, <1>11, RouteStays
<1>12. ASSUME NEW y \in list[a] PROVE Puts(Route(y, a), Route(y, a)', "ask")
  <2>0. y \in Pages
    BY <1>1
  <2> DEFINE c == chain[a][y]
             d == down[a]
             u == up[y]
             i == Len(c) + 1
  <2>1. c \in Seq(Op) /\ d \in Seq(Packet) /\ u \in Seq(Signal)
    BY <2>0, PeerTypes, WireTypes
  <2>2. Route(y, a) = RouteOf(c, d, u, y, a)
    BY DEF Route
  <2>3. Route(y, a)' = RouteOf(chain'[a][y], down'[a], up'[y], y, a)
    BY DEF Route
  <2>4. chain'[a][y] = Append(c, o) /\ down'[a] = d /\ up'[y] = u
    BY <1>8, <1>10
  <2>5. Kind(o.op) = "ask"
    BY <1>2 DEF Kind, Call
  <2> HIDE DEF c, d, u
  <2>6. /\ Without(RouteOf(Append(c, o), d, u, y, a), RouteOf(c, d, u, y, a), i)
        /\ RouteOf(Append(c, o), d, u, y, a)[i] = Kind(o.op)
    BY <2>1, PutOnChain
  <2>7. i \in Nat
    BY <2>1
  <2> HIDE DEF i
  <2> QED BY <2>2, <2>3, <2>4, <2>5, <2>6, <2>7 DEF Puts
<1> QED BY <1>1, <1>7, <1>9, <1>11, <1>12 DEF Connect, sends

LEMMA CloseStep ==
  ASSUME TypeOK, NEW a \in Pages, Close(a)
  PROVE  /\ UNCHANGED <<role, rows, bound, list, media, up, notes>>
         /\ page' = [page EXCEPT ![a] = "closed"] /\ page[a] \notin {"new", "closed"}
         /\ ready' = ready \ {a}
         /\ \A x, y \in Pages : x # a => peer'[x][y] = peer[x][y]
         /\ \A y \in Pages : peer'[a][y] = None /\ chain'[a][y] = <<>>
         /\ down'[a] = <<>> /\ \A x \in Pages : x # a => down'[x] = down[x]
         /\ \A x, y \in Pages : y # a => Alike(Route(x, y), Route(x, y)')
         /\ \A x, y \in Pages : x # y => Shrinks(Route(x, y), Route(x, y)')
         /\ \A x \in Pages : ~In(Route(x, a)', "reply")
<1>1. /\ UNCHANGED <<role, rows, bound, list, media, up, notes>>
      /\ page' = [page EXCEPT ![a] = "closed"] /\ page[a] \notin {"new", "closed"}
      /\ ready' = ready \ {a}
      /\ \A x, y \in Pages : x # a => peer'[x][y] = peer[x][y] /\ chain'[x][y] = chain[x][y]
      /\ \A y \in Pages : peer'[a][y] = None /\ chain'[a][y] = <<>>
      /\ down'[a] = <<>> /\ \A x \in Pages : x # a => down'[x] = down[x]
  BY DEF Close, TypeOK
<1>2. \A x, y \in Pages : y # a => Alike(Route(x, y), Route(x, y)')
  BY <1>1, RouteStays
<1>3. ASSUME NEW x \in Pages
      PROVE  Shrinks(Route(x, a), Route(x, a)') /\ ~In(Route(x, a)', "reply")
  <2> DEFINE c == chain[a][x]
             d == down[a]
             u == up[x]
  <2>1. c \in Seq(Op) /\ d \in Seq(Packet) /\ u \in Seq(Signal)
    BY PeerTypes, WireTypes
  <2>2. Route(x, a) = RouteOf(c, d, u, x, a)
    BY DEF Route
  <2>3. Route(x, a)' = RouteOf(<<>>, <<>>, u, x, a)
    BY <1>1 DEF Route
  <2> HIDE DEF c, d, u
  <2>4. Len(c) \in Nat /\ Len(d) \in Nat /\ Len(u) \in Nat
    BY <2>1
  <2>5. ASSUME NEW i \in DOMAIN RouteOf(<<>>, <<>>, u, x, a)
        PROVE  /\ Len(c) + Len(d) + i \in DOMAIN RouteOf(c, d, u, x, a)
               /\ RouteOf(<<>>, <<>>, u, x, a)[i] = RouteOf(c, d, u, x, a)[Len(c) + Len(d) + i]
               /\ RouteOf(<<>>, <<>>, u, x, a)[i] # "reply"
    <3>1. i \in 1 .. Len(u)
      BY <2>4 DEF RouteOf
    <3>2. RouteOf(<<>>, <<>>, u, x, a)[i] = Leaving(u[i], a)
      BY <2>4, <3>1 DEF RouteOf, Leaving
    <3>3. /\ Len(c) + Len(d) + i \in DOMAIN RouteOf(c, d, u, x, a)
          /\ RouteOf(c, d, u, x, a)[Len(c) + Len(d) + i] = Leaving(u[i], a)
      BY <2>4, <3>1 DEF RouteOf, Leaving
    <3>4. u[i].kind # "reply"
      <4>1. u[i] \in Signal
        BY <2>1, <3>1
      <4> QED BY <4>1 DEF Signal
    <3> QED BY <3>2, <3>3, <3>4 DEF Leaving
  <2> QED BY <2>2, <2>3, <2>5 DEF Shrinks, In
<1> QED BY <1>1, <1>2, <1>3, ShrinkFacts
-----------------------------------------------------------------------------
(* Pages, sockets and lists.                                               *)

LEMMA CallElems ==
  ASSUME TypeOK, NEW a \in Pages, NEW b \in Pages, chain[a][b] # <<>>
  PROVE  /\ Head(chain[a][b]) \in Elems(chain[a][b])
         /\ Done(a, b, <<>>) => Elems(chain'[a][b]) \subseteq Elems(chain[a][b])
         /\ \A o \in Op : Done(a, b, <<o>>) =>
              Elems(chain'[a][b]) \subseteq Elems(chain[a][b]) \union {o}
<1> DEFINE c == chain[a][b]
<1>1. c \in Seq(Op) /\ Tail(c) \in Seq(Op) /\ c # <<>>
  BY PeerTypes
<1>2. \A next : Done(a, b, next) => chain'[a][b] = Tail(c) \o next
  BY DEF Done, TypeOK
<1> HIDE DEF c
<1>3. Tail(c) \o <<>> = Tail(c) /\ \A o \in Op : Tail(c) \o <<o>> = Append(Tail(c), o)
  BY <1>1
<1>4. Head(c) \in Elems(c) /\ Elems(Tail(c)) \subseteq Elems(c)
  BY <1>1, ElemFacts
<1>5. \A o \in Op : Elems(Append(Tail(c), o)) = Elems(Tail(c)) \union {o}
  <2> DEFINE t == Tail(c)
  <2>1. t \in Seq(Op)
    BY <1>1
  <2> HIDE DEF t
  <2>2. \A o \in Op : Elems(Append(t, o)) = Elems(t) \union {o}
    BY <2>1, ElemFacts
  <2> QED BY <2>2 DEF t
<1>6. ASSUME Done(a, b, <<>>) PROVE Elems(chain'[a][b]) \subseteq Elems(c)
  BY <1>2, <1>3, <1>4, <1>6
<1>7. ASSUME NEW o \in Op, Done(a, b, <<o>>)
      PROVE  Elems(chain'[a][b]) \subseteq Elems(c) \union {o}
  BY <1>2, <1>3, <1>4, <1>5, <1>7
<1> QED BY <1>4, <1>6, <1>7 DEF c

LEMMA SentElems ==
  ASSUME TypeOK, NEW a \in Pages, NEW b \in Pages, NEW k \in {"offer", "answer", "ice"},
         NEW m \in BOOLEAN, up' = Sent(a, b, k, m)
  PROVE  /\ page[a] # "in" => up' = up
         /\ \A x \in Pages : Elems(up'[x]) \subseteq
              Elems(up[x]) \union {s \in Signal : x = a /\ s.kind = k /\ s.to = b /\ s.media = m}
         /\ \A x \in Pages : up'[x] # <<>> => up[x] # <<>> \/ page[x] = "in"
<1>1. PICK s \in Signal : s = [kind |-> k, to |-> b, media |-> m]
  BY DEF Signal
<1>2. CASE page[a] # "in"
  BY <1>2 DEF Sent
<1>3. CASE page[a] = "in"
  <2>1. up'[a] = Append(up[a], s) /\ \A x \in Pages : x # a => up'[x] = up[x]
    BY <1>1, <1>3 DEF Sent, TypeOK
  <2>2. Elems(up'[a]) = Elems(up[a]) \union {s}
    BY <2>1, WireTypes, ElemFacts
  <2>3. s.kind = k /\ s.to = b /\ s.media = m
    BY <1>1
  <2>4. ASSUME NEW x \in Pages, NEW y \in Elems(up'[x]), y \notin Elems(up[x])
        PROVE  y \in Signal /\ x = a /\ y.kind = k /\ y.to = b /\ y.media = m
    BY <2>1, <2>2, <2>3, <2>4
  <2>5. \A x \in Pages : up'[x] # <<>> => up[x] # <<>> \/ page[x] = "in"
    BY <1>3, <2>1
  <2> QED BY <1>3, <2>4, <2>5
<1> QED BY <1>2, <1>3

\* What an operation of a leaves in the queues, and in the peer.
LEMMA PerformElems ==
  ASSUME TypeOK, NEW a \in Pages, NEW b \in Pages, Perform(a, b)
  PROVE  LET o == Head(chain[a][b])
         IN  /\ UNCHANGED <<joining, ready, stream, down, offered, early>>
             /\ o \in Elems(chain[a][b]) /\ peer[a][b] # None /\ peer'[a][b] # None
             /\ \A x, y \in Pages : x # a \/ y # b =>
                  chain'[x][y] = chain[x][y] /\ peer'[x][y] = peer[x][y]
             /\ \A n \in Elems(chain'[a][b]) :
                  \/ n \in Elems(chain[a][b])
                  \/ n.op = "setOffer" /\ n.media = peer[a][b].tracks /\ Kind(o.op) = "ask"
                  \/ n.op = "setAnswer" /\ n.media = peer[a][b].tracks /\ Kind(o.op) = "reply"
                  \/ n.op = "createAnswer" /\ o.op = "setRemote"
             /\ \A x \in Pages : up'[x] # <<>> => up[x] # <<>> \/ page[x] = "in"
             /\ \A x \in Pages : \A s \in Elems(up'[x]) :
                  \/ s \in Elems(up[x])
                  \/ x = a /\ s.to = b /\ s.media = o.media /\ o.op \in {"setOffer", "setAnswer"}
             /\ peer'[a][b].tracks = peer[a][b].tracks
             /\ Described(a, b)' =>
                  \/ Described(a, b) /\ peer'[a][b].hears = peer[a][b].hears
                  \/ o.op \in {"setRemote", "applyAnswer"} /\ peer'[a][b].hears = o.media
<1> DEFINE o == Head(chain[a][b])
<1>1. chain[a][b] # <<>>
  BY DEF Perform, CreateOffer, SetOffer, Rejects, SetRemote, CreateAnswer, SetAnswer,
         ApplyAnswer, AddIce, Runs
<1>2. /\ o \in Elems(chain[a][b]) /\ o \in Op /\ peer[a][b] \in Peer /\ peer[a][b] # None
      /\ o.media \in BOOLEAN /\ peer[a][b].tracks \in BOOLEAN
  BY <1>1, CallElems, PeerTypes DEF Op, Peer
<1>3. /\ Done(a, b, <<>>) => Elems(chain'[a][b]) \subseteq Elems(chain[a][b])
      /\ \A n \in Op : Done(a, b, <<n>>) =>
           Elems(chain'[a][b]) \subseteq Elems(chain[a][b]) \union {n}
  BY <1>1, CallElems
<1>4. \A next : Done(a, b, next) =>
        \A x, y \in Pages : x # a \/ y # b => chain'[x][y] = chain[x][y]
  BY <1>1, DoneRoute
<1>5. ASSUME NEW p \in Peer, peer' = [peer EXCEPT ![a][b] = p]
      PROVE  /\ peer'[a][b] = p /\ peer'[a][b] # None
             /\ \A x, y \in Pages : x # a \/ y # b => peer'[x][y] = peer[x][y]
  <2>1. Made(a, b)
    BY <1>2 DEF Made
  <2>2. /\ Becomes(a, b, p)
        /\ \A x, y \in Pages : x # a \/ y # b => peer'[x][y] = peer[x][y]
    BY <1>5, <2>1, BecomesPeer
  <2> QED BY <2>2 DEF Becomes, Made
<1>6. /\ \A op \in Ops, m \in BOOLEAN : Call(op, m) \in Op
      /\ \A op, m : Call(op, m).op = op /\ Call(op, m).media = m
  BY PeerTypes DEF Call
<1> HIDE DEF o
<1>7. CASE CreateOffer(a, b)
  <2>1. Done(a, b, <<Call("setOffer", peer[a][b].tracks)>>) /\ Kind(o.op) = "ask"
    BY <1>7 DEF CreateOffer, Runs, Kind, o
  <2>2. Elems(chain'[a][b]) \subseteq
          Elems(chain[a][b]) \union {Call("setOffer", peer[a][b].tracks)}
    BY <1>2, <1>3, <1>6, <2>1 DEF Ops
  <2> QED BY <1>2, <1>4, <1>6, <1>7, <2>1, <2>2 DEF CreateOffer, Described, wires, notes, o
<1>8. CASE CreateAnswer(a, b)
  <2>1. Done(a, b, <<Call("setAnswer", peer[a][b].tracks)>>) /\ Kind(o.op) = "reply"
    BY <1>8 DEF CreateAnswer, Runs, Kind, o
  <2>2. Elems(chain'[a][b]) \subseteq
          Elems(chain[a][b]) \union {Call("setAnswer", peer[a][b].tracks)}
    BY <1>2, <1>3, <1>6, <2>1 DEF Ops
  <2> QED BY <1>2, <1>4, <1>6, <1>8, <2>1, <2>2 DEF CreateAnswer, Described, wires, notes, o
<1>9. ASSUME NEW op, NEW sigs, Rejects(a, b, op, sigs)
      PROVE  /\ UNCHANGED <<joining, ready, stream, down, offered, early, peer, up>>
             /\ \A x, y \in Pages : x # a \/ y # b => chain'[x][y] = chain[x][y]
             /\ Elems(chain'[a][b]) \subseteq Elems(chain[a][b])
  BY <1>3, <1>4, <1>9 DEF Rejects, wires, notes
<1>10. CASE SetOffer(a, b)
  <2>1. PICK q \in Peer : q = [peer[a][b] EXCEPT !.sig = "have-local", !.pend = a,
                                 !.ice = peer[a][b].ice \/ peer[a][b].cur = None]
    BY <1>2 DEF Peer
  <2>2. peer' = [peer EXCEPT ![a][b] = q]
    BY <1>10, <2>1 DEF SetOffer
  <2>3. q.tracks = peer[a][b].tracks /\ q.hears = peer[a][b].hears /\ q.cur = peer[a][b].cur
        /\ q.sig = "have-local"
    BY <1>2, <2>1 DEF Peer
  <2>4. o.op = "setOffer" /\ up' = Sent(a, b, "offer", o.media) /\ Done(a, b, <<>>)
    BY <1>10 DEF SetOffer, Runs, o
  <2>5. /\ \A x \in Pages : up'[x] # <<>> => up[x] # <<>> \/ page[x] = "in"
        /\ \A x \in Pages : \A s \in Elems(up'[x]) :
             s \in Elems(up[x]) \/ (x = a /\ s.to = b /\ s.media = o.media)
    <3>1. /\ \A x \in Pages : Elems(up'[x]) \subseteq
              Elems(up[x]) \union {s \in Signal : x = a /\ s.kind = "offer" /\ s.to = b /\ s.media = o.media}
          /\ \A x \in Pages : up'[x] # <<>> => up[x] # <<>> \/ page[x] = "in"
      BY <1>2, <2>4, SentElems
    <3> QED BY <3>1
  <2>6. peer'[a][b] = q /\ \A x, y \in Pages : x # a \/ y # b => peer'[x][y] = peer[x][y]
    BY <1>5, <2>2
  <2>7. Described(a, b)' => Described(a, b) /\ peer'[a][b].hears = peer[a][b].hears
    BY <2>3, <2>6 DEF Described
  <2>8. /\ \A x, y \in Pages : x # a \/ y # b => chain'[x][y] = chain[x][y]
        /\ Elems(chain'[a][b]) \subseteq Elems(chain[a][b])
    BY <1>3, <1>4, <2>4
  <2> QED BY <1>2, <1>5, <1>10, <2>2, <2>3, <2>4, <2>5, <2>6, <2>7, <2>8 DEF SetOffer, notes, o
<1>11. CASE SetAnswer(a, b)
  <2>1. PICK q \in Peer : q = [peer[a][b] EXCEPT !.sig = "stable", !.cur = b, !.pend = None,
                                 !.ice = peer[a][b].ice \/ peer[a][b].cur = None]
    BY <1>2 DEF Peer
  <2>2. peer' = [peer EXCEPT ![a][b] = q] /\ peer[a][b].sig = "have-remote"
    BY <1>11, <2>1 DEF SetAnswer
  <2>3. q.tracks = peer[a][b].tracks /\ q.hears = peer[a][b].hears
    BY <1>2, <2>1 DEF Peer
  <2>4. o.op = "setAnswer" /\ up' = Sent(a, b, "answer", o.media) /\ Done(a, b, <<>>)
    BY <1>11 DEF SetAnswer, Runs, o
  <2>5. /\ \A x \in Pages : up'[x] # <<>> => up[x] # <<>> \/ page[x] = "in"
        /\ \A x \in Pages : \A s \in Elems(up'[x]) :
             s \in Elems(up[x]) \/ (x = a /\ s.to = b /\ s.media = o.media)
    <3>1. /\ \A x \in Pages : Elems(up'[x]) \subseteq
              Elems(up[x]) \union {s \in Signal : x = a /\ s.kind = "answer" /\ s.to = b /\ s.media = o.media}
          /\ \A x \in Pages : up'[x] # <<>> => up[x] # <<>> \/ page[x] = "in"
      BY <1>2, <2>4, SentElems
    <3> QED BY <3>1
  <2> QED BY <1>2, <1>3, <1>4, <1>5, <1>11, <2>2, <2>3, <2>4, <2>5
          DEF SetAnswer, Described, notes, o
<1>12. CASE SetRemote(a, b)
  <2>1. PICK q \in Peer : q = [peer[a][b] EXCEPT !.sig = "have-remote", !.pend = b,
                                 !.hears = o.media, !.ice = peer[a][b].ice /\ ~RollsBack(a, b)]
    BY <1>2 DEF Peer, RollsBack
  <2>2. peer' = [peer EXCEPT ![a][b] = q]
    BY <1>12, <2>1 DEF SetRemote, o
  <2>3. q.tracks = peer[a][b].tracks /\ q.hears = o.media
    BY <1>2, <2>1 DEF Peer
  <2>4. o.op = "setRemote" /\ UNCHANGED wires /\ Done(a, b, <<Call("createAnswer", FALSE)>>)
    BY <1>12 DEF SetRemote, Runs, o
  <2>5. Elems(chain'[a][b]) \subseteq Elems(chain[a][b]) \union {Call("createAnswer", FALSE)}
    BY <1>3, <1>6, <2>4 DEF Ops
  <2>6. \A n \in Elems(chain'[a][b]) : n \in Elems(chain[a][b]) \/ n.op = "createAnswer"
    BY <1>6, <2>5
  <2>7. \A x, y \in Pages : x # a \/ y # b => chain'[x][y] = chain[x][y]
    BY <1>4, <2>4
  <2> QED BY <1>2, <1>5, <1>12, <2>2, <2>3, <2>4, <2>6, <2>7 DEF SetRemote, wires, o
<1>13. CASE ApplyAnswer(a, b)
  <2>1. PICK q \in Peer : q = [peer[a][b] EXCEPT !.sig = "stable", !.cur = a, !.pend = None,
                                 !.hears = o.media]
    BY <1>2 DEF Peer
  <2>2. peer' = [peer EXCEPT ![a][b] = q]
    BY <1>13, <2>1 DEF ApplyAnswer, o
  <2>3. q.tracks = peer[a][b].tracks /\ q.hears = o.media
    BY <1>2, <2>1 DEF Peer
  <2>4. o.op = "applyAnswer" /\ UNCHANGED wires /\ Done(a, b, <<>>)
    BY <1>13 DEF ApplyAnswer, Runs, o
  <2> QED BY <1>2, <1>3, <1>4, <1>5, <1>13, <2>2, <2>3, <2>4 DEF ApplyAnswer, wires, notes, o
<1>14. CASE AddIce(a, b)
  <2>1. PICK q \in Peer : q = [peer[a][b] EXCEPT !.cands = peer[a][b].cands \/ Described(a, b)]
    BY <1>2 DEF Peer, Described
  <2>2. peer' = [peer EXCEPT ![a][b] = q]
    BY <1>14, <2>1 DEF AddIce
  <2>3. q.tracks = peer[a][b].tracks /\ q.hears = peer[a][b].hears /\ q.cur = peer[a][b].cur
        /\ q.sig = peer[a][b].sig
    BY <1>2, <2>1 DEF Peer
  <2>4. UNCHANGED wires /\ Done(a, b, <<>>)
    BY <1>14 DEF AddIce
  <2> QED BY <1>2, <1>3, <1>4, <1>5, <1>14, <2>2, <2>3, <2>4
          DEF AddIce, Described, wires, notes, o
<1>15. ASSUME NEW op, NEW sigs, Rejects(a, b, op, sigs)
       PROVE  /\ UNCHANGED <<joining, ready, stream, down, offered, early, peer, up>>
              /\ \A x, y \in Pages : x # a \/ y # b => chain'[x][y] = chain[x][y]
              /\ Elems(chain'[a][b]) \subseteq Elems(chain[a][b])
              /\ Described(a, b)' => Described(a, b)
  BY <1>9, <1>15 DEF Described
<1> QED BY <1>2, <1>7, <1>8, <1>10, <1>11, <1>12, <1>13, <1>14, <1>15 DEF Perform, o

LEMMA RelayElems ==
  ASSUME TypeOK, NEW a \in Pages, Relay(a)
  PROVE  LET s == Head(up[a])
         IN  /\ UNCHANGED <<joining, rtc, notes>>
             /\ s \in Elems(up[a]) /\ s \in Signal /\ up[a] # <<>>
             /\ \A x \in Pages : /\ Elems(up'[x]) \subseteq Elems(up[x])
                                 /\ up'[x] # <<>> => up[x] # <<>>
             /\ \A y \in Pages : \A p \in Elems(down'[y]) :
                  \/ p \in Elems(down[y])
                  \/ y = s.to /\ p.from = a /\ p.kind = s.kind /\ p.media = s.media
             /\ \A y \in Pages : page[y] = "closed" => down'[y] = down[y]
<1> DEFINE s == Head(up[a])
           z == [kind |-> s.kind, from |-> a, media |-> s.media]
<1>1. s \in Signal /\ z \in Packet /\ up[a] # <<>>
  BY RelayTypes DEF Relay
<1>2. PICK v \in Packet : v = z
  BY <1>1
<1>3. v.from = a /\ v.kind = s.kind /\ v.media = s.media
  BY <1>2
<1>4. PICK t \in Pages : t = s.to
  BY <1>1 DEF Signal
<1>5. /\ UNCHANGED <<joining, rtc, notes>>
      /\ up'[a] = Tail(up[a]) /\ \A x \in Pages : x # a => up'[x] = up[x]
  BY DEF Relay, TypeOK
<1>6. /\ down'[t] = down[t] \/ (page[t] # "closed" /\ down'[t] = Append(down[t], v))
      /\ \A y \in Pages : y # t => down'[y] = down[y]
  BY <1>2, <1>4 DEF Relay, TypeOK
<1> HIDE DEF z
<1>7. s \in Elems(up[a]) /\ Elems(Tail(up[a])) \subseteq Elems(up[a])
  BY <1>1, WireTypes, ElemFacts
<1>8. Elems(Append(down[t], v)) = Elems(down[t]) \union {v}
  BY WireTypes, ElemFacts
<1> HIDE DEF s
<1>9. ASSUME NEW y \in Pages, NEW p \in Elems(down'[y])
      PROVE  \/ p \in Elems(down[y])
             \/ y = s.to /\ p.from = a /\ p.kind = s.kind /\ p.media = s.media
  BY <1>3, <1>4, <1>6, <1>8, <1>9
<1>10. \A y \in Pages : page[y] = "closed" => down'[y] = down[y]
  BY <1>6
<1>11. \A x \in Pages : Elems(up'[x]) \subseteq Elems(up[x]) /\ (up'[x] # <<>> => up[x] # <<>>)
  BY <1>1, <1>5, <1>7
<1> QED BY <1>1, <1>5, <1>7, <1>9, <1>10, <1>11 DEF s

LEMMA TakeElems ==
  ASSUME TypeOK, NEW a \in Pages, TakeAck(a) \/ TakeOffer(a) \/ TakeOther(a)
  PROVE  LET p == Head(down[a])
         IN  /\ UNCHANGED <<role, rows, bound, list, media, ready, stream, shown, up,
                            offered, rolled, lost>>
             /\ p \in Elems(down[a]) /\ p \in Packet /\ down[a] # <<>>
             /\ \A y \in Pages : /\ Elems(down'[y]) \subseteq Elems(down[y])
                                 /\ down'[y] # <<>> => down[y] # <<>>
             /\ \A x, y \in Pages : \A o \in Elems(chain'[x][y]) :
                  \/ o \in Elems(chain[x][y])
                  \/ /\ x = a /\ y = p.from /\ o.media = p.media
                     /\ \/ o.op = "setRemote" /\ p.kind = "offer"
                        \/ o.op = "applyAnswer" /\ p.kind = "answer"
                        \/ o.op = "addIce"
<1> DEFINE p == Head(down[a])
<1>1. p \in Elems(down[a]) /\ Elems(Tail(down[a])) \subseteq Elems(down[a]) /\ down[a] # <<>>
  BY WireTypes, ElemFacts DEF TakeAck, TakeOffer, TakeOther
<1>2. p \in Packet
  BY TakeTypes
<1>3. PICK b \in Pages : b = p.from
  BY <1>2 DEF Packet
<1>4. PICK m \in BOOLEAN : m = p.media
  BY <1>2 DEF Packet
<1>5. down'[a] = Tail(down[a]) /\ \A y \in Pages : y # a => down'[y] = down[y]
  BY DEF TakeAck, TakeOffer, TakeOther, TypeOK
<1>6. \A y \in Pages : Elems(down'[y]) \subseteq Elems(down[y]) /\ (down'[y] # <<>> => down[y] # <<>>)
  BY <1>1, <1>5
<1>7. ASSUME NEW op \in {"setRemote", "applyAnswer", "addIce"},
             chain' = [chain EXCEPT ![a][b] = Append(@, Call(op, m))],
             NEW x \in Pages, NEW y \in Pages, NEW o \in Elems(chain'[x][y])
      PROVE  o \in Elems(chain[x][y]) \/ (x = a /\ y = b /\ o.op = op /\ o.media = m)
  <2>1. PICK n \in Op : n = Call(op, m)
    BY PeerTypes DEF Ops
  <2>2. n.op = op /\ n.media = m
    BY <2>1 DEF Call
  <2>3. /\ chain'[a][b] = Append(chain[a][b], n)
        /\ x # a \/ y # b => chain'[x][y] = chain[x][y]
    BY <1>7, <2>1 DEF TypeOK
  <2>4. Elems(Append(chain[a][b], n)) = Elems(chain[a][b]) \union {n}
    BY PeerTypes, ElemFacts
  <2> QED BY <1>7, <2>2, <2>3, <2>4
<1> HIDE DEF p
<1>8. CASE TakeAck(a)
  BY <1>1, <1>2, <1>6, <1>8 DEF TakeAck, rtc, notes, p
<1>9. CASE TakeOffer(a)
  <2>1. p.kind = "offer" /\ chain' = [chain EXCEPT ![a][b] = Append(@, Call("setRemote", m))]
    BY <1>3, <1>4, <1>9 DEF TakeOffer, p
  <2>2. \A x, y \in Pages : \A o \in Elems(chain'[x][y]) :
          o \in Elems(chain[x][y]) \/ (x = a /\ y = b /\ o.op = "setRemote" /\ o.media = m)
    BY <1>7, <2>1
  <2> QED BY <1>1, <1>2, <1>3, <1>4, <1>6, <1>9, <2>1, <2>2 DEF TakeOffer, joining, p
<1>10. CASE TakeOther(a)
  <2>1. PICK op \in {"applyAnswer", "addIce"} :
          op = IF p.kind = "answer" THEN "applyAnswer" ELSE "addIce"
    OBVIOUS
  <2>2. chain' = chain \/ chain' = [chain EXCEPT ![a][b] = Append(@, Call(op, m))]
    BY <1>3, <1>4, <1>10, <2>1 DEF TakeOther, p
  <2>3. \A x, y \in Pages : \A o \in Elems(chain'[x][y]) :
          o \in Elems(chain[x][y]) \/ (x = a /\ y = b /\ o.op = op /\ o.media = m)
    BY <1>7, <2>2
  <2> QED BY <1>1, <1>2, <1>3, <1>4, <1>6, <1>10, <2>1, <2>3 DEF TakeOther, joining, notes, p
<1> QED BY <1>8, <1>9, <1>10

LEMMA ConnectElems ==
  ASSUME TypeOK, NEW a \in Pages, Connect(a)
  PROVE  \A x, y \in Pages : \A o \in Elems(chain'[x][y]) :
           o \in Elems(chain[x][y]) \/ (x = a /\ y \in list[a] /\ o.op = "createOffer")
<1>1. PICK n \in Op : n = Call("createOffer", FALSE)
  BY DEF Call, Op, Ops
<1>2. chain' = [chain EXCEPT ![a] =
                  [b \in Pages |-> IF b \in list[a] THEN Append(chain[a][b], n)
                                   ELSE chain[a][b]]]
  BY <1>1 DEF Connect, TypeOK
<1>3. n.op = "createOffer"
  BY <1>1 DEF Call
<1>4. ASSUME NEW x \in Pages, NEW y \in Pages, NEW o \in Elems(chain'[x][y])
      PROVE  o \in Elems(chain[x][y]) \/ (x = a /\ y \in list[a] /\ o.op = "createOffer")
  <2>1. chain'[x][y] = IF x = a /\ y \in list[a] THEN Append(chain[x][y], n) ELSE chain[x][y]
    BY <1>2 DEF TypeOK
  <2>2. Elems(Append(chain[x][y], n)) = Elems(chain[x][y]) \union {n}
    BY PeerTypes, ElemFacts
  <2> QED BY <1>3, <1>4, <2>1, <2>2
<1> QED BY <1>4

LEMMA GatherElems ==
  ASSUME TypeOK, NEW a \in Pages, NEW b \in Pages, Gather(a, b)
  PROVE  /\ UNCHANGED <<joining, ready, stream, chain, down, notes>>
         /\ peer[a][b] # None
         /\ \A x \in Pages : up'[x] # <<>> => up[x] # <<>> \/ page[x] = "in"
         /\ \A x \in Pages : \A s \in Elems(up'[x]) :
              s \in Elems(up[x]) \/ (x = a /\ s.to = b /\ s.kind = "ice")
<1>1. ASSUME a \in ready
      PROVE  /\ \A x \in Pages : up'[x] # <<>> => up[x] # <<>> \/ page[x] = "in"
             /\ \A x \in Pages : \A s \in Elems(up'[x]) :
                  s \in Elems(up[x]) \/ (x = a /\ s.to = b /\ s.kind = "ice")
  <2>1. PICK m \in BOOLEAN : up' = Sent(a, b, "ice", m)
    BY <1>1 DEF Gather
  <2>2. /\ \A x \in Pages : Elems(up'[x]) \subseteq
              Elems(up[x]) \union {s \in Signal : x = a /\ s.kind = "ice" /\ s.to = b /\ s.media = m}
        /\ \A x \in Pages : up'[x] # <<>> => up[x] # <<>> \/ page[x] = "in"
    BY <2>1, SentElems
  <2> QED BY <2>2
<1>2. a \notin ready => up' = up
  BY DEF Gather
<1> QED BY <1>1, <1>2 DEF Gather, notes

LEMMA NoElems == Elems(<<>>) = {}
BY DEF Elems

LEMMA PageKept ==
  ASSUME TypeOK, PageInv, UNCHANGED <<joining, ready, offered>>,
         \A y \in Pages : /\ \A p \in Elems(down'[y]) : p \in Elems(down[y]) \/ p.kind # "ack"
                          /\ ~Open(y) => down'[y] = down[y] \/ down'[y] = <<>>,
         \A x \in Pages : up'[x] # <<>> => up[x] # <<>> \/ page[x] = "in",
         \A x, y \in Pages : \A o \in Elems(chain'[x][y]) :
           o \in Elems(chain[x][y]) \/ Kind(o.op) = "ask" \/ Open(x)
  PROVE  PageInv'
<1> QED BY DEF PageInv, joining, Open

LEMMA PageJoining ==
  ASSUME TypeOK, PageInv, NEW a \in Pages,
         \/ AskJoin(a) \/ SaveRow(a) \/ Acknowledge(a) \/ TimeOut(a) \/ ServeList(a)
         \/ Answer(a, "granted") \/ Answer(a, "denied") \/ Depart(a)
  PROVE  PageInv'
<1>1. CASE AskJoin(a)
  <2>1. page'[a] = "joining" /\ page[a] = "new" /\ \A x \in Pages : x # a => page'[x] = page[x]
    BY <1>1 DEF AskJoin, TypeOK
  <2>2. UNCHANGED <<role, rows, bound, list, ready, offered, chain, up, down>>
    BY <1>1 DEF AskJoin, rtc, wires, notes
  <2> QED BY <2>1, <2>2 DEF PageInv, Open
<1>2. CASE SaveRow(a)
  <2>1. page[a] # "new" /\ rows' = rows \union {a}
    BY <1>2 DEF SaveRow
  <2>2. UNCHANGED <<role, page, bound, list, ready, offered, chain, up, down>>
    BY <1>2 DEF SaveRow, rtc, wires, notes
  <2> QED BY <2>1, <2>2 DEF PageInv, Open
<1>3. CASE Acknowledge(a)
  <2>1. PICK z \in Packet : z = [kind |-> "ack", from |-> a, media |-> FALSE]
    BY DEF Packet
  <2>2. /\ down'[a] = Append(down[a], z) /\ \A y \in Pages : y # a => down'[y] = down[y]
        /\ a \in rows /\ bound' = bound \union {a} /\ Open(a)
    BY <1>3, <2>1 DEF Acknowledge, TypeOK, Open
  <2>3. UNCHANGED <<role, page, rows, list, ready, offered, chain, up>>
    BY <1>3 DEF Acknowledge, rtc, notes
  <2>4. z.from = a /\ Elems(down'[a]) = Elems(down[a]) \union {z}
    <3>1. z.from = a
      BY <2>1
    <3>2. Elems(Append(down[a], z)) = Elems(down[a]) \union {z}
      BY WireTypes, ElemFacts
    <3> QED BY <2>2, <3>1, <3>2
  <2>5. page[a] # "new"
    BY <2>2 DEF PageInv
  <2>6. ASSUME NEW y \in Pages, NEW p \in Elems(down'[y]), p.kind = "ack"
        PROVE  y \in bound' /\ p.from = y
    <3>1. CASE p = z
      <4>1. y = a \/ z \in Elems(down[y])
        BY <2>2, <2>6, <3>1
      <4> QED BY <2>2, <2>4, <2>6, <3>1, <4>1 DEF PageInv
    <3>2. CASE p # z
      <4>1. p \in Elems(down[y])
        BY <2>2, <2>4, <2>6, <3>2
      <4> QED BY <2>2, <2>6, <4>1 DEF PageInv
    <3> QED BY <3>1, <3>2
  <2>7. ASSUME NEW y \in Pages, ~Open(y) PROVE y # a /\ down'[y] = <<>>
    BY <2>2, <2>7 DEF PageInv
  <2> QED BY <2>2, <2>3, <2>5, <2>6, <2>7 DEF PageInv, Open
<1>4. CASE TimeOut(a)
  <2>1. page'[a] = "failed" /\ page[a] = "joining" /\ \A x \in Pages : x # a => page'[x] = page[x]
    BY <1>4 DEF TimeOut, TypeOK
  <2>2. UNCHANGED <<role, rows, bound, list, ready, offered, chain, up, down>>
    BY <1>4 DEF TimeOut, rtc, wires, notes
  <2> QED BY <2>1, <2>2 DEF PageInv, Open
<1>5. CASE ServeList(a)
  <2>1. /\ page[a] = "in" /\ list[a] = None /\ \A x \in Pages : x # a => list'[x] = list[x]
        /\ list'[a] = {b \in rows \ {a} : role[b] = "participant"}
    BY <1>5 DEF ServeList, TypeOK
  <2>2. UNCHANGED <<role, page, rows, bound, ready, offered, chain, up, down>>
    BY <1>5 DEF ServeList, rtc, wires, notes
  <2>3. a \notin offered
    BY <2>1 DEF PageInv
  <2>4. \A b \in list'[a] : b # a /\ role[b] = "participant"
    BY <2>1
  <2> QED BY <2>1, <2>2, <2>3, <2>4 DEF PageInv, Open
<1>6. CASE Answer(a, "granted") \/ Answer(a, "denied")
  <2>1. UNCHANGED <<role, page, rows, bound, list, ready, offered, chain, up, down>>
    BY <1>6 DEF Answer, rtc, wires, notes
  <2> QED BY <2>1 DEF PageInv, Open
<1>7. CASE Depart(a)
  <2>1. page[a] = "closed" /\ rows' = rows \ {a}
    BY <1>7 DEF Depart
  <2>2. UNCHANGED <<role, page, bound, list, ready, offered, chain, up, down>>
    BY <1>7 DEF Depart, rtc, wires, notes
  <2> QED BY <2>1, <2>2 DEF PageInv, Open
<1> QED BY <1>1, <1>2, <1>3, <1>4, <1>5, <1>6, <1>7

LEMMA PageNext == TypeOK /\ PageInv /\ SelfInv /\ Next => PageInv'
<1> SUFFICES ASSUME TypeOK, PageInv, SelfInv, Next PROVE PageInv'
  OBVIOUS
<1>1. ASSUME NEW a \in Pages, NEW b \in Pages, Perform(a, b) PROVE PageInv'
  <2> DEFINE o == Head(chain[a][b])
  <2>1. /\ UNCHANGED <<joining, ready, stream, down, offered, early>>
        /\ o \in Elems(chain[a][b])
        /\ \A x, y \in Pages : x # a \/ y # b => chain'[x][y] = chain[x][y]
        /\ \A n \in Elems(chain'[a][b]) :
             \/ n \in Elems(chain[a][b])
             \/ n.op = "setOffer" /\ Kind(o.op) = "ask"
             \/ n.op = "setAnswer" /\ Kind(o.op) = "reply"
             \/ n.op = "createAnswer" /\ o.op = "setRemote"
        /\ \A x \in Pages : up'[x] # <<>> => up[x] # <<>> \/ page[x] = "in"
    BY <1>1, PerformElems
  <2>2. ~Open(a) => Kind(o.op) = "ask"
    BY <2>1 DEF PageInv
  <2>3. Kind("setOffer") = "ask" /\ Kind("setRemote") = "offer"
    BY DEF Kind
  <2> HIDE DEF o
  <2>4. \A x, y \in Pages : \A n \in Elems(chain'[x][y]) :
          n \in Elems(chain[x][y]) \/ Kind(n.op) = "ask" \/ Open(x)
    BY <2>1, <2>2, <2>3
  <2> QED BY <2>1, <2>4, PageKept
<1>2. ASSUME NEW a \in Pages, NEW b \in Pages, Gather(a, b) PROVE PageInv'
  BY <1>2, GatherElems, PageKept DEF notes
<1>3. ASSUME NEW a \in Pages, NEW b \in Pages, ConnectionLost(a, b) PROVE PageInv'
  BY <1>3, PageKept DEF ConnectionLost, wires, notes
<1>4. ASSUME NEW a \in Pages, Relay(a) PROVE PageInv'
  <2> DEFINE s == Head(up[a])
  <2>1. /\ UNCHANGED <<joining, rtc, notes>> /\ s \in Signal
        /\ \A x \in Pages : up'[x] # <<>> => up[x] # <<>>
        /\ \A y \in Pages : \A p \in Elems(down'[y]) : p \in Elems(down[y]) \/ p.kind = s.kind
        /\ \A y \in Pages : page[y] = "closed" => down'[y] = down[y]
    BY <1>4, RelayElems
  <2>2. s.kind # "ack"
    BY <2>1 DEF Signal
  <2> HIDE DEF s
  <2>3. \A y \in Pages : \A p \in Elems(down'[y]) : p \in Elems(down[y]) \/ p.kind # "ack"
    BY <2>1, <2>2
  <2> QED BY <2>1, <2>3, PageKept DEF rtc, notes, Open
<1>5. ASSUME NEW a \in Pages, TakeAck(a) \/ TakeOffer(a) \/ TakeOther(a) PROVE PageInv'
  <2> DEFINE p == Head(down[a])
  <2>1. /\ UNCHANGED <<role, rows, bound, list, media, ready, up, offered>>
        /\ p \in Elems(down[a]) /\ down[a] # <<>>
        /\ \A y \in Pages : /\ Elems(down'[y]) \subseteq Elems(down[y])
                            /\ down'[y] # <<>> => down[y] # <<>>
        /\ \A x, y \in Pages : \A o \in Elems(chain'[x][y]) : o \in Elems(chain[x][y]) \/ x = a
    BY <1>5, TakeElems
  <2>2. Open(a)
    BY <2>1 DEF PageInv
  <2>3. CASE ~TakeAck(a)
    <3>1. page' = page
      BY <1>5, <2>3 DEF TakeOffer, TakeOther, joining
    <3>2. UNCHANGED <<joining, ready, offered>>
      BY <2>1, <3>1 DEF joining
    <3>3. /\ \A y \in Pages : /\ \A q \in Elems(down'[y]) : q \in Elems(down[y])
                              /\ ~Open(y) => down'[y] = down[y]
          /\ \A x \in Pages : up'[x] # <<>> => up[x] # <<>>
          /\ \A x, y \in Pages : \A o \in Elems(chain'[x][y]) :
               o \in Elems(chain[x][y]) \/ Open(x)
      BY <2>1, <2>2 DEF PageInv
    <3> QED BY <3>2, <3>3, PageKept
  <2>4. CASE TakeAck(a)
    <3>1. a \in bound
      BY <2>1, <2>4 DEF TakeAck, PageInv
    <3>2. /\ page'[a] = page[a] \/ (page[a] = "joining" /\ page'[a] = "in")
          /\ \A x \in Pages : x # a => page'[x] = page[x]
      <4> HIDE DEF p
      <4>1. page \in [Pages -> {"new", "joining", "failed", "in", "closed"}]
        BY DEF TypeOK
      <4>2. page' = IF page[a] = "joining" THEN [page EXCEPT ![a] = "in"] ELSE page
        BY <2>4 DEF TakeAck
      <4>3. CASE page[a] = "joining"
        BY <4>1, <4>2, <4>3
      <4>4. CASE page[a] # "joining"
        BY <4>2, <4>4
      <4> QED BY <4>3, <4>4
    <3>3. \A y \in Pages : Open(y)' <=> Open(y)
      BY <3>2 DEF Open
    <3>4. chain' = chain
      BY <2>4 DEF TakeAck, rtc
    <3> HIDE DEF p
    <3> QED BY <2>1, <3>1, <3>2, <3>3, <3>4 DEF PageInv
  <2> QED BY <2>3, <2>4
<1>6. ASSUME NEW a \in Pages, ShareScreen(a) PROVE PageInv'
  BY <1>6, PageKept DEF ShareScreen, wires, notes
<1>7. ASSUME NEW a \in Pages, Connect(a) PROVE PageInv'
  <2>1. UNCHANGED <<role, page, rows, bound, list, up, down>>
    BY <1>7, ConnectStep DEF joining, wires
  <2>2. list[a] # None /\ offered' = offered \union {a} /\ ready' = ready \union {a}
    BY <1>7, ConnectStep
  <2>3. \A x, y \in Pages : \A o \in Elems(chain'[x][y]) :
          o \in Elems(chain[x][y]) \/ Kind(o.op) = "ask"
    BY <1>7, ConnectElems DEF Kind
  <2> QED BY <2>1, <2>2, <2>3 DEF PageInv, Open
<1>8. ASSUME NEW a \in Pages, Close(a) PROVE PageInv'
  <2>1. /\ UNCHANGED <<role, rows, bound, list, up, offered>>
        /\ page'[a] = "closed" /\ \A x \in Pages : x # a => page'[x] = page[x]
        /\ page[a] \notin {"new", "closed"}
        /\ ready' = ready \ {a}
        /\ \A y \in Pages : chain'[a][y] = <<>>
        /\ down'[a] = <<>> /\ \A x \in Pages : x # a => down'[x] = down[x]
    <3>1. /\ UNCHANGED <<role, rows, bound, list, up, notes>>
          /\ page' = [page EXCEPT ![a] = "closed"] /\ page[a] \notin {"new", "closed"}
          /\ ready' = ready \ {a}
          /\ \A y \in Pages : chain'[a][y] = <<>>
          /\ down'[a] = <<>> /\ \A x \in Pages : x # a => down'[x] = down[x]
      BY <1>8, CloseStep
    <3>2. page \in [Pages -> {"new", "joining", "failed", "in", "closed"}]
      BY DEF TypeOK
    <3> QED BY <3>1, <3>2 DEF notes
  <2>2. \A x, y \in Pages : x # a => chain'[x][y] = chain[x][y]
    BY <1>8 DEF Close, TypeOK
  <2> QED BY <2>1, <2>2, NoElems DEF PageInv, Open
<1> QED BY <1>1, <1>2, <1>3, <1>4, <1>5, <1>6, <1>7, <1>8, PageJoining DEF Next

LEMMA SelfNext == TypeOK /\ PageInv /\ SelfInv /\ Next => SelfInv'
<1> SUFFICES ASSUME TypeOK, PageInv, SelfInv, Next PROVE SelfInv'
  OBVIOUS
<1>1. ASSUME NEW a \in Pages, NEW b \in Pages, Perform(a, b) PROVE SelfInv'
  <2>1. /\ down' = down /\ peer[a][b] # None
        /\ \A x, y \in Pages : x # a \/ y # b => peer'[x][y] = peer[x][y]
        /\ \A x \in Pages : \A s \in Elems(up'[x]) : s \in Elems(up[x]) \/ (x = a /\ s.to = b)
    BY <1>1, PerformElems
  <2> QED BY <2>1 DEF SelfInv
<1>2. ASSUME NEW a \in Pages, NEW b \in Pages, Gather(a, b) PROVE SelfInv'
  <2>1. /\ down' = down /\ peer[a][b] # None
        /\ \A x \in Pages : \A s \in Elems(up'[x]) : s \in Elems(up[x]) \/ (x = a /\ s.to = b)
    BY <1>2, GatherElems
  <2>2. \A x, y \in Pages : x # a \/ y # b => peer'[x][y] = peer[x][y]
    BY <1>2, GatherStep
  <2> QED BY <2>1, <2>2 DEF SelfInv
<1>3. ASSUME NEW a \in Pages, NEW b \in Pages, ConnectionLost(a, b) PROVE SelfInv'
  BY <1>3 DEF ConnectionLost, wires, SelfInv
<1>4. ASSUME NEW a \in Pages, Relay(a) PROVE SelfInv'
  <2> DEFINE s == Head(up[a])
  <2>1. /\ peer' = peer /\ s \in Elems(up[a])
        /\ \A x \in Pages : Elems(up'[x]) \subseteq Elems(up[x])
        /\ \A y \in Pages : \A p \in Elems(down'[y]) :
             p \in Elems(down[y]) \/ (y = s.to /\ p.from = a)
    BY <1>4, RelayElems DEF rtc
  <2>2. s.to # a
    BY <2>1 DEF SelfInv
  <2> HIDE DEF s
  <2> QED BY <2>1, <2>2 DEF SelfInv
<1>5. ASSUME NEW a \in Pages, TakeAck(a) \/ TakeOffer(a) \/ TakeOther(a) PROVE SelfInv'
  <2>1. up' = up /\ \A y \in Pages : Elems(down'[y]) \subseteq Elems(down[y])
    BY <1>5, TakeElems
  <2>2. \A x \in Pages : peer'[x][x] = peer[x][x]
    <3>1. CASE TakeOffer(a)
      <4>1. \E b \in Pages : b # a /\ \A x, y \in Pages : x # a \/ y # b => peer'[x][y] = peer[x][y]
        BY <3>1, TakeOfferStep
      <4> QED BY <4>1
    <3>2. CASE ~TakeOffer(a)
      BY <1>5, <3>2 DEF TakeAck, TakeOther, rtc
    <3> QED BY <3>1, <3>2
  <2> QED BY <2>1, <2>2 DEF SelfInv
<1>6. ASSUME NEW a \in Pages, ShareScreen(a) PROVE SelfInv'
  <2>1. \A x \in Pages : peer[x][x] = None => peer'[x][x] = None
    BY <1>6, ShareTypes
  <2> QED BY <1>6, <2>1 DEF ShareScreen, wires, SelfInv
<1>7. ASSUME NEW a \in Pages, Connect(a) PROVE SelfInv'
  <2>1. /\ UNCHANGED wires /\ list[a] # None
        /\ \A x, y \in Pages : x # a \/ y \notin list[a] => peer'[x][y] = peer[x][y]
    BY <1>7, ConnectStep
  <2>2. a \notin list[a]
    BY <2>1 DEF PageInv
  <2> QED BY <2>1, <2>2 DEF SelfInv, wires
<1>8. ASSUME NEW a \in Pages, Close(a) PROVE SelfInv'
  <2>1. /\ up' = up
        /\ \A x, y \in Pages : x # a => peer'[x][y] = peer[x][y]
        /\ \A y \in Pages : peer'[a][y] = None
        /\ down'[a] = <<>> /\ \A x \in Pages : x # a => down'[x] = down[x]
    BY <1>8, CloseStep
  <2> QED BY <2>1, NoElems DEF SelfInv
<1>9. ASSUME NEW a \in Pages, Acknowledge(a) PROVE SelfInv'
  <2>1. PICK z \in Packet : z = [kind |-> "ack", from |-> a, media |-> FALSE]
    BY DEF Packet
  <2>2. down'[a] = Append(down[a], z) /\ \A y \in Pages : y # a => down'[y] = down[y]
    BY <1>9, <2>1 DEF Acknowledge, TypeOK
  <2>3. Elems(down'[a]) = Elems(down[a]) \union {z}
    BY <2>2, WireTypes, ElemFacts
  <2>4. z.kind = "ack"
    BY <2>1
  <2>5. UNCHANGED <<peer, up>>
    BY <1>9 DEF Acknowledge, rtc
  <2> QED BY <2>2, <2>3, <2>4, <2>5 DEF SelfInv
<1>10. ASSUME NEW a \in Pages,
              \/ AskJoin(a) \/ SaveRow(a) \/ TimeOut(a) \/ ServeList(a)
              \/ Answer(a, "granted") \/ Answer(a, "denied") \/ Depart(a)
       PROVE  SelfInv'
  <2>1. UNCHANGED <<peer, up, down>>
    BY <1>10 DEF AskJoin, SaveRow, TimeOut, ServeList, Answer, Depart, rtc, wires
  <2> QED BY <2>1 DEF SelfInv
<1> QED BY <1>1, <1>2, <1>3, <1>4, <1>5, <1>6, <1>7, <1>8, <1>9, <1>10 DEF Next

\* What the list of a page is served from: who is in the room has a row.
LEMMA ListNext == TypeOK /\ PageInv /\ ListInv /\ Next => ListInv'
<1> SUFFICES ASSUME TypeOK, PageInv, ListInv, Next PROVE ListInv'
  OBVIOUS
<1>1. ASSUME UNCHANGED <<role, list>>, \A x \in Pages : Open(x)' => Open(x) PROVE ListInv'
  BY <1>1 DEF ListInv
<1>2. ASSUME UNCHANGED joining PROVE ListInv'
  BY <1>2, <1>1 DEF joining, Open
<1>3. page \in [Pages -> {"new", "joining", "failed", "in", "closed"}]
  BY DEF TypeOK
<1>4. ASSUME NEW a \in Pages, ServeList(a) PROVE ListInv'
  <2>1. /\ UNCHANGED <<role, page>> /\ \A x \in Pages : x # a => list'[x] = list[x]
        /\ list'[a] = {b \in rows \ {a} : role[b] = "participant"}
    BY <1>4 DEF ServeList, TypeOK
  <2>2. \A b \in Pages : Open(b) /\ list[b] # None => b \in rows
    BY DEF PageInv, Open
  <2>3. \A b \in Pages : Open(b)' <=> Open(b)
    BY <2>1 DEF Open
  <2> QED BY <2>1, <2>2, <2>3 DEF ListInv
<1>5. ASSUME NEW a \in Pages,
             AskJoin(a) \/ SaveRow(a) \/ Acknowledge(a) \/ TimeOut(a) \/ Answer(a, "granted")
             \/ Answer(a, "denied") \/ Depart(a) \/ TakeAck(a) \/ Close(a)
      PROVE  ListInv'
  <2>1. UNCHANGED <<role, list>>
    BY <1>5 DEF AskJoin, SaveRow, Acknowledge, TimeOut, Answer, Depart, TakeAck, Close
  <2>2. \A x \in Pages : Open(x)' => Open(x)
    <3>1. /\ \A x \in Pages : x # a => page'[x] = page[x]
          /\ page'[a] = page[a] \/ page'[a] = "closed" \/ page[a] # "closed"
      BY <1>3, <1>5 DEF AskJoin, SaveRow, Acknowledge, TimeOut, Answer, Depart, TakeAck, Close
    <3> QED BY <3>1 DEF Open
  <2> QED BY <1>1, <2>1, <2>2
<1>6. ASSUME NEW a \in Pages, NEW b \in Pages,
             Perform(a, b) \/ Gather(a, b) \/ ConnectionLost(a, b)
      PROVE  UNCHANGED joining
  BY <1>6, PerformElems, GatherElems DEF ConnectionLost
<1>7. ASSUME NEW a \in Pages,
             Connect(a) \/ ShareScreen(a) \/ Relay(a) \/ TakeOffer(a) \/ TakeOther(a)
      PROVE  UNCHANGED joining
  BY <1>7 DEF Connect, ShareScreen, Relay, TakeOffer, TakeOther
<1> QED BY <1>2, <1>4, <1>5, <1>6, <1>7 DEF Next
-----------------------------------------------------------------------------
(* Media.                                                                  *)

\* What a step of the pages leaves in what a sends to b, and in b's remote description.
PassesMedia(a, b) ==
  /\ Made(a, b)' => peer'[a][b].tracks \/ (Made(a, b) /\ peer'[a][b].tracks = peer[a][b].tracks)
  /\ \A o \in Elems(chain'[a][b]) : o.op \in {"setOffer", "setAnswer"} =>
       o \in Elems(chain[a][b]) \/ (Made(a, b) /\ o.media = peer[a][b].tracks)
  /\ \A s \in Elems(up'[a]) : s.to = b /\ s.kind # "ice" =>
       \/ s \in Elems(up[a])
       \/ \E o \in Elems(chain[a][b]) :
            o.op \in {"setOffer", "setAnswer"} /\ s.media = o.media
  /\ \A p \in Elems(down'[b]) : p.from = a /\ p.kind \in {"offer", "answer"} =>
       \/ p \in Elems(down[b])
       \/ \E s \in Elems(up[a]) : s.to = b /\ s.kind = p.kind /\ s.media = p.media
  /\ \A o \in Elems(chain'[b][a]) : o.op \in {"setRemote", "applyAnswer"} =>
       \/ o \in Elems(chain[b][a])
       \/ \E p \in Elems(down[b]) :
            p.from = a /\ p.kind \in {"offer", "answer"} /\ o.media = p.media
  /\ Knows(b, a)' =>
       \/ Knows(b, a) /\ peer'[b][a].hears = peer[b][a].hears
       \/ \E o \in Elems(chain[b][a]) :
            o.op \in {"setRemote", "applyAnswer"} /\ peer'[b][a].hears = o.media

LEMMA MediaKept ==
  ASSUME MediaInv, early \subseteq early',
         \A a, b \in Pages : <<a, b>> \in early' \/ PassesMedia(a, b)
  PROVE  MediaInv'
<1> SUFFICES ASSUME NEW a \in Pages, NEW b \in Pages, <<a, b>> \notin early'
             PROVE  /\ Made(a, b)' => peer'[a][b].tracks
                    /\ \A o \in Elems(chain'[a][b]) : o.op \in {"setOffer", "setAnswer"} => o.media
                    /\ \A s \in Elems(up'[a]) : s.to = b /\ s.kind # "ice" => s.media
                    /\ \A p \in Elems(down'[b]) :
                         p.from = a /\ p.kind \in {"offer", "answer"} => p.media
                    /\ \A o \in Elems(chain'[b][a]) : o.op \in {"setRemote", "applyAnswer"} => o.media
                    /\ Knows(b, a)' => peer'[b][a].hears
  BY DEF MediaInv
<1>1. <<a, b>> \notin early
  OBVIOUS
<1>2. /\ Made(a, b) => peer[a][b].tracks
      /\ \A o \in Elems(chain[a][b]) : o.op \in {"setOffer", "setAnswer"} => o.media
      /\ \A s \in Elems(up[a]) : s.to = b /\ s.kind # "ice" => s.media
      /\ \A p \in Elems(down[b]) : p.from = a /\ p.kind \in {"offer", "answer"} => p.media
      /\ \A o \in Elems(chain[b][a]) : o.op \in {"setRemote", "applyAnswer"} => o.media
      /\ Knows(b, a) => peer[b][a].hears
  BY <1>1 DEF MediaInv
<1> QED BY <1>2 DEF PassesMedia

LEMMA MediaNext == TypeOK /\ SelfInv /\ MediaInv /\ Next => MediaInv'
<1> SUFFICES ASSUME TypeOK, SelfInv, MediaInv, Next PROVE MediaInv'
  OBVIOUS
<1>1. ASSUME NEW a \in Pages, NEW b \in Pages, Perform(a, b) PROVE MediaInv'
  <2> DEFINE o == Head(chain[a][b])
  <2>1. /\ UNCHANGED <<down, early>>
        /\ o \in Elems(chain[a][b]) /\ peer[a][b] # None /\ peer'[a][b] # None
        /\ \A x, y \in Pages : x # a \/ y # b =>
             chain'[x][y] = chain[x][y] /\ peer'[x][y] = peer[x][y]
        /\ \A n \in Elems(chain'[a][b]) :
             \/ n \in Elems(chain[a][b])
             \/ n.op = "setOffer" /\ n.media = peer[a][b].tracks
             \/ n.op = "setAnswer" /\ n.media = peer[a][b].tracks
             \/ n.op = "createAnswer"
        /\ \A x \in Pages : \A s \in Elems(up'[x]) :
             \/ s \in Elems(up[x])
             \/ x = a /\ s.to = b /\ s.media = o.media /\ o.op \in {"setOffer", "setAnswer"}
        /\ peer'[a][b].tracks = peer[a][b].tracks
        /\ Described(a, b)' =>
             \/ Described(a, b) /\ peer'[a][b].hears = peer[a][b].hears
             \/ o.op \in {"setRemote", "applyAnswer"} /\ peer'[a][b].hears = o.media
    BY <1>1, PerformElems
  <2>2. \A x, y \in Pages : x # a \/ y # b => (Knows(x, y)' <=> Knows(x, y))
    BY <2>1 DEF Knows, Made, Described
  <2>3. ASSUME NEW x \in Pages, NEW y \in Pages, NEW n \in Elems(chain'[x][y]),
               n.op \in {"setOffer", "setAnswer"}
        PROVE  n \in Elems(chain[x][y]) \/ (Made(x, y) /\ n.media = peer[x][y].tracks)
    BY <2>1, <2>3 DEF Made
  <2>4. ASSUME NEW x \in Pages, NEW y \in Pages, NEW n \in Elems(chain'[x][y]),
               n.op \in {"setRemote", "applyAnswer"}
        PROVE  n \in Elems(chain[x][y])
    BY <2>1, <2>4
  <2>5. ASSUME NEW x \in Pages, NEW y \in Pages, NEW s \in Elems(up'[x]), s.to = y
        PROVE  \/ s \in Elems(up[x])
               \/ \E n \in Elems(chain[x][y]) :
                    n.op \in {"setOffer", "setAnswer"} /\ s.media = n.media
    BY <2>1, <2>5
  <2>6. ASSUME NEW x \in Pages, NEW y \in Pages, Knows(x, y)'
        PROVE  \/ Knows(x, y) /\ peer'[x][y].hears = peer[x][y].hears
               \/ \E n \in Elems(chain[x][y]) :
                    n.op \in {"setRemote", "applyAnswer"} /\ peer'[x][y].hears = n.media
    <3>1. CASE x = a /\ y = b
      BY <2>1, <2>6, <3>1 DEF Knows, Made
    <3>2. CASE ~(x = a /\ y = b)
      BY <2>1, <2>2, <2>6, <3>2
    <3> QED BY <3>1, <3>2
  <2>7. \A x, y \in Pages : Made(x, y)' =>
          Made(x, y) /\ peer'[x][y].tracks = peer[x][y].tracks
    BY <2>1 DEF Made
  <2> QED BY <2>1, <2>3, <2>4, <2>5, <2>6, <2>7, MediaKept DEF PassesMedia
<1>2. ASSUME NEW a \in Pages, NEW b \in Pages, Gather(a, b) PROVE MediaInv'
  <2>1. /\ UNCHANGED <<chain, down, notes>>
        /\ \A x \in Pages : \A s \in Elems(up'[x]) : s \in Elems(up[x]) \/ s.kind = "ice"
    BY <1>2, GatherElems
  <2>2. /\ \A x, y \in Pages : x # a \/ y # b => peer'[x][y] = peer[x][y]
        /\ Becomes(a, b, [peer[a][b] EXCEPT !.ice = FALSE])
    BY <1>2, GatherStep
  <2>3. peer[a][b] \in Peer /\ Made(a, b)
    BY <2>2, PeerTypes DEF Becomes, Made
  <2>4. \A x, y \in Pages : Made(x, y)' =>
          /\ Made(x, y) /\ peer'[x][y].tracks = peer[x][y].tracks
          /\ peer'[x][y].hears = peer[x][y].hears /\ (Described(x, y)' => Described(x, y))
    BY <2>2, <2>3 DEF Becomes, Made, Peer, Described
  <2> QED BY <2>1, <2>4, MediaKept DEF PassesMedia, Knows, notes
<1>3. ASSUME UNCHANGED <<peer, chain, up, down, early>> PROVE MediaInv'
  BY <1>3, MediaKept DEF PassesMedia, Knows, Made, Described
<1>4. ASSUME NEW a \in Pages, Relay(a) PROVE MediaInv'
  <2> DEFINE s == Head(up[a])
  <2>1. /\ UNCHANGED <<rtc, notes>> /\ s \in Elems(up[a])
        /\ \A x \in Pages : Elems(up'[x]) \subseteq Elems(up[x])
        /\ \A y \in Pages : \A p \in Elems(down'[y]) :
             \/ p \in Elems(down[y])
             \/ y = s.to /\ p.from = a /\ p.kind = s.kind /\ p.media = s.media
    BY <1>4, RelayElems
  <2>2. ASSUME NEW x \in Pages, NEW y \in Pages, NEW p \in Elems(down'[y]), p.from = x
        PROVE  \/ p \in Elems(down[y])
               \/ \E z \in Elems(up[x]) : z.to = y /\ z.kind = p.kind /\ z.media = p.media
    BY <2>1, <2>2
  <2>3. UNCHANGED <<peer, chain, early>>
    BY <2>1 DEF rtc, notes
  <2>4. \A x, y \in Pages : (Made(x, y)' <=> Made(x, y)) /\ (Knows(x, y)' <=> Knows(x, y))
    BY <2>3 DEF Knows, Made, Described
  <2>5. \A x \in Pages : Elems(up'[x]) \subseteq Elems(up[x])
    BY <2>1
  <2> HIDE DEF s
  <2>6. ASSUME NEW x \in Pages, NEW y \in Pages PROVE PassesMedia(x, y)
    BY <2>2, <2>3, <2>4, <2>5 DEF PassesMedia
  <2> QED BY <2>3, <2>6, MediaKept
<1>5. ASSUME NEW a \in Pages, TakeAck(a) \/ TakeOffer(a) \/ TakeOther(a) PROVE MediaInv'
  <2> DEFINE p == Head(down[a])
  <2>1. /\ UNCHANGED <<stream, up>>
        /\ p \in Elems(down[a]) /\ \A y \in Pages : Elems(down'[y]) \subseteq Elems(down[y])
        /\ \A x, y \in Pages : \A o \in Elems(chain'[x][y]) :
             \/ o \in Elems(chain[x][y])
             \/ /\ x = a /\ y = p.from /\ o.media = p.media
                /\ \/ o.op = "setRemote" /\ p.kind = "offer"
                   \/ o.op = "applyAnswer" /\ p.kind = "answer"
                   \/ o.op = "addIce"
    BY <1>5, TakeElems
  <2>2. ASSUME NEW x \in Pages, NEW y \in Pages, NEW o \in Elems(chain'[x][y]),
               o.op \in {"setRemote", "applyAnswer"}
        PROVE  \/ o \in Elems(chain[x][y])
               \/ \E z \in Elems(down[x]) :
                    z.from = y /\ z.kind \in {"offer", "answer"} /\ o.media = z.media
    BY <2>1, <2>2
  <2>3. \A x, y \in Pages : \A o \in Elems(chain'[x][y]) :
          o.op \in {"setOffer", "setAnswer"} => o \in Elems(chain[x][y])
    BY <2>1
  <2>4. /\ early \subseteq early'
        /\ \A x, y \in Pages : <<x, y>> \in early' \/ (Made(x, y)' =>
             peer'[x][y].tracks \/ (Made(x, y) /\ peer'[x][y].tracks = peer[x][y].tracks))
        /\ \A x, y \in Pages : Knows(x, y)' =>
             Knows(x, y) /\ peer'[x][y].hears = peer[x][y].hears
    <3>1. CASE TakeOffer(a)
      <4>1. PICK b \in Pages :
              /\ \A x, y \in Pages : x # a \/ y # b => peer'[x][y] = peer[x][y]
              /\ peer'[a][b] = PeerOf(a, b, a \in stream)
              /\ early' = IF peer[a][b] = None /\ a \notin stream
                          THEN early \union {<<a, b>>} ELSE early
        BY <3>1, TakeOfferStep
      <4>2. peer'[a][b] = IF peer[a][b] = None THEN NewPeer(a \in stream) ELSE peer[a][b]
        BY <4>1 DEF PeerOf
      <4>3. /\ NewPeer(a \in stream).tracks = (a \in stream)
            /\ NewPeer(a \in stream).cur = None /\ NewPeer(a \in stream).sig = "stable"
        BY DEF NewPeer
      <4>4. <<a, b>> \in early' \/ (Made(a, b)' =>
              peer'[a][b].tracks \/ (Made(a, b) /\ peer'[a][b].tracks = peer[a][b].tracks))
        BY <4>1, <4>2, <4>3 DEF Made
      <4>5. Knows(a, b)' => Knows(a, b) /\ peer'[a][b].hears = peer[a][b].hears
        BY <4>2, <4>3 DEF Knows, Made, Described
      <4>6. \A x, y \in Pages : x # a \/ y # b =>
              (Made(x, y)' <=> Made(x, y)) /\ (Knows(x, y)' <=> Knows(x, y))
        BY <4>1 DEF Knows, Made, Described
      <4> QED BY <4>1, <4>4, <4>5, <4>6
    <3>2. CASE TakeAck(a) \/ TakeOther(a)
      <4>1. UNCHANGED <<peer, early>>
        BY <3>2 DEF TakeAck, TakeOther, rtc, notes
      <4> QED BY <4>1 DEF Knows, Made, Described
    <3> QED BY <1>5, <3>1, <3>2
  <2> HIDE DEF p
  <2>5. up' = up /\ \A y \in Pages : Elems(down'[y]) \subseteq Elems(down[y])
    BY <2>1
  <2>6. ASSUME NEW x \in Pages, NEW y \in Pages, <<x, y>> \notin early'
        PROVE  PassesMedia(x, y)
    <3>1. Made(x, y)' =>
            peer'[x][y].tracks \/ (Made(x, y) /\ peer'[x][y].tracks = peer[x][y].tracks)
      BY <2>4, <2>6
    <3>2. Knows(y, x)' => Knows(y, x) /\ peer'[y][x].hears = peer[y][x].hears
      BY <2>4
    <3>3. up' = up /\ Elems(down'[y]) \subseteq Elems(down[y])
      BY <2>5
    <3>4. \A o \in Elems(chain'[x][y]) :
            o.op \in {"setOffer", "setAnswer"} => o \in Elems(chain[x][y])
      BY <2>3
    <3>5. ASSUME NEW o \in Elems(chain'[y][x]), o.op \in {"setRemote", "applyAnswer"}
          PROVE  \/ o \in Elems(chain[y][x])
                 \/ \E z \in Elems(down[y]) :
                      z.from = x /\ z.kind \in {"offer", "answer"} /\ o.media = z.media
      BY <2>2, <3>5
    <3> QED BY <3>1, <3>2, <3>3, <3>4, <3>5 DEF PassesMedia
  <2> QED BY <2>4, <2>6, MediaKept
<1>6. ASSUME NEW a \in Pages, ShareScreen(a) PROVE MediaInv'
  <2>1. UNCHANGED <<chain, up, down, early>>
    BY <1>6 DEF ShareScreen, wires, notes
  <2>2. \A x, y \in Pages : peer'[x][y] =
          IF x = a /\ peer[x][y] # None THEN [peer[x][y] EXCEPT !.tracks = TRUE] ELSE peer[x][y]
    BY <1>6, ShareTypes
  <2>3. \A x, y \in Pages : Made(x, y)' =>
          /\ Made(x, y) /\ (peer'[x][y].tracks \/ peer'[x][y].tracks = peer[x][y].tracks)
          /\ peer'[x][y].hears = peer[x][y].hears /\ (Described(x, y)' => Described(x, y))
    <3> SUFFICES ASSUME NEW x \in Pages, NEW y \in Pages, Made(x, y)'
                 PROVE  /\ Made(x, y) /\ (peer'[x][y].tracks \/ peer'[x][y].tracks = peer[x][y].tracks)
                        /\ peer'[x][y].hears = peer[x][y].hears
                        /\ Described(x, y)' => Described(x, y)
      OBVIOUS
    <3>1. Made(x, y) /\ peer[x][y] \in Peer
      BY <2>2, PeerTypes DEF Made
    <3>2. CASE peer'[x][y] = peer[x][y]
      BY <3>1, <3>2 DEF Described
    <3>3. CASE peer'[x][y] = [peer[x][y] EXCEPT !.tracks = TRUE]
      <4>1. /\ peer'[x][y].tracks /\ peer'[x][y].hears = peer[x][y].hears
            /\ peer'[x][y].cur = peer[x][y].cur /\ peer'[x][y].sig = peer[x][y].sig
        BY <3>1, <3>3 DEF Peer
      <4> QED BY <3>1, <4>1 DEF Described
    <3> QED BY <2>2, <3>2, <3>3
  <2> QED BY <2>1, <2>3, MediaKept DEF PassesMedia, Knows
<1>7. ASSUME NEW a \in Pages, Connect(a) PROVE MediaInv'
  <2> DEFINE sends == role[a] = "participant"
  <2>1. /\ UNCHANGED wires /\ list[a] \subseteq Pages
        /\ \A x, y \in Pages : x # a \/ y \notin list[a] => peer'[x][y] = peer[x][y]
        /\ \A y \in list[a] : peer'[a][y] = PeerOf(a, y, sends)
    BY <1>7, ConnectStep
  <2>2. \A x, y \in Pages : \A o \in Elems(chain'[x][y]) :
          o \in Elems(chain[x][y]) \/ o.op = "createOffer"
    BY <1>7, ConnectElems
  <2>3. /\ early \subseteq early'
        /\ ~sends => \A y \in list[a] : peer[a][y] = None => <<a, y>> \in early'
    BY <1>7 DEF Connect
  <2>4. /\ NewPeer(sends).tracks = sends /\ NewPeer(sends).cur = None
        /\ NewPeer(sends).sig = "stable"
    BY DEF NewPeer
  <2> HIDE DEF sends
  <2>5. ASSUME NEW x \in Pages, NEW y \in Pages
        PROVE  /\ <<x, y>> \in early' \/ (Made(x, y)' =>
                    peer'[x][y].tracks \/ (Made(x, y) /\ peer'[x][y].tracks = peer[x][y].tracks))
               /\ Knows(x, y)' => Knows(x, y) /\ peer'[x][y].hears = peer[x][y].hears
    <3>1. CASE x = a /\ y \in list[a]
      <4>1. peer'[a][y] = IF peer[a][y] = None THEN NewPeer(sends) ELSE peer[a][y]
        BY <2>1, <3>1 DEF PeerOf
      <4> QED BY <2>3, <2>4, <3>1, <4>1 DEF Knows, Made, Described
    <3>2. CASE x # a \/ y \notin list[a]
      BY <2>1, <3>2 DEF Knows, Made, Described
    <3> QED BY <3>1, <3>2
  <2>6. \A x, y \in Pages : \A o \in Elems(chain'[x][y]) :
          o.op \in {"setOffer", "setAnswer", "setRemote", "applyAnswer"} => o \in Elems(chain[x][y])
    BY <2>2
  <2> QED BY <2>1, <2>3, <2>5, <2>6, MediaKept DEF PassesMedia, wires
<1>8. ASSUME NEW a \in Pages, Close(a) PROVE MediaInv'
  <2>1. /\ up' = up /\ early' = early
        /\ \A x, y \in Pages : x # a => peer'[x][y] = peer[x][y]
        /\ \A y \in Pages : peer'[a][y] = None /\ chain'[a][y] = <<>>
        /\ down'[a] = <<>> /\ \A x \in Pages : x # a => down'[x] = down[x]
    BY <1>8, CloseStep DEF notes
  <2>2. \A x, y \in Pages : x # a => chain'[x][y] = chain[x][y]
    BY <1>8 DEF Close, TypeOK
  <2>3. \A x, y \in Pages : /\ Elems(chain'[x][y]) \subseteq Elems(chain[x][y])
                            /\ Elems(down'[x]) \subseteq Elems(down[x])
    BY <2>1, <2>2, NoElems
  <2>4. \A x, y \in Pages : Made(x, y)' => Made(x, y) /\ peer'[x][y] = peer[x][y]
    BY <2>1 DEF Made
  <2>5. \A x, y \in Pages : Knows(x, y)' => Knows(x, y) /\ peer'[x][y] = peer[x][y]
    BY <2>4 DEF Knows, Described, Made
  <2> QED BY <2>1, <2>3, <2>4, <2>5, MediaKept DEF PassesMedia
<1>9. ASSUME NEW a \in Pages, Acknowledge(a) PROVE MediaInv'
  <2>1. PICK z \in Packet : z = [kind |-> "ack", from |-> a, media |-> FALSE]
    BY DEF Packet
  <2>2. down'[a] = Append(down[a], z) /\ \A y \in Pages : y # a => down'[y] = down[y]
    BY <1>9, <2>1 DEF Acknowledge, TypeOK
  <2>3. Elems(Append(down[a], z)) = Elems(down[a]) \union {z}
    BY WireTypes, ElemFacts
  <2>4. z.kind = "ack"
    BY <2>1
  <2>5. UNCHANGED <<peer, chain, up, early>>
    BY <1>9 DEF Acknowledge, rtc, notes
  <2>6. \A y \in Pages : \A p \in Elems(down'[y]) : p \in Elems(down[y]) \/ p.kind = "ack"
    BY <2>2, <2>3, <2>4
  <2> QED BY <2>5, <2>6, MediaKept DEF PassesMedia, Knows, Made, Described
<1>10. ASSUME NEW a \in Pages,
              \/ AskJoin(a) \/ SaveRow(a) \/ TimeOut(a) \/ ServeList(a)
              \/ Answer(a, "granted") \/ Answer(a, "denied") \/ Depart(a)
       PROVE  MediaInv'
  <2>1. UNCHANGED <<peer, chain, up, down, early>>
    BY <1>10 DEF AskJoin, SaveRow, TimeOut, ServeList, Answer, Depart, rtc, wires, notes
  <2> QED BY <1>3, <2>1
<1>11. ASSUME NEW a \in Pages, NEW b \in Pages, ConnectionLost(a, b) PROVE MediaInv'
  BY <1>3, <1>11 DEF ConnectionLost, wires, notes
<1> QED BY <1>1, <1>2, <1>4, <1>5, <1>6, <1>7, <1>8, <1>9, <1>10, <1>11 DEF Next

\* What holds of a page and of what it sends, whatever the negotiation comes to.
PagesInv == TypeOK /\ PageInv /\ SelfInv /\ ListInv /\ MediaInv

LEMMA PagesInit == Init => PagesInv
<1> SUFFICES ASSUME Init PROVE PagesInv
  OBVIOUS
<1>1. TypeOK
  BY TypeInit
<1>2. \A a, b \in Pages :
        /\ page[a] = "new" /\ list[a] = None /\ up[a] = <<>> /\ down[a] = <<>>
        /\ chain[a][b] = <<>> /\ peer[a][b] = None
  BY DEF Init
<1>3. rows = {} /\ bound = {} /\ ready = {} /\ offered = {}
  BY DEF Init
<1>4. PageInv /\ SelfInv /\ ListInv
  BY <1>2, <1>3, NoElems DEF PageInv, SelfInv, ListInv, Open
<1>5. MediaInv
  BY <1>2, NoElems DEF MediaInv, Made, Knows
<1> QED BY <1>1, <1>4, <1>5 DEF PagesInv

LEMMA PagesAlways == Spec => []PagesInv
<1>1. PagesInv /\ [Next]_vars => PagesInv'
  <2> SUFFICES ASSUME PagesInv, [Next]_vars PROVE PagesInv'
    OBVIOUS
  <2>1. CASE Next
    BY <2>1, TypeNext, PageNext, SelfNext, ListNext, MediaNext DEF PagesInv
  <2>2. CASE UNCHANGED vars
    <3>1. UNCHANGED <<role, page, rows, bound, list, ready, peer, chain, up, down, offered, early>>
      BY <2>2 DEF vars
    <3>2. TypeOK'
      BY <2>2 DEF PagesInv, TypeOK, vars
    <3>3. PageInv' /\ SelfInv' /\ ListInv'
      BY <3>1 DEF PagesInv, PageInv, SelfInv, ListInv, Open
    <3>4. MediaInv'
      BY <3>1 DEF PagesInv, MediaInv, Made, Knows, Described
    <3> QED BY <3>2, <3>3, <3>4 DEF PagesInv
  <2> QED BY <2>1, <2>2
<1> QED BY <1>1, PagesInit, PTL DEF Spec

\* HeardUnlessEarly of every instance: the description that an end of a connection has
\* accepted carries the media of the other, unless that one made its peer too early.
THEOREM StreamsAreHeard == Spec => []HeardUnlessEarly
<1>1. PagesInv => HeardUnlessEarly
  <2> SUFFICES ASSUME PagesInv, NEW a \in Pages, NEW b \in Pages, Linked(a, b),
                      <<a, b>> \notin early
               PROVE  peer[b][a].hears
    BY DEF HeardUnlessEarly
  <2>1. Knows(b, a)
    BY DEF Linked, Knows, Made, Described
  <2> QED BY <2>1 DEF PagesInv, MediaInv
<1> QED BY <1>1, PagesAlways, PTL
-----------------------------------------------------------------------------
(* Two pages.                                                              *)

\* The step changes nothing of a page that the sessions depend upon, ...
Stands(a) ==
  /\ Open(a)' <=> Open(a)
  /\ Mute(a)' => Mute(a)
  /\ a \in ready => a \in ready'
  /\ role'[a] = role[a]

Rests(a) == Stands(a) /\ (a \in offered' <=> a \in offered) /\ list'[a] = list[a]

\* ... nothing of a peer, unless it has just been made, ...
SamePeer(a, b) ==
  /\ Made(a, b) => Made(a, b)' /\ (Agrees(a, b, None)' <=> Agrees(a, b, None))
  /\ ~Made(a, b) /\ Made(a, b)' => Agrees(a, b, None)'
  /\ \A s \in {"have-local", "have-remote"} : Has(a, b, s)' <=> Has(a, b, s)
  /\ \A s \in {a, b} : Agrees(a, b, s)' <=> Agrees(a, b, s)
  /\ Knows(a, b)' <=> Knows(a, b)
  /\ Ices(a, b)' <=> Ices(a, b)
  /\ Cands(a, b)' <=> Cands(a, b)

\* ... and nothing of what has been between a and b.
SameNotes(a, b) ==
  /\ <<a, b>> \in rolled' <=> <<a, b>> \in rolled
  /\ <<a, b>> \in lost' <=> <<a, b>> \in lost

SamePair(a, b) == SamePeer(a, b) /\ SameNotes(a, b) /\ Similar(Route(a, b), Route(a, b)')

LEMMA CalmPair ==
  ASSUME NEW a \in Pages, NEW b \in Pages, PairInv(a, b), Stands(a), Stands(b),
         SamePair(a, b), SamePair(b, a), Asked(a, b)' <=> Asked(a, b),
         Open(a) /\ Open(b) /\ Has(a, b, "have-local") /\ role[a] = "participant"
           /\ Late(b, a) => Late(b, a)'
  PROVE  PairInv(a, b)'
<1>1. \A k \in {"ask", "offer", "reply", "answer", "ice"} :
        /\ (In(Route(a, b)', k) <=> In(Route(a, b), k)) /\ (In(Route(b, a)', k) <=> In(Route(b, a), k))
        /\ Once(Route(a, b), k) => Once(Route(a, b)', k)
        /\ Once(Route(b, a), k) => Once(Route(b, a)', k)
  BY DEF SamePair, Similar
<1>2. /\ Ahead(Route(a, b), "offer", "answer") => Ahead(Route(a, b)', "offer", "answer")
      /\ Ahead(Route(a, b), "answer", "offer") => Ahead(Route(a, b)', "answer", "offer")
      /\ Led(Route(a, b)) => Led(Route(a, b)')
  BY DEF SamePair, Similar
<1>3. /\ (Asking(a, b)' <=> Asking(a, b)) /\ (Asking(b, a)' <=> Asking(b, a))
      /\ (Offering(a, b)' <=> Offering(a, b)) /\ (Offering(b, a)' <=> Offering(b, a))
      /\ (Replying(a, b)' <=> Replying(a, b)) /\ (Replying(b, a)' <=> Replying(b, a))
      /\ (Answering(a, b)' <=> Answering(a, b)) /\ (Answering(b, a)' <=> Answering(b, a))
  BY <1>1 DEF Asking, Offering, Replying, Answering
<1>4. (Touched(a, b)' <=> Touched(a, b)) /\ (Touched(b, a)' <=> Touched(b, a))
  BY DEF SamePair, SamePeer, Touched
<1>5. SideInv(a, b)'
  BY <1>1, <1>2, <1>3, <1>4 DEF PairInv, SideInv, Stands, SamePair, SamePeer, SameNotes
<1>6. MuteInv(a, b)'
  BY <1>1, <1>3 DEF PairInv, MuteInv, Stands, SamePair, SamePeer
<1>7. TokenInv(a, b) => TokenInv(a, b)'
  BY <1>1, <1>3 DEF TokenInv
<1>8. PastInv(a, b) => PastInv(a, b)'
  BY <1>3 DEF PastInv, SamePair, SamePeer, SameNotes
<1>9. Open(a) /\ Open(b) /\ DueInv(a, b) => DueInv(a, b)'
  BY <1>3, <1>4 DEF DueInv, Stands, SamePair, SamePeer, SameNotes
<1>10. CrossInv(a, b) => CrossInv(a, b)'
  BY <1>2, <1>3 DEF CrossInv, Has, SamePair, SamePeer, SameNotes
<1>11. ReachInv(a, b) => ReachInv(a, b)'
  BY <1>1, <1>4 DEF ReachInv, Reaches, Has, Stands, SamePair, SamePeer, SameNotes
<1>12. (Open(a) /\ Open(b))' <=> Open(a) /\ Open(b)
  BY DEF Stands
<1> QED BY <1>5, <1>6, <1>7, <1>8, <1>9, <1>10, <1>11, <1>12 DEF PairInv, SessionInv

LEMMA Calm ==
  ASSUME NEW a \in Pages, NEW b \in Pages, PairInv(a, b), Rests(a), Rests(b),
         SamePair(a, b), SamePair(b, a)
  PROVE  PairInv(a, b)'
<1>1. /\ Asking(b, a)' <=> Asking(b, a)
      /\ Offering(b, a)' <=> Offering(b, a)
  BY DEF SamePair, Similar, Asking, Offering
<1>2. /\ Asked(a, b)' <=> Asked(a, b)
      /\ Late(b, a)' <=> Late(b, a)
  BY <1>1 DEF Rests, Asked, Late
<1> QED BY <1>2, CalmPair DEF Rests

\* One of the two has gone: what is on its way to it does not matter any more.
LEMMA Gone ==
  ASSUME NEW a \in Pages, NEW b \in Pages, PairInv(a, b), PairInv(b, a), ~Open(a)',
         Stands(b), SamePeer(b, a), SameNotes(a, b), Cands(a, b)' => Cands(a, b),
         Similar(Route(a, b), Route(a, b)'), Shrinks(Route(b, a), Route(b, a)')
  PROVE  PairInv(a, b)' /\ PairInv(b, a)'
<1>1. \A k \in {"ask", "offer", "reply", "answer", "ice"} :
        /\ In(Route(a, b)', k) <=> In(Route(a, b), k)
        /\ In(Route(b, a)', k) => In(Route(b, a), k)
  BY DEF Similar, Shrinks
<1>2. Led(Route(a, b)) => Led(Route(a, b)')
  BY DEF Similar
<1>3. /\ Offering(b, a)' => Offering(b, a)
      /\ Replying(b, a)' => Replying(b, a)
      /\ Answering(b, a)' => Answering(b, a)
      /\ Answering(a, b)' => Answering(a, b)
  BY <1>1 DEF Offering, Replying, Answering
<1>4. Touched(b, a)' <=> Touched(b, a)
  BY DEF SamePeer, Touched
<1>5. SideInv(a, b)'
  BY <1>1, <1>2, <1>3, <1>4 DEF PairInv, SideInv, Stands, SamePeer, SameNotes
<1>6. SideInv(b, a)' /\ MuteInv(a, b)'
  BY DEF SideInv, MuteInv, Open, Mute
<1>7. MuteInv(b, a)'
  BY <1>1, <1>3 DEF PairInv, MuteInv, Stands
<1> QED BY <1>5, <1>6, <1>7 DEF PairInv

\* Nothing of a peer.
StillPeer(a, b) ==
  /\ Made(a, b)' <=> Made(a, b)
  /\ \A s : (Has(a, b, s)' <=> Has(a, b, s)) /\ (Agrees(a, b, s)' <=> Agrees(a, b, s))
  /\ Knows(a, b)' <=> Knows(a, b)
  /\ Touched(a, b)' <=> Touched(a, b)
  /\ Ices(a, b)' <=> Ices(a, b)
  /\ Cands(a, b)' <=> Cands(a, b)

LEMMA PeerStays ==
  ASSUME NEW a, NEW b, peer'[a][b] = peer[a][b]
  PROVE  SamePeer(a, b) /\ StillPeer(a, b)
BY DEF SamePeer, StillPeer, Touched, Made, Has, Agrees, Knows, Described, Ices, Cands

LEMMA PeerIsMade ==
  ASSUME NEW a, NEW b, NEW s, peer'[a][b] = PeerOf(a, b, s), None \notin {a, b}
  PROVE  SamePeer(a, b)
<1>1. CASE peer[a][b] = None
  <2>1. /\ NewPeer(s).sig = "stable" /\ NewPeer(s).cur = None
        /\ NewPeer(s).ice = FALSE /\ NewPeer(s).cands = FALSE
    BY DEF NewPeer
  <2> QED BY <1>1, <2>1 DEF PeerOf, SamePeer, Made, Has, Agrees, Knows, Described, Ices, Cands
<1>2. CASE peer[a][b] # None
  BY <1>2, PeerStays DEF PeerOf
<1> QED BY <1>1, <1>2

\* What goes on between a and b is nothing to the others.
LEMMA OthersCalm ==
  ASSUME PairsInv, NEW a \in Pages, NEW b \in Pages, Elsewhere(a, b),
         \A x, y \in Pages : x # a \/ y # b => SameNotes(x, y),
         PairInv(a, b)' /\ PairInv(b, a)'
  PROVE  PairsInv'
<1>1. \A x \in Pages : Rests(x)
  BY DEF Elsewhere, Rests, Stands, Open, Mute, joining
<1>2. ASSUME NEW x \in Pages, NEW y \in Pages, {x, y} # {a, b} PROVE SamePair(x, y)
  <2>1. SamePeer(x, y)
    BY <1>2, PeerStays DEF Elsewhere
  <2>2. Similar(Route(x, y), Route(x, y)')
    BY <1>2, AlikeIsSimilar DEF Elsewhere
  <2> QED BY <1>2, <2>1, <2>2 DEF SamePair
<1>3. ASSUME NEW x \in Pages, NEW y \in Pages, x # y, {x, y} # {a, b} PROVE PairInv(x, y)'
  <2>1. {y, x} # {a, b}
    BY <1>3
  <2> QED BY <1>1, <1>2, <1>3, <2>1, Calm DEF PairsInv
<1>4. \A x, y \in Pages : {x, y} = {a, b} /\ x # y => (x = a /\ y = b) \/ (x = b /\ y = a)
  OBVIOUS
<1> QED BY <1>3, <1>4 DEF PairsInv

\* Who sends has joined, or has gone.
LEMMA AskedIn ==
  ASSUME TypeOK, PageInv, NEW a \in Pages, NEW b \in Pages
  PROVE  /\ Asked(a, b) /\ Open(a) => page[a] = "in" /\ ~Mute(a) /\ a \in ready
         /\ Mute(a) => a \notin ready /\ list[a] = None /\ a \notin offered
         /\ Mute(a) => Open(a)
BY DEF PageInv, Asked, Open, Mute, TypeOK

\* What is not the step's business: the pages, and the peer of the other page.
LEMMA PagesStay ==
  ASSUME NEW a \in Pages, NEW b \in Pages, a # b, Elsewhere(a, b)
  PROVE  /\ \A x \in Pages : /\ Open(x)' <=> Open(x)
                             /\ Mute(x)' <=> Mute(x)
                             /\ page'[x] = page[x] /\ list'[x] = list[x] /\ role'[x] = role[x]
                             /\ Rests(x)
         /\ ready' = ready /\ offered' = offered
         /\ \A x, y \in Pages : Asked(x, y)' <=> Asked(x, y)
         /\ SamePeer(b, a) /\ StillPeer(b, a)
<1>1. joining' = joining /\ ready' = ready /\ offered' = offered /\ peer'[b][a] = peer[b][a]
  BY DEF Elsewhere
<1>2. page' = page /\ list' = list /\ role' = role
  BY <1>1 DEF joining
<1>3. SamePeer(b, a) /\ StillPeer(b, a)
  BY <1>1, PeerStays
<1> QED BY <1>1, <1>2, <1>3 DEF Open, Mute, Rests, Stands, Asked

\* An offer of our own is dropped while we answer the other's: both have been offered.
LEMMA RejectOfferPair ==
  ASSUME TypeOK, NEW a \in Pages, NEW b \in Pages, a # b, PairInv(a, b), PairInv(b, a),
         Rejects(a, b, "setOffer", {"have-remote"})
  PROVE  PairInv(a, b)' /\ PairInv(b, a)'
<1>1. /\ Elsewhere(a, b) /\ peer' = peer /\ rolled' = rolled /\ lost' = lost
      /\ Route(a, b)' = Route(a, b)
      /\ Takes(Route(b, a), Route(b, a)', "ask")
      /\ Has(a, b, "have-remote")
  BY RejectStep DEF Kind, Has
<1>2. /\ \A m \in {"offer", "reply", "answer", "ice"} : In(Route(b, a)', m) <=> In(Route(b, a), m)
      /\ Asking(a, b)
      /\ Once(Route(b, a), "ask") => ~Asking(a, b)'
      /\ \A m : Once(Route(b, a), m) => Once(Route(b, a)', m)
      /\ \A m, n : Ahead(Route(b, a), m, n) => Ahead(Route(b, a)', m, n)
      /\ Led(Route(b, a)) => Led(Route(b, a)')
  BY <1>1, TakesFacts DEF Asking
<1>3. /\ Offering(a, b)' <=> Offering(a, b)
      /\ Offering(b, a)' <=> Offering(b, a)
      /\ Replying(a, b)' <=> Replying(a, b)
      /\ Replying(b, a)' <=> Replying(b, a)
      /\ Answering(a, b)' <=> Answering(a, b)
      /\ Answering(b, a)' <=> Answering(b, a)
      /\ Asking(b, a)' <=> Asking(b, a)
  BY <1>1, <1>2 DEF Asking, Offering, Replying, Answering
<1>4. /\ StillPeer(a, b) /\ StillPeer(b, a) /\ SameNotes(a, b) /\ SameNotes(b, a)
      /\ Touched(a, b)
  BY <1>1, PeerStays DEF SameNotes, Touched, Knows, Described, Has
<1>5. SideInv(a, b)' /\ SideInv(b, a)' /\ MuteInv(a, b)' /\ MuteInv(b, a)'
  BY <1>1, <1>2, <1>3, <1>4, PagesStay
     DEF PairInv, SideInv, MuteInv, StillPeer, SameNotes
<1>6. ASSUME Open(a), Open(b)
      PROVE  SessionInv(a, b)' /\ SessionInv(b, a)'
  <2>1. Replying(b, a) /\ Touched(b, a) /\ <<a, b>> \notin lost
    BY <1>1, <1>6 DEF PairInv, SideInv, SessionInv, DueInv, Late, PastInv
  <2>2. TokenInv(a, b)' /\ TokenInv(b, a)'
    BY <1>1, <1>2, <1>3, <1>6, PagesStay DEF PairInv, SessionInv, TokenInv
  <2>3. PastInv(a, b)' /\ PastInv(b, a)'
    BY <1>1, <1>2, <1>3, <1>4, <1>6, PagesStay DEF PairInv, SessionInv, PastInv, TokenInv, StillPeer, SameNotes
  <2>4. DueInv(a, b)' /\ DueInv(b, a)'
    BY <1>1, <1>3, <1>4, <1>6, <2>1, PagesStay DEF PairInv, SessionInv, DueInv, Late, StillPeer, SameNotes
  <2>5. CrossInv(a, b)' /\ CrossInv(b, a)'
    BY <1>1, <1>2, <1>3, <1>4, <1>6 DEF PairInv, SessionInv, CrossInv, StillPeer, SameNotes
  <2>6. ReachInv(a, b)' /\ ReachInv(b, a)'
    BY <1>1, <1>2, <1>4, <1>6, PagesStay DEF PairInv, SessionInv, ReachInv, Reaches, StillPeer, SameNotes
  <2> QED BY <2>2, <2>3, <2>4, <2>5, <2>6 DEF SessionInv
<1> QED BY <1>1, <1>5, <1>6, PagesStay DEF PairInv

\* An answer is not made once the offer is gone: it never comes to that while both are there.
LEMMA RejectReplyPair ==
  ASSUME TypeOK, NEW a \in Pages, NEW b \in Pages, a # b, PairInv(a, b), PairInv(b, a),
         NEW op \in {"createAnswer", "setAnswer"}, Rejects(a, b, op, {"stable", "have-local"})
  PROVE  PairInv(a, b)' /\ PairInv(b, a)'
<1>1. /\ Elsewhere(a, b) /\ peer' = peer /\ rolled' = rolled /\ lost' = lost
      /\ Route(a, b)' = Route(a, b)
      /\ Takes(Route(b, a), Route(b, a)', "reply")
      /\ ~Has(a, b, "have-remote")
  BY RejectStep DEF Kind, Has
<1>2. /\ \A m \in {"ask", "offer", "answer", "ice"} : In(Route(b, a)', m) <=> In(Route(b, a), m)
      /\ Replying(b, a)
      /\ Replying(b, a)' => Replying(b, a)
      /\ Led(Route(b, a)) => Led(Route(b, a)')
  BY <1>1, TakesFacts DEF Replying
<1>3. /\ Offering(a, b)' <=> Offering(a, b)
      /\ Offering(b, a)' <=> Offering(b, a)
      /\ Replying(a, b)' <=> Replying(a, b)
      /\ Answering(a, b)' <=> Answering(a, b)
      /\ Answering(b, a)' <=> Answering(b, a)
  BY <1>1, <1>2 DEF Offering, Replying, Answering
<1>4. StillPeer(a, b) /\ StillPeer(b, a) /\ SameNotes(a, b) /\ SameNotes(b, a)
  BY <1>1, PeerStays DEF SameNotes
<1>5. SideInv(a, b)' /\ SideInv(b, a)' /\ MuteInv(a, b)' /\ MuteInv(b, a)'
  BY <1>1, <1>2, <1>3, <1>4, PagesStay
     DEF PairInv, SideInv, MuteInv, StillPeer, SameNotes
<1>6. ~(Open(a) /\ Open(b))
  BY <1>1, <1>2 DEF PairInv, SessionInv, DueInv, Late
<1> QED BY <1>1, <1>5, <1>6, PagesStay DEF PairInv

\* An answer to an offer that has been rolled back comes to nothing.
LEMMA RejectAnswerPair ==
  ASSUME TypeOK, NEW a \in Pages, NEW b \in Pages, a # b, PairInv(a, b), PairInv(b, a),
         Rejects(a, b, "applyAnswer", {"stable", "have-remote"})
  PROVE  PairInv(a, b)' /\ PairInv(b, a)'
<1>1. /\ Elsewhere(a, b) /\ peer' = peer /\ rolled' = rolled /\ lost' = lost
      /\ Route(a, b)' = Route(a, b)
      /\ Takes(Route(b, a), Route(b, a)', "answer")
      /\ ~Has(a, b, "have-local")
  BY RejectStep DEF Kind, Has
<1>2. /\ \A m \in {"ask", "offer", "reply", "ice"} : In(Route(b, a)', m) <=> In(Route(b, a), m)
      /\ Answering(a, b)
      /\ Once(Route(b, a), "answer") => ~Answering(a, b)'
      /\ Answering(a, b)' => Answering(a, b)
      /\ \A m : Once(Route(b, a), m) => Once(Route(b, a)', m)
      /\ \A m, n : Ahead(Route(b, a), m, n) => Ahead(Route(b, a)', m, n)
  BY <1>1, TakesFacts DEF Answering
<1>3. /\ Offering(a, b)' <=> Offering(a, b)
      /\ Offering(b, a)' <=> Offering(b, a)
      /\ Replying(a, b)' <=> Replying(a, b)
      /\ Replying(b, a)' <=> Replying(b, a)
      /\ Answering(b, a)' <=> Answering(b, a)
      /\ Asking(a, b)' <=> Asking(a, b)
      /\ Asking(b, a)' <=> Asking(b, a)
  BY <1>1, <1>2 DEF Asking, Offering, Replying, Answering
<1>4. StillPeer(a, b) /\ StillPeer(b, a) /\ SameNotes(a, b) /\ SameNotes(b, a)
  BY <1>1, PeerStays DEF SameNotes
<1>5. Open(a) => Knows(a, b)
  BY <1>1, <1>2 DEF PairInv, SideInv, Touched
<1>6. SideInv(a, b)' /\ SideInv(b, a)' /\ MuteInv(a, b)' /\ MuteInv(b, a)'
  BY <1>1, <1>2, <1>3, <1>4, <1>5, PagesStay
     DEF PairInv, SideInv, MuteInv, StillPeer, SameNotes
<1>7. ASSUME Open(a), Open(b)
      PROVE  SessionInv(a, b)' /\ SessionInv(b, a)'
  <2>1. TokenInv(a, b)' /\ TokenInv(b, a)'
    BY <1>1, <1>2, <1>3, <1>7, PagesStay DEF PairInv, SessionInv, TokenInv
  <2>2. PastInv(a, b)' /\ PastInv(b, a)'
    BY <1>2, <1>3, <1>4, <1>7, <1>1, PagesStay
       DEF PairInv, SessionInv, PastInv, TokenInv, StillPeer, SameNotes
  <2>3. DueInv(a, b)' /\ DueInv(b, a)'
    BY <1>1, <1>3, <1>4, <1>7, PagesStay
       DEF PairInv, SessionInv, DueInv, Late, StillPeer, SameNotes
  <2>4. CrossInv(a, b)' /\ CrossInv(b, a)'
    BY <1>1, <1>2, <1>3, <1>4, <1>7 DEF PairInv, SessionInv, CrossInv, StillPeer, SameNotes
  <2>5. ReachInv(a, b)' /\ ReachInv(b, a)'
    BY <1>1, <1>2, <1>4, <1>7, PagesStay
       DEF PairInv, SessionInv, ReachInv, Reaches, StillPeer, SameNotes
  <2> QED BY <2>1, <2>2, <2>3, <2>4, <2>5 DEF SessionInv
<1> QED BY <1>1, <1>6, <1>7, PagesStay DEF PairInv

\* An offer is sent after everything else, and calls for candidates unless some have been.
LEMMA SetOfferPair ==
  ASSUME TypeOK, PageInv, NEW a \in Pages, NEW b \in Pages, a # b,
         PairInv(a, b), PairInv(b, a), SetOffer(a, b)
  PROVE  PairInv(a, b)' /\ PairInv(b, a)'
<1> DEFINE p == [peer[a][b] EXCEPT !.sig = "have-local", !.pend = a,
                                   !.ice = peer[a][b].ice \/ peer[a][b].cur = None]
<1>1. /\ Elsewhere(a, b) /\ rolled' = rolled /\ lost' = lost
      /\ Takes(Route(b, a), Route(b, a)', "ask")
      /\ page[a] = "in" => Sends(Route(a, b), Route(a, b)', "offer")
      /\ page[a] # "in" => Route(a, b)' = Route(a, b)
      /\ Becomes(a, b, p)
      /\ peer[a][b].sig # "have-remote"
  BY SetOfferStep
<1>2. Made(a, b) /\ peer[a][b] \in Peer
  BY <1>1 DEF Becomes, Made, TypeOK
<1>3. /\ p.sig = "have-local" /\ p.cur = peer[a][b].cur /\ p.cands = peer[a][b].cands
      /\ p.ice <=> peer[a][b].ice \/ peer[a][b].cur = None
      /\ peer'[a][b] = p
  BY <1>1, <1>2 DEF Peer, Becomes
<1>4. /\ Has(a, b, "have-local")' /\ ~Has(a, b, "have-remote")' /\ ~Has(a, b, "have-remote")
      /\ Made(a, b)'
      /\ \A s : Agrees(a, b, s)' <=> Agrees(a, b, s)
      /\ (Knows(a, b)' <=> Knows(a, b)) /\ (Agrees(a, b, None) \/ Knows(a, b))
      /\ Touched(a, b)' /\ (Knows(a, b) => Touched(a, b))
      /\ Ices(a, b)' <=> (Ices(a, b) \/ Agrees(a, b, None))
      /\ Cands(a, b)' <=> Cands(a, b)
  <2>1. Made(a, b)' /\ peer[a][b].sig # "have-remote"
    BY <1>1 DEF Becomes
  <2> HIDE DEF p
  <2> QED BY <1>2, <1>3, <2>1 DEF Has, Made, Agrees, Knows, Touched, Described, Ices, Cands
<1>5. /\ \A m \in {"offer", "reply", "answer", "ice"} : In(Route(b, a)', m) <=> In(Route(b, a), m)
      /\ Asking(a, b)
      /\ Once(Route(b, a), "ask") => ~Asking(a, b)'
      /\ \A m : Once(Route(b, a), m) => Once(Route(b, a)', m)
      /\ \A m, n : Ahead(Route(b, a), m, n) => Ahead(Route(b, a)', m, n)
      /\ Led(Route(b, a)) => Led(Route(b, a)')
  BY <1>1, TakesFacts DEF Asking
<1>6. /\ \A m \in {"ask", "reply", "answer", "ice"} : In(Route(a, b)', m) <=> In(Route(a, b), m)
      /\ page[a] = "in" => In(Route(a, b)', "offer")
      /\ page[a] # "in" => Route(a, b)' = Route(a, b)
      /\ \A m \in {"ask", "reply", "answer"} : Once(Route(a, b), m) => Once(Route(a, b)', m)
      /\ page[a] = "in" /\ ~In(Route(a, b), "offer") => Once(Route(a, b)', "offer")
      /\ Ahead(Route(a, b), "answer", "offer") => Ahead(Route(a, b)', "answer", "offer")
      /\ Led(Route(a, b)) => Led(Route(a, b)')
  BY <1>1, SendsFacts
<1>7. /\ page[a] = "in" => Offering(a, b)'
      /\ page[a] # "in" => (Offering(a, b)' <=> Offering(a, b))
      /\ Offering(b, a)' <=> Offering(b, a)
      /\ Replying(a, b)' <=> Replying(a, b)
      /\ Replying(b, a)' <=> Replying(b, a)
      /\ Answering(a, b)' <=> Answering(a, b)
      /\ Answering(b, a)' <=> Answering(b, a)
      /\ Asking(b, a)' <=> Asking(b, a)
  BY <1>1, <1>5, <1>6 DEF Asking, Offering, Replying, Answering
<1>8. StillPeer(b, a) /\ SameNotes(a, b) /\ SameNotes(b, a)
  BY <1>1, PagesStay DEF SameNotes
<1>9. Open(a) /\ Open(b) => Asked(a, b) /\ page[a] = "in" /\ a \in ready
  BY <1>5, AskedIn DEF PairInv, SessionInv, TokenInv
<1>10. Mute(a) => page[a] # "in"
  BY DEF Mute
<1>11. SideInv(a, b)' /\ SideInv(b, a)' /\ MuteInv(a, b)' /\ MuteInv(b, a)'
  <2>1. SideInv(a, b)'
    BY <1>1, <1>6, <1>7, <1>4, <1>8, <1>9, PagesStay DEF PairInv, SideInv, StillPeer, SameNotes
  <2>2. SideInv(b, a)'
    BY <1>1, <1>2, <1>4, <1>5, <1>7, <1>8, PagesStay DEF PairInv, SideInv, StillPeer, SameNotes
  <2>3. MuteInv(a, b)'
    BY <1>1, <1>6, <1>7, <1>8, <1>10, PagesStay DEF PairInv, MuteInv, StillPeer
  <2>4. MuteInv(b, a)'
    BY <1>1, <1>4, <1>5, <1>7, PagesStay DEF PairInv, MuteInv
  <2> QED BY <2>1, <2>2, <2>3, <2>4
<1>12. ASSUME Open(a), Open(b)
       PROVE  SessionInv(a, b)' /\ SessionInv(b, a)'
  <2>1. /\ ~Offering(a, b) /\ ~Replying(a, b) /\ ~Answering(a, b)
        /\ <<a, b>> \notin rolled /\ <<b, a>> \notin lost
        /\ ~Agrees(a, b, a) /\ ~Agrees(b, a, a)
        /\ <<a, b>> \in lost => ~Agrees(a, b, None)
    BY <1>5, <1>12 DEF PairInv, SessionInv, TokenInv, PastInv
  <2>2. TokenInv(a, b)' /\ TokenInv(b, a)'
    BY <1>5, <1>6, <1>7, <1>9, <1>12, <2>1, PagesStay, <1>1
       DEF PairInv, SessionInv, TokenInv, Offering
  <2>3. PastInv(a, b)' /\ PastInv(b, a)'
    BY <1>4, <1>5, <1>7, <1>8, <1>9, <1>12, <2>1, PagesStay, <1>1
       DEF PairInv, SessionInv, PastInv, TokenInv, StillPeer, SameNotes
  <2>4. DueInv(a, b)' /\ DueInv(b, a)'
    BY <1>4, <1>7, <1>8, <1>9, <1>12, <2>1, PagesStay, <1>1
       DEF PairInv, SessionInv, DueInv, Late, StillPeer, SameNotes
  <2>5. CrossInv(a, b)' /\ CrossInv(b, a)'
    BY <1>4, <1>5, <1>6, <1>7, <1>8, <1>12, <2>1
       DEF PairInv, SessionInv, CrossInv, StillPeer, SameNotes
  <2>6. ReachInv(a, b)' /\ ReachInv(b, a)'
    BY <1>4, <1>5, <1>6, <1>8, <1>9, <1>12, <2>1, PagesStay, <1>1
       DEF PairInv, SessionInv, ReachInv, Reaches, StillPeer, SameNotes
  <2> QED BY <2>2, <2>3, <2>4, <2>5, <2>6 DEF SessionInv
<1> QED BY <1>1, <1>11, <1>12, PagesStay DEF PairInv

LEMMA NotAhead == \A r, k, l : ~In(r, k) \/ ~In(r, l) => Ahead(r, k, l)
BY DEF In, Ahead

\* An offer is taken: if one of our own is rolled back for it, either the other page has
\* rolled back its own, too, or it has yet to take ours.
LEMMA SetRemotePair ==
  ASSUME TypeOK, NEW a \in Pages, NEW b \in Pages, a # b,
         PairInv(a, b), PairInv(b, a), SetRemote(a, b)
  PROVE  PairInv(a, b)' /\ PairInv(b, a)'
<1> DEFINE p == [peer[a][b] EXCEPT !.sig = "have-remote", !.pend = b,
                                   !.hears = Head(chain[a][b]).media,
                                   !.ice = peer[a][b].ice /\ ~RollsBack(a, b)]
           Back == Has(a, b, "have-local") /\ Agrees(a, b, None)
<1>1. /\ Elsewhere(a, b) /\ lost' = lost
      /\ rolled' = IF RollsBack(a, b) THEN rolled \union {<<a, b>>} ELSE rolled
      /\ Route(a, b)' = Route(a, b)
      /\ Turns(Route(b, a), Route(b, a)', "offer", "reply")
      /\ Becomes(a, b, p)
  BY SetRemoteStep
<1>2. Made(a, b) /\ peer[a][b] \in Peer /\ (Back <=> RollsBack(a, b))
  BY <1>1 DEF Becomes, Made, TypeOK, RollsBack, Has, Agrees
<1>3. /\ p.sig = "have-remote" /\ p.cur = peer[a][b].cur /\ p.cands = peer[a][b].cands
      /\ p.ice <=> peer[a][b].ice /\ ~RollsBack(a, b)
      /\ peer'[a][b] = p
  BY <1>1, <1>2 DEF Peer, Becomes
<1>4. /\ Has(a, b, "have-remote")' /\ ~Has(a, b, "have-local")' /\ Made(a, b)'
      /\ \A s : Agrees(a, b, s)' <=> Agrees(a, b, s)
      /\ Knows(a, b)' /\ Touched(a, b)'
      /\ Ices(a, b)' <=> (Ices(a, b) /\ ~Back)
      /\ Cands(a, b)' <=> Cands(a, b)
  <2>1. Made(a, b)'
    BY <1>1 DEF Becomes
  <2> HIDE DEF p, Back
  <2> QED BY <1>2, <1>3, <2>1 DEF Has, Made, Agrees, Knows, Touched, Described, Ices, Cands
<1>5. /\ \A m \in {"ask", "answer", "ice"} : In(Route(b, a)', m) <=> In(Route(b, a), m)
      /\ Offering(b, a) /\ Replying(b, a)'
      /\ Once(Route(b, a), "offer") => ~Offering(b, a)'
      /\ \A m : m # "reply" /\ Once(Route(b, a), m) => Once(Route(b, a)', m)
      /\ ~Replying(b, a) => Once(Route(b, a)', "reply")
      /\ \A m, n : "reply" \notin {m, n} /\ Ahead(Route(b, a), m, n) => Ahead(Route(b, a)', m, n)
      /\ Ahead(Route(b, a), "answer", "offer") => ~Answering(a, b)
  BY <1>1, TurnsFacts DEF Offering, Replying, Answering
<1>6. /\ Offering(a, b)' <=> Offering(a, b)
      /\ Replying(a, b)' <=> Replying(a, b)
      /\ Answering(a, b)' <=> Answering(a, b)
      /\ Answering(b, a)' <=> Answering(b, a)
      /\ Asking(a, b)' <=> Asking(a, b)
      /\ Asking(b, a)' <=> Asking(b, a)
  BY <1>1, <1>5 DEF Asking, Offering, Replying, Answering
<1>7. /\ StillPeer(b, a) /\ SameNotes(b, a)
      /\ <<a, b>> \in lost' <=> <<a, b>> \in lost
      /\ <<a, b>> \in rolled' <=> (<<a, b>> \in rolled \/ Back)
  BY <1>1, <1>2, PagesStay DEF SameNotes
<1> HIDE DEF p, Back
<1>8. SideInv(a, b)' /\ SideInv(b, a)' /\ MuteInv(a, b)' /\ MuteInv(b, a)'
  <2>1. SideInv(a, b)'
    BY <1>1, <1>4, <1>5, <1>6, <1>7, PagesStay DEF PairInv, SideInv, StillPeer, SameNotes
  <2>2. SideInv(b, a)'
    BY <1>1, <1>2, <1>4, <1>5, <1>6, <1>7, PagesStay DEF PairInv, SideInv
  <2>3. MuteInv(a, b)'
    BY <1>1, <1>6, <1>7, PagesStay DEF PairInv, MuteInv, StillPeer
  <2>4. MuteInv(b, a)'
    BY <1>1, <1>5, PagesStay DEF PairInv, MuteInv
  <2> QED BY <2>1, <2>2, <2>3, <2>4
<1>9. ASSUME Open(a), Open(b)
      PROVE  SessionInv(a, b)' /\ SessionInv(b, a)'
  <2>1. /\ ~Replying(b, a) /\ ~Answering(b, a) /\ <<a, b>> \notin lost
        /\ ~Agrees(a, b, b) /\ ~Agrees(b, a, b) /\ ~Offering(b, a)'
    BY <1>5, <1>9 DEF PairInv, SessionInv, TokenInv, PastInv
  <2>2. /\ Back <=> Has(a, b, "have-local")
        /\ Back => Asked(a, b) /\ ~Asking(a, b) /\ ~Agrees(a, b, a)
    BY <1>2, <1>9, <2>1 DEF PairInv, SideInv, SessionInv, PastInv, Back
  <2>3. Back /\ (Offering(a, b) \/ Replying(a, b) \/ Answering(a, b)) =>
          \/ <<b, a>> \in rolled
          \/ Offering(a, b) /\ Has(b, a, "have-local") /\ Agrees(b, a, None)
    <3> SUFFICES ASSUME <<b, a>> \notin rolled,
                        Offering(a, b) \/ Replying(a, b) \/ Answering(a, b)
                 PROVE  Offering(a, b) /\ Has(b, a, "have-local") /\ Agrees(b, a, None)
      OBVIOUS
    <3>1. Has(b, a, "have-local") /\ ~Answering(a, b)
      BY <1>5, <1>9 DEF PairInv, SessionInv, CrossInv
    <3>2. ~Replying(a, b)
      BY <1>9, <3>1 DEF PairInv, SessionInv, DueInv, Late, Has
    <3>3. Made(b, a) /\ ~Agrees(b, a, b) /\ ~Agrees(b, a, a)
      BY <1>9, <2>1, <3>1, <3>2 DEF PairInv, SessionInv, PastInv, Has
    <3> QED BY <1>9, <3>1, <3>2, <3>3 DEF PairInv, SideInv
  <2>4. Ahead(Route(a, b), "offer", "answer")
    BY <2>1, NotAhead DEF Answering
  <2>5. TokenInv(a, b)' /\ TokenInv(b, a)'
    BY <1>1, <1>5, <1>6, <1>9, <2>1, PagesStay DEF PairInv, SessionInv, TokenInv
  <2>6. PastInv(a, b)' /\ PastInv(b, a)'
    BY <1>1, <1>4, <1>6, <1>7, <1>9, <2>1, <2>2, PagesStay
       DEF PairInv, SessionInv, PastInv, StillPeer, SameNotes
  <2>7. DueInv(a, b)' /\ DueInv(b, a)'
    BY <1>1, <1>4, <1>5, <1>6, <1>7, <1>9, <2>1, PagesStay
       DEF PairInv, SessionInv, DueInv, Late, StillPeer, SameNotes
  <2>8. CrossInv(a, b)'
    BY <1>1, <1>4, <1>6, <1>7, <1>9, <2>1, <2>2, <2>3, <2>4
       DEF PairInv, SessionInv, CrossInv, StillPeer, SameNotes
  <2>9. CrossInv(b, a)'
    BY <1>1, <1>4, <1>5, <1>6, <1>7, <1>9, <2>1, <2>2
       DEF PairInv, SessionInv, CrossInv, StillPeer, SameNotes
  <2>10. Touched(b, a)
    BY <1>5, <1>9 DEF PairInv, SideInv
  <2>11. ReachInv(a, b)' /\ ReachInv(b, a)'
    BY <1>1, <1>4, <1>5, <1>7, <1>9, <2>1, <2>2, <2>10, PagesStay
       DEF PairInv, SessionInv, ReachInv, Reaches, StillPeer, SameNotes, Back
  <2> QED BY <2>5, <2>6, <2>7, <2>8, <2>9, <2>11 DEF SessionInv
<1> QED BY <1>1, <1>8, <1>9, PagesStay DEF PairInv

\* An answer is sent behind an offer of our own, if that has been rolled back, or is lost.
LEMMA SetAnswerPair ==
  ASSUME TypeOK, PageInv, NEW a \in Pages, NEW b \in Pages, a # b,
         PairInv(a, b), PairInv(b, a), SetAnswer(a, b)
  PROVE  PairInv(a, b)' /\ PairInv(b, a)'
<1> DEFINE p == [peer[a][b] EXCEPT !.sig = "stable", !.cur = b, !.pend = None,
                                   !.ice = peer[a][b].ice \/ peer[a][b].cur = None]
<1>1. /\ Elsewhere(a, b) /\ rolled' = rolled
      /\ lost' = IF page[a] = "in" THEN lost ELSE lost \union {<<a, b>>}
      /\ Takes(Route(b, a), Route(b, a)', "reply")
      /\ page[a] = "in" => Sends(Route(a, b), Route(a, b)', "answer")
      /\ page[a] # "in" => Route(a, b)' = Route(a, b)
      /\ Becomes(a, b, p)
      /\ peer[a][b].sig = "have-remote"
  BY SetAnswerStep
<1>2. Made(a, b) /\ peer[a][b] \in Peer /\ None \notin Pages
  BY <1>1, SignalingAssumption DEF Becomes, Made, TypeOK
<1>3. /\ p.sig = "stable" /\ p.cur = b /\ p.cands = peer[a][b].cands
      /\ p.ice <=> peer[a][b].ice \/ peer[a][b].cur = None
      /\ peer'[a][b] = p
  BY <1>1, <1>2 DEF Peer, Becomes
<1>4. /\ ~Has(a, b, "have-remote")' /\ ~Has(a, b, "have-local")' /\ Made(a, b)'
      /\ Has(a, b, "have-remote") /\ ~Has(a, b, "have-local")
      /\ Agrees(a, b, b)' /\ ~Agrees(a, b, a)' /\ ~Agrees(a, b, None)'
      /\ Knows(a, b)' /\ Touched(a, b)' /\ Touched(a, b)
      /\ Ices(a, b)' <=> (Ices(a, b) \/ Agrees(a, b, None))
      /\ Cands(a, b)' <=> Cands(a, b)
  <2>1. Made(a, b)' /\ peer[a][b].sig = "have-remote"
    BY <1>1 DEF Becomes
  <2> HIDE DEF p
  <2> QED BY <1>2, <1>3, <2>1 DEF Has, Made, Agrees, Knows, Touched, Described, Ices, Cands
<1> HIDE DEF p
<1>5. /\ \A m \in {"ask", "offer", "answer", "ice"} : In(Route(b, a)', m) <=> In(Route(b, a), m)
      /\ Replying(b, a)
      /\ Replying(b, a)' => Replying(b, a)
      /\ Once(Route(b, a), "reply") => ~Replying(b, a)'
      /\ \A m : Once(Route(b, a), m) => Once(Route(b, a)', m)
      /\ \A m, n : Ahead(Route(b, a), m, n) => Ahead(Route(b, a)', m, n)
  BY <1>1, TakesFacts DEF Replying
<1>6. /\ \A m \in {"ask", "offer", "reply", "ice"} : In(Route(a, b)', m) <=> In(Route(a, b), m)
      /\ page[a] = "in" => In(Route(a, b)', "answer")
      /\ page[a] # "in" => Route(a, b)' = Route(a, b)
      /\ \A m \in {"ask", "reply", "offer"} : Once(Route(a, b), m) => Once(Route(a, b)', m)
      /\ page[a] = "in" /\ ~In(Route(a, b), "answer") => Once(Route(a, b)', "answer")
      /\ Ahead(Route(a, b), "offer", "answer") => Ahead(Route(a, b)', "offer", "answer")
      /\ page[a] = "in" /\ ~In(Route(a, b), "offer") => Ahead(Route(a, b)', "answer", "offer")
      /\ Led(Route(a, b)) => Led(Route(a, b)')
  BY <1>1, SendsFacts
<1>7. /\ page[a] = "in" => Answering(b, a)'
      /\ page[a] # "in" => (Answering(b, a)' <=> Answering(b, a))
      /\ Offering(a, b)' <=> Offering(a, b)
      /\ Offering(b, a)' <=> Offering(b, a)
      /\ Replying(a, b)' <=> Replying(a, b)
      /\ Answering(a, b)' <=> Answering(a, b)
      /\ Asking(a, b)' <=> Asking(a, b)
      /\ Asking(b, a)' <=> Asking(b, a)
  BY <1>1, <1>5, <1>6 DEF Asking, Offering, Replying, Answering
<1>8. /\ StillPeer(b, a)
      /\ <<a, b>> \in rolled' <=> <<a, b>> \in rolled
      /\ <<b, a>> \in rolled' <=> <<b, a>> \in rolled
      /\ <<b, a>> \in lost' <=> <<b, a>> \in lost
      /\ <<a, b>> \in lost' <=> (<<a, b>> \in lost \/ page[a] # "in")
  BY <1>1, PagesStay
<1>9. /\ Mute(a) => page[a] # "in" /\ a \notin ready /\ list[a] = None /\ ~Asked(a, b)
      /\ page[a] # "in" /\ Open(a) => Mute(a)
  BY AskedIn DEF Mute, Open, Asked
<1>10. SideInv(a, b)' /\ SideInv(b, a)' /\ MuteInv(a, b)' /\ MuteInv(b, a)'
  <2>1. SideInv(a, b)'
    BY <1>1, <1>5, <1>6, <1>7, <1>8, PagesStay DEF PairInv, SideInv, StillPeer
  <2>2. SideInv(b, a)'
    BY <1>4 DEF SideInv
  <2>3. MuteInv(a, b)'
    BY <1>1, <1>6, <1>7, <1>8, <1>9, PagesStay DEF PairInv, MuteInv, StillPeer
  <2>4. MuteInv(b, a)'
    BY <1>1, <1>4, <1>5, <1>7, PagesStay DEF PairInv, MuteInv
  <2> QED BY <2>1, <2>2, <2>3, <2>4
<1>11. ASSUME Open(a), Open(b)
       PROVE  SessionInv(a, b)' /\ SessionInv(b, a)'
  <2>1. /\ ~Asking(b, a) /\ ~Offering(b, a) /\ ~Answering(b, a) /\ ~Replying(b, a)'
        /\ Asked(b, a) /\ <<a, b>> \notin lost /\ ~Agrees(b, a, b) /\ Touched(b, a)
    BY <1>5, <1>11 DEF PairInv, SideInv, SessionInv, TokenInv, PastInv
  <2>2. /\ Has(b, a, "have-local") \/ <<b, a>> \in rolled
        /\ <<b, a>> \in rolled => <<a, b>> \in rolled
        /\ Offering(a, b) \/ Replying(a, b) \/ Answering(a, b) => <<a, b>> \in rolled
        /\ <<a, b>> \notin rolled => ~Offering(a, b)
        /\ Answering(a, b) => <<b, a>> \in rolled
        /\ Agrees(b, a, a) => page[a] = "in"
    BY <1>4, <1>5, <1>9, <1>11, <2>1
       DEF PairInv, SessionInv, TokenInv, PastInv, CrossInv
  <2>3. TokenInv(a, b)' /\ TokenInv(b, a)'
    BY <1>1, <1>5, <1>6, <1>7, <1>11, <2>1, PagesStay
       DEF PairInv, SessionInv, TokenInv, Answering
  <2>4. PastInv(a, b)' /\ PastInv(b, a)'
    BY <1>1, <1>4, <1>7, <1>8, <1>11, <2>1, PagesStay
       DEF PairInv, SessionInv, PastInv, StillPeer
  <2>5. DueInv(a, b)' /\ DueInv(b, a)'
    BY <1>1, <1>4, <1>7, <1>8, <1>9, <1>11, <2>1, PagesStay
       DEF PairInv, SessionInv, DueInv, Late, StillPeer
  <2>6. /\ <<a, b>> \in rolled => Ahead(Route(a, b)', "offer", "answer")
        /\ <<a, b>> \notin rolled => Ahead(Route(a, b)', "answer", "offer")
    BY <1>6, <1>11, <2>2 DEF PairInv, SessionInv, CrossInv, Offering
  <2>7. CrossInv(a, b)'
    BY <1>4, <1>7, <1>8, <1>11, <2>1, <2>2, <2>6
       DEF PairInv, SessionInv, CrossInv, StillPeer
  <2>8. CrossInv(b, a)'
    BY <1>4, <1>5, <1>7, <1>8, <1>11, <2>1, <2>2
       DEF PairInv, SessionInv, CrossInv, StillPeer
  <2>9. Reaches(a, b) \/ Reaches(b, a)
    BY <1>4, <1>11 DEF PairInv, SessionInv, ReachInv
  <2>10. Reaches(b, a) => Reaches(b, a)'
    BY <1>1, <1>4, <1>5, <1>8, PagesStay DEF Reaches, StillPeer
  <2>11. Reaches(a, b) => Reaches(a, b)'
    BY <1>1, <1>4, <1>6, <1>8, <1>9, <1>11, PagesStay DEF PairInv, MuteInv, Reaches, StillPeer
  <2>12. ReachInv(a, b)' /\ ReachInv(b, a)'
    BY <2>9, <2>10, <2>11 DEF ReachInv
  <2> QED BY <2>3, <2>4, <2>5, <2>7, <2>8, <2>12 DEF SessionInv
<1> QED BY <1>1, <1>10, <1>11, PagesStay DEF PairInv

\* An answer is applied to the offer it answers, and none of the other's is left.
LEMMA ApplyAnswerPair ==
  ASSUME TypeOK, NEW a \in Pages, NEW b \in Pages, a # b,
         PairInv(a, b), PairInv(b, a), ApplyAnswer(a, b)
  PROVE  PairInv(a, b)' /\ PairInv(b, a)'
<1> DEFINE p == [peer[a][b] EXCEPT !.sig = "stable", !.cur = a, !.pend = None,
                                   !.hears = Head(chain[a][b]).media]
<1>1. /\ Elsewhere(a, b) /\ rolled' = rolled /\ lost' = lost
      /\ Route(a, b)' = Route(a, b)
      /\ Takes(Route(b, a), Route(b, a)', "answer")
      /\ Becomes(a, b, p)
      /\ peer[a][b].sig = "have-local"
  BY ApplyAnswerStep
<1>2. Made(a, b) /\ peer[a][b] \in Peer /\ None \notin Pages
  BY <1>1, SignalingAssumption DEF Becomes, Made, TypeOK
<1>3. /\ p.sig = "stable" /\ p.cur = a /\ p.cands = peer[a][b].cands
      /\ p.ice = peer[a][b].ice
      /\ peer'[a][b] = p
  BY <1>1, <1>2 DEF Peer, Becomes
<1>4. /\ ~Has(a, b, "have-remote")' /\ ~Has(a, b, "have-local")' /\ Made(a, b)'
      /\ Has(a, b, "have-local") /\ ~Has(a, b, "have-remote")
      /\ Agrees(a, b, a)' /\ ~Agrees(a, b, b)' /\ ~Agrees(a, b, None)'
      /\ ~(Agrees(b, a, a) /\ Agrees(b, a, b))
      /\ Knows(a, b)' /\ Touched(a, b)' /\ Touched(a, b)
      /\ Ices(a, b)' <=> Ices(a, b)
      /\ Cands(a, b)' <=> Cands(a, b)
  <2>1. Made(a, b)' /\ peer[a][b].sig = "have-local"
    BY <1>1 DEF Becomes
  <2> HIDE DEF p
  <2> QED BY <1>2, <1>3, <2>1 DEF Has, Made, Agrees, Knows, Touched, Described, Ices, Cands
<1> HIDE DEF p
<1>5. /\ \A m \in {"ask", "offer", "reply", "ice"} : In(Route(b, a)', m) <=> In(Route(b, a), m)
      /\ Answering(a, b)
      /\ Answering(a, b)' => Answering(a, b)
      /\ Once(Route(b, a), "answer") => ~Answering(a, b)'
      /\ \A m : Once(Route(b, a), m) => Once(Route(b, a)', m)
      /\ \A m, n : Ahead(Route(b, a), m, n) => Ahead(Route(b, a)', m, n)
      /\ Ahead(Route(b, a), "offer", "answer") => ~Offering(b, a)
  BY <1>1, TakesFacts DEF Answering, Offering
<1>6. /\ Offering(a, b)' <=> Offering(a, b)
      /\ Offering(b, a)' <=> Offering(b, a)
      /\ Replying(a, b)' <=> Replying(a, b)
      /\ Replying(b, a)' <=> Replying(b, a)
      /\ Answering(b, a)' <=> Answering(b, a)
      /\ Asking(a, b)' <=> Asking(a, b)
      /\ Asking(b, a)' <=> Asking(b, a)
  BY <1>1, <1>5 DEF Asking, Offering, Replying, Answering
<1>7. StillPeer(b, a) /\ SameNotes(a, b) /\ SameNotes(b, a)
  BY <1>1, PagesStay DEF SameNotes
<1>8. SideInv(a, b)' /\ SideInv(b, a)' /\ MuteInv(a, b)' /\ MuteInv(b, a)'
  <2>1. SideInv(a, b)'
    BY <1>1, <1>4, <1>6, <1>7, PagesStay DEF PairInv, SideInv, StillPeer, SameNotes
  <2>2. SideInv(b, a)'
    BY <1>4 DEF SideInv
  <2>3. MuteInv(a, b)'
    BY <1>1, <1>6, <1>7, PagesStay DEF PairInv, MuteInv, StillPeer
  <2>4. MuteInv(b, a)'
    BY <1>1, <1>4, <1>5, <1>6, PagesStay DEF PairInv, MuteInv
  <2> QED BY <2>1, <2>2, <2>3, <2>4
<1>9. ASSUME Open(a), Open(b)
      PROVE  SessionInv(a, b)' /\ SessionInv(b, a)'
  <2>1. /\ ~Asking(a, b) /\ ~Offering(a, b) /\ ~Replying(a, b) /\ ~Answering(a, b)'
        /\ Asked(a, b) /\ <<a, b>> \notin rolled /\ <<b, a>> \notin lost
        /\ Agrees(b, a, a) /\ ~Replying(b, a) /\ ~Answering(b, a)
    BY <1>4, <1>5, <1>9 DEF PairInv, SessionInv, TokenInv, PastInv, DueInv, Late, CrossInv
  <2>2. <<b, a>> \in rolled => ~Offering(b, a)
    BY <1>5, <1>9 DEF PairInv, SessionInv, CrossInv
  <2>3. TokenInv(a, b)' /\ TokenInv(b, a)'
    BY <1>1, <1>5, <1>6, <1>9, <2>1, PagesStay DEF PairInv, SessionInv, TokenInv
  <2>4. PastInv(a, b)' /\ PastInv(b, a)'
    BY <1>1, <1>4, <1>6, <1>7, <1>9, <2>1, PagesStay
       DEF PairInv, SessionInv, PastInv, StillPeer, SameNotes
  <2>5. DueInv(a, b)' /\ DueInv(b, a)'
    BY <1>1, <1>4, <1>6, <1>7, <1>9, <2>1, PagesStay
       DEF PairInv, SessionInv, DueInv, Late, StillPeer, SameNotes
  <2>6. CrossInv(a, b)' /\ CrossInv(b, a)'
    BY <1>1, <1>4, <1>5, <1>6, <1>7, <1>9, <2>1, <2>2
       DEF PairInv, SessionInv, CrossInv, StillPeer, SameNotes
  <2>7. ReachInv(a, b)' /\ ReachInv(b, a)'
    BY <1>1, <1>4, <1>5, <1>7, <1>9, PagesStay
       DEF PairInv, SessionInv, ReachInv, Reaches, StillPeer, SameNotes
  <2> QED BY <2>3, <2>4, <2>5, <2>6, <2>7 DEF SessionInv
<1> QED BY <1>1, <1>8, <1>9, PagesStay DEF PairInv

\* A candidate is added, unless the answer before it has been lost.
LEMMA AddIcePair ==
  ASSUME TypeOK, NEW a \in Pages, NEW b \in Pages, a # b,
         PairInv(a, b), PairInv(b, a), AddIce(a, b)
  PROVE  PairInv(a, b)' /\ PairInv(b, a)'
<1> DEFINE p == [peer[a][b] EXCEPT !.cands = peer[a][b].cands \/ Described(a, b)]
<1>1. /\ Elsewhere(a, b) /\ rolled' = rolled /\ lost' = lost
      /\ Route(a, b)' = Route(a, b)
      /\ Takes(Route(b, a), Route(b, a)', "ice")
      /\ Becomes(a, b, p)
  BY AddIceStep
<1>2. Made(a, b) /\ Made(a, b)' /\ peer[a][b] \in Peer /\ peer'[a][b] = p
  BY <1>1 DEF Becomes, Made, TypeOK
<1>3. /\ p.sig = peer[a][b].sig /\ p.cur = peer[a][b].cur /\ p.ice = peer[a][b].ice
      /\ p.cands <=> peer[a][b].cands \/ Described(a, b)
  BY <1>2 DEF Peer
<1> HIDE DEF p
<1>4. /\ \A s : (Has(a, b, s)' <=> Has(a, b, s)) /\ (Agrees(a, b, s)' <=> Agrees(a, b, s))
      /\ (Knows(a, b)' <=> Knows(a, b)) /\ (Touched(a, b)' <=> Touched(a, b))
      /\ Ices(a, b)' <=> Ices(a, b)
      /\ Cands(a, b)' <=> (Cands(a, b) \/ Knows(a, b))
  BY <1>2, <1>3 DEF Has, Made, Agrees, Knows, Touched, Described, Ices, Cands
<1>5. /\ \A m \in {"ask", "offer", "reply", "answer"} : In(Route(b, a)', m) <=> In(Route(b, a), m)
      /\ In(Route(b, a), "ice") /\ ~Led(Route(b, a))
      /\ \A m : Once(Route(b, a), m) => Once(Route(b, a)', m)
      /\ \A m, n : Ahead(Route(b, a), m, n) => Ahead(Route(b, a)', m, n)
  BY <1>1, TakesFacts
<1>6. /\ Offering(a, b)' <=> Offering(a, b)
      /\ Offering(b, a)' <=> Offering(b, a)
      /\ Replying(a, b)' <=> Replying(a, b)
      /\ Replying(b, a)' <=> Replying(b, a)
      /\ Answering(a, b)' <=> Answering(a, b)
      /\ Answering(b, a)' <=> Answering(b, a)
      /\ Asking(a, b)' <=> Asking(a, b)
      /\ Asking(b, a)' <=> Asking(b, a)
  BY <1>1, <1>5 DEF Asking, Offering, Replying, Answering
<1>7. StillPeer(b, a) /\ SameNotes(a, b) /\ SameNotes(b, a)
  BY <1>1, PagesStay DEF SameNotes
<1>8. Open(a) => Knows(a, b) \/ <<b, a>> \in lost
  BY <1>5 DEF PairInv, SideInv
<1>9. SideInv(a, b)' /\ SideInv(b, a)' /\ MuteInv(a, b)' /\ MuteInv(b, a)'
  <2>1. SideInv(a, b)'
    BY <1>1, <1>4, <1>6, <1>7, PagesStay DEF PairInv, SideInv, StillPeer, SameNotes
  <2>2. SideInv(b, a)'
    BY <1>1, <1>2, <1>4, <1>6, <1>7, <1>8, PagesStay DEF PairInv, SideInv, SameNotes
  <2>3. MuteInv(a, b)'
    BY <1>1, <1>6, <1>7, PagesStay DEF PairInv, MuteInv, StillPeer
  <2>4. MuteInv(b, a)'
    BY <1>1, <1>5, PagesStay DEF PairInv, MuteInv
  <2> QED BY <2>1, <2>2, <2>3, <2>4
<1>10. ASSUME Open(a), Open(b)
       PROVE  SessionInv(a, b)' /\ SessionInv(b, a)'
  <2>1. TokenInv(a, b)' /\ TokenInv(b, a)'
    BY <1>1, <1>5, <1>6, <1>10, PagesStay DEF PairInv, SessionInv, TokenInv
  <2>2. PastInv(a, b)' /\ PastInv(b, a)'
    BY <1>1, <1>2, <1>4, <1>6, <1>7, <1>10, PagesStay
       DEF PairInv, SessionInv, PastInv, StillPeer, SameNotes
  <2>3. DueInv(a, b)' /\ DueInv(b, a)'
    BY <1>1, <1>4, <1>6, <1>7, <1>10, PagesStay
       DEF PairInv, SessionInv, DueInv, Late, StillPeer, SameNotes
  <2>4. CrossInv(a, b)' /\ CrossInv(b, a)'
    BY <1>1, <1>4, <1>5, <1>6, <1>7, <1>10
       DEF PairInv, SessionInv, CrossInv, StillPeer, SameNotes
  <2>5. ReachInv(a, b)' /\ ReachInv(b, a)'
    BY <1>1, <1>4, <1>7, <1>8, <1>10, PagesStay
       DEF PairInv, SessionInv, ReachInv, Reaches, StillPeer, SameNotes
  <2> QED BY <2>1, <2>2, <2>3, <2>4, <2>5 DEF SessionInv
<1> QED BY <1>1, <1>9, <1>10, PagesStay DEF PairInv

\* A candidate is sent behind the offer or answer it belongs to, or dropped.
LEMMA GatherPair ==
  ASSUME TypeOK, PageInv, NEW a \in Pages, NEW b \in Pages, a # b,
         PairInv(a, b), PairInv(b, a), Gather(a, b)
  PROVE  Elsewhere(a, b) /\ PairInv(a, b)' /\ PairInv(b, a)'
<1> DEFINE p == [peer[a][b] EXCEPT !.ice = FALSE]
<1>1. /\ Elsewhere(a, b) /\ rolled' = rolled /\ lost' = lost
      /\ Similar(Route(b, a), Route(b, a)')
      /\ page[a] = "in" /\ a \in ready => Sends(Route(a, b), Route(a, b)', "ice")
      /\ page[a] # "in" \/ a \notin ready => Route(a, b)' = Route(a, b)
      /\ Becomes(a, b, p)
      /\ peer[a][b].ice
  <2>1. \A x, y \in Pages : {x, y} # {a, b} => x # a \/ y # b
    OBVIOUS
  <2> QED BY <2>1, GatherStep, AlikeIsSimilar DEF Elsewhere, notes
<1>2. Made(a, b) /\ Made(a, b)' /\ peer[a][b] \in Peer /\ peer'[a][b] = p
  BY <1>1 DEF Becomes, Made, TypeOK
<1>3. p.sig = peer[a][b].sig /\ p.cur = peer[a][b].cur /\ ~p.ice /\ p.cands = peer[a][b].cands
  BY <1>2 DEF Peer
<1> HIDE DEF p
<1>4. /\ \A s : (Has(a, b, s)' <=> Has(a, b, s)) /\ (Agrees(a, b, s)' <=> Agrees(a, b, s))
      /\ (Knows(a, b)' <=> Knows(a, b)) /\ (Touched(a, b)' <=> Touched(a, b))
      /\ Ices(a, b) /\ ~Ices(a, b)'
      /\ Cands(a, b)' <=> Cands(a, b)
  BY <1>1, <1>2, <1>3 DEF Has, Made, Agrees, Knows, Touched, Described, Ices, Cands
<1>5. /\ \A m \in {"ask", "offer", "reply", "answer", "ice"} :
           (In(Route(b, a)', m) <=> In(Route(b, a), m)) /\ (Once(Route(b, a), m) => Once(Route(b, a)', m))
      /\ \A m, n \in {"offer", "answer"} : Ahead(Route(b, a), m, n) => Ahead(Route(b, a)', m, n)
      /\ Led(Route(b, a)) => Led(Route(b, a)')
  BY <1>1 DEF Similar
<1>6. /\ \A m \in {"ask", "offer", "reply", "answer"} :
           (In(Route(a, b)', m) <=> In(Route(a, b), m)) /\ (Once(Route(a, b), m) => Once(Route(a, b)', m))
      /\ \A m, n \in {"offer", "answer"} : Ahead(Route(a, b), m, n) => Ahead(Route(a, b)', m, n)
      /\ page[a] # "in" => Route(a, b)' = Route(a, b)
      /\ page[a] = "in" /\ a \in ready => In(Route(a, b)', "ice")
      /\ In(Route(a, b), "ice") => In(Route(a, b)', "ice")
      /\ Led(Route(a, b)) /\ (page[a] = "in" => In(Route(a, b), "offer") \/ In(Route(a, b), "answer"))
           => Led(Route(a, b)')
  BY <1>1, SendsFacts
<1>7. /\ Offering(a, b)' <=> Offering(a, b)
      /\ Offering(b, a)' <=> Offering(b, a)
      /\ Replying(a, b)' <=> Replying(a, b)
      /\ Replying(b, a)' <=> Replying(b, a)
      /\ Answering(a, b)' <=> Answering(a, b)
      /\ Answering(b, a)' <=> Answering(b, a)
      /\ Asking(a, b)' <=> Asking(a, b)
      /\ Asking(b, a)' <=> Asking(b, a)
  BY <1>5, <1>6 DEF Asking, Offering, Replying, Answering
<1>8. StillPeer(b, a) /\ SameNotes(a, b) /\ SameNotes(b, a)
  BY <1>1, PagesStay DEF SameNotes
<1>9. /\ Mute(a) => page[a] # "in"
      /\ page[a] = "in" => Open(a)
      /\ a \in ready /\ Open(a) => page[a] = "in"
  BY DEF Mute, Open, PageInv
<1>10. SideInv(a, b)' /\ SideInv(b, a)' /\ MuteInv(a, b)' /\ MuteInv(b, a)'
  <2>1. SideInv(a, b)'
    BY <1>1, <1>4, <1>6, <1>7, <1>8, <1>9, PagesStay DEF PairInv, SideInv, StillPeer, SameNotes
  <2>2. SideInv(b, a)'
    BY <1>1, <1>2, <1>4, <1>5, <1>7, <1>8, PagesStay DEF PairInv, SideInv, StillPeer, SameNotes
  <2>3. MuteInv(a, b)'
    BY <1>1, <1>6, <1>7, <1>8, <1>9, PagesStay DEF PairInv, MuteInv, StillPeer
  <2>4. MuteInv(b, a)'
    BY <1>1, <1>4, <1>5, <1>7, PagesStay DEF PairInv, MuteInv
  <2> QED BY <2>1, <2>2, <2>3, <2>4
<1>11. ASSUME Open(a), Open(b)
       PROVE  SessionInv(a, b)' /\ SessionInv(b, a)'
  <2>1. TokenInv(a, b)' /\ TokenInv(b, a)'
    BY <1>1, <1>5, <1>6, <1>7, <1>11, PagesStay DEF PairInv, SessionInv, TokenInv
  <2>2. PastInv(a, b)' /\ PastInv(b, a)'
    BY <1>1, <1>2, <1>4, <1>7, <1>8, <1>11, PagesStay
       DEF PairInv, SessionInv, PastInv, StillPeer, SameNotes
  <2>3. DueInv(a, b)' /\ DueInv(b, a)'
    BY <1>1, <1>4, <1>7, <1>8, <1>11, PagesStay
       DEF PairInv, SessionInv, DueInv, Late, StillPeer, SameNotes
  <2>4. CrossInv(a, b)' /\ CrossInv(b, a)'
    BY <1>1, <1>4, <1>5, <1>6, <1>7, <1>8, <1>11
       DEF PairInv, SessionInv, CrossInv, StillPeer, SameNotes
  <2>5. ReachInv(a, b)' /\ ReachInv(b, a)'
    BY <1>1, <1>4, <1>5, <1>6, <1>8, <1>9, <1>11, PagesStay
       DEF PairInv, SessionInv, ReachInv, Reaches, StillPeer, SameNotes
  <2> QED BY <2>1, <2>2, <2>3, <2>4, <2>5 DEF SessionInv
<1> QED BY <1>1, <1>10, <1>11, PagesStay DEF PairInv

\* An operation, and what a page reports, keep every pair.
LEMMA PerformPairs ==
  ASSUME TypeOK, PageInv, SelfInv, PairsInv, NEW a \in Pages, NEW b \in Pages,
         Perform(a, b) \/ Gather(a, b)
  PROVE  PairsInv'
<1>1. a # b
  <2>1. peer[a][b] # None
    BY PerformElems, GatherElems
  <2> QED BY <2>1 DEF SelfInv
<1>2. PairInv(a, b) /\ PairInv(b, a)
  BY <1>1 DEF PairsInv
<1> DEFINE Fine ==
  /\ Elsewhere(a, b) /\ PairInv(a, b)' /\ PairInv(b, a)'
  /\ \A x, y \in Pages : x # a \/ y # b => SameNotes(x, y)
<1>3. Fine => PairsInv'
  BY OthersCalm
<1>4. UNCHANGED <<rolled, lost>> => \A x, y \in Pages : SameNotes(x, y)
  BY DEF SameNotes
<1> HIDE DEF Fine
<1>5. ASSUME CreateOffer(a, b) \/ CreateAnswer(a, b) PROVE Fine
  <2>1. /\ Elsewhere(a, b) /\ UNCHANGED <<peer, rolled, lost>>
        /\ Route(a, b)' = Route(a, b) /\ Similar(Route(b, a), Route(b, a)')
    BY <1>1, <1>5, CreateStep
  <2>2. SamePeer(a, b) /\ SamePeer(b, a)
    BY <2>1, PeerStays
  <2>3. Similar(Route(a, b), Route(a, b)')
    BY <2>1 DEF Similar
  <2>4. Rests(a) /\ Rests(b)
    BY <1>1, <2>1, PagesStay
  <2>5. SamePair(a, b) /\ SamePair(b, a)
    BY <1>4, <2>1, <2>2, <2>3 DEF SamePair
  <2>6. PairInv(a, b)' /\ PairInv(b, a)'
    BY <1>2, <2>4, <2>5, Calm
  <2> QED BY <1>4, <2>1, <2>6 DEF Fine
<1>6. ASSUME SetOffer(a, b) PROVE Fine
  <2>1. Elsewhere(a, b) /\ UNCHANGED <<rolled, lost>>
    BY <1>1, <1>6, SetOfferStep
  <2> QED BY <1>1, <1>2, <1>4, <1>6, <2>1, SetOfferPair DEF Fine
<1>7. ASSUME Rejects(a, b, "setOffer", {"have-remote"}) PROVE Fine
  <2>1. Elsewhere(a, b) /\ UNCHANGED <<rolled, lost>>
    BY <1>1, <1>7, RejectStep
  <2> QED BY <1>1, <1>2, <1>4, <1>7, <2>1, RejectOfferPair DEF Fine
<1>8. ASSUME SetRemote(a, b) PROVE Fine
  <2>1. /\ Elsewhere(a, b) /\ lost' = lost
        /\ rolled' = rolled \/ rolled' = rolled \union {<<a, b>>}
    BY <1>1, <1>8, SetRemoteStep
  <2>2. \A x, y \in Pages : x # a \/ y # b => SameNotes(x, y)
    BY <2>1 DEF SameNotes
  <2> QED BY <1>1, <1>2, <1>8, <2>1, <2>2, SetRemotePair DEF Fine
<1>9. ASSUME NEW op \in {"createAnswer", "setAnswer"},
             Rejects(a, b, op, {"stable", "have-local"})
      PROVE  Fine
  <2>1. Elsewhere(a, b) /\ UNCHANGED <<rolled, lost>>
    BY <1>1, <1>9, RejectStep
  <2> QED BY <1>1, <1>2, <1>4, <1>9, <2>1, RejectReplyPair DEF Fine
<1>10. ASSUME SetAnswer(a, b) PROVE Fine
  <2>1. /\ Elsewhere(a, b) /\ rolled' = rolled
        /\ lost' = lost \/ lost' = lost \union {<<a, b>>}
    BY <1>1, <1>10, SetAnswerStep
  <2>2. \A x, y \in Pages : x # a \/ y # b => SameNotes(x, y)
    BY <2>1 DEF SameNotes
  <2> QED BY <1>1, <1>2, <1>10, <2>1, <2>2, SetAnswerPair DEF Fine
<1>11. ASSUME ApplyAnswer(a, b) PROVE Fine
  <2>1. Elsewhere(a, b) /\ UNCHANGED <<rolled, lost>>
    BY <1>1, <1>11, ApplyAnswerStep
  <2> QED BY <1>1, <1>2, <1>4, <1>11, <2>1, ApplyAnswerPair DEF Fine
<1>12. ASSUME Rejects(a, b, "applyAnswer", {"stable", "have-remote"}) PROVE Fine
  <2>1. Elsewhere(a, b) /\ UNCHANGED <<rolled, lost>>
    BY <1>1, <1>12, RejectStep
  <2> QED BY <1>1, <1>2, <1>4, <1>12, <2>1, RejectAnswerPair DEF Fine
<1>13. ASSUME AddIce(a, b) PROVE Fine
  <2>1. Elsewhere(a, b) /\ UNCHANGED <<rolled, lost>>
    BY <1>1, <1>13, AddIceStep
  <2> QED BY <1>1, <1>2, <1>4, <1>13, <2>1, AddIcePair DEF Fine
<1>14. ASSUME Gather(a, b) PROVE Fine
  <2>1. UNCHANGED <<rolled, lost>>
    BY <1>14, GatherStep DEF notes
  <2> QED BY <1>1, <1>2, <1>4, <1>14, <2>1, GatherPair DEF Fine
<1> QED BY <1>3, <1>5, <1>6, <1>7, <1>8, <1>9, <1>10, <1>11, <1>12, <1>13, <1>14 DEF Perform

\* Nothing between any two pages changes.
LEMMA AllCalm ==
  ASSUME PairsInv, \A x \in Pages : Rests(x),
         \A x, y \in Pages : x # y => SamePair(x, y)
  PROVE  PairsInv'
<1> SUFFICES ASSUME NEW a \in Pages, NEW b \in Pages, a # b
             PROVE  PairInv(a, b)'
  BY DEF PairsInv
<1>1. PairInv(a, b)
  BY DEF PairsInv
<1> QED BY <1>1, Calm

\* The list comes before the offers, and has whoever has offered.
LEMMA ServePairs ==
  ASSUME TypeOK, PageInv, PairsInv, NEW c \in Pages, ServeList(c)
  PROVE  PairsInv'
<1>1. /\ page[c] = "in" /\ list[c] = None /\ c \notin offered
      /\ list' = [list EXCEPT ![c] = {b \in rows \ {c} : role[b] = "participant"}]
      /\ UNCHANGED <<role, page, rows, bound, media, rtc, wires, notes>>
  BY DEF ServeList, PageInv
<1>2. list \in [Pages -> (SUBSET Pages) \union {None}]
  BY DEF TypeOK
<1>3. /\ list'[c] = {b \in rows \ {c} : role[b] = "participant"}
      /\ \A x \in Pages : x # c => list'[x] = list[x]
  BY <1>1, <1>2
<1>4. page' = page /\ role' = role /\ ready' = ready /\ offered' = offered
  BY <1>1 DEF rtc, notes
<1>5. \A x \in Pages : Stands(x)
  BY <1>4 DEF Stands, Open, Mute
<1>6. \A x, y \in Pages : x # y => SamePair(x, y)
  <2>1. rolled' = rolled /\ lost' = lost /\ peer' = peer
    BY <1>1 DEF rtc, notes
  <2>2. \A x, y \in Pages : x # y => Alike(Route(x, y), Route(x, y)')
    BY JoiningStep
  <2> QED BY <2>1, <2>2, PeerStays, AlikeIsSimilar DEF SamePair, SameNotes
<1>7. \A x, y \in Pages : Asked(x, y)' <=> Asked(x, y)
  BY <1>1, <1>3, <1>4 DEF Asked
<1> SUFFICES ASSUME NEW a \in Pages, NEW b \in Pages, a # b
             PROVE  PairInv(a, b)'
  BY DEF PairsInv
<1>8. PairInv(a, b)
  BY DEF PairsInv
<1>9. ASSUME Open(a), Open(b), Has(a, b, "have-local"), role[a] = "participant", Late(b, a)
      PROVE  Late(b, a)'
  <2>1. Asked(a, b)
    BY <1>8, <1>9 DEF PairInv, SessionInv, PastInv
  <2>2. a \in rows
    BY <1>9, <2>1, AskedIn DEF PageInv, Open
  <2>3. CASE b = c
    BY <1>1, <1>3, <1>4, <1>9, <2>2, <2>3 DEF Late
  <2>4. CASE b # c
    <3>1. /\ Asking(b, a)' <=> Asking(b, a)
          /\ Offering(b, a)' <=> Offering(b, a)
      BY <1>6 DEF SamePair, Similar, Asking, Offering
    <3> QED BY <1>3, <1>4, <1>9, <2>4, <3>1 DEF Late
  <2> QED BY <2>3, <2>4
<1>10. SamePair(a, b) /\ SamePair(b, a)
  BY <1>6
<1> QED BY <1>5, <1>7, <1>8, <1>9, <1>10, CalmPair

\* What a page does before it offers, or when it is told of its join, is nothing to the others.
LEMMA JoiningPairs ==
  ASSUME TypeOK, PageInv, PairsInv, NEW a \in Pages,
         \/ AskJoin(a) \/ SaveRow(a) \/ Acknowledge(a) \/ TimeOut(a) \/ Depart(a)
         \/ Answer(a, "granted") \/ Answer(a, "denied") \/ TakeAck(a)
  PROVE  PairsInv'
<1>1. /\ UNCHANGED <<role, rtc, notes>>
      /\ \A x, y \in Pages : x # y => Alike(Route(x, y), Route(x, y)')
  BY JoiningStep, TakeAckStep
<1>2. peer' = peer /\ rolled' = rolled /\ lost' = lost /\ ready' = ready /\ offered' = offered
  BY <1>1 DEF rtc, notes
<1>3. \A x, y \in Pages : x # y => SamePair(x, y)
  BY <1>1, <1>2, PeerStays, AlikeIsSimilar DEF SamePair, SameNotes
<1>4. list' = list /\ \A x \in Pages : (Open(x)' <=> Open(x)) /\ (Mute(x)' => Mute(x))
  <2>1. page \in [Pages -> {"new", "joining", "failed", "in", "closed"}]
    BY DEF TypeOK
  <2>2. CASE AskJoin(a)
    BY <2>1, <2>2 DEF AskJoin, Open, Mute
  <2>3. CASE TimeOut(a)
    BY <2>1, <2>3 DEF TimeOut, Open, Mute
  <2>4. CASE TakeAck(a)
    BY <2>1, <2>4 DEF TakeAck, Open, Mute
  <2>5. CASE SaveRow(a) \/ Acknowledge(a) \/ Depart(a) \/ Answer(a, "granted") \/ Answer(a, "denied")
    BY <2>5 DEF SaveRow, Acknowledge, Depart, Answer, Open, Mute
  <2> QED BY <2>2, <2>3, <2>4, <2>5
<1>5. \A x \in Pages : Rests(x)
  BY <1>1, <1>2, <1>4 DEF Rests, Stands
<1> QED BY <1>3, <1>5, AllCalm

\* Offers and the others are handed to the peers: what is dropped has been answered for.
LEMMA TakePairs ==
  ASSUME TypeOK, PageInv, SelfInv, PairsInv, NEW a \in Pages, TakeOffer(a) \/ TakeOther(a)
  PROVE  PairsInv'
<1>1. UNCHANGED <<joining, ready, offered, rolled, lost>>
  BY TakeOfferStep, TakeOtherStep DEF notes
<1>2. \A x \in Pages : Rests(x)
  BY <1>1 DEF Rests, Stands, Open, Mute, joining
<1>3. \A x, y \in Pages : SameNotes(x, y)
  BY <1>1 DEF SameNotes
<1>4. CASE TakeOffer(a)
  <2>1. PICK b \in Pages :
          /\ \A x, y \in Pages : x # a \/ y # b => peer'[x][y] = peer[x][y]
          /\ peer'[a][b] = PeerOf(a, b, a \in stream)
    BY <1>4, TakeOfferStep
  <2>2. \A x, y \in Pages : SamePeer(x, y)
    BY <2>1, PeerStays, PeerIsMade, SignalingAssumption
  <2>3. \A x, y \in Pages : x # y => Alike(Route(x, y), Route(x, y)')
    BY <1>4, TakeOfferStep
  <2> QED BY <1>2, <1>3, <2>2, <2>3, AlikeIsSimilar, AllCalm DEF SamePair
<1>5. CASE TakeOther(a)
  <2>1. PICK b \in Pages :
          /\ b # a
          /\ \A x, y \in Pages : x # y /\ (x # b \/ y # a \/ Made(a, b)) =>
               Alike(Route(x, y), Route(x, y)')
          /\ ~Made(a, b) => \E k \in {"answer", "ice"} : Takes(Route(b, a), Route(b, a)', k)
    BY <1>5, TakeOtherStep
  <2>2. \A x, y \in Pages : SamePeer(x, y) /\ StillPeer(x, y)
    <3>1. peer' = peer
      BY <1>5, TakeOtherStep
    <3> QED BY <3>1, PeerStays
  <2>3. CASE Made(a, b)
    BY <1>2, <1>3, <2>1, <2>2, <2>3, AlikeIsSimilar, AllCalm DEF SamePair
  <2>4. CASE ~Made(a, b)
    <3>1. PICK k \in {"answer", "ice"} : Takes(Route(b, a), Route(b, a)', k)
      BY <2>1, <2>4
    <3>2. /\ In(Route(b, a), k)
          /\ \A m : m # k => (In(Route(b, a)', m) <=> In(Route(b, a), m))
          /\ \A m : In(Route(b, a)', m) => In(Route(b, a), m)
          /\ k = "ice" => ~Led(Route(b, a))
      BY <3>1, TakesFacts
    <3>3. PairInv(a, b) /\ PairInv(b, a)
      BY <2>1 DEF PairsInv
    <3>4. ~Knows(a, b) /\ ~Touched(a, b)
      BY <2>4 DEF Knows, Touched, Has
    <3>5. Open(a)
      BY <1>5 DEF TakeOther, PageInv
    <3>6. k = "ice" /\ <<b, a>> \in lost
      BY <3>2, <3>3, <3>4, <3>5 DEF PairInv, SideInv, Answering
    <3>7. ~Open(b)
      BY <3>3, <3>4, <3>5, <3>6 DEF PairInv, SessionInv, PastInv, DueInv
    <3>8. Similar(Route(a, b), Route(a, b)')
      BY <2>1, AlikeIsSimilar
    <3>9. /\ Offering(a, b)' <=> Offering(a, b)
          /\ Replying(a, b)' <=> Replying(a, b)
          /\ Answering(a, b)' <=> Answering(a, b)
          /\ Offering(b, a)' <=> Offering(b, a)
          /\ Answering(b, a)' <=> Answering(b, a)
      BY <3>2, <3>6, <3>8 DEF Similar, Offering, Replying, Answering
    <3>10. SideInv(b, a)'
      BY <1>2, <1>3, <2>2, <3>3, <3>6, <3>9
         DEF PairInv, SideInv, Rests, Stands, StillPeer, SameNotes
    <3>11. SideInv(a, b)' /\ MuteInv(b, a)' /\ ~Open(b)'
      BY <1>2, <3>7 DEF SideInv, MuteInv, Rests, Stands, Open, Mute
    <3>12. MuteInv(a, b)'
      BY <1>2, <2>2, <3>3, <3>8, <3>9
         DEF PairInv, MuteInv, Rests, Stands, StillPeer, Similar
    <3>13. PairInv(a, b)' /\ PairInv(b, a)'
      BY <3>10, <3>11, <3>12 DEF PairInv
    <3>14. ASSUME NEW x \in Pages, NEW y \in Pages, x # y, {x, y} # {a, b}
           PROVE  PairInv(x, y)'
      <4>1. Alike(Route(x, y), Route(x, y)') /\ Alike(Route(y, x), Route(y, x)')
        BY <2>1, <3>14
      <4>2. SamePair(x, y) /\ SamePair(y, x)
        BY <1>3, <2>2, <4>1, AlikeIsSimilar DEF SamePair
      <4> QED BY <1>2, <3>14, <4>2, Calm DEF PairsInv
    <3>15. \A x, y \in Pages : {x, y} = {a, b} /\ x # y => (x = a /\ y = b) \/ (x = b /\ y = a)
      OBVIOUS
    <3> QED BY <3>13, <3>14, <3>15 DEF PairsInv
  <2> QED BY <2>3, <2>4
<1> QED BY <1>4, <1>5

\* A signal reaches its page, or the page has gone.
LEMMA RelayPairs ==
  ASSUME TypeOK, PageInv, SelfInv, PairsInv, NEW c \in Pages, Relay(c)
  PROVE  PairsInv'
<1>1. /\ UNCHANGED <<joining, rtc, notes>>
      /\ \A x, y \in Pages : Shrinks(Route(x, y), Route(x, y)')
      /\ \A x, y \in Pages : x # y =>
           Alike(Route(x, y), Route(x, y)') \/ (x = c /\ page[y] = "closed")
  BY RelayStep
<1>2. \A x \in Pages : Rests(x)
  BY <1>1 DEF Rests, Stands, Open, Mute, joining, rtc, notes
<1>3. \A x, y \in Pages : SameNotes(x, y) /\ SamePeer(x, y) /\ StillPeer(x, y)
  BY <1>1, PeerStays DEF SameNotes, rtc, notes
<1>4. ASSUME NEW x \in Pages, NEW y \in Pages, x # y,
             Alike(Route(x, y), Route(x, y)'), Alike(Route(y, x), Route(y, x)')
      PROVE  PairInv(x, y)'
  BY <1>2, <1>3, <1>4, AlikeIsSimilar, Calm DEF SamePair, PairsInv
<1>5. ASSUME NEW y \in Pages, y # c, page[y] = "closed"
      PROVE  PairInv(c, y)' /\ PairInv(y, c)'
  <2>1. ~Open(y)' /\ Stands(c)
    BY <1>2, <1>5 DEF Rests, Stands, Open
  <2>2. Similar(Route(y, c), Route(y, c)') /\ Shrinks(Route(c, y), Route(c, y)')
    BY <1>1, <1>5, AlikeIsSimilar
  <2>3. PairInv(c, y) /\ PairInv(y, c)
    BY <1>5 DEF PairsInv
  <2>4. Cands(y, c)' => Cands(y, c)
    BY <1>3 DEF StillPeer
  <2> QED BY <1>3, <2>1, <2>2, <2>3, <2>4, Gone
<1> QED BY <1>1, <1>4, <1>5 DEF PairsInv

\* A page goes.
LEMMA ClosePairs ==
  ASSUME TypeOK, PairsInv, NEW c \in Pages, Close(c)
  PROVE  PairsInv'
<1>1. /\ UNCHANGED <<role, list, notes>>
      /\ page' = [page EXCEPT ![c] = "closed"] /\ page[c] \notin {"new", "closed"}
      /\ ready' = ready \ {c}
      /\ \A x, y \in Pages : x # c => peer'[x][y] = peer[x][y]
      /\ \A y \in Pages : peer'[c][y] = None
      /\ \A x, y \in Pages : y # c => Alike(Route(x, y), Route(x, y)')
      /\ \A x, y \in Pages : x # y => Shrinks(Route(x, y), Route(x, y)')
  BY CloseStep
<1>2. page'[c] = "closed" /\ \A x \in Pages : x # c => page'[x] = page[x]
  BY <1>1 DEF TypeOK
<1>3. ~Open(c)' /\ \A x \in Pages : x # c => Rests(x)
  BY <1>1, <1>2 DEF Rests, Stands, Open, Mute, notes
<1>4. \A x, y \in Pages : SameNotes(x, y) /\ (x # c => SamePeer(x, y))
  BY <1>1, PeerStays DEF SameNotes, notes
<1>5. ASSUME NEW x \in Pages, NEW y \in Pages, x # y, x # c, y # c
      PROVE  PairInv(x, y)'
  BY <1>1, <1>3, <1>4, <1>5, AlikeIsSimilar, Calm DEF SamePair, PairsInv
<1>6. ASSUME NEW y \in Pages, y # c
      PROVE  PairInv(c, y)' /\ PairInv(y, c)'
  <2>1. Similar(Route(c, y), Route(c, y)') /\ Shrinks(Route(y, c), Route(y, c)')
    BY <1>1, <1>6, AlikeIsSimilar
  <2>2. PairInv(c, y) /\ PairInv(y, c)
    BY <1>6 DEF PairsInv
  <2>3. ~Cands(c, y)'
    BY <1>1 DEF Cands, Made
  <2>4. Stands(y) /\ SamePeer(y, c) /\ SameNotes(c, y)
    BY <1>3, <1>4, <1>6 DEF Rests
  <2> QED BY <1>3, <2>1, <2>2, <2>3, <2>4, Gone
<1> QED BY <1>5, <1>6 DEF PairsInv

\* Sharing and a lost connection are nothing to the negotiation.
LEMMA SharePairs ==
  ASSUME TypeOK, PairsInv, NEW c \in Pages,
         ShareScreen(c) \/ \E b \in Pages : ConnectionLost(c, b)
  PROVE  PairsInv'
<1>1. UNCHANGED <<joining, ready, chain, wires, notes>>
  BY DEF ShareScreen, ConnectionLost
<1>2. \A x \in Pages : Rests(x)
  BY <1>1 DEF Rests, Stands, Open, Mute, joining, notes
<1>3. \A x, y \in Pages : SameNotes(x, y) /\ Similar(Route(x, y), Route(x, y)')
  BY <1>1, RouteStays, AlikeIsSimilar DEF SameNotes, wires, notes
<1>4. ASSUME NEW x \in Pages, NEW y \in Pages PROVE SamePeer(x, y)
  <2>1. CASE peer'[x][y] = peer[x][y]
    BY <2>1, PeerStays
  <2>2. CASE peer'[x][y] # peer[x][y]
    <3>1. ShareScreen(c)
      BY <2>2 DEF ConnectionLost
    <3>2. peer[x][y] # None /\ peer'[x][y] = [peer[x][y] EXCEPT !.tracks = TRUE]
      BY <2>2, <3>1, ShareTypes
    <3>3. peer[x][y] \in Peer
      BY <3>2 DEF TypeOK
    <3>4. /\ peer'[x][y].sig = peer[x][y].sig /\ peer'[x][y].cur = peer[x][y].cur
          /\ peer'[x][y].ice = peer[x][y].ice /\ peer'[x][y].cands = peer[x][y].cands
          /\ peer'[x][y] \in Peer
      BY <3>2, <3>3 DEF Peer
    <3>5. peer'[x][y] # None
      BY <3>4, SignalingAssumption
    <3> QED BY <3>2, <3>4, <3>5
        DEF SamePeer, Made, Has, Agrees, Knows, Described, Ices, Cands
  <2> QED BY <2>1, <2>2
<1> QED BY <1>2, <1>3, <1>4, AllCalm DEF SamePair

\* Offers begin: nothing has come of them before, and those on the list get one.
LEMMA ConnectPair ==
  ASSUME TypeOK, PageInv, NEW a \in Pages, NEW b \in Pages, a # b,
         PairInv(a, b), PairInv(b, a), Connect(a), b \in list[a]
  PROVE  PairInv(a, b)' /\ PairInv(b, a)'
<1>1. /\ UNCHANGED <<joining, rolled, lost>>
      /\ list[a] # None /\ a \notin offered
      /\ offered' = offered \union {a} /\ ready' = ready \union {a}
      /\ peer'[b][a] = peer[b][a] /\ Alike(Route(a, b), Route(a, b)')
      /\ peer'[a][b] = PeerOf(a, b, role[a] = "participant")
      /\ Puts(Route(b, a), Route(b, a)', "ask")
  BY ConnectStep
<1>2. page' = page /\ list' = list /\ role' = role
  BY <1>1 DEF joining
<1>3. SamePeer(a, b) /\ StillPeer(b, a) /\ SameNotes(a, b) /\ SameNotes(b, a)
  BY <1>1, PeerStays, PeerIsMade, SignalingAssumption DEF SameNotes
<1>4. /\ \A m \in {"offer", "reply", "answer", "ice"} : In(Route(b, a)', m) <=> In(Route(b, a), m)
      /\ Asking(a, b)'
      /\ ~Asking(a, b) => Once(Route(b, a)', "ask")
      /\ \A m \in {"offer", "reply", "answer"} : Once(Route(b, a), m) => Once(Route(b, a)', m)
      /\ \A m, n \in {"offer", "answer"} : Ahead(Route(b, a), m, n) => Ahead(Route(b, a)', m, n)
      /\ Led(Route(b, a)) => Led(Route(b, a)')
  BY <1>1, PutsFacts DEF Asking
<1>5. /\ \A m \in {"ask", "offer", "reply", "answer", "ice"} :
           (In(Route(a, b)', m) <=> In(Route(a, b), m)) /\ (Once(Route(a, b), m) => Once(Route(a, b)', m))
      /\ \A m, n \in {"offer", "answer"} : Ahead(Route(a, b), m, n) => Ahead(Route(a, b)', m, n)
      /\ Led(Route(a, b)) => Led(Route(a, b)')
  BY <1>1, AlikeIsSimilar DEF Similar
<1>6. /\ Offering(a, b)' <=> Offering(a, b)
      /\ Offering(b, a)' <=> Offering(b, a)
      /\ Replying(a, b)' <=> Replying(a, b)
      /\ Replying(b, a)' <=> Replying(b, a)
      /\ Answering(a, b)' <=> Answering(a, b)
      /\ Answering(b, a)' <=> Answering(b, a)
      /\ Asking(b, a)' <=> Asking(b, a)
  BY <1>4, <1>5 DEF Asking, Offering, Replying, Answering
<1>7. \A x \in {a, b} : (Open(x)' <=> Open(x)) /\ (Mute(x)' <=> Mute(x))
  BY <1>2 DEF Open, Mute
<1>8. /\ ~Asked(a, b) /\ Asked(a, b)'
      /\ Asked(b, a)' <=> Asked(b, a)
  BY <1>1, <1>2 DEF Asked
<1>9. /\ Touched(a, b)' <=> Touched(a, b)
      /\ \A s \in {"have-local", "have-remote"} : Has(a, b, s)' <=> Has(a, b, s)
      /\ \A s \in {a, b} : Agrees(a, b, s)' <=> Agrees(a, b, s)
      /\ Knows(a, b)' <=> Knows(a, b)
      /\ Ices(a, b)' <=> Ices(a, b)
      /\ Cands(a, b)' <=> Cands(a, b)
      /\ Made(a, b) => Made(a, b)' /\ (Agrees(a, b, None)' <=> Agrees(a, b, None))
      /\ ~Made(a, b) /\ Made(a, b)' => Agrees(a, b, None)'
      /\ Has(a, b, "have-local") \/ Has(a, b, "have-remote") => Made(a, b)
  BY <1>3 DEF SamePeer, Touched, Has
<1>10. SideInv(a, b)' /\ SideInv(b, a)' /\ MuteInv(a, b)' /\ MuteInv(b, a)'
  <2>1. SideInv(a, b)'
    BY <1>3, <1>5, <1>6, <1>7, <1>9 DEF PairInv, SideInv, StillPeer, SameNotes
  <2>2. SideInv(b, a)'
    BY <1>3, <1>4, <1>6, <1>7, <1>9 DEF PairInv, SideInv, StillPeer, SameNotes
  <2>3. MuteInv(a, b)'
    BY <1>3, <1>5, <1>6, <1>7 DEF PairInv, MuteInv, StillPeer
  <2>4. MuteInv(b, a)'
    BY <1>4, <1>6, <1>7, <1>9 DEF PairInv, MuteInv
  <2> QED BY <2>1, <2>2, <2>3, <2>4
<1>11. ASSUME Open(a), Open(b)
       PROVE  SessionInv(a, b)' /\ SessionInv(b, a)'
  <2>1. /\ ~Asking(a, b) /\ ~Offering(a, b) /\ ~Replying(a, b) /\ ~Answering(a, b)
        /\ ~Has(a, b, "have-local") /\ <<a, b>> \notin rolled /\ <<b, a>> \notin lost
        /\ ~Agrees(b, a, a) /\ ~Agrees(a, b, a)
    BY <1>8, <1>11 DEF PairInv, SessionInv, TokenInv, PastInv
  <2>2. TokenInv(a, b)' /\ TokenInv(b, a)'
    BY <1>4, <1>5, <1>6, <1>8, <1>11, <2>1 DEF PairInv, SessionInv, TokenInv
  <2>3. PastInv(a, b)' /\ PastInv(b, a)'
    BY <1>3, <1>6, <1>8, <1>9, <1>11, <2>1 DEF PairInv, SessionInv, PastInv, StillPeer, SameNotes
  <2>4. Late(a, b)'
    BY <1>1, <1>2, <1>4 DEF Late
  <2>5. DueInv(a, b)'
    BY <1>3, <1>4, <1>6, <1>9, <1>11, <2>1 DEF PairInv, SessionInv, DueInv, StillPeer, SameNotes
  <2>6. DueInv(b, a)'
    BY <1>3, <1>6, <1>8, <1>9, <1>11, <2>4 DEF PairInv, SessionInv, DueInv, StillPeer, SameNotes
  <2>7. CrossInv(a, b)'
    BY <1>3, <1>5, <1>6, <1>9, <1>11, <2>1 DEF PairInv, SessionInv, CrossInv, StillPeer, SameNotes
  <2>8. CrossInv(b, a)'
    BY <1>3, <1>4, <1>6, <1>9, <1>11, <2>1 DEF PairInv, SessionInv, CrossInv, StillPeer, SameNotes
  <2>9. ReachInv(a, b)' /\ ReachInv(b, a)'
    BY <1>1, <1>3, <1>4, <1>5, <1>9, <1>11
       DEF PairInv, SessionInv, ReachInv, Reaches, StillPeer, SameNotes
  <2> QED BY <2>2, <2>3, <2>5, <2>6, <2>7, <2>8, <2>9 DEF SessionInv
<1> QED BY <1>7, <1>10, <1>11 DEF PairInv

LEMMA ConnectPairs ==
  ASSUME TypeOK, PageInv, PairsInv, NEW c \in Pages, Connect(c)
  PROVE  PairsInv'
<1>1. /\ UNCHANGED <<joining, rolled, lost>>
      /\ list[c] # None /\ c \notin offered
      /\ offered' = offered \union {c} /\ ready' = ready \union {c}
      /\ \A x, y \in Pages : x # c \/ y \notin list[c] =>
           peer'[x][y] = peer[x][y] /\ Alike(Route(y, x), Route(y, x)')
  BY ConnectStep
<1>2. page' = page /\ list' = list /\ role' = role
  BY <1>1 DEF joining
<1>3. \A x \in Pages : Stands(x)
  BY <1>1, <1>2 DEF Stands, Open, Mute
<1> SUFFICES ASSUME NEW a \in Pages, NEW b \in Pages, a # b
             PROVE  PairInv(a, b)'
  BY DEF PairsInv
<1>4. PairInv(a, b) /\ PairInv(b, a)
  BY DEF PairsInv
<1>5. CASE (a = c /\ b \in list[c]) \/ (b = c /\ a \in list[c])
  BY <1>4, <1>5, ConnectPair
<1>6. CASE ~((a = c /\ b \in list[c]) \/ (b = c /\ a \in list[c]))
  <2>1. /\ peer'[a][b] = peer[a][b] /\ Alike(Route(b, a), Route(b, a)')
        /\ peer'[b][a] = peer[b][a] /\ Alike(Route(a, b), Route(a, b)')
    BY <1>1, <1>6
  <2>2. SamePair(a, b) /\ SamePair(b, a)
    BY <1>1, <2>1, PeerStays, AlikeIsSimilar DEF SamePair, SameNotes
  <2>3. Asked(a, b)' <=> Asked(a, b)
    BY <1>1, <1>2, <1>6 DEF Asked
  <2>4. /\ Asking(b, a)' <=> Asking(b, a)
        /\ Offering(b, a)' <=> Offering(b, a)
    BY <2>2 DEF SamePair, Similar, Asking, Offering
  <2>5. Late(b, a) => Late(b, a)'
    BY <1>1, <1>2, <1>6, <2>4 DEF Late
  <2> QED BY <1>3, <1>4, <2>2, <2>3, <2>5, CalmPair
<1> QED BY <1>5, <1>6
-----------------------------------------------------------------------------
(* Any two pages of any number.                                            *)

LEMMA EmptyRoute ==
  ASSUME NEW a, NEW b, chain[b][a] = <<>>, down[b] = <<>>, up[a] = <<>>
  PROVE  /\ \A k : ~In(Route(a, b), k) /\ Once(Route(a, b), k)
         /\ \A k, l : Ahead(Route(a, b), k, l)
         /\ Led(Route(a, b))
<1>1. Route(a, b) = RouteOf(<<>>, <<>>, <<>>, a, b)
  BY DEF Route
<1>2. DOMAIN Route(a, b) = 1 .. 0
  BY <1>1 DEF RouteOf
<1>3. \A i \in DOMAIN Route(a, b) : FALSE
  BY <1>2
<1> QED BY <1>3 DEF In, Once, Ahead, Led

LEMMA PairsInit == Init => PairsInv
<1> SUFFICES ASSUME Init, NEW a \in Pages, NEW b \in Pages, a # b
             PROVE  PairInv(a, b)
  BY DEF PairsInv
<1>1. /\ \A x, y \in Pages : chain[y][x] = <<>> /\ down[y] = <<>> /\ up[x] = <<>> /\ peer[x][y] = None
      /\ offered = {} /\ rolled = {} /\ lost = {}
  BY DEF Init
<1>2. \A x, y \in Pages :
        /\ ~Asking(x, y) /\ ~Offering(x, y) /\ ~Replying(x, y) /\ ~Answering(x, y)
        /\ ~Made(x, y) /\ ~Asked(x, y)
        /\ \A k : ~In(Route(x, y), k) /\ Once(Route(x, y), k)
        /\ \A k, l : Ahead(Route(x, y), k, l)
        /\ Led(Route(x, y))
  BY <1>1, EmptyRoute DEF Asking, Offering, Replying, Answering, Made, Asked
<1>3. \A x, y \in Pages :
        /\ \A s : ~Has(x, y, s) /\ ~Agrees(x, y, s)
        /\ ~Knows(x, y) /\ ~Touched(x, y) /\ ~Ices(x, y) /\ ~Cands(x, y)
  BY <1>2 DEF Has, Agrees, Knows, Touched, Ices, Cands
<1>4. SideInv(a, b) /\ MuteInv(a, b)
  BY <1>2, <1>3 DEF SideInv, MuteInv
<1>5. TokenInv(a, b) /\ PastInv(a, b)
  BY <1>1, <1>2, <1>3 DEF TokenInv, PastInv
<1>6. DueInv(a, b) /\ CrossInv(a, b) /\ ReachInv(a, b)
  BY <1>1, <1>2, <1>3 DEF DueInv, CrossInv, ReachInv
<1> QED BY <1>4, <1>5, <1>6 DEF PairInv, SessionInv

LEMMA PairsAlways == Spec => [](PagesInv /\ PairsInv)
<1>1. PagesInv /\ PairsInv /\ [Next]_vars => PairsInv'
  <2> SUFFICES ASSUME PagesInv, PairsInv, [Next]_vars PROVE PairsInv'
    OBVIOUS
  <2>1. TypeOK /\ PageInv /\ SelfInv
    BY DEF PagesInv
  <2>2. CASE Next
    <3>1. PICK a \in Pages :
            \/ AskJoin(a) \/ SaveRow(a) \/ Acknowledge(a) \/ TimeOut(a) \/ ServeList(a)
            \/ Answer(a, "granted") \/ Answer(a, "denied")
            \/ Close(a) \/ Depart(a) \/ Connect(a) \/ ShareScreen(a)
            \/ Relay(a) \/ TakeAck(a) \/ TakeOffer(a) \/ TakeOther(a)
            \/ \E b \in Pages : Perform(a, b) \/ Gather(a, b) \/ ConnectionLost(a, b)
      BY <2>2 DEF Next
    <3>2. CASE \/ AskJoin(a) \/ SaveRow(a) \/ Acknowledge(a) \/ TimeOut(a) \/ Depart(a)
               \/ Answer(a, "granted") \/ Answer(a, "denied") \/ TakeAck(a)
      BY <2>1, <3>2, JoiningPairs
    <3>3. CASE ServeList(a)
      BY <2>1, <3>3, ServePairs
    <3>4. CASE Close(a)
      BY <2>1, <3>4, ClosePairs
    <3>5. CASE Connect(a)
      BY <2>1, <3>5, ConnectPairs
    <3>6. CASE Relay(a)
      BY <2>1, <3>6, RelayPairs
    <3>7. CASE TakeOffer(a) \/ TakeOther(a)
      BY <2>1, <3>7, TakePairs
    <3>8. CASE ShareScreen(a) \/ \E b \in Pages : ConnectionLost(a, b)
      BY <2>1, <3>8, SharePairs
    <3>9. CASE \E b \in Pages : Perform(a, b) \/ Gather(a, b)
      BY <2>1, <3>9, PerformPairs
    <3> QED BY <3>1, <3>2, <3>3, <3>4, <3>5, <3>6, <3>7, <3>8, <3>9
  <2>3. CASE UNCHANGED vars
    <3>1. UNCHANGED <<role, page, list, ready, offered, peer, rolled, lost, chain, up, down>>
      BY <2>3 DEF vars
    <3>2. \A x \in Pages : Rests(x)
      BY <3>1 DEF Rests, Stands, Open, Mute
    <3>3. \A x, y \in Pages : SamePair(x, y)
      BY <3>1, PeerStays, RouteStays, AlikeIsSimilar DEF SamePair, SameNotes
    <3> QED BY <3>2, <3>3, AllCalm
  <2> QED BY <2>2, <2>3
<1> QED BY <1>1, PairsInit, PagesAlways, PTL DEF Spec

\* CandidatesAreTimely of every instance: a candidate comes to a peer behind the offer or
\* the answer that brings the remote description, unless the answer has been lost.
THEOREM CandidatesFollow == Spec => []CandidatesAreTimely
<1>1. PagesInv /\ PairsInv => CandidatesAreTimely
  <2> SUFFICES ASSUME PagesInv, PairsInv, NEW a \in Pages, NEW b \in Pages, Runs(a, b, "addIce")
               PROVE  Described(a, b) \/ <<b, a>> \in lost
    BY DEF CandidatesAreTimely
  <2>1. TypeOK /\ PageInv /\ SelfInv
    BY DEF PagesInv
  <2>2. chain[a][b] # <<>> /\ Head(chain[a][b]).op = "addIce"
    BY DEF Runs
  <2>3. peer[a][b] # None /\ a # b
    BY <2>1, <2>2 DEF TypeOK, SelfInv
  <2>4. Open(a)
    <3>1. Kind("addIce") = "ice"
      BY DEF Kind
    <3>2. Head(chain[a][b]) \in Elems(chain[a][b])
      BY <2>1, <2>2, CallElems
    <3> QED BY <2>1, <2>2, <3>1, <3>2 DEF PageInv
  <2>5. ~Led(Route(b, a))
    <3> DEFINE c == chain[a][b]
               d == down[a]
               u == up[b]
    <3>1. c \in Seq(Op) /\ d \in Seq(Packet) /\ u \in Seq(Signal) /\ c # <<>>
      BY <2>1, <2>2, PeerTypes, WireTypes
    <3>2. Route(b, a) = RouteOf(c, d, u, b, a)
      BY DEF Route
    <3>3. Kind(Head(c).op) = "ice"
      BY <2>2 DEF Kind
    <3> HIDE DEF c, d, u
    <3>4. Takes(RouteOf(c, d, u, b, a), RouteOf(Tail(c), d, u, b, a), Kind(Head(c).op))
      BY <3>1, TakenFromChain DEF Takes
    <3> QED BY <3>2, <3>3, <3>4, TakesFacts
  <2>6. SideInv(b, a)
    BY <2>3 DEF PairsInv, PairInv
  <2> QED BY <2>4, <2>5, <2>6 DEF SideInv, Knows
<1> QED BY <1>1, PairsAlways, PTL

\* What was delivered is not on the route any more, whatever else a sends and b receives.
LEMMA DeliveredRoute ==
  ASSUME TypeOK, NEW a \in Pages, NEW b \in Pages, Delivered(a, b)
  PROVE  \A k \in {"ask", "reply", "offer", "answer", "ice"} : ~In(Route(a, b), k)
<1> DEFINE d == down[b]
           u == up[a]
<1>1. d \in Seq(Packet) /\ u \in Seq(Signal)
  BY WireTypes
<1>2. /\ \A i \in DOMAIN d : d[i].from # a
      /\ \A i \in DOMAIN u : u[i].to # b
  BY DEF Delivered
<1>3. Route(a, b) = RouteOf(<<>>, d, u, a, b)
  BY DEF Route, Delivered
<1> HIDE DEF d, u
<1>4. \A i \in 1 .. Len(d) + Len(u) : RouteOf(<<>>, d, u, a, b)[i] = "other"
  <2> SUFFICES ASSUME NEW i \in 1 .. Len(d) + Len(u)
               PROVE  RouteOf(<<>>, d, u, a, b)[i] = "other"
    OBVIOUS
  <2>1. CASE i <= Len(d)
    BY <1>1, <1>2, <2>1 DEF RouteOf
  <2>2. CASE i > Len(d)
    BY <1>1, <1>2, <2>2 DEF RouteOf
  <2> QED BY <1>1, <2>1, <2>2
<1>5. DOMAIN RouteOf(<<>>, d, u, a, b) = 1 .. Len(d) + Len(u)
  BY <1>1 DEF RouteOf
<1> QED BY <1>3, <1>4, <1>5 DEF In

LEMMA QuietFacts ==
  ASSUME TypeOK, NEW a \in Pages, NEW b \in Pages, Quiet(a, b)
  PROVE  /\ ~Asking(a, b) /\ ~Offering(a, b) /\ ~Replying(a, b) /\ ~Answering(a, b)
         /\ ~In(Route(a, b), "ice") /\ ~Ices(a, b)
         /\ ~Asking(b, a) /\ ~Offering(b, a) /\ ~Replying(b, a) /\ ~Answering(b, a)
         /\ ~In(Route(b, a), "ice") /\ ~Ices(b, a)
<1>1. \A k \in {"ask", "reply", "offer", "answer", "ice"} :
        ~In(Route(a, b), k) /\ ~In(Route(b, a), k)
  BY DeliveredRoute DEF Quiet
<1>2. ~Ices(a, b) /\ ~Ices(b, a)
  BY DEF Quiet, Delivered, Ices, Made
<1> QED BY <1>1, <1>2 DEF Asking, Offering, Replying, Answering

\* OneEndIsReachable of every instance: of the first descriptions of a connection, one
\* calls for candidates that arrive behind it.
THEOREM CandidatesArrive == Spec => []OneEndIsReachable
<1>1. PagesInv /\ PairsInv => OneEndIsReachable
  <2> SUFFICES ASSUME PagesInv, PairsInv, NEW a \in Pages, NEW b \in Pages,
                      page[a] = "in", page[b] = "in", Quiet(a, b), Linked(a, b)
               PROVE  peer[a][b].cands \/ peer[b][a].cands
    BY DEF OneEndIsReachable
  <2>1. TypeOK /\ SelfInv
    BY DEF PagesInv
  <2>2. a # b /\ Made(a, b) /\ Made(b, a)
    BY <2>1 DEF Linked, SelfInv, Made
  <2>3. /\ ~Has(a, b, "have-remote") /\ ~Has(b, a, "have-remote")
        /\ Touched(a, b)
    BY <2>2 DEF Linked, Has, Touched, Knows, Described
  <2>4. ReachInv(a, b)
    BY <2>2 DEF PairsInv, PairInv, SessionInv, Open
  <2>5. Cands(a, b) \/ Cands(b, a)
    BY <2>1, <2>3, <2>4, QuietFacts DEF ReachInv, Reaches
  <2> QED BY <2>5 DEF Cands
<1> QED BY <1>1, PairsAlways, PTL

\* SettledPagesAreLinked of every instance: whichever of the two offers, or both, and
\* however their signals cross, the sessions do not end apart unless both were rolled back.
THEOREM PagesAreLinked == Spec => []SettledPagesAreLinked
<1>1. PagesInv /\ PairsInv => SettledPagesAreLinked
  <2> SUFFICES ASSUME PagesInv, PairsInv, NEW a \in Pages, NEW b \in Pages,
                      a # b, Quiet(a, b), Settled(a), Settled(b), role[a] = "participant",
                      role[b] = "spectator" => a \in list[b] /\ <<a, b>> \notin lost
               PROVE  Linked(a, b) \/ {<<a, b>>, <<b, a>>} \subseteq rolled
    BY DEF SettledPagesAreLinked
  <2>1. TypeOK /\ PageInv /\ SelfInv /\ ListInv
    BY DEF PagesInv
  <2>2. /\ Open(a) /\ Open(b) /\ a \in offered /\ b \in offered
        /\ list[a] # None /\ list[b] # None
    BY <2>1 DEF Settled, Open, PageInv
  <2>3. /\ SessionInv(a, b) /\ SessionInv(b, a) /\ SideInv(a, b) /\ SideInv(b, a)
    BY <2>2 DEF PairsInv, PairInv
  <2>4. /\ ~Asking(a, b) /\ ~Offering(a, b) /\ ~Replying(a, b) /\ ~Answering(a, b)
        /\ ~Asking(b, a) /\ ~Offering(b, a) /\ ~Replying(b, a) /\ ~Answering(b, a)
    BY <2>1, QuietFacts
  <2>5. role[b] \in {"participant", "spectator"}
    BY <2>1 DEF TypeOK
  <2>6. ~Late(a, b) /\ ~Late(b, a)
    BY <2>2, <2>4 DEF Late
  <2>7. ~Has(a, b, "have-local") /\ ~Has(b, a, "have-local")
    BY <2>3, <2>4, <2>5, <2>6 DEF SessionInv, DueInv
  <2>8. ~Has(a, b, "have-remote") /\ ~Has(b, a, "have-remote")
    BY <2>3, <2>4 DEF SessionInv, DueInv
  <2>9. Asked(a, b) \/ Asked(b, a)
    BY <2>1, <2>2, <2>5 DEF ListInv, Asked
  <2>10. Knows(a, b) /\ Knows(b, a)
    BY <2>3, <2>4, <2>7, <2>9 DEF SessionInv, DueInv, Touched
  <2>11. /\ Made(a, b) /\ Made(b, a)
         /\ peer[a][b].sig = "stable" /\ peer[b][a].sig = "stable"
    <3>1. Made(a, b) /\ Made(b, a) /\ peer[a][b] \in Peer /\ peer[b][a] \in Peer
      BY <2>1, <2>10 DEF Knows, Made, TypeOK
    <3>2. /\ peer[a][b].sig \in {"stable", "have-local", "have-remote"}
          /\ peer[b][a].sig \in {"stable", "have-local", "have-remote"}
      BY <3>1 DEF Peer
    <3> QED BY <2>7, <2>8, <3>1, <3>2 DEF Has
  <2>12. peer[a][b].cur # None /\ peer[b][a].cur # None
    BY <2>10, <2>11 DEF Knows, Described
  <2>13. peer[a][b].cur \in {a, b} /\ peer[b][a].cur \in {a, b}
    BY <2>3, <2>2, <2>11, <2>12 DEF SideInv, Agrees
  <2>14. \/ peer[a][b].cur = peer[b][a].cur
         \/ {<<a, b>>, <<b, a>>} \subseteq rolled
    BY <2>3, <2>7, <2>11, <2>13 DEF SessionInv, CrossInv, Agrees
  <2> QED BY <2>11, <2>12, <2>14 DEF Linked, Made
<1> QED BY <1>1, PairsAlways, PTL
=============================================================================
