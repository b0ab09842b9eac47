----------------------------- MODULE ChatProofs -----------------------------
(* Theorems about Chat for every value of its constants, with proofs.      *)
EXTENDS Chat, FiniteSetTheorems, FunctionTheorems, SequenceTheorems, TLAPS

USE ChatAssumption

\* The ids in the table.
Saved == 1 .. Len(messages)

\* What is spoken of was saved or sent.
IdsInv ==
  /\ \A c \in DOMAIN call :
       /\ call[c].no \in 1 .. Len(sent)
       /\ call[c].pc = "announce" => /\ call[c].id \in Saved
                                     /\ messages[call[c].id] = sent[call[c].no]
  /\ \A u \in Users : \A i \in 1 .. Len(wire[u]) :
       /\ wire[u][i].kind # "kicked" => wire[u][i].id \in Saved
       /\ wire[u][i].kind = "ack" => wire[u][i].no \in 1 .. Len(sent)
  /\ \A u \in Users : ToSet(shown[u]) \subseteq Saved /\ ToSet(history[u].ids) \subseteq Saved

\* f names the request of each message that was saved.
Requests(f) ==
  /\ f \in [Saved -> 1 .. Len(sent)]
  /\ \A i \in Saved : messages[i] = sent[f[i]]
  /\ \A i, j \in Saved : f[i] = f[j] => i = j
  /\ \A i \in Saved : \A c \in DOMAIN call : call[c].pc # "announce" => f[i] # call[c].no

\* Each message was saved for a request of its own, and each request has one handler.
SavedInv ==
  /\ \E f \in [Saved -> 1 .. Len(sent)] : Requests(f)
  /\ \A c, d \in DOMAIN call : call[c].no = call[d].no => c = d

\* A request that was acknowledged has left the box: nobody asks for the same text twice
\* but after a doubtful request.
FormInv ==
  /\ \A u \in Users : draft[u] <= typed
  /\ \A a \in 1 .. Len(sent) : /\ sent[a].text <= typed
                               /\ \/ a \in doubtful \/ sending[sent[a].by] = a
                                  \/ draft[sent[a].by] # sent[a].text
  /\ \A a, b \in 1 .. Len(sent) : a # b /\ sent[a] = sent[b] => {a, b} \intersect doubtful # {}
  /\ \A c \in DOMAIN call : call[c].no \in doubtful \/ sending[By(c)] = call[c].no
  /\ \A u \in Users : \A i \in 1 .. Len(wire[u]) : \A c \in DOMAIN call :
       wire[u][i].kind = "ack" => wire[u][i].no # call[c].no

\* A handler that has passed a check that fails by now is marked.
CheckInv ==
  \A c \in DOMAIN call :
    /\ call[c].pc = "member" => open \/ call[c].over
    /\ call[c].pc = "save" => (open /\ By(c) \in active) \/ call[c].over

\* The history that is on its way was the newest messages when it was read.
HistoryInv ==
  \A u \in Users : history[u].is = "sent" =>
    LET ids == history[u].ids
    IN  /\ \A i, j \in 1 .. Len(ids) : i < j => ids[i] < ids[j]
        /\ \A id \in Saved : \/ id \in ToSet(ids) \/ \A j \in ToSet(ids) : j < id
                             \/ Len(ids) = Recent /\ <<u, id>> \in cut

\* A message is about to be announced, or on its way to page u.
Coming(u, id) ==
  \/ \E c \in DOMAIN call : At(c, "announce") /\ call[c].id = id
  \/ \E i \in 1 .. Len(wire[u]) : wire[u][i].kind = "message" /\ wire[u][i].id = id

\* A page in the room has every message, or will, or has a reason not to.
NewsInv ==
  \A u \in Users : page[u] = "in" =>
    /\ u \in inRoom
    /\ \A id \in Saved :
         \/ Coming(u, id) \/ history[u].is \in {"asked", "refused"}
         \/ /\ history[u].is = "none"
            /\ id \in ToSet(shown[u]) \/ <<u, id>> \in early \/ Len(shown[u]) = Recent
         \/ /\ history[u].is = "sent"
            /\ \/ id \in ToSet(history[u].ids) \/ Len(history[u].ids) = Recent
               \/ <<u, id>> \in early /\ \A j \in ToSet(history[u].ids) : j < id

\* Two messages of one person, none of whose requests is doubtful.
Comparable(m, n) ==
  /\ messages[m].by = messages[n].by
  /\ \A no \in doubtful : sent[no].by # messages[m].by

\* Such a person's messages are announced in the order of their saves,
CallOrder ==
  \A c \in DOMAIN call : call[c].pc = "announce" =>
    \A m \in Saved : Comparable(m, call[c].id) => m <= call[c].id

\* arrive in it,
WireOrder ==
  \A u \in Users : \A i, j \in 1 .. Len(wire[u]) :
    /\ i < j /\ wire[u][i].kind # "kicked" /\ wire[u][j].kind # "kicked"
    /\ Comparable(wire[u][i].id, wire[u][j].id)
    => wire[u][i].id <= wire[u][j].id

\* are shown in it, each once,
ShownOrder ==
  \A u \in Users : \A i, j \in 1 .. Len(shown[u]) : i < j =>
    /\ shown[u][i] # shown[u][j]
    /\ Comparable(shown[u][i], shown[u][j]) =>
         shown[u][i] < shown[u][j] \/ <<u, shown[u][j]>> \in cut

\* and arrive after those that are shown.
LateOrder ==
  \A u \in Users : \A m \in ToSet(shown[u]) : \A j \in 1 .. Len(wire[u]) :
    LET n == wire[u][j].id
    IN  wire[u][j].kind # "kicked" /\ Comparable(m, n) =>
          m <= n \/ n \in ToSet(shown[u]) \/ <<u, n>> \in cut

OrderInv == CallOrder /\ WireOrder /\ ShownOrder /\ LateOrder

ChatInv ==
  /\ TypeOK /\ IdsInv /\ SavedInv /\ FormInv /\ CheckInv
  /\ HistoryInv /\ NewsInv /\ OrderInv
-----------------------------------------------------------------------------
(* Lists.                                                                  *)

\* Lists of at most n.
LEMMA SeqOfSeq ==
  ASSUME NEW S, NEW n \in Nat, NEW s
  PROVE  s \in SeqOf(S, n) <=> s \in Seq(S) /\ Len(s) <= n
<1>1. ASSUME s \in SeqOf(S, n) PROVE s \in Seq(S) /\ Len(s) <= n
  <2>1. PICK m \in 0 .. n : s \in [1 .. m -> S]
    BY <1>1 DEF SeqOf
  <2>2. s \in Seq(S) /\ Len(s) = m
    BY <2>1
  <2> QED BY <2>2
<1>2. ASSUME s \in Seq(S), Len(s) <= n PROVE s \in SeqOf(S, n)
  <2>1. Len(s) \in 0 .. n /\ s \in [1 .. Len(s) -> S]
    BY <1>2
  <2> QED BY <2>1 DEF SeqOf
<1> QED BY <1>1, <1>2

\* The elements of a list.
LEMMA Elements ==
  ASSUME NEW S, NEW s \in Seq(S)
  PROVE  /\ ToSet(s) = {s[i] : i \in 1 .. Len(s)} /\ ToSet(s) \subseteq S
         /\ Len(s) \in Nat /\ \A i \in 1 .. Len(s) : s[i] \in S /\ s[i] \in ToSet(s)
BY DEF ToSet

LEMMA NoElements == ToSet(<<>>) = {} /\ Len(<<>>) = 0
BY DEF ToSet

\* The list with a message that is not on it: the oldest goes if the list is full.
LEMMA AddedMessage ==
  ASSUME NEW S, NEW list \in Seq(S), Len(list) <= Recent, NEW id \in S, id \notin ToSet(list)
  PROVE  LET w == WithMessage(list, id)
             d == IF Len(list) = Recent THEN 1 ELSE 0
         IN  /\ w \in Seq(S) /\ Len(w) = Len(list) + 1 - d /\ Len(w) <= Recent
             /\ w[Len(w)] = id
             /\ \A i \in 1 .. Len(w) - 1 : i + d \in 1 .. Len(list) /\ w[i] = list[i + d]
<1> DEFINE all == Append(list, id)
<1>1. /\ all \in Seq(S) /\ Len(all) = Len(list) + 1 /\ all[Len(list) + 1] = id
      /\ \A i \in 1 .. Len(list) : all[i] = list[i]
      /\ Len(list) \in Nat /\ WithMessage(list, id) = Newest(all)
  BY DEF WithMessage
<1> HIDE DEF all
<1>2. CASE Len(list) = Recent
  <2>1. Newest(all) = SubSeq(all, 2, Len(all))
    BY <1>1, <1>2 DEF Newest
  <2>2. /\ SubSeq(all, 2, Len(all)) \in Seq(S)
        /\ Len(SubSeq(all, 2, Len(all))) = Len(list)
        /\ \A i \in 1 .. Len(list) : SubSeq(all, 2, Len(all))[i] = all[i + 1]
    BY <1>1
  <2> QED BY <1>1, <1>2, <2>1, <2>2
<1>3. CASE Len(list) < Recent
  <2>1. Newest(all) = all
    BY <1>1, <1>3 DEF Newest
  <2> QED BY <1>1, <1>3, <2>1
<1> QED BY <1>1, <1>2, <1>3

\* What is on the list with a message.
LEMMA WithMessageIs ==
  ASSUME NEW S, NEW list \in Seq(S), Len(list) <= Recent, NEW id \in S
  PROVE  LET w == WithMessage(list, id)
         IN  /\ w \in Seq(S) /\ Len(w) <= Recent /\ id \in ToSet(w)
             /\ ToSet(w) \subseteq ToSet(list) \union {id}
             /\ Len(list) = Recent \/ ToSet(list) \ ToSet(w) # {} => Len(w) = Recent
<1> DEFINE w == WithMessage(list, id)
<1>1. CASE id \in ToSet(list)
  BY <1>1 DEF WithMessage
<1>2. CASE id \notin ToSet(list)
  <2> DEFINE d == IF Len(list) = Recent THEN 1 ELSE 0
  <2>1. /\ w \in Seq(S) /\ Len(w) = Len(list) + 1 - d /\ Len(w) <= Recent
        /\ w[Len(w)] = id
        /\ \A i \in 1 .. Len(w) - 1 : i + d \in 1 .. Len(list) /\ w[i] = list[i + d]
    BY <1>2, AddedMessage
  <2>2. Len(list) \in Nat /\ d \in {0, 1}
    OBVIOUS
  <2>3. Len(list) = Recent => Len(w) = Recent
    BY <2>1, <2>2
  <2> HIDE DEF w
  <2>4. /\ ToSet(w) = {w[i] : i \in 1 .. Len(w)}
        /\ ToSet(list) = {list[i] : i \in 1 .. Len(list)}
    BY <2>1, Elements
  <2>5. id \in ToSet(w)
    <3>1. Len(w) \in 1 .. Len(w)
      BY <2>1, <2>2
    <3> QED BY <2>1, <2>4, <3>1
  <2>6. ToSet(w) \subseteq ToSet(list) \union {id}
    <3> SUFFICES ASSUME NEW i \in 1 .. Len(w), i # Len(w) PROVE w[i] \in ToSet(list)
      BY <2>1, <2>4
    <3>1. i \in 1 .. Len(w) - 1
      BY <2>1, <2>2
    <3> QED BY <2>1, <2>4, <3>1
  <2>7. ASSUME d = 0 PROVE ToSet(list) \subseteq ToSet(w)
    <3> SUFFICES ASSUME NEW i \in 1 .. Len(list) PROVE list[i] \in ToSet(w)
      BY <2>4
    <3>1. i \in 1 .. Len(w) - 1 /\ i + d = i /\ i \in 1 .. Len(w)
      BY <2>1, <2>2, <2>7
    <3> QED BY <2>1, <2>4, <3>1
  <2>8. ToSet(list) \ ToSet(w) # {} => Len(w) = Recent
    BY <2>2, <2>3, <2>7
  <2> QED BY <2>1, <2>3, <2>5, <2>6, <2>8 DEF w
<1> QED BY <1>1, <1>2

\* The newest of the messages.
LEMMA NewestIds ==
  ASSUME NEW n \in Nat
  PROVE  LET ids == Newest([i \in 1 .. n |-> i])
         IN  /\ ids \in Seq(1 .. n) /\ Len(ids) <= Recent
             /\ \A i, j \in 1 .. Len(ids) : i < j => ids[i] < ids[j]
             /\ \A id \in 1 .. n : id \in ToSet(ids) \/ Len(ids) = Recent
<1> DEFINE all == [i \in 1 .. n |-> i]
           ids == Newest(all)
<1> SUFFICES /\ ids \in Seq(1 .. n) /\ Len(ids) <= Recent
             /\ \A i, j \in 1 .. Len(ids) : i < j => ids[i] < ids[j]
             /\ \A id \in 1 .. n : id \in ToSet(ids) \/ Len(ids) = Recent
  OBVIOUS
<1>1. all \in Seq(1 .. n) /\ Len(all) = n /\ \A i \in 1 .. n : all[i] = i
  OBVIOUS
<1> HIDE DEF all
<1>2. CASE n > Recent
  <2>1. ids = SubSeq(all, n - Recent + 1, n)
    BY <1>1, <1>2 DEF Newest
  <2>2. /\ ids \in Seq(1 .. n) /\ Len(ids) = Recent
        /\ \A i \in 1 .. Recent : ids[i] = n - Recent + i
    BY <1>1, <1>2, <2>1
  <2> HIDE DEF ids
  <2>3. \A i, j \in 1 .. Len(ids) : i < j => ids[i] < ids[j]
    BY <2>2
  <2> QED BY <2>2, <2>3
<1>3. CASE n <= Recent
  <2>1. ids = all
    BY <1>1, <1>3 DEF Newest
  <2>2. ToSet(all) = {all[i] : i \in 1 .. n}
    BY <1>1, Elements
  <2> QED BY <1>1, <1>3, <2>1, <2>2
<1> QED BY <1>2, <1>3
-----------------------------------------------------------------------------
(* What a step leaves alone.                                               *)

\* The handlers stay where they are, or move on or end before they save.
CallsStay ==
  /\ DOMAIN call' \subseteq DOMAIN call
  /\ \A d \in DOMAIN call' : /\ call'[d].no = call[d].no /\ call'[d].id = call[d].id
                             /\ call'[d].pc = "announce" <=> call[d].pc = "announce"
  /\ \A d \in DOMAIN call : call[d].pc = "announce" => d \in DOMAIN call'

\* The queue w is v, without its first packet perhaps, and with a kick perhaps.
Remains(w, v) ==
  \E d \in {0, 1} : \A i \in 1 .. Len(w) :
    w[i].kind = "kicked" \/ (i + d \in 1 .. Len(v) /\ w[i] = v[i + d])

\* What the types say of the elements.
LEMMA Typed ==
  ASSUME TypeOK
  PROVE  /\ \A c \in DOMAIN call : call[c] \in Call /\ c \in Calls
         /\ \A u \in Users : wire[u] \in Seq(Packet) /\ Len(wire[u]) \in Nat
         /\ \A u \in Users : \A i \in 1 .. Len(wire[u]) : wire[u][i] \in Packet
         /\ \A u \in Users : shown[u] \in Seq(Ids) /\ Len(shown[u]) <= Recent
         /\ \A u \in Users : /\ history[u] \in Answer /\ history[u].ids \in Seq(Ids)
                             /\ Len(history[u].ids) <= Recent
         /\ sent \in Seq(Message) /\ Len(sent) \in Nat /\ Len(sent) <= MaxSends
         /\ messages \in Seq(Message) /\ Len(messages) \in Nat /\ Len(messages) <= Len(sent)
         /\ \A a \in 1 .. Len(sent) : sent[a].by \in Users /\ sent[a].text \in Texts
         /\ \A m \in Saved : messages[m] \in Message
<1>1. \A c \in DOMAIN call : call[c] \in Call /\ c \in Calls
  BY DEF TypeOK
<1>2. \A u \in Users : wire[u] \in Seq(Packet)
  BY DEF TypeOK
<1>3. \A u \in Users : \A i \in 1 .. Len(wire[u]) : wire[u][i] \in Packet
  BY <1>2
<1>4. \A u \in Users : shown[u] \in Seq(Ids) /\ Len(shown[u]) <= Recent
  <2>1. \A u \in Users : shown[u] \in SeqOf(Ids, Recent)
    BY DEF TypeOK
  <2> QED BY <2>1, SeqOfSeq
<1>5. \A u \in Users : /\ history[u] \in Answer /\ history[u].ids \in Seq(Ids)
                       /\ Len(history[u].ids) <= Recent
  <2>1. \A u \in Users : history[u] \in Answer
    BY DEF TypeOK
  <2>2. \A u \in Users : history[u].ids \in SeqOf(Ids, Recent)
    BY <2>1 DEF Answer
  <2> QED BY <2>1, <2>2, SeqOfSeq
<1>6. sent \in Seq(Message) /\ Len(sent) <= MaxSends
  BY SeqOfSeq DEF TypeOK
<1>7. messages \in Seq(Message) /\ Len(messages) <= Len(sent)
  BY DEF TypeOK
<1>8. \A a \in 1 .. Len(sent) : sent[a] \in Message
  BY <1>6
<1>9. \A a \in 1 .. Len(sent) : sent[a].by \in Users /\ sent[a].text \in Texts
  BY <1>8 DEF Message
<1>10. \A m \in Saved : messages[m] \in Message
  BY <1>7 DEF Saved
<1> QED BY <1>1, <1>2, <1>3, <1>4, <1>5, <1>6, <1>7, <1>9, <1>10

LEMMA IdsStay ==
  ASSUME IdsInv, CallsStay, messages' = messages, sent' = sent,
         \A u \in Users : Remains(wire'[u], wire[u]),
         \A u \in Users : /\ ToSet(shown'[u]) \subseteq Saved
                          /\ ToSet(history'[u].ids) \subseteq Saved
  PROVE  IdsInv'
<1>1. \A c \in DOMAIN call' :
        /\ call'[c].no \in 1 .. Len(sent)
        /\ call'[c].pc = "announce" => /\ call'[c].id \in Saved
                                       /\ messages[call'[c].id] = sent[call'[c].no]
  BY DEF IdsInv, CallsStay
<1>2. \A u \in Users : \A i \in 1 .. Len(wire'[u]) :
        /\ wire'[u][i].kind # "kicked" => wire'[u][i].id \in Saved
        /\ wire'[u][i].kind = "ack" => wire'[u][i].no \in 1 .. Len(sent)
  BY DEF IdsInv, Remains
<1> QED BY <1>1, <1>2 DEF IdsInv, Saved

LEMMA SavedStay ==
  ASSUME SavedInv, CallsStay, messages' = messages, sent' = sent
  PROVE  SavedInv'
<1>1. PICK f \in [Saved -> 1 .. Len(sent)] : Requests(f)
  BY DEF SavedInv
<1>2. Requests(f)'
  BY <1>1 DEF Requests, Saved, CallsStay
<1>3. \A c, d \in DOMAIN call' : call'[c].no = call'[d].no => c = d
  BY DEF SavedInv, CallsStay
<1> QED BY <1>2, <1>3 DEF SavedInv, Saved

LEMMA FormStay ==
  ASSUME FormInv, CallsStay, UNCHANGED <<draft, typed, sent, sending, doubtful>>,
         \A u \in Users : Remains(wire'[u], wire[u])
  PROVE  FormInv'
<1>1. \A c \in DOMAIN call' : call'[c].no \in doubtful \/ sending[sent[call'[c].no].by] = call'[c].no
  BY DEF FormInv, CallsStay, By
<1>2. \A u \in Users : \A i \in 1 .. Len(wire'[u]) : \A c \in DOMAIN call' :
        wire'[u][i].kind = "ack" => wire'[u][i].no # call'[c].no
  <2> SUFFICES ASSUME NEW u \in Users, NEW i \in 1 .. Len(wire'[u]), NEW c \in DOMAIN call',
                      wire'[u][i].kind = "ack"
               PROVE  wire'[u][i].no # call'[c].no
    OBVIOUS
  <2>1. PICK j \in 1 .. Len(wire[u]) : wire'[u][i] = wire[u][j]
    BY DEF Remains
  <2> QED BY <2>1 DEF FormInv, CallsStay
<1> QED BY <1>1, <1>2 DEF FormInv, By

LEMMA HistoryStays ==
  ASSUME HistoryInv, messages' = messages, cut \subseteq cut',
         \A u \in Users : history'[u].is = "sent" => history'[u] = history[u]
  PROVE  HistoryInv'
BY DEF HistoryInv, Saved

\* What is coming is still.
LEMMA ComingStays ==
  ASSUME CallsStay, NEW u \in Users, NEW id, Coming(u, id),
         \A i \in 1 .. Len(wire[u]) : wire[u][i].kind = "message" =>
           \E j \in 1 .. Len(wire'[u]) : wire'[u][j] = wire[u][i]
  PROVE  Coming(u, id)'
BY DEF Coming, CallsStay, At

LEMMA NewsStay ==
  ASSUME NewsInv, CallsStay, messages' = messages,
         \A u \in Users : page'[u] = "in" =>
           /\ page[u] = "in" /\ u \in inRoom'
           /\ history'[u] = history[u] /\ shown'[u] = shown[u]
           /\ \A i \in 1 .. Len(wire[u]) : wire[u][i].kind = "message" =>
                \E j \in 1 .. Len(wire'[u]) : wire'[u][j] = wire[u][i],
         early' = early
  PROVE  NewsInv'
<1>1. \A u \in Users, id \in Saved : page'[u] = "in" /\ Coming(u, id) => Coming(u, id)'
  BY ComingStays
<1> QED BY <1>1 DEF NewsInv, Saved

\* The order, but for that of the lists.
LEMMA WireStays ==
  ASSUME CallOrder, WireOrder, CallsStay, UNCHANGED <<messages, sent>>,
         doubtful \subseteq doubtful', \A u \in Users : Remains(wire'[u], wire[u]),
         \A u \in Users : Len(wire[u]) \in Nat /\ Len(wire'[u]) \in Nat
  PROVE  CallOrder' /\ WireOrder'
<1>1. \A m, n : Comparable(m, n)' => Comparable(m, n)
  BY DEF Comparable
<1>2. CallOrder'
  BY <1>1 DEF CallOrder, Saved, CallsStay
<1>3. ASSUME NEW u \in Users, NEW i \in 1 .. Len(wire'[u]), NEW j \in 1 .. Len(wire'[u]),
             i < j, wire'[u][i].kind # "kicked", wire'[u][j].kind # "kicked",
             Comparable(wire[u][i].id, wire[u][j].id)'
      PROVE  wire'[u][i].id <= wire'[u][j].id
  <2>1. PICK d \in {0, 1} : \A k \in 1 .. Len(wire'[u]) :
          \/ wire'[u][k].kind = "kicked"
          \/ k + d \in 1 .. Len(wire[u]) /\ wire'[u][k] = wire[u][k + d]
    BY DEF Remains
  <2>2. /\ i + d \in 1 .. Len(wire[u]) /\ wire'[u][i] = wire[u][i + d]
        /\ j + d \in 1 .. Len(wire[u]) /\ wire'[u][j] = wire[u][j + d]
    BY <1>3, <2>1
  <2>3. i + d < j + d
    BY <1>3
  <2>4. Comparable(wire[u][i + d].id, wire[u][j + d].id)
    BY <1>1, <1>3, <2>2
  <2> QED BY <1>3, <2>2, <2>3, <2>4 DEF WireOrder
<1> QED BY <1>2, <1>3 DEF WireOrder

LEMMA OrderStays ==
  ASSUME OrderInv, CallsStay, UNCHANGED <<messages, sent>>,
         doubtful \subseteq doubtful', cut \subseteq cut',
         \A u \in Users : shown'[u] = shown[u] \/ shown'[u] = <<>>,
         \A u \in Users : Remains(wire'[u], wire[u]),
         \A u \in Users : Len(wire[u]) \in Nat /\ Len(wire'[u]) \in Nat
  PROVE  OrderInv'
<1>1. CallOrder' /\ WireOrder'
  BY WireStays DEF OrderInv
<1>2. \A m, n : Comparable(m, n)' => Comparable(m, n)
  BY DEF Comparable
<1>3. ShownOrder'
  BY <1>2, NoElements DEF OrderInv, ShownOrder
<1>4. ASSUME NEW u \in Users, NEW m \in ToSet(shown'[u]), NEW j \in 1 .. Len(wire'[u]),
             wire'[u][j].kind # "kicked", Comparable(m, wire[u][j].id)'
      PROVE  LET n == wire'[u][j].id
             IN  m <= n \/ n \in ToSet(shown'[u]) \/ <<u, n>> \in cut'
  <2>1. PICK i \in 1 .. Len(wire[u]) : wire'[u][j] = wire[u][i]
    BY <1>4 DEF Remains
  <2>2. shown'[u] = shown[u]
    BY NoElements
  <2> QED BY <1>2, <1>4, <2>1, <2>2 DEF OrderInv, LateOrder
<1> QED BY <1>1, <1>3, <1>4 DEF OrderInv, LateOrder

\* The queues that remain of a queue.
LEMMA QueueRemains ==
  ASSUME NEW w \in Seq(Packet)
  PROVE  /\ Remains(w, w) /\ Remains(<<>>, w)
         /\ w # <<>> => /\ Remains(Tail(w), w) /\ Tail(w) \in Seq(Packet)
                        /\ Len(w) \in Nat \ {0} /\ Len(Tail(w)) = Len(w) - 1
                        /\ Head(w) = w[1] /\ \A i \in 1 .. Len(Tail(w)) : Tail(w)[i] = w[i + 1]
<1>1. Len(w) \in Nat
  OBVIOUS
<1>2. \A i \in 1 .. Len(w) : i + 0 \in 1 .. Len(w) /\ w[i] = w[i + 0]
  BY <1>1
<1>3. Remains(w, w)
  BY <1>2 DEF Remains
<1>4. Remains(<<>>, w)
  BY DEF Remains
<1>5. ASSUME w # <<>>
      PROVE  /\ Remains(Tail(w), w) /\ Tail(w) \in Seq(Packet)
             /\ Len(w) \in Nat \ {0} /\ Len(Tail(w)) = Len(w) - 1
             /\ Head(w) = w[1] /\ \A i \in 1 .. Len(Tail(w)) : Tail(w)[i] = w[i + 1]
  <2>1. /\ Tail(w) \in Seq(Packet) /\ Len(w) \in Nat \ {0} /\ Len(Tail(w)) = Len(w) - 1
        /\ Head(w) = w[1] /\ \A i \in 1 .. Len(Tail(w)) : Tail(w)[i] = w[i + 1]
    BY <1>5
  <2>2. \A i \in 1 .. Len(Tail(w)) : i + 1 \in 1 .. Len(w) /\ Tail(w)[i] = w[i + 1]
    BY <2>1
  <2> QED BY <2>1, <2>2 DEF Remains
<1> QED BY <1>3, <1>4, <1>5

LEMMA KickRemains ==
  ASSUME NEW w \in Seq(Packet)
  PROVE  LET v == w \o Packet1("kicked", 0, 0)
         IN  /\ v \in Seq(Packet) /\ Remains(v, w)
             /\ \A i \in 1 .. Len(w) : i \in 1 .. Len(v) /\ v[i] = w[i]
<1> DEFINE p == [kind |-> "kicked", id |-> 0, no |-> 0]
           v == w \o <<p>>
<1>1. p \in Packet /\ p.kind = "kicked"
  BY DEF Packet
<1> HIDE DEF p
<1>2. /\ v \in Seq(Packet) /\ Len(v) = Len(w) + 1 /\ Len(w) \in Nat
      /\ \A i \in 1 .. Len(w) : v[i] = w[i]
      /\ v[Len(w) + 1] = p
  BY <1>1
<1> HIDE DEF v
<1>3. Remains(v, w)
  <2> SUFFICES ASSUME NEW i \in 1 .. Len(v)
               PROVE  v[i].kind = "kicked" \/ (i + 0 \in 1 .. Len(w) /\ v[i] = w[i + 0])
    BY DEF Remains
  <2>1. CASE i = Len(w) + 1
    BY <1>1, <1>2, <2>1
  <2>2. CASE i \in 1 .. Len(w)
    BY <1>2, <2>2
  <2> QED BY <1>2, <2>1, <2>2
<1>4. v = w \o Packet1("kicked", 0, 0)
  BY DEF v, p, Packet1
<1>5. \A i \in 1 .. Len(w) : i \in 1 .. Len(v) /\ v[i] = w[i]
  BY <1>2
<1> QED BY <1>2, <1>3, <1>4, <1>5
-----------------------------------------------------------------------------
(* The steps of presence and of the form.                                  *)

LEMMA EndRoomStep ==
  ASSUME ChatInv, EndRoom
  PROVE  ChatInv'
<1> USE DEF ChatInv
<1>1. /\ UNCHANGED <<active, inRoom, messages, wire, history, page, shown, form, doubtful, cut,
                     early>>
      /\ open' = FALSE /\ faults' \in 0 .. MaxFaults
  BY DEF EndRoom, Fault, TypeOK
<1>2. DOMAIN call' = DOMAIN call /\ call' = [c \in DOMAIN call' |-> call'[c]]
  BY DEF EndRoom
<1>3. ASSUME NEW c \in DOMAIN call
      PROVE  /\ call'[c] \in Call /\ call'[c].no = call[c].no /\ call'[c].id = call[c].id
             /\ call'[c].pc = call[c].pc
             /\ call[c].pc \in {"member", "save"} => call'[c].over
  <2>1. call[c] \in Call
    BY Typed
  <2>2. call'[c] = [call[c] EXCEPT !.over = @ \/ call[c].pc \in {"member", "save"}]
    BY DEF EndRoom
  <2> QED BY <2>1, <2>2 DEF Call
<1>4. TypeOK'
  <2>1. DOMAIN call' \subseteq Calls /\ call' \in [DOMAIN call' -> Call]
    BY <1>2, <1>3 DEF TypeOK
  <2> QED BY <1>1, <2>1 DEF TypeOK, form
<1>5. CallsStay
  BY <1>2, <1>3 DEF CallsStay
<1>6. \A u \in Users : Remains(wire'[u], wire[u]) /\ Len(wire[u]) \in Nat /\ Len(wire'[u]) \in Nat
  BY <1>1, Typed, QueueRemains
<1>7. IdsInv' /\ SavedInv'
  BY <1>1, <1>5, <1>6, IdsStay, SavedStay DEF IdsInv, form
<1>8. FormInv'
  BY <1>1, <1>5, <1>6, FormStay DEF form
<1>9. CheckInv'
  BY <1>2, <1>3 DEF CheckInv
<1>10. HistoryInv' /\ OrderInv'
  BY <1>1, <1>5, <1>6, HistoryStays, OrderStays DEF form
<1>11. NewsInv'
  <2>1. \A u \in Users : page[u] = "in" => u \in inRoom
    BY DEF NewsInv
  <2> QED BY <1>1, <1>5, <2>1, NewsStay
<1> QED BY <1>4, <1>7, <1>8, <1>9, <1>10, <1>11

LEMMA JoinStep ==
  ASSUME ChatInv, NEW u \in Users, Join(u)
  PROVE  ChatInv'
<1> USE DEF ChatInv
<1>1. /\ UNCHANGED <<open, messages, call, wire, shown, form, past>>
      /\ active' = active \union {u} /\ inRoom' = inRoom \union {u}
      /\ page[u] = "new" /\ page' = [page EXCEPT ![u] = "in"]
      /\ history' = [history EXCEPT ![u].is = "asked"]
  BY DEF Join
<1>2. /\ \A v \in Users \ {u} : page'[v] = page[v] /\ history'[v] = history[v]
      /\ page'[u] = "in" /\ history'[u].is = "asked" /\ history'[u].ids = history[u].ids
      /\ history'[u] \in Answer
  BY <1>1, Typed DEF TypeOK, Answer
<1>3. TypeOK'
  <2>1. history' \in [Users -> Answer]
    BY <1>1, <1>2 DEF TypeOK
  <2>2. page' \in [Users -> {"new", "in", "kicked", "closed"}]
    BY <1>1 DEF TypeOK
  <2> QED BY <1>1, <2>1, <2>2 DEF TypeOK, form, past
<1>4. CallsStay
  BY <1>1 DEF CallsStay
<1>5. \A v \in Users : Remains(wire'[v], wire[v]) /\ Len(wire[v]) \in Nat /\ Len(wire'[v]) \in Nat
  BY <1>1, Typed, QueueRemains
<1>6. IdsInv' /\ SavedInv'
  BY <1>1, <1>2, <1>4, <1>5, IdsStay, SavedStay DEF IdsInv, form
<1>7. FormInv'
  BY <1>1, <1>4, <1>5, FormStay DEF form, past
<1>8. CheckInv'
  BY <1>1 DEF CheckInv, By, form
<1>9. HistoryInv' /\ OrderInv'
  BY <1>1, <1>2, <1>4, <1>5, HistoryStays, OrderStays DEF form, past
<1>10. NewsInv'
  BY <1>1, <1>2 DEF NewsInv, Saved, Coming, At, past
<1> QED BY <1>3, <1>6, <1>7, <1>8, <1>9, <1>10

\* The row of u is closed, and the handlers of u that are past their check are marked.
LEMMA OutlivedCalls ==
  ASSUME TypeOK, CheckInv, NEW u \in Users, call' = Outlived(u),
         UNCHANGED <<open, sent>>, active' = active \ {u}
  PROVE  /\ CallsStay /\ CheckInv'
         /\ DOMAIN call' \subseteq Calls /\ call' \in [DOMAIN call' -> Call]
<1>1. DOMAIN call' = DOMAIN call /\ call' = [c \in DOMAIN call' |-> call'[c]]
  BY DEF Outlived
<1>2. ASSUME NEW c \in DOMAIN call
      PROVE  /\ call'[c] \in Call /\ call'[c].no = call[c].no /\ call'[c].id = call[c].id
             /\ call'[c].pc = call[c].pc /\ (call[c].over => call'[c].over)
             /\ call[c].pc = "save" /\ By(c) = u => call'[c].over
  <2>1. call[c] \in Call
    BY Typed
  <2>2. call'[c] = IF By(c) = u /\ call[c].pc = "save" THEN [call[c] EXCEPT !.over = TRUE]
                   ELSE call[c]
    BY DEF Outlived
  <2>3. CASE By(c) = u /\ call[c].pc = "save"
    BY <2>1, <2>2, <2>3 DEF Call
  <2>4. CASE ~(By(c) = u /\ call[c].pc = "save")
    BY <2>1, <2>2, <2>4
  <2> QED BY <2>3, <2>4
<1>3. CallsStay
  BY <1>1, <1>2 DEF CallsStay
<1>4. CheckInv'
  BY <1>1, <1>2 DEF CheckInv, By
<1>5. DOMAIN call' \subseteq Calls /\ call' \in [DOMAIN call' -> Call]
  BY <1>1, <1>2 DEF TypeOK
<1> QED BY <1>3, <1>4, <1>5

LEMMA KickStep ==
  ASSUME ChatInv, NEW u \in Users, Kick(u)
  PROVE  ChatInv'
<1> USE DEF ChatInv
<1>1. /\ UNCHANGED <<open, inRoom, messages, history, page, shown, form, doubtful, cut, early>>
      /\ faults' \in 0 .. MaxFaults /\ active' = active \ {u} /\ call' = Outlived(u)
      /\ wire' = [wire EXCEPT ![u] = @ \o Packet1("kicked", 0, 0)]
  BY DEF Kick, Fault, TypeOK
<1>2. /\ CallsStay /\ CheckInv'
      /\ DOMAIN call' \subseteq Calls /\ call' \in [DOMAIN call' -> Call]
  BY <1>1, OutlivedCalls DEF form
<1>3. ASSUME NEW v \in Users
      PROVE  /\ wire'[v] \in Seq(Packet) /\ Remains(wire'[v], wire[v])
             /\ \A i \in 1 .. Len(wire[v]) : i \in 1 .. Len(wire'[v]) /\ wire'[v][i] = wire[v][i]
  <2>1. wire[v] \in Seq(Packet) /\ DOMAIN wire = Users
    BY DEF TypeOK
  <2>2. wire'[v] = IF v = u THEN wire[v] \o Packet1("kicked", 0, 0) ELSE wire[v]
    BY <1>1, <2>1
  <2> QED BY <2>1, <2>2, QueueRemains, KickRemains
<1>4. TypeOK'
  <2>1. wire' \in [Users -> Seq(Packet)]
    BY <1>1, <1>3 DEF TypeOK
  <2>2. active' \subseteq Users
    BY <1>1 DEF TypeOK
  <2> QED BY <1>1, <1>2, <2>1, <2>2 DEF TypeOK, form
<1>5. \A v \in Users : Remains(wire'[v], wire[v]) /\ Len(wire[v]) \in Nat /\ Len(wire'[v]) \in Nat
  BY <1>3, Typed
<1>6. IdsInv' /\ SavedInv'
  BY <1>1, <1>2, <1>5, IdsStay, SavedStay DEF IdsInv, form
<1>7. FormInv'
  BY <1>1, <1>2, <1>5, FormStay DEF form
<1>8. HistoryInv' /\ OrderInv'
  BY <1>1, <1>2, <1>5, HistoryStays, OrderStays DEF form
<1>9. NewsInv'
  <2>1. \A v \in Users : page[v] = "in" => v \in inRoom
    BY DEF NewsInv
  <2>2. \A v \in Users : \A i \in 1 .. Len(wire[v]) :
          \E j \in 1 .. Len(wire'[v]) : wire'[v][j] = wire[v][i]
    BY <1>3
  <2> QED BY <1>1, <1>2, <2>1, <2>2, NewsStay
<1> QED BY <1>2, <1>4, <1>6, <1>7, <1>8, <1>9

LEMMA CloseStep ==
  ASSUME ChatInv, NEW u \in Users, Close(u)
  PROVE  ChatInv'
<1> USE DEF ChatInv
<1>1. /\ UNCHANGED <<open, messages, history, form, doubtful, cut, early>>
      /\ faults' \in 0 .. MaxFaults /\ active' = active \ {u} /\ call' = Outlived(u)
      /\ inRoom' = inRoom \ {u} /\ page' = [page EXCEPT ![u] = "closed"]
      /\ wire' = [wire EXCEPT ![u] = <<>>] /\ shown' = [shown EXCEPT ![u] = <<>>]
  BY DEF Close, Fault, TypeOK
<1>2. /\ CallsStay /\ CheckInv'
      /\ DOMAIN call' \subseteq Calls /\ call' \in [DOMAIN call' -> Call]
  BY <1>1, OutlivedCalls DEF form
<1>3. DOMAIN wire = Users /\ DOMAIN shown = Users /\ DOMAIN page = Users
  BY DEF TypeOK
<1>4. /\ wire'[u] = <<>> /\ shown'[u] = <<>> /\ page'[u] = "closed"
      /\ \A v \in Users \ {u} : wire'[v] = wire[v] /\ shown'[v] = shown[v] /\ page'[v] = page[v]
  BY <1>1, <1>3
<1>5. <<>> \in Seq(Packet) /\ <<>> \in SeqOf(Ids, Recent)
  <2>1. <<>> \in Seq(Ids) /\ Len(<<>>) <= Recent /\ Recent \in Nat
    OBVIOUS
  <2>2. <<>> \in SeqOf(Ids, Recent)
    BY <2>1, SeqOfSeq
  <2>3. <<>> \in Seq(Packet)
    OBVIOUS
  <2> QED BY <2>2, <2>3
<1>6. TypeOK'
  <2>1. wire' \in [Users -> Seq(Packet)] /\ shown' \in [Users -> SeqOf(Ids, Recent)]
    BY <1>1, <1>5 DEF TypeOK
  <2>2. active' \subseteq Users /\ inRoom' \subseteq Users
    BY <1>1 DEF TypeOK
  <2>3. page' \in [Users -> {"new", "in", "kicked", "closed"}]
    BY <1>1 DEF TypeOK
  <2> QED BY <1>1, <1>2, <2>1, <2>2, <2>3 DEF TypeOK, form
<1>7. \A v \in Users : Remains(wire'[v], wire[v]) /\ Len(wire[v]) \in Nat /\ Len(wire'[v]) \in Nat
  BY <1>4, Typed, QueueRemains
<1>8. IdsInv'
  <2>1. \A v \in Users : /\ ToSet(shown'[v]) \subseteq Saved
                         /\ ToSet(history'[v].ids) \subseteq Saved
    BY <1>1, <1>4, NoElements DEF IdsInv
  <2> QED BY <1>1, <1>2, <1>7, <2>1, IdsStay DEF form
<1>9. SavedInv'
  BY <1>1, <1>2, SavedStay DEF form
<1>10. FormInv'
  BY <1>1, <1>2, <1>7, FormStay DEF form
<1>11. HistoryInv' /\ OrderInv'
  BY <1>1, <1>2, <1>4, <1>7, HistoryStays, OrderStays DEF form
<1>12. NewsInv'
  <2>1. \A v \in Users : page'[v] = "in" => page[v] = "in" /\ v # u /\ v \in inRoom'
    BY <1>1, <1>4 DEF NewsInv
  <2> QED BY <1>1, <1>2, <1>4, <2>1, NewsStay
<1> QED BY <1>2, <1>6, <1>8, <1>9, <1>10, <1>11, <1>12

LEMMA TypeStep ==
  ASSUME ChatInv, NEW u \in Users, Type(u)
  PROVE  ChatInv'
<1> USE DEF ChatInv
<1>1. /\ UNCHANGED <<room, call, wire, history, page, shown, sent, sending, past>>
      /\ typed < MaxTexts /\ typed' = typed + 1 /\ draft' = [draft EXCEPT ![u] = typed']
  BY DEF Type
<1>2. typed \in 0 .. MaxTexts /\ typed' \in 0 .. MaxTexts
  BY <1>1 DEF TypeOK
<1>3. draft'[u] = typed + 1 /\ \A v \in Users \ {u} : draft'[v] = draft[v]
  BY <1>1 DEF TypeOK
<1>4. TypeOK'
  <2>1. draft' \in [Users -> 0 .. MaxTexts]
    BY <1>1, <1>2 DEF TypeOK
  <2> QED BY <1>1, <1>2, <2>1 DEF TypeOK, room, past
<1>5. CallsStay
  BY <1>1 DEF CallsStay
<1>6. \A v \in Users : Remains(wire'[v], wire[v]) /\ Len(wire[v]) \in Nat /\ Len(wire'[v]) \in Nat
  BY <1>1, Typed, QueueRemains
<1>7. IdsInv' /\ SavedInv'
  BY <1>1, <1>5, <1>6, IdsStay, SavedStay DEF IdsInv, room
<1>8. FormInv'
  <2>1. \A v \in Users : draft[v] \in Nat
    BY DEF TypeOK
  <2>2. \A v \in Users : draft'[v] <= typed'
    BY <1>1, <1>2, <1>3, <2>1 DEF FormInv
  <2>3. ASSUME NEW a \in 1 .. Len(sent)
        PROVE  /\ sent[a].text <= typed'
               /\ \/ a \in doubtful \/ sending[sent[a].by] = a
                  \/ draft'[sent[a].by] # sent[a].text
    <3>1. sent[a].by \in Users /\ sent[a].text \in Nat /\ sent[a].text <= typed
      BY Typed DEF FormInv, Texts
    <3> QED BY <1>1, <1>2, <1>3, <3>1 DEF FormInv
  <2> QED BY <1>1, <2>2, <2>3 DEF FormInv, past, By
<1>9. CheckInv'
  BY <1>1 DEF CheckInv, By, room
<1>10. HistoryInv' /\ OrderInv'
  BY <1>1, <1>5, <1>6, HistoryStays, OrderStays DEF room, past
<1>11. NewsInv'
  <2>1. \A v \in Users : page[v] = "in" => v \in inRoom
    BY DEF NewsInv
  <2> QED BY <1>1, <1>5, <2>1, NewsStay DEF room, past
<1> QED BY <1>4, <1>7, <1>8, <1>9, <1>10, <1>11

LEMMA TimeOutStep ==
  ASSUME ChatInv, NEW u \in Users, TimeOut(u)
  PROVE  ChatInv'
<1> USE DEF ChatInv
<1>1. /\ UNCHANGED <<room, call, wire, history, page, shown, draft, sent, typed, cut, early>>
      /\ faults' \in 0 .. MaxFaults /\ sending[u] # 0
      /\ sending' = [sending EXCEPT ![u] = 0] /\ doubtful' = doubtful \union {sending[u]}
  BY DEF TimeOut, Fault, TypeOK
<1>2. /\ sending \in [Users -> 0 .. Len(sent)] /\ Len(sent) \in Nat
      /\ sending[u] \in 1 .. Len(sent)
  <2>1. sending \in [Users -> 0 .. Len(sent)]
    BY DEF TypeOK
  <2>2. Len(sent) \in Nat
    BY Typed
  <2>3. sending[u] \in 0 .. Len(sent)
    BY <2>1
  <2> QED BY <1>1, <2>1, <2>2, <2>3
<1>3. sending'[u] = 0 /\ \A v \in Users \ {u} : sending'[v] = sending[v]
  BY <1>1, <1>2
<1>4. TypeOK'
  <2>1. sending' \in [Users -> 0 .. Len(sent)]
    BY <1>1, <1>2
  <2>2. doubtful' \subseteq 1 .. Len(sent)
    BY <1>1, <1>2 DEF TypeOK
  <2> QED BY <1>1, <2>1, <2>2 DEF TypeOK, room
<1>5. CallsStay
  BY <1>1 DEF CallsStay
<1>6. \A v \in Users : Remains(wire'[v], wire[v]) /\ Len(wire[v]) \in Nat /\ Len(wire'[v]) \in Nat
  BY <1>1, Typed, QueueRemains
<1>7. IdsInv' /\ SavedInv'
  BY <1>1, <1>5, <1>6, IdsStay, SavedStay DEF IdsInv, room
<1>8. FormInv'
  <2>1. \A a \in 1 .. Len(sent) :
          \/ a \in doubtful' \/ sending'[sent[a].by] = a \/ draft[sent[a].by] # sent[a].text
    <3> SUFFICES ASSUME NEW a \in 1 .. Len(sent), a \notin doubtful'
                 PROVE  sending'[sent[a].by] = a \/ draft[sent[a].by] # sent[a].text
      OBVIOUS
    <3>1. sent[a].by \in Users
      BY Typed
    <3> QED BY <1>1, <1>3, <3>1 DEF FormInv
  <2>2. \A c \in DOMAIN call : call[c].no \in doubtful' \/ sending'[By(c)] = call[c].no
    <3> SUFFICES ASSUME NEW c \in DOMAIN call, call[c].no \notin doubtful'
                 PROVE  sending'[By(c)] = call[c].no
      OBVIOUS
    <3>1. By(c) \in Users
      BY Typed DEF By, IdsInv
    <3> QED BY <1>1, <1>3, <3>1 DEF FormInv
  <2> QED BY <1>1, <2>1, <2>2 DEF FormInv, By
<1>9. CheckInv'
  BY <1>1 DEF CheckInv, By, room
<1>10. HistoryInv' /\ OrderInv'
  BY <1>1, <1>5, <1>6, HistoryStays, OrderStays DEF room
<1>11. NewsInv'
  <2>1. \A v \in Users : page[v] = "in" => v \in inRoom
    BY DEF NewsInv
  <2> QED BY <1>1, <1>5, <2>1, NewsStay DEF room
<1> QED BY <1>4, <1>7, <1>8, <1>9, <1>10, <1>11

\* A request is new, and its text is that of no request that was acknowledged.
LEMMA SendStep ==
  ASSUME ChatInv, NEW c \in Calls, NEW u \in Users, Send(c, u)
  PROVE  ChatInv'
<1> USE DEF ChatInv
<1>1. /\ UNCHANGED <<room, wire, history, page, shown, draft, typed, past>>
      /\ page[u] = "in" /\ draft[u] # 0 /\ sending[u] = 0
      /\ c \notin DOMAIN call /\ Len(sent) < MaxSends
      /\ sent' = Append(sent, [by |-> u, text |-> draft[u]])
      /\ sending' = [sending EXCEPT ![u] = Len(sent')]
  BY DEF Send
<1>2. /\ sent \in Seq(Message) /\ Len(sent) \in Nat /\ draft[u] \in Texts
      /\ [by |-> u, text |-> draft[u]] \in Message
  <2>1. draft[u] \in Texts
    BY <1>1 DEF TypeOK, Texts
  <2> QED BY <2>1, Typed DEF Message
<1>3. /\ Len(sent') = Len(sent) + 1 /\ sent' \in Seq(Message)
      /\ \A a \in 1 .. Len(sent) : sent'[a] = sent[a]
      /\ sent'[Len(sent) + 1] = [by |-> u, text |-> draft[u]]
  BY <1>1, <1>2
<1>4. /\ sending'[u] = Len(sent) + 1 /\ \A v \in Users \ {u} : sending'[v] = sending[v]
      /\ sending \in [Users -> 0 .. Len(sent)]
  <2>1. sending \in [Users -> 0 .. Len(sent)]
    BY DEF TypeOK
  <2> QED BY <1>1, <1>3, <2>1
<1>5. /\ DOMAIN call' = DOMAIN call \union {c}
      /\ call'[c] = [no |-> Len(sent) + 1, pc |-> "room", id |-> 0, over |-> FALSE]
      /\ \A d \in DOMAIN call : call'[d] = call[d]
      /\ call' = [d \in DOMAIN call' |-> call'[d]]
  BY <1>1, <1>3 DEF Send
<1>6. \A d \in DOMAIN call : call[d].no \in 1 .. Len(sent) /\ sent'[call[d].no] = sent[call[d].no]
  BY <1>3 DEF IdsInv
<1>7. TypeOK'
  <2>1. call'[c] \in Call
    BY <1>1, <1>2, <1>5 DEF Call, Ids
  <2>2. \A d \in DOMAIN call' : d \in Calls /\ call'[d] \in Call
    BY <1>5, <2>1, Typed
  <2>3. DOMAIN call' \subseteq Calls /\ call' \in [DOMAIN call' -> Call]
    BY <1>5, <2>2
  <2>4. sent' \in SeqOf(Message, MaxSends)
    <3>1. Len(sent') <= MaxSends
      BY <1>1, <1>2, <1>3
    <3> QED BY <1>3, <3>1, SeqOfSeq
  <2>5. sending' \in [Users -> 0 .. Len(sent')]
    BY <1>1, <1>2, <1>3, <1>4
  <2>6. Len(messages) <= Len(sent') /\ doubtful \subseteq 1 .. Len(sent')
    <3>1. Len(messages) \in Nat /\ Len(messages) <= Len(sent)
      BY Typed
    <3>2. doubtful \subseteq 1 .. Len(sent)
      BY DEF TypeOK
    <3>3. 1 .. Len(sent) \subseteq 1 .. Len(sent')
      BY <1>2, <1>3
    <3>4. Len(messages) <= Len(sent')
      BY <1>2, <1>3, <3>1
    <3> QED BY <3>2, <3>3, <3>4
  <2> QED BY <1>1, <2>3, <2>4, <2>5, <2>6 DEF TypeOK, room, past
<1>8. IdsInv'
  <2>1. \A d \in DOMAIN call' :
          /\ call'[d].no \in 1 .. Len(sent')
          /\ call'[d].pc = "announce" => /\ call'[d].id \in Saved
                                         /\ messages[call'[d].id] = sent'[call'[d].no]
    BY <1>2, <1>3, <1>5, <1>6 DEF IdsInv
  <2> QED BY <1>1, <1>2, <1>3, <2>1 DEF IdsInv, Saved, room
<1>9. SavedInv'
  <2>1. PICK f \in [Saved -> 1 .. Len(sent)] : Requests(f)
    BY DEF SavedInv
  <2>2. f \in [Saved -> 1 .. Len(sent')]
    BY <1>2, <1>3
  <2>3. \A i \in Saved : f[i] \in 1 .. Len(sent) /\ f[i] # Len(sent) + 1
    BY <1>2
  <2>4. Requests(f)'
    BY <1>1, <1>3, <1>5, <2>1, <2>2, <2>3 DEF Requests, Saved, room
  <2>5. \A d, e \in DOMAIN call' : call'[d].no = call'[e].no => d = e
    BY <1>2, <1>5, <1>6 DEF SavedInv
  <2> QED BY <1>1, <2>2, <2>4, <2>5 DEF SavedInv, Saved, room
<1>10. FormInv'
  <2>1. ASSUME NEW a \in 1 .. Len(sent), sent[a].by = u
        PROVE  a \in doubtful \/ draft[u] # sent[a].text
    BY <1>1, <1>2, <2>1 DEF FormInv
  <2>2. ASSUME NEW a \in 1 .. Len(sent')
        PROVE  /\ sent'[a].text <= typed
               /\ \/ a \in doubtful \/ sending'[sent'[a].by] = a
                  \/ draft[sent'[a].by] # sent'[a].text
    <3>1. CASE a = Len(sent) + 1
      BY <1>3, <1>4, <3>1 DEF FormInv
    <3>2. CASE a \in 1 .. Len(sent)
      <4>1. sent[a].by \in Users /\ sent'[a] = sent[a]
        BY <1>3, <3>2, Typed
      <4> QED BY <1>4, <2>1, <3>2, <4>1 DEF FormInv
    <3> QED BY <1>2, <1>3, <3>1, <3>2
  <2>3. ASSUME NEW a \in 1 .. Len(sent'), NEW b \in 1 .. Len(sent'), a # b, sent'[a] = sent'[b]
        PROVE  {a, b} \intersect doubtful # {}
    <3>1. CASE a \in 1 .. Len(sent) /\ b \in 1 .. Len(sent)
      BY <1>3, <2>3, <3>1 DEF FormInv
    <3>2. CASE a \in 1 .. Len(sent) /\ b = Len(sent) + 1
      BY <1>3, <2>1, <2>3, <3>2
    <3>3. CASE b \in 1 .. Len(sent) /\ a = Len(sent) + 1
      BY <1>3, <2>1, <2>3, <3>3
    <3> QED BY <1>2, <1>3, <2>3, <3>1, <3>2, <3>3
  <2>4. ASSUME NEW d \in DOMAIN call'
        PROVE  call'[d].no \in doubtful \/ sending'[sent'[call'[d].no].by] = call'[d].no
    <3>1. CASE d = c
      BY <1>3, <1>4, <1>5, <3>1
    <3>2. CASE d # c
      <4>1. /\ d \in DOMAIN call /\ call'[d] = call[d] /\ call[d].no \in 1 .. Len(sent)
            /\ sent[call[d].no].by \in Users
        BY <1>5, <1>6, <3>2, Typed
      <4> QED BY <1>1, <1>4, <1>6, <4>1 DEF FormInv, By
    <3> QED BY <3>1, <3>2
  <2>5. ASSUME NEW v \in Users, NEW i \in 1 .. Len(wire[v]), NEW d \in DOMAIN call',
               wire[v][i].kind = "ack"
        PROVE  wire[v][i].no # call'[d].no
    BY <1>2, <1>5, <2>5 DEF FormInv, IdsInv
  <2>6. (\A v \in Users : draft[v] <= typed)'
    BY <1>1 DEF FormInv
  <2>7. (\A v \in Users : \A i \in 1 .. Len(wire[v]) : \A d \in DOMAIN call :
           wire[v][i].kind = "ack" => wire[v][i].no # call[d].no)'
    BY <1>1, <2>5
  <2>8. (\A a, b \in 1 .. Len(sent) : a # b /\ sent[a] = sent[b] => {a, b} \intersect doubtful # {})'
    BY <1>1, <2>3 DEF past
  <2>9. (\A d \in DOMAIN call : call[d].no \in doubtful \/ sending[By(d)] = call[d].no)'
    BY <1>1, <2>4 DEF past, By
  <2>10. (\A a \in 1 .. Len(sent) :
            /\ sent[a].text <= typed
            /\ a \in doubtful \/ sending[sent[a].by] = a \/ draft[sent[a].by] # sent[a].text)'
    BY <1>1, <2>2 DEF past
  <2> QED BY <2>6, <2>7, <2>8, <2>9, <2>10 DEF FormInv
<1>11. CheckInv'
  <2>1. \A d \in DOMAIN call : By(d)' = By(d)
    BY <1>5, <1>6 DEF By
  <2> QED BY <1>1, <1>5, <2>1 DEF CheckInv, room
<1>12. \A m, n : Comparable(m, n)' => Comparable(m, n)
  <2>1. \A no \in doubtful : sent'[no] = sent[no]
    BY <1>3 DEF TypeOK
  <2> QED BY <1>1, <2>1 DEF Comparable, room, past
<1>13. HistoryInv'
  BY <1>1, HistoryStays DEF room, past
<1>14. NewsInv'
  <2>1. \A v \in Users, id \in Saved : Coming(v, id) => Coming(v, id)'
    BY <1>1, <1>5 DEF Coming, At
  <2> QED BY <1>1, <2>1 DEF NewsInv, Saved, room, past
<1>15. CallOrder'
  BY <1>1, <1>5, <1>12 DEF OrderInv, CallOrder, Saved, room
<1>16. WireOrder'
  BY <1>1, <1>12 DEF OrderInv, WireOrder
<1>17. ShownOrder'
  <2>1. shown' = shown /\ cut' = cut
    BY <1>1 DEF past
  <2>2. ShownOrder
    BY DEF OrderInv
  <2> QED BY <1>12, <2>1, <2>2 DEF ShownOrder
<1>18. LateOrder'
  BY <1>1, <1>12 DEF OrderInv, LateOrder, past
<1> QED BY <1>7, <1>8, <1>9, <1>10, <1>11, <1>13, <1>14, <1>15, <1>16, <1>17, <1>18 DEF OrderInv
-----------------------------------------------------------------------------
(* The steps of the backend.                                               *)

\* A handler goes on to the next check, or ends there.
LEMMA CheckStep ==
  ASSUME ChatInv, NEW c \in Calls, NEW pc \in {"member", "save"}, c \in DOMAIN call,
         call[c].pc \in {"room", "member"},
         \/ End(c)
         \/ /\ call' = [call EXCEPT ![c].pc = pc]
            /\ pc = "member" => open
            /\ pc = "save" => (open /\ By(c) \in active) \/ call[c].over,
         UNCHANGED <<room, wire, history, page, shown, form, past>>
  PROVE  ChatInv'
<1> USE DEF ChatInv
<1>1. call[c] \in Call /\ call \in [DOMAIN call -> Call]
  BY Typed DEF TypeOK
<1>2. /\ DOMAIN call' \subseteq DOMAIN call /\ call' \in [DOMAIN call' -> Call]
      /\ \A d \in DOMAIN call \ {c} : d \in DOMAIN call' /\ call'[d] = call[d]
      /\ c \in DOMAIN call' => /\ call'[c].pc = pc /\ call'[c].no = call[c].no
                               /\ call'[c].id = call[c].id /\ call'[c].over = call[c].over
                               /\ pc = "member" => open
                               /\ pc = "save" => (open /\ By(c) \in active) \/ call[c].over
  <2>1. CASE End(c)
    <3>1. DOMAIN call' = DOMAIN call \ {c} /\ \A d \in DOMAIN call \ {c} : call'[d] = call[d]
      BY <2>1 DEF End
    <3>2. call' = [d \in DOMAIN call' |-> call'[d]]
      BY <2>1 DEF End
    <3> QED BY <1>1, <3>1, <3>2
  <2>2. CASE /\ call' = [call EXCEPT ![c].pc = pc]
             /\ pc = "member" => open
             /\ pc = "save" => (open /\ By(c) \in active) \/ call[c].over
    <3>1. call'[c] = [call[c] EXCEPT !.pc = pc]
      BY <2>2
    <3>2. /\ call'[c] \in Call /\ call'[c].pc = pc /\ call'[c].no = call[c].no
          /\ call'[c].id = call[c].id /\ call'[c].over = call[c].over
      BY <1>1, <3>1 DEF Call
    <3>3. DOMAIN call' = DOMAIN call /\ \A d \in DOMAIN call \ {c} : call'[d] = call[d]
      BY <2>2
    <3>4. call' \in [DOMAIN call' -> Call]
      BY <1>1, <2>2, <3>2, <3>3
    <3> QED BY <2>2, <3>2, <3>3, <3>4
  <2> QED BY <2>1, <2>2
<1>3. TypeOK'
  BY <1>2 DEF TypeOK, room, form, past
<1>4. CallsStay
  BY <1>2 DEF CallsStay
<1>5. \A v \in Users : Remains(wire'[v], wire[v]) /\ Len(wire[v]) \in Nat /\ Len(wire'[v]) \in Nat
  BY Typed, QueueRemains
<1>6. IdsInv' /\ SavedInv'
  BY <1>4, <1>5, IdsStay, SavedStay DEF IdsInv, room, form
<1>7. FormInv'
  BY <1>4, <1>5, FormStay DEF form, past
<1>8. CheckInv'
  <2>1. \A d \in DOMAIN call' : call'[d].no = call[d].no
    BY <1>2
  <2>2. open' = open /\ active' = active /\ sent' = sent
    BY DEF room, form
  <2>3. \A d \in DOMAIN call' : By(d)' = By(d)
    BY <2>1, <2>2 DEF By
  <2> SUFFICES ASSUME NEW d \in DOMAIN call'
               PROVE  /\ call'[d].pc = "member" => open \/ call'[d].over
                      /\ call'[d].pc = "save" => (open /\ By(d) \in active) \/ call'[d].over
    BY <2>2, <2>3 DEF CheckInv
  <2>4. CASE d = c
    BY <1>2, <2>4
  <2>5. CASE d # c
    BY <1>2, <2>5 DEF CheckInv
  <2> QED BY <2>4, <2>5
<1>9. HistoryInv' /\ OrderInv'
  BY <1>4, <1>5, HistoryStays, OrderStays DEF room, form, past
<1>10. NewsInv'
  <2>1. \A v \in Users : page[v] = "in" => v \in inRoom
    BY DEF NewsInv
  <2> QED BY <1>4, <2>1, NewsStay DEF room, past
<1> QED BY <1>3, <1>6, <1>7, <1>8, <1>9, <1>10

LEMMA CheckRoomStep ==
  ASSUME ChatInv, NEW c \in Calls, CheckRoom(c)
  PROVE  ChatInv'
<1>1. call[c].pc = "room" /\ c \in DOMAIN call /\ "member" \in {"member", "save"}
  BY DEF CheckRoom, At
<1>2. End(c) \/ (call' = [call EXCEPT ![c].pc = "member"] /\ open)
  BY DEF CheckRoom
<1>3. UNCHANGED <<room, wire, history, page, shown, form, past>>
  BY DEF CheckRoom
<1> QED BY <1>1, <1>2, <1>3, CheckStep

LEMMA CheckMemberStep ==
  ASSUME ChatInv, NEW c \in Calls, CheckMember(c)
  PROVE  ChatInv'
<1>1. /\ call[c].pc = "member" /\ c \in DOMAIN call /\ (open \/ call[c].over)
      /\ "save" \in {"member", "save"}
  BY DEF CheckMember, At, ChatInv, CheckInv
<1>2. End(c) \/ (call' = [call EXCEPT ![c].pc = "save"] /\ By(c) \in active)
  BY DEF CheckMember
<1>3. UNCHANGED <<room, wire, history, page, shown, form, past>>
  BY DEF CheckMember
<1> QED BY <1>1, <1>2, <1>3, CheckStep

\* The handlers but c stay, and c has saved.
LEMMA SaveCalls ==
  ASSUME TypeOK, NEW c \in Calls, Save(c)
  PROVE  /\ c \in DOMAIN call /\ call[c].pc = "save" /\ DOMAIN call' = DOMAIN call
         /\ call' \in [DOMAIN call -> [no : Ids, pc : {"room", "member", "save", "announce"},
                                       id : Nat, over : BOOLEAN]]
         /\ \A d \in DOMAIN call : /\ call'[d].no = call[d].no
                                   /\ d # c => call'[d] = call[d]
         /\ call'[c].pc = "announce" /\ call'[c].id = Len(messages) + 1
         /\ call'[c].over = call[c].over
<1>1. call \in [DOMAIN call -> Call] /\ c \in DOMAIN call /\ call[c].pc = "save"
  BY DEF TypeOK, Save, At
<1>2. Len(messages) + 1 \in Nat
  BY Typed
<1>3. DOMAIN call' = DOMAIN call /\ call' = [d \in DOMAIN call |-> call'[d]]
  BY <1>1 DEF Save
<1>4. call'[c] = [call[c] EXCEPT !.pc = "announce", !.id = Len(messages) + 1]
  BY <1>1 DEF Save
<1>5. \A d \in DOMAIN call : d # c => call'[d] = call[d]
  BY <1>1 DEF Save
<1>6. \A d \in DOMAIN call : call[d] \in Call /\ call[d].id \in Nat
  BY <1>1 DEF Call
<1>7. /\ call'[c].no = call[c].no /\ call'[c].pc = "announce"
      /\ call'[c].id = Len(messages) + 1 /\ call'[c].over = call[c].over
      /\ call'[c] \in [no : Ids, pc : {"room", "member", "save", "announce"},
                       id : Nat, over : BOOLEAN]
  BY <1>1, <1>2, <1>4, <1>6 DEF Call
<1>8. \A d \in DOMAIN call :
        call'[d] \in [no : Ids, pc : {"room", "member", "save", "announce"},
                      id : Nat, over : BOOLEAN]
  BY <1>5, <1>6, <1>7 DEF Call
<1> QED BY <1>1, <1>3, <1>5, <1>7, <1>8

\* The request of c joins those that were saved, of which there are fewer than were sent.
LEMMA SaveRequests ==
  ASSUME TypeOK, IdsInv, SavedInv, NEW c \in Calls, Save(c)
  PROVE  SavedInv' /\ Len(messages) + 1 <= Len(sent)
<1> DEFINE n == Len(messages) + 1
<1>1. /\ c \in DOMAIN call /\ call[c].pc = "save" /\ DOMAIN call' = DOMAIN call
      /\ \A d \in DOMAIN call : /\ call'[d].no = call[d].no
                                /\ d # c => call'[d] = call[d]
      /\ call'[c].pc = "announce"
  BY SaveCalls
<1>2. /\ messages \in Seq(Message) /\ n \in Nat \ {0} /\ Len(messages) \in Nat
      /\ Len(sent) \in Nat /\ Saved = 1 .. n - 1 /\ n \notin Saved
      /\ 1 .. n = Saved \union {n}
  BY Typed DEF Saved
<1>3. call[c].no \in 1 .. Len(sent) /\ sent[call[c].no] \in Message
  BY <1>1, Typed DEF IdsInv
<1>4. /\ messages' = Append(messages, sent[call[c].no]) /\ sent' = sent
  BY DEF Save, form
<1>5. /\ Len(messages') = n /\ messages'[n] = sent[call[c].no]
      /\ \A m \in Saved : messages'[m] = messages[m]
  BY <1>2, <1>3, <1>4 DEF Saved
<1>6. PICK f \in [Saved -> 1 .. Len(sent)] : Requests(f)
  BY DEF SavedInv
<1> HIDE DEF n
<1>0. PICK g : g = [i \in 1 .. n |-> IF i = n THEN call[c].no ELSE f[i]]
  OBVIOUS
<1>7. g \in [1 .. n -> 1 .. Len(sent)]
  BY <1>0, <1>2, <1>3
<1>8. /\ g[n] = call[c].no /\ \A i \in Saved : g[i] = f[i] /\ g[i] # call[c].no
      /\ \A i, j \in Saved : f[i] = f[j] => i = j
  BY <1>0, <1>1, <1>2, <1>6 DEF Requests
<1>9. \A i, j \in 1 .. n : g[i] = g[j] => i = j
  BY <1>2, <1>8
<1>10. Requests(g)'
  <2>1. Saved' = 1 .. n /\ Len(sent') = Len(sent)
    BY <1>4, <1>5 DEF Saved
  <2>2. \A i \in 1 .. n : messages'[i] = sent'[g[i]]
    BY <1>2, <1>4, <1>5, <1>6, <1>8 DEF Requests
  <2>3. \A i \in 1 .. n : \A d \in DOMAIN call' : call'[d].pc # "announce" => g[i] # call'[d].no
    <3> SUFFICES ASSUME NEW i \in 1 .. n, NEW d \in DOMAIN call, d # c,
                        call[d].pc # "announce"
                 PROVE  g[i] # call[d].no
      BY <1>1
    <3>1. CASE i = n
      BY <1>1, <1>8, <3>1 DEF SavedInv
    <3>2. CASE i \in Saved
      BY <1>6, <1>8, <3>2 DEF Requests
    <3> QED BY <1>2, <3>1, <3>2
  <2> QED BY <1>7, <1>9, <2>1, <2>2, <2>3 DEF Requests
<1>11. SavedInv'
  <2>1. \A d, e \in DOMAIN call' : call'[d].no = call'[e].no => d = e
    BY <1>1 DEF SavedInv
  <2>2. g \in [Saved' -> 1 .. Len(sent')]
    BY <1>4, <1>5, <1>7 DEF Saved
  <2> QED BY <1>10, <2>1, <2>2 DEF SavedInv
<1>12. n <= Len(sent)
  <2> SUFFICES ASSUME Len(sent) < n PROVE FALSE
    BY <1>2
  <2>1. \A k \in Nat : IsFiniteSet(1 .. k) /\ Cardinality(1 .. k) = k
    <3> SUFFICES ASSUME NEW k \in Nat PROVE IsFiniteSet(1 .. k) /\ Cardinality(1 .. k) = k
      OBVIOUS
    <3>1. IsFiniteSet(1 .. k) /\ Cardinality(1 .. k) = IF 1 > k THEN 0 ELSE k - 1 + 1
      BY FS_Interval
    <3> QED BY <3>1
  <2>2. \A h \in [1 .. n -> 1 .. Len(sent)] : \E i, j \in 1 .. n : i # j /\ h[i] = h[j]
    <3>1. /\ IsFiniteSet(1 .. n) /\ IsFiniteSet(1 .. Len(sent))
          /\ Cardinality(1 .. Len(sent)) < Cardinality(1 .. n)
      BY <1>2, <2>1
    <3> QED BY <3>1, FS_PigeonHole
  <2> QED BY <1>7, <1>9, <2>2
<1> QED BY <1>11, <1>12 DEF n

\* Two requests of one person are not in flight together, unless one is doubtful.
LEMMA OneInFlight ==
  ASSUME TypeOK, IdsInv, SavedInv, FormInv, NEW c \in DOMAIN call, NEW d \in DOMAIN call,
         By(c) = By(d), \A no \in doubtful : sent[no].by # By(c)
  PROVE  c = d
<1>1. call[c].no \notin doubtful /\ call[d].no \notin doubtful
  BY DEF By
<1>2. call[c].no = call[d].no
  BY <1>1 DEF FormInv
<1> QED BY <1>2 DEF SavedInv

LEMMA SaveStep ==
  ASSUME ChatInv, NEW c \in Calls, Save(c)
  PROVE  ChatInv'
<1> USE DEF ChatInv
<1>0. PICK n : n = Len(messages) + 1
  OBVIOUS
<1>1. /\ UNCHANGED <<open, active, inRoom, wire, history, page, shown, form, past>>
      /\ messages' = Append(messages, sent[call[c].no])
  BY DEF Save
<1>2. /\ c \in DOMAIN call /\ call[c].pc = "save" /\ DOMAIN call' = DOMAIN call
      /\ call' \in [DOMAIN call -> [no : Ids, pc : {"room", "member", "save", "announce"},
                                    id : Nat, over : BOOLEAN]]
      /\ \A d \in DOMAIN call : /\ call'[d].no = call[d].no
                                /\ d # c => call'[d] = call[d]
      /\ call'[c].pc = "announce" /\ call'[c].id = n
      /\ call'[c].over = call[c].over
  BY <1>0, SaveCalls
<1>3. SavedInv' /\ n <= Len(sent)
  BY <1>0, SaveRequests
<1>4. /\ messages \in Seq(Message) /\ Len(messages) \in Nat /\ n \in Nat \ {0}
      /\ Len(sent) \in Nat /\ Len(sent) <= MaxSends
      /\ call[c].no \in 1 .. Len(sent) /\ sent[call[c].no] \in Message
  BY <1>0, <1>2, Typed DEF IdsInv
<1>5. /\ messages' \in Seq(Message) /\ Len(messages') = n
      /\ messages'[n] = sent[call[c].no] /\ \A m \in Saved : messages'[m] = messages[m]
  BY <1>0, <1>1, <1>4 DEF Saved
<1>6. /\ Saved' = Saved \union {n} /\ n \notin Saved /\ Saved \subseteq Nat
      /\ \A m \in Saved : m < n
  BY <1>0, <1>4, <1>5 DEF Saved
<1>7. \A d \in DOMAIN call : By(d)' = By(d)
  BY <1>1, <1>2 DEF By, form
<1>8. TypeOK'
  <2>1. \A d \in DOMAIN call' : d \in Calls /\ call'[d] \in Call
    <3>1. call'[c] \in Call
      BY <1>2, <1>3, <1>4 DEF Call
    <3> QED BY <1>2, <3>1, Typed
  <2>2. DOMAIN call' \subseteq Calls /\ call' \in [DOMAIN call' -> Call]
    BY <1>2, <2>1
  <2> QED BY <1>1, <1>3, <1>5, <2>2 DEF TypeOK, form, past
<1>9. IdsInv'
  <2>1. \A d \in DOMAIN call' :
          /\ call'[d].no \in 1 .. Len(sent)
          /\ call'[d].pc = "announce" => /\ call'[d].id \in Saved'
                                         /\ messages'[call'[d].id] = sent[call'[d].no]
    <3> SUFFICES ASSUME NEW d \in DOMAIN call
                 PROVE  /\ call'[d].no \in 1 .. Len(sent)
                        /\ call'[d].pc = "announce" =>
                             /\ call'[d].id \in Saved'
                             /\ messages'[call'[d].id] = sent[call'[d].no]
      BY <1>2
    <3>1. CASE d = c
      BY <1>2, <1>4, <1>5, <1>6, <3>1
    <3>2. CASE d # c
      BY <1>2, <1>5, <1>6, <3>2 DEF IdsInv
    <3> QED BY <3>1, <3>2
  <2> QED BY <1>1, <1>6, <2>1 DEF IdsInv, form
<1>10. FormInv'
  BY <1>1, <1>2, <1>7 DEF FormInv, form, past
<1>11. CheckInv'
  <2> SUFFICES ASSUME NEW d \in DOMAIN call
               PROVE  /\ call'[d].pc = "member" => open \/ call'[d].over
                      /\ call'[d].pc = "save" => (open /\ By(d) \in active) \/ call'[d].over
    BY <1>1, <1>2, <1>7 DEF CheckInv
  <2>1. CASE d = c
    BY <1>2, <2>1
  <2>2. CASE d # c
    BY <1>2, <2>2 DEF CheckInv
  <2> QED BY <2>1, <2>2
<1>12. \A v \in Users : /\ ToSet(history[v].ids) \subseteq Saved
                        /\ ToSet(shown[v]) \subseteq Saved
  BY DEF IdsInv
<1>13. HistoryInv'
  <2> SUFFICES ASSUME NEW v \in Users, history[v].is = "sent", NEW id \in Saved'
               PROVE  \/ id \in ToSet(history[v].ids) \/ \A j \in ToSet(history[v].ids) : j < id
                      \/ Len(history[v].ids) = Recent /\ <<v, id>> \in cut
    BY <1>1 DEF HistoryInv, past
  <2>1. CASE id = n
    BY <1>6, <1>12, <2>1
  <2>2. CASE id \in Saved
    BY <2>2 DEF HistoryInv
  <2> QED BY <1>6, <2>1, <2>2
<1>14. NewsInv'
  <2>1. \A v \in Users : \A id \in Saved : Coming(v, id) => Coming(v, id)'
    <3> SUFFICES ASSUME NEW v \in Users, NEW id \in Saved, Coming(v, id)
                 PROVE  Coming(v, id)'
      OBVIOUS
    <3>1. CASE \E d \in DOMAIN call : At(d, "announce") /\ call[d].id = id
      BY <1>2, <3>1 DEF Coming, At
    <3>2. CASE \E i \in 1 .. Len(wire[v]) : wire[v][i].kind = "message" /\ wire[v][i].id = id
      BY <1>1, <3>2 DEF Coming
    <3> QED BY <3>1, <3>2 DEF Coming
  <2>2. \A v \in Users : Coming(v, n)'
    <3>1. At(c, "announce")' /\ call'[c].id = n
      BY <1>2 DEF At
    <3> QED BY <1>2, <3>1 DEF Coming
  <2> SUFFICES ASSUME NEW v \in Users, page[v] = "in"
               PROVE  /\ v \in inRoom
                      /\ \A id \in Saved' :
                           \/ Coming(v, id)' \/ history[v].is \in {"asked", "refused"}
                           \/ /\ history[v].is = "none"
                              /\ id \in ToSet(shown[v]) \/ <<v, id>> \in early \/ Len(shown[v]) = Recent
                           \/ /\ history[v].is = "sent"
                              /\ \/ id \in ToSet(history[v].ids) \/ Len(history[v].ids) = Recent
                                 \/ <<v, id>> \in early /\ \A j \in ToSet(history[v].ids) : j < id
    BY <1>1 DEF NewsInv, past
  <2>3. \A id \in Saved' : id \in Saved \/ Coming(v, id)'
    BY <1>6, <2>2
  <2> QED BY <2>1, <2>3 DEF NewsInv
<1>15. \A m, k \in Saved : Comparable(m, k)' => Comparable(m, k)
  BY <1>1, <1>5 DEF Comparable, form, past
<1>16. CallOrder'
  <2> SUFFICES ASSUME NEW d \in DOMAIN call, call'[d].pc = "announce",
                      NEW m \in Saved', Comparable(m, call[d].id)'
               PROVE  m <= call'[d].id
    BY <1>2 DEF CallOrder
  <2>1. CASE d = c
    BY <1>2, <1>6, <2>1
  <2>2. CASE d # c /\ m \in Saved
    <3>1. call'[d] = call[d] /\ call[d].id \in Saved
      BY <1>2, <2>2 DEF IdsInv
    <3> QED BY <1>15, <2>2, <3>1 DEF OrderInv, CallOrder
  <2>3. CASE d # c /\ m = n
    <3>1. call'[d] = call[d] /\ call[d].id \in Saved /\ messages[call[d].id] = sent[call[d].no]
      BY <1>2, <2>3 DEF IdsInv
    <3>2. By(c) = By(d) /\ \A no \in doubtful : sent[no].by # By(c)
      BY <1>1, <1>5, <2>3, <3>1 DEF Comparable, By, form, past
    <3> QED BY <1>2, <2>3, <3>2, OneInFlight
  <2> QED BY <1>6, <2>1, <2>2, <2>3
<1>17. WireOrder'
  <2> SUFFICES ASSUME NEW v \in Users, NEW i \in 1 .. Len(wire[v]), NEW j \in 1 .. Len(wire[v]),
                      i < j, wire[v][i].kind # "kicked", wire[v][j].kind # "kicked",
                      Comparable(wire[v][i].id, wire[v][j].id)'
               PROVE  wire[v][i].id <= wire[v][j].id
    BY <1>1 DEF WireOrder
  <2>1. wire[v][i].id \in Saved /\ wire[v][j].id \in Saved /\ wire' = wire
    BY <1>1 DEF IdsInv
  <2>2. Comparable(wire[v][i].id, wire[v][j].id)
    BY <1>15, <2>1
  <2> QED BY <2>2 DEF OrderInv, WireOrder
<1>18. ShownOrder'
  <2>1. shown' = shown /\ cut' = cut
    BY <1>1 DEF past
  <2> SUFFICES ASSUME NEW v \in Users, NEW i \in 1 .. Len(shown[v]), NEW j \in 1 .. Len(shown[v]),
                      i < j
               PROVE  /\ shown[v][i] # shown[v][j]
                      /\ Comparable(shown[v][i], shown[v][j])' =>
                           shown[v][i] < shown[v][j] \/ <<v, shown[v][j]>> \in cut
    BY <2>1 DEF ShownOrder
  <2>2. shown[v][i] \in Saved /\ shown[v][j] \in Saved
    BY <1>12, Typed, Elements
  <2>3. Comparable(shown[v][i], shown[v][j])' => Comparable(shown[v][i], shown[v][j])
    BY <1>15, <2>1, <2>2
  <2> QED BY <2>3 DEF OrderInv, ShownOrder
<1>19. LateOrder'
  <2> SUFFICES ASSUME NEW v \in Users, NEW m \in ToSet(shown[v]), NEW j \in 1 .. Len(wire[v]),
                      wire[v][j].kind # "kicked", Comparable(m, wire[v][j].id)'
               PROVE  \/ m <= wire[v][j].id \/ wire[v][j].id \in ToSet(shown[v])
                      \/ <<v, wire[v][j].id>> \in cut
    BY <1>1 DEF LateOrder, past
  <2>1. wire[v][j].id \in Saved /\ m \in Saved /\ wire' = wire
    BY <1>1, <1>12 DEF IdsInv
  <2>2. Comparable(m, wire[v][j].id)
    BY <1>15, <2>1
  <2> QED BY <2>2 DEF OrderInv, LateOrder
<1> QED BY <1>3, <1>8, <1>9, <1>10, <1>11, <1>13, <1>14, <1>16, <1>17, <1>18, <1>19 DEF OrderInv

\* t is the queue s, and then x if e is not empty.
Longer(t, s, e, x) ==
  /\ t \in Seq(Packet) /\ Len(t) \in Nat /\ Len(s) \in Nat
  /\ \A i \in 1 .. Len(s) : i \in 1 .. Len(t) /\ t[i] = s[i]
  /\ \A i \in 1 .. Len(t) : i \in 1 .. Len(s) \/ (i > Len(s) /\ t[i] = x)
  /\ e # <<>> => \E i \in 1 .. Len(t) : t[i] = x

LEMMA QueueLonger ==
  ASSUME NEW s \in Seq(Packet), NEW x \in Packet, NEW e \in {<<>>, <<x>>}
  PROVE  Longer(s \o e, s, e, x)
<1>1. CASE e = <<>>
  <2>1. s \o e = s
    BY <1>1
  <2> QED BY <1>1, <2>1 DEF Longer
<1>2. CASE e = <<x>>
  <2> DEFINE t == s \o <<x>>
  <2>1. /\ t \in Seq(Packet) /\ Len(t) = Len(s) + 1 /\ Len(s) \in Nat
        /\ \A i \in 1 .. Len(s) : t[i] = s[i]
        /\ t[Len(s) + 1] = x
    OBVIOUS
  <2>2. s \o e = t
    BY <1>2
  <2> HIDE DEF t
  <2> QED BY <2>1, <2>2 DEF Longer
<1> QED BY <1>1, <1>2

\* v is the queue w with the news of a message, or with nothing, and with its
\* acknowledgement perhaps.
Grown(v, w, told, id, no) ==
  /\ v \in Seq(Packet) /\ Len(v) \in Nat /\ Len(w) \in Nat
  /\ \A i \in 1 .. Len(w) : i \in 1 .. Len(v) /\ v[i] = w[i]
  /\ \A i \in 1 .. Len(v) : i \in 1 .. Len(w) \/
       /\ i > Len(w) /\ v[i].kind # "kicked" /\ v[i].id = id
       /\ v[i].kind = "ack" => v[i].no = no
  /\ told # <<>> => \E i \in 1 .. Len(v) : v[i].kind = "message" /\ v[i].id = id

LEMMA QueueGrows ==
  ASSUME NEW w \in Seq(Packet), NEW id \in 0 .. MaxSends, NEW no \in 0 .. MaxSends,
         NEW told \in {<<>>, Packet1("message", id, 0)},
         NEW acked \in {<<>>, Packet1("ack", id, no)}
  PROVE  Grown(w \o told \o acked, w, told, id, no)
<1> DEFINE p == [kind |-> "message", id |-> id, no |-> 0]
           q == [kind |-> "ack", id |-> id, no |-> no]
<1>1. /\ p \in Packet /\ p.kind = "message" /\ p.id = id
      /\ q \in Packet /\ q.kind = "ack" /\ q.id = id /\ q.no = no
  BY DEF Packet
<1>2. told \in {<<>>, <<p>>} /\ acked \in {<<>>, <<q>>}
  BY DEF Packet1
<1> HIDE DEF p, q
<1> DEFINE r == w \o told
           v == r \o acked
<1>3. /\ r \in Seq(Packet) /\ Len(r) \in Nat /\ Len(w) \in Nat
      /\ \A i \in 1 .. Len(w) : i \in 1 .. Len(r) /\ r[i] = w[i]
      /\ \A i \in 1 .. Len(r) : i \in 1 .. Len(w) \/ (i > Len(w) /\ r[i] = p)
      /\ told # <<>> => \E i \in 1 .. Len(r) : r[i] = p
  <2>1. Longer(w \o told, w, told, p)
    BY <1>1, <1>2, QueueLonger
  <2> QED BY <2>1 DEF Longer
<1> HIDE DEF r
<1>4. /\ v \in Seq(Packet) /\ Len(v) \in Nat
      /\ \A i \in 1 .. Len(r) : i \in 1 .. Len(v) /\ v[i] = r[i]
      /\ \A i \in 1 .. Len(v) : i \in 1 .. Len(r) \/ (i > Len(r) /\ v[i] = q)
  <2>1. Longer(r \o acked, r, acked, q)
    BY <1>1, <1>2, <1>3, QueueLonger
  <2> QED BY <2>1 DEF Longer
<1> HIDE DEF v
<1>5. \A i \in 1 .. Len(w) : i \in 1 .. Len(v) /\ v[i] = w[i]
  BY <1>3, <1>4
<1>6. \A i \in 1 .. Len(v) : i \in 1 .. Len(w) \/
        /\ i > Len(w) /\ v[i].kind # "kicked" /\ v[i].id = id
        /\ v[i].kind = "ack" => v[i].no = no
  <2> SUFFICES ASSUME NEW i \in 1 .. Len(v), i \notin 1 .. Len(w)
               PROVE  i > Len(w) /\ (v[i] = p \/ v[i] = q)
    BY <1>1
  <2>1. i > Len(w)
    BY <1>3, <1>4
  <2>2. i \in 1 .. Len(r) => r[i] = p /\ v[i] = r[i]
    BY <1>3, <1>4
  <2> QED BY <1>4, <2>1, <2>2
<1>7. told # <<>> => \E i \in 1 .. Len(v) : v[i].kind = "message" /\ v[i].id = id
  BY <1>1, <1>3, <1>4
<1>8. Grown(v, w, told, id, no)
  BY <1>3, <1>4, <1>5, <1>6, <1>7 DEF Grown
<1> QED BY <1>8 DEF v, r

LEMMA AnnounceStep ==
  ASSUME ChatInv, NEW c \in Calls, Announce(c)
  PROVE  ChatInv'
<1> USE DEF ChatInv
<1>0. PICK id, no : id = call[c].id /\ no = call[c].no
  OBVIOUS
<1>1. /\ UNCHANGED <<room, history, page, shown, form, past>>
      /\ c \in DOMAIN call /\ call[c].pc = "announce"
      /\ DOMAIN call' = DOMAIN call \ {c} /\ \A d \in DOMAIN call \ {c} : call'[d] = call[d]
      /\ call' = [d \in DOMAIN call' |-> call'[d]]
  BY DEF Announce, At, End
<1>2. /\ id \in Saved /\ id \in 0 .. MaxSends /\ no \in 1 .. Len(sent) /\ no \in 0 .. MaxSends
      /\ Len(sent) \in Nat
  BY <1>0, <1>1, Typed DEF IdsInv, Call, Ids
<1>3. ASSUME NEW u \in Users
      PROVE  /\ wire'[u] \in Seq(Packet) /\ Len(wire'[u]) \in Nat /\ Len(wire[u]) \in Nat
             /\ \A i \in 1 .. Len(wire[u]) : i \in 1 .. Len(wire'[u]) /\ wire'[u][i] = wire[u][i]
             /\ \A i \in 1 .. Len(wire'[u]) : i \in 1 .. Len(wire[u]) \/
                  /\ i > Len(wire[u]) /\ wire'[u][i].kind # "kicked" /\ wire'[u][i].id = id
                  /\ wire'[u][i].kind = "ack" => wire'[u][i].no = no
             /\ u \in inRoom =>
                  \E i \in 1 .. Len(wire'[u]) : wire'[u][i].kind = "message" /\ wire'[u][i].id = id
  <2>1. PICK told, acked :
          /\ told = IF u \in inRoom THEN Packet1("message", id, 0) ELSE <<>>
          /\ acked = IF u = By(c) /\ page[u] = "in" THEN Packet1("ack", id, no) ELSE <<>>
    OBVIOUS
  <2>2. wire'[u] = wire[u] \o told \o acked
    BY <1>0, <2>1 DEF Announce
  <2>3. /\ told \in {<<>>, Packet1("message", id, 0)}
        /\ acked \in {<<>>, Packet1("ack", id, no)}
    BY <2>1
  <2>4. wire[u] \in Seq(Packet)
    BY Typed
  <2>5. Grown(wire[u] \o told \o acked, wire[u], told, id, no)
    BY <1>2, <2>3, <2>4, QueueGrows
  <2>6. Grown(wire'[u], wire[u], told, id, no)
    BY <2>2, <2>5
  <2>7. u \in inRoom => told # <<>>
    BY <2>1 DEF Packet1
  <2> QED BY <2>6, <2>7 DEF Grown
<1>4. TypeOK'
  <2>1. wire' \in [Users -> Seq(Packet)]
    <3>1. wire' = [u \in Users |-> wire'[u]]
      BY DEF Announce
    <3> QED BY <1>3, <3>1
  <2>2. DOMAIN call' \subseteq Calls /\ call' \in [DOMAIN call' -> Call]
    BY <1>1, Typed
  <2> QED BY <1>1, <2>1, <2>2 DEF TypeOK, room, form, past
<1>5. IdsInv'
  <2>1. \A d \in DOMAIN call' :
          /\ call'[d].no \in 1 .. Len(sent)
          /\ call'[d].pc = "announce" => /\ call'[d].id \in Saved
                                         /\ messages[call'[d].id] = sent[call'[d].no]
    BY <1>1 DEF IdsInv
  <2>2. ASSUME NEW u \in Users, NEW i \in 1 .. Len(wire'[u])
        PROVE  /\ wire'[u][i].kind # "kicked" => wire'[u][i].id \in Saved
               /\ wire'[u][i].kind = "ack" => wire'[u][i].no \in 1 .. Len(sent)
    BY <1>2, <1>3 DEF IdsInv
  <2> QED BY <1>1, <2>1, <2>2 DEF IdsInv, Saved, room, form
<1>6. SavedInv'
  <2>1. PICK f \in [Saved -> 1 .. Len(sent)] : Requests(f)
    BY DEF SavedInv
  <2>2. Requests(f)'
    BY <1>1, <2>1 DEF Requests, Saved, room, form
  <2>3. \A d, e \in DOMAIN call' : call'[d].no = call'[e].no => d = e
    BY <1>1 DEF SavedInv
  <2> QED BY <1>1, <2>2, <2>3 DEF SavedInv, Saved, room, form
<1>7. FormInv'
  <2>1. \A d \in DOMAIN call' : call'[d].no = call[d].no /\ d \in DOMAIN call /\ call[d].no # no
    BY <1>0, <1>1 DEF SavedInv
  <2>2. ASSUME NEW u \in Users, NEW i \in 1 .. Len(wire'[u]), NEW d \in DOMAIN call',
               wire'[u][i].kind = "ack"
        PROVE  wire'[u][i].no # call'[d].no
    BY <1>3, <2>1, <2>2 DEF FormInv
  <2>3. \A d \in DOMAIN call' : call'[d].no \in doubtful \/ sending[By(d)'] = call'[d].no
    BY <1>1, <2>1 DEF FormInv, By, form
  <2> QED BY <1>1, <2>2, <2>3 DEF FormInv, form, past
<1>8. CheckInv'
  BY <1>1 DEF CheckInv, By, room, form
<1>9. HistoryInv'
  BY <1>1, HistoryStays DEF room, past
<1>10. NewsInv'
  <2>1. ASSUME NEW u \in Users, page[u] = "in", NEW m \in Saved, Coming(u, m)
        PROVE  Coming(u, m)'
    <3>1. CASE m = id
      <4>1. u \in inRoom
        BY <2>1 DEF NewsInv
      <4>2. \E i \in 1 .. Len(wire'[u]) : wire'[u][i].kind = "message" /\ wire'[u][i].id = m
        BY <1>3, <3>1, <4>1
      <4> QED BY <4>2 DEF Coming
    <3>2. CASE m # id /\ \E d \in DOMAIN call : At(d, "announce") /\ call[d].id = m
      BY <1>0, <1>1, <3>2 DEF Coming, At
    <3>3. CASE \E i \in 1 .. Len(wire[u]) : wire[u][i].kind = "message" /\ wire[u][i].id = m
      <4>1. \E i \in 1 .. Len(wire'[u]) : wire'[u][i].kind = "message" /\ wire'[u][i].id = m
        BY <1>3, <3>3
      <4> QED BY <4>1 DEF Coming
    <3> QED BY <2>1, <3>1, <3>2, <3>3 DEF Coming
  <2>2. Saved' = Saved
    BY <1>1 DEF Saved, room
  <2> QED BY <1>1, <2>1, <2>2 DEF NewsInv, room, past
<1>11. \A m, n : Comparable(m, n)' => Comparable(m, n)
  BY <1>1 DEF Comparable, room, form, past
<1>12. \A m \in Saved : Comparable(m, id) => m <= id
  BY <1>0, <1>1 DEF OrderInv, CallOrder
<1>13. CallOrder'
  BY <1>1, <1>11 DEF OrderInv, CallOrder, Saved, room
<1>14. WireOrder'
  <2> SUFFICES ASSUME NEW u \in Users, NEW i \in 1 .. Len(wire'[u]), NEW j \in 1 .. Len(wire'[u]),
                      i < j, wire'[u][i].kind # "kicked", wire'[u][j].kind # "kicked",
                      Comparable(wire[u][i].id, wire[u][j].id)'
               PROVE  wire'[u][i].id <= wire'[u][j].id
    BY DEF WireOrder
  <2>1. PICK m, n : m = wire'[u][i].id /\ n = wire'[u][j].id
    OBVIOUS
  <2>2. Comparable(m, n)
    BY <1>11, <2>1
  <2>3. m \in Saved /\ id \in Nat
    BY <1>2, <1>5, <1>1, <2>1 DEF IdsInv, Saved, room
  <2>4. CASE j \in 1 .. Len(wire[u])
    <3>1. i \in 1 .. Len(wire[u])
      BY <1>3, <2>4
    <3>2. wire'[u][i] = wire[u][i] /\ wire'[u][j] = wire[u][j]
      BY <1>3, <2>4, <3>1
    <3> QED BY <2>1, <2>2, <2>4, <3>1, <3>2 DEF OrderInv, WireOrder
  <2>5. CASE j \notin 1 .. Len(wire[u])
    <3>1. n = id
      BY <1>3, <2>1, <2>5
    <3> QED BY <1>12, <2>1, <2>2, <2>3, <3>1
  <2> QED BY <2>4, <2>5
<1>15. ShownOrder'
  <2>1. shown' = shown /\ cut' = cut
    BY <1>1 DEF past
  <2>2. ShownOrder
    BY DEF OrderInv
  <2> QED BY <1>11, <2>1, <2>2 DEF ShownOrder
<1>16. LateOrder'
  <2> SUFFICES ASSUME NEW u \in Users, NEW m \in ToSet(shown[u]), NEW j \in 1 .. Len(wire'[u]),
                      wire'[u][j].kind # "kicked", Comparable(m, wire[u][j].id)'
               PROVE  \/ m <= wire'[u][j].id \/ wire'[u][j].id \in ToSet(shown[u])
                      \/ <<u, wire'[u][j].id>> \in cut
    BY <1>1 DEF LateOrder, past
  <2>1. PICK n : n = wire'[u][j].id
    OBVIOUS
  <2>2. Comparable(m, n)
    BY <1>11, <2>1
  <2>3. CASE j \in 1 .. Len(wire[u])
    <3>1. wire'[u][j] = wire[u][j]
      BY <1>3, <2>3
    <3> QED BY <2>1, <2>2, <2>3, <3>1 DEF OrderInv, LateOrder
  <2>4. CASE j \notin 1 .. Len(wire[u])
    <3>1. n = id /\ m \in Saved
      BY <1>3, <2>1, <2>4 DEF IdsInv
    <3> QED BY <1>12, <2>1, <2>2, <3>1
  <2> QED BY <2>3, <2>4
<1> QED BY <1>4, <1>5, <1>6, <1>7, <1>8, <1>9, <1>10, <1>13, <1>14, <1>15, <1>16 DEF OrderInv

LEMMA ServeHistoryStep ==
  ASSUME ChatInv, NEW u \in Users, ServeHistory(u)
  PROVE  ChatInv'
<1> USE DEF ChatInv
<1>0. PICK ids : ids = Newest([i \in 1 .. Len(messages) |-> i])
  OBVIOUS
<1>1. /\ UNCHANGED <<room, call, wire, page, shown, form, faults, doubtful, early>>
      /\ \/ /\ history' = [history EXCEPT ![u] = [is |-> "sent", ids |-> ids]]
            /\ cut' = cut \union ({u} \X (DOMAIN messages \ ToSet(ids)))
         \/ history' = [history EXCEPT ![u] = [is |-> "refused", ids |-> <<>>]] /\ cut' = cut
  BY <1>0 DEF ServeHistory
<1>2. /\ Len(messages) \in Nat /\ Saved \subseteq Ids /\ DOMAIN messages = Saved
      /\ history \in [Users -> Answer]
  <2>1. Len(messages) \in Nat /\ Len(messages) <= MaxSends /\ messages \in Seq(Message)
    BY Typed
  <2>2. Saved \subseteq Ids /\ DOMAIN messages = Saved
    BY <2>1 DEF Saved, Ids
  <2>3. history \in [Users -> Answer]
    BY DEF TypeOK
  <2> QED BY <2>1, <2>2, <2>3
<1>3. /\ ids \in Seq(Saved) /\ Len(ids) <= Recent
      /\ \A i, j \in 1 .. Len(ids) : i < j => ids[i] < ids[j]
      /\ \A id \in Saved : id \in ToSet(ids) \/ Len(ids) = Recent
  BY <1>0, <1>2, NewestIds DEF Saved
<1>4. ToSet(ids) \subseteq Saved
  BY <1>3, Elements
<1>5. [is |-> "sent", ids |-> ids] \in Answer /\ [is |-> "refused", ids |-> <<>>] \in Answer
  <2>1. ids \in Seq(Ids) /\ Recent \in Nat
    BY <1>2, <1>3
  <2>2. ids \in SeqOf(Ids, Recent)
    BY <1>3, <2>1, SeqOfSeq
  <2>3. <<>> \in Seq(Ids) /\ Len(<<>>) <= Recent
    OBVIOUS
  <2>4. <<>> \in SeqOf(Ids, Recent)
    BY <2>1, <2>3, SeqOfSeq
  <2> QED BY <2>2, <2>4 DEF Answer
<1>6. /\ \A v \in Users \ {u} : history'[v] = history[v]
      /\ \/ /\ history'[u].is = "sent" /\ history'[u].ids = ids
            /\ cut' = cut \union ({u} \X (Saved \ ToSet(ids)))
         \/ history'[u].is = "refused" /\ history'[u].ids = <<>> /\ cut' = cut
  BY <1>1, <1>2
<1>7. TypeOK'
  <2>1. history' \in [Users -> Answer]
    BY <1>1, <1>2, <1>5
  <2>2. cut' \subseteq Users \X Ids
    BY <1>2, <1>6 DEF TypeOK
  <2> QED BY <1>1, <2>1, <2>2 DEF TypeOK, room, form
<1>8. CallsStay
  BY <1>1 DEF CallsStay
<1>9. \A v \in Users : Remains(wire'[v], wire[v]) /\ Len(wire[v]) \in Nat /\ Len(wire'[v]) \in Nat
  BY <1>1, Typed, QueueRemains
<1>10. IdsInv'
  <2>1. \A v \in Users : /\ ToSet(shown'[v]) \subseteq Saved
                         /\ ToSet(history'[v].ids) \subseteq Saved
    BY <1>1, <1>4, <1>6, NoElements DEF IdsInv
  <2> QED BY <1>1, <1>8, <1>9, <2>1, IdsStay DEF room, form
<1>11. SavedInv' /\ FormInv'
  BY <1>1, <1>8, <1>9, SavedStay, FormStay DEF room, form
<1>12. CheckInv'
  BY <1>1 DEF CheckInv, By, room, form
<1>13. cut \subseteq cut'
  BY <1>6
<1>14. OrderInv'
  BY <1>1, <1>8, <1>9, <1>13, OrderStays DEF room, form
<1>15. Saved' = Saved
  BY <1>1 DEF Saved, room
<1>16. HistoryInv'
  <2> SUFFICES ASSUME NEW v \in Users, history'[v].is = "sent"
               PROVE  LET is == history'[v].ids
                      IN  /\ \A i, j \in 1 .. Len(is) : i < j => is[i] < is[j]
                          /\ \A id \in Saved : \/ id \in ToSet(is) \/ \A j \in ToSet(is) : j < id
                                               \/ Len(is) = Recent /\ <<v, id>> \in cut'
    BY <1>15 DEF HistoryInv
  <2>1. CASE v = u
    <3>1. history'[u].ids = ids /\ cut' = cut \union ({u} \X (Saved \ ToSet(ids)))
      BY <1>6, <2>1
    <3> QED BY <1>3, <2>1, <3>1
  <2>2. CASE v # u
    BY <1>6, <1>13, <2>2 DEF HistoryInv
  <2> QED BY <2>1, <2>2
<1>17. NewsInv'
  <2> SUFFICES ASSUME NEW v \in Users, page[v] = "in"
               PROVE  /\ v \in inRoom
                      /\ \A id \in Saved :
                           \/ Coming(v, id)' \/ history'[v].is \in {"asked", "refused"}
                           \/ /\ history'[v].is = "none"
                              /\ id \in ToSet(shown[v]) \/ <<v, id>> \in early \/ Len(shown[v]) = Recent
                           \/ /\ history'[v].is = "sent"
                              /\ \/ id \in ToSet(history'[v].ids) \/ Len(history'[v].ids) = Recent
                                 \/ <<v, id>> \in early /\ \A j \in ToSet(history'[v].ids) : j < id
    BY <1>1, <1>15 DEF NewsInv, room
  <2>1. CASE v = u
    BY <1>3, <1>6, <2>1 DEF NewsInv
  <2>2. CASE v # u
    <3>1. history'[v] = history[v] /\ \A id : Coming(v, id)' = Coming(v, id)
      BY <1>1, <1>6, <2>2 DEF Coming, At
    <3> QED BY <3>1 DEF NewsInv
  <2> QED BY <2>1, <2>2
<1> QED BY <1>7, <1>10, <1>11, <1>12, <1>14, <1>16, <1>17
-----------------------------------------------------------------------------
(* The steps of the page.                                                  *)

LEMMA TakeHistoryStep ==
  ASSUME ChatInv, NEW u \in Users, TakeHistory(u)
  PROVE  ChatInv'
<1> USE DEF ChatInv
<1>0. PICK ids : ids = history[u].ids
  OBVIOUS
<1>1. /\ UNCHANGED <<room, call, wire, page, form, faults, doubtful, cut>>
      /\ history[u].is = "sent"
      /\ shown' = [shown EXCEPT ![u] = ids]
      /\ history' = [history EXCEPT ![u] = NoAnswer]
      /\ early' = {e \in early : e[1] = u => \A j \in ToSet(ids) : j < e[2]}
  BY <1>0 DEF TakeHistory
<1>2. /\ history \in [Users -> Answer] /\ shown \in [Users -> SeqOf(Ids, Recent)]
      /\ early \subseteq Users \X Ids
  BY DEF TypeOK
<1>3. /\ ids \in Seq(Ids) /\ Len(ids) <= Recent /\ ids \in SeqOf(Ids, Recent)
      /\ ToSet(ids) \subseteq Saved
  BY <1>0, <1>2, Typed DEF Answer, IdsInv
<1>4. /\ \A i, j \in 1 .. Len(ids) : i < j => ids[i] < ids[j]
      /\ \A id \in Saved : \/ id \in ToSet(ids) \/ \A j \in ToSet(ids) : j < id
                           \/ Len(ids) = Recent /\ <<u, id>> \in cut
  BY <1>0, <1>1 DEF HistoryInv
<1>5. /\ history'[u].is = "none" /\ history'[u].ids = <<>> /\ shown'[u] = ids
      /\ \A v \in Users \ {u} : history'[v] = history[v] /\ shown'[v] = shown[v]
  BY <1>1, <1>2 DEF NoAnswer
<1>6. TypeOK'
  <2>1. NoAnswer \in Answer
    <3>1. <<>> \in Seq(Ids) /\ Len(<<>>) <= Recent /\ Recent \in Nat
      OBVIOUS
    <3>2. <<>> \in SeqOf(Ids, Recent)
      BY <3>1, SeqOfSeq
    <3> QED BY <3>2 DEF NoAnswer, Answer
  <2>2. history' \in [Users -> Answer]
    BY <1>1, <1>2, <2>1
  <2>3. shown' \in [Users -> SeqOf(Ids, Recent)]
    BY <1>1, <1>2, <1>3
  <2>4. early' \subseteq Users \X Ids
    BY <1>1, <1>2
  <2> QED BY <1>1, <2>2, <2>3, <2>4 DEF TypeOK, room, form
<1>7. CallsStay
  BY <1>1 DEF CallsStay
<1>8. \A v \in Users : Remains(wire'[v], wire[v]) /\ Len(wire[v]) \in Nat /\ Len(wire'[v]) \in Nat
  BY <1>1, Typed, QueueRemains
<1>9. IdsInv'
  <2>1. \A v \in Users : /\ ToSet(shown'[v]) \subseteq Saved
                         /\ ToSet(history'[v].ids) \subseteq Saved
    BY <1>3, <1>5, NoElements DEF IdsInv
  <2> QED BY <1>1, <1>7, <1>8, <2>1, IdsStay DEF room, form
<1>10. SavedInv' /\ FormInv'
  BY <1>1, <1>7, <1>8, SavedStay, FormStay DEF room, form
<1>11. CheckInv'
  BY <1>1 DEF CheckInv, By, room, form
<1>12. HistoryInv'
  BY <1>1, <1>5, HistoryStays DEF room
<1>13. Saved' = Saved
  BY <1>1 DEF Saved, room
<1>14. NewsInv'
  <2> SUFFICES ASSUME NEW v \in Users, page[v] = "in"
               PROVE  /\ v \in inRoom
                      /\ \A id \in Saved :
                           \/ Coming(v, id)' \/ history'[v].is \in {"asked", "refused"}
                           \/ /\ history'[v].is = "none"
                              /\ \/ id \in ToSet(shown'[v]) \/ <<v, id>> \in early'
                                 \/ Len(shown'[v]) = Recent
                           \/ /\ history'[v].is = "sent"
                              /\ \/ id \in ToSet(history'[v].ids) \/ Len(history'[v].ids) = Recent
                                 \/ /\ <<v, id>> \in early'
                                    /\ \A j \in ToSet(history'[v].ids) : j < id
    BY <1>1, <1>13 DEF NewsInv, room
  <2>1. \A id : Coming(v, id)' = Coming(v, id)
    BY <1>1 DEF Coming, At
  <2>2. CASE v = u
    <3>1. ASSUME NEW id \in Saved, <<u, id>> \in early, \A j \in ToSet(ids) : j < id
          PROVE  <<u, id>> \in early'
      BY <1>1, <3>1
    <3> QED BY <1>0, <1>1, <1>5, <2>1, <2>2, <3>1 DEF NewsInv
  <2>3. CASE v # u
    <3>1. \A id : <<v, id>> \in early => <<v, id>> \in early'
      BY <1>1, <2>3
    <3> QED BY <1>5, <2>1, <2>3, <3>1 DEF NewsInv
  <2> QED BY <2>2, <2>3
<1>15. \A m, n : Comparable(m, n)' => Comparable(m, n)
  BY <1>1 DEF Comparable, room, form
<1>16. CallOrder' /\ WireOrder'
  BY <1>1, <1>7, <1>8, WireStays DEF OrderInv, room, form
<1>17. ShownOrder'
  <2> SUFFICES ASSUME NEW v \in Users, NEW i \in 1 .. Len(shown'[v]), NEW j \in 1 .. Len(shown'[v]),
                      i < j
               PROVE  /\ shown'[v][i] # shown'[v][j]
                      /\ Comparable(shown[v][i], shown[v][j])' =>
                           shown'[v][i] < shown'[v][j] \/ <<v, shown'[v][j]>> \in cut
    BY <1>1 DEF ShownOrder
  <2>1. CASE v = u
    <3>1. ids[i] \in Nat /\ ids[j] \in Nat /\ ids[i] < ids[j]
      BY <1>3, <1>4, <1>5, <2>1 DEF Ids
    <3> QED BY <1>5, <2>1, <3>1
  <2>2. CASE v # u
    <3>1. shown'[v] = shown[v]
      BY <1>5, <2>2
    <3> QED BY <1>15, <3>1 DEF OrderInv, ShownOrder
  <2> QED BY <2>1, <2>2
<1>18. LateOrder'
  <2> SUFFICES ASSUME NEW v \in Users, NEW m \in ToSet(shown'[v]), NEW j \in 1 .. Len(wire[v]),
                      wire[v][j].kind # "kicked", Comparable(m, wire[v][j].id)'
               PROVE  \/ m <= wire[v][j].id \/ wire[v][j].id \in ToSet(shown'[v])
                      \/ <<v, wire[v][j].id>> \in cut
    BY <1>1 DEF LateOrder
  <2>1. CASE v = u
    <3>1. PICK n : n = wire[v][j].id
      OBVIOUS
    <3>2. n \in Saved /\ n \in Nat /\ m \in ToSet(ids) /\ m \in Nat /\ shown'[v] = ids
      BY <1>3, <1>5, <2>1, <3>1 DEF IdsInv, Saved
    <3>3. n \in ToSet(ids) \/ m < n \/ <<u, n>> \in cut
      BY <1>4, <3>2
    <3> QED BY <2>1, <3>1, <3>2, <3>3
  <2>2. CASE v # u
    <3>1. shown'[v] = shown[v] /\ wire' = wire
      BY <1>1, <1>5, <2>2
    <3>2. Comparable(m, wire[v][j].id)
      BY <1>15, <3>1
    <3> QED BY <3>1, <3>2 DEF OrderInv, LateOrder
  <2> QED BY <2>1, <2>2
<1> QED BY <1>6, <1>9, <1>10, <1>11, <1>12, <1>14, <1>16, <1>17, <1>18 DEF OrderInv

\* The page takes a message into its list: from the news, or from an acknowledgement.
Shows(u, p) ==
  /\ wire[u] # <<>> /\ p = Head(wire[u]) /\ p.kind # "kicked"
  /\ wire' = [wire EXCEPT ![u] = Tail(@)]
  /\ shown' = [shown EXCEPT ![u] = WithMessage(@, p.id)]
  /\ Dropped(u) /\ Heard(u, p.id)
  /\ UNCHANGED <<room, call, history, page, sent, faults, doubtful>>

\* What that does to the list, to the queue, and to what is remembered.
LEMMA ShowsIs ==
  ASSUME TypeOK, IdsInv, NEW u \in Users, NEW p, Shows(u, p)
  PROVE  /\ p.id \in Saved /\ p \in Packet
         /\ Len(wire[u]) \in Nat \ {0} /\ p = wire[u][1]
         /\ wire'[u] \in Seq(Packet) /\ Len(wire'[u]) = Len(wire[u]) - 1
         /\ \A i \in 1 .. Len(wire'[u]) : wire'[u][i] = wire[u][i + 1]
         /\ \A v \in Users : Remains(wire'[v], wire[v])
         /\ \A v \in Users : wire'[v] \in Seq(Packet) /\ Len(wire[v]) \in Nat /\ Len(wire'[v]) \in Nat
         /\ shown'[u] = WithMessage(shown[u], p.id)
         /\ \A v \in Users \ {u} : wire'[v] = wire[v] /\ shown'[v] = shown[v]
         /\ shown'[u] \in Seq(Ids) /\ Len(shown'[u]) <= Recent /\ p.id \in ToSet(shown'[u])
         /\ ToSet(shown'[u]) \subseteq ToSet(shown[u]) \union {p.id}
         /\ Len(shown[u]) = Recent \/ ToSet(shown[u]) \ ToSet(shown'[u]) # {} =>
              Len(shown'[u]) = Recent
         /\ cut' = cut \union ({u} \X (ToSet(shown[u]) \ ToSet(shown'[u])))
         /\ early \subseteq early' /\ early' \subseteq early \union {<<u, p.id>>}
         /\ history[u].is = "sent" => <<u, p.id>> \in early'
<1>1. /\ wire \in [Users -> Seq(Packet)] /\ shown \in [Users -> SeqOf(Ids, Recent)]
      /\ wire[u] \in Seq(Packet) /\ shown[u] \in Seq(Ids) /\ Len(shown[u]) <= Recent
  BY Typed DEF TypeOK
<1>2. /\ wire[u] # <<>> /\ p = Head(wire[u]) /\ p.kind # "kicked"
      /\ wire'[u] = Tail(wire[u]) /\ shown'[u] = WithMessage(shown[u], p.id)
      /\ \A v \in Users \ {u} : wire'[v] = wire[v] /\ shown'[v] = shown[v]
  BY <1>1 DEF Shows
<1>3. /\ Remains(wire'[u], wire[u]) /\ wire'[u] \in Seq(Packet)
      /\ Len(wire[u]) \in Nat \ {0} /\ Len(wire'[u]) = Len(wire[u]) - 1
      /\ p = wire[u][1] /\ \A i \in 1 .. Len(wire'[u]) : wire'[u][i] = wire[u][i + 1]
  BY <1>1, <1>2, QueueRemains
<1>4. \A v \in Users : wire[v] \in Seq(Packet) /\ Len(wire[v]) \in Nat
  BY Typed
<1>5. ASSUME NEW v \in Users
      PROVE  /\ Remains(wire'[v], wire[v]) /\ wire'[v] \in Seq(Packet)
             /\ Len(wire[v]) \in Nat /\ Len(wire'[v]) \in Nat
  <2>1. CASE v = u
    BY <1>3, <2>1
  <2>2. CASE v # u
    BY <1>2, <1>4, <2>2, QueueRemains
  <2> QED BY <2>1, <2>2
<1>6. 1 \in 1 .. Len(wire[u])
  BY <1>3
<1>7. p.id \in Saved /\ p \in Packet
  BY <1>2, <1>3, <1>6, Typed DEF IdsInv
<1>8. Saved \subseteq Ids
  <2>1. Len(messages) \in Nat /\ Len(messages) <= MaxSends
    BY Typed
  <2> QED BY <2>1 DEF Saved, Ids
<1>9. /\ shown'[u] \in Seq(Ids) /\ Len(shown'[u]) <= Recent /\ p.id \in ToSet(shown'[u])
      /\ ToSet(shown'[u]) \subseteq ToSet(shown[u]) \union {p.id}
      /\ Len(shown[u]) = Recent \/ ToSet(shown[u]) \ ToSet(shown'[u]) # {} =>
           Len(shown'[u]) = Recent
  <2>1. p.id \in Ids
    BY <1>7, <1>8
  <2> QED BY <1>1, <1>2, <2>1, WithMessageIs
<1>10. cut' = cut \union ({u} \X (ToSet(shown[u]) \ ToSet(shown'[u])))
  BY DEF Shows, Dropped
<1>11. /\ early \subseteq early' /\ early' \subseteq early \union {<<u, p.id>>}
       /\ history[u].is = "sent" => <<u, p.id>> \in early'
  BY DEF Shows, Heard
<1> QED BY <1>2, <1>3, <1>5, <1>7, <1>9, <1>10, <1>11

\* The message a page takes comes after what it shows of its sender, and before what is
\* still on its way.
LEMMA ShownInOrderStill ==
  ASSUME TypeOK, IdsInv, OrderInv, NEW u \in Users, NEW p, Shows(u, p)
  PROVE  OrderInv'
<1>1. UNCHANGED <<room, call, history, page, sent, faults, doubtful>>
  BY DEF Shows
<1>2. p.kind # "kicked"
  BY DEF Shows
<1>3. /\ p.id \in Saved /\ Len(wire[u]) \in Nat \ {0} /\ p = wire[u][1]
      /\ Len(wire'[u]) = Len(wire[u]) - 1
      /\ \A i \in 1 .. Len(wire'[u]) : wire'[u][i] = wire[u][i + 1]
      /\ \A v \in Users : Remains(wire'[v], wire[v])
      /\ \A v \in Users : Len(wire[v]) \in Nat /\ Len(wire'[v]) \in Nat
      /\ shown'[u] = WithMessage(shown[u], p.id)
      /\ \A v \in Users \ {u} : wire'[v] = wire[v] /\ shown'[v] = shown[v]
      /\ ToSet(shown'[u]) \subseteq ToSet(shown[u]) \union {p.id}
      /\ cut' = cut \union ({u} \X (ToSet(shown[u]) \ ToSet(shown'[u])))
  BY ShowsIs
<1>4. /\ shown[u] \in Seq(Ids) /\ Len(shown[u]) \in Nat /\ Len(shown[u]) <= Recent
      /\ p.id \in Ids /\ p.id \in Nat /\ 1 \in 1 .. Len(wire[u]) /\ ToSet(shown[u]) \subseteq Saved
  <2>1. Len(messages) \in Nat /\ Len(messages) <= MaxSends
    BY Typed
  <2>2. p.id \in Ids /\ p.id \in Nat
    BY <1>3, <2>1 DEF Saved, Ids
  <2>3. shown[u] \in Seq(Ids) /\ Len(shown[u]) \in Nat /\ Len(shown[u]) <= Recent
    BY Typed
  <2> QED BY <1>3, <2>2, <2>3 DEF IdsInv
<1>5. \A m, n : Comparable(m, n)' => Comparable(m, n)
  BY <1>1 DEF Comparable, room
<1>6. CallsStay
  BY <1>1 DEF CallsStay
<1>7. CallOrder' /\ WireOrder'
  BY <1>1, <1>3, <1>6, WireStays DEF OrderInv, room
<1>8. ASSUME NEW m \in ToSet(shown[u]), NEW j \in 1 .. Len(wire[u]), NEW n,
             n = wire[u][j].id, wire[u][j].kind # "kicked", Comparable(m, n)
      PROVE  m <= n \/ n \in ToSet(shown[u]) \/ <<u, n>> \in cut
  BY <1>8 DEF OrderInv, LateOrder
<1>9. ASSUME NEW i \in 1 .. Len(shown[u]), NEW j \in 1 .. Len(shown[u]), i < j
      PROVE  /\ shown[u][i] # shown[u][j]
             /\ Comparable(shown[u][i], shown[u][j]) =>
                  shown[u][i] < shown[u][j] \/ <<u, shown[u][j]>> \in cut
  BY <1>9 DEF OrderInv, ShownOrder
<1>10. ASSUME NEW i \in 1 .. Len(shown'[u]), NEW j \in 1 .. Len(shown'[u]), i < j
       PROVE  /\ shown'[u][i] # shown'[u][j]
              /\ Comparable(shown[u][i], shown[u][j])' =>
                   shown'[u][i] < shown'[u][j] \/ <<u, shown'[u][j]>> \in cut'
  <2>1. CASE p.id \in ToSet(shown[u])
    <3>1. shown'[u] = shown[u]
      BY <1>3, <2>1 DEF WithMessage
    <3> QED BY <1>3, <1>5, <1>9, <1>10, <3>1
  <2>2. CASE p.id \notin ToSet(shown[u])
    <3> DEFINE d == IF Len(shown[u]) = Recent THEN 1 ELSE 0
    <3>1. LET w == WithMessage(shown[u], p.id)
          IN  /\ w \in Seq(Ids) /\ Len(w) = Len(shown[u]) + 1 - d /\ Len(w) <= Recent
              /\ w[Len(w)] = p.id
              /\ \A k \in 1 .. Len(w) - 1 : k + d \in 1 .. Len(shown[u]) /\ w[k] = shown[u][k + d]
      BY <1>4, <2>2, AddedMessage
    <3>2. /\ Len(shown'[u]) \in Nat /\ shown'[u][Len(shown'[u])] = p.id
          /\ \A k \in 1 .. Len(shown'[u]) - 1 :
               k + d \in 1 .. Len(shown[u]) /\ shown'[u][k] = shown[u][k + d]
      BY <1>3, <1>4, <3>1
    <3>3. d \in {0, 1}
      OBVIOUS
    <3> HIDE DEF d
    <3>4. i \in 1 .. Len(shown'[u]) - 1
      BY <1>10, <3>2
    <3>5. PICK k \in 1 .. Len(shown[u]) : k = i + d /\ shown'[u][i] = shown[u][k]
      BY <3>2, <3>4
    <3>6. CASE j = Len(shown'[u])
      <4>1. PICK m : m = shown[u][k]
        OBVIOUS
      <4>2. m \in ToSet(shown[u]) /\ m \in Nat /\ m # p.id
        BY <1>4, <2>2, <4>1, Elements DEF Ids
      <4>3. Comparable(m, p.id) => m <= p.id \/ <<u, p.id>> \in cut
        BY <1>2, <1>3, <1>4, <1>8, <2>2, <4>2
      <4>4. Comparable(m, p.id) => m < p.id \/ <<u, p.id>> \in cut'
        BY <1>3, <1>4, <4>2, <4>3
      <4>5. shown'[u][i] = m /\ shown'[u][j] = p.id
        BY <3>2, <3>5, <3>6, <4>1
      <4> QED BY <1>5, <4>2, <4>4, <4>5
    <3>7. CASE j # Len(shown'[u])
      <4>1. j \in 1 .. Len(shown'[u]) - 1
        BY <1>10, <3>2, <3>7
      <4>2. PICK l \in 1 .. Len(shown[u]) : l = j + d /\ shown'[u][j] = shown[u][l]
        BY <3>2, <4>1
      <4>3. k < l
        BY <1>10, <3>3, <3>5, <4>2
      <4> QED BY <1>3, <1>5, <1>9, <3>5, <4>2, <4>3
    <3> QED BY <3>6, <3>7
  <2> QED BY <2>1, <2>2
<1>11. ShownOrder'
  <2> SUFFICES ASSUME NEW v \in Users, NEW i \in 1 .. Len(shown'[v]), NEW j \in 1 .. Len(shown'[v]),
                      i < j
               PROVE  /\ shown'[v][i] # shown'[v][j]
                      /\ Comparable(shown[v][i], shown[v][j])' =>
                           shown'[v][i] < shown'[v][j] \/ <<v, shown'[v][j]>> \in cut'
    BY DEF ShownOrder
  <2>1. CASE v = u
    BY <1>10, <2>1
  <2>2. CASE v # u
    <3>1. shown'[v] = shown[v] /\ cut \subseteq cut'
      BY <1>3, <2>2
    <3> QED BY <1>5, <3>1 DEF OrderInv, ShownOrder
  <2> QED BY <2>1, <2>2
<1>12. LateOrder'
  <2> SUFFICES ASSUME NEW v \in Users, NEW m \in ToSet(shown'[v]), NEW j \in 1 .. Len(wire'[v]),
                      wire'[v][j].kind # "kicked", Comparable(m, wire[v][j].id)'
               PROVE  \/ m <= wire'[v][j].id \/ wire'[v][j].id \in ToSet(shown'[v])
                      \/ <<v, wire'[v][j].id>> \in cut'
    BY DEF LateOrder
  <2>1. PICK n : n = wire'[v][j].id
    OBVIOUS
  <2>2. Comparable(m, n)
    BY <1>5, <2>1
  <2>3. CASE v = u
    <3>1. PICK k \in 1 .. Len(wire[u]) : k = j + 1 /\ wire'[u][j] = wire[u][k]
      BY <1>3, <2>3
    <3>2. CASE m \in ToSet(shown[u])
      <4>1. m <= n \/ n \in ToSet(shown[u]) \/ <<u, n>> \in cut
        BY <1>8, <2>1, <2>2, <2>3, <3>1, <3>2
      <4> QED BY <1>3, <2>1, <2>3, <4>1
    <3>3. CASE m = p.id
      <4>1. 1 < k
        BY <1>3, <2>3, <3>1
      <4>2. m <= n
        <5>1. /\ wire[u][1].id = m /\ wire[u][1].kind # "kicked"
              /\ wire[u][k].id = n /\ wire[u][k].kind # "kicked"
          BY <1>2, <1>3, <2>1, <2>3, <3>1, <3>3
        <5>2. Comparable(wire[u][1].id, wire[u][k].id)
          BY <2>2, <5>1
        <5>3. wire[u][1].id <= wire[u][k].id
          BY <1>4, <4>1, <5>1, <5>2 DEF OrderInv, WireOrder
        <5> QED BY <5>1, <5>3
      <4> QED BY <2>1, <4>2
    <3> QED BY <1>3, <2>3, <3>2, <3>3
  <2>4. CASE v # u
    <3>1. shown'[v] = shown[v] /\ wire'[v] = wire[v] /\ cut \subseteq cut'
      BY <1>3, <2>4
    <3> QED BY <2>1, <2>2, <3>1 DEF OrderInv, LateOrder
  <2> QED BY <2>3, <2>4
<1> QED BY <1>7, <1>11, <1>12 DEF OrderInv

\* The rest of the invariant, but for the form's.
LEMMA ShowsStep ==
  ASSUME ChatInv, NEW u \in Users, NEW p, Shows(u, p)
  PROVE  /\ IdsInv' /\ SavedInv' /\ CheckInv' /\ HistoryInv' /\ NewsInv' /\ OrderInv'
         /\ CallsStay /\ \A v \in Users : Remains(wire'[v], wire[v])
         /\ wire' \in [Users -> Seq(Packet)] /\ shown' \in [Users -> SeqOf(Ids, Recent)]
         /\ cut' \subseteq Users \X Ids /\ early' \subseteq Users \X Ids
<1> USE DEF ChatInv
<1>1. UNCHANGED <<room, call, history, page, sent, faults, doubtful>>
  BY DEF Shows
<1>2. /\ p.id \in Saved /\ Len(wire[u]) \in Nat \ {0} /\ p = wire[u][1]
      /\ Len(wire'[u]) = Len(wire[u]) - 1
      /\ \A i \in 1 .. Len(wire'[u]) : wire'[u][i] = wire[u][i + 1]
      /\ \A v \in Users : Remains(wire'[v], wire[v])
      /\ \A v \in Users : wire'[v] \in Seq(Packet) /\ Len(wire[v]) \in Nat /\ Len(wire'[v]) \in Nat
      /\ \A v \in Users \ {u} : wire'[v] = wire[v] /\ shown'[v] = shown[v]
      /\ shown'[u] \in Seq(Ids) /\ Len(shown'[u]) <= Recent /\ p.id \in ToSet(shown'[u])
      /\ ToSet(shown'[u]) \subseteq ToSet(shown[u]) \union {p.id}
      /\ Len(shown[u]) = Recent \/ ToSet(shown[u]) \ ToSet(shown'[u]) # {} =>
           Len(shown'[u]) = Recent
      /\ cut' = cut \union ({u} \X (ToSet(shown[u]) \ ToSet(shown'[u])))
      /\ early \subseteq early' /\ early' \subseteq early \union {<<u, p.id>>}
      /\ history[u].is = "sent" => <<u, p.id>> \in early'
  BY ShowsIs
<1>3. CallsStay
  BY <1>1 DEF CallsStay
<1>4. Saved' = Saved
  BY <1>1 DEF Saved, room
<1>5. IdsInv'
  <2>1. \A v \in Users : /\ ToSet(shown'[v]) \subseteq Saved
                         /\ ToSet(history'[v].ids) \subseteq Saved
    BY <1>1, <1>2 DEF IdsInv
  <2> QED BY <1>1, <1>2, <1>3, <2>1, IdsStay DEF room
<1>6. SavedInv'
  BY <1>1, <1>3, SavedStay DEF room
<1>7. CheckInv'
  BY <1>1 DEF CheckInv, By, room
<1>8. cut \subseteq cut'
  BY <1>2
<1>9. HistoryInv'
  BY <1>1, <1>8, HistoryStays DEF room
<1>10. OrderInv'
  BY ShownInOrderStill
<1>11. NewsInv'
  <2> SUFFICES ASSUME NEW v \in Users, page[v] = "in", NEW id \in Saved
               PROVE  /\ v \in inRoom
                      /\ \/ Coming(v, id)' \/ history[v].is \in {"asked", "refused"}
                         \/ /\ history[v].is = "none"
                            /\ \/ id \in ToSet(shown'[v]) \/ <<v, id>> \in early'
                               \/ Len(shown'[v]) = Recent
                         \/ /\ history[v].is = "sent"
                            /\ \/ id \in ToSet(history[v].ids) \/ Len(history[v].ids) = Recent
                               \/ /\ <<v, id>> \in early'
                                  /\ \A j \in ToSet(history[v].ids) : j < id
    BY <1>1, <1>2, <1>4 DEF NewsInv, room
  <2>1. v \in inRoom
    BY DEF NewsInv
  <2>2. CASE v # u
    <3>1. wire'[v] = wire[v] /\ shown'[v] = shown[v]
      BY <1>2, <2>2
    <3>2. Coming(v, id) => Coming(v, id)'
      BY <1>1, <3>1 DEF Coming, At
    <3> QED BY <1>2, <2>1, <3>1, <3>2 DEF NewsInv
  <2>3. CASE v = u
    <3>1. Coming(u, id) => Coming(u, id)' \/ id = p.id
      <4> SUFFICES ASSUME Coming(u, id), id # p.id PROVE Coming(u, id)'
        OBVIOUS
      <4>1. CASE \E c \in DOMAIN call : At(c, "announce") /\ call[c].id = id
        BY <1>1, <4>1 DEF Coming, At
      <4>2. CASE \E i \in 1 .. Len(wire[u]) : wire[u][i].kind = "message" /\ wire[u][i].id = id
        <5>1. PICK i \in 1 .. Len(wire[u]) : wire[u][i].kind = "message" /\ wire[u][i].id = id
          BY <4>2
        <5>2. i # 1
          BY <1>2, <5>1
        <5>3. PICK k \in 1 .. Len(wire'[u]) : i = k + 1
          <6>1. i - 1 \in 1 .. Len(wire'[u]) /\ i = (i - 1) + 1
            BY <1>2, <5>2
          <6> QED BY <6>1
        <5>4. wire'[u][k] = wire[u][i]
          BY <1>2, <5>3
        <5> QED BY <5>1, <5>4 DEF Coming
      <4> QED BY <4>1, <4>2 DEF Coming
    <3>2. CASE id = p.id
      <4>1. history[u].is = "sent" =>
              \/ id \in ToSet(history[u].ids) \/ Len(history[u].ids) = Recent
              \/ <<u, id>> \in early' /\ \A j \in ToSet(history[u].ids) : j < id
        BY <1>2, <3>2 DEF HistoryInv
      <4>2. id \in ToSet(shown'[u])
        BY <1>2, <3>2
      <4>3. history[u].is \in {"none", "asked", "sent", "refused"}
        BY Typed DEF Answer
      <4> QED BY <2>1, <2>3, <4>1, <4>2, <4>3
    <3>3. CASE id # p.id
      <4>1. /\ id \in ToSet(shown[u]) => id \in ToSet(shown'[u]) \/ Len(shown'[u]) = Recent
            /\ Len(shown[u]) = Recent => Len(shown'[u]) = Recent
            /\ <<u, id>> \in early => <<u, id>> \in early'
        BY <1>2
      <4> QED BY <2>1, <2>3, <3>1, <3>3, <4>1 DEF NewsInv
    <3> QED BY <3>2, <3>3
  <2> QED BY <2>2, <2>3
<1>12. wire' \in [Users -> Seq(Packet)] /\ shown' \in [Users -> SeqOf(Ids, Recent)]
  <2>1. wire' = [v \in Users |-> wire'[v]] /\ shown' = [v \in Users |-> shown'[v]]
    BY DEF Shows, TypeOK
  <2>2. Recent \in Nat
    OBVIOUS
  <2>3. \A v \in Users : shown'[v] \in SeqOf(Ids, Recent)
    BY <1>2, <2>2, Typed, SeqOfSeq
  <2> QED BY <1>2, <2>1, <2>3
<1>13. cut' \subseteq Users \X Ids /\ early' \subseteq Users \X Ids
  <2>1. p.id \in Ids
    <3>1. Len(messages) \in Nat /\ Len(messages) <= MaxSends
      BY Typed
    <3> QED BY <1>2, <3>1 DEF Saved, Ids
  <2>2. ToSet(shown[u]) \subseteq Ids
    BY Typed, Elements
  <2> QED BY <1>2, <2>1, <2>2 DEF TypeOK
<1> QED BY <1>2, <1>3, <1>5, <1>6, <1>7, <1>9, <1>10, <1>11, <1>12, <1>13

LEMMA TakeMessageStep ==
  ASSUME ChatInv, NEW u \in Users, TakeMessage(u)
  PROVE  ChatInv'
<1> USE DEF ChatInv
<1>0. PICK p : p = Head(wire[u])
  OBVIOUS
<1>1. Shows(u, p) /\ UNCHANGED form
  BY <1>0 DEF TakeMessage, Shows, form
<1>2. /\ IdsInv' /\ SavedInv' /\ CheckInv' /\ HistoryInv' /\ NewsInv' /\ OrderInv'
      /\ CallsStay /\ \A v \in Users : Remains(wire'[v], wire[v])
      /\ wire' \in [Users -> Seq(Packet)] /\ shown' \in [Users -> SeqOf(Ids, Recent)]
      /\ cut' \subseteq Users \X Ids /\ early' \subseteq Users \X Ids
  BY <1>1, ShowsStep
<1>3. TypeOK'
  BY <1>1, <1>2 DEF TypeOK, Shows, room, form
<1>4. FormInv'
  BY <1>1, <1>2, FormStay DEF Shows, form
<1> QED BY <1>2, <1>3, <1>4

\* The acknowledged request has no handler any more, and its text leaves the box.
LEMMA TakeAckStep ==
  ASSUME ChatInv, NEW u \in Users, TakeAck(u)
  PROVE  ChatInv'
<1> USE DEF ChatInv
<1>0. PICK p : p = Head(wire[u])
  OBVIOUS
<1>1. /\ wire[u] # <<>> /\ p.kind = "ack" /\ wire' = [wire EXCEPT ![u] = Tail(@)]
      /\ UNCHANGED <<room, call, history, page, sent, typed, faults, doubtful>>
  BY <1>0 DEF TakeAck
<1>2. /\ sending \in [Users -> 0 .. Len(sent)] /\ draft \in [Users -> 0 .. MaxTexts]
      /\ Len(sent) \in Nat
  BY Typed DEF TypeOK
<1>3. CASE sending[u] = p.no
  <2>1. Shows(u, p)
    BY <1>0, <1>1, <1>3 DEF TakeAck, Shows
  <2>2. /\ draft' = [draft EXCEPT ![u] = 0] /\ sending' = [sending EXCEPT ![u] = 0]
    BY <1>0, <1>3 DEF TakeAck
  <2>3. /\ IdsInv' /\ SavedInv' /\ CheckInv' /\ HistoryInv' /\ NewsInv' /\ OrderInv'
        /\ CallsStay /\ \A v \in Users : Remains(wire'[v], wire[v])
        /\ wire' \in [Users -> Seq(Packet)] /\ shown' \in [Users -> SeqOf(Ids, Recent)]
        /\ cut' \subseteq Users \X Ids /\ early' \subseteq Users \X Ids
    BY <2>1, ShowsStep
  <2>4. /\ draft' \in [Users -> 0 .. MaxTexts] /\ sending' \in [Users -> 0 .. Len(sent)]
        /\ draft'[u] = 0 /\ sending'[u] = 0
        /\ \A v \in Users \ {u} : draft'[v] = draft[v] /\ sending'[v] = sending[v]
    <3>1. 0 \in 0 .. MaxTexts /\ 0 \in 0 .. Len(sent)
      BY <1>2
    <3> QED BY <1>2, <2>2, <3>1
  <2>5. TypeOK'
    BY <1>1, <2>3, <2>4 DEF TypeOK, room
  <2>6. p = wire[u][1] /\ 1 \in 1 .. Len(wire[u])
    <3>1. Len(wire[u]) \in Nat \ {0} /\ p = wire[u][1]
      BY <2>1, ShowsIs
    <3> QED BY <3>1
  <2>7. (\A v \in Users : draft[v] <= typed)'
    <3>1. typed \in Nat
      BY DEF TypeOK
    <3> QED BY <1>1, <2>4, <3>1 DEF FormInv
  <2>8. ASSUME NEW a \in 1 .. Len(sent)
        PROVE  \/ a \in doubtful \/ sending'[sent[a].by] = a
               \/ draft'[sent[a].by] # sent[a].text
    <3>1. sent[a].by \in Users /\ sent[a].text \in Texts
      BY Typed
    <3>2. CASE sent[a].by = u
      BY <2>4, <3>1, <3>2 DEF Texts
    <3>3. CASE sent[a].by # u
      BY <2>4, <3>1, <3>3 DEF FormInv
    <3> QED BY <3>2, <3>3
  <2>9. ASSUME NEW c \in DOMAIN call
        PROVE  call[c].no \in doubtful \/ sending'[By(c)] = call[c].no
    <3>1. By(c) \in Users
      BY Typed DEF IdsInv, By
    <3>2. CASE By(c) = u
      <4>1. sending[u] # call[c].no
        BY <1>1, <1>3, <2>6 DEF FormInv
      <4> QED BY <3>2, <4>1 DEF FormInv
    <3>3. CASE By(c) # u
      BY <2>4, <3>1, <3>3 DEF FormInv
    <3> QED BY <3>2, <3>3
  <2>10. ASSUME NEW v \in Users, NEW i \in 1 .. Len(wire'[v]), NEW c \in DOMAIN call,
                wire'[v][i].kind = "ack"
         PROVE  wire'[v][i].no # call[c].no
    <3>1. PICK j \in 1 .. Len(wire[v]) : wire'[v][i] = wire[v][j]
      BY <2>3, <2>10 DEF Remains
    <3> QED BY <2>10, <3>1 DEF FormInv
  <2>11. FormInv'
    <3>1. (\A a \in 1 .. Len(sent) : /\ sent[a].text <= typed
                                     /\ \/ a \in doubtful \/ sending[sent[a].by] = a
                                        \/ draft[sent[a].by] # sent[a].text)'
      BY <1>1, <2>8 DEF FormInv
    <3>2. (\A c \in DOMAIN call : call[c].no \in doubtful \/ sending[By(c)] = call[c].no)'
      BY <1>1, <2>9 DEF By
    <3>3. (\A v \in Users : \A i \in 1 .. Len(wire[v]) : \A c \in DOMAIN call :
             wire[v][i].kind = "ack" => wire[v][i].no # call[c].no)'
      <4>1. call' = call
        BY <1>1
      <4>2. \A v \in Users : \A i \in 1 .. Len(wire'[v]) : \A c \in DOMAIN call :
              wire'[v][i].kind = "ack" => wire'[v][i].no # call[c].no
        BY <2>10
      <4> QED BY <4>1, <4>2
    <3>4. (\A a, b \in 1 .. Len(sent) :
             a # b /\ sent[a] = sent[b] => {a, b} \intersect doubtful # {})'
      BY <1>1 DEF FormInv
    <3> QED BY <2>7, <3>1, <3>2, <3>3, <3>4 DEF FormInv
  <2> QED BY <2>3, <2>5, <2>11
<1>4. CASE sending[u] # p.no
  <2>1. UNCHANGED <<shown, cut, early, draft, sending>>
    BY <1>0, <1>4 DEF TakeAck
  <2>2. wire \in [Users -> Seq(Packet)]
    BY DEF TypeOK
  <2>3. ASSUME NEW v \in Users
        PROVE  /\ Remains(wire'[v], wire[v]) /\ wire'[v] \in Seq(Packet)
               /\ Len(wire[v]) \in Nat /\ Len(wire'[v]) \in Nat
    <3>1. wire'[v] = IF v = u THEN Tail(wire[u]) ELSE wire[v]
      BY <1>1, <2>2
    <3> QED BY <1>1, <2>2, <3>1, QueueRemains
  <2>4. TypeOK'
    <3>1. wire' \in [Users -> Seq(Packet)]
      BY <1>1, <2>2, <2>3
    <3> QED BY <1>1, <2>1, <3>1 DEF TypeOK, room
  <2>5. CallsStay
    BY <1>1 DEF CallsStay
  <2>6. IdsInv' /\ SavedInv'
    BY <1>1, <2>1, <2>3, <2>5, IdsStay, SavedStay DEF IdsInv, room
  <2>7. FormInv'
    BY <1>1, <2>1, <2>3, <2>5, FormStay
  <2>8. CheckInv'
    BY <1>1 DEF CheckInv, By, room
  <2>9. HistoryInv' /\ OrderInv'
    BY <1>1, <2>1, <2>3, <2>5, HistoryStays, OrderStays DEF room
  <2>10. NewsInv'
    <3>1. \A v \in Users : page[v] = "in" => v \in inRoom
      BY DEF NewsInv
    <3>2. ASSUME NEW v \in Users, NEW i \in 1 .. Len(wire[v]), wire[v][i].kind = "message"
          PROVE  \E j \in 1 .. Len(wire'[v]) : wire'[v][j] = wire[v][i]
      <4>1. CASE v # u
        BY <1>1, <2>2, <4>1
      <4>2. CASE v = u
        <5>1. /\ Len(wire[u]) \in Nat \ {0} /\ Len(wire'[u]) = Len(wire[u]) - 1
              /\ p = wire[u][1]
              /\ \A j \in 1 .. Len(wire'[u]) : wire'[u][j] = wire[u][j + 1]
          BY <1>0, <1>1, <2>2, QueueRemains
        <5>2. i # 1
          BY <1>1, <3>2, <4>2, <5>1
        <5>3. PICK k \in 1 .. Len(wire'[u]) : i = k + 1
          <6>1. i - 1 \in 1 .. Len(wire'[u]) /\ i = (i - 1) + 1
            BY <4>2, <5>1, <5>2
          <6> QED BY <6>1
        <5> QED BY <4>2, <5>1, <5>3
      <4> QED BY <4>1, <4>2
    <3> QED BY <1>1, <2>1, <2>5, <3>1, <3>2, NewsStay DEF room
  <2> QED BY <2>4, <2>6, <2>7, <2>8, <2>9, <2>10
<1> QED BY <1>3, <1>4

LEMMA TakeKickedStep ==
  ASSUME ChatInv, NEW u \in Users, TakeKicked(u)
  PROVE  ChatInv'
<1> USE DEF ChatInv
<1>1. /\ UNCHANGED <<open, active, messages, call, history, shown, form, past>>
      /\ wire' = [wire EXCEPT ![u] = <<>>] /\ inRoom' = inRoom \ {u}
      /\ page' = [page EXCEPT ![u] = "kicked"]
  BY DEF TakeKicked
<1>2. /\ wire \in [Users -> Seq(Packet)] /\ page \in [Users -> {"new", "in", "kicked", "closed"}]
      /\ inRoom \subseteq Users
  BY DEF TypeOK
<1>3. /\ wire'[u] = <<>> /\ page'[u] = "kicked"
      /\ \A v \in Users \ {u} : wire'[v] = wire[v] /\ page'[v] = page[v]
  BY <1>1, <1>2
<1>4. TypeOK'
  <2>1. wire' \in [Users -> Seq(Packet)]
    BY <1>1, <1>2
  <2>2. page' \in [Users -> {"new", "in", "kicked", "closed"}]
    BY <1>1, <1>2
  <2> QED BY <1>1, <1>2, <2>1, <2>2 DEF TypeOK, form, past
<1>5. CallsStay
  BY <1>1 DEF CallsStay
<1>6. \A v \in Users : Remains(wire'[v], wire[v]) /\ Len(wire[v]) \in Nat /\ Len(wire'[v]) \in Nat
  BY <1>3, Typed, QueueRemains
<1>7. IdsInv' /\ SavedInv'
  BY <1>1, <1>5, <1>6, IdsStay, SavedStay DEF IdsInv, form
<1>8. FormInv'
  BY <1>1, <1>5, <1>6, FormStay DEF form, past
<1>9. CheckInv'
  BY <1>1 DEF CheckInv, By, form
<1>10. HistoryInv' /\ OrderInv'
  BY <1>1, <1>5, <1>6, HistoryStays, OrderStays DEF form, past
<1>11. NewsInv'
  <2>1. \A v \in Users : page'[v] = "in" => page[v] = "in" /\ v # u /\ v \in inRoom'
    BY <1>1, <1>3 DEF NewsInv
  <2> QED BY <1>1, <1>3, <1>5, <2>1, NewsStay DEF past
<1> QED BY <1>4, <1>7, <1>8, <1>9, <1>10, <1>11
-----------------------------------------------------------------------------
(* The invariant, and what follows from it.                                *)

LEMMA ChatInit ==
  ASSUME Init
  PROVE  ChatInv
<1>1. /\ messages = <<>> /\ sent = <<>> /\ DOMAIN call = {} /\ doubtful = {} /\ typed = 0
      /\ \A u \in Users : /\ wire[u] = <<>> /\ shown[u] = <<>> /\ draft[u] = 0
                          /\ history[u].is = "none" /\ history[u].ids = <<>> /\ page[u] = "new"
  BY DEF Init, NoAnswer
<1>2. Len(<<>>) = 0 /\ 1 .. 0 = {}
  OBVIOUS
<1>3. Saved = {} /\ 1 .. Len(sent) = {} /\ \A u \in Users : 1 .. Len(wire[u]) = {}
  BY <1>1, <1>2 DEF Saved
<1>4. TypeOK
  <2>1. <<>> \in SeqOf(Ids, Recent) /\ <<>> \in SeqOf(Message, MaxSends)
    <3>1. /\ <<>> \in Seq(Ids) /\ <<>> \in Seq(Message) /\ Recent \in Nat /\ MaxSends \in Nat
          /\ Len(<<>>) <= Recent /\ Len(<<>>) <= MaxSends
      OBVIOUS
    <3> QED BY <3>1, SeqOfSeq
  <2>2. <<>> \in Seq(Message) /\ <<>> \in Seq(Packet)
    OBVIOUS
  <2>3. NoAnswer \in Answer
    BY <2>1 DEF NoAnswer, Answer
  <2>4. wire \in [Users -> Seq(Packet)] /\ history \in [Users -> Answer]
    BY <2>2, <2>3 DEF Init
  <2>5. /\ shown \in [Users -> SeqOf(Ids, Recent)]
        /\ page \in [Users -> {"new", "in", "kicked", "closed"}]
    BY <2>1 DEF Init
  <2>6. draft \in [Users -> 0 .. MaxTexts] /\ typed \in 0 .. MaxTexts /\ faults \in 0 .. MaxFaults
    BY DEF Init
  <2>7. sending \in [Users -> 0 .. Len(sent)]
    <3>1. Len(sent) = 0
      BY <1>1, <1>2
    <3> QED BY <3>1 DEF Init
  <2>8. DOMAIN call \subseteq Calls /\ call \in [DOMAIN call -> Call]
    BY DEF Init
  <2>9. Len(messages) <= Len(sent)
    BY <1>1, <1>2
  <2> QED BY <1>1, <2>1, <2>2, <2>4, <2>5, <2>6, <2>7, <2>8, <2>9 DEF TypeOK, Init
<1>5. IdsInv
  BY <1>1, <1>3, NoElements DEF IdsInv
<1>6. SavedInv
  <2>1. PICK f : f \in [Saved -> 1 .. Len(sent)]
    <3>1. [i \in Saved |-> 1] \in [Saved -> 1 .. Len(sent)]
      BY <1>3
    <3> QED BY <3>1
  <2> QED BY <1>1, <1>3, <2>1 DEF SavedInv, Requests
<1>7. FormInv
  BY <1>1, <1>3 DEF FormInv
<1>8. CheckInv /\ HistoryInv /\ NewsInv
  BY <1>1 DEF CheckInv, HistoryInv, NewsInv
<1>9. OrderInv
  BY <1>1, <1>2, <1>3, NoElements DEF OrderInv, CallOrder, WireOrder, ShownOrder, LateOrder
<1> QED BY <1>4, <1>5, <1>6, <1>7, <1>8, <1>9 DEF ChatInv

LEMMA ChatStep ==
  ASSUME ChatInv, [Next]_vars
  PROVE  ChatInv'
<1>1. CASE EndRoom
  BY <1>1, EndRoomStep
<1>2. ASSUME NEW u \in Users, Join(u) \/ Kick(u) \/ Close(u)
      PROVE  ChatInv'
  BY <1>2, JoinStep, KickStep, CloseStep
<1>3. ASSUME NEW u \in Users, Type(u) \/ TimeOut(u)
      PROVE  ChatInv'
  BY <1>3, TypeStep, TimeOutStep
<1>4. ASSUME NEW u \in Users, NEW c \in Calls, Send(c, u)
      PROVE  ChatInv'
  BY <1>4, SendStep
<1>5. ASSUME NEW u \in Users, ServeHistory(u) \/ TakeHistory(u)
      PROVE  ChatInv'
  BY <1>5, ServeHistoryStep, TakeHistoryStep
<1>6. ASSUME NEW u \in Users, Receive(u)
      PROVE  ChatInv'
  BY <1>6, TakeMessageStep, TakeAckStep, TakeKickedStep DEF Receive
<1>7. ASSUME NEW c \in Calls, CheckRoom(c) \/ CheckMember(c) \/ Save(c) \/ Announce(c)
      PROVE  ChatInv'
  BY <1>7, CheckRoomStep, CheckMemberStep, SaveStep, AnnounceStep
<1>8. CASE UNCHANGED vars
  <2>1. UNCHANGED <<open, active, inRoom, messages, call, wire, history, page, shown, draft,
                    sent, sending, typed, faults, doubtful, cut, early>>
    BY <1>8 DEF vars
  <2>2. TypeOK' /\ IdsInv' /\ CheckInv'
    BY <2>1 DEF ChatInv, TypeOK, IdsInv, Saved, CheckInv, By
  <2>3. CallsStay
    BY <2>1 DEF CallsStay
  <2>4. \A v \in Users : Remains(wire'[v], wire[v]) /\ Len(wire[v]) \in Nat /\ Len(wire'[v]) \in Nat
    BY <2>1, Typed, QueueRemains DEF ChatInv
  <2>5. SavedInv' /\ FormInv'
    BY <2>1, <2>3, <2>4, SavedStay, FormStay DEF ChatInv
  <2>6. HistoryInv' /\ OrderInv'
    BY <2>1, <2>3, <2>4, HistoryStays, OrderStays DEF ChatInv
  <2>7. NewsInv'
    <3>1. \A v \in Users : page[v] = "in" => v \in inRoom
      BY DEF ChatInv, NewsInv
    <3> QED BY <2>1, <2>3, <3>1, NewsStay DEF ChatInv
  <2> QED BY <2>2, <2>5, <2>6, <2>7 DEF ChatInv
<1> QED BY <1>1, <1>2, <1>3, <1>4, <1>5, <1>6, <1>7, <1>8 DEF Next

LEMMA ChatAlways == Spec => []ChatInv
<1>1. Init => ChatInv
  BY ChatInit
<1>2. ChatInv /\ [Next]_vars => ChatInv'
  BY ChatStep
<1> QED BY <1>1, <1>2, PTL DEF Spec

\* The variables keep their types: the lists of the pages and of the history stay short, and
\* no more is saved than was sent.
THEOREM ChatTyped == Spec => []TypeOK
BY ChatAlways, PTL DEF ChatInv

\* A page to which nothing is on its way has every message of the room, whether saved before
\* or after its join, unless its list is full, or it showed the message before an older
\* history replaced its list.
THEOREM MissesNothing == Spec => []NothingIsMissed
<1>1. ChatInv => NothingIsMissed
  <2> SUFFICES ASSUME ChatInv, NEW u \in Users, page[u] = "in", Quiet(u),
                      NEW id \in 1 .. Len(messages)
               PROVE  id \in ToSet(shown[u]) \/ <<u, id>> \in early \/ Len(shown[u]) = Recent
    BY DEF NothingIsMissed
  <2>1. ~Coming(u, id)
    <3>1. 1 .. Len(wire[u]) = {}
      BY DEF Quiet
    <3> QED BY <3>1 DEF Quiet, Coming, At
  <2> QED BY <2>1 DEF ChatInv, NewsInv, Saved, Quiet
<1> QED BY <1>1, ChatAlways, PTL

\* A page shows a message once, and one person's messages in the order of their saves, but
\* for the exceptions that ShownInOrder names.
THEOREM OrderIsShown == Spec => []ShownInOrder
<1>1. ChatInv => ShownInOrder
  <2> SUFFICES ASSUME ChatInv, NEW u \in Users, NEW i \in 1 .. Len(shown[u]),
                      NEW j \in 1 .. Len(shown[u]), i < j
               PROVE  /\ shown[u][i] # shown[u][j]
                      /\ messages[shown[u][i]].by = messages[shown[u][j]].by =>
                           \/ shown[u][i] < shown[u][j] \/ <<u, shown[u][j]>> \in cut
                           \/ \E no \in doubtful : sent[no].by = messages[shown[u][i]].by
    BY DEF ShownInOrder
  <2> QED BY DEF ChatInv, OrderInv, ShownOrder, Comparable
<1> QED BY <1>1, ChatAlways, PTL

\* A text is saved twice only for a request whose sender was not told in time.
THEOREM TextIsSaidOnce == Spec => []SaidOnce
<1>1. ChatInv => SaidOnce
  <2> SUFFICES ASSUME ChatInv, NEW m \in Saved, NEW n \in Saved, m # n, messages[m] = messages[n]
               PROVE  \E no \in doubtful : sent[no] = messages[m]
    BY DEF SaidOnce, Saved
  <2>1. PICK f \in [Saved -> 1 .. Len(sent)] : Requests(f)
    BY DEF ChatInv, SavedInv
  <2>2. /\ f[m] \in 1 .. Len(sent) /\ f[n] \in 1 .. Len(sent) /\ f[m] # f[n]
        /\ sent[f[m]] = messages[m] /\ sent[f[n]] = messages[m]
    BY <2>1 DEF Requests
  <2>3. {f[m], f[n]} \intersect doubtful # {}
    BY <2>2 DEF ChatInv, FormInv
  <2> QED BY <2>2, <2>3
<1> QED BY <1>1, ChatAlways, PTL

\* A message is saved in an open room for someone with a row, or by a handler that passed
\* its checks before the room ended or the row was closed.
THEOREM LastWordsOnly == Spec => LastWords
<1>1. ChatInv /\ [Next]_vars =>
        [\A c \in DOMAIN call : At(c, "save") /\ call'[c].pc = "announce" =>
           (open /\ By(c) \in active) \/ call[c].over]_vars
  BY DEF ChatInv, CheckInv, At
<1> QED BY <1>1, ChatAlways, PTL DEF Spec, LastWords
=============================================================================
