--------------------------- MODULE RoomFeedProofs ---------------------------
(* Theorems about RoomFeed for every value of its constants, with proofs.  *)
EXTENDS RoomFeed, FiniteSetTheorems, TLAPS

USE FeedAssumption

\* What the stage of a handler says about its operation.
ShapeOf(k) == /\ k.pc = "apply" <=> k.op = "update"
              /\ k.pc \in {"enter", "recount", "reply"} => k.op = "join"

CallsOK == /\ DOMAIN call \subseteq CallIds /\ call \in [DOMAIN call -> Call]
           /\ \A c \in DOMAIN call : ShapeOf(call[c])

TypeInv == TypeOK /\ CallsOK

-----------------------------------------------------------------------------
(* The helpers stay within the types.                                      *)

\* The default scene is a scene.
LEMMA DefaultType == Default \in Scene
BY DEF Default, Scene, Edits

\* A count of the active spectators is a count.
LEMMA CountingType ==
  ASSUME rows \subseteq Members, changes \in Nat
  PROVE  Counting \in Counted
<1>1. IsFiniteSet(rows \intersect Spectators)
  BY FS_Subset
<1> QED BY <1>1, FS_CardinalityType DEF Counting, Counted

\* An edit of a scene is a scene.
LEMMA PatchedType ==
  ASSUME scene \in Scene, NEW k \in Call
  PROVE  Patched(k) \in Scene
BY DEF Patched, Overlaid, Scene, Call

\* A packet that is not a count carries a scene, one that is not a scene a count.
LEMMA PacketFields ==
  ASSUME NEW p \in Packet
  PROVE  /\ p.kind \in {"scene", "count", "ack"}
         /\ p.kind # "count" => p.scene \in Scene
         /\ p.kind # "scene" => p.counted \in Counted
BY DEF Packet

\* A broadcast of a packet keeps the wires typed.
LEMMA BroadcastType ==
  ASSUME wire \in [Members -> Seq(Packet)], NEW p \in Packet
  PROVE  Broadcast(p) \in [Members -> Seq(Packet)]
BY DEF Broadcast

-----------------------------------------------------------------------------
(* A step that begins, moves or ends one handler keeps the handlers typed. *)

\* A new handler is typed.
LEMMA BlankType ==
  ASSUME NEW m \in Members
  PROVE  /\ Blank("join", m, "save") \in Call
         /\ Blank("leave", m, "save") \in Call
         /\ Blank("drop", m, "save") \in Call
         /\ Blank("update", m, "apply") \in Call
BY DefaultType DEF Blank, Call, Edits, Counted, Nothing

\* Adding handlers of the right shape keeps the handlers typed.
LEMMA BegunKeeps ==
  ASSUME CallsOK, NEW new, DOMAIN new \subseteq CallIds,
         \A d \in DOMAIN new : new[d] \in Call /\ ShapeOf(new[d]),
         call' = Begun(new)
  PROVE  CallsOK'
BY DEF CallsOK, Begun, ShapeOf

\* Removing a handler does, too.
LEMMA EndKeeps ==
  ASSUME CallsOK, NEW c, End(c)
  PROVE  CallsOK'
BY DEF CallsOK, End, ShapeOf

\* So does replacing one by a handler of the right shape.
LEMMA MoveKeeps ==
  ASSUME CallsOK, NEW c \in DOMAIN call, NEW k \in Call, ShapeOf(k),
         call' = [call EXCEPT ![c] = k]
  PROVE  CallsOK'
BY DEF CallsOK, ShapeOf

\* Moving a handler of a join, a leave or a disconnect to another of its stages.
LEMMA GotoKeeps ==
  ASSUME CallsOK, NEW c \in DOMAIN call, NEW stage, Goto(c, stage),
         \/ stage = "enter" /\ call[c].op = "join"
         \/ stage = "count" /\ call[c].op # "update"
  PROVE  CallsOK'
<1> DEFINE k == [call[c] EXCEPT !.pc = stage]
<1>1. k \in Call /\ ShapeOf(k)
  BY DEF CallsOK, Call, ShapeOf
<1>2. call' = [call EXCEPT ![c] = k]
  BY DEF Goto
<1> QED BY <1>1, <1>2, MoveKeeps

\* The initial state is typed.
LEMMA TypeInit == Init => TypeInv
<1> SUFFICES ASSUME Init PROVE TypeInv
  OBVIOUS
<1>1. CallsOK
  BY DEF Init, CallsOK
<1>2. /\ Nothing \in Counted
      /\ 0 \in Edits /\ <<>> \in Seq(Edits) /\ <<>> \in Seq(Packet)
  BY DEF Counted, Nothing, Edits
<1>3. /\ wire \in [Members -> Seq(Packet)] /\ ran \in [Members -> Seq(Edits)]
      /\ tries \in [Members -> 0 .. MaxTries] /\ last \in [Members -> Edits]
      /\ screen \in [Members -> Scene] /\ count \in [Members -> Counted]
  BY <1>2, DefaultType DEF Init
<1> QED BY <1>1, <1>2, <1>3, DefaultType DEF Init, TypeInv, TypeOK, CallsOK

\* A request of a client keeps the types.
LEMMA TypeRequest ==
  ASSUME TypeInv, NEW c \in Calls, NEW m \in Members,
         \/ AskJoin(c, m) \/ Close(c, m)
         \/ \E patch \in Patches : Edit(c, m, patch)
  PROVE  TypeInv'
<1>1. CASE AskJoin(c, m)
  <2> DEFINE k == [Blank("join", m, "save") EXCEPT !.try = tries[m] + 1]
  <2>1. tries[m] + 1 \in 0 .. MaxTries
    BY <1>1 DEF AskJoin, TypeInv, TypeOK
  <2>2. k \in Call /\ ShapeOf(k)
    BY <2>1, BlankType DEF Blank, Call, ShapeOf
  <2>3. CallsOK'
    <3>1. call' = Begun([d \in {c} |-> k])
      BY <1>1 DEF AskJoin, Begin
    <3>2. \A d \in DOMAIN [e \in {c} |-> k] : [e \in {c} |-> k][d] \in Call /\ ShapeOf([e \in {c} |-> k][d])
      BY <2>2
    <3>3. DOMAIN [d \in {c} |-> k] \subseteq CallIds /\ CallsOK
      BY DEF TypeInv, CallIds
    <3> QED BY <3>1, <3>2, <3>3, BegunKeeps
  <2> QED BY <1>1, <2>1, <2>3 DEF AskJoin, server, TypeInv, TypeOK, CallsOK
<1>2. CASE Close(c, m)
  <2> DEFINE new == [d \in {m} \union (IF page[m] = "in" THEN {c} ELSE {}) |->
                       Blank(IF d = m THEN "drop" ELSE "leave", m, "save")]
  <2>1. \A d \in DOMAIN new : new[d] \in Call /\ ShapeOf(new[d])
    BY BlankType DEF Blank, ShapeOf
  <2>2. CallsOK'
    BY <1>2, <2>1, BegunKeeps DEF Close, TypeInv, CallIds
  <2>3. wire' \in [Members -> Seq(Packet)]
    BY <1>2 DEF Close, TypeInv, TypeOK
  <2> QED BY <1>2, <2>2, <2>3 DEF Close, TypeInv, TypeOK, CallsOK
<1>3. ASSUME NEW patch \in Patches, Edit(c, m, patch)
      PROVE  TypeInv'
  <2> DEFINE k == [Blank("update", m, "apply") EXCEPT !.edit = edits', !.patch = patch]
  <2>1. edits' \in Edits
    <3>1. edits \in 0 .. MaxEdits /\ edits < MaxEdits /\ edits' = edits + 1
      BY <1>3 DEF Edit, TypeInv, TypeOK, Edits
    <3> QED BY <3>1 DEF Edits
  <2>2. k \in Call /\ ShapeOf(k)
    BY <2>1, BlankType DEF Blank, Call, ShapeOf
  <2>3. CallsOK'
    <3>1. call' = Begun([d \in {c} |-> k])
      BY <1>3 DEF Edit, Begin
    <3>2. \A d \in DOMAIN [e \in {c} |-> k] : [e \in {c} |-> k][d] \in Call /\ ShapeOf([e \in {c} |-> k][d])
      BY <2>2
    <3>3. DOMAIN [d \in {c} |-> k] \subseteq CallIds /\ CallsOK
      BY DEF TypeInv, CallIds
    <3> QED BY <3>1, <3>2, <3>3, BegunKeeps
  <2>4. screen' \in [Members -> Scene] /\ last' \in [Members -> Edits]
    <3>1. screen[m] \in Scene
      BY DEF TypeInv, TypeOK
    <3>2. Overlaid(screen[m].of, patch, edits') \in [Fields -> Edits]
      BY <2>1, <3>1 DEF Overlaid, Scene
    <3>3. [ver |-> screen[m].ver, of |-> Overlaid(screen[m].of, patch, edits')] \in Scene
      BY <3>1, <3>2 DEF Scene
    <3> QED BY <1>3, <2>1, <3>3 DEF Edit, TypeInv, TypeOK
  <2> QED BY <1>3, <2>1, <2>3, <2>4 DEF Edit, server, TypeInv, TypeOK, CallsOK
<1> QED BY <1>1, <1>2, <1>3

\* The members named by a handler, and the fields it carries.
LEMMA CallFields ==
  ASSUME TypeInv, NEW c \in DOMAIN call
  PROVE  /\ call[c].m \in Members /\ call[c].scene \in Scene
         /\ call[c].counted \in Counted /\ call[c].try \in 0 .. MaxTries
BY DEF TypeInv, CallsOK, Call

\* A step of a handler keeps the types.
LEMMA TypeStep ==
  ASSUME TypeInv, NEW c \in CallIds, Step(c)
  PROVE  TypeInv'
<1>1. c \in DOMAIN call
  BY DEF Step, Join, Enter, Depart, Count, Tell, Reply, Apply, At
<1>2. call[c] \in Call /\ CallsOK
  BY <1>1 DEF TypeInv, CallsOK
<1>3. CASE Join(c)
  <2>1. CallsOK'
    BY <1>1, <1>2, <1>3, EndKeeps, GotoKeeps DEF Join
  <2>2. rows' \subseteq Members /\ changes' \in Nat
    BY <1>1, <1>3, CallFields DEF Join, SetRows, TypeInv, TypeOK
  <2> QED BY <1>3, <2>1, <2>2 DEF Join, client, TypeInv, TypeOK, CallsOK
<1>4. CASE Enter(c)
  <2> DEFINE k == [call[c] EXCEPT !.scene = scene, !.pc = "recount"]
  <2>1. call[c].op = "join"
    BY <1>1, <1>4 DEF Enter, At, TypeInv, CallsOK, ShapeOf
  <2>2. k \in Call /\ ShapeOf(k)
    BY <1>2, <2>1 DEF TypeInv, TypeOK, Call, ShapeOf
  <2>3. CASE call' = [call EXCEPT ![c].scene = scene, ![c].pc = "recount"]
    <3>1. call' = [call EXCEPT ![c] = k]
      BY <2>3
    <3> QED BY <1>1, <1>2, <1>4, <2>2, <3>1, MoveKeeps, CallFields
            DEF Enter, client, TypeInv, TypeOK, CallsOK
  <2>4. CASE Goto(c, "count")
    <3>1. CallsOK'
      BY <1>1, <1>2, <2>1, <2>4, GotoKeeps
    <3> QED BY <1>1, <1>4, <3>1, CallFields DEF Enter, client, TypeInv, TypeOK, CallsOK
  <2> QED BY <1>4, <2>3, <2>4 DEF Enter
<1>5. CASE Depart(c)
  <2>1. CallsOK'
    BY <1>1, <1>2, <1>5, EndKeeps, GotoKeeps DEF Depart
  <2>2. rows' \subseteq Members /\ changes' \in Nat /\ slugged' \subseteq Members
    BY <1>1, <1>5, CallFields DEF Depart, SetRows, TypeInv, TypeOK
  <2> QED BY <1>5, <2>1, <2>2 DEF Depart, client, TypeInv, TypeOK, CallsOK
<1>6. CASE Count(c)
  <2> DEFINE k == [call[c] EXCEPT !.counted = Counting,
                                  !.pc = IF @ = "count" THEN "tell" ELSE "reply"]
  <2>1. k \in Call /\ ShapeOf(k)
    BY <1>1, <1>2, <1>6, CountingType DEF Count, At, TypeInv, TypeOK, CallsOK, Call, ShapeOf
  <2>2. CallsOK'
    <3>1. CASE ended
      BY <1>2, <1>6, <3>1, EndKeeps DEF Count
    <3>2. CASE ~ended
      <4>1. call' = [call EXCEPT ![c] = k]
        BY <1>6, <3>2 DEF Count
      <4> QED BY <1>1, <1>2, <2>1, <4>1, MoveKeeps
    <3> QED BY <3>1, <3>2
  <2> QED BY <1>6, <2>2 DEF Count, client, server, TypeInv, TypeOK, CallsOK
<1>7. CASE Tell(c)
  <2> DEFINE k == [call[c] EXCEPT !.scene = scene, !.pc = "recount"]
  <2>1. CallsOK'
    <3>1. CASE call[c].op = "join"
      <4>1. k \in Call /\ ShapeOf(k)
        BY <1>2, <3>1 DEF TypeInv, TypeOK, Call, ShapeOf
      <4>2. call' = [call EXCEPT ![c] = k]
        BY <1>7, <3>1 DEF Tell
      <4> QED BY <1>1, <1>2, <4>1, <4>2, MoveKeeps
    <3>2. CASE call[c].op # "join"
      BY <1>2, <1>7, <3>2, EndKeeps DEF Tell
    <3> QED BY <3>1, <3>2
  <2>2. wire' \in [Members -> Seq(Packet)]
    <3>1. [kind |-> "count", counted |-> call[c].counted] \in Packet
      BY <1>1, CallFields DEF Packet
    <3> QED BY <1>7, <3>1, BroadcastType DEF Tell, TypeInv, TypeOK
  <2>3. slugged' \subseteq Members
    BY <1>7 DEF Tell, TypeInv, TypeOK
  <2> QED BY <1>7, <2>1, <2>2, <2>3 DEF Tell, client, TypeInv, TypeOK, CallsOK
<1>8. CASE Reply(c)
  <2>1. [kind |-> "ack", try |-> call[c].try, scene |-> call[c].scene,
         counted |-> call[c].counted] \in Packet
    BY <1>1, CallFields DEF Packet
  <2>2. wire' \in [Members -> Seq(Packet)]
    BY <1>1, <1>8, <2>1, CallFields DEF Reply, TypeInv, TypeOK
  <2> QED BY <1>2, <1>8, <2>2, EndKeeps DEF Reply, client, server, TypeInv, TypeOK, CallsOK
<1>9. CASE Apply(c)
  <2>1. Patched(call[c]) \in Scene
    BY <1>2, PatchedType DEF TypeInv, TypeOK
  <2>2. scene' \in Scene
    BY <1>9, <2>1 DEF Apply, TypeInv, TypeOK
  <2>3. wire' \in [Members -> Seq(Packet)]
    <3>1. [kind |-> "scene", scene |-> scene'] \in Packet
      BY <2>2 DEF Packet
    <3> QED BY <1>9, <3>1, BroadcastType DEF Apply, TypeInv, TypeOK
  <2> QED BY <1>2, <1>9, <2>2, <2>3, EndKeeps DEF Apply, client, TypeInv, TypeOK, CallsOK
<1> QED BY <1>3, <1>4, <1>5, <1>6, <1>7, <1>8, <1>9 DEF Step

\* Receiving a packet keeps the types.
LEMMA TypeReceive ==
  ASSUME TypeInv, NEW m \in Members, Receive(m)
  PROVE  TypeInv'
<1> DEFINE p == Head(wire[m])
<1>1. /\ p \in Packet /\ Tail(wire[m]) \in Seq(Packet)
  BY DEF Receive, TypeInv, TypeOK
<1>2. wire' \in [Members -> Seq(Packet)]
  BY <1>1 DEF Receive, TypeInv, TypeOK
<1>3. page' \in [Members -> {"new", "joining", "failed", "in", "closed"}]
  BY DEF Receive, TypeInv, TypeOK
<1>4. /\ screen' \in [Members -> Scene] /\ last' \in [Members -> Edits]
      /\ ran' \in [Members -> Seq(Edits)]
  <2>1. CASE UNCHANGED <<screen, last, ran>>
    BY <2>1 DEF TypeInv, TypeOK
  <2>2. CASE Show(m, p.scene) /\ p.kind # "count"
    <3>1. p.scene \in Scene /\ p.scene.of[Command] \in Edits
      BY <1>1, <2>2, PacketFields DEF Scene
    <3> QED BY <2>2, <3>1 DEF Show, TypeInv, TypeOK
  <2> QED BY <2>1, <2>2 DEF Receive
<1>5. count' \in [Members -> Counted]
  BY <1>1, PacketFields DEF Receive, TypeInv, TypeOK
<1>6. behind' \subseteq Members \X {"scene", "count"}
  BY DEF Receive, SetBack, TypeInv, TypeOK
<1> QED BY <1>2, <1>3, <1>4, <1>5, <1>6 DEF Receive, server, TypeInv, TypeOK, CallsOK

\* Every step keeps the types.
LEMMA TypeNext == TypeInv /\ [Next]_vars => TypeInv'
<1> SUFFICES ASSUME TypeInv, [Next]_vars PROVE TypeInv'
  OBVIOUS
<1>1. CASE UNCHANGED vars
  BY <1>1 DEF vars, TypeInv, TypeOK, CallsOK
<1>2. CASE EndRoom
  BY <1>2 DEF EndRoom, client, TypeInv, TypeOK, CallsOK
<1>3. ASSUME NEW m \in Members, TimeOut(m)
      PROVE  TypeInv'
  BY <1>3 DEF TimeOut, server, TypeInv, TypeOK, CallsOK
<1> QED BY <1>1, <1>2, <1>3, TypeRequest, TypeStep, TypeReceive DEF Next

\* The types of every variable hold in every behaviour.
THEOREM FeedTyped == Spec => []TypeOK
<1>1. TypeInv => TypeOK
  BY DEF TypeInv
<1> QED BY <1>1, TypeInit, TypeNext, PTL DEF Spec
-----------------------------------------------------------------------------
(* The scene of RoomFeed reaches the pages in order, and the pages in the  *)
(* room show it: proofs for every value of the constants.                  *)

\* Every scene among the packets of w has at most version v.
Bounded(w, v) ==
  \A i \in 1 .. Len(w) : w[i].kind # "count" => w[i].scene.ver <= v

OrderInv ==
  /\ \A m \in Members : screen[m].ver <= scene.ver /\ Bounded(wire[m], scene.ver)
  /\ \A c \in DOMAIN call : call[c].scene.ver <= scene.ver
  /\ BroadcastScenesMoveOn

-----------------------------------------------------------------------------
(* Packets in order.                                                       *)

\* A packet that is no scene, or newer than all others, keeps the order.
LEMMA AppendOrder ==
  ASSUME NEW w \in Seq(Packet), NEW p \in Packet, NEW v \in Nat, NEW top \in Nat,
         NEW new \in Nat, top <= new, v <= top, InOrder(v, w), Bounded(w, top),
         p.kind # "count" => p.scene.ver <= new,
         p.kind = "scene" => top < p.scene.ver
  PROVE  InOrder(v, Append(w, p)) /\ Bounded(Append(w, p), new)
<1> DEFINE a == Append(w, p)
<1>1. /\ Len(a) = Len(w) + 1 /\ Len(w) \in Nat
      /\ \A i \in 1 .. Len(w) : a[i] = w[i] /\ w[i] \in Packet
      /\ a[Len(w) + 1] = p
  OBVIOUS
<1>2. \A i \in 1 .. Len(w) : w[i].kind # "count" => w[i].scene.ver \in Nat
  BY <1>1, PacketFields DEF Scene
<1>3. p.kind # "count" => p.scene.ver \in Nat
  BY PacketFields DEF Scene
<1>4. ASSUME NEW i \in 1 .. Len(a)
      PROVE  i \in 1 .. Len(w) \/ i = Len(w) + 1
  BY <1>1
<1>5. Bounded(a, new)
  BY <1>1, <1>2, <1>3, <1>4 DEF Bounded
<1>6. ASSUME NEW i \in 1 .. Len(a), a[i].kind = "scene"
      PROVE  /\ v < a[i].scene.ver
             /\ \A j \in 1 .. i - 1 : a[j].kind # "count" => a[j].scene.ver < a[i].scene.ver
  <2>1. CASE i \in 1 .. Len(w)
    <3>1. \A j \in 1 .. i - 1 : j \in 1 .. Len(w)
      BY <1>1, <2>1
    <3> QED BY <1>1, <1>6, <2>1, <3>1 DEF InOrder
  <2>2. CASE i = Len(w) + 1
    <3>1. \A j \in 1 .. i - 1 : j \in 1 .. Len(w)
      BY <1>1, <2>2
    <3>2. a[i] = p /\ top < p.scene.ver /\ p.scene.ver \in Nat
      BY <1>1, <1>3, <1>6, <2>2, PacketFields
    <3> QED BY <1>1, <1>2, <3>1, <3>2 DEF Bounded
  <2> QED BY <1>4, <2>1, <2>2
<1> QED BY <1>5, <1>6 DEF InOrder

\* What is left when the first packet has been taken is in order, after that packet, too.
LEMMA TailOrder ==
  ASSUME NEW w \in Seq(Packet), w # <<>>, NEW v, NEW top, InOrder(v, w), Bounded(w, top)
  PROVE  /\ InOrder(v, Tail(w)) /\ Bounded(Tail(w), top)
         /\ Head(w).kind # "count" =>
              InOrder(Head(w).scene.ver, Tail(w)) /\ Head(w).scene.ver <= top
<1> DEFINE t == Tail(w)
<1>1. /\ Len(w) \in Nat \ {0} /\ Len(t) = Len(w) - 1
      /\ \A i \in 1 .. Len(t) : t[i] = w[i + 1] /\ i + 1 \in 1 .. Len(w)
      /\ Head(w) = w[1] /\ 1 \in 1 .. Len(w)
  OBVIOUS
<1>2. Bounded(t, top)
  BY <1>1 DEF Bounded
<1>3. ASSUME NEW i \in 1 .. Len(t), t[i].kind = "scene"
      PROVE  /\ v < t[i].scene.ver
             /\ Head(w).kind # "count" => Head(w).scene.ver < t[i].scene.ver
             /\ \A j \in 1 .. i - 1 : t[j].kind # "count" => t[j].scene.ver < t[i].scene.ver
  <2>1. /\ v < w[i + 1].scene.ver
        /\ \A j \in 1 .. (i + 1) - 1 : w[j].kind # "count" => w[j].scene.ver < w[i + 1].scene.ver
    BY <1>1, <1>3 DEF InOrder
  <2>2. 1 \in 1 .. (i + 1) - 1
    BY <1>1
  <2>3. \A j \in 1 .. i - 1 : j + 1 \in 1 .. (i + 1) - 1 /\ j \in 1 .. Len(t)
    BY <1>1
  <2> QED BY <1>1, <2>1, <2>2, <2>3
<1> QED BY <1>1, <1>2, <1>3 DEF InOrder, Bounded

-----------------------------------------------------------------------------
(* What a step does to the handlers.                                       *)

\* A handler carries the scene it carried before, the server's, or none yet.
LEMMA NextScenes ==
  ASSUME TypeInv, Next, NEW d \in DOMAIN call'
  PROVE  \/ d \in DOMAIN call /\ call'[d].scene = call[d].scene
         \/ call'[d].scene = scene
         \/ call'[d].scene = Default
<1>1. ASSUME NEW c \in Calls, NEW m \in Members,
             \/ AskJoin(c, m) \/ Close(c, m)
             \/ \E patch \in Patches : Edit(c, m, patch)
      PROVE  (d \in DOMAIN call /\ call'[d] = call[d]) \/ call'[d].scene = Default
  <2>1. CASE AskJoin(c, m)
    BY <2>1 DEF AskJoin, Begin, Begun, Blank
  <2>2. CASE Close(c, m)
    BY <2>2 DEF Close, Begun, Blank
  <2>3. ASSUME NEW patch \in Patches, Edit(c, m, patch)
        PROVE  (d \in DOMAIN call /\ call'[d] = call[d]) \/ call'[d].scene = Default
    <3>1. Begin(c, [Blank("update", m, "apply") EXCEPT !.edit = edits', !.patch = patch])
      BY <2>3 DEF Edit
    <3> QED BY <3>1 DEF Begin, Begun, Blank
  <2> QED BY <1>1, <2>1, <2>2, <2>3
<1>2. ASSUME NEW c \in CallIds, Step(c)
      PROVE  d \in DOMAIN call /\ call'[d].scene \in {call[d].scene, scene}
  <2>1. c \in DOMAIN call /\ call \in [DOMAIN call -> Call]
    BY <1>2 DEF Step, Join, Enter, Depart, Count, Tell, Reply, Apply, At, TypeInv, CallsOK
  <2>2. \/ End(c) \/ \E stage : Goto(c, stage)
        \/ call' = [call EXCEPT ![c].scene = scene, ![c].pc = "recount"]
        \/ call' = [call EXCEPT ![c].counted = Counting,
                                ![c].pc = IF @ = "count" THEN "tell" ELSE "reply"]
    BY <1>2 DEF Step, Join, Enter, Depart, Count, Tell, Reply, Apply
  <2>3. CASE End(c)
    BY <2>1, <2>3 DEF End
  <2>4. ASSUME NEW stage, Goto(c, stage)
        PROVE  d \in DOMAIN call /\ call'[d].scene \in {call[d].scene, scene}
    BY <2>1, <2>4 DEF Goto, Call
  <2>5. CASE call' = [call EXCEPT ![c].scene = scene, ![c].pc = "recount"]
    BY <2>1, <2>5 DEF Call
  <2>6. CASE call' = [call EXCEPT ![c].counted = Counting,
                                  ![c].pc = IF @ = "count" THEN "tell" ELSE "reply"]
    BY <2>1, <2>6 DEF Call
  <2> QED BY <2>2, <2>3, <2>4, <2>5, <2>6
<1>3. CASE EndRoom \/ \E m \in Members : TimeOut(m) \/ Receive(m)
  BY <1>3 DEF EndRoom, TimeOut, Receive
<1> QED BY <1>1, <1>2, <1>3 DEF Next

\* The version of the scene only grows.
LEMMA NextVersion ==
  ASSUME TypeInv, Next
  PROVE  /\ scene' = scene \/ scene'.ver = scene.ver + 1
         /\ scene.ver \in Nat /\ scene'.ver \in Nat /\ scene.ver <= scene'.ver
<1>1. scene \in Scene
  BY DEF TypeInv, TypeOK
<1>2. ASSUME NEW c \in CallIds, Step(c)
      PROVE  scene' = scene \/ scene'.ver = scene.ver + 1
  <2>1. CASE ~Apply(c)
    BY <1>2, <2>1 DEF Step, Join, Enter, Depart, Count, Tell, Reply, server
  <2>2. CASE Apply(c)
    <3>1. scene' = scene \/ scene' = Patched(call[c])
      BY <2>2 DEF Apply
    <3> QED BY <3>1 DEF Patched
  <2> QED BY <2>1, <2>2
<1>3. EndRoom \/ (\E m \in Members : TimeOut(m) \/ Receive(m)) => scene' = scene
  BY DEF EndRoom, TimeOut, Receive, server
<1>4. ASSUME NEW c \in Calls, NEW m \in Members,
             \/ AskJoin(c, m) \/ Close(c, m)
             \/ \E patch \in Patches : Edit(c, m, patch)
      PROVE  scene' = scene
  BY <1>4 DEF AskJoin, Close, Edit, server
<1>5. scene' = scene \/ scene'.ver = scene.ver + 1
  BY <1>2, <1>3, <1>4 DEF Next
<1>6. scene.ver \in Nat
  BY <1>1 DEF Scene
<1>7. scene'.ver = scene.ver \/ scene'.ver = scene.ver + 1
  BY <1>5
<1> QED BY <1>5, <1>6, <1>7
-----------------------------------------------------------------------------
(* The order of scenes.                                                    *)

\* Initially no scene is on its way.
LEMMA OrderInit == Init => OrderInv
BY DEF Init, OrderInv, BroadcastScenesMoveOn, InOrder, Bounded, Default

\* What OrderInv says of one page.
Ordered(m) == /\ screen[m].ver <= scene.ver /\ Bounded(wire[m], scene.ver)
              /\ InOrder(screen[m].ver, wire[m])

\* A step that leaves a page and its wire alone, or empties the wire.
LEMMA OrderIdle ==
  ASSUME TypeInv, NEW m \in Members, Ordered(m), scene.ver \in Nat, scene'.ver \in Nat,
         scene.ver <= scene'.ver,
         screen'[m].ver = screen[m].ver, wire'[m] = wire[m] \/ wire'[m] = <<>>
  PROVE  Ordered(m)'
<1>1. wire[m] \in Seq(Packet) /\ screen[m].ver \in Nat
  BY DEF TypeInv, TypeOK, Scene
<1>2. \A i \in 1 .. Len(wire[m]) : wire[m][i].kind # "count" => wire[m][i].scene.ver \in Nat
  BY <1>1, PacketFields DEF Scene
<1>3. Bounded(wire[m], scene'.ver) /\ screen[m].ver <= scene'.ver
  BY <1>1, <1>2 DEF Ordered, Bounded
<1>4. Bounded(<<>>, scene'.ver) /\ InOrder(screen[m].ver, <<>>)
  BY DEF Bounded, InOrder
<1>5. CASE wire'[m] = wire[m]
  BY <1>3, <1>5 DEF Ordered
<1>6. CASE wire'[m] = <<>>
  BY <1>3, <1>4, <1>6 DEF Ordered
<1> QED BY <1>5, <1>6

\* A step of a handler keeps the order.
LEMMA OrderStep ==
  ASSUME TypeInv, OrderInv, NEW c \in CallIds, Step(c), NEW m \in Members
  PROVE  Ordered(m)'
<1>1. /\ Ordered(m) /\ screen' = screen /\ wire[m] \in Seq(Packet)
      /\ scene \in Scene /\ scene.ver \in Nat /\ screen[m].ver \in Nat
  BY DEF OrderInv, Ordered, BroadcastScenesMoveOn, TypeInv, TypeOK, Scene, Step, Join, Enter,
         Depart, Count, Tell, Reply, Apply, client
<1>2. c \in DOMAIN call
  BY DEF Step, Join, Enter, Depart, Count, Tell, Reply, Apply, At
<1>3. CASE Join(c) \/ Enter(c) \/ Depart(c) \/ Count(c)
  BY <1>1, <1>3, OrderIdle DEF Join, Enter, Depart, Count, server
<1>4. CASE Tell(c)
  <2> DEFINE p == [kind |-> "count", counted |-> call[c].counted]
  <2>1. p \in Packet /\ p.kind = "count"
    BY <1>2, CallFields DEF Packet
  <2>2. scene' = scene /\ wire'[m] \in {wire[m], Append(wire[m], p)}
    BY <1>4 DEF Tell, Broadcast
  <2>3. CASE wire'[m] = wire[m]
    BY <1>1, <2>2, <2>3, OrderIdle
  <2>4. CASE wire'[m] = Append(wire[m], p)
    BY <1>1, <2>1, <2>2, <2>4, AppendOrder DEF Ordered
  <2> QED BY <2>2, <2>3, <2>4
<1>5. CASE Reply(c)
  <2> DEFINE p == [kind |-> "ack", try |-> call[c].try, scene |-> call[c].scene,
                   counted |-> call[c].counted]
  <2>1. p \in Packet /\ p.kind = "ack" /\ p.scene.ver <= scene.ver
    BY <1>2, CallFields DEF Packet, OrderInv
  <2>2. scene' = scene /\ wire'[m] \in {wire[m], Append(wire[m], p)}
    BY <1>5 DEF Reply, server, TypeInv, TypeOK
  <2>3. CASE wire'[m] = wire[m]
    BY <1>1, <2>2, <2>3, OrderIdle
  <2>4. CASE wire'[m] = Append(wire[m], p)
    BY <1>1, <2>1, <2>2, <2>4, AppendOrder DEF Ordered
  <2> QED BY <2>2, <2>3, <2>4
<1>6. CASE Apply(c)
  <2> DEFINE p == [kind |-> "scene", scene |-> scene']
  <2>1. CASE UNCHANGED <<scene, wire>>
    BY <1>1, <2>1, OrderIdle
  <2>2. CASE scene' = Patched(call[c]) /\ wire' = Broadcast(p)
    <3>1. /\ scene' \in Scene /\ scene'.ver = scene.ver + 1
      BY <1>1, <1>2, <2>2, PatchedType DEF Patched, TypeInv, CallsOK
    <3>2. p \in Packet /\ p.kind = "scene" /\ p.scene.ver = scene.ver + 1
      BY <3>1 DEF Packet
    <3>3. wire'[m] \in {wire[m], Append(wire[m], p)}
      BY <2>2 DEF Broadcast
    <3>4. CASE wire'[m] = wire[m]
      BY <1>1, <3>1, <3>4, OrderIdle
    <3>5. CASE wire'[m] = Append(wire[m], p)
      <4>1. /\ scene.ver + 1 \in Nat /\ scene.ver <= scene.ver + 1
            /\ scene.ver < p.scene.ver /\ p.scene.ver <= scene.ver + 1
            /\ screen[m].ver <= scene.ver
            /\ InOrder(screen[m].ver, wire[m]) /\ Bounded(wire[m], scene.ver)
        BY <1>1, <3>2 DEF Ordered
      <4>2. InOrder(screen[m].ver, Append(wire[m], p)) /\ Bounded(Append(wire[m], p), scene.ver + 1)
        BY <1>1, <3>2, <4>1, AppendOrder
      <4> QED BY <1>1, <3>1, <3>5, <4>1, <4>2 DEF Ordered
    <3> QED BY <3>3, <3>4, <3>5
  <2> QED BY <1>6, <2>1, <2>2 DEF Apply
<1> QED BY <1>3, <1>4, <1>5, <1>6 DEF Step

\* So does a page that receives a packet.
LEMMA OrderReceive ==
  ASSUME TypeInv, OrderInv, NEW n \in Members, Receive(n), NEW m \in Members
  PROVE  Ordered(m)'
<1> DEFINE p == Head(wire[n])
<1>1. /\ Ordered(m) /\ scene' = scene /\ scene.ver \in Nat /\ wire[m] \in Seq(Packet)
  BY DEF OrderInv, Ordered, BroadcastScenesMoveOn, TypeInv, TypeOK, Scene, Receive, server
<1>2. CASE m # n
  <2>1. wire'[m] = wire[m] /\ screen'[m] = screen[m]
    BY <1>2 DEF Receive, Show, TypeInv, TypeOK
  <2> QED BY <1>1, <2>1, OrderIdle
<1>3. CASE m = n
  <2>1. wire'[m] = Tail(wire[m]) /\ wire[m] # <<>>
    BY <1>3 DEF Receive, TypeInv, TypeOK
  <2>2. \/ screen'[m] = screen[m]
        \/ p.kind # "count" /\ screen'[m] = p.scene
    BY <1>3 DEF Receive, Show, TypeInv, TypeOK
  <2> QED BY <1>1, <1>3, <2>1, <2>2, TailOrder DEF Ordered
<1> QED BY <1>2, <1>3

\* Every step keeps the scenes in order.
LEMMA OrderNext == TypeInv /\ OrderInv /\ [Next]_vars => OrderInv'
<1> SUFFICES ASSUME TypeInv, OrderInv, [Next]_vars PROVE OrderInv'
  OBVIOUS
<1>1. CASE UNCHANGED vars
  BY <1>1 DEF vars, OrderInv, BroadcastScenesMoveOn, InOrder, Bounded
<1>2. CASE Next
  <2>1. /\ scene.ver \in Nat /\ scene'.ver \in Nat /\ scene.ver <= scene'.ver
    BY <1>2, NextVersion
  <2>2. ASSUME NEW m \in Members PROVE Ordered(m)'
    <3>1. Ordered(m)
      BY DEF OrderInv, Ordered, BroadcastScenesMoveOn
    <3>2. ASSUME NEW c \in Calls, NEW n \in Members,
                 \/ AskJoin(c, n) \/ Close(c, n)
                 \/ \E patch \in Patches : Edit(c, n, patch)
          PROVE  Ordered(m)'
      <4>1. wire'[m] = wire[m] \/ wire'[m] = <<>>
        BY <3>2 DEF AskJoin, Close, Edit, TypeInv, TypeOK
      <4>2. screen'[m].ver = screen[m].ver
        <5>1. CASE AskJoin(c, n) \/ Close(c, n)
          BY <5>1 DEF AskJoin, Close
        <5>2. ASSUME NEW patch \in Patches, Edit(c, n, patch)
              PROVE  screen'[m].ver = screen[m].ver
          <6>1. screen' = [screen EXCEPT ![n] =
                             [ver |-> @.ver, of |-> Overlaid(@.of, patch, edits')]]
            BY <5>2 DEF Edit
          <6> QED BY <6>1 DEF TypeInv, TypeOK
        <5> QED BY <3>2, <5>1, <5>2
      <4> QED BY <2>1, <3>1, <4>1, <4>2, OrderIdle
    <3>3. CASE EndRoom \/ \E n \in Members : TimeOut(n)
      BY <2>1, <3>1, <3>3, OrderIdle DEF EndRoom, TimeOut, client
    <3> QED BY <1>2, <3>2, <3>3, OrderStep, OrderReceive DEF Next
  <2>3. ASSUME NEW d \in DOMAIN call' PROVE call'[d].scene.ver <= scene'.ver
    <3>1. d \in DOMAIN call => call[d].scene.ver \in Nat /\ call[d].scene.ver <= scene.ver
      BY CallFields DEF OrderInv, Scene
    <3> QED BY <1>2, <2>1, <2>3, <3>1, NextScenes DEF Default
  <2> QED BY <2>2, <2>3 DEF OrderInv, Ordered, BroadcastScenesMoveOn
<1> QED BY <1>1, <1>2

\* BroadcastScenesMoveOn holds in every behaviour: no broadcast sets a page back.
THEOREM ScenesMoveOn == Spec => []BroadcastScenesMoveOn
<1>1. OrderInv => BroadcastScenesMoveOn
  BY DEF OrderInv
<1> QED BY <1>1, TypeInit, TypeNext, OrderInit, OrderNext, PTL DEF Spec
-----------------------------------------------------------------------------
(* The feed implements the board.                                          *)

Seen    == [m \in Members |-> screen[m].ver]
Entered == {m \in Members : page[m] \in {"in", "closed"}}

\* The packet that a page takes: its scene is one the server has had, and one that is
\* broadcast is newer than what the page shows.
LEMMA HeadInOrder ==
  ASSUME TypeInv, OrderInv, NEW m \in Members, wire[m] # <<>>, Head(wire[m]).kind # "count"
  PROVE  /\ Head(wire[m]).scene.ver \in 0 .. scene.ver
         /\ Head(wire[m]).kind = "scene" =>
              Head(wire[m]).scene.ver \in screen[m].ver .. scene.ver
<1>1. wire[m] \in Seq(Packet) /\ scene.ver \in Nat /\ screen[m].ver \in Nat
  BY DEF TypeInv, TypeOK, Scene
<1>2. 1 \in 1 .. Len(wire[m]) /\ Head(wire[m]) = wire[m][1] /\ wire[m][1] \in Packet
  BY <1>1
<1>3. wire[m][1].scene.ver \in Nat
  BY <1>2, PacketFields DEF Scene
<1>4. Bounded(wire[m], scene.ver) /\ InOrder(screen[m].ver, wire[m])
  BY DEF OrderInv, BroadcastScenesMoveOn
<1>5. wire[m][1].scene.ver <= scene.ver
  BY <1>2, <1>4 DEF Bounded
<1>6. wire[m][1].kind = "scene" => screen[m].ver < wire[m][1].scene.ver
  BY <1>2, <1>4 DEF InOrder
<1> QED BY <1>1, <1>2, <1>3, <1>5, <1>6

\* A request of a client is no step of the board, or its entering as it closes.
LEMMA BoardRequest ==
  ASSUME TypeInv, OrderInv, NEW c \in Calls, NEW m \in Members,
         \/ AskJoin(c, m) \/ Close(c, m)
         \/ \E patch \in Patches : Edit(c, m, patch)
  PROVE  [Board!Next]_(Board!vars)
<1>1. CASE AskJoin(c, m)
  <2>1. scene' = scene /\ Seen' = Seen
    BY <1>1 DEF AskJoin, server, Seen
  <2>2. Entered' = Entered
    BY <1>1 DEF AskJoin, Entered, TypeInv, TypeOK
  <2> QED BY <2>1, <2>2 DEF Board!vars, Seen, Entered
<1>2. ASSUME NEW patch \in Patches, Edit(c, m, patch)
      PROVE  [Board!Next]_(Board!vars)
  <2>1. screen' = [screen EXCEPT ![m] = [ver |-> @.ver, of |-> Overlaid(@.of, patch, edits')]]
    BY <1>2 DEF Edit
  <2>2. \A n \in Members : screen'[n].ver = screen[n].ver
    BY <2>1 DEF TypeInv, TypeOK
  <2>3. scene' = scene /\ page' = page
    BY <1>2 DEF Edit, server
  <2> QED BY <2>2, <2>3 DEF Board!vars
<1>3. CASE Close(c, m)
  <2>1. scene' = scene /\ screen' = screen /\ page' = [page EXCEPT ![m] = "closed"]
    BY <1>3 DEF Close
  <2>2. Entered' = Entered \union {m}
    BY <2>1 DEF Entered, TypeInv, TypeOK
  <2>3. CASE m \in Entered
    BY <2>1, <2>2, <2>3 DEF Board!vars, Entered
  <2>4. CASE m \notin Entered
    <3>1. screen[m].ver \in 0 .. scene.ver
      BY DEF OrderInv, TypeInv, TypeOK, Scene
    <3>2. Seen' = [Seen EXCEPT ![m] = screen[m].ver]
      BY <2>1 DEF Seen
    <3>3. Board!Enter(m)
      BY <2>1, <2>2, <2>4, <3>1, <3>2 DEF Board!Enter, Seen, Entered
    <3> QED BY <3>3 DEF Board!Next
  <2> QED BY <2>3, <2>4
<1> QED BY <1>1, <1>2, <1>3

\* A step of a handler is no step of the board, or a post.
LEMMA BoardStep ==
  ASSUME TypeInv, NEW c \in CallIds, Step(c)
  PROVE  [Board!Next]_(Board!vars)
<1>1. screen' = screen /\ page' = page
  BY DEF Step, Join, Enter, Depart, Count, Tell, Reply, Apply, client
<1>2. scene' = scene \/ scene'.ver = scene.ver + 1
  <2>1. CASE Apply(c)
    BY <2>1 DEF Apply, Patched
  <2>2. CASE ~Apply(c)
    BY <2>2 DEF Step, Join, Enter, Depart, Count, Tell, Reply, server
  <2> QED BY <2>1, <2>2
<1> QED BY <1>1, <1>2 DEF Board!vars, Board!Next, Board!Post

\* A page that takes a packet enters, sees a newer scene, or stays as it is.
LEMMA BoardReceive ==
  ASSUME TypeInv, OrderInv, NEW m \in Members, Receive(m)
  PROVE  [Board!Next]_(Board!vars)
<1> DEFINE p == Head(wire[m])
<1>1. /\ scene' = scene /\ wire[m] \in Seq(Packet) /\ wire[m] # <<>>
      /\ p.kind \in {"scene", "count", "ack"}
  <2>1. wire[m] \in Seq(Packet) /\ wire[m] # <<>> /\ scene' = scene
    BY DEF Receive, server, TypeInv, TypeOK
  <2>2. p \in Packet
    BY <2>1
  <2> QED BY <2>1, <2>2, PacketFields
<1>2. CASE page' = page /\ screen' = screen
  BY <1>1, <1>2 DEF Board!vars
<1>3. CASE p.kind = "scene"
  <2>1. screen' = [screen EXCEPT ![m] = p.scene] /\ page' = page
    BY <1>3 DEF Receive, Show
  <2>2. Seen' = [Seen EXCEPT ![m] = p.scene.ver]
    BY <2>1 DEF Seen, TypeInv, TypeOK
  <2>3. p.scene.ver \in Seen[m] .. scene.ver
    BY <1>1, <1>3, HeadInOrder DEF Seen
  <2>4. Board!See(m)
    BY <1>1, <2>1, <2>2, <2>3 DEF Board!See, Seen
  <2> QED BY <2>4 DEF Board!Next
<1>4. CASE p.kind = "ack" /\ page[m] = "joining" /\ p.try = tries[m]
  <2>1. screen' = [screen EXCEPT ![m] = p.scene] /\ page' = [page EXCEPT ![m] = "in"]
    BY <1>4 DEF Receive, Show
  <2>2. Seen' = [Seen EXCEPT ![m] = p.scene.ver]
    BY <2>1 DEF Seen, TypeInv, TypeOK
  <2>3. m \notin Entered /\ Entered' = Entered \union {m}
    BY <1>4, <2>1 DEF Entered, TypeInv, TypeOK
  <2>4. p.scene.ver \in 0 .. scene.ver
    BY <1>1, <1>4, HeadInOrder
  <2>5. Board!Enter(m)
    BY <1>1, <2>2, <2>3, <2>4 DEF Board!Enter, Seen, Entered
  <2> QED BY <2>5 DEF Board!Next
<1>5. CASE \/ p.kind = "count"
           \/ p.kind = "ack" /\ ~(page[m] = "joining" /\ p.try = tries[m])
  BY <1>2, <1>5 DEF Receive
<1> QED BY <1>1, <1>3, <1>4, <1>5

\* FollowsTheBoard: the feed implements SceneBoard.  No page is shown a scene that the
\* server has not had, and from the acknowledgement of its join on, none is set back.
THEOREM FeedImplementsBoard == Spec => FollowsTheBoard
<1>1. Init => Board!Init
  BY DEF Init, Board!Init, Default
<1>2. TypeInv /\ OrderInv /\ [Next]_vars => [Board!Next]_(Board!vars)
  <2> SUFFICES ASSUME TypeInv, OrderInv, [Next]_vars
               PROVE  [Board!Next]_(Board!vars)
    OBVIOUS
  <2>1. CASE UNCHANGED vars
    BY <2>1 DEF vars, Board!vars
  <2>2. CASE EndRoom
    BY <2>2 DEF EndRoom, client, Board!vars
  <2>3. ASSUME NEW m \in Members, TimeOut(m)
        PROVE  [Board!Next]_(Board!vars)
    <3>1. Entered' = Entered
      BY <2>3 DEF TimeOut, Entered, TypeInv, TypeOK
    <3> QED BY <2>3, <3>1 DEF TimeOut, server, Board!vars, Entered
  <2> QED BY <2>1, <2>2, <2>3, BoardRequest, BoardStep, BoardReceive DEF Next
<1> QED BY <1>1, <1>2, TypeInit, TypeNext, OrderInit, OrderNext, PTL
       DEF Spec, FollowsTheBoard, Board!Spec
=============================================================================
