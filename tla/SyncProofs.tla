----------------------------- MODULE SyncProofs -----------------------------
(* Every page in the room of RoomFeed shows the server's scene once it has *)
(* received what was sent to it: a proof for every value of the constants. *)
EXTENDS RoomFeedProofs

\* Scenes of the same version are the same scene.
OneScene ==
  /\ scene.ver = 0 => scene = Default
  /\ \A c \in DOMAIN call : call[c].scene.ver = scene.ver => call[c].scene = scene
  /\ \A m \in Members : \A i \in 1 .. Len(wire[m]) :
       wire[m][i].kind # "count" /\ wire[m][i].scene.ver = scene.ver =>
         wire[m][i].scene = scene

\* The slot of a member is for its disconnect.
Slots == \A c \in DOMAIN call \intersect Members : call[c].op = "drop"

\* No join of m has entered the room yet.
Early(m) == \A c \in DOMAIN call : call[c].m = m =>
              page[m] # "new" /\ call[c].op = "join" /\ call[c].pc \in {"save", "enter"}

\* The joins of m that have read the scene have read the present one.
ReadNow(m) == \A c \in DOMAIN call :
                call[c].m = m /\ call[c].pc \in {"recount", "reply"} => call[c].scene = scene

\* A page that is not in the room yet has been sent nothing.
Outside(m) == page[m] # "in" /\ wire[m] = <<>> /\ Early(m)

\* The four places where the server's scene is, for a page in the room: broadcast and
\* on its way, shown, in the acknowledgement that the page waits for, or, when an older
\* packet has set the page back, lost.
Coming(m)  == \E i \in 1 .. Len(wire[m]) :
                wire[m][i].kind = "scene" /\ wire[m][i].scene = scene
Shown(m)   == screen[m].ver = scene.ver /\ (screen[m].of = scene.of \/ Unconfirmed(m))
Awaited(m) == /\ page[m] # "in" /\ ReadNow(m)
              /\ \A i \in 1 .. Len(wire[m]) :
                   wire[m][i].kind # "count" => wire[m][i].scene = scene
Known(m)   == Coming(m) \/ Shown(m) \/ Awaited(m) \/ <<m, "scene">> \in behind

Tracked(m) == /\ m \notin inRoom /\ page[m] # "closed" => Outside(m)
              /\ m \in inRoom => Known(m)

SyncInv == OneScene /\ Slots /\ \A m \in Members : Tracked(m)

-----------------------------------------------------------------------------
(* Queues.                                                                 *)

\* The packets of a queue after one more has been sent.
LEMMA AppendFacts ==
  ASSUME NEW w \in Seq(Packet), NEW p \in Packet
  PROVE  /\ \A i \in 1 .. Len(w) : i \in 1 .. Len(Append(w, p)) /\ Append(w, p)[i] = w[i]
         /\ Len(w) + 1 \in 1 .. Len(Append(w, p)) /\ Append(w, p)[Len(w) + 1] = p
         /\ \A i \in 1 .. Len(Append(w, p)) : i \in 1 .. Len(w) \/ i = Len(w) + 1
OBVIOUS

\* The packets of a queue after the first has been received.
LEMMA TailFacts ==
  ASSUME NEW w \in Seq(Packet), w # <<>>
  PROVE  /\ Head(w) = w[1] /\ 1 \in 1 .. Len(w) /\ Head(w) \in Packet
         /\ \A i \in 1 .. Len(Tail(w)) : i + 1 \in 1 .. Len(w) /\ Tail(w)[i] = w[i + 1]
         /\ \A i \in 1 .. Len(w) : i = 1 \/ (i - 1 \in 1 .. Len(Tail(w)) /\ Tail(w)[i - 1] = w[i])
OBVIOUS

-----------------------------------------------------------------------------
(* What a step of a handler does to the handlers.                          *)

\* It moves or ends one handler; an update has one step only.
LEMMA StepShape ==
  ASSUME TypeInv, NEW c \in CallIds, Step(c)
  PROVE  /\ c \in DOMAIN call /\ (call[c].op = "update" => Apply(c))
         /\ \A d \in DOMAIN call' : /\ d \in DOMAIN call
                                    /\ call'[d].m = call[d].m /\ call'[d].op = call[d].op
                                    /\ d # c => call'[d] = call[d]
         /\ \A d \in DOMAIN call : d # c => d \in DOMAIN call' /\ call'[d] = call[d]
<1>1. /\ c \in DOMAIN call /\ call \in [DOMAIN call -> Call] /\ ShapeOf(call[c])
  BY DEF Step, Join, Enter, Depart, Count, Tell, Reply, Apply, At, TypeInv, CallsOK
<1>2. call[c].op = "update" => Apply(c)
  BY <1>1 DEF ShapeOf, Step, Join, Enter, Depart, Count, Tell, Reply, At
<1>3. \/ End(c) \/ \E stage : Goto(c, stage)
      \/ call' = [call EXCEPT ![c].scene = scene, ![c].pc = "recount"]
      \/ call' = [call EXCEPT ![c].counted = Counting,
                              ![c].pc = IF @ = "count" THEN "tell" ELSE "reply"]
  BY DEF Step, Join, Enter, Depart, Count, Tell, Reply, Apply
<1> DEFINE Shape == /\ \A d \in DOMAIN call' :
                         /\ d \in DOMAIN call
                         /\ call'[d].m = call[d].m /\ call'[d].op = call[d].op
                         /\ d # c => call'[d] = call[d]
                    /\ \A d \in DOMAIN call : d # c => d \in DOMAIN call' /\ call'[d] = call[d]
<1>4. CASE End(c)
  BY <1>1, <1>2, <1>4 DEF End
<1>5. ASSUME NEW stage, Goto(c, stage) PROVE Shape
  BY <1>1, <1>5 DEF Goto, Call
<1>6. call' = [call EXCEPT ![c].scene = scene, ![c].pc = "recount"] => Shape
  BY <1>1 DEF Call
<1>7. call' = [call EXCEPT ![c].counted = Counting,
                           ![c].pc = IF @ = "count" THEN "tell" ELSE "reply"] => Shape
  BY <1>1 DEF Call
<1> QED BY <1>1, <1>2, <1>3, <1>4, <1>5, <1>6, <1>7

\* What a request does to the handlers: it begins handlers of its client.
LEMMA RequestShape ==
  ASSUME TypeInv, Slots, NEW c \in Calls, NEW m \in Members,
         \/ AskJoin(c, m) \/ Close(c, m)
         \/ \E patch \in Patches : Edit(c, m, patch)
  PROVE  /\ \A d \in DOMAIN call' :
              \/ d \in DOMAIN call /\ call'[d] = call[d]
              \/ /\ call'[d].m = m /\ (d \in Members => call'[d].op = "drop")
                 /\ call'[d].scene = Default
         /\ \A d \in DOMAIN call :
              d \in DOMAIN call' /\ (call'[d] = call[d] \/ call[d].op = "drop")
<1>1. c \notin DOMAIN call /\ c \notin Members
  BY FeedAssumption DEF AskJoin, Close, Edit, Free
<1>2. CASE AskJoin(c, m)
  BY <1>1, <1>2 DEF AskJoin, Begin, Begun, Blank
<1>3. CASE Close(c, m)
  BY <1>1, <1>3 DEF Close, Begun, Blank, Slots
<1>4. ASSUME NEW patch \in Patches, Edit(c, m, patch)
      PROVE  /\ \A d \in DOMAIN call' :
                  \/ d \in DOMAIN call /\ call'[d] = call[d]
                  \/ /\ call'[d].m = m /\ (d \in Members => call'[d].op = "drop")
                     /\ call'[d].scene = Default
             /\ \A d \in DOMAIN call : d \in DOMAIN call' /\ call'[d] = call[d]
  <2>1. Begin(c, [Blank("update", m, "apply") EXCEPT !.edit = edits', !.patch = patch])
    BY <1>4 DEF Edit
  <2> QED BY <1>1, <2>1 DEF Begin, Begun, Blank
<1> QED BY <1>2, <1>3, <1>4

\* A slot of a member is only ever taken by its disconnect.
LEMMA SlotsNext == TypeInv /\ Slots /\ Next => Slots'
<1> SUFFICES ASSUME TypeInv, Slots, Next PROVE Slots'
  OBVIOUS
<1>1. ASSUME NEW c \in Calls, NEW m \in Members,
             \/ AskJoin(c, m) \/ Close(c, m)
             \/ \E patch \in Patches : Edit(c, m, patch)
      PROVE  Slots'
  BY <1>1, RequestShape DEF Slots
<1>2. ASSUME NEW c \in CallIds, Step(c) PROVE Slots'
  BY <1>2, StepShape DEF Slots
<1>3. EndRoom \/ (\E m \in Members : TimeOut(m) \/ Receive(m)) => call' = call
  BY DEF EndRoom, TimeOut, Receive
<1> QED BY <1>1, <1>2, <1>3 DEF Next, Slots

-----------------------------------------------------------------------------
(* One scene for each version.                                             *)

\* A scene on its way was on its way before, is the server's, or was in a handler.
LEMMA NextPackets ==
  ASSUME TypeInv, Next, NEW m \in Members, NEW i \in 1 .. Len(wire'[m]),
         wire'[m][i].kind # "count"
  PROVE  \/ \E j \in 1 .. Len(wire[m]) : wire'[m][i] = wire[m][j]
         \/ wire'[m][i].scene = scene'
         \/ \E c \in DOMAIN call : wire'[m][i].scene = call[c].scene
<1>1. wire[m] \in Seq(Packet)
  BY DEF TypeInv, TypeOK
<1>2. CASE wire'[m] = wire[m]
  BY <1>2
<1>3. ASSUME NEW p \in Packet, wire'[m] = Append(wire[m], p),
             p.kind # "count" =>
               p.scene = scene' \/ \E c \in DOMAIN call : p.scene = call[c].scene
      PROVE  \/ \E j \in 1 .. Len(wire[m]) : wire'[m][i] = wire[m][j]
             \/ wire'[m][i].scene = scene'
             \/ \E c \in DOMAIN call : wire'[m][i].scene = call[c].scene
  <2>1. i \in 1 .. Len(wire[m]) \/ i = Len(wire[m]) + 1
    BY <1>1, <1>3, AppendFacts
  <2>2. CASE i \in 1 .. Len(wire[m])
    BY <1>1, <1>3, <2>2, AppendFacts
  <2>3. CASE i = Len(wire[m]) + 1
    <3>1. wire'[m][i] = p
      BY <1>1, <1>3, <2>3, AppendFacts
    <3> QED BY <1>3, <3>1
  <2> QED BY <2>1, <2>2, <2>3
<1>4. ASSUME NEW c \in Calls, NEW n \in Members,
             \/ AskJoin(c, n) \/ Close(c, n)
             \/ \E patch \in Patches : Edit(c, n, patch)
      PROVE  wire'[m] = wire[m] \/ wire'[m] = <<>>
  BY <1>4 DEF AskJoin, Close, Edit, TypeInv, TypeOK
<1>5. ASSUME NEW c \in CallIds, Step(c)
      PROVE  \/ wire'[m] = wire[m]
             \/ \E p \in Packet :
                  /\ wire'[m] = Append(wire[m], p)
                  /\ p.kind # "count" =>
                       p.scene = scene' \/ \E d \in DOMAIN call : p.scene = call[d].scene
  <2>1. c \in DOMAIN call
    BY <1>5, StepShape
  <2>2. CASE Join(c) \/ Enter(c) \/ Depart(c) \/ Count(c)
    BY <2>2 DEF Join, Enter, Depart, Count
  <2>3. CASE Tell(c)
    <3> DEFINE p == [kind |-> "count", counted |-> call[c].counted]
    <3>1. p \in Packet /\ p.kind = "count"
      BY <2>1, CallFields DEF Packet
    <3>2. wire'[m] \in {wire[m], Append(wire[m], p)}
      BY <2>3 DEF Tell, Broadcast
    <3> QED BY <3>1, <3>2
  <2>4. CASE Reply(c)
    <3> DEFINE p == [kind |-> "ack", try |-> call[c].try, scene |-> call[c].scene,
                     counted |-> call[c].counted]
    <3>1. p \in Packet /\ p.scene = call[c].scene
      BY <2>1, CallFields DEF Packet
    <3>2. wire'[m] \in {wire[m], Append(wire[m], p)}
      BY <2>4 DEF Reply, TypeInv, TypeOK
    <3> QED BY <2>1, <3>1, <3>2
  <2>5. CASE Apply(c)
    <3> DEFINE p == [kind |-> "scene", scene |-> scene']
    <3>1. scene' \in Scene
      <4>1. scene \in Scene /\ call[c] \in Call
        BY <2>1 DEF TypeInv, TypeOK, CallsOK
      <4> QED BY <2>5, <4>1, PatchedType DEF Apply
    <3>2. p \in Packet /\ p.scene = scene'
      BY <3>1 DEF Packet
    <3>3. wire'[m] \in {wire[m], Append(wire[m], p)}
      BY <2>5 DEF Apply, Broadcast
    <3> QED BY <3>2, <3>3
  <2> QED BY <1>5, <2>2, <2>3, <2>4, <2>5 DEF Step
<1>6. ASSUME NEW n \in Members, TimeOut(n) \/ Receive(n)
      PROVE  wire'[m] = wire[m] \/ (wire[m] # <<>> /\ wire'[m] = Tail(wire[m]))
  BY <1>6 DEF TimeOut, Receive, TypeInv, TypeOK
<1>7. CASE wire'[m] = <<>>
  BY <1>7
<1>8. CASE wire[m] # <<>> /\ wire'[m] = Tail(wire[m])
  BY <1>1, <1>8, TailFacts
<1>9. EndRoom => wire' = wire
  BY DEF EndRoom
<1> QED BY <1>2, <1>3, <1>4, <1>5, <1>6, <1>7, <1>8, <1>9 DEF Next

\* Every step keeps one scene for each version.
LEMMA OneSceneNext == TypeInv /\ OrderInv /\ OneScene /\ Next => OneScene'
<1> SUFFICES ASSUME TypeInv, OrderInv, OneScene, Next PROVE OneScene'
  OBVIOUS
<1>1. /\ scene.ver \in Nat
      /\ scene' = scene \/ scene'.ver = scene.ver + 1
  BY NextVersion
<1>2. ASSUME NEW s \in Scene, s.ver <= scene.ver, s.ver = scene.ver => s = scene,
             s.ver = scene'.ver
      PROVE  s = scene'
  BY <1>1, <1>2 DEF Scene
<1>3. Default \in Scene /\ scene \in Scene /\ Default.ver = 0
  BY DefaultType DEF TypeInv, TypeOK, Default
<1>4. scene'.ver = 0 => scene' = Default
  BY <1>1 DEF OneScene
<1>5. ASSUME NEW c \in DOMAIN call' PROVE call'[c].scene.ver = scene'.ver => call'[c].scene = scene'
  <2>1. c \in DOMAIN call =>
          /\ call[c].scene \in Scene /\ call[c].scene.ver <= scene.ver
          /\ call[c].scene.ver = scene.ver => call[c].scene = scene
    BY <1>5, CallFields DEF OrderInv, OneScene
  <2>2. CASE call'[c].scene = Default
    BY <1>3, <1>4, <2>2
  <2>3. CASE call'[c].scene = scene
    BY <1>1, <1>2, <1>3, <2>3
  <2>4. CASE c \in DOMAIN call /\ call'[c].scene = call[c].scene
    BY <1>2, <2>1, <2>4
  <2> QED BY <1>5, <2>2, <2>3, <2>4, NextScenes
<1>6. ASSUME NEW m \in Members, NEW i \in 1 .. Len(wire'[m]), wire'[m][i].kind # "count",
             wire'[m][i].scene.ver = scene'.ver
      PROVE  wire'[m][i].scene = scene'
  <2>1. CASE wire'[m][i].scene = scene'
    BY <2>1
  <2>2. ASSUME NEW j \in 1 .. Len(wire[m]), wire'[m][i] = wire[m][j]
        PROVE  wire'[m][i].scene = scene'
    <3>1. wire[m][j] \in Packet
      BY DEF TypeInv, TypeOK
    <3>2. wire[m][j].scene \in Scene
      BY <1>6, <2>2, <3>1, PacketFields
    <3>3. wire[m][j].scene.ver <= scene.ver
      BY <1>6, <2>2 DEF OrderInv, Bounded
    <3>4. wire[m][j].scene.ver = scene.ver => wire[m][j].scene = scene
      BY <1>6, <2>2 DEF OneScene
    <3> QED BY <1>2, <1>6, <2>2, <3>2, <3>3, <3>4
  <2>3. ASSUME NEW c \in DOMAIN call, wire'[m][i].scene = call[c].scene
        PROVE  wire'[m][i].scene = scene'
    BY <1>2, <1>6, <2>3, CallFields DEF OrderInv, OneScene
  <2> QED BY <1>6, <2>1, <2>2, <2>3, NextPackets
<1> QED BY <1>4, <1>5, <1>6 DEF OneScene

-----------------------------------------------------------------------------
(* Where the server's scene is.                                            *)

\* What a step must keep of the handlers of m for the parts of Tracked to survive.
HandlersKept(m) == /\ Early(m) => Early(m)'
                   /\ ReadNow(m) => ReadNow(m)'
                   /\ Unconfirmed(m) => Unconfirmed(m)'

\* A step that leaves the page, its wire and the scene alone.
LEMMA TrackedIdle ==
  ASSUME NEW m \in Members, Tracked(m), HandlersKept(m),
         m \in inRoom' <=> m \in inRoom, scene' = scene, wire'[m] = wire[m],
         page'[m] = page[m], screen'[m] = screen[m], behind \subseteq behind'
  PROVE  Tracked(m)'
BY DEF Tracked, HandlersKept, Outside, Known, Coming, Shown, Awaited

\* A step that leaves the handlers of m alone.
LEMMA OthersKept ==
  ASSUME NEW m \in Members, scene' = scene, page'[m] = page[m], ended => ended',
         \A d \in DOMAIN call' : call'[d].m = m => d \in DOMAIN call /\ call'[d] = call[d],
         \A d \in DOMAIN call : call[d].m = m /\ call[d].op = "update" =>
           d \in DOMAIN call' /\ call'[d] = call[d]
  PROVE  HandlersKept(m)
BY DEF HandlersKept, Early, ReadNow, Unconfirmed

\* A step that sends a page in the room a count, or the acknowledgement with the
\* scene that one of its joins has read.
LEMMA TrackedSent ==
  ASSUME TypeInv, NEW m \in Members, m \in inRoom, m \in inRoom', Tracked(m),
         HandlersKept(m), NEW p \in Packet, p.kind # "scene",
         p.kind # "count" /\ ReadNow(m) => p.scene = scene,
         wire'[m] = Append(wire[m], p), scene' = scene,
         page' = page, screen' = screen, behind' = behind
  PROVE  Tracked(m)'
<1>1. wire[m] \in Seq(Packet)
  BY DEF TypeInv, TypeOK
<1>2. CASE Coming(m)
  <2>1. PICK i \in 1 .. Len(wire[m]) : wire[m][i].kind = "scene" /\ wire[m][i].scene = scene
    BY <1>2 DEF Coming
  <2>2. i \in 1 .. Len(wire'[m]) /\ wire'[m][i] = wire[m][i]
    BY <1>1, AppendFacts
  <2> QED BY <2>1, <2>2 DEF Tracked, Known, Coming
<1>3. CASE Shown(m) \/ <<m, "scene">> \in behind
  BY <1>3 DEF Tracked, Known, Shown, HandlersKept
<1>4. CASE Awaited(m)
  <2>1. ASSUME NEW i \in 1 .. Len(wire'[m]), wire'[m][i].kind # "count"
        PROVE  wire'[m][i].scene = scene
    <3>1. \/ i \in 1 .. Len(wire[m]) /\ wire'[m][i] = wire[m][i]
          \/ wire'[m][i] = p
      BY <1>1, AppendFacts
    <3> QED BY <1>4, <2>1, <3>1 DEF Awaited
  <2> QED BY <1>4, <2>1 DEF Tracked, Known, Awaited, HandlersKept
<1> QED BY <1>2, <1>3, <1>4 DEF Tracked, Known

\* A step of a handler that is no update keeps the edits that are unconfirmed.
LEMMA UnconfirmedKept ==
  ASSUME TypeInv, NEW c \in CallIds, Step(c), ~Apply(c), NEW m \in Members, Unconfirmed(m)
  PROVE  Unconfirmed(m)'
<1>1. ended' = ended
  BY DEF Step, Join, Enter, Depart, Count, Tell, Reply, server
<1>2. \A d \in DOMAIN call : call[d].op = "update" => d \in DOMAIN call' /\ call'[d] = call[d]
  BY StepShape
<1> QED BY <1>1, <1>2 DEF Unconfirmed

\* A step that moves or ends a handler of m where it carries no scene, or to the scene
\* it carries.
LEMMA MovedKept ==
  ASSUME TypeInv, NEW c \in CallIds, Step(c), ~Apply(c), NEW m \in Members,
         scene' = scene, page' = page,
         call[c].m = m /\ Early(m) /\ c \in DOMAIN call' => call'[c].pc \in {"save", "enter"},
         call[c].m = m /\ ReadNow(m) /\ c \in DOMAIN call' /\ call'[c].pc \in {"recount", "reply"}
           => call'[c].scene = scene
  PROVE  HandlersKept(m)
<1>1. Unconfirmed(m) => Unconfirmed(m)'
  BY UnconfirmedKept
<1>2. Early(m) => Early(m)'
  BY StepShape DEF Early
<1>3. ReadNow(m) => ReadNow(m)'
  BY StepShape DEF ReadNow
<1> QED BY <1>1, <1>2, <1>3 DEF HandlersKept

\* A step of a handler keeps track of the scene.
LEMMA TrackedStep ==
  ASSUME TypeInv, NEW c \in CallIds, Step(c), NEW m \in Members, Tracked(m)
  PROVE  Tracked(m)'
<1>1. /\ c \in DOMAIN call /\ call \in [DOMAIN call -> Call]
      /\ page' = page /\ screen' = screen /\ behind' = behind
      /\ wire \in [Members -> Seq(Packet)]
  BY StepShape DEF Step, Join, Enter, Depart, Count, Tell, Reply, Apply, client, TypeInv, TypeOK,
     CallsOK
<1>2. CASE Join(c)
  <2>1. c \in DOMAIN call' => call'[c].pc = "enter"
    BY <1>1, <1>2 DEF Join, End, Goto, Call
  <2>2. /\ scene' = scene /\ wire' = wire /\ inRoom' = inRoom /\ ~Apply(c)
    BY <1>2 DEF Join, Apply, At
  <2>3. HandlersKept(m)
    BY <1>1, <2>1, <2>2, MovedKept
  <2> QED BY <1>1, <2>2, <2>3, TrackedIdle
<1>3. CASE Depart(c)
  <2>1. /\ c \in DOMAIN call' => call'[c].pc = "count"
        /\ call[c].op \in {"leave", "drop"}
    BY <1>1, <1>3 DEF Depart, End, Goto, Call
  <2>2. /\ scene' = scene /\ wire' = wire /\ inRoom' = inRoom /\ ~Apply(c)
    BY <1>3 DEF Depart, Apply, At
  <2>3. ~(call[c].m = m /\ Early(m))
    BY <1>1, <2>1 DEF Early
  <2>4. HandlersKept(m)
    BY <1>1, <2>1, <2>2, <2>3, MovedKept
  <2> QED BY <1>1, <2>2, <2>4, TrackedIdle
<1>4. CASE Count(c)
  <2>1. /\ call[c].pc \in {"count", "recount"}
        /\ c \in DOMAIN call' => /\ call'[c].scene = call[c].scene
                                 /\ call'[c].pc = "reply" => call[c].pc = "recount"
                                 /\ call'[c].pc \in {"tell", "reply"}
    BY <1>1, <1>4 DEF Count, At, End, Call
  <2>2. /\ scene' = scene /\ wire' = wire /\ inRoom' = inRoom /\ ~Apply(c)
    BY <1>4 DEF Count, Apply, At, server
  <2>3. ~(call[c].m = m /\ Early(m))
    BY <1>1, <2>1 DEF Early
  <2>4. call[c].m = m /\ ReadNow(m) /\ c \in DOMAIN call' /\ call'[c].pc \in {"recount", "reply"}
          => call'[c].scene = scene
    BY <1>1, <2>1 DEF ReadNow
  <2>5. HandlersKept(m)
    BY <1>1, <2>2, <2>3, <2>4, MovedKept
  <2> QED BY <1>1, <2>2, <2>5, TrackedIdle
<1>5. CASE Enter(c)
  <2>1. /\ call[c].pc = "enter" /\ scene' = scene /\ wire' = wire /\ ~Apply(c)
        /\ c \in DOMAIN call' => /\ call'[c].pc \in {"count", "recount"}
                                 /\ call'[c].pc = "recount" => call'[c].scene = scene
    BY <1>1, <1>5 DEF Enter, At, Apply, Goto, Call
  <2>2. inRoom' = IF Open(call[c].m) THEN inRoom \union {call[c].m} ELSE inRoom
    BY <1>5 DEF Enter
  <2>3. CASE m \in inRoom \/ call[c].m # m
    <3>1. m \in inRoom' <=> m \in inRoom
      BY <2>2, <2>3
    <3>2. Unconfirmed(m) => Unconfirmed(m)'
      BY <2>1, UnconfirmedKept
    <3>3. ReadNow(m) => ReadNow(m)'
      BY <2>1, StepShape DEF ReadNow
    <3>4. CASE call[c].m # m
      BY <1>1, <2>1, <3>1, <3>4, MovedKept, TrackedIdle
    <3>5. CASE m \in inRoom
      BY <1>1, <2>1, <3>1, <3>2, <3>3, <3>5 DEF Tracked, Known, Coming, Shown, Awaited
    <3> QED BY <2>3, <3>4, <3>5
  <2>4. CASE m \notin inRoom /\ call[c].m = m /\ page[m] = "closed"
    BY <1>1, <2>2, <2>4 DEF Open, Tracked
  <2>5. CASE m \notin inRoom /\ call[c].m = m /\ page[m] # "closed"
    <3>1. Outside(m)
      BY <2>5 DEF Tracked
    <3>2. \A d \in DOMAIN call' : call'[d].m = m /\ call'[d].pc \in {"recount", "reply"}
                                   => call'[d].scene = scene
      BY <2>1, <3>1, StepShape DEF Outside, Early
    <3>3. page[m] # "new"
      BY <1>1, <2>5, <3>1 DEF Outside, Early
    <3>4. m \in inRoom'
      BY <2>2, <2>5, <3>3 DEF Open
    <3>5. ReadNow(m)'
      BY <2>1, <3>2 DEF ReadNow
    <3>6. Awaited(m)'
      BY <1>1, <2>1, <3>1, <3>5 DEF Awaited, Outside
    <3> QED BY <3>4, <3>6 DEF Tracked, Known
  <2> QED BY <2>3, <2>4, <2>5
<1>6. CASE Tell(c)
  <2> DEFINE p == [kind |-> "count", counted |-> call[c].counted]
  <2>1. /\ call[c].pc = "tell" /\ scene' = scene /\ inRoom' = inRoom /\ ~Apply(c)
        /\ c \in DOMAIN call' => call'[c].pc = "recount" /\ call'[c].scene = scene
    BY <1>1, <1>6 DEF Tell, At, Apply, End, Call
  <2>2. p \in Packet /\ p.kind = "count"
    BY <1>1, CallFields DEF Packet
  <2>3. wire'[m] = IF m \in inRoom THEN Append(wire[m], p) ELSE wire[m]
    BY <1>6 DEF Tell, Broadcast
  <2>4. ~(call[c].m = m /\ Early(m))
    BY <1>1, <2>1 DEF Early
  <2>5. HandlersKept(m)
    BY <1>1, <2>1, <2>4, MovedKept
  <2>6. CASE m \in inRoom
    BY <1>1, <2>1, <2>2, <2>3, <2>5, <2>6, TrackedSent
  <2>7. CASE m \notin inRoom
    BY <1>1, <2>1, <2>3, <2>5, <2>7, TrackedIdle
  <2> QED BY <2>6, <2>7
<1>7. CASE Reply(c)
  <2> DEFINE p == [kind |-> "ack", try |-> call[c].try, scene |-> call[c].scene,
                   counted |-> call[c].counted]
  <2>1. /\ call[c].pc = "reply" /\ scene' = scene /\ inRoom' = inRoom /\ ~Apply(c)
        /\ c \notin DOMAIN call'
    BY <1>1, <1>7 DEF Reply, At, Apply, End, server
  <2>2. p \in Packet /\ p.kind = "ack" /\ p.scene = call[c].scene
    BY <1>1, CallFields DEF Packet
  <2>3. wire'[m] = IF call[c].m = m /\ Open(m) THEN Append(wire[m], p) ELSE wire[m]
    BY <1>1, <1>7 DEF Reply
  <2>4. HandlersKept(m)
    BY <1>1, <2>1, MovedKept
  <2>5. CASE wire'[m] = wire[m]
    BY <1>1, <2>1, <2>4, <2>5, TrackedIdle
  <2>6. CASE call[c].m = m /\ Open(m) /\ m \in inRoom
    <3>1. ReadNow(m) => p.scene = scene
      BY <1>1, <2>1, <2>2, <2>6 DEF ReadNow
    <3> QED BY <1>1, <2>1, <2>2, <2>3, <2>4, <2>6, <3>1, TrackedSent
  <2>7. CASE call[c].m = m /\ Open(m) /\ m \notin inRoom
    <3>1. Early(m)
      BY <2>7 DEF Tracked, Outside, Open
    <3> QED BY <1>1, <2>1, <2>7, <3>1 DEF Early
  <2> QED BY <2>3, <2>5, <2>6, <2>7
<1>8. CASE Apply(c)
  <2> DEFINE p == [kind |-> "scene", scene |-> scene']
  <2>1. /\ inRoom' = inRoom /\ ended' = ended
        /\ c \notin DOMAIN call' /\ \A d \in DOMAIN call' : d \in DOMAIN call /\ call'[d] = call[d]
        /\ \A d \in DOMAIN call : d # c => d \in DOMAIN call' /\ call'[d] = call[d]
    BY <1>8, StepShape DEF Apply, End
  <2>2. CASE (ended \/ call[c].m \notin Hosts) /\ UNCHANGED <<scene, wire>>
    <3>1. Unconfirmed(m) => Unconfirmed(m)'
      BY <2>1, <2>2 DEF Unconfirmed
    <3>2. HandlersKept(m)
      BY <1>1, <2>1, <2>2, <3>1 DEF HandlersKept, Early, ReadNow
    <3> QED BY <1>1, <2>1, <2>2, <3>2, TrackedIdle
  <2>3. CASE scene' = Patched(call[c]) /\ wire' = Broadcast(p)
    <3>1. scene' \in Scene
      BY <1>1, <2>3, PatchedType DEF TypeInv, TypeOK
    <3>2. p \in Packet /\ p.kind = "scene" /\ p.scene = scene'
      BY <3>1 DEF Packet
    <3>3. CASE m \in inRoom
      <4>1. wire'[m] = Append(wire[m], p)
        BY <2>3, <3>3 DEF Broadcast
      <4>2. Coming(m)'
        <5>1. wire[m] \in Seq(Packet)
          BY <1>1
        <5>2. Len(wire[m]) + 1 \in 1 .. Len(wire'[m]) /\ wire'[m][Len(wire[m]) + 1] = p
          BY <3>2, <4>1, <5>1, AppendFacts
        <5> QED BY <3>2, <5>2 DEF Coming
      <4> QED BY <2>1, <3>3, <4>2 DEF Tracked, Known
    <3>4. CASE m \notin inRoom
      <4>1. wire'[m] = wire[m]
        BY <2>3, <3>4 DEF Broadcast
      <4> QED BY <1>1, <2>1, <3>4, <4>1 DEF Tracked, Outside, Early
    <3> QED BY <3>3, <3>4
  <2> QED BY <1>8, <2>2, <2>3 DEF Apply
<1> QED BY <1>2, <1>3, <1>4, <1>5, <1>6, <1>7, <1>8 DEF Step

\* So does a page that receives a packet.
LEMMA TrackedReceive ==
  ASSUME TypeInv, OrderInv, OneScene, NEW n \in Members, Receive(n),
         NEW m \in Members, Tracked(m)
  PROVE  Tracked(m)'
<1> DEFINE p == Head(wire[n])
<1>1. /\ scene' = scene /\ inRoom' = inRoom /\ call' = call /\ ended' = ended
      /\ behind \subseteq behind'
  BY DEF Receive, server
<1>2. HandlersKept(m) \/ page'[m] # page[m]
  BY <1>1, OthersKept
<1>3. CASE m # n
  <2>1. wire'[m] = wire[m] /\ screen'[m] = screen[m] /\ page'[m] = page[m]
    BY <1>3 DEF Receive, Show, TypeInv, TypeOK
  <2> QED BY <1>1, <1>2, <2>1, TrackedIdle
<1>4. CASE m = n
  <2> DEFINE ignored == p.kind = "ack" /\ ~(page[m] = "joining" /\ p.try = tries[m])
  <2>1. /\ wire[m] \in Seq(Packet) /\ wire[m] # <<>> /\ wire'[m] = Tail(wire[m])
        /\ p \in Packet /\ p = wire[m][1] /\ 1 \in 1 .. Len(wire[m])
    BY <1>4, TailFacts DEF Receive, TypeInv, TypeOK
  <2>2. /\ page'[m] = page[m] \/ (page[m] = "joining" /\ p.kind = "ack" /\ ~ignored)
        /\ page'[m] = "in" => page[m] = "in" \/ (p.kind = "ack" /\ ~ignored)
        /\ ignored \/ p.kind = "count" => screen'[m] = screen[m]
        /\ ~ignored /\ p.kind # "count" =>
             screen'[m] = p.scene /\ {m} \X SetBack(m, p) \subseteq behind'
    BY <1>4 DEF Receive, Show, TypeInv, TypeOK
  <2>3. CASE m \notin inRoom
    BY <1>1, <2>1, <2>2, <2>3 DEF Tracked, Outside
  <2>4. CASE m \in inRoom /\ ~ignored /\ p.kind # "count"
    <3>1. /\ p.scene.ver \in Nat /\ scene.ver \in Nat /\ p.scene.ver <= scene.ver
          /\ screen[m].ver \in Nat
      BY <2>1, <2>4, PacketFields DEF OrderInv, Bounded, Scene, TypeInv, TypeOK
    <3>2. p.scene.ver = scene.ver => p.scene = scene
      BY <2>1, <2>4 DEF OneScene
    <3>3. p.scene = scene => Shown(m)'
      BY <1>1, <2>2, <2>4 DEF Shown
    <3>4. p.scene.ver < screen[m].ver => <<m, "scene">> \in behind'
      <4>1. p.scene.ver < screen[m].ver => "scene" \in SetBack(m, p)
        BY <2>4 DEF SetBack
      <4> QED BY <2>2, <2>4, <4>1
    <3>5. CASE Coming(m)
      <4>1. PICK i \in 1 .. Len(wire[m]) : wire[m][i].kind = "scene" /\ wire[m][i].scene = scene
        BY <3>5 DEF Coming
      <4>2. CASE i = 1
        BY <1>1, <2>1, <2>4, <3>3, <4>1, <4>2 DEF Tracked, Known
      <4>3. CASE i # 1
        <5>1. i - 1 \in 1 .. Len(wire'[m]) /\ wire'[m][i - 1] = wire[m][i]
          BY <2>1, <4>3, TailFacts
        <5> QED BY <1>1, <2>4, <4>1, <5>1 DEF Tracked, Known, Coming
      <4> QED BY <4>2, <4>3
    <3>6. CASE Shown(m)
      BY <1>1, <2>4, <3>1, <3>2, <3>3, <3>4, <3>6 DEF Shown, Tracked, Known
    <3>7. CASE Awaited(m)
      BY <1>1, <2>1, <2>4, <3>3, <3>7 DEF Awaited, Tracked, Known
    <3>8. CASE <<m, "scene">> \in behind
      BY <1>1, <2>4, <3>8 DEF Tracked, Known
    <3> QED BY <2>4, <3>5, <3>6, <3>7, <3>8 DEF Tracked, Known
  <2>5. CASE m \in inRoom /\ (ignored \/ p.kind = "count")
    <3>1. screen'[m] = screen[m] /\ page'[m] = page[m] /\ p.kind # "scene"
      BY <2>2, <2>5
    <3>2. HandlersKept(m)
      BY <1>2, <3>1
    <3>3. CASE Coming(m)
      <4>1. PICK i \in 1 .. Len(wire[m]) : wire[m][i].kind = "scene" /\ wire[m][i].scene = scene
        BY <3>3 DEF Coming
      <4>2. i # 1
        BY <2>1, <3>1, <4>1
      <4>3. i - 1 \in 1 .. Len(wire'[m]) /\ wire'[m][i - 1] = wire[m][i]
        BY <2>1, <4>2, TailFacts
      <4> QED BY <1>1, <2>5, <4>1, <4>3 DEF Tracked, Known, Coming
    <3>4. CASE Shown(m) \/ <<m, "scene">> \in behind
      BY <1>1, <2>5, <3>1, <3>2, <3>4 DEF Tracked, Known, Shown, HandlersKept
    <3>5. CASE Awaited(m)
      <4>1. ASSUME NEW i \in 1 .. Len(wire'[m]), wire'[m][i].kind # "count"
            PROVE  wire'[m][i].scene = scene
        BY <2>1, <3>5, <4>1, TailFacts DEF Awaited
      <4> QED BY <1>1, <2>5, <3>1, <3>2, <3>5, <4>1 DEF Tracked, Known, Awaited, HandlersKept
    <3> QED BY <2>5, <3>3, <3>4, <3>5 DEF Tracked, Known
  <2> QED BY <2>3, <2>4, <2>5
<1> QED BY <1>3, <1>4

\* And a request of a client.
LEMMA TrackedRequest ==
  ASSUME TypeInv, Slots, NEW c \in Calls, NEW n \in Members,
         \/ AskJoin(c, n) \/ Close(c, n)
         \/ \E patch \in Patches : Edit(c, n, patch),
         NEW m \in Members, Tracked(m)
  PROVE  Tracked(m)'
<1>1. /\ scene' = scene /\ ended' = ended /\ behind' = behind
      /\ m # n => /\ page'[m] = page[m] /\ screen'[m] = screen[m] /\ wire'[m] = wire[m]
                  /\ m \in inRoom' <=> m \in inRoom
  BY DEF AskJoin, Close, Edit, server, TypeInv, TypeOK
<1>2. Unconfirmed(m) => Unconfirmed(m)'
  BY <1>1, RequestShape DEF Unconfirmed
<1>3. \A d \in DOMAIN call' :
        \/ d \in DOMAIN call /\ call'[d] = call[d]
        \/ call'[d].m = n
  BY RequestShape
<1>4. CASE m # n
  <2>1. HandlersKept(m)
    BY <1>1, <1>2, <1>3, <1>4 DEF HandlersKept, Early, ReadNow
  <2> QED BY <1>1, <1>4, <2>1, TrackedIdle
<1>5. CASE m = n /\ AskJoin(c, n)
  <2>1. /\ wire' = wire /\ screen' = screen /\ inRoom' = inRoom
        /\ page[m] \in {"new", "failed"} /\ page'[m] = "joining"
    BY <1>5 DEF AskJoin, server, TypeInv, TypeOK
  <2>2. \A d \in DOMAIN call' :
          \/ d \in DOMAIN call /\ call'[d] = call[d]
          \/ call'[d].op = "join" /\ call'[d].pc = "save"
    BY <1>5 DEF AskJoin, Begin, Begun, Blank
  <2>3. Early(m) => Early(m)'
    BY <2>1, <2>2 DEF Early
  <2>4. ReadNow(m) => ReadNow(m)'
    BY <1>1, <2>2 DEF ReadNow
  <2>5. Known(m) => Known(m)'
    BY <1>1, <1>2, <2>1, <2>4 DEF Known, Coming, Shown, Awaited
  <2> QED BY <2>1, <2>3, <2>5 DEF Tracked, Outside
<1>6. CASE m = n /\ Close(c, n)
  <2>1. m \notin inRoom' /\ page'[m] = "closed"
    BY <1>6 DEF Close, TypeInv, TypeOK
  <2> QED BY <2>1 DEF Tracked
<1>7. ASSUME NEW patch \in Patches, Edit(c, n, patch), m = n
      PROVE  Tracked(m)'
  <2>1. /\ page[m] = "in" /\ page' = page /\ m \in Hosts /\ wire' = wire /\ inRoom' = inRoom
    BY <1>7 DEF Edit, server
  <2>2. screen'[m].ver = screen[m].ver
    <3>1. screen' = [screen EXCEPT ![n] = [ver |-> @.ver, of |-> Overlaid(@.of, patch, edits')]]
      BY <1>7 DEF Edit
    <3> QED BY <1>7, <3>1 DEF TypeInv, TypeOK
  <2>3. Unconfirmed(m)'
    <3>1. Begin(c, [Blank("update", n, "apply") EXCEPT !.edit = edits', !.patch = patch])
      BY <1>7 DEF Edit
    <3>2. c \in DOMAIN call' /\ call'[c].op = "update" /\ call'[c].m = m
      BY <1>7, <3>1 DEF Begin, Begun, Blank
    <3> QED BY <2>1, <3>2 DEF Unconfirmed
  <2> QED BY <1>1, <2>1, <2>2, <2>3 DEF Tracked, Outside, Known, Coming, Shown, Awaited
<1> QED BY <1>4, <1>5, <1>6, <1>7

\* Every step keeps track of the scene.
LEMMA SyncNext == TypeInv /\ OrderInv /\ SyncInv /\ [Next]_vars => SyncInv'
<1> SUFFICES ASSUME TypeInv, OrderInv, SyncInv, [Next]_vars PROVE SyncInv'
  OBVIOUS
<1>1. CASE UNCHANGED vars
  BY <1>1 DEF vars, SyncInv, OneScene, Slots, Tracked, Outside, Early, Known, Coming, Shown,
     Awaited, ReadNow, Unconfirmed
<1>2. CASE Next
  <2>1. OneScene' /\ Slots'
    BY <1>2, OneSceneNext, SlotsNext DEF SyncInv
  <2>2. ASSUME NEW m \in Members PROVE Tracked(m)'
    <3>1. Tracked(m)
      BY DEF SyncInv
    <3>2. EndRoom => Tracked(m)'
      BY <3>1, OthersKept, TrackedIdle DEF EndRoom, client
    <3>3. ASSUME NEW n \in Members, TimeOut(n) PROVE Tracked(m)'
      <4>1. /\ scene' = scene /\ inRoom' = inRoom /\ call' = call /\ ended' = ended
            /\ wire' = wire /\ screen' = screen /\ behind' = behind
            /\ page'[m] = page[m] \/ (page[m] = "joining" /\ page'[m] = "failed")
        BY <3>3 DEF TimeOut, server, TypeInv, TypeOK
      <4> QED BY <3>1, <4>1 DEF Tracked, Outside, Early, Known, Coming, Shown, Awaited, ReadNow,
                 Unconfirmed
    <3> QED BY <1>2, <3>1, <3>2, <3>3, TrackedStep, TrackedReceive, TrackedRequest
            DEF Next, SyncInv
  <2> QED BY <2>1, <2>2 DEF SyncInv
<1> QED BY <1>1, <1>2

\* Initially every page is outside.
LEMMA SyncInit == Init => SyncInv
BY DEF Init, SyncInv, OneScene, Slots, Tracked, Outside, Early

\* Synced holds in every behaviour: a page in the room that has received everything
\* shows the server's scene.
THEOREM PagesAreSynced == Spec => []Synced
<1>1. TypeInv /\ SyncInv => Synced
  <2> SUFFICES ASSUME TypeInv, SyncInv, NEW m \in inRoom, m \in Members, page[m] = "in",
                      wire[m] = <<>>, ~Unconfirmed(m)
               PROVE  screen[m].of = scene.of \/ <<m, "scene">> \in behind
    BY DEF Synced, TypeInv, TypeOK
  <2> QED BY DEF SyncInv, Tracked, Known, Coming, Shown, Awaited
<1> QED BY <1>1, TypeInit, TypeNext, OrderInit, OrderNext, SyncInit, SyncNext, PTL DEF Spec
-----------------------------------------------------------------------------
(* A guest's page of RoomFeed runs each command of the scene's video once: *)
(* a proof for every value of the constants.                               *)

Guests == Members \ Hosts
Cmd(s) == s.of[Command]

\* The scenes on their way to m.
Sent(m) == {wire[m][i].scene : i \in {j \in 1 .. Len(wire[m]) : wire[m][j].kind # "count"}}

\* The scenes that guests may still be shown, or are shown.
Scenes == {Default, scene} \union {call[c].scene : c \in DOMAIN call}
            \union {screen[m] : m \in Guests} \union UNION {Sent(m) : m \in Members}

\* A command that has been replaced does not return: the versions with one command are
\* all the versions between two of them.
Timeline ==
  \A a, b, d \in Scenes :
    a.ver <= b.ver /\ b.ver <= d.ver /\ Cmd(a) = Cmd(d) => Cmd(b) = Cmd(a)

Pending == {c \in DOMAIN call : call[c].op = "update"}

\* An edit on its way to the server is not in any scene, and no page has run it.
Fresh ==
  /\ \A c \in Pending :
       /\ call[c].edit \in 1 .. edits
       /\ \A s \in Scenes : Cmd(s) # call[c].edit
       /\ \A m \in Guests : \A i \in 1 .. Len(ran[m]) : ran[m][i] # call[c].edit
  /\ \A c, d \in Pending : call[c].edit = call[d].edit => c = d
  /\ \A s \in Scenes : Cmd(s) <= edits
  /\ \A m \in Guests : \A i \in 1 .. Len(ran[m]) : ran[m][i] <= edits

\* The last command a page has run is the one its scene carries.
LastRan(m) ==
  IF Cmd(screen[m]) = 0
  THEN ran[m] = <<>> /\ last[m] = 0
  ELSE /\ ran[m] # <<>> /\ last[m] = Cmd(screen[m])
       /\ ran[m][Len(ran[m])] = last[m]

\* The commands it ran before are in no scene that is not older than what it shows.
Over(m) ==
  \A i \in 1 .. Len(ran[m]) : i < Len(ran[m]) =>
    \A s \in Scenes : screen[m].ver <= s.ver => Cmd(s) # ran[m][i]

Once(m) == \A i, j \in 1 .. Len(ran[m]) : ran[m][i] = ran[m][j] => i = j

RanOnce(m) == <<m, "scene">> \in behind \/ (Once(m) /\ LastRan(m) /\ Over(m))

CommandInv == Timeline /\ Fresh /\ \A m \in Guests : RanOnce(m)

-----------------------------------------------------------------------------
(* The scenes there are.                                                   *)

\* They are scenes, and no newer than the server's.
LEMMA ScenesTyped ==
  ASSUME TypeInv, OrderInv
  PROVE  /\ Scenes \subseteq Scene /\ scene \in Scenes /\ Default \in Scenes
         /\ \A s \in Scene : s.ver \in Nat /\ Cmd(s) \in Nat
         /\ \A s \in Scenes : s.ver <= scene.ver
<1>1. scene \in Scene /\ Default \in Scene /\ scene.ver \in Nat /\ Default.ver = 0
  BY DefaultType DEF TypeInv, TypeOK, Scene, Default
<1>2. \A s \in Scene : s.ver \in Nat /\ Cmd(s) \in Nat
  BY FeedAssumption DEF Scene, Edits, Cmd
<1>3. ASSUME NEW c \in DOMAIN call
      PROVE  call[c].scene \in Scene /\ call[c].scene.ver <= scene.ver
  BY CallFields DEF OrderInv
<1>4. ASSUME NEW m \in Members
      PROVE  screen[m] \in Scene /\ screen[m].ver <= scene.ver
  BY DEF TypeInv, TypeOK, OrderInv
<1>5. ASSUME NEW m \in Members, NEW s \in Sent(m)
      PROVE  s \in Scene /\ s.ver <= scene.ver
  <2>1. PICK i \in 1 .. Len(wire[m]) : wire[m][i].kind # "count" /\ s = wire[m][i].scene
    BY DEF Sent
  <2>2. wire[m] \in Seq(Packet) /\ Bounded(wire[m], scene.ver)
    BY DEF TypeInv, TypeOK, OrderInv
  <2>3. wire[m][i] \in Packet
    BY <2>2
  <2> QED BY <2>1, <2>2, <2>3, PacketFields DEF Bounded
<1>6. \A s \in Scenes : s \in Scene /\ s.ver <= scene.ver
  <2>1. Default.ver <= scene.ver /\ scene.ver <= scene.ver
    BY <1>1
  <2> QED BY <1>1, <1>3, <1>4, <1>5, <2>1 DEF Scenes, Guests
<1>7. scene \in Scenes /\ Default \in Scenes
  BY DEF Scenes
<1> QED BY <1>2, <1>6, <1>7

\* The first packet of a page carries one of them.
LEMMA HeadScene ==
  ASSUME TypeInv, NEW m \in Members, wire[m] # <<>>, Head(wire[m]).kind # "count"
  PROVE  Head(wire[m]).scene \in Scenes
<1>1. wire[m] \in Seq(Packet)
  BY DEF TypeInv, TypeOK
<1>2. Head(wire[m]) = wire[m][1] /\ 1 \in 1 .. Len(wire[m])
  BY <1>1, TailFacts
<1> QED BY <1>2 DEF Scenes, Sent

\* A step shows a guest what it showed before, or one of the scenes.
LEMMA NextScreens ==
  ASSUME TypeInv, Next, NEW m \in Guests
  PROVE  screen'[m] = screen[m] \/ screen'[m] \in Scenes
<1>1. ASSUME NEW c \in Calls, NEW n \in Members,
             \/ AskJoin(c, n) \/ Close(c, n)
             \/ \E patch \in Patches : Edit(c, n, patch)
      PROVE  screen'[m] = screen[m]
  BY <1>1 DEF AskJoin, Close, Edit, Guests, TypeInv, TypeOK
<1>2. ASSUME NEW c \in CallIds, Step(c) PROVE screen' = screen
  BY <1>2 DEF Step, Join, Enter, Depart, Count, Tell, Reply, Apply, client
<1>3. ASSUME NEW n \in Members, Receive(n)
      PROVE  screen'[m] = screen[m] \/ screen'[m] \in Scenes
  <2>1. \/ screen' = screen
        \/ /\ screen' = [screen EXCEPT ![n] = Head(wire[n]).scene]
           /\ Head(wire[n]).kind # "count" /\ wire[n] # <<>>
    BY <1>3 DEF Receive, Show
  <2>2. CASE screen' = [screen EXCEPT ![n] = Head(wire[n]).scene]
    BY <1>3, <2>1, <2>2, HeadScene DEF TypeInv, TypeOK, Guests
  <2> QED BY <2>1, <2>2
<1>4. EndRoom \/ (\E n \in Members : TimeOut(n)) => screen' = screen
  BY DEF EndRoom, TimeOut, client
<1> QED BY <1>1, <1>2, <1>3, <1>4 DEF Next

\* A step adds no scene but the server's.
LEMMA NextScenesOf ==
  ASSUME TypeInv, Next
  PROVE  Scenes' \subseteq Scenes \union {scene'}
<1> SUFFICES ASSUME NEW s \in Scenes' PROVE s \in Scenes \/ s = scene'
  OBVIOUS
<1>1. CASE s = Default \/ s = scene'
  BY <1>1 DEF Scenes
<1>2. ASSUME NEW d \in DOMAIN call', s = call'[d].scene
      PROVE  s \in Scenes
  BY <1>2, NextScenes DEF Scenes
<1>3. ASSUME NEW m \in Guests, s = screen'[m]
      PROVE  s \in Scenes
  BY <1>3, NextScreens DEF Scenes
<1>4. ASSUME NEW m \in Members, s \in Sent(m)'
      PROVE  s \in Scenes \/ s = scene'
  <2>1. PICK i \in 1 .. Len(wire'[m]) : wire'[m][i].kind # "count" /\ s = wire'[m][i].scene
    BY <1>4 DEF Sent
  <2>2. \A j \in 1 .. Len(wire[m]) : wire[m][j].kind # "count" => wire[m][j].scene \in Sent(m)
    BY DEF Sent
  <2>3. Sent(m) \subseteq Scenes
    BY DEF Scenes
  <2>4. \A c \in DOMAIN call : call[c].scene \in Scenes
    BY DEF Scenes
  <2> QED BY <2>1, <2>2, <2>3, <2>4, NextPackets
<1>5. Default' = Default
  BY DEF Default
<1> QED BY <1>1, <1>2, <1>3, <1>4, <1>5 DEF Scenes, Guests

\* What an edit does to the server's scene.
LEMMA PatchedCmd ==
  ASSUME TypeInv, NEW c \in CallIds, Step(c)
  PROVE  \/ scene' = scene
         \/ /\ c \in Pending /\ c \notin Pending'
            /\ scene'.ver = scene.ver + 1
            /\ Cmd(scene') \in {Cmd(scene), call[c].edit}
<1>1. CASE Apply(c) /\ scene' # scene
  <2>1. scene' = Patched(call[c]) /\ End(c) /\ c \in DOMAIN call /\ call[c].pc = "apply"
    BY <1>1 DEF Apply, At
  <2>2. c \in Pending /\ c \notin Pending'
    BY <2>1 DEF Pending, End, TypeInv, CallsOK, ShapeOf
  <2>3. Cmd(scene') \in {Cmd(scene), call[c].edit}
    BY <2>1, FeedAssumption DEF Patched, Overlaid, Cmd
  <2> QED BY <2>1, <2>2, <2>3 DEF Patched
<1>2. CASE ~Apply(c)
  BY <1>2 DEF Step, Join, Enter, Depart, Count, Tell, Reply, server
<1> QED BY <1>1, <1>2

\* A command that has been replaced does not return.
LEMMA TimelineNext ==
  ASSUME TypeInv, OrderInv, Timeline, Fresh, Next
  PROVE  Timeline'
<1>1. /\ Scenes \subseteq Scene /\ scene \in Scenes
      /\ \A s \in Scene : s.ver \in Nat /\ Cmd(s) \in Nat
      /\ \A s \in Scenes : s.ver <= scene.ver
  BY ScenesTyped
<1>2. Scenes' \subseteq Scenes \union {scene'}
  BY NextScenesOf
<1>3. ASSUME scene' = scene PROVE Timeline'
  BY <1>1, <1>2, <1>3 DEF Timeline, Cmd
<1>4. ASSUME NEW c \in CallIds, Step(c) PROVE Timeline'
  <2> SUFFICES ASSUME scene' # scene,
                      NEW a \in Scenes', NEW b \in Scenes', NEW d \in Scenes',
                      a.ver <= b.ver, b.ver <= d.ver, Cmd(a) = Cmd(d)
               PROVE  Cmd(b) = Cmd(a)
    BY <1>3 DEF Timeline, Cmd
  <2>1. /\ c \in Pending /\ scene'.ver = scene.ver + 1
        /\ Cmd(scene') \in {Cmd(scene), call[c].edit}
    BY <1>4, PatchedCmd
  <2>2. \A s \in Scenes : Cmd(s) # call[c].edit /\ s.ver < scene'.ver /\ s.ver \in Nat
    BY <1>1, <2>1 DEF Fresh
  <2>3. scene'.ver \in Nat
    BY <1>1, <2>1
  <2>4. CASE d \in Scenes
    <3>1. a \in Scenes /\ b \in Scenes
      BY <1>2, <2>2, <2>3, <2>4
    <3> QED BY <2>4, <3>1 DEF Timeline
  <2>5. CASE d = scene' /\ a \in Scenes /\ b \in Scenes
    <3>1. Cmd(a) = Cmd(scene)
      BY <2>1, <2>2, <2>5
    <3> QED BY <1>1, <2>5, <3>1 DEF Timeline
  <2>6. CASE d = scene' /\ a = scene'
    <3>1. b \notin Scenes
      BY <2>2, <2>3, <2>6
    <3> QED BY <1>2, <2>6, <3>1
  <2> QED BY <1>2, <2>4, <2>5, <2>6
<1>5. (\A c \in CallIds : ~Step(c)) => scene' = scene
  BY DEF Next, AskJoin, Close, Edit, server, EndRoom, TimeOut, Receive
<1> QED BY <1>3, <1>4, <1>5

-----------------------------------------------------------------------------
(* Edits are new.                                                          *)

\* A step adds at most one edit to those on their way, and numbers it anew.
LEMMA NextPending ==
  ASSUME TypeInv, Next
  PROVE  \/ /\ edits' = edits
            /\ \A d \in Pending' : d \in Pending /\ call'[d].edit = call[d].edit
         \/ /\ edits' = edits + 1 /\ scene' = scene
            /\ \A m \in Guests : ran'[m] = ran[m]
            /\ \E c \in Calls :
                 \A d \in Pending' : IF d = c THEN call'[d].edit = edits'
                                     ELSE d \in Pending /\ call'[d].edit = call[d].edit
<1>1. ASSUME NEW c \in Calls, NEW m \in Members, AskJoin(c, m)
      PROVE  edits' = edits /\ \A d \in Pending' : d \in Pending /\ call'[d].edit = call[d].edit
  BY <1>1 DEF AskJoin, Begin, Begun, Blank, Pending
<1>2. ASSUME NEW c \in Calls, NEW m \in Members, Close(c, m)
      PROVE  edits' = edits /\ \A d \in Pending' : d \in Pending /\ call'[d].edit = call[d].edit
  BY <1>2 DEF Close, Begun, Blank, Pending
<1>3. ASSUME NEW c \in Calls, NEW m \in Members, NEW patch \in Patches, Edit(c, m, patch)
      PROVE  /\ edits' = edits + 1 /\ scene' = scene /\ ran' = ran
             /\ \A d \in Pending' : IF d = c THEN call'[d].edit = edits'
                                    ELSE d \in Pending /\ call'[d].edit = call[d].edit
  <2> DEFINE k == [Blank("update", m, "apply") EXCEPT !.edit = edits', !.patch = patch]
  <2>1. Begin(c, k) /\ edits' = edits + 1 /\ scene' = scene /\ ran' = ran
    BY <1>3 DEF Edit, server
  <2>2. k.edit = edits'
    BY DEF Blank
  <2> HIDE DEF k
  <2>3. /\ DOMAIN call' = DOMAIN call \union {c} /\ call'[c] = k
        /\ \A d \in DOMAIN call : d # c => call'[d] = call[d]
    BY <2>1 DEF Begin, Begun
  <2> QED BY <2>1, <2>2, <2>3 DEF Pending
<1>4. ASSUME NEW c \in CallIds, Step(c)
      PROVE  edits' = edits /\ \A d \in Pending' : d \in Pending /\ call'[d].edit = call[d].edit
  <2>1. edits' = edits
    BY <1>4 DEF Step, Join, Enter, Depart, Count, Tell, Reply, Apply, client
  <2>2. c \notin Pending'
    <3>1. Apply(c) => c \notin DOMAIN call'
      BY DEF Apply, End
    <3> QED BY <1>4, <3>1, StepShape DEF Pending
  <2>3. \A d \in Pending' : d \in Pending /\ call'[d] = call[d]
    BY <1>4, <2>2, StepShape DEF Pending
  <2> QED BY <2>1, <2>3
<1>5. EndRoom \/ (\E m \in Members : TimeOut(m) \/ Receive(m)) => call' = call /\ edits' = edits
  BY DEF EndRoom, TimeOut, Receive, client
<1> QED BY <1>1, <1>2, <1>3, <1>4, <1>5 DEF Next, Pending

\* What a packet does to the page that receives it.
Idle(m) == screen'[m] = screen[m] /\ last'[m] = last[m] /\ ran'[m] = ran[m]

Ran(m, s) ==
  /\ screen'[m] = s /\ (s.ver < screen[m].ver => <<m, "scene">> \in behind')
  /\ IF Cmd(s) \in {0, last[m]}
     THEN last'[m] = last[m] /\ ran'[m] = ran[m]
     ELSE last'[m] = Cmd(s) /\ ran'[m] = Append(ran[m], Cmd(s))

\* Receive shows and runs nothing, or the scene of the packet, on that page only.
LEMMA ReceiveShows ==
  ASSUME TypeInv, NEW n \in Members, Receive(n)
  PROVE  /\ scene' = scene /\ call' = call /\ edits' = edits /\ behind \subseteq behind'
         /\ \A m \in Members \ {n} : Idle(m)
         /\ Idle(n) \/ \E s \in Scenes : Ran(n, s)
<1> DEFINE p == Head(wire[n])
<1>1. /\ scene' = scene /\ call' = call /\ edits' = edits /\ wire[n] # <<>>
      /\ behind \subseteq behind'
  BY DEF Receive, server
<1>2. CASE UNCHANGED <<screen, last, ran>>
  BY <1>1, <1>2 DEF Idle
<1>3. CASE p.kind # "count" /\ Show(n, p.scene) /\ behind' = behind \union ({n} \X SetBack(n, p))
  <2>1. p.scene \in Scenes
    BY <1>1, <1>3, HeadScene
  <2>2. p.scene.ver < screen[n].ver => <<n, "scene">> \in behind'
    BY <1>3 DEF SetBack
  <2>3. \A m \in Members \ {n} : Idle(m)
    BY <1>3 DEF Show, Idle, TypeInv, TypeOK
  <2>4. screen'[n] = p.scene
    BY <1>3 DEF Show, TypeInv, TypeOK
  <2>5. IF Cmd(p.scene) \in {0, last[n]}
        THEN last'[n] = last[n] /\ ran'[n] = ran[n]
        ELSE last'[n] = Cmd(p.scene) /\ ran'[n] = Append(ran[n], Cmd(p.scene))
    BY <1>3 DEF Show, Cmd, TypeInv, TypeOK
  <2>6. Ran(n, p.scene)
    BY <2>2, <2>4, <2>5 DEF Ran
  <2> QED BY <1>1, <2>1, <2>3, <2>6
<1> QED BY <1>2, <1>3 DEF Receive

\* A page runs a command only when a packet reaches it.
LEMMA OnlyReceiveRuns ==
  ASSUME Next, \A n \in Members : ~Receive(n)
  PROVE  ran' = ran /\ behind' = behind
BY DEF Next, AskJoin, Close, Edit, EndRoom, TimeOut, client, Step, Join, Enter, Depart, Count,
       Tell, Reply, Apply

\* A step lets a page run no command, or one that one of the scenes carries.
LEMMA NextRan ==
  ASSUME TypeInv, Next, NEW m \in Guests
  PROVE  /\ ran[m] \in Seq(Edits) /\ ran'[m] \in Seq(Edits)
         /\ \/ ran'[m] = ran[m]
            \/ \E s \in Scenes : ran'[m] = Append(ran[m], Cmd(s)) /\ scene' = scene
<1>1. ran[m] \in Seq(Edits) /\ ran'[m] \in Seq(Edits)
  BY TypeNext DEF TypeInv, TypeOK, Guests
<1>2. ASSUME NEW n \in Members, Receive(n)
      PROVE  \/ ran'[m] = ran[m]
             \/ \E s \in Scenes : ran'[m] = Append(ran[m], Cmd(s)) /\ scene' = scene
  BY <1>2, ReceiveShows DEF Idle, Ran, Guests
<1> QED BY <1>1, <1>2, OnlyReceiveRuns

\* An edit on its way to the server stays new.
LEMMA FreshNext ==
  ASSUME TypeInv, OrderInv, Fresh, Next
  PROVE  Fresh'
<1>1. /\ Scenes \subseteq Scene /\ scene \in Scenes /\ edits \in Nat
      /\ \A s \in Scene : Cmd(s) \in Nat
  BY ScenesTyped DEF TypeInv, TypeOK, Edits
<1>2. Scenes' \subseteq Scenes \union {scene'}
  BY NextScenesOf
<1>3. \/ scene' = scene
      \/ \E c \in Pending : c \notin Pending' /\ Cmd(scene') \in {Cmd(scene), call[c].edit}
  <2>1. (\A c \in CallIds : ~Step(c)) => scene' = scene
    BY DEF Next, AskJoin, Close, Edit, server, EndRoom, TimeOut, Receive
  <2> QED BY <2>1, PatchedCmd
<1>4. \A s \in Scenes' : \/ \E t \in Scenes : Cmd(s) = Cmd(t)
                         \/ \E c \in Pending : c \notin Pending' /\ Cmd(s) = call[c].edit
  BY <1>1, <1>2, <1>3
<1>5. ASSUME NEW m \in Guests, NEW i \in 1 .. Len(ran'[m])
      PROVE  \/ i \in 1 .. Len(ran[m]) /\ ran'[m][i] = ran[m][i]
             \/ \E s \in Scenes : ran'[m][i] = Cmd(s)
  <2>1. \A w \in Seq(Edits) : \A x : \A j \in 1 .. Len(Append(w, x)) :
          (j \in 1 .. Len(w) /\ Append(w, x)[j] = w[j]) \/ Append(w, x)[j] = x
    OBVIOUS
  <2> QED BY <2>1, NextRan
<1>6. \A c \in Pending : call[c].edit \in Nat /\ call[c].edit <= edits
  BY <1>1 DEF Fresh
<1>7. \A m \in Guests : \A i \in 1 .. Len(ran[m]) : ran[m][i] \in Nat
  <2>1. ASSUME NEW m \in Guests, NEW i \in 1 .. Len(ran[m]) PROVE ran[m][i] \in Edits
    <3>1. ran[m] \in Seq(Edits)
      BY NextRan
    <3> QED BY <3>1
  <2> QED BY <2>1 DEF Edits
<1>8. ASSUME edits' \in Nat, edits <= edits' PROVE
         /\ \A s \in Scenes' : Cmd(s) <= edits'
         /\ \A m \in Guests : \A i \in 1 .. Len(ran'[m]) : ran'[m][i] <= edits'
  <2>1. \A s \in Scenes' : Cmd(s) \in Nat /\ Cmd(s) <= edits
    BY <1>1, <1>4, <1>6 DEF Fresh
  <2>2. \A m \in Guests : \A i \in 1 .. Len(ran'[m]) : ran'[m][i] \in Nat /\ ran'[m][i] <= edits
    BY <1>1, <1>5, <1>7 DEF Fresh
  <2> QED BY <1>1, <1>8, <2>1, <2>2
<1>9. ASSUME NEW d \in Pending', d \in Pending, call'[d].edit = call[d].edit
      PROVE  /\ \A s \in Scenes' : Cmd(s) # call'[d].edit
             /\ \A m \in Guests : \A i \in 1 .. Len(ran'[m]) : ran'[m][i] # call'[d].edit
  BY <1>4, <1>5, <1>9 DEF Fresh
<1>10. CASE /\ edits' = edits
            /\ \A d \in Pending' : d \in Pending /\ call'[d].edit = call[d].edit
  BY <1>1, <1>8, <1>9, <1>10 DEF Fresh, Guests, Cmd
<1>11. ASSUME edits' = edits + 1, scene' = scene, \A m \in Guests : ran'[m] = ran[m],
              NEW c \in Calls,
              \A d \in Pending' : IF d = c THEN call'[d].edit = edits'
                                  ELSE d \in Pending /\ call'[d].edit = call[d].edit
       PROVE  Fresh'
  <2>1. edits' \in Nat /\ edits < edits' /\ 1 <= edits'
    BY <1>1, <1>11
  <2>2. \A s \in Scenes' : Cmd(s) \in Nat /\ Cmd(s) # edits'
    BY <1>1, <1>2, <1>11, <2>1 DEF Fresh
  <2>3. \A m \in Guests : \A i \in 1 .. Len(ran'[m]) : ran'[m][i] # edits'
    BY <1>1, <1>7, <1>11, <2>1 DEF Fresh
  <2>4. ASSUME NEW d \in Pending'
        PROVE  /\ call'[d].edit \in 1 .. edits'
               /\ \A s \in Scenes' : Cmd(s) # call'[d].edit
               /\ \A m \in Guests : \A i \in 1 .. Len(ran'[m]) : ran'[m][i] # call'[d].edit
    <3>1. CASE d = c
      BY <1>11, <2>1, <2>2, <2>3, <3>1
    <3>2. CASE d # c
      <4>1. d \in Pending /\ call'[d].edit = call[d].edit
        BY <1>11, <3>2
      <4>2. call[d].edit \in 1 .. edits
        BY <4>1 DEF Fresh
      <4> QED BY <1>1, <1>9, <2>1, <4>1, <4>2
    <3> QED BY <3>1, <3>2
  <2>5. ASSUME NEW d \in Pending', NEW e \in Pending', call'[d].edit = call'[e].edit
        PROVE  d = e
    <3>1. \A x \in Pending' : x # c => x \in Pending /\ call'[x].edit = call[x].edit
                                       /\ call'[x].edit # edits'
      BY <1>1, <1>6, <1>11, <2>1
    <3> QED BY <1>11, <2>5, <3>1 DEF Fresh
  <2> QED BY <1>1, <1>8, <2>1, <2>4, <2>5 DEF Fresh, Guests, Cmd
<1> QED BY <1>10, <1>11, NextPending

-----------------------------------------------------------------------------
(* A page runs no command twice.                                           *)

\* A page on which nothing happens.
LEMMA RanIdle ==
  ASSUME TypeInv, OrderInv, Fresh, Next, NEW m \in Guests, Idle(m),
         Once(m), LastRan(m), Over(m)
  PROVE  Once(m)' /\ LastRan(m)' /\ Over(m)'
<1>1. Once(m)' /\ LastRan(m)'
  BY DEF Idle, Once, LastRan, Cmd
<1>2. ASSUME NEW i \in 1 .. Len(ran[m]), i < Len(ran[m]), NEW s \in Scenes',
             screen[m].ver <= s.ver
      PROVE  Cmd(s) # ran[m][i]
  <2>1. CASE s \in Scenes
    BY <1>2, <2>1 DEF Over
  <2>2. CASE s = scene' /\ scene' # scene
    <3>1. \E c \in Pending : Cmd(scene') \in {Cmd(scene), call[c].edit}
      <4>1. (\A c \in CallIds : ~Step(c)) => scene' = scene
        BY DEF Next, AskJoin, Close, Edit, server, EndRoom, TimeOut, Receive
      <4> QED BY <2>2, <4>1, PatchedCmd
    <3>2. Cmd(scene) # ran[m][i]
      <4>1. screen[m].ver <= scene.ver /\ scene \in Scenes
        BY ScenesTyped DEF OrderInv, Guests
      <4> QED BY <1>2, <4>1 DEF Over
    <3>3. \A c \in Pending : call[c].edit # ran[m][i]
      BY DEF Fresh
    <3> QED BY <2>2, <3>1, <3>2, <3>3
  <2> QED BY <2>1, <2>2, NextScenesOf, ScenesTyped
<1>3. Over(m)'
  BY <1>2 DEF Over, Idle, Cmd
<1> QED BY <1>1, <1>3

\* A page that is shown a scene no older than its own.
LEMMA RanShown ==
  ASSUME TypeInv, OrderInv, Timeline, NEW m \in Guests, NEW p \in Scenes, Ran(m, p),
         screen[m].ver <= p.ver, Scenes' \subseteq Scenes,
         Once(m), LastRan(m), Over(m)
  PROVE  Once(m)' /\ LastRan(m)' /\ Over(m)'
<1>1. /\ Scenes \subseteq Scene /\ Default \in Scenes /\ screen[m] \in Scenes
      /\ \A s \in Scene : s.ver \in Nat /\ Cmd(s) \in Nat
  BY ScenesTyped DEF Scenes
<1>2. Default.ver = 0 /\ Cmd(Default) = 0
  BY FeedAssumption DEF Default, Cmd
<1>3. \A s \in Scenes : p.ver <= s.ver => screen[m].ver <= s.ver
  BY <1>1
<1>4. ran[m] \in Seq(Edits) /\ Len(ran[m]) \in Nat
  BY DEF TypeInv, TypeOK, Guests
<1>5. screen'[m] = p
  BY DEF Ran
<1>6. CASE Cmd(p) \in {0, last[m]}
  <2>1. last'[m] = last[m] /\ ran'[m] = ran[m]
    BY <1>6 DEF Ran
  <2>2. Cmd(p) = Cmd(screen[m])
    <3>1. CASE Cmd(screen[m]) = 0
      BY <1>6, <3>1 DEF LastRan
    <3>2. CASE Cmd(screen[m]) # 0
      <4>1. Cmd(p) # 0
        BY <1>1, <1>2, <3>2 DEF Timeline
      <4> QED BY <1>6, <3>2, <4>1 DEF LastRan
    <3> QED BY <3>1, <3>2
  <2>3. Once(m)'
    BY <2>1 DEF Once
  <2>4. LastRan(m)'
    BY <1>5, <2>1, <2>2 DEF LastRan, Cmd
  <2>5. Over(m)'
    BY <1>3, <1>5, <2>1 DEF Over, Cmd
  <2> QED BY <2>3, <2>4, <2>5
<1>7. CASE Cmd(p) \notin {0, last[m]}
  <2> DEFINE n == Len(ran[m])
             x == Cmd(p)
  <2>1. last'[m] = x /\ ran'[m] = Append(ran[m], x)
    BY <1>7 DEF Ran
  <2>2. /\ Len(ran'[m]) = n + 1 /\ ran'[m][n + 1] = x
        /\ \A i \in 1 .. n : ran'[m][i] = ran[m][i]
    BY <1>4, <2>1
  <2>3. ASSUME NEW i \in 1 .. n, NEW s \in Scenes, p.ver <= s.ver
        PROVE  Cmd(s) # ran[m][i]
    <3>1. CASE i < n
      BY <1>3, <2>3, <3>1 DEF Over
    <3>2. CASE i = n
      <4>1. ran[m] # <<>>
        BY <1>4, <3>2
      <4>2. last[m] = Cmd(screen[m]) /\ ran[m][i] = last[m]
        BY <3>2, <4>1 DEF LastRan
      <4>3. Cmd(s) # Cmd(screen[m])
        BY <1>1, <1>7, <2>3, <4>2 DEF Timeline
      <4> QED BY <4>2, <4>3
    <3> QED BY <1>4, <3>1, <3>2
  <2>4. \A i \in 1 .. n : x # ran[m][i]
    BY <1>1, <2>3
  <2>5. Once(m)'
    <3>1. \A i, j \in 1 .. n + 1 : ran'[m][i] = ran'[m][j] => i = j
      <4>1. \A i \in 1 .. n + 1 : i \in 1 .. n \/ i = n + 1
        BY <1>4
      <4> QED BY <2>2, <2>4, <4>1 DEF Once
    <3> QED BY <2>2, <3>1 DEF Once
  <2>6. LastRan(m)'
    <3>1. ran'[m] # <<>>
      BY <1>4, <2>2
    <3> QED BY <1>5, <1>7, <2>1, <2>2, <3>1 DEF LastRan, Cmd
  <2>7. Over(m)'
    <3>1. \A i \in 1 .. n + 1 : i < n + 1 => i \in 1 .. n
      BY <1>4
    <3> QED BY <1>5, <2>2, <2>3, <3>1 DEF Over, Cmd
  <2> QED BY <2>5, <2>6, <2>7
<1> QED BY <1>6, <1>7

\* A step keeps what the pages have run.
LEMMA RanNext ==
  ASSUME TypeInv, OrderInv, CommandInv, Next, NEW m \in Guests
  PROVE  RanOnce(m)'
<1> SUFFICES ASSUME <<m, "scene">> \notin behind' PROVE Once(m)' /\ LastRan(m)' /\ Over(m)'
  BY DEF RanOnce
<1>1. <<m, "scene">> \notin behind
  BY ReceiveShows, OnlyReceiveRuns
<1>2. Once(m) /\ LastRan(m) /\ Over(m) /\ Timeline /\ Fresh
  BY <1>1 DEF CommandInv, RanOnce
<1>3. CASE Idle(m)
  BY <1>2, <1>3, RanIdle
<1>4. ASSUME NEW n \in Members, Receive(n), ~Idle(m)
      PROVE  Once(m)' /\ LastRan(m)' /\ Over(m)'
  <2>1. PICK p \in Scenes : Ran(m, p)
    BY <1>4, ReceiveShows DEF Guests
  <2>2. screen[m].ver <= p.ver
    <3>1. ~(p.ver < screen[m].ver)
      BY <2>1 DEF Ran
    <3>2. p.ver \in Nat /\ screen[m].ver \in Nat
      BY ScenesTyped DEF Scenes
    <3> QED BY <3>1, <3>2
  <2>3. Scenes' \subseteq Scenes
    BY <1>4, NextScenesOf, ReceiveShows, ScenesTyped
  <2> QED BY <1>2, <2>1, <2>2, <2>3, RanShown
<1>5. (\A n \in Members : ~Receive(n)) => Idle(m)
  BY DEF Next, AskJoin, Close, Edit, EndRoom, TimeOut, client, Step, Join, Enter, Depart, Count,
         Tell, Reply, Apply, Idle, Guests, TypeInv, TypeOK
<1> QED BY <1>3, <1>4, <1>5

\* At the start nothing has been edited.
LEMMA CommandInit == Init => CommandInv
<1> SUFFICES ASSUME Init PROVE CommandInv
  OBVIOUS
<1>1. Scenes = {Default}
  BY DEF Init, Scenes, Sent, Guests
<1>2. Cmd(Default) = 0
  BY FeedAssumption DEF Default, Cmd
<1>3. Timeline
  BY <1>1 DEF Timeline
<1>4. Fresh
  BY <1>1, <1>2 DEF Fresh, Init, Pending, Guests
<1>5. \A m \in Guests : Once(m) /\ LastRan(m) /\ Over(m)
  BY <1>2 DEF Once, LastRan, Over, Init, Guests
<1> QED BY <1>3, <1>4, <1>5 DEF CommandInv, RanOnce

\* The invariant is inductive, relative to the invariants of the types and of the order
\* of the scenes.
LEMMA CommandNext == TypeInv /\ OrderInv /\ CommandInv /\ [Next]_vars => CommandInv'
<1> SUFFICES ASSUME TypeInv, OrderInv, CommandInv, [Next]_vars PROVE CommandInv'
  OBVIOUS
<1>1. CASE UNCHANGED vars
  <2>1. /\ scene' = scene /\ call' = call /\ wire' = wire /\ screen' = screen
        /\ last' = last /\ edits' = edits /\ ran' = ran /\ behind' = behind
    BY <1>1 DEF vars
  <2>2. Scenes' = Scenes /\ Pending' = Pending
    BY <2>1 DEF Scenes, Sent, Pending, Guests, Default
  <2>3. Timeline' /\ Fresh'
    BY <2>1, <2>2 DEF CommandInv, Timeline, Fresh, Guests, Cmd
  <2>4. ASSUME NEW m \in Guests PROVE RanOnce(m)'
    <3>1. RanOnce(m) = RanOnce(m)'
      BY <2>1, <2>2 DEF RanOnce, Once, LastRan, Over, Cmd
    <3> QED BY <3>1 DEF CommandInv
  <2> QED BY <2>3, <2>4 DEF CommandInv, Guests
<1>2. CASE Next
  <2>1. Timeline' /\ Fresh'
    BY <1>2, TimelineNext, FreshNext DEF CommandInv
  <2>2. \A m \in Guests : RanOnce(m)'
    BY <1>2, RanNext
  <2> QED BY <2>1, <2>2 DEF CommandInv, Guests
<1> QED BY <1>1, <1>2

\* CommandsRunOnce of every instance: however many hosts edit the scene, whatever joins,
\* broadcasts and acknowledgements cross, a guest's page runs no command twice unless an
\* older packet has set it back.
THEOREM CommandsOnce == Spec => []CommandsRunOnce
<1>1. CommandInv => CommandsRunOnce
  BY DEF CommandInv, RanOnce, Once, CommandsRunOnce, Guests
<1> QED BY <1>1, TypeInit, TypeNext, OrderInit, OrderNext,
           CommandInit, CommandNext, PTL DEF Spec
-----------------------------------------------------------------------------
(* The number of spectators that the pages of RoomFeed show is the number  *)
(* there is: a proof for every value of the constants.                     *)

\* A number read since the spectators last changed is the number there is.
Snap(k) == k.at <= changes /\ (k.at = changes => k.n = Counting.n)

Snaps ==
  /\ Snap(Nothing)
  /\ \A c \in DOMAIN call : Snap(call[c].counted)
  /\ \A m \in Members : /\ Snap(count[m])
                        /\ \A i \in 1 .. Len(wire[m]) :
                             wire[m][i].kind # "scene" => Snap(wire[m][i].counted)

\* What CountIsTrueInOrder assumes: nobody has tried twice.
TriedOnce == \A m \in Members : tries[m] <= 1

IsAck(m, i) == i \in 1 .. Len(wire[m]) /\ wire[m][i].kind = "ack"

\* Whoever tries once has one join, which ends with the one acknowledgement, before the page
\* is in and before it can leave.
OneJoin ==
  /\ \A m \in Members : /\ page[m] # "new" => tries[m] >= 1
                        /\ m \in inRoom => page[m] # "new"
  /\ \A c \in DOMAIN call : call[c].op = "join" =>
       /\ call[c].try = 1 /\ page[call[c].m] \notin {"new", "in"}
       /\ \A i : ~IsAck(call[c].m, i)
       /\ \A d \in DOMAIN call : call[d].op = "join" /\ call[d].m = call[c].m => d = c
  /\ \A m \in Members : \A i : IsAck(m, i) =>
       /\ wire[m][i].try = 1 /\ page[m] # "new"
       /\ \A j : IsAck(m, j) => i = j

\* So no row comes back behind a leave, and a spectator's row without a slug is one whose
\* join is about to enter.
Leavers ==
  /\ \A m \in DOMAIN call \intersect Members : page[m] = "closed"
  /\ \A c \in DOMAIN call : call[c].op = "leave" =>
       /\ page[call[c].m] = "closed"
       /\ \A d \in DOMAIN call : call[d].op = "join" => call[d].m # call[c].m
       /\ call[c].pc # "save" => call[c].m \notin rows

Entering ==
  \A m \in (rows \intersect Spectators) \ slugged :
    \E c \in DOMAIN call : call[c].pc = "enter" /\ call[c].m = m

\* A handler that is going to announce the number there is, to everybody in the room.
News(c) ==
  /\ c \in DOMAIN call
  /\ \/ call[c].pc = "count"
     \/ call[c].pc = "tell" /\ call[c].counted.at = changes
     \/ call[c].pc = "enter" /\ call[c].m \in Spectators

\* A join of m that is going to acknowledge with it.
Answer(c, m) ==
  /\ c \in DOMAIN call /\ call[c].m = m
  /\ \/ call[c].pc = "recount"
     \/ call[c].pc = "reply" /\ call[c].counted.at = changes

\* A packet with it that the page will take.
Told(m, i) ==
  /\ i \in 1 .. Len(wire[m]) /\ wire[m][i].kind # "scene" /\ wire[m][i].counted.at = changes
  /\ wire[m][i].kind = "ack" => page[m] = "joining"

Heard(m) ==
  \/ count[m].at = changes \/ <<m, "count">> \in behind
  \/ \E i : Told(m, i)
  \/ \E c : News(c) \/ Answer(c, m)

Listens(m) == m \in inRoom /\ page[m] \in {"joining", "in"}

HeardInv == ~ended => \A m \in Members : Listens(m) => Heard(m)

CountInv == Snaps /\ (TriedOnce => OneJoin /\ Leavers /\ Entering /\ HeardInv)
-----------------------------------------------------------------------------
(* Numbers and when they were read.                                        *)

SnapNext(k) == k.at <= changes' /\ (k.at = changes' => k.n = Counting'.n)

\* The spectators stay as they are, or their changes go up.
LEMMA ChangesMove ==
  ASSUME TypeInv, Next
  PROVE  \/ changes' = changes /\ rows' \intersect Spectators = rows \intersect Spectators
         \/ changes' = changes + 1 /\ \E c \in CallIds : Join(c) \/ Depart(c)
<1>1. ASSUME NEW c \in Calls, NEW m \in Members,
             \/ AskJoin(c, m) \/ Close(c, m)
             \/ \E patch \in Patches : Edit(c, m, patch)
      PROVE  changes' = changes /\ rows' = rows
  BY <1>1 DEF AskJoin, Close, Edit, server
<1>2. ASSUME NEW c \in CallIds, Enter(c) \/ Count(c) \/ Tell(c) \/ Reply(c) \/ Apply(c)
      PROVE  changes' = changes /\ rows' = rows
  BY <1>2 DEF Enter, Count, Tell, Reply, Apply, server
<1>3. ASSUME NEW c \in CallIds, Join(c) \/ Depart(c)
      PROVE  \/ changes' = changes /\ rows' \intersect Spectators = rows \intersect Spectators
             \/ changes' = changes + 1
  BY <1>3 DEF Join, Depart, SetRows
<1>4. (EndRoom \/ \E m \in Members : TimeOut(m) \/ Receive(m)) => changes' = changes /\ rows' = rows
  BY DEF EndRoom, TimeOut, Receive, server
<1> QED BY <1>1, <1>2, <1>3, <1>4 DEF Next, Step

\* A number stays as true as it was, and the number there is is true.
LEMMA SnapKept ==
  ASSUME TypeInv, Next
  PROVE  /\ \A k : k.at \in Nat /\ Snap(k) => SnapNext(k)
         /\ changes' = changes => SnapNext(Counting)
<1>1. changes \in Nat
  BY DEF TypeInv, TypeOK
<1>2. CASE changes' = changes /\ rows' \intersect Spectators = rows \intersect Spectators
  <2>1. Counting' = Counting /\ Counting.at = changes
    BY <1>2 DEF Counting
  <2> QED BY <1>1, <1>2, <2>1 DEF Snap, SnapNext
<1>3. CASE changes' = changes + 1
  BY <1>1, <1>3 DEF Snap, SnapNext
<1> QED BY <1>2, <1>3, ChangesMove

\* Where the numbers of the handlers come from.
LEMMA NextCounted ==
  ASSUME TypeInv, Next, NEW d \in DOMAIN call'
  PROVE  \/ call'[d].counted = Nothing
         \/ d \in DOMAIN call /\ call'[d].counted = call[d].counted
         \/ call'[d].counted = Counting /\ changes' = changes
<1>1. ASSUME NEW c \in Calls, NEW m \in Members,
             \/ AskJoin(c, m) \/ Close(c, m)
             \/ \E patch \in Patches : Edit(c, m, patch)
      PROVE  call'[d].counted = Nothing \/ (d \in DOMAIN call /\ call'[d] = call[d])
  <2>1. CASE AskJoin(c, m)
    BY <2>1 DEF AskJoin, Begin, Begun, Blank
  <2>2. CASE Close(c, m)
    BY <2>2 DEF Close, Begun, Blank
  <2>3. ASSUME NEW patch \in Patches, Edit(c, m, patch)
        PROVE  call'[d].counted = Nothing \/ (d \in DOMAIN call /\ call'[d] = call[d])
    <3>1. Begin(c, [Blank("update", m, "apply") EXCEPT !.edit = edits', !.patch = patch])
      BY <2>3 DEF Edit
    <3> QED BY <3>1 DEF Begin, Begun, Blank
  <2> QED BY <1>1, <2>1, <2>2, <2>3
<1>2. ASSUME NEW c \in CallIds, Step(c), d # c
      PROVE  d \in DOMAIN call /\ call'[d] = call[d]
  BY <1>2, StepShape
<1>3. ASSUME NEW c \in CallIds, Step(c), d = c
      PROVE  \/ call'[d].counted = call[d].counted
             \/ call'[d].counted = Counting /\ changes' = changes
  <2>1. c \in DOMAIN call /\ call[c] \in Call
    BY <1>3, StepShape DEF TypeInv, CallsOK
  <2>2. CASE End(c)
    BY <1>3, <2>2 DEF End
  <2>3. ASSUME NEW stage, Goto(c, stage) PROVE call'[d].counted = call[d].counted
    BY <1>3, <2>1, <2>3 DEF Goto, Call
  <2>4. CASE call' = [call EXCEPT ![c].scene = scene, ![c].pc = "recount"]
    BY <1>3, <2>1, <2>4 DEF Call
  <2>5. CASE Count(c)
    BY <1>3, <2>1, <2>2, <2>5 DEF Count, server, Call
  <2> QED BY <1>3, <2>2, <2>3, <2>4, <2>5 DEF Step, Join, Enter, Depart, Tell, Reply, Apply
<1>4. EndRoom \/ (\E m \in Members : TimeOut(m) \/ Receive(m)) => call' = call
  BY DEF EndRoom, TimeOut, Receive
<1> QED BY <1>1, <1>2, <1>3, <1>4, StepShape DEF Next

\* What a step does to the queue of m: it is emptied, its head is received, or one packet,
\* with the number of a handler, is added.
QueueMoves(m) ==
  \/ wire'[m] = wire[m] \/ wire'[m] = <<>>
  \/ wire[m] # <<>> /\ wire'[m] = Tail(wire[m]) /\ Receive(m)
  \/ \E p \in Packet :
       /\ wire'[m] = Append(wire[m], p)
       /\ p.kind # "scene" => \E c \in DOMAIN call : p.counted = call[c].counted
       /\ p.kind = "ack" => \E c \in DOMAIN call :
            call[c].m = m /\ p.try = call[c].try /\ Reply(c)

LEMMA NextQueue ==
  ASSUME TypeInv, Next, NEW m \in Members
  PROVE  QueueMoves(m)
<1>1. ASSUME NEW c \in Calls, NEW n \in Members,
             \/ AskJoin(c, n) \/ Close(c, n)
             \/ \E patch \in Patches : Edit(c, n, patch)
      PROVE  wire'[m] = wire[m] \/ wire'[m] = <<>>
  BY <1>1 DEF AskJoin, Close, Edit, TypeInv, TypeOK
<1>2. ASSUME NEW c \in CallIds, Step(c) PROVE QueueMoves(m)
  <2>1. c \in DOMAIN call
    BY <1>2, StepShape
  <2>2. CASE Join(c) \/ Enter(c) \/ Depart(c) \/ Count(c)
    BY <2>2 DEF Join, Enter, Depart, Count, QueueMoves
  <2>3. CASE Tell(c)
    <3> DEFINE p == [kind |-> "count", counted |-> call[c].counted]
    <3>1. p \in Packet /\ p.kind = "count" /\ p.counted = call[c].counted
      BY <2>1, CallFields DEF Packet
    <3>2. wire'[m] \in {wire[m], Append(wire[m], p)}
      BY <2>3 DEF Tell, Broadcast
    <3> HIDE DEF p
    <3> QED BY <2>1, <3>1, <3>2 DEF QueueMoves
  <2>4. CASE Reply(c)
    <3> DEFINE p == [kind |-> "ack", try |-> call[c].try, scene |-> call[c].scene,
                     counted |-> call[c].counted]
    <3>1. p \in Packet /\ p.counted = call[c].counted /\ p.try = call[c].try
      BY <2>1, CallFields DEF Packet
    <3>2. wire'[m] = wire[m] \/ (wire'[m] = Append(wire[m], p) /\ call[c].m = m)
      BY <2>4 DEF Reply, TypeInv, TypeOK
    <3> HIDE DEF p
    <3> QED BY <2>1, <2>4, <3>1, <3>2 DEF QueueMoves
  <2>5. CASE Apply(c)
    <3> DEFINE p == [kind |-> "scene", scene |-> scene']
    <3>1. scene' \in Scene
      <4>1. scene \in Scene /\ call[c] \in Call
        BY <2>1 DEF TypeInv, TypeOK, CallsOK
      <4> QED BY <2>5, <4>1, PatchedType DEF Apply
    <3>2. p \in Packet /\ p.kind = "scene"
      BY <3>1 DEF Packet
    <3>3. wire'[m] \in {wire[m], Append(wire[m], p)}
      BY <2>5 DEF Apply, Broadcast
    <3> HIDE DEF p
    <3> QED BY <3>2, <3>3 DEF QueueMoves
  <2> QED BY <1>2, <2>2, <2>3, <2>4, <2>5 DEF Step
<1>3. ASSUME NEW n \in Members, TimeOut(n) \/ Receive(n)
      PROVE  QueueMoves(m)
  BY <1>3 DEF TimeOut, Receive, TypeInv, TypeOK, QueueMoves
<1>4. EndRoom => wire' = wire
  BY DEF EndRoom
<1> QED BY <1>1, <1>2, <1>3, <1>4 DEF Next, QueueMoves

\* Every number in the system, in handlers, on the way and on the pages, stays true.
LEMMA SnapsNext ==
  ASSUME TypeInv, Snaps, Next
  PROVE  Snaps'
<1>1. Nothing.at \in Nat /\ Snap(Nothing)
  BY DEF Nothing, Snaps
<1>2. \A c \in DOMAIN call : call[c].counted.at \in Nat /\ Snap(call[c].counted)
  BY CallFields DEF Counted, Snaps
<1>3. ASSUME NEW m \in Members, NEW i \in 1 .. Len(wire[m]), wire[m][i].kind # "scene"
      PROVE  wire[m][i].counted.at \in Nat /\ Snap(wire[m][i].counted)
  <2>1. wire[m][i] \in Packet
    BY DEF TypeInv, TypeOK
  <2> QED BY <1>3, <2>1, PacketFields DEF Counted, Snaps
<1>4. SnapNext(Nothing)
  BY <1>1, SnapKept
<1>5. ASSUME NEW d \in DOMAIN call' PROVE SnapNext(call'[d].counted)
  BY <1>2, <1>4, SnapKept, NextCounted
<1>6. ASSUME NEW m \in Members, NEW i \in 1 .. Len(wire'[m]), wire'[m][i].kind # "scene"
      PROVE  SnapNext(wire'[m][i].counted)
  <2>1. wire[m] \in Seq(Packet)
    BY DEF TypeInv, TypeOK
  <2>2. ASSUME NEW p \in Packet, wire'[m] = Append(wire[m], p),
               p.kind # "scene" => \E c \in DOMAIN call : p.counted = call[c].counted
        PROVE  SnapNext(wire'[m][i].counted)
    <3>1. (i \in 1 .. Len(wire[m]) /\ wire'[m][i] = wire[m][i]) \/ wire'[m][i] = p
      BY <2>1, <2>2, AppendFacts
    <3> QED BY <1>2, <1>3, <1>6, <2>2, <3>1, SnapKept
  <2>3. CASE wire[m] # <<>> /\ wire'[m] = Tail(wire[m])
    <3>1. i + 1 \in 1 .. Len(wire[m]) /\ wire'[m][i] = wire[m][i + 1]
      BY <2>1, <2>3, TailFacts
    <3> QED BY <1>3, <1>6, <3>1, SnapKept
  <2>4. CASE wire'[m] = wire[m]
    BY <1>3, <1>6, <2>4, SnapKept
  <2>5. wire'[m] # <<>>
    OBVIOUS
  <2> QED BY <2>2, <2>3, <2>4, <2>5, NextQueue DEF QueueMoves
<1>7. ASSUME NEW m \in Members PROVE SnapNext(count'[m])
  <2>1. count[m].at \in Nat /\ Snap(count[m])
    BY DEF TypeInv, TypeOK, Counted, Snaps
  <2>2. \/ count'[m] = count[m]
        \/ /\ Receive(m) /\ count'[m] = Head(wire[m]).counted
           /\ Head(wire[m]).kind # "scene"
    <3>1. ASSUME NEW n \in Members, Receive(n)
          PROVE  \/ count'[m] = count[m]
                 \/ /\ n = m /\ count'[m] = Head(wire[m]).counted
                    /\ Head(wire[m]).kind # "scene"
      BY <3>1 DEF Receive, TypeInv, TypeOK
    <3>2. ASSUME NEW c \in CallIds, Step(c) PROVE count' = count
      BY <3>2 DEF Step, Join, Enter, Depart, Count, Tell, Reply, Apply, client
    <3>3. ASSUME NEW c \in Calls, NEW n \in Members,
                 \/ AskJoin(c, n) \/ Close(c, n)
                 \/ \E patch \in Patches : Edit(c, n, patch)
          PROVE  count' = count
      BY <3>3 DEF AskJoin, Close, Edit
    <3>4. EndRoom \/ (\E n \in Members : TimeOut(n)) => count' = count
      BY DEF EndRoom, TimeOut, client
    <3> QED BY <3>1, <3>2, <3>3, <3>4 DEF Next
  <2>3. wire[m] \in Seq(Packet)
    BY DEF TypeInv, TypeOK
  <2>4. Receive(m) => Head(wire[m]) = wire[m][1] /\ 1 \in 1 .. Len(wire[m])
    BY <2>3, TailFacts DEF Receive
  <2> QED BY <1>3, <2>1, <2>2, <2>4, SnapKept
<1> QED BY <1>4, <1>5, <1>6, <1>7 DEF Snaps, SnapNext, Snap
-----------------------------------------------------------------------------
(* One join each.                                                          *)

\* The acknowledgements on the way to m stay where they are, or move up by one, or one of
\* m's joins adds its own.
LEMMA NextAcks ==
  ASSUME TypeInv, Next, NEW m \in Members
  PROVE  \/ \E s \in {0, 1} : \A i : IsAck(m, i)' =>
              i \in Nat /\ IsAck(m, i + s) /\ wire'[m][i] = wire[m][i + s]
         \/ \E c \in DOMAIN call :
              /\ Reply(c) /\ call[c].m = m
              /\ \A i : IsAck(m, i)' =>
                   \/ IsAck(m, i) /\ wire'[m][i] = wire[m][i]
                   \/ i = Len(wire[m]) + 1 /\ wire'[m][i].try = call[c].try
<1>1. wire[m] \in Seq(Packet) /\ wire'[m] \in Seq(Packet)
  BY TypeNext DEF TypeInv, TypeOK
<1>2. CASE wire'[m] = wire[m] \/ wire'[m] = <<>>
  <2>1. \A i : IsAck(m, i)' => i \in Nat /\ IsAck(m, i + 0) /\ wire'[m][i] = wire[m][i + 0]
    BY <1>1, <1>2 DEF IsAck
  <2> QED BY <2>1
<1>3. CASE wire[m] # <<>> /\ wire'[m] = Tail(wire[m])
  <2>1. \A i : IsAck(m, i)' => i \in Nat /\ IsAck(m, i + 1) /\ wire'[m][i] = wire[m][i + 1]
    BY <1>1, <1>3, TailFacts DEF IsAck
  <2> QED BY <2>1
<1>4. ASSUME NEW p \in Packet, wire'[m] = Append(wire[m], p), p.kind # "ack"
      PROVE  \A i : IsAck(m, i)' => i \in Nat /\ IsAck(m, i + 0) /\ wire'[m][i] = wire[m][i + 0]
  BY <1>1, <1>4, AppendFacts DEF IsAck
<1>5. ASSUME NEW p \in Packet, wire'[m] = Append(wire[m], p),
             NEW c \in DOMAIN call, call[c].m = m, p.try = call[c].try, Reply(c)
      PROVE  \A i : IsAck(m, i)' => \/ IsAck(m, i) /\ wire'[m][i] = wire[m][i]
                                    \/ i = Len(wire[m]) + 1 /\ wire'[m][i].try = call[c].try
  BY <1>1, <1>5, AppendFacts DEF IsAck
<1> QED BY <1>2, <1>3, <1>4, <1>5, NextQueue DEF QueueMoves

\* The joins after a step: they are those there were, or that of a page that is new.
LEMMA NextJoins ==
  ASSUME TypeInv, Slots, OneJoin, TriedOnce', Next, NEW d \in DOMAIN call', call'[d].op = "join"
  PROVE  \/ /\ d \in DOMAIN call /\ call[d].op = "join"
            /\ call'[d].m = call[d].m /\ call'[d].try = call[d].try
         \/ /\ d \notin DOMAIN call /\ call'[d].try = 1 /\ call'[d].m \in Members
            /\ AskJoin(d, call'[d].m) /\ page[call'[d].m] = "new"
<1>1. ASSUME NEW c \in Calls, NEW m \in Members, AskJoin(c, m)
      PROVE  \/ d \in DOMAIN call /\ call'[d] = call[d]
             \/ /\ d = c /\ d \notin DOMAIN call /\ call'[d].try = 1 /\ call'[d].m = m
                /\ page[m] = "new"
  <2>1. Begin(c, [Blank("join", m, "save") EXCEPT !.try = tries[m] + 1])
        /\ tries'[m] = tries[m] + 1 /\ tries[m] \in Nat /\ c \notin DOMAIN call
    BY <1>1 DEF AskJoin, Free, TypeInv, TypeOK
  <2>2. tries[m] = 0 /\ page[m] = "new"
    BY <2>1 DEF TriedOnce, OneJoin
  <2> QED BY <2>1, <2>2 DEF Begin, Begun, Blank
<1>2. ASSUME NEW c \in Calls, NEW m \in Members, Close(c, m)
      PROVE  d \in DOMAIN call /\ call'[d] = call[d]
  BY <1>2 DEF Close, Begun, Blank
<1>3. ASSUME NEW c \in Calls, NEW m \in Members, NEW patch \in Patches, Edit(c, m, patch)
      PROVE  d \in DOMAIN call /\ call'[d] = call[d]
  <2>1. Begin(c, [Blank("update", m, "apply") EXCEPT !.edit = edits', !.patch = patch])
    BY <1>3 DEF Edit
  <2> QED BY <2>1 DEF Begin, Begun, Blank
<1>4. ASSUME NEW c \in CallIds, Step(c)
      PROVE  /\ d \in DOMAIN call /\ call[d].op = "join"
             /\ call'[d].m = call[d].m /\ call'[d].try = call[d].try
  <2>1. /\ d \in DOMAIN call /\ call'[d].m = call[d].m /\ call'[d].op = call[d].op
        /\ d # c => call'[d] = call[d]
    BY <1>4, StepShape
  <2>2. call[d] \in Call
    BY <2>1 DEF TypeInv, CallsOK
  <2>3. CASE End(c) \/ \E stage : Goto(c, stage)
    BY <2>1, <2>2, <2>3 DEF End, Goto, Call
  <2>4. CASE call' = [call EXCEPT ![c].scene = scene, ![c].pc = "recount"]
    BY <2>1, <2>2, <2>4 DEF Call
  <2>5. CASE call' = [call EXCEPT ![c].counted = Counting,
                                  ![c].pc = IF @ = "count" THEN "tell" ELSE "reply"]
    BY <2>1, <2>2, <2>5 DEF Call
  <2>6. \/ End(c) \/ \E stage : Goto(c, stage)
        \/ call' = [call EXCEPT ![c].scene = scene, ![c].pc = "recount"]
        \/ call' = [call EXCEPT ![c].counted = Counting,
                                ![c].pc = IF @ = "count" THEN "tell" ELSE "reply"]
    BY <1>4 DEF Step, Join, Enter, Depart, Count, Tell, Reply, Apply
  <2> QED BY <2>1, <2>3, <2>4, <2>5, <2>6
<1>5. EndRoom \/ (\E m \in Members : TimeOut(m) \/ Receive(m)) => call' = call
  BY DEF EndRoom, TimeOut, Receive
<1> QED BY <1>1, <1>2, <1>3, <1>4, <1>5 DEF Next

\* A page moves on to "in" with an acknowledgement, and is new only before its first join.
LEMMA NextPage ==
  ASSUME TypeInv, Next, NEW m \in Members
  PROVE  /\ page'[m] = "new" => page[m] = "new" /\ tries'[m] = tries[m]
         /\ page[m] = "new" /\ page'[m] # "new" => tries'[m] >= 1
         /\ tries'[m] >= tries[m]
         /\ page'[m] = "in" =>
              page[m] = "in" \/ (page[m] = "joining" /\ IsAck(m, 1) /\ Receive(m))
         /\ page[m] = "closed" => page'[m] = "closed"
         /\ m \in inRoom' => m \in inRoom \/ Open(m)
         /\ tries[m] \in Nat
         /\ page'[m] = "joining" => page[m] = "joining" \/ \E c \in Calls : AskJoin(c, m)
<1>1. tries[m] \in Nat /\ page[m] \in {"new", "joining", "failed", "in", "closed"}
      /\ page \in [Members -> {"new", "joining", "failed", "in", "closed"}]
      /\ tries \in [Members -> 0 .. MaxTries] /\ wire[m] \in Seq(Packet)
  BY DEF TypeInv, TypeOK
<1>2. ASSUME NEW c \in Calls, NEW n \in Members, AskJoin(c, n)
      PROVE  /\ inRoom' = inRoom
             /\ n # m => page'[m] = page[m] /\ tries'[m] = tries[m]
             /\ n = m => /\ page[m] \in {"new", "failed"} /\ page'[m] = "joining"
                         /\ tries'[m] = tries[m] + 1
  BY <1>1, <1>2 DEF AskJoin, server
<1>3. ASSUME NEW c \in Calls, NEW n \in Members, Close(c, n)
      PROVE  /\ inRoom' = inRoom \ {n} /\ tries' = tries
             /\ n # m => page'[m] = page[m]
             /\ n = m => page[m] \notin {"new", "closed"} /\ page'[m] = "closed"
  BY <1>1, <1>3 DEF Close, Open
<1>4. ASSUME NEW c \in Calls, NEW n \in Members, NEW patch \in Patches, Edit(c, n, patch)
      PROVE  inRoom' = inRoom /\ tries' = tries /\ page' = page
  BY <1>4 DEF Edit, server
<1>5. ASSUME NEW c \in CallIds, Step(c)
      PROVE  /\ tries' = tries /\ page' = page
             /\ m \in inRoom' => m \in inRoom \/ Open(m)
  BY <1>5 DEF Step, Join, Enter, Depart, Count, Tell, Reply, Apply, client, server
<1>6. ASSUME NEW n \in Members, TimeOut(n)
      PROVE  /\ inRoom' = inRoom /\ tries' = tries
             /\ n # m => page'[m] = page[m]
             /\ n = m => page[m] = "joining" /\ page'[m] = "failed"
  BY <1>1, <1>6 DEF TimeOut, server
<1>7. ASSUME NEW n \in Members, Receive(n)
      PROVE  /\ inRoom' = inRoom /\ tries' = tries
             /\ page'[m] = page[m] \/ (page[m] = "joining" /\ page'[m] = "in" /\ IsAck(m, 1)
                                        /\ Receive(m))
  BY <1>1, <1>7, TailFacts DEF Receive, server, IsAck
<1>8. EndRoom => inRoom' = inRoom /\ tries' = tries /\ page' = page
  BY DEF EndRoom, client
<1> QED BY <1>1, <1>2, <1>3, <1>4, <1>5, <1>6, <1>7, <1>8 DEF Next

LEMMA OneJoinNext ==
  ASSUME TypeInv, Slots, OneJoin, TriedOnce', Next
  PROVE  OneJoin'
<1>1. ASSUME NEW m \in Members
      PROVE  (page'[m] # "new" => tries'[m] >= 1) /\ (m \in inRoom' => page'[m] # "new")
  <2>1. tries[m] \in Nat /\ tries'[m] \in Nat
    BY TypeNext DEF TypeInv, TypeOK
  <2> QED BY <2>1, NextPage DEF OneJoin, Open
<1>2. ASSUME NEW c \in DOMAIN call', call'[c].op = "join",
             NEW m \in Members, m = call'[c].m
      PROVE  /\ call'[c].try = 1 /\ page'[m] \notin {"new", "in"}
             /\ \A i : ~IsAck(m, i)'
             /\ \A d \in DOMAIN call' : call'[d].op = "join" /\ call'[d].m = m => d = c
  <2>1. CASE /\ c \in DOMAIN call /\ call[c].op = "join"
             /\ m = call[c].m /\ call'[c].try = call[c].try
    <3>1. /\ call[c].try = 1 /\ page[m] \notin {"new", "in"} /\ \A i : ~IsAck(m, i)
          /\ \A d \in DOMAIN call : call[d].op = "join" /\ call[d].m = m => d = c
      BY <2>1 DEF OneJoin
    <3>2. page'[m] \notin {"new", "in"}
      BY <3>1, NextPage
    <3>3. ASSUME NEW i, IsAck(m, i)' PROVE FALSE
      <4>1. PICK e \in DOMAIN call : Reply(e) /\ call[e].m = m
        BY <3>1, <3>3, NextAcks
      <4>2. call[e].op = "join"
        BY <4>1 DEF Reply, At, TypeInv, CallsOK, ShapeOf
      <4>3. e = c
        BY <3>1, <4>1, <4>2
      <4> QED BY <4>1, <4>3 DEF Reply, End
    <3>4. ASSUME NEW d \in DOMAIN call', call'[d].op = "join", call'[d].m = m PROVE d = c
      BY <3>1, <3>4, NextJoins
    <3> QED BY <2>1, <3>1, <3>2, <3>3, <3>4
  <2>2. CASE /\ c \notin DOMAIN call /\ call'[c].try = 1 /\ AskJoin(c, m) /\ page[m] = "new"
    <3>1. /\ \A i : ~IsAck(m, i)
          /\ \A d \in DOMAIN call : call[d].op = "join" => call[d].m # m
      BY <2>2 DEF OneJoin
    <3>2. page'[m] = "joining" /\ wire' = wire
      BY <2>2 DEF AskJoin, TypeInv, TypeOK
    <3>3. \A i : ~IsAck(m, i)'
      BY <3>1, <3>2 DEF IsAck
    <3>4. ASSUME NEW d \in DOMAIN call', call'[d].op = "join", call'[d].m = m PROVE d = c
      <4>1. d \notin DOMAIN call
        BY <3>1, <3>4, NextJoins
      <4>2. d \in DOMAIN call \/ d = c
        BY <2>2 DEF AskJoin, Begin, Begun
      <4> QED BY <4>1, <4>2
    <3> QED BY <2>2, <3>2, <3>3, <3>4
  <2> QED BY <1>2, <2>1, <2>2, NextJoins
<1>3. ASSUME NEW m \in Members, NEW i, IsAck(m, i)'
      PROVE  /\ wire'[m][i].try = 1 /\ page'[m] # "new"
             /\ \A j : IsAck(m, j)' => i = j
  <2>1. ASSUME NEW s \in {0, 1},
               \A k : IsAck(m, k)' => k \in Nat /\ IsAck(m, k + s) /\ wire'[m][k] = wire[m][k + s]
        PROVE  /\ wire'[m][i].try = 1 /\ page'[m] # "new"
               /\ \A j : IsAck(m, j)' => i = j
    <3>1. i \in Nat /\ IsAck(m, i + s) /\ wire'[m][i] = wire[m][i + s]
      BY <1>3, <2>1
    <3>2. /\ wire[m][i + s].try = 1 /\ page[m] # "new"
          /\ \A j : IsAck(m, j) => i + s = j
      BY <3>1 DEF OneJoin
    <3>3. ASSUME NEW j, IsAck(m, j)' PROVE i = j
      <4>1. j \in Nat /\ IsAck(m, j + s)
        BY <2>1, <3>3
      <4>2. i + s = j + s /\ s \in Nat
        BY <3>2, <4>1
      <4>3. i \in Nat
        BY <3>1
      <4> QED BY <4>1, <4>2, <4>3
    <3> QED BY <3>1, <3>2, <3>3, NextPage
  <2>2. ASSUME NEW c \in DOMAIN call, Reply(c), call[c].m = m,
               \A k : IsAck(m, k)' => \/ IsAck(m, k) /\ wire'[m][k] = wire[m][k]
                                      \/ k = Len(wire[m]) + 1 /\ wire'[m][k].try = call[c].try
        PROVE  /\ wire'[m][i].try = 1 /\ page'[m] # "new"
               /\ \A j : IsAck(m, j)' => i = j
    <3>1. call[c].op = "join"
      BY <2>2 DEF Reply, At, TypeInv, CallsOK, ShapeOf
    <3>2. call[c].try = 1 /\ page[m] # "new" /\ \A k : ~IsAck(m, k)
      BY <2>2, <3>1 DEF OneJoin
    <3> QED BY <1>3, <2>2, <3>2, NextPage
  <2> QED BY <2>1, <2>2, NextAcks
<1>4. \A c \in DOMAIN call' : call'[c].m \in Members
  BY TypeNext DEF TypeInv, CallsOK, Call
<1> QED BY <1>1, <1>2, <1>3, <1>4 DEF OneJoin, IsAck

\* A leave begins when its page closes, and comes of a page that was in the room.
LEMMA NextLeaves ==
  ASSUME TypeInv, Slots, Next, NEW d \in DOMAIN call', d \notin Members => call'[d].op = "leave"
  PROVE  \/ /\ d \in DOMAIN call /\ call'[d].m = call[d].m /\ call'[d].op = call[d].op
            /\ call'[d].pc = call[d].pc \/ Depart(d) \/ call[d].pc # "save"
         \/ /\ call'[d].pc = "save" /\ (d \in Members => call'[d].m = d)
            /\ \E n \in Members, c \in Calls :
                 /\ Close(c, n) /\ call'[d].m = n /\ page'[n] = "closed"
                 /\ call'[d].op = "leave" => page[n] = "in"
<1>1. ASSUME NEW c \in Calls, NEW m \in Members, AskJoin(c, m)
      PROVE  d \in DOMAIN call /\ call'[d] = call[d]
  BY <1>1, FeedAssumption DEF AskJoin, Begin, Begun, Blank
<1>2. ASSUME NEW c \in Calls, NEW n \in Members, Close(c, n)
      PROVE  \/ d \in DOMAIN call /\ call'[d] = call[d]
             \/ /\ call'[d].pc = "save" /\ call'[d].m = n /\ page'[n] = "closed"
                /\ call'[d].op = "leave" => page[n] = "in"
                /\ d \in Members => d = n
  BY <1>2, FeedAssumption DEF Close, Begun, Blank, TypeInv, TypeOK
<1>3. ASSUME NEW c \in Calls, NEW m \in Members, NEW patch \in Patches, Edit(c, m, patch)
      PROVE  d \in DOMAIN call /\ call'[d] = call[d]
  <2>1. Begin(c, [Blank("update", m, "apply") EXCEPT !.edit = edits', !.patch = patch])
    BY <1>3 DEF Edit
  <2> QED BY <1>3, <2>1, FeedAssumption DEF Begin, Begun, Blank
<1>4. ASSUME NEW c \in CallIds, Step(c)
      PROVE  /\ d \in DOMAIN call /\ call'[d].m = call[d].m /\ call'[d].op = call[d].op
             /\ call'[d].pc = call[d].pc \/ Depart(d) \/ call[d].pc # "save"
  <2>1. /\ d \in DOMAIN call /\ call'[d].m = call[d].m /\ call'[d].op = call[d].op
        /\ d # c => call'[d] = call[d]
    BY <1>4, StepShape
  <2>2. d \in Members => call[d].op = "drop"
    BY <2>1 DEF Slots
  <2>3. call[d].op \in {"leave", "drop"}
    BY <2>1, <2>2
  <2>4. d = c => Depart(d) \/ call[d].pc # "save"
    BY <1>4, <2>1, <2>3 DEF Step, Join, Enter, Count, Tell, Reply, Apply, At
  <2> QED BY <2>1, <2>4
<1>5. EndRoom \/ (\E m \in Members : TimeOut(m) \/ Receive(m)) => call' = call
  BY DEF EndRoom, TimeOut, Receive
<1> QED BY <1>1, <1>2, <1>3, <1>4, <1>5 DEF Next

\* Rows are added by the joins and removed by those who leave.
LEMMA NextRows ==
  ASSUME TypeInv, Next
  PROVE  \/ rows' = rows
         \/ \E c \in DOMAIN call : /\ Join(c) /\ call[c].op = "join"
                                   /\ rows' = rows \union {call[c].m}
         \/ \E c \in DOMAIN call : Depart(c) /\ rows' = rows \ {call[c].m}
<1>1. ASSUME NEW c \in Calls, NEW m \in Members,
             \/ AskJoin(c, m) \/ Close(c, m)
             \/ \E patch \in Patches : Edit(c, m, patch)
      PROVE  rows' = rows
  BY <1>1 DEF AskJoin, Close, Edit, server
<1>2. ASSUME NEW c \in CallIds, Enter(c) \/ Count(c) \/ Tell(c) \/ Reply(c) \/ Apply(c)
      PROVE  rows' = rows
  BY <1>2 DEF Enter, Count, Tell, Reply, Apply, server
<1>3. ASSUME NEW c \in CallIds, Join(c)
      PROVE  c \in DOMAIN call /\ (rows' = rows \/ (call[c].op = "join" /\ rows' = rows \union {call[c].m}))
  BY <1>3 DEF Join, At, SetRows
<1>4. ASSUME NEW c \in CallIds, Depart(c)
      PROVE  c \in DOMAIN call /\ rows' = rows \ {call[c].m}
  BY <1>4 DEF Depart, At, SetRows
<1>5. (EndRoom \/ \E m \in Members : TimeOut(m) \/ Receive(m)) => rows' = rows
  BY DEF EndRoom, TimeOut, Receive, server
<1> QED BY <1>1, <1>2, <1>3, <1>4, <1>5 DEF Next, Step

LEMMA LeaversNext ==
  ASSUME TypeInv, Slots, OneJoin, Leavers, TriedOnce', Next
  PROVE  Leavers'
<1>1. \A c \in DOMAIN call' : call'[c].m \in Members
  BY TypeNext DEF TypeInv, CallsOK, Call
<1>2. ASSUME NEW m \in DOMAIN call' \intersect Members PROVE page'[m] = "closed"
  BY <1>2, NextLeaves, NextPage DEF Leavers
<1>3. ASSUME NEW c \in DOMAIN call', call'[c].op = "leave", NEW m \in Members, m = call'[c].m
      PROVE  /\ page'[m] = "closed"
             /\ \A d \in DOMAIN call' : call'[d].op = "join" => call'[d].m # m
             /\ call'[c].pc # "save" => m \notin rows'
  <2>1. CASE /\ c \in DOMAIN call /\ m = call[c].m /\ call[c].op = "leave"
             /\ call'[c].pc = call[c].pc \/ Depart(c) \/ call[c].pc # "save"
    <3>1. /\ page[m] = "closed"
          /\ \A d \in DOMAIN call : call[d].op = "join" => call[d].m # m
          /\ call[c].pc # "save" => m \notin rows
      BY <2>1 DEF Leavers
    <3>2. page'[m] = "closed"
      BY <3>1, NextPage
    <3>3. ASSUME NEW d \in DOMAIN call', call'[d].op = "join", call'[d].m = m PROVE FALSE
      BY <3>1, <3>3, NextJoins
    <3>4. ASSUME call'[c].pc # "save", m \in rows' PROVE FALSE
      <4>1. CASE Depart(c)
        BY <2>1, <3>4, <4>1 DEF Depart, SetRows
      <4>2. CASE m \notin rows
        BY <3>1, <3>4, <4>2, NextRows
      <4> QED BY <2>1, <3>1, <3>4, <4>1, <4>2
    <3> QED BY <3>2, <3>3, <3>4
  <2>2. CASE call'[c].pc = "save" /\ page'[m] = "closed" /\ page[m] = "in"
    <3>1. \A d \in DOMAIN call : call[d].op = "join" => call[d].m # m
      BY <2>2 DEF OneJoin
    <3>2. ASSUME NEW d \in DOMAIN call', call'[d].op = "join", call'[d].m = m PROVE FALSE
      BY <2>2, <3>1, <3>2, NextJoins
    <3> QED BY <2>2, <3>2
  <2> QED BY <1>3, <2>1, <2>2, NextLeaves
<1> QED BY <1>1, <1>2, <1>3 DEF Leavers

\* A handler that is about to enter waits until it does.
LEMMA EnteringStays ==
  ASSUME TypeInv, Slots, Next, NEW c \in DOMAIN call, call[c].pc = "enter", ~Enter(c)
  PROVE  c \in DOMAIN call' /\ call'[c] = call[c]
<1>1. call[c].op = "join" /\ c \notin Members
  BY DEF TypeInv, CallsOK, ShapeOf, Slots
<1>2. ASSUME NEW d \in Calls, NEW m \in Members,
             \/ AskJoin(d, m) \/ Close(d, m)
             \/ \E patch \in Patches : Edit(d, m, patch)
      PROVE  c \in DOMAIN call' /\ call'[c] = call[c]
  BY <1>1, <1>2, RequestShape
<1>3. ASSUME NEW d \in CallIds, Step(d) PROVE c \in DOMAIN call' /\ call'[c] = call[c]
  <2>1. c # d
    BY <1>1, <1>3 DEF Step, Join, Depart, Count, Tell, Reply, Apply, At
  <2> QED BY <1>3, <2>1, StepShape
<1>4. EndRoom \/ (\E m \in Members : TimeOut(m) \/ Receive(m)) => call' = call
  BY DEF EndRoom, TimeOut, Receive
<1> QED BY <1>2, <1>3, <1>4 DEF Next

\* Slugs are set by the joins that enter and cleared by those who leave, who have no row.
LEMMA NextSlugged ==
  ASSUME TypeInv, Leavers, Next
  PROVE  \A m \in slugged : m \in slugged' \/ m \notin rows'
<1>1. ASSUME NEW c \in Calls, NEW m \in Members,
             \/ AskJoin(c, m) \/ Close(c, m)
             \/ \E patch \in Patches : Edit(c, m, patch)
      PROVE  slugged' = slugged
  BY <1>1 DEF AskJoin, Close, Edit, server
<1>2. ASSUME NEW c \in CallIds, Join(c) \/ Count(c) \/ Reply(c) \/ Apply(c)
      PROVE  slugged' = slugged
  BY <1>2 DEF Join, Count, Reply, Apply, server
<1>3. ASSUME NEW c \in CallIds, Enter(c) PROVE slugged \subseteq slugged'
  BY <1>3 DEF Enter
<1>4. ASSUME NEW c \in CallIds, Depart(c) PROVE \A m \in slugged : m \in slugged' \/ m \notin rows'
  BY <1>4 DEF Depart, SetRows
<1>5. ASSUME NEW c \in CallIds, Tell(c) PROVE \A m \in slugged : m \in slugged' \/ m \notin rows'
  BY <1>5 DEF Tell, At, Leavers
<1>6. (EndRoom \/ \E m \in Members : TimeOut(m) \/ Receive(m)) => slugged' = slugged
  BY DEF EndRoom, TimeOut, Receive, server
<1> QED BY <1>1, <1>2, <1>3, <1>4, <1>5, <1>6 DEF Next, Step

LEMMA EnteringNext ==
  ASSUME TypeInv, Slots, Leavers, Entering, Next
  PROVE  Entering'
<1> SUFFICES ASSUME NEW m \in (rows' \intersect Spectators) \ slugged'
             PROVE  \E c \in DOMAIN call' : call'[c].pc = "enter" /\ call'[c].m = m
  BY DEF Entering
<1>1. CASE m \in rows
  <2>1. m \notin slugged
    BY NextSlugged
  <2>2. PICK c \in DOMAIN call : call[c].pc = "enter" /\ call[c].m = m
    BY <1>1, <2>1 DEF Entering
  <2>3. ~Enter(c)
    BY <2>2 DEF Enter
  <2> QED BY <2>2, <2>3, EnteringStays
<1>2. CASE m \notin rows
  <2>1. PICK c \in DOMAIN call : Join(c) /\ call[c].m = m
    BY <1>2, NextRows
  <2>2. Goto(c, "enter") /\ call[c] \in Call
    BY <1>2, <2>1 DEF Join, TypeInv, CallsOK
  <2> QED BY <2>1, <2>2 DEF Goto, Call
<1> QED BY <1>1, <1>2
-----------------------------------------------------------------------------
(* The number that is there is on its way to every page.                   *)

\* Whenever the spectators change, a handler is going to announce their number: that of the
\* spectator who comes or goes, or, when a spectator goes before the join has entered, that
\* of the join.
LEMMA ChangeIsNews ==
  ASSUME TypeInv, Slots, Entering, Next, changes' # changes
  PROVE  \E c : News(c)'
<1>1. PICK c \in CallIds : Join(c) \/ Depart(c)
  BY ChangesMove
<1>2. c \in DOMAIN call /\ call[c] \in Call
  BY <1>1 DEF Join, Depart, At, TypeInv, CallsOK
<1>3. CASE Join(c)
  <2>1. call[c].m \in Spectators /\ Goto(c, "enter")
    BY <1>3 DEF Join, SetRows
  <2>2. c \in DOMAIN call' /\ call'[c].pc = "enter" /\ call'[c].m = call[c].m
    BY <1>2, <2>1 DEF Goto, Call
  <2> QED BY <2>1, <2>2 DEF News
<1>4. CASE Depart(c)
  <2>1. call[c].m \in rows \intersect Spectators
    BY <1>4 DEF Depart, SetRows
  <2>2. CASE call[c].m \in slugged
    <3>1. Goto(c, "count")
      BY <1>4, <2>1, <2>2 DEF Depart
    <3>2. c \in DOMAIN call' /\ call'[c].pc = "count"
      BY <1>2, <3>1 DEF Goto, Call
    <3> QED BY <3>2 DEF News
  <2>3. CASE call[c].m \notin slugged
    <3>1. PICK d \in DOMAIN call : call[d].pc = "enter" /\ call[d].m = call[c].m
      BY <2>1, <2>3 DEF Entering
    <3>2. d # c
      BY <1>4, <3>1 DEF Depart, At
    <3>3. d \in DOMAIN call' /\ call'[d] = call[d]
      BY <1>4, <3>2, <1>1, StepShape DEF Step
    <3> QED BY <2>1, <3>1, <3>3 DEF News
  <2> QED BY <2>2, <2>3
<1> QED BY <1>1, <1>3, <1>4

\* No step but its own changes a handler that runs.
LEMMA HandlerStays ==
  ASSUME TypeInv, Slots, Leavers, Next, NEW c \in DOMAIN call, ~Step(c)
  PROVE  c \in DOMAIN call' /\ call'[c] = call[c]
<1>1. ASSUME NEW d \in Calls, NEW m \in Members, AskJoin(d, m)
      PROVE  c \in DOMAIN call' /\ call'[c] = call[c]
  BY <1>1 DEF AskJoin, Free, Begin, Begun
<1>2. ASSUME NEW d \in Calls, NEW m \in Members, Close(d, m)
      PROVE  c \in DOMAIN call' /\ call'[c] = call[c]
  <2>1. c # m
    BY <1>2 DEF Close, Open, Leavers
  <2> QED BY <1>2, <2>1 DEF Close, Free, Begun
<1>3. ASSUME NEW d \in Calls, NEW m \in Members, NEW patch \in Patches, Edit(d, m, patch)
      PROVE  c \in DOMAIN call' /\ call'[c] = call[c]
  <2>1. Begin(d, [Blank("update", m, "apply") EXCEPT !.edit = edits', !.patch = patch])
        /\ d \notin DOMAIN call
    BY <1>3 DEF Edit, Free
  <2> QED BY <2>1 DEF Begin, Begun
<1>4. ASSUME NEW d \in CallIds, Step(d) PROVE c \in DOMAIN call' /\ call'[c] = call[c]
  BY <1>4, StepShape
<1>5. EndRoom \/ (\E m \in Members : TimeOut(m) \/ Receive(m)) => call' = call
  BY DEF EndRoom, TimeOut, Receive
<1> QED BY <1>1, <1>2, <1>3, <1>4, <1>5 DEF Next

\* What is going to be announced is announced to everybody in the room.
LEMMA NewsMoves ==
  ASSUME TypeInv, Slots, Leavers, Next, changes' = changes, ~ended, NEW c, News(c)
  PROVE  \/ News(c)'
         \/ /\ page' = page
            /\ \A m \in inRoom : \E i : Told(m, i)'
<1>1. c \in DOMAIN call /\ call[c] \in Call /\ changes \in Nat
  BY DEF News, TypeInv, CallsOK, TypeOK
<1>2. CASE ~Step(c)
  BY <1>1, <1>2, HandlerStays DEF News
<1>3. CASE Step(c) /\ call[c].pc = "count"
  <2>1. call' = [call EXCEPT ![c].counted = Counting, ![c].pc = "tell"]
    BY <1>1, <1>3 DEF Step, Join, Enter, Depart, Count, Tell, Reply, Apply, At
  <2>2. c \in DOMAIN call' /\ call'[c].pc = "tell" /\ call'[c].counted = Counting
    BY <1>1, <2>1 DEF Call
  <2> QED BY <2>2 DEF News, Counting
<1>4. CASE Step(c) /\ call[c].pc = "enter" /\ call[c].m \in Spectators
  <2>1. Goto(c, "count")
    BY <1>1, <1>4 DEF Step, Join, Enter, Depart, Count, Tell, Reply, Apply, At
  <2>2. c \in DOMAIN call' /\ call'[c].pc = "count"
    BY <1>1, <2>1 DEF Goto, Call
  <2> QED BY <2>2 DEF News
<1>5. CASE Step(c) /\ call[c].pc = "tell" /\ call[c].counted.at = changes
  <2> DEFINE p == [kind |-> "count", counted |-> call[c].counted]
  <2>1. Tell(c)
    BY <1>5 DEF Step, Join, Enter, Depart, Count, Reply, Apply, At
  <2>2. p \in Packet /\ p.kind = "count" /\ p.counted.at = changes
    BY <1>1, <1>5, CallFields DEF Packet
  <2>3. page' = page /\ \A m \in inRoom : wire'[m] = Append(wire[m], p)
    BY <2>1 DEF Tell, client, Broadcast, TypeInv, TypeOK
  <2> HIDE DEF p
  <2>4. ASSUME NEW m \in inRoom PROVE \E i : Told(m, i)'
    <3>1. m \in Members /\ wire[m] \in Seq(Packet)
      BY DEF TypeInv, TypeOK
    <3>2. PICK i : i \in 1 .. Len(wire'[m]) /\ wire'[m][i] = p
      BY <2>2, <2>3, <3>1, AppendFacts
    <3>3. Told(m, i)'
      BY <2>2, <3>2 DEF Told
    <3> QED BY <3>3
  <2> QED BY <2>3, <2>4
<1> QED BY <1>2, <1>3, <1>4, <1>5 DEF News

\* And what m's join is going to acknowledge is sent to a page that waits for it.
LEMMA AnswerMoves ==
  ASSUME TypeInv, Slots, OneJoin, Leavers, Next, changes' = changes, ~ended,
         NEW m \in Members, Listens(m), NEW c, Answer(c, m)
  PROVE  \/ Answer(c, m)'
         \/ page' = page /\ \E i : Told(m, i)'
<1>1. c \in DOMAIN call /\ call[c] \in Call /\ changes \in Nat /\ call[c].m = m
  BY DEF Answer, TypeInv, CallsOK, TypeOK
<1>2. CASE ~Step(c)
  BY <1>1, <1>2, HandlerStays DEF Answer
<1>3. CASE Step(c) /\ call[c].pc = "recount"
  <2>1. call' = [call EXCEPT ![c].counted = Counting, ![c].pc = "reply"]
    BY <1>1, <1>3 DEF Step, Join, Enter, Depart, Count, Tell, Reply, Apply, At
  <2>2. /\ c \in DOMAIN call' /\ call'[c].pc = "reply" /\ call'[c].counted = Counting
        /\ call'[c].m = m
    BY <1>1, <2>1 DEF Call
  <2> QED BY <2>2 DEF Answer, Counting
<1>4. CASE Step(c) /\ call[c].pc = "reply" /\ call[c].counted.at = changes
  <2> DEFINE p == [kind |-> "ack", try |-> call[c].try, scene |-> call[c].scene,
                   counted |-> call[c].counted]
  <2>1. Reply(c) /\ call[c].op = "join"
    BY <1>1, <1>4 DEF Step, Join, Enter, Depart, Count, Tell, Apply, At, TypeInv, CallsOK, ShapeOf
  <2>2. p \in Packet /\ p.kind = "ack" /\ p.counted.at = changes
    BY <1>1, <1>4, CallFields DEF Packet
  <2>3. page[m] = "joining"
    BY <1>1, <2>1 DEF OneJoin, Listens
  <2>4. page' = page /\ wire'[m] = Append(wire[m], p)
    BY <1>1, <2>1, <2>3 DEF Reply, client, Open, TypeInv, TypeOK
  <2> HIDE DEF p
  <2>5. wire[m] \in Seq(Packet)
    BY DEF TypeInv, TypeOK
  <2>6. PICK i : i \in 1 .. Len(wire'[m]) /\ wire'[m][i] = p
    BY <2>2, <2>4, <2>5, AppendFacts
  <2>7. Told(m, i)'
    BY <2>2, <2>3, <2>4, <2>6 DEF Told
  <2> QED BY <2>4, <2>7
<1> QED BY <1>2, <1>3, <1>4 DEF Answer

\* A page that receives a packet shows its number, or has been set back, or has another
\* packet to come.
LEMMA HeardReceive ==
  ASSUME TypeInv, Snaps, OneJoin, TriedOnce, NEW m \in Members, Receive(m), Listens(m),
         changes' = changes, Heard(m)
  PROVE  Heard(m)'
<1> DEFINE p == Head(wire[m])
           ignored == p.kind = "ack" /\ ~(page[m] = "joining" /\ p.try = tries[m])
<1>1. /\ wire[m] \in Seq(Packet) /\ wire'[m] = Tail(wire[m]) /\ wire[m] # <<>>
      /\ p = wire[m][1] /\ 1 \in 1 .. Len(wire[m]) /\ p \in Packet
      /\ call' = call /\ rows' = rows /\ behind \subseteq behind' /\ changes \in Nat
      /\ count[m].at \in Nat
  BY TailFacts DEF Receive, server, TypeInv, TypeOK, Counted
<1>2. page[m] # "new" /\ tries[m] = 1
  BY DEF OneJoin, TriedOnce, Listens, TypeInv, TypeOK
<1>3. p.kind = "ack" => IsAck(m, 1) /\ p.try = 1
  BY <1>1 DEF IsAck, OneJoin
<1>4. p.kind = "ack" /\ page[m] = "joining" => ~ignored
  BY <1>2, <1>3
<1>5. /\ ignored => count'[m] = count[m] /\ page'[m] = page[m]
      /\ ~ignored => /\ count'[m] = IF p.kind = "scene" THEN count[m] ELSE p.counted
                     /\ {m} \X SetBack(m, p) \subseteq behind'
                     /\ p.kind # "ack" => page'[m] = page[m]
  BY DEF Receive, TypeInv, TypeOK
<1>6. ASSUME NEW c, News(c) \/ Answer(c, m) PROVE Heard(m)'
  <2>1. News(c)' \/ Answer(c, m)'
    BY <1>1, <1>6 DEF News, Answer
  <2> QED BY <2>1 DEF Heard
<1>7. CASE <<m, "count">> \in behind
  BY <1>1, <1>7 DEF Heard
<1>8. CASE ~ignored /\ p.kind # "scene" /\ p.counted.at = changes
  BY <1>5, <1>8 DEF Heard
<1>9. CASE count[m].at = changes
  <2>1. CASE ignored \/ p.kind = "scene"
    BY <1>5, <1>9, <2>1 DEF Heard
  <2>2. CASE ~ignored /\ p.kind # "scene" /\ p.counted.at # changes
    <3>1. Snap(p.counted) /\ p.counted.at \in Nat
      BY <1>1, <2>2, PacketFields DEF Snaps, Counted
    <3>2. "count" \in SetBack(m, p)
      BY <1>1, <1>9, <2>2, <3>1 DEF Snap, SetBack
    <3>3. <<m, "count">> \in behind'
      BY <1>5, <2>2, <3>2
    <3> QED BY <3>3 DEF Heard
  <2> QED BY <1>8, <2>1, <2>2
<1>10. ASSUME NEW i, Told(m, i) PROVE Heard(m)'
  <2>1. i \in 1 .. Len(wire[m])
    BY <1>10 DEF Told
  <2>2. CASE i = 1
    <3>1. p.kind # "scene" /\ p.counted.at = changes /\ ~ignored
      BY <1>1, <1>4, <1>10, <2>2 DEF Told
    <3> QED BY <1>8, <3>1
  <2>3. CASE i # 1
    <3>1. i - 1 \in 1 .. Len(wire'[m]) /\ wire'[m][i - 1] = wire[m][i]
      BY <1>1, <2>1, <2>3, TailFacts
    <3>2. wire[m][i].kind = "ack" => p.kind # "ack"
      <4>1. wire[m][i].kind = "ack" => IsAck(m, i)
        BY <2>1 DEF IsAck
      <4> QED BY <1>3, <2>3, <4>1 DEF OneJoin
    <3>3. wire[m][i].kind = "ack" => page'[m] = "joining"
      BY <1>5, <1>10, <3>2 DEF Told
    <3>4. Told(m, i - 1)'
      BY <1>10, <3>1, <3>3 DEF Told
    <3> QED BY <3>4 DEF Heard
  <2> QED BY <2>2, <2>3
<1> QED BY <1>6, <1>7, <1>9, <1>10 DEF Heard

\* A step that is no packet's arrival.
LEMMA HeardStep ==
  ASSUME TypeInv, Slots, OneJoin, Leavers, Next, NEW m \in Members, ~Receive(m),
         Listens(m), Listens(m)', changes' = changes, ~ended, Heard(m)
  PROVE  Heard(m)'
<1>1. wire[m] \in Seq(Packet)
  BY DEF TypeInv, TypeOK
<1>2. page'[m] = page[m]
  <2>1. page[m] \in {"joining", "in"} /\ page'[m] \in {"joining", "in"}
    BY DEF Listens
  <2>2. page[m] = "in" => page'[m] # "joining"
    BY NextPage DEF AskJoin
  <2> QED BY <2>1, <2>2, NextPage
<1>3. /\ count'[m] = count[m] /\ behind \subseteq behind'
      /\ wire'[m] = wire[m] \/ \E q \in Packet : wire'[m] = Append(wire[m], q)
  <2>1. ASSUME NEW n \in Members, Receive(n), n # m
        PROVE  count'[m] = count[m] /\ behind \subseteq behind' /\ wire'[m] = wire[m]
    BY <2>1 DEF Receive, TypeInv, TypeOK
  <2>2. ASSUME NEW c \in CallIds, Step(c) PROVE count' = count /\ behind' = behind
    BY <2>2 DEF Step, Join, Enter, Depart, Count, Tell, Reply, Apply, client
  <2>3. ASSUME NEW c \in Calls, NEW n \in Members,
               AskJoin(c, n) \/ \E patch \in Patches : Edit(c, n, patch)
        PROVE  count' = count /\ behind' = behind /\ wire' = wire
    BY <2>3 DEF AskJoin, Edit
  <2>4. ASSUME NEW c \in Calls, NEW n \in Members, Close(c, n)
        PROVE  count' = count /\ behind' = behind /\ wire'[m] = wire[m]
    BY <2>4 DEF Close, Listens, TypeInv, TypeOK
  <2>5. ASSUME NEW n \in Members, TimeOut(n) PROVE count' = count /\ behind' = behind /\ wire' = wire
    BY <2>5 DEF TimeOut
  <2>6. EndRoom => count' = count /\ behind' = behind /\ wire' = wire
    BY DEF EndRoom, client
  <2>7. ASSUME NEW c \in CallIds, Step(c)
        PROVE  wire'[m] = wire[m] \/ \E q \in Packet : wire'[m] = Append(wire[m], q)
    <3>1. CASE wire'[m] = <<>>
      <4>1. CASE Join(c) \/ Enter(c) \/ Depart(c) \/ Count(c)
        BY <4>1 DEF Join, Enter, Depart, Count
      <4>2. ASSUME NEW q, wire'[m] = Append(wire[m], q) PROVE FALSE
        BY <1>1, <3>1, <4>2
      <4>3. CASE Tell(c) \/ Reply(c) \/ Apply(c)
        <5>1. wire'[m] = wire[m] \/ \E q : wire'[m] = Append(wire[m], q)
          BY <4>3 DEF Tell, Reply, Apply, Broadcast, TypeInv, TypeOK
        <5> QED BY <4>2, <5>1
      <4> QED BY <2>7, <4>1, <4>3 DEF Step
    <3> QED BY <3>1, NextQueue DEF QueueMoves
  <2> QED BY <2>1, <2>2, <2>3, <2>4, <2>5, <2>6, <2>7 DEF Next
<1>4. ASSUME NEW i, Told(m, i) PROVE Told(m, i)'
  <2>1. i \in 1 .. Len(wire'[m]) /\ wire'[m][i] = wire[m][i]
    BY <1>1, <1>3, <1>4, AppendFacts DEF Told
  <2> QED BY <1>2, <1>4, <2>1 DEF Told
<1>5. ASSUME NEW c, News(c) PROVE Heard(m)'
  BY <1>5, NewsMoves DEF Heard, Listens
<1>6. ASSUME NEW c, Answer(c, m) PROVE Heard(m)'
  BY <1>6, AnswerMoves DEF Heard
<1> QED BY <1>3, <1>4, <1>5, <1>6 DEF Heard

\* A page comes to listen when its join enters, which is going to answer.
LEMMA HeardFirst ==
  ASSUME TypeInv, Slots, OneJoin, TriedOnce', Next, NEW m \in Members,
         ~Listens(m), Listens(m)'
  PROVE  Heard(m)'
<1>1. m \in inRoom' /\ page'[m] \in {"joining", "in"}
  BY DEF Listens
<1>2. m \notin inRoom
  <2> SUFFICES ASSUME m \in inRoom PROVE FALSE
    OBVIOUS
  <2>1. page[m] # "new" /\ page[m] \notin {"joining", "in"}
    BY DEF OneJoin, Listens
  <2>2. PICK c \in Calls : AskJoin(c, m)
    BY <1>1, <2>1, NextPage
  <2>3. tries'[m] = tries[m] + 1 /\ tries[m] \in Nat /\ tries'[m] <= 1
    BY <2>2 DEF AskJoin, TypeInv, TypeOK, TriedOnce
  <2> QED BY <2>1, <2>3 DEF OneJoin
<1>3. PICK c \in CallIds : Enter(c) /\ call[c].m = m
  <2>1. ASSUME NEW c \in CallIds, Step(c) PROVE inRoom' = inRoom \/ Enter(c)
    BY <2>1 DEF Step, Join, Depart, Count, Tell, Reply, Apply, server
  <2>2. ASSUME NEW c \in Calls, NEW n \in Members,
               \/ AskJoin(c, n) \/ Close(c, n)
               \/ \E patch \in Patches : Edit(c, n, patch)
        PROVE  inRoom' \subseteq inRoom
    BY <2>2 DEF AskJoin, Close, Edit, server
  <2>3. EndRoom \/ (\E n \in Members : TimeOut(n) \/ Receive(n)) => inRoom' = inRoom
    BY DEF EndRoom, TimeOut, Receive, server
  <2> QED BY <1>1, <1>2, <2>1, <2>2, <2>3 DEF Next, Enter
<1>4. c \in DOMAIN call /\ call[c] \in Call
  BY <1>3 DEF Enter, At, TypeInv, CallsOK
<1>5. CASE m \in Spectators
  <2>1. Goto(c, "count")
    BY <1>3, <1>5 DEF Enter
  <2>2. News(c)'
    BY <1>4, <2>1 DEF Goto, Call, News
  <2> QED BY <2>2 DEF Heard
<1>6. CASE m \notin Spectators
  <2>1. call' = [call EXCEPT ![c].scene = scene, ![c].pc = "recount"]
    BY <1>3, <1>6 DEF Enter
  <2>2. c \in DOMAIN call' /\ call'[c].pc = "recount" /\ call'[c].m = m
    BY <1>3, <1>4, <2>1 DEF Call
  <2>3. Answer(c, m)'
    BY <2>2 DEF Answer
  <2> QED BY <2>3 DEF Heard
<1> QED BY <1>5, <1>6

LEMMA HeardNext ==
  ASSUME TypeInv, Slots, Snaps, OneJoin, Leavers, Entering, HeardInv, TriedOnce, TriedOnce',
         Next
  PROVE  HeardInv'
<1> SUFFICES ASSUME ~ended', NEW m \in Members, Listens(m)' PROVE Heard(m)'
  BY DEF HeardInv
<1>1. ~ended
  <2>1. ASSUME NEW c \in CallIds, Step(c) PROVE ended' = ended
    BY <2>1 DEF Step, Join, Enter, Depart, Count, Tell, Reply, Apply, server
  <2>2. ASSUME NEW c \in Calls, NEW n \in Members,
               \/ AskJoin(c, n) \/ Close(c, n)
               \/ \E patch \in Patches : Edit(c, n, patch)
        PROVE  ended' = ended
    BY <2>2 DEF AskJoin, Close, Edit, server
  <2> QED BY <2>1, <2>2 DEF Next, EndRoom, TimeOut, Receive, server
<1>2. CASE changes' # changes
  BY <1>2, ChangeIsNews DEF Heard
<1>3. CASE changes' = changes /\ ~Listens(m)
  BY <1>3, HeardFirst
<1>4. CASE changes' = changes /\ Listens(m)
  <2>1. Heard(m)
    BY <1>1, <1>4 DEF HeardInv
  <2> QED BY <1>1, <1>4, <2>1, HeardReceive, HeardStep
<1> QED BY <1>2, <1>3, <1>4

\* Every step keeps the whole, as long as nobody tries twice.
LEMMA CountNext == TypeInv /\ Slots /\ CountInv /\ [Next]_vars => CountInv'
<1> SUFFICES ASSUME TypeInv, Slots, CountInv, [Next]_vars PROVE CountInv'
  OBVIOUS
<1>1. CASE UNCHANGED vars
  <2>1. Snaps' = Snaps
    BY <1>1 DEF vars, Snaps, Snap, Counting
  <2>2. TriedOnce' = TriedOnce
    BY <1>1 DEF vars, TriedOnce
  <2>3. OneJoin' = OneJoin
    BY <1>1 DEF vars, OneJoin, IsAck
  <2>4. Leavers' = Leavers /\ Entering' = Entering
    BY <1>1 DEF vars, Leavers, Entering
  <2>5. HeardInv' = HeardInv
    <3>1. SUFFICES ASSUME NEW m \in Members PROVE Listens(m)' = Listens(m) /\ Heard(m)' = Heard(m)
      BY <1>1 DEF vars, HeardInv
    <3>2. Listens(m)' = Listens(m)
      BY <1>1 DEF vars, Listens
    <3>3. Heard(m)' = Heard(m)
      BY <1>1 DEF vars, Heard, Told, News, Answer
    <3> QED BY <3>2, <3>3
  <2> QED BY <2>1, <2>2, <2>3, <2>4, <2>5 DEF CountInv
<1>2. CASE Next
  <2>1. Snaps'
    BY <1>2, SnapsNext DEF CountInv
  <2>2. ASSUME TriedOnce' PROVE TriedOnce
    <3>1. ASSUME NEW m \in Members PROVE tries[m] <= 1
      <4>1. tries[m] \in Nat /\ tries'[m] \in Nat /\ tries'[m] <= 1
        BY <1>2, <2>2, TypeNext DEF TypeInv, TypeOK, TriedOnce
      <4>2. tries'[m] >= tries[m]
        BY <1>2, NextPage
      <4> QED BY <4>1, <4>2
    <3> QED BY <3>1 DEF TriedOnce
  <2>3. ASSUME TriedOnce' PROVE OneJoin' /\ Leavers' /\ Entering' /\ HeardInv'
    BY <1>2, <2>2, <2>3, OneJoinNext, LeaversNext, EnteringNext, HeardNext DEF CountInv
  <2> QED BY <2>1, <2>3 DEF CountInv
<1> QED BY <1>1, <1>2

LEMMA CountInit == Init => CountInv
<1> SUFFICES ASSUME Init PROVE CountInv
  OBVIOUS
<1>1. Snap(Nothing)
  BY FS_EmptySet DEF Init, Snap, Nothing, Counting
<1>2. Snaps
  BY <1>1 DEF Init, Snaps
<1> QED BY <1>2 DEF Init, CountInv, OneJoin, IsAck, Leavers, Entering, HeardInv, Listens

\* CountIsTrueInOrder of every instance: however many spectators come and go at once, and
\* whatever their joins, leaves and disconnects wait for, once the saved ones are announced
\* every page that has heard so shows how many there are, or was set back.
THEOREM CountIsShown == Spec => []CountIsTrueInOrder
<1>1. TypeInv /\ CountInv => CountIsTrueInOrder
  <2> SUFFICES ASSUME TypeInv, CountInv, ~ended, TriedOnce, NEW m \in inRoom,
                      page[m] = "in", Quiet(m)
               PROVE  count[m].n = Counting.n \/ <<m, "count">> \in behind
    BY DEF CountIsTrueInOrder, TriedOnce
  <2>1. m \in Members /\ Heard(m) /\ Snap(count[m])
    BY DEF CountInv, HeardInv, Listens, Snaps, TypeInv, TypeOK
  <2> QED BY <2>1 DEF Heard, Quiet, Told, News, Answer, Snap
<1>2. TypeInv /\ SyncInv /\ CountInv /\ [Next]_vars => CountInv'
  BY CountNext DEF SyncInv
<1> QED BY <1>1, <1>2, TypeInit, TypeNext, OrderInit, OrderNext, SyncInit, SyncNext, CountInit,
           PTL DEF Spec
=============================================================================
