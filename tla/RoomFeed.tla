------------------------------ MODULE RoomFeed ------------------------------
(***************************************************************************)
(* What the members of one room are shown: the shared scene and the number *)
(* of spectators.  RealtimeGateway (backend/src) keeps the scene in memory *)
(* and counts spectators in the database; a client learns both from the    *)
(* acknowledgement of join-room and from broadcasts, which reach it in     *)
(* the order the server emits them.                                        *)
(*                                                                         *)
(* A scene is a function from its fields to the edit that set each of them *)
(* last (0: the default).  Presence is reduced to the set of active rows:  *)
(* a handler's find and save are one step here.  A handler runs from one   *)
(* await to the next:                                                      *)
(*   save    - joinRoom, leaveRoom, leaveBySocketId                        *)
(*   enter   - client.data, client.join                                    *)
(*   count   - emitSpectatorCount: the query is evaluated                  *)
(*   tell    - its result has arrived: the broadcast                       *)
(*   recount - the count of the acknowledgement is evaluated               *)
(*   reply   - its result has arrived: the acknowledgement                 *)
(*   apply   - assertRoomHost has been awaited: the scene is updated       *)
(***************************************************************************)
EXTENDS Naturals, Sequences, FiniteSets

CONSTANTS
  Members,     \* clients, each a user of its own with one socket
  Hosts,       \* the members whose user is room.hostId
  Spectators,  \* the members that join as spectators
  Calls,       \* slots for handlers in flight (bound on concurrent requests)
  Fields,      \* fields of RoomSceneState that edits touch
  Command,     \* the field sceneMediaCommandId
  Patches,     \* sets of fields that one control of the scene panel sets
  MaxEdits,    \* bound on the edits of the hosts
  MaxTries     \* bound on the joins a client asks for

CallIds == Calls \union Members   \* a member is the slot of its handleDisconnect
Edits   == 0 .. MaxEdits

ASSUME FeedAssumption ==
  /\ IsFiniteSet(Members) /\ Hosts \subseteq Members
  /\ Spectators \subseteq Members \ Hosts
  /\ Calls \intersect Members = {}
  /\ Command \in Fields /\ Patches \subseteq SUBSET Fields
  /\ MaxEdits \in Nat /\ MaxTries \in Nat

VARIABLES
  ended,    \* room.status = "ended"
  rows,     \* the members whose participant row is active
  changes,  \* history: how often the active spectators have changed
  slugged,  \* the members whose client.data.roomSlug is set
  inRoom,   \* the members whose socket is in the Socket.IO room
  scene,    \* sceneStates.get(slug), with its version
  call,     \* the handlers in flight
  wire,     \* packets on their way to each client
  page,     \* what the client's page is doing
  tries,    \* the joins each client has asked for
  screen,   \* the scene each page shows
  count,    \* spectatorCount of each client, with `changes' when it was read
  last,     \* lastSceneMediaCommandId of each page
  edits,    \* how many edits the hosts have made
  ran,      \* history: the commands each page has received and run, in order
  behind    \* history: pairs of a page and what an older packet has set back there

vars == <<ended, rows, changes, slugged, inRoom, scene, call, wire, page, tries,
          screen, count, last, edits, ran, behind>>

server == <<ended, rows, changes, slugged, inRoom, scene>>
client == <<page, tries, screen, count, last, edits, ran, behind>>

Scene   == [ver : Nat, of : [Fields -> Edits]]
Counted == [n : Nat, at : Nat]

Call == [op : {"join", "leave", "drop", "update"}, m : Members,
         pc : {"save", "enter", "count", "tell", "recount", "reply", "apply"},
         try : 0 .. MaxTries, edit : Edits, patch : SUBSET Fields,
         scene : Scene, counted : Counted]

Packet == [kind : {"scene"}, scene : Scene]
            \union [kind : {"count"}, counted : Counted]
            \union [kind : {"ack"}, try : 0 .. MaxTries, scene : Scene,
                    counted : Counted]

TypeOK ==
  /\ ended \in BOOLEAN
  /\ rows \subseteq Members /\ slugged \subseteq Members /\ inRoom \subseteq Members
  /\ changes \in Nat /\ scene \in Scene
  /\ DOMAIN call \subseteq CallIds /\ call \in [DOMAIN call -> Call]
  /\ wire \in [Members -> Seq(Packet)]
  /\ page \in [Members -> {"new", "joining", "failed", "in", "closed"}]
  /\ tries \in [Members -> 0 .. MaxTries]
  /\ screen \in [Members -> Scene] /\ count \in [Members -> Counted]
  /\ last \in [Members -> Edits] /\ edits \in Edits
  /\ ran \in [Members -> Seq(Edits)]
  /\ behind \subseteq Members \X {"scene", "count"}

Default == [ver |-> 0, of |-> [f \in Fields |-> 0]]
Nothing == [n |-> 0, at |-> 0]

Open(m)      == page[m] \notin {"new", "closed"}
At(c, stage) == c \in DOMAIN call /\ call[c].pc = stage
Counting     == [n |-> Cardinality(rows \intersect Spectators), at |-> changes]

-----------------------------------------------------------------------------
(* Life of a handler.                                                      *)

Blank(op, m, stage) ==
  [op |-> op, m |-> m, pc |-> stage, try |-> 0, edit |-> 0, patch |-> {},
   scene |-> Default, counted |-> Nothing]

Begun(new) == [c \in DOMAIN call \union DOMAIN new |->
                 IF c \in DOMAIN new THEN new[c] ELSE call[c]]
Begin(c, k) == call' = Begun([d \in {c} |-> k])
End(c)      == call' = [d \in DOMAIN call \ {c} |-> call[d]]
Goto(c, stage) == call' = [call EXCEPT ![c].pc = stage]

Free(c) == c \in Calls \ DOMAIN call

\* server.to(room).emit
Broadcast(p) == [m \in Members |-> IF m \in inRoom THEN Append(wire[m], p) ELSE wire[m]]

-----------------------------------------------------------------------------
(* The clients ask.                                                        *)

\* RealtimeService.joinRoom.  The conference page joins once; the broadcast page
\* lets a spectator try again, on the same socket, after a failure.
AskJoin(c, m) ==
  /\ Free(c)
  /\ page[m] = "new" \/ (page[m] = "failed" /\ m \in Spectators)
  /\ tries[m] < MaxTries
  /\ page' = [page EXCEPT ![m] = "joining"]
  /\ tries' = [tries EXCEPT ![m] = @ + 1]
  /\ Begin(c, [Blank("join", m, "save") EXCEPT !.try = tries[m] + 1])
  /\ UNCHANGED <<server, wire, screen, count, last, edits, ran, behind>>

\* socket.timeout(5000): the acknowledgement will be ignored.
TimeOut(m) ==
  /\ page[m] = "joining"
  /\ page' = [page EXCEPT ![m] = "failed"]
  /\ UNCHANGED <<server, call, wire, tries, screen, count, last, edits, ran, behind>>

\* { ...old, ...patch }
Overlaid(old, patch, edit) == [f \in Fields |-> IF f \in patch THEN edit ELSE old[f]]

\* The host's page shows its edit at once, runs its own command and publishes.
Edit(c, m, patch) ==
  /\ Free(c)
  /\ page[m] = "in" /\ m \in Hosts
  /\ edits < MaxEdits
  /\ edits' = edits + 1
  /\ screen' = [screen EXCEPT ![m] = [ver |-> @.ver, of |-> Overlaid(@.of, patch, edits')]]
  /\ last' = [last EXCEPT ![m] = IF Command \in patch THEN edits' ELSE @]
  /\ Begin(c, [Blank("update", m, "apply") EXCEPT !.edit = edits', !.patch = patch])
  /\ UNCHANGED <<server, wire, page, tries, count, ran, behind>>

\* leaveRoom of the client: leave-room is emitted if the join was acknowledged, and
\* the socket is disconnected at once.  `c' is the slot of the leave.
Close(c, m) ==
  /\ Free(c) /\ Open(m)
  /\ page' = [page EXCEPT ![m] = "closed"]
  /\ inRoom' = inRoom \ {m}
  /\ wire' = [wire EXCEPT ![m] = <<>>]
  /\ call' = Begun([d \in {m} \union (IF page[m] = "in" THEN {c} ELSE {}) |->
                      Blank(IF d = m THEN "drop" ELSE "leave", m, "save")])
  /\ UNCHANGED <<ended, rows, changes, slugged, scene, tries, screen, count, last, edits,
                 ran, behind>>

-----------------------------------------------------------------------------
(* Steps of a handler, one per await.                                      *)

SetRows(new) ==
  /\ rows' = new
  /\ changes' = IF new \intersect Spectators = rows \intersect Spectators
                THEN changes ELSE changes + 1

\* joinRoom of the service; in an ended room it throws.
Join(c) ==
  /\ At(c, "save") /\ call[c].op = "join"
  /\ IF ended
     THEN End(c) /\ UNCHANGED <<rows, changes>>
     ELSE SetRows(rows \union {call[c].m}) /\ Goto(c, "enter")
  /\ UNCHANGED <<ended, slugged, inRoom, scene, wire, client>>

\* A spectator is counted and announced before the scene is read; for the others
\* the acknowledgement's scene is read here, before its count is awaited.
Enter(c) ==
  /\ At(c, "enter")
  /\ LET m == call[c].m
     IN  /\ slugged' = slugged \union {m}
         /\ inRoom' = IF Open(m) THEN inRoom \union {m} ELSE inRoom
         /\ IF m \in Spectators
            THEN Goto(c, "count")
            ELSE call' = [call EXCEPT ![c].scene = scene, ![c].pc = "recount"]
  /\ UNCHANGED <<ended, rows, changes, scene, wire, client>>

\* Mutant of Depart: a disconnect is not followed by a count.
DepartSilently(c) ==
  /\ At(c, "save") /\ call[c].op \in {"leave", "drop"}
  /\ LET m == call[c].m
     IN  /\ SetRows(rows \ {m})
         /\ IF call[c].op = "leave" /\ m \in rows \intersect slugged \intersect Spectators
            THEN Goto(c, "count") /\ UNCHANGED slugged
            ELSE /\ End(c)
                 /\ slugged' = IF call[c].op = "leave" /\ m \in rows
                               THEN slugged \ {m} ELSE slugged
  /\ UNCHANGED <<ended, inRoom, scene, wire, client>>

\* leaveRoom and leaveBySocketId of the service, and what the gateway does when
\* nothing is to be counted.
Depart(c) ==
  /\ At(c, "save") /\ call[c].op \in {"leave", "drop"}
  /\ LET m == call[c].m
     IN  /\ SetRows(rows \ {m})
         /\ IF m \in rows \intersect slugged \intersect Spectators
            THEN Goto(c, "count") /\ UNCHANGED slugged
            ELSE /\ End(c)
                 /\ slugged' = IF call[c].op = "leave" /\ m \in rows
                               THEN slugged \ {m} ELSE slugged
  /\ UNCHANGED <<ended, inRoom, scene, wire, client>>

\* countActiveSpectators throws in an ended room, and the handler with it.
Count(c) ==
  /\ At(c, "count") \/ At(c, "recount")
  /\ IF ended
     THEN End(c)
     ELSE call' = [call EXCEPT ![c].counted = Counting,
                               ![c].pc = IF @ = "count" THEN "tell" ELSE "reply"]
  /\ UNCHANGED <<server, wire, client>>

\* spectator-count-updated; a join goes on to read the scene.
Tell(c) ==
  /\ At(c, "tell")
  /\ wire' = Broadcast([kind |-> "count", counted |-> call[c].counted])
  /\ IF call[c].op = "join"
     THEN call' = [call EXCEPT ![c].scene = scene, ![c].pc = "recount"]
     ELSE End(c)
  /\ slugged' = IF call[c].op = "leave" THEN slugged \ {call[c].m} ELSE slugged
  /\ UNCHANGED <<ended, rows, changes, inRoom, scene, client>>

Reply(c) ==
  /\ At(c, "reply")
  /\ LET k == call[c]
     IN  wire' = IF Open(k.m)
                 THEN [wire EXCEPT ![k.m] = Append(@, [kind |-> "ack", try |-> k.try,
                                             scene |-> k.scene, counted |-> k.counted])]
                 ELSE wire
  /\ End(c)
  /\ UNCHANGED <<server, client>>

\* Mutant of Patched: the edit replaces the scene.
PatchedAlone(k) == [ver |-> scene.ver + 1, of |-> [f \in k.patch |-> k.edit]]

Patched(k) == [ver |-> scene.ver + 1,
               of |-> Overlaid(scene.of, k.patch, k.edit)]

\* Mutant of Apply: the broadcast carries the scene read before the update.
ApplyOld(c) ==
  /\ At(c, "apply")
  /\ IF ended \/ call[c].m \notin Hosts
     THEN UNCHANGED <<scene, wire>>
     ELSE /\ scene' = Patched(call[c])
          /\ wire' = Broadcast([kind |-> "scene", scene |-> scene])
  /\ End(c)
  /\ UNCHANGED <<ended, rows, changes, slugged, inRoom, client>>

\* Mutant of Apply: only the host is answered.
ApplyUntold(c) ==
  /\ At(c, "apply")
  /\ IF ended \/ call[c].m \notin Hosts
     THEN UNCHANGED <<scene, wire>>
     ELSE /\ scene' = Patched(call[c])
          /\ wire' = [wire EXCEPT ![call[c].m] =
                        IF call[c].m \in inRoom
                        THEN Append(@, [kind |-> "scene", scene |-> scene']) ELSE @]
  /\ End(c)
  /\ UNCHANGED <<ended, rows, changes, slugged, inRoom, client>>

\* assertRoomHost has passed or thrown.  updateSceneState, the broadcast and the
\* acknowledgement follow without an await; the acknowledgement carries the scene
\* of the broadcast just before it, and shows the host nothing else.
Apply(c) ==
  /\ At(c, "apply")
  /\ IF ended \/ call[c].m \notin Hosts
     THEN UNCHANGED <<scene, wire>>
     ELSE /\ scene' = Patched(call[c])
          /\ wire' = Broadcast([kind |-> "scene", scene |-> scene'])
  /\ End(c)
  /\ UNCHANGED <<ended, rows, changes, slugged, inRoom, client>>

Step(c) == \/ Join(c) \/ Enter(c) \/ Depart(c) \/ Count(c) \/ Tell(c)
           \/ Reply(c) \/ Apply(c)

EndRoom ==
  /\ ~ended
  /\ ended' = TRUE
  /\ UNCHANGED <<rows, changes, slugged, inRoom, scene, call, wire, client>>

-----------------------------------------------------------------------------
(* The clients are told.                                                   *)

\* Mutant of Show: the command is not compared with the last one.
ShowAndRun(m, s) ==
  LET cmd == s.of[Command]
      runs == cmd # 0
  IN  /\ screen' = [screen EXCEPT ![m] = s]
      /\ last' = [last EXCEPT ![m] = IF runs THEN cmd ELSE @]
      /\ ran' = [ran EXCEPT ![m] = IF runs THEN Append(@, cmd) ELSE @]

\* applySceneState and applySceneMediaCommand, run by the effect on roomSceneState.
Show(m, s) ==
  LET cmd == s.of[Command]
      runs == cmd \notin {0, last[m]}
  IN  /\ screen' = [screen EXCEPT ![m] = s]
      /\ last' = [last EXCEPT ![m] = IF runs THEN cmd ELSE @]
      /\ ran' = [ran EXCEPT ![m] = IF runs THEN Append(@, cmd) ELSE @]

\* What p sets back on the page of m.
SetBack(m, p) ==
  {x \in {"scene", "count"} :
     \/ x = "scene" /\ p.kind # "count" /\ p.scene.ver < screen[m].ver
     \/ x = "count" /\ p.kind # "scene" /\ p.counted.at < count[m].at}

\* Mutant of Receive: scenes are ignored until the join is acknowledged.
ReceiveOnceIn(m) ==
  /\ wire[m] # <<>>
  /\ wire' = [wire EXCEPT ![m] = Tail(@)]
  /\ LET p == Head(wire[m])
         ignored == \/ p.kind = "ack" /\ ~(page[m] = "joining" /\ p.try = tries[m])
                    \/ p.kind = "scene" /\ page[m] # "in"
     IN  IF ignored
         THEN UNCHANGED <<page, screen, last, ran, count, behind>>
         ELSE /\ page' = IF p.kind = "ack" THEN [page EXCEPT ![m] = "in"] ELSE page
              /\ IF p.kind = "count" THEN UNCHANGED <<screen, last, ran>>
                 ELSE Show(m, p.scene)
              /\ count' = IF p.kind = "scene" THEN count
                          ELSE [count EXCEPT ![m] = p.counted]
              /\ behind' = behind \union ({m} \X SetBack(m, p))
  /\ UNCHANGED <<server, call, tries, edits>>

\* Mutant of Receive: the acknowledgement of a join that has timed out is taken too.
ReceiveLateAcks(m) ==
  /\ wire[m] # <<>>
  /\ wire' = [wire EXCEPT ![m] = Tail(@)]
  /\ LET p == Head(wire[m])
     IN  /\ page' = IF p.kind = "ack" THEN [page EXCEPT ![m] = "in"] ELSE page
         /\ IF p.kind = "count" THEN UNCHANGED <<screen, last, ran>>
            ELSE Show(m, p.scene)
         /\ count' = IF p.kind = "scene" THEN count
                     ELSE [count EXCEPT ![m] = p.counted]
         /\ behind' = behind \union ({m} \X SetBack(m, p))
  /\ UNCHANGED <<server, call, tries, edits>>

Receive(m) ==
  /\ wire[m] # <<>>
  /\ wire' = [wire EXCEPT ![m] = Tail(@)]
  /\ LET p == Head(wire[m])
         ignored == p.kind = "ack" /\ ~(page[m] = "joining" /\ p.try = tries[m])
     IN  IF ignored
         THEN UNCHANGED <<page, screen, last, ran, count, behind>>
         ELSE /\ page' = IF p.kind = "ack" THEN [page EXCEPT ![m] = "in"] ELSE page
              /\ IF p.kind = "count" THEN UNCHANGED <<screen, last, ran>>
                 ELSE Show(m, p.scene)
              /\ count' = IF p.kind = "scene" THEN count
                          ELSE [count EXCEPT ![m] = p.counted]
              /\ behind' = behind \union ({m} \X SetBack(m, p))
  /\ UNCHANGED <<server, call, tries, edits>>

-----------------------------------------------------------------------------
Init ==
  /\ ended = FALSE
  /\ rows = {} /\ changes = 0 /\ slugged = {} /\ inRoom = {}
  /\ scene = Default
  /\ call = [c \in {} |-> Default]
  /\ wire = [m \in Members |-> <<>>]
  /\ page = [m \in Members |-> "new"]
  /\ tries = [m \in Members |-> 0]
  /\ screen = [m \in Members |-> Default]
  /\ count = [m \in Members |-> Nothing]
  /\ last = [m \in Members |-> 0]
  /\ edits = 0
  /\ ran = [m \in Members |-> <<>>]
  /\ behind = {}

Next ==
  \/ \E c \in Calls, m \in Members :
       \/ AskJoin(c, m) \/ Close(c, m)
       \/ \E patch \in Patches : Edit(c, m, patch)
  \/ \E c \in CallIds : Step(c)
  \/ \E m \in Members : TimeOut(m) \/ Receive(m)
  \/ EndRoom

\* Every continuation and query completes, and an open connection delivers.
Fairness == /\ \A c \in CallIds : WF_vars(Step(c))
            /\ \A m \in Members : WF_vars(Receive(m))

Spec     == Init /\ [][Next]_vars
FairSpec == Spec /\ Fairness
-----------------------------------------------------------------------------
(* Properties.                                                             *)

\* A host's own edit is shown before the server has it, and for good if the server
\* refuses it because the room has ended.
Unconfirmed(m) ==
  m \in Hosts /\ (ended \/ \E c \in DOMAIN call : call[c].op = "update" /\ call[c].m = m)

\* A page that is in the room and has received everything sent to it shows the
\* server's scene in every field, whatever edits, joins and broadcasts crossed,
\* unless an older packet has set it back.
Synced ==
  \A m \in inRoom :
    page[m] = "in" /\ wire[m] = <<>> /\ ~Unconfirmed(m) =>
      screen[m].of = scene.of \/ <<m, "scene">> \in behind

\* A guest's page runs each command of the scene's video at most once, although every
\* later scene repeats it, unless an older packet has set the page back.
CommandsRunOnce ==
  \A m \in Members \ Hosts : \A i, j \in 1 .. Len(ran[m]) :
    ran[m][i] = ran[m][j] => i = j \/ <<m, "scene">> \in behind

\* Every scene among the packets of w is newer than version v and than the scenes
\* of the packets before it.
InOrder(v, w) ==
  \A i \in 1 .. Len(w) : w[i].kind = "scene" =>
    /\ v < w[i].scene.ver
    /\ \A j \in 1 .. i - 1 : w[j].kind # "count" => w[j].scene.ver < w[i].scene.ver

\* A scene that is broadcast is never older than what it replaces on a page: only the
\* acknowledgement of a join can set a page's scene back.
BroadcastScenesMoveOn == \A m \in Members : InOrder(screen[m].ver, wire[m])

\* Every handler that has saved a join or a departure is done with it, and nothing is on
\* its way to page m.
Quiet(m) == /\ \A c \in DOMAIN call : call[c].pc \in {"save", "apply"}
            /\ wire[m] = <<>>

\* "Espectadores conectados": once whatever was saved has been announced and has arrived,
\* a page in an active room shows the number of active spectators, unless an older packet has set its count back
\* (counts awaited at once may be broadcast in the other order), and as long as nobody
\* has tried to join twice: a join that outlives its page can leave a row that
\* the disconnect closes without announcing it.
CountIsTrueInOrder ==
  ~ended /\ (\A m \in Members : tries[m] <= 1) =>
    \A m \in inRoom : page[m] = "in" /\ Quiet(m) =>
      count[m].n = Counting.n \/ <<m, "count">> \in behind

\* Every version of the scene reaches every page in the room, which shows it or a
\* later one, unless the page closes or an older packet sets it back.
EverySceneArrives ==
  \A m \in Members, v \in 1 .. MaxEdits :
    m \in inRoom /\ page[m] = "in" /\ scene.ver = v
      ~> m \notin inRoom \/ screen[m].ver >= v \/ <<m, "scene">> \in behind

\* What a page is promised: from the acknowledgement of its join until it closes, its
\* scene never goes back, whatever is in flight, and it is one the server has had.  A
\* version shown before may be taken back only by the acknowledgement itself.
Board == INSTANCE SceneBoard
           WITH ver <- scene.ver,
                seen <- [m \in Members |-> screen[m].ver],
                entered <- {m \in Members : page[m] \in {"in", "closed"}}

FollowsTheBoard == Board!Spec
=============================================================================
