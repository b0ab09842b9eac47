------------------------------ MODULE Presence ------------------------------
(***************************************************************************)
(* Who is in a room.  ParticipantsService and the presence handlers of     *)
(* RealtimeGateway (backend/src), as asynchronous handlers that interleave *)
(* at every await over the tables "participants" and "rooms".              *)
(*                                                                         *)
(* A handler is a record in `call'.  It runs from one await to the next:   *)
(*   check  - findJoinableRoom and the access code        (join)           *)
(*   peek   - findActiveById, before the kick             (kick, gateway)  *)
(*   find   - the findOne that reads the row, and the edit in memory       *)
(*   load   - save(), first half: TypeORM reads the row again and keeps    *)
(*            the columns in which the edited entity differs from it       *)
(*   write  - save(), second half: UPDATE of just those columns            *)
(*   insert - save() of an entity without id: INSERT, no read before it    *)
(*   enter, exit, count, emit - what the gateway does after the service  *)
(*                                                                         *)
(* Columns that no property tells apart (display name, timestamps) are     *)
(* left out; leftAt is the Boolean `left'; micEnabled, cameraEnabled and   *)
(* handRaised are the subset `on' of Settings.                             *)
(***************************************************************************)
EXTENDS Naturals, FiniteSets

CONSTANTS
  Users,       \* ids in the JWTs
  Rooms,       \* slugs
  Sockets,     \* Socket.IO connection ids: a reconnection is another socket
  Pids,        \* participant ids the database can hand out (bound on inserts)
  Calls,       \* slots for handlers in flight (bound on concurrent requests)
  Settings,    \* the Boolean columns modelled: mic, camera, hand
  None,        \* null, undefined
  HostOf,      \* room.hostId
  UserOf,      \* client.data.user.id of each socket
  Invited,     \* pairs <<room, user>> whose client has the access code
  JoinRoles,   \* participantRole values clients send; "unset" when omitted
  SocketOps,   \* operations clients call through the gateway
  HttpOps,     \* pairs <<operation, user>>: who calls ParticipantsController for what
  Endable,     \* rooms their host may end (bound)
  MaxCrashes   \* bound on restarts of the backend

Roles     == {"participant", "spectator"}
Columns   == {"role", "sock", "left"} \union Settings
CallIds   == Calls \union Sockets   \* a socket is the slot of its handleDisconnect
RequestOps == {"join", "leave", "update", "moderate", "kick"}
Ops       == RequestOps \union {"drop"}
Stages    == {"check", "peek", "find", "load", "write", "insert",
              "enter", "exit", "count", "emit"}

ASSUME PresenceAssumption ==
  /\ Settings \subseteq {"mic", "camera", "hand"}
  /\ HostOf \in [Rooms -> Users]
  /\ UserOf \in [Sockets -> Users]
  /\ Invited \subseteq Rooms \X Users
  /\ JoinRoles \subseteq Roles \union {"unset"}
  /\ SocketOps \subseteq RequestOps
  /\ HttpOps \subseteq RequestOps \X Users
  /\ Endable \subseteq Rooms
  /\ MaxCrashes \in Nat
  /\ None \notin Users \union Rooms \union Sockets \union Pids
  /\ "unset" \notin Sockets \union {None}
  /\ Calls \intersect Sockets = {}

VARIABLES
  status,   \* room.status
  row,      \* the table participants: a function over the ids inserted so far
  conn,     \* each connection: new, open, closed
  data,     \* client.data.roomSlug and participantId, set and cleared together
  inRoom,   \* the Socket.IO rooms a socket is in
  call,     \* the handlers in flight
  notice,   \* sockets to which participant-kicked was emitted
  crashes,  \* restarts so far
  raced,    \* history: pairs <<room, user>> on which two handlers raced
  claimed   \* history: pairs <<user, socket>>: the user named another's socket

vars == <<status, row, conn, data, inRoom, call, notice, crashes, raced, claimed>>

Row == [room : Rooms, user : Users, role : Roles, sock : Sockets \union {None},
        on : SUBSET Settings, left : BOOLEAN]

Want == [on : SUBSET Settings, off : SUBSET Settings]

Call == [op : Ops, via : Sockets \union {None}, user : Users,
         room : Rooms \union {None}, pid : Pids \union {None},
         sock : Sockets \union {None, "unset"}, role : Roles \union {"unset"},
         want : Want, peek : Sockets \union {None},
         ent : Row \union {None}, cols : SUBSET Columns, pc : Stages]

TypeOK ==
  /\ status \in [Rooms -> {"active", "ended"}]
  /\ DOMAIN row \subseteq Pids /\ row \in [DOMAIN row -> Row]
  /\ conn \in [Sockets -> {"new", "open", "closed"}]
  /\ data \in [Sockets -> [slug : Rooms, pid : Pids] \union {None}]
  /\ inRoom \in [Sockets -> SUBSET Rooms]
  /\ DOMAIN call \subseteq CallIds /\ call \in [DOMAIN call -> Call]
  /\ notice \subseteq Sockets
  /\ crashes \in 0 .. MaxCrashes
  /\ raced \subseteq Rooms \X Users
  /\ claimed \subseteq Users \X Sockets

Active(p)     == p \in DOMAIN row /\ ~row[p].left
Admitted(r, u) == u = HostOf[r] \/ <<r, u>> \in Invited
PairOf(p)     == <<row[p].room, row[p].user>>
At(c, stage)  == c \in DOMAIN call /\ call[c].pc = stage

-----------------------------------------------------------------------------
(* What the handlers read and compute.                                     *)

\* Mutant of Matches: a join looks for its socket instead of its user.
MatchesBySocket(k) ==
  {p \in DOMAIN row :
     /\ Active(p)
     /\ CASE k.op \in {"join", "drop"}      -> row[p].sock = k.via
          [] k.op \in {"leave", "update"}  -> p = k.pid /\ row[p].user = k.user
          [] k.op \in {"moderate", "kick"} ->
               p = k.pid /\ HostOf[row[p].room] = k.user}

\* Mutant of Matches: findParticipantForHost without its host check.
MatchesAnyCaller(k) ==
  {p \in DOMAIN row :
     /\ Active(p)
     /\ CASE k.op = "join"                 -> PairOf(p) = <<k.room, k.user>>
          [] k.op = "drop"                 -> row[p].sock = k.via
          [] k.op \in {"leave", "update"}  -> p = k.pid /\ row[p].user = k.user
          [] k.op \in {"moderate", "kick"} -> p = k.pid}

\* The rows the findOne of a handler may return: every one of them asks for
\* leftAt IS NULL; a join looks for the user's row in the room, a disconnect
\* for the socket, moderation for a row in a room of the caller's.
Matches(k) ==
  {p \in DOMAIN row :
     /\ Active(p)
     /\ CASE k.op = "join"                 -> PairOf(p) = <<k.room, k.user>>
          [] k.op = "drop"                 -> row[p].sock = k.via
          [] k.op \in {"leave", "update"}  -> p = k.pid /\ row[p].user = k.user
          [] k.op \in {"moderate", "kick"} ->
               p = k.pid /\ HostOf[row[p].room] = k.user}

\* Mutant of Gone: the socket is cleared and leftAt is not set.
GoneWithoutLeftAt(e) == [e EXCEPT !.sock = None, !.on = @ \ {"hand"}]

Gone(e) == [e EXCEPT !.left = TRUE, !.sock = None, !.on = @ \ {"hand"}]

\* Mutant of Rejoined: joining again resets the settings like a new row's.
RejoinedFresh(k, e) ==
  [e EXCEPT !.sock = IF k.sock = None THEN @ ELSE k.sock,
            !.on = IF k.role = "spectator" THEN {} ELSE Settings \ {"hand"}]

Rejoined(k, e) ==
  LET role == IF k.role = "unset" THEN e.role ELSE k.role
  IN  [e EXCEPT !.role = role,
                !.sock = IF k.sock = None THEN @ ELSE k.sock,
                !.on = IF role = "spectator" THEN @ \ {"mic", "camera"} ELSE @]

Toggled(k, e) ==
  [e EXCEPT !.on = (@ \union k.want.on) \ k.want.off,
            !.sock = IF k.sock = "unset" THEN @ ELSE k.sock]

\* The entity after the assignments that follow the findOne.
Edited(k, e) ==
  CASE k.op = "join"                   -> Rejoined(k, e)
    [] k.op \in {"update", "moderate"} -> Toggled(k, e)
    [] k.op \in {"leave", "kick", "drop"} -> Gone(e)

\* Mutant of NewRow: participantRole without its default.
NewRowNoDefault(k) ==
  [room |-> k.room, user |-> k.user, role |-> k.role, sock |-> k.sock,
   on |-> IF k.role = "spectator" THEN {} ELSE Settings \ {"hand"},
   left |-> FALSE]

NewRow(k) ==
  LET role == IF k.role = "unset" THEN "participant" ELSE k.role
  IN  [room |-> k.room, user |-> k.user, role |-> role, sock |-> k.sock,
       on |-> IF role = "spectator" THEN {} ELSE Settings \ {"hand"},
       left |-> FALSE]

\* The columns in which the entity differs from the row that save() re-reads.
Diff(e, r) ==
  {x \in Columns : CASE x = "role" -> e.role # r.role
                     [] x = "sock" -> e.sock # r.sock
                     [] x = "left" -> e.left # r.left
                     [] OTHER      -> (x \in e.on) # (x \in r.on)}

\* The row after an UPDATE of these columns from the entity.
Merge(e, cols, r) ==
  [r EXCEPT !.role = IF "role" \in cols THEN e.role ELSE @,
            !.sock = IF "sock" \in cols THEN e.sock ELSE @,
            !.left = IF "left" \in cols THEN e.left ELSE @,
            !.on = (@ \ cols) \union (e.on \intersect cols)]

-----------------------------------------------------------------------------
(* Life of a handler.                                                      *)

Begin(c, k) == call' = [d \in DOMAIN call \union {c} |->
                          IF d = c THEN k ELSE call[d]]
End(c)      == call' = [d \in DOMAIN call \ {c} |-> call[d]]
Goto(c, stage) == call' = [call EXCEPT ![c].pc = stage]

NoWant == [on |-> {}, off |-> {}]

Blank(op, via, user, stage) ==
  [op |-> op, via |-> via, user |-> user, room |-> None, pid |-> None,
   sock |-> "unset", role |-> "unset", want |-> NoWant,
   peek |-> None, ent |-> None, cols |-> {}, pc |-> stage]

\* A request comes in from an authenticated socket or over HTTP.
Caller(op, via, u) ==
  \/ via \in Sockets /\ op \in SocketOps /\ conn[via] = "open" /\ u = UserOf[via]
  \/ via = None /\ <<op, u>> \in HttpOps

\* The user of k names over HTTP the socket of another user.
Claims(k) == k.via = None /\ k.sock \in Sockets /\ UserOf[k.sock] # k.user

Ask(c, k) ==
  /\ c \in Calls \ DOMAIN call
  /\ Caller(k.op, k.via, k.user)
  /\ Begin(c, k)
  /\ claimed' = IF Claims(k) THEN claimed \union {<<k.user, k.sock>>} ELSE claimed
  /\ UNCHANGED <<status, row, conn, data, inRoom, notice, crashes, raced>>

\* Bound: a join is only asked for while an id is left for every join in flight, or
\* by a user who is in the room (should that row close first, and no id be left, the
\* join stays at its INSERT).
RoomForJoin(r, u) ==
  \/ \E p \in DOMAIN row : Active(p) /\ PairOf(p) = <<r, u>>
  \/ Cardinality(DOMAIN row) + Cardinality({c \in DOMAIN call : call[c].op = "join"})
       < Cardinality(Pids)

\* join-room carries client.id; POST /rooms/:slug/join may carry a socketId, which
\* is any string: a connection of anybody's, or (a socket that never opens) of nobody.
AskJoin(c, via, u, r, sock, role) ==
  /\ RoomForJoin(r, u)
  /\ via # None => sock = via
  /\ Ask(c, [Blank("join", via, u, "check") EXCEPT
               !.room = r, !.sock = sock, !.role = role])

AskLeave(c, via, u, p) ==
  Ask(c, [Blank("leave", via, u, "find") EXCEPT !.pid = p])

\* toggle-mic, toggle-camera, raise-hand; PATCH may carry any socketId too or alone,
\* and null unbinds the row.
AskUpdate(c, via, u, p, want, sock) ==
  /\ via # None => sock = "unset" /\ want # NoWant
  /\ Ask(c, [Blank("update", via, u, "find") EXCEPT
               !.pid = p, !.want = want, !.sock = sock])

AskModerate(c, via, u, p, want) ==
  Ask(c, [Blank("moderate", via, u, "find") EXCEPT !.pid = p, !.want = want])

AskKick(c, via, u, p) ==
  Ask(c, [Blank("kick", via, u, IF via = None THEN "find" ELSE "peek")
            EXCEPT !.pid = p])

-----------------------------------------------------------------------------
(* Steps of a handler, one per await.                                      *)

\* Mutant of CheckRoom: the access code is not compared.
CheckRoomNoCode(c) ==
  /\ At(c, "check")
  /\ IF status[call[c].room] = "active" THEN Goto(c, "find") ELSE End(c)
  /\ UNCHANGED <<status, row, conn, data, inRoom, notice, crashes, raced, claimed>>

\* Mutant of CheckRoom: the room's status is not looked at.
CheckRoomNoStatus(c) ==
  /\ At(c, "check")
  /\ IF Admitted(call[c].room, call[c].user) THEN Goto(c, "find") ELSE End(c)
  /\ UNCHANGED <<status, row, conn, data, inRoom, notice, crashes, raced, claimed>>

\* findJoinableRoom, the user and the access code; a refusal ends the handler.
CheckRoom(c) ==
  /\ At(c, "check")
  /\ IF status[call[c].room] = "active" /\ Admitted(call[c].room, call[c].user)
     THEN Goto(c, "find")
     ELSE End(c)
  /\ UNCHANGED <<status, row, conn, data, inRoom, notice, crashes, raced, claimed>>

\* handleKickParticipant reads the participant, and its socket, before the kick.
Peek(c) ==
  /\ At(c, "peek")
  /\ IF Active(call[c].pid)
     THEN call' = [call EXCEPT ![c].peek = row[call[c].pid].sock, ![c].pc = "find"]
     ELSE End(c)
  /\ UNCHANGED <<status, row, conn, data, inRoom, notice, crashes, raced, claimed>>

Find(c) ==
  /\ At(c, "find")
  /\ \E p \in Matches(call[c]) :
       call' = [call EXCEPT ![c].pid = p, ![c].pc = "load",
                            ![c].ent = Edited(call[c], row[p])]
  /\ UNCHANGED <<status, row, conn, data, inRoom, notice, crashes, raced, claimed>>

\* Not found, or not the caller's: the handler throws; a disconnect returns; a
\* join goes on to insert a row.
FindNothing(c) ==
  /\ At(c, "find")
  /\ Matches(call[c]) = {}
  /\ IF call[c].op = "join" THEN Goto(c, "insert") ELSE End(c)
  /\ UNCHANGED <<status, row, conn, data, inRoom, notice, crashes, raced, claimed>>

Load(c) ==
  /\ At(c, "load")
  /\ call' = [call EXCEPT ![c].cols = Diff(call[c].ent, row[call[c].pid]),
                          ![c].pc = "write"]
  /\ UNCHANGED <<status, row, conn, data, inRoom, notice, crashes, raced, claimed>>

\* Over HTTP the handler returns; on the gateway it has more to do.
AfterSave(c) ==
  IF call[c].via = None
  THEN End(c)
  ELSE Goto(c, CASE call[c].op = "join"  -> "enter"
                 [] call[c].op = "leave" -> "exit"
                 [] OTHER                -> "emit")

Write(c) ==
  /\ At(c, "write")
  /\ LET p == call[c].pid
     IN  /\ row' = [row EXCEPT ![p] = Merge(call[c].ent, call[c].cols, @)]
         /\ raced' = IF row[p].left /\ ~row'[p].left
                     THEN raced \union {PairOf(p)} ELSE raced
  /\ AfterSave(c)
  /\ UNCHANGED <<status, conn, data, inRoom, notice, crashes, claimed>>

\* Mutant of Insert: the user's last row in the room is opened again.
InsertReopens(c) ==
  /\ At(c, "insert")
  /\ \E p \in Pids :
       /\ p \in DOMAIN row => PairOf(p) = <<call[c].room, call[c].user>>
       /\ row' = [q \in DOMAIN row \union {p} |->
                    IF q = p THEN NewRow(call[c]) ELSE row[q]]
       /\ IF call[c].via = None THEN End(c)
          ELSE call' = [call EXCEPT ![c].pid = p, ![c].pc = "enter"]
  /\ UNCHANGED <<status, conn, data, inRoom, notice, crashes, raced, claimed>>

\* Nothing in the schema makes <<room, user>> unique among the active rows.
Insert(c) ==
  /\ At(c, "insert")
  /\ \E p \in Pids \ DOMAIN row :
       /\ row' = [q \in DOMAIN row \union {p} |->
                    IF q = p THEN NewRow(call[c]) ELSE row[q]]
       /\ IF call[c].via = None THEN End(c)
          ELSE call' = [call EXCEPT ![c].pid = p, ![c].pc = "enter"]
  /\ raced' = IF \E d \in DOMAIN call \ {c} :
                    /\ call[d].pc = "insert"
                    /\ call[d].room = call[c].room /\ call[d].user = call[c].user
              THEN raced \union {<<call[c].room, call[c].user>>} ELSE raced
  /\ UNCHANGED <<status, conn, data, inRoom, notice, crashes, claimed>>

\* client.data, then client.join, which does nothing once the socket is closed.
Enter(c) ==
  /\ At(c, "enter")
  /\ LET k == call[c]
     IN  /\ data' = [data EXCEPT ![k.via] = [slug |-> k.room, pid |-> k.pid]]
         /\ inRoom' = IF conn[k.via] = "open"
                      THEN [inRoom EXCEPT ![k.via] = @ \union {k.room}]
                      ELSE inRoom
  /\ End(c)
  /\ UNCHANGED <<status, row, conn, notice, crashes, raced, claimed>>

\* After leaveRoom: client.leave; a spectator's departure is followed by a count.
Exit(c) ==
  /\ At(c, "exit")
  /\ LET k == call[c]
         slug == IF data[k.via] = None THEN None ELSE data[k.via].slug
     IN  /\ inRoom' = [inRoom EXCEPT ![k.via] = @ \ {slug}]
         /\ IF slug # None /\ k.ent.role = "spectator"
            THEN /\ call' = [call EXCEPT ![c].room = slug, ![c].pc = "count"]
                 /\ UNCHANGED data
            ELSE /\ End(c)
                 /\ data' = [data EXCEPT ![k.via] = None]
  /\ UNCHANGED <<status, row, conn, notice, crashes, raced, claimed>>

\* countActiveSpectators throws when the room has ended, and client.data stays.
Count(c) ==
  /\ At(c, "count")
  /\ data' = IF status[call[c].room] = "active"
             THEN [data EXCEPT ![call[c].via] = None] ELSE data
  /\ End(c)
  /\ UNCHANGED <<status, row, conn, inRoom, notice, crashes, raced, claimed>>

\* Mutant of Emit: participant-kicked goes to the socket of the saved entity.
EmitToSaved(c) ==
  /\ At(c, "emit")
  /\ notice' = notice \union {s \in Sockets : s = call[c].ent.sock /\ conn[s] = "open"}
  /\ End(c)
  /\ UNCHANGED <<status, row, conn, data, inRoom, crashes, raced, claimed>>

\* The handler announces what it saved to the room; participant-kicked goes to the
\* socket that was read before the kick.
Emit(c) ==
  /\ At(c, "emit")
  /\ notice' = notice \union {s \in Sockets : s = call[c].peek /\ conn[s] = "open"}
  /\ End(c)
  /\ UNCHANGED <<status, row, conn, data, inRoom, crashes, raced, claimed>>

Step(c) == \/ CheckRoom(c) \/ Peek(c) \/ Find(c) \/ FindNothing(c)
           \/ Load(c) \/ Write(c) \/ Insert(c)
           \/ Enter(c) \/ Exit(c) \/ Count(c) \/ Emit(c)

-----------------------------------------------------------------------------
(* Connections, the room's end, and the process.                           *)

Connect(s) ==
  /\ conn[s] = "new"
  /\ conn' = [conn EXCEPT ![s] = "open"]
  /\ UNCHANGED <<status, row, data, inRoom, call, notice, crashes, raced, claimed>>

\* The transport closes: Socket.IO takes the socket out of its rooms and runs
\* handleDisconnect, whatever other handlers of the socket are in flight.
Drop(s) ==
  /\ conn[s] = "open"
  /\ conn' = [conn EXCEPT ![s] = "closed"]
  /\ inRoom' = [inRoom EXCEPT ![s] = {}]
  /\ notice' = notice \ {s}
  /\ Begin(s, Blank("drop", s, UserOf[s], "find"))
  /\ UNCHANGED <<status, row, data, crashes, raced, claimed>>

\* The frontend's participant-kicked handler disconnects.
KickedClientLeaves(s) == s \in notice /\ Drop(s)

EndRoom(r) ==
  /\ status[r] = "active"
  /\ status' = [status EXCEPT ![r] = "ended"]
  /\ UNCHANGED <<row, conn, data, inRoom, call, notice, crashes, raced, claimed>>

\* The backend restarts: handlers, sockets and client.data are gone, and no
\* handleDisconnect has run; the tables stay.
Crash ==
  /\ crashes < MaxCrashes
  /\ crashes' = crashes + 1
  /\ call' = [c \in {} |-> call[c]]
  /\ conn' = [s \in Sockets |-> IF conn[s] = "open" THEN "closed" ELSE conn[s]]
  /\ data' = [s \in Sockets |-> None]
  /\ inRoom' = [s \in Sockets |-> {}]
  /\ notice' = {}
  /\ UNCHANGED <<status, row, raced, claimed>>

-----------------------------------------------------------------------------
Init ==
  /\ status = [r \in Rooms |-> "active"]
  /\ row = [p \in {} |-> None]
  /\ conn = [s \in Sockets |-> "new"]
  /\ data = [s \in Sockets |-> None]
  /\ inRoom = [s \in Sockets |-> {}]
  /\ call = [c \in {} |-> None]
  /\ notice = {}
  /\ crashes = 0
  /\ raced = {}
  /\ claimed = {}

\* One setting switched on or off, as every control of the clients asks.
Wants == {[on |-> {x}, off |-> {}] : x \in Settings}
           \union {[on |-> {}, off |-> {x}] : x \in Settings}

Request(c, via, u) ==
  \/ \E r \in Rooms, s \in Sockets \union {None}, role \in JoinRoles :
       AskJoin(c, via, u, r, s, role)
  \/ \E p \in DOMAIN row :
       \/ AskLeave(c, via, u, p)
       \/ \E want \in Wants \union {NoWant}, s \in Sockets \union {None, "unset"} :
            AskUpdate(c, via, u, p, want, s)
       \/ \E want \in Wants : AskModerate(c, via, u, p, want)
       \/ AskKick(c, via, u, p)

Next ==
  \/ \E c \in Calls, via \in Sockets \union {None}, u \in Users : Request(c, via, u)
  \/ \E c \in CallIds : Step(c)
  \/ \E s \in Sockets : Connect(s) \/ Drop(s)
  \/ \E r \in Endable : EndRoom(r)
  \/ Crash

\* Node runs every continuation it is given, PostgreSQL answers every query, and
\* a kicked client runs its handler; nobody has to ask for anything.
Fairness ==
  /\ \A c \in CallIds : WF_vars(Step(c))
  /\ \A s \in Sockets : WF_vars(KickedClientLeaves(s))

Spec == Init /\ [][Next]_vars
FairSpec == Spec /\ Fairness
-----------------------------------------------------------------------------
(* Properties.                                                             *)

ActiveOf(r, u) == {p \in DOMAIN row : Active(p) /\ PairOf(p) = <<r, u>>}

\* A handler that has read row p and has not finished saving it.
Holds(c, p) == (At(c, "load") \/ At(c, "write")) /\ call[c].pid = p

\* A user has two active rows in a room only if two of the user's joins were
\* between their findOne and their INSERT at once, or a stale save() reopened a
\* row: no other order of joins, leaves, kicks, drops and crashes makes one.
DuplicatesNeedARace ==
  \A r \in Rooms, u \in Users :
    <<r, u>> \in raced \/ \A p, q \in ActiveOf(r, u) : p = q

\* A row that is closed while no handler holds an open copy of it.
Settled(p) == /\ p \in DOMAIN row /\ row[p].left
              /\ \A c \in DOMAIN call : Holds(c, p) => call[c].ent.left

\* Whoever left, was kicked or dropped stays out under that row for good, once
\* no handler that read the row before is left in flight.
LeftStaysLeft == [][\A p \in Pids : Settled(p) => Settled(p)']_vars

Silent(p, x) == /\ p \in DOMAIN row /\ x \notin row[p].on
                /\ \A c \in DOMAIN call : Holds(c, p) => x \notin call[c].ent.on

\* A setting that is off, and off in every copy in flight, is switched on only by
\* a request that asks for it: joining again, leaving or another setting's toggle
\* never does.
OffUntilAskedOn ==
  [][\A p \in Pids, x \in Settings :
       Silent(p, x) /\ ~Silent(p, x)' =>
         \E c \in DOMAIN call :
           /\ call[c].pc = "find" /\ call[c].op \in {"update", "moderate"}
           /\ call[c].pid = p /\ x \in call[c].want.on]_vars

\* The only handlers that change a row act for its user (a disconnect acts for the
\* user of the socket) or for the host of its room, and only the host's may close a
\* row they do not own; with one exception: who has named another user's socket over
\* HTTP may lose a row to the disconnect of that socket.
ChangesAreAuthorised ==
  [][\A p \in DOMAIN row : row'[p] # row[p] =>
       \E c \in DOMAIN call :
         /\ call[c].pc = "write" /\ call[c].pid = p
         /\ \/ call[c].user = row[p].user
            \/ /\ call[c].user = HostOf[row[p].room]
               /\ call[c].op \in {"moderate", "kick"}
            \/ call[c].op = "drop" /\ <<row[p].user, call[c].via>> \in claimed]_vars

\* An ended room in which nobody is active and no handler could still change that:
\* no join past its check, no open copy of one of its rows.
Drained(r) ==
  /\ status[r] = "ended"
  /\ \A p \in DOMAIN row : row[p].room = r =>
       row[p].left /\ \A c \in DOMAIN call : Holds(c, p) => call[c].ent.left
  /\ \A c \in DOMAIN call :
       call[c].op = "join" /\ call[c].room = r => call[c].pc \in {"check", "enter"}

\* Nobody becomes active again in an ended room once it has drained: a join that
\* was past its check when the host ended the room is the last that gets in.
EndedRoomStaysDrained == [][\A r \in Rooms : Drained(r) => Drained(r)']_vars

\* A socket hears the broadcasts of a room, and is bound to a participant there,
\* only if its user is the host or has shown the access code, whatever joins,
\* leaves and room changes came before; the bound row is the user's own row there.
OnlyAdmittedListen ==
  \A s \in Sockets :
    /\ \A r \in inRoom[s] : conn[s] = "open" /\ Admitted(r, UserOf[s])
    /\ data[s] # None =>
         /\ data[s].pid \in DOMAIN row
         /\ PairOf(data[s].pid) = <<data[s].slug, UserOf[s]>>

\* Socket s dropped while row p alone carried it and none of its joins was in flight.
DroppedFrom(s, p) ==
  /\ At(s, "find") /\ Active(p) /\ row[p].sock = s
  /\ \A q \in DOMAIN row : Active(q) /\ row[q].sock = s => q = p
  /\ \A c \in DOMAIN call : call[c].op = "join" => call[c].sock # s

\* An HTTP update of row p that names a socket, or none, is in flight.
Rebinds(p) == \E c \in DOMAIN call : /\ call[c].op = "update" /\ call[c].pid = p
                                      /\ call[c].sock # "unset"

\* handleDisconnect closes the row of a dropped socket, unless the user has come
\* back on another socket in the meantime, a request over HTTP unbinds the row or
\* binds another row to the same socket, or the backend restarts.
DropClosesRow ==
  \A s \in Sockets, p \in Pids, n \in 0 .. MaxCrashes :
    DroppedFrom(s, p) /\ crashes = n ~>
      \/ ~Active(p) \/ row[p].sock \notin {s, None} \/ crashes > n
      \/ Rebinds(p) \/ \E q \in DOMAIN row \ {p} : Active(q) /\ row[q].sock = s

\* A kick that has passed its check disconnects the socket that carried the row
\* when the gateway read it, although the kick itself clears that column, unless the
\* backend restarts.
KickEvicts ==
  \A c \in Calls, s \in Sockets, n \in 0 .. MaxCrashes :
    (/\ At(c, "load") /\ call[c].op = "kick" /\ call[c].peek = s
     /\ conn[s] = "open" /\ crashes = n)
      ~> conn[s] = "closed" \/ crashes > n

\* Handler c has saved an operation of the host on somebody else's row, and is
\* announcing it.
Announces(c, op) == /\ At(c, "emit") /\ call[c].op = op
                    /\ row[call[c].pid].user # call[c].user

\* "Expulsar de la sala": a participant whose kick is being announced is not active.
KickedIsOut ==
  \A c \in DOMAIN call : Announces(c, "kick") => ~Active(call[c].pid)
=============================================================================
