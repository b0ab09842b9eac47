------------------------------- MODULE Roster -------------------------------
(***************************************************************************)
(* The list of participants that each page of a room shows: RealtimeService*)
(* and its pages (frontend/src), fed by RealtimeGateway and by the HTTP    *)
(* list of ParticipantsController (backend/src).                           *)
(*                                                                         *)
(* A handler of the gateway saves a row, then announces what it saved to   *)
(* the sockets in the room, then acknowledges its caller.  A page applies  *)
(* announcements and acknowledgements one by one, and once, after its      *)
(* join, replaces its list by the answer of an HTTP request.               *)
(*                                                                         *)
(* A row is abstracted to the number of times it was saved.  A save is one *)
(* step here: Presence models what happens inside it.  A member is one     *)
(* visit of a page, with its socket and its row.  When the connection of a *)
(* page breaks, Socket.IO opens another one, which the gateway does not    *)
(* know to be in the room: the page is stranded, and its requests are      *)
(* saved and acknowledged, but not announced.                              *)
(***************************************************************************)
EXTENDS Naturals, Sequences, FiniteSets

CONSTANTS
  Members,  \* visits of the conference page
  Hosts,    \* those of the host
  Fragile,  \* bound: those whose connection may break, each once
  Calls,    \* bound: concurrent requests
  MaxChanges  \* bound: updates and kicks requested

ASSUME RosterAssumption ==
  /\ Hosts \subseteq Members /\ Fragile \subseteq Members
  /\ Calls \intersect Members = {}
  /\ MaxChanges \in Nat

VARIABLES
  active,   \* members whose row is active
  saves,    \* saves of each row
  slugged,  \* sockets whose client.data.roomSlug is set
  inRoom,   \* sockets in the Socket.IO room
  call,     \* the handlers in flight
  wire,     \* packets on their way to each page
  answer,   \* of the HTTP request of each page, and the versions it lists
  page,     \* new, joining, failed, in, kicked, stranded, closed
  me,       \* participant of each page: its version, 0 for null
  roster,   \* participants of each page: their versions, 0 if not listed
  changes,  \* updates and kicks requested so far
  known,    \* history: the newest version a page has been told of each member
  behind,   \* history: <<m, x>> where m was last told something older of x
  readded,  \* history: <<m, x>> where the acknowledgement of a kick re-added x
  outdated, \* history: pages whose participant was last set to something older
  early,    \* history: members whose row was changed before their join was acknowledged
  unsaid    \* history: members whose newest save was not announced

vars == <<active, saves, slugged, inRoom, call, wire, answer, page, me, roster,
          changes, known, behind, readded, outdated, early, unsaid>>

server == <<active, saves, slugged, inRoom>>
screen == <<page, me, roster>>
notes  == <<known, behind, readded, outdated>>

MaxSaves == MaxChanges + 2    \* the join, the changes, the departure

CallIds == Calls \union Members    \* a handleDisconnect is named after its socket

\* again: the request came over a connection that followed a broken one.
Call == [op : {"join", "update", "kick", "depart", "leave"}, by : Members, on : Members,
         again : BOOLEAN, pc : {"save", "enter", "reply", "announce"}, ver : 0 .. MaxSaves]

Packet == [kind : {"connected", "updated", "gone", "kicked", "ack-join", "ack-update",
                   "ack-kick"},
           on : Members, ver : 0 .. MaxSaves]

\* of: the versions listed, 0 for a member that is not.  at (history): the versions saved.
Answer == [is : {"none", "asked", "sent"}, of : [Members -> 0 .. MaxSaves],
           at : [Members -> 0 .. MaxSaves]]

Nobody   == [x \in Members |-> 0]
NoAnswer == [is |-> "none", of |-> Nobody, at |-> Nobody]
Asked    == [NoAnswer EXCEPT !.is = "asked"]

Listening == {"joining", "failed", "in"}    \* the page has the socket of its row

TypeOK ==
  /\ active \subseteq Members
  /\ saves \in [Members -> 0 .. MaxSaves]
  /\ slugged \subseteq Members /\ inRoom \subseteq slugged
  /\ DOMAIN call \subseteq CallIds /\ call \in [DOMAIN call -> Call]
  /\ wire \in [Members -> Seq(Packet)]
  /\ answer \in [Members -> Answer]
  /\ page \in [Members -> Listening \union {"new", "kicked", "stranded", "closed"}]
  /\ me \in [Members -> 0 .. MaxSaves]
  /\ \A m \in Members : me[m] # 0 => page[m] \in {"in", "stranded"}
  /\ changes \in 0 .. MaxChanges
  /\ roster \in [Members -> [Members -> 0 .. MaxSaves]]
  /\ known \in [Members -> [Members -> 0 .. MaxSaves]]
  /\ behind \subseteq Members \X Members /\ readded \subseteq Members \X Members
  /\ outdated \subseteq Members /\ early \subseteq Members /\ unsaid \subseteq Members

-----------------------------------------------------------------------------
NewCall(op, by, on, again) ==
  [op |-> op, by |-> by, on |-> on, again |-> again, pc |-> "save", ver |-> 0]

Begin(c, op, by, on, again) ==
  call' = [d \in DOMAIN call \union {c} |->
             IF d = c THEN NewCall(op, by, on, again) ELSE call[d]]

End(c) == call' = [d \in DOMAIN call \ {c} |-> call[d]]

At(c, stage) == c \in DOMAIN call /\ call[c].pc = stage

Packet1(kind, x, ver) == <<[kind |-> kind, on |-> x, ver |-> ver]>>

-----------------------------------------------------------------------------
(* The members.                                                            *)

AskJoin(c, m) ==
  /\ page[m] = "new" /\ c \notin DOMAIN call
  /\ page' = [page EXCEPT ![m] = "joining"]
  /\ Begin(c, "join", m, m, FALSE)
  /\ UNCHANGED <<server, wire, answer, me, roster, notes, early, unsaid, changes>>

\* toggleMic, toggleCamera, raiseHand; moderateParticipant of the host.  A stranded
\* page has its participant and its list, and asks over its new connection.
AskUpdate(c, m, x) ==
  /\ page[m] \in {"in", "stranded"} /\ c \notin DOMAIN call
  /\ changes < MaxChanges /\ changes' = changes + 1
  /\ x = m \/ (m \in Hosts /\ roster[m][x] # 0)
  /\ Begin(c, "update", m, x, page[m] = "stranded")
  /\ UNCHANGED <<server, wire, answer, screen, notes, early, unsaid>>

\* kickParticipant, offered to the host for the others on its list.
AskKick(c, m, x) ==
  /\ page[m] \in {"in", "stranded"} /\ c \notin DOMAIN call
  /\ changes < MaxChanges /\ changes' = changes + 1
  /\ m \in Hosts /\ x # m /\ roster[m][x] # 0
  /\ Begin(c, "kick", m, x, page[m] = "stranded")
  /\ UNCHANGED <<server, wire, answer, screen, notes, early, unsaid>>

\* socket.timeout(5000) of the join: the page stays, with its socket.
TimeOut(m) ==
  /\ page[m] = "joining"
  /\ page' = [page EXCEPT ![m] = "failed"]
  /\ UNCHANGED <<server, call, wire, answer, me, roster, notes, early, unsaid, changes>>

\* The connection is gone for the backend: handleDisconnect.
Disconnected(m) ==
  /\ m \notin DOMAIN call
  /\ inRoom' = inRoom \ {m}
  /\ wire' = [wire EXCEPT ![m] = <<>>]
  /\ Begin(m, "depart", m, m, FALSE)

\* (History) What page m has been told matters no more.
Forgotten(m) ==
  /\ known' = [known EXCEPT ![m] = Nobody]
  /\ behind' = behind \ ({m} \X Members)
  /\ readded' = readded \ ({m} \X Members)
  /\ outdated' = outdated \ {m}

\* leaveRoom, with the leave-room event and the disconnect that follows at once.  The
\* HTTP request goes on, and its answer is still applied.
Close(m) ==
  /\ page[m] \in Listening
  /\ page' = [page EXCEPT ![m] = "closed"]
  /\ me' = [me EXCEPT ![m] = 0]
  /\ roster' = [roster EXCEPT ![m] = Nobody]
  /\ Disconnected(m)
  /\ Forgotten(m)
  /\ UNCHANGED <<active, saves, slugged, answer, early, unsaid, changes>>

\* The transport breaks.  Socket.IO connects again with another socket, which never
\* joins the room, and the page goes on as if it were in.
Break(m) ==
  /\ m \in Fragile
  /\ page[m] = "in"
  /\ page' = [page EXCEPT ![m] = "stranded"]
  /\ Disconnected(m)
  /\ UNCHANGED <<active, saves, slugged, answer, me, roster, notes, early, unsaid, changes>>

\* leaveRoom of a stranded page: the leave-room event goes over the new connection, if
\* there is one by then.
CloseStranded(c, m) ==
  /\ page[m] = "stranded" /\ c \notin DOMAIN call
  /\ page' = [page EXCEPT ![m] = "closed"]
  /\ me' = [me EXCEPT ![m] = 0]
  /\ roster' = [roster EXCEPT ![m] = Nobody]
  /\ wire' = [wire EXCEPT ![m] = <<>>]
  /\ Begin(c, "leave", m, m, TRUE) \/ UNCHANGED call
  /\ Forgotten(m)
  /\ UNCHANGED <<server, answer, early, unsaid, changes>>

-----------------------------------------------------------------------------
(* The handlers of the gateway.                                            *)

\* The row is saved, or it is not active and the handler ends.
Save(c) ==
  /\ At(c, "save")
  /\ LET k == call[c]
         x == k.on
         stays == k.op \in {"join", "update"}
     IN  IF k.op # "join" /\ x \notin active
         THEN End(c) /\ UNCHANGED <<active, saves>>
         ELSE /\ active' = IF stays THEN active \union {x} ELSE active \ {x}
              /\ saves' = [saves EXCEPT ![x] = @ + 1]
              /\ call' = [call EXCEPT ![c].ver = saves[x] + 1,
                            ![c].pc = IF k.op = "join" THEN "enter" ELSE "announce"]
  /\ early' = early \union {x \in {call[c].on} : call[c].op # "join" /\ page[x] = "joining"}
  /\ UNCHANGED <<slugged, inRoom, wire, answer, screen, notes, unsaid, changes>>

\* handleJoinRoom after the save: the others hear of the participant.
Enter(c) ==
  /\ At(c, "enter")
  /\ LET m == call[c].by
     IN  /\ slugged' = slugged \union {m}
         /\ inRoom' = IF page[m] \in Listening THEN inRoom \union {m} ELSE inRoom
         /\ wire' = [n \in Members |->
                       IF n \in inRoom \ {m}
                       THEN wire[n] \o Packet1("connected", m, call[c].ver) ELSE wire[n]]
  /\ call' = [call EXCEPT ![c].pc = "reply"]
  /\ UNCHANGED <<active, saves, answer, screen, notes, early, unsaid, changes>>

\* The acknowledgement of the join, after the awaited count of spectators.
Reply(c) ==
  /\ At(c, "reply")
  /\ LET m == call[c].by
     IN  wire' = IF page[m] \in Listening
                 THEN [wire EXCEPT ![m] = @ \o Packet1("ack-join", m, call[c].ver)]
                 ELSE wire
  /\ End(c)
  /\ UNCHANGED <<server, answer, screen, notes, early, unsaid, changes>>

\* The gateway knows the room of the socket that handler k serves: its client.data
\* has the slug, and it is not the socket of a connection that came back.
Loud(k) == k.by \in slugged /\ ~k.again

\* Page n still has the connection over which handler k was asked.
Awaits(n, k) ==
  /\ n = k.by /\ k.op \in {"update", "kick"}
  /\ IF k.again THEN page[n] = "stranded" ELSE page[n] \in Listening

\* Mutant of Heard: nobody is told that a participant has gone.
HeardNoDeparture(k, n) ==
  LET told   == IF k.op = "update" /\ Loud(k) /\ n \in inRoom
                THEN Packet1("updated", k.on, k.ver) ELSE <<>>
      kicked == IF k.op = "kick" /\ n = k.on THEN Packet1("kicked", n, k.ver) ELSE <<>>
      acked  == Packet1(IF k.op = "kick" THEN "ack-kick" ELSE "ack-update", k.on, k.ver)
  IN  (IF page[n] \in Listening THEN told \o kicked ELSE <<>>)
        \o (IF Awaits(n, k) THEN acked ELSE <<>>)

\* What the announcement of handler k, which has saved, sends to page n: the broadcast
\* to the room, participant-kicked to the socket of the row, the acknowledgement.
Heard(k, n) ==
  LET told   == IF Loud(k) /\ n \in inRoom
                THEN Packet1(IF k.op = "update" THEN "updated" ELSE "gone", k.on, k.ver)
                ELSE <<>>
      kicked == IF k.op = "kick" /\ n = k.on THEN Packet1("kicked", n, k.ver) ELSE <<>>
      acked  == Packet1(IF k.op = "kick" THEN "ack-kick" ELSE "ack-update", k.on, k.ver)
  IN  (IF page[n] \in Listening THEN told \o kicked ELSE <<>>)
        \o (IF Awaits(n, k) THEN acked ELSE <<>>)

\* The announcements and the acknowledgement that follow the save.
Announce(c) ==
  /\ At(c, "announce")
  /\ wire' = [n \in Members |-> wire[n] \o Heard(call[c], n)]
  /\ unsaid' = IF call[c].ver # saves[call[c].on] THEN unsaid
               ELSE IF Loud(call[c]) THEN unsaid \ {call[c].on}
               ELSE unsaid \union {call[c].on}
  /\ End(c)
  /\ UNCHANGED <<server, answer, screen, notes, early, changes>>

\* findActiveByRoom answers with the active rows, or refuses.
ServeList(m) ==
  /\ answer[m].is = "asked"
  /\ answer' = [answer EXCEPT ![m] =
                  IF m \in active \union Hosts
                  THEN [is |-> "sent",
                        of |-> [x \in Members |-> IF x \in active THEN saves[x] ELSE 0],
                        at |-> saves]
                  ELSE NoAnswer]
  /\ UNCHANGED <<server, call, wire, screen, notes, early, unsaid, changes>>

-----------------------------------------------------------------------------
(* The pages.                                                              *)

\* Page m has been told version ver of x.
Told(m, x, ver) ==
  /\ known' = [known EXCEPT ![m][x] = IF ver > @ THEN ver ELSE @]
  /\ behind' = IF ver < known[m][x] THEN behind \union {<<m, x>>}
               ELSE behind \ {<<m, x>>}

\* The participant of page m is set to version ver.
Sets(m, ver) ==
  /\ me' = [me EXCEPT ![m] = ver]
  /\ outdated' = IF ver < known[m][m] THEN outdated \union {m} ELSE outdated \ {m}

\* Mutant of TakeKicked: the participant of the page is kept.
TakeKickedKeepsMe(m) ==
  /\ page[m] \in Listening /\ wire[m] # <<>> /\ Head(wire[m]).kind = "kicked"
  /\ page' = [page EXCEPT ![m] = "kicked"]
  /\ roster' = [roster EXCEPT ![m][m] = 0]
  /\ inRoom' = inRoom \ {m}
  /\ wire' = [wire EXCEPT ![m] = <<>>]
  /\ UNCHANGED <<active, saves, slugged, call, answer, me, notes, early, unsaid, changes>>

\* participant-kicked: the page disconnects and keeps the rest of its list.  The row
\* is closed already, so that handleDisconnect does nothing.
TakeKicked(m) ==
  /\ page[m] \in Listening /\ wire[m] # <<>> /\ Head(wire[m]).kind = "kicked"
  /\ page' = [page EXCEPT ![m] = "kicked"]
  /\ me' = [me EXCEPT ![m] = 0]
  /\ roster' = [roster EXCEPT ![m][m] = 0]
  /\ inRoom' = inRoom \ {m}
  /\ wire' = [wire EXCEPT ![m] = <<>>]
  /\ UNCHANGED <<active, saves, slugged, call, answer, notes, early, unsaid, changes>>

\* participant-disconnected.
TakeGone(m) ==
  /\ wire[m] # <<>> /\ Head(wire[m]).kind = "gone"
  /\ LET x == Head(wire[m]).on
     IN  /\ roster' = [roster EXCEPT ![m][x] = 0]
         /\ Told(m, x, Head(wire[m]).ver)
         /\ readded' = readded \ {<<m, x>>}
  /\ wire' = [wire EXCEPT ![m] = Tail(@)]
  /\ UNCHANGED <<server, call, answer, page, me, outdated, early, unsaid, changes>>

\* Mutant of TakeUpsert: only acknowledgements change the page's own participant.
TakeUpsertKeepsMe(m) ==
  /\ wire[m] # <<>>
  /\ Head(wire[m]).kind \in {"connected", "updated", "ack-update", "ack-kick"}
  /\ LET p == Head(wire[m])
     IN  /\ roster' = [roster EXCEPT ![m][p.on] = p.ver]
         /\ IF p.on = m /\ me[m] # 0 /\ p.kind # "updated" THEN Sets(m, p.ver)
            ELSE UNCHANGED <<me, outdated>>
         /\ Told(m, p.on, p.ver)
         /\ readded' = IF p.kind = "ack-kick" THEN readded \union {<<m, p.on>>}
                       ELSE readded
  /\ wire' = [wire EXCEPT ![m] = Tail(@)]
  /\ UNCHANGED <<server, call, answer, page, early, unsaid, changes>>

\* participant-connected, participant-updated and the acknowledgements of updates and
\* kicks: upsertParticipant, and participant if it is the page's own.
TakeUpsert(m) ==
  /\ wire[m] # <<>>
  /\ Head(wire[m]).kind \in {"connected", "updated", "ack-update", "ack-kick"}
  /\ LET p == Head(wire[m])
     IN  /\ roster' = [roster EXCEPT ![m][p.on] = p.ver]
         /\ IF p.on = m /\ me[m] # 0 THEN Sets(m, p.ver) ELSE UNCHANGED <<me, outdated>>
         /\ Told(m, p.on, p.ver)
         /\ readded' = IF p.kind = "ack-kick" THEN readded \union {<<m, p.on>>}
                       ELSE readded
  /\ wire' = [wire EXCEPT ![m] = Tail(@)]
  /\ UNCHANGED <<server, call, answer, page, early, unsaid, changes>>

\* The acknowledgement of the join; the page then requests the list.
TakeJoined(m) ==
  /\ wire[m] # <<>> /\ Head(wire[m]).kind = "ack-join"
  /\ wire' = [wire EXCEPT ![m] = Tail(@)]
  /\ IF page[m] = "joining"
     THEN LET ver == Head(wire[m]).ver
          IN  /\ page' = [page EXCEPT ![m] = "in"]
              /\ Sets(m, ver)
              /\ roster' = [roster EXCEPT ![m][m] = ver]
              /\ Told(m, m, ver)
              /\ answer' = [answer EXCEPT ![m] = Asked]
     ELSE UNCHANGED <<page, me, outdated, roster, known, behind, answer>>
  /\ UNCHANGED <<server, call, readded, early, unsaid, changes>>

\* setParticipants: the answer replaces the list.
TakeList(m) ==
  /\ answer[m].is = "sent"
  /\ roster' = [roster EXCEPT ![m] = answer[m].of]
  /\ LET old == {x \in Members : answer[m].at[x] < known[m][x]}
     IN  /\ behind' = (behind \ ({m} \X Members)) \union ({m} \X old)
         /\ known' = [known EXCEPT ![m] =
                        [x \in Members |-> IF x \in old THEN @[x] ELSE answer[m].at[x]]]
  /\ readded' = readded \ ({m} \X Members)
  /\ answer' = [answer EXCEPT ![m] = NoAnswer]
  /\ UNCHANGED <<server, call, wire, page, me, outdated, early, unsaid, changes>>

-----------------------------------------------------------------------------
Init ==
  /\ active = {} /\ saves = [m \in Members |-> 0]
  /\ slugged = {} /\ inRoom = {}
  /\ call = [c \in {} |-> 0]
  /\ wire = [m \in Members |-> <<>>]
  /\ answer = [m \in Members |-> NoAnswer]
  /\ page = [m \in Members |-> "new"]
  /\ me = [m \in Members |-> 0]
  /\ roster = [m \in Members |-> Nobody]
  /\ known = [m \in Members |-> Nobody]
  /\ changes = 0
  /\ behind = {} /\ readded = {}
  /\ outdated = {} /\ early = {} /\ unsaid = {}

Step(c) == Save(c) \/ Enter(c) \/ Reply(c) \/ Announce(c)

Receive(m) == TakeKicked(m) \/ TakeGone(m) \/ TakeUpsert(m) \/ TakeJoined(m)

Next ==
  \/ \E c \in Calls, m \in Members :
       \/ AskJoin(c, m) \/ CloseStranded(c, m)
       \/ \E x \in Members : AskUpdate(c, m, x) \/ AskKick(c, m, x)
  \/ \E m \in Members :
       \/ TimeOut(m) \/ Close(m) \/ Break(m)
       \/ Receive(m) \/ ServeList(m) \/ TakeList(m)
  \/ \E c \in CallIds : Step(c)

Spec == Init /\ [][Next]_vars
-----------------------------------------------------------------------------
(* Properties.                                                             *)

\* Everything saved so far has been announced, and nothing is on its way to page m.
Quiet(m) == /\ \A c \in DOMAIN call : call[c].pc \notin {"announce", "enter"}
            /\ wire[m] = <<>> /\ answer[m].is = "none"

\* What the list should say of x.
Truth(x) == IF x \in active THEN saves[x] ELSE 0

\* A page in the room to which nothing is on its way lists exactly the active
\* participants, each as it was saved last, whatever joins, changes, kicks, departures
\* and the HTTP list crossed; unless the last thing it was told of one was older than
\* what it had been told before, the acknowledgement of its own kick re-added it, or
\* the page has missed its newest save, which was never announced: a departure before
\* the gateway knew the room, or a request of a page whose connection came back.
RosterIsTrue ==
  \A m \in Members : Quiet(m) /\ page[m] = "in" =>
    \A x \in Members :
      \/ roster[m][x] = Truth(x)
      \/ <<m, x>> \in behind \union readded
      \/ x \in unsaid /\ known[m][x] < saves[x]

\* The participant a page believes itself to be, which decides whether its microphone
\* and camera are on, is the one saved last, unless the last thing it was told was older,
\* the host changed it before its join was acknowledged, or the host's change was never
\* announced.
MeIsTrue ==
  \A m \in Members : Quiet(m) /\ page[m] = "in" =>
    me[m] = saves[m] \/ m \in outdated \union early \union unsaid
=============================================================================
