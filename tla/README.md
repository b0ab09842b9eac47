# WebLive: a TLA+ verification of rooms, presence and their clients

The repository is a live-conference system: a NestJS backend (`src/backend`)
with PostgreSQL through TypeORM and a Socket.IO gateway, and an Angular client
(`src/frontend`). People sign in, a host creates a room and ends it, guests join
with an access code, switch microphone, camera and raised hand, are moderated or
kicked by the host, chat, watch a shared scene and exchange WebRTC signals.

This directory holds TLA+ modules of that code, TLC configurations that check
them on small instances, and proofs for every size of instance.

## The system

| Component | State | Operations | Hard part |
|---|---|---|---|
| `participants/` service and controller | table `participants`: role, socket, three settings, `leftAt` | join, leave, leave by socket, update, moderate, kick, count, list | every operation is find, edit in memory, `save()`: two awaits with no transaction or lock |
| `websocket/realtime.gateway.ts`, presence | `client.data` of each socket, Socket.IO rooms | connect, disconnect, join-room, leave-room, toggles, moderation, kick | several awaits per handler; a disconnect runs beside the socket's other handlers; a restart loses all of it |
| same, scene | `sceneStates`, a map in memory | room-scene-update, the scene in the join acknowledgement | an older scene or count may reach a client after a newer one |
| same, signaling; frontend `WebrtcService` | a map of peer connections per client | offer, answer, ICE relay; track replacement | handlers interleave at awaits on one connection; signals before initialisation |
| frontend `RealtimeService`, `ConferenceComponent`, `BroadcastViewComponent` | roster, own participant, messages, scene, count | socket events, acknowledgements with a time limit, HTTP snapshots | order of events, acknowledgements and snapshots; a reconnection that joins nothing |
| frontend `MediaDevicesService` | local streams and tracks | start, mute, share, stop | permission prompts answered at any time, even in another visit; effects that run late |
| `chat/` | table `room_messages` | save, list the newest 50 | checks before the save; broadcast, acknowledgement and history cross |
| `users/`, `auth/`, `rooms/` and their pages | tables `users` and `rooms`, JWTs, the list and the form of the users page | register, login, admin changes, create and end rooms | every check is made before an await; a role in a token outlives a change; a form and an entity are old when they are saved |
| pages for joining, video elements, configuration | forms | HTTP calls | none |

| Module | Models | Run | Proofs |
|---|---|---|---|
| `Presence` | the table `participants` and the gateway's bookkeeping | `presence_joins`, `presence_moderation`, `presence_gone`, `presence_kick`, `kick_undone` | `PresenceProofs` |
| `RoomFeed` | the shared scene and the spectator count, from the gateway to the pages | `feed` | `RoomFeedProofs`, `SyncProofs` |
| `SceneBoard` | abstract: what the scene promises; `RoomFeed` implements it | `feed` | `RoomFeedProofs` |
| `Signaling` | how two pages connect | `signaling` | `SignalingProofs` |
| `Roster` | the list of participants each page shows | `roster` | `RosterProofs` |
| `LocalMedia` | camera, microphone and screen of one browser | `local_media` | `LocalMediaProofs` |
| `Chat` | the messages of a room | `chat` | `ChatProofs` |
| `Accounts` | users, rooms, tokens and the pages about them | `accounts`, `user_undeleted` | `AccountsProofs` |

They meet in two places. The gateway calls `ParticipantsService` and keeps what it
learned in `client.data`; the controllers call the same service without a socket.
And every handler that touches a row does so through `Repository.save`, which
re-reads the row and updates the columns in which the entity, read earlier,
differs from it.

What makes each part correct, and where it could go wrong, is the list `hazards`
of `PROJECT.json`, one entry per line of code.

The modules are coupled through abstractions, not composed: `Roster` and `Chat` take a
row's `find` and `save()` as one step and leave its races to `Presence`; `LocalMedia`
lets the backend announce any settings at any time, which covers whatever `Presence`
and `Roster` say of them; `Signaling` takes lists and joins as steps of their own, for
the order in which a page's row, list and acknowledgement come. Composed, the state
spaces would multiply without a property that needs it.

Several properties have an exception, kept in a history variable: the code really
does go wrong there, and the property says that it goes wrong in no other way. Each
exception was found as a counterexample to the property without it.

## Presence

`Presence.tla` models the first two rows of the table, `RoomsService.endRoom`, and
the client's reaction to `participant-kicked`.

A handler in flight is a record in `call`; its `pc` names the await it waits at:

| `pc` | Action | Code |
|---|---|---|
| check | `CheckRoom` | `findJoinableRoom` and the access code, `participants.service.ts:31-39` |
| peek | `Peek` | `findActiveById` of the gateway's kick, `realtime.gateway.ts:244` |
| find | `Find`, `FindNothing` | the `findOne` and the assignments after it |
| load | `Load` | first half of `save()`: re-read, compute the differing columns |
| write | `Write` | second half: `UPDATE` of those columns |
| insert | `Insert` | `save()` of a created entity |
| enter | `Enter` | `client.data`, `client.join`, `realtime.gateway.ts:142-144` |
| exit, count | `Exit`, `Count` | `realtime.gateway.ts:173-190`, with the spectator count that throws in an ended room |
| emit | `Emit` | the announcement; for a kick, `participant-kicked` to the socket read by `Peek` |

The edits are `Rejoined`, `Toggled` and `Gone`, chosen by `Edited`; the conditions of
the `findOne`s are `Matches`. Requests (`Ask...`) come from authenticated sockets and
from HTTP, for any participant id in the table: the code has to refuse the wrong
ones. Over HTTP a join and an update may also carry a `socketId`, which is stored
unchecked (`join-room.dto.ts:12-15`, `participants.service.ts:54-55`, `:77`, `:136-138`):
the socket of anybody, a string that no connection has (a socket that never opens), or
none, and an update with `null` unbinds the row. `Drop` is the transport closing; it starts `handleDisconnect` (slot: the socket
itself) beside whatever else the socket has in flight. `Crash` is a restart.

| Variable | Code |
|---|---|
| `status` | `rooms.status` |
| `row` | the table `participants`; `left` is `leftAt IS NOT NULL`, `on` the three Boolean columns |
| `conn`, `inRoom` | Socket.IO connections and the rooms they are in |
| `data` | `client.data.roomSlug` and `participantId` |
| `notice` | sockets that have been sent `participant-kicked` |
| `crashes`, `raced`, `claimed` | bound on restarts; history of the races that can duplicate a row, and of who named another user's socket over HTTP |

Abstractions: names and timestamps are left out; `usersService.findById` and the
access-code comparison read nothing that changes and are part of `CheckRoom`; a
microtask (`await client.leave` with the in-memory adapter) is not an interleaving
point; broadcasts that change no backend state are left out, only their place as a
step remains. `endRoom` is one step: no other code writes the table `rooms`.

### Properties

| Property | Says | Kind |
|---|---|---|
| `TypeOK` | types | invariant, proved |
| `DuplicatesNeedARace` | two active rows of a user in a room only after two of their joins were both past their `findOne`, or a stale `save()` re-opened a row | invariant, proved |
| `LeftStaysLeft` | a closed row without an open copy in flight stays closed | action, proved |
| `OffUntilAskedOn` | a setting off in the row and in all copies goes on only by a request for it | action, proved |
| `ChangesAreAuthorised` | a row is changed by its user, its user's socket, or moderation of its room's host (`backend/README.md:238`); or by the disconnect of a socket that its user has named over HTTP | action, proved |
| `OnlyAdmittedListen` | a socket is in, and bound to, only rooms its user may enter, and to the user's own row | invariant, proved |
| `EndedRoomStaysDrained` | an ended room without active rows or joins past their check stays so | action, proved |
| `DropClosesRow` | the row of a dropped socket is eventually closed or taken over by another socket, unless the backend restarts or HTTP requests bind or unbind rows meanwhile | liveness, TLC |
| `KickEvicts` | the socket that carried a kicked row is eventually disconnected, though the kick clears the column | liveness, TLC |

Some things the documents or the pages say do not hold. One has a run that must find
the violation, `KickedIsOut` (`kick_undone`): a raise-hand reads the row, the host's
kick saves, the raise-hand saves. `leftAt` is null in its entity and not in the re-read
row, so the `UPDATE` re-opens the kicked row (`participants.service.ts:140`).

Two are exceptions of properties. A mute is undone in the same way; this is why
`OffUntilAskedOn` speaks of settings that are off in all copies, as `LeftStaysLeft`
speaks of rows without an open copy. And when a connection closes while its join is in
flight, `leaveBySocketId` finds nothing, and the join then saves the dead socket's id:
an active row, counted under "Espectadores conectados" if a spectator's, that no
disconnect closes. `DropClosesRow` is about the drops without a join in flight: for the
others nothing in the code closes the row, so no property covers that hazard.

The exception of `ChangesAreAuthorised` is what the unchecked `socketId` comes to: who
binds a row of one's own to another user's connection has that row closed when that
connection ends (`leaveBySocketId` looks for the socket alone). The row that changes is
the one of the user who named the socket.

### Runs and bounds

All runs of `Presence` use `MCPresence`: a host and a guest, who is invited to room `r1` only.
Safety runs use the symmetry of handler slots, ids and the guest's connections.

| Run | Instance | Why it is enough |
|---|---|---|
| `presence_joins` | one room, two guest connections, two ids, two slots; join, re-join, HTTP kick | two overlapping joins are needed for a duplicate, and two ids to hold it; disconnects have slots of their own, so up to four handlers overlap |
| `presence_moderation` | the host's socket (join, moderate, kick), the guest over HTTP (join, update, moderate) naming that socket or none, one id, two slots, one setting | the setting is per row and per column, so one of each; a row bound to somebody else's socket, whose disconnect races two requests |
| `presence_gone` | two rooms, two guest connections, two ids, one slot, HTTP kick, a restart | a room to be refused in and a room that ends; the drop races one other handler and the user's other connection; with fairness. Nobody names a socket over HTTP here, so those exceptions of `DropClosesRow` are not exercised, and a connection is in one room only: that one in two rooms hears nothing it should not is left to the theorem `ListenersAreAdmitted` |
| `presence_kick` | host and guest sockets, one id, two slots, no HTTP | the kick races a leave, a drop, a re-join, another kick |
| `kick_undone` | host and guest sockets, one id, two slots, no HTTP | counterexample |

`HttpOps` says who may ask for what over HTTP in a run: the host kicks (`HostKicks`, in
`presence_joins` and `presence_gone`), the guest joins, updates and moderates
(`GuestNames`), or nobody. The theorems hold for any `HttpOps` and `SocketOps`. `RoomForJoin` keeps new joins within `Pids` (a join whose row closes under it when no id is
left stays at its `INSERT`), `Calls` bounds concurrent requests, `Endable`
and `MaxCrashes` bound room ends and restarts. `CHECK_DEADLOCK FALSE`: all
connections may close and nobody has to ask for anything.

Fairness (`FairSpec`) is weak fairness of each handler's next step, since Node runs
every continuation and PostgreSQL answers every query, and of the kicked client's
handler, since its page is open while its socket is. Requests, connections, drops,
room ends and restarts are never forced. A query that fails is not modelled.

## RoomFeed

`RoomFeed.tla` models what the members of one room are shown: the scene (layout,
colours, texts, a video and the last command to it) and the number of spectators.
The gateway keeps the scene in memory and counts spectators by a query; a page
learns both from the acknowledgement of `join-room` and from broadcasts.

A scene is a function from fields to the edit that set each last. Packets to a
page stay in order (`wire`): Socket.IO sends them over one WebSocket. A handler runs
from await to await:

| `pc` | Action | Code |
|---|---|---|
| save | `Join`, `Depart` | the service's `joinRoom`, `leaveRoom`, `leaveBySocketId`, with the gateway's branch after a departure |
| enter | `Enter` | `client.data`, `client.join`; without a count to announce, the scene of the acknowledgement |
| count, tell | `Count`, `Tell` | `emitSpectatorCount`, `realtime.gateway.ts:452-456`: the query, then the broadcast |
| recount, reply | `Count`, `Reply` | the acknowledgement, `:154-161`: its scene is read before its count is awaited |
| apply | `Apply` | `handleRoomSceneUpdate` after `assertRoomHost` |

| Variable | Code |
|---|---|
| `rows`, `ended` | active participants of the room, `rooms.status` |
| `slugged`, `inRoom` | `client.data.roomSlug`, the Socket.IO room |
| `scene` | `sceneStates.get(slug)`; `ver` counts its updates |
| `page`, `tries` | joining, failed, in, closed: `joinRoom` and its time limit |
| `screen`, `last`, `count` | the scene shown, `lastSceneMediaCommandId`, `spectatorCount` |
| `changes`, `ran`, `behind` | history: changes of the active spectators, commands run from packets, pages an older packet has set back |

Requests: `AskJoin` (the broadcast page may try again on the same socket), `TimeOut`,
`Edit` (the host's page shows its edit and runs its own command before it publishes),
`Close` (`leave-room` if the page was in, and the disconnect beside it).

Abstractions: the find and the `save()` of presence are one step, their races being
`Presence`'s subject, and so are the two queries of a count; the acknowledgement of an
update follows its broadcast without an await and carries the same scene, so `Apply`
sends one packet; the effects of a page run after each packet (Angular may merge two
that arrive together, then the older scene is not shown at all); a connection does not
break by itself (closing is the page's), and the server does not restart.

### Properties

| Property | Says | Kind |
|---|---|---|
| `TypeOK` | types | invariant, proved |
| `Synced` | a page in the room that has received everything sent to it shows the server's scene in every field, whatever edits, joins, retries and broadcasts crossed | invariant, proved |
| `BroadcastScenesMoveOn` | every broadcast scene is newer than what the page shows and than all scenes on their way before it | invariant, proved |
| `CommandsRunOnce` | a guest's page runs each media command at most once, though every later scene repeats it | invariant, proved |
| `FollowsTheBoard` | the feed implements `SceneBoard` | refinement, proved |
| `EverySceneArrives` | a version of the scene, or a later one, reaches every page that stays | liveness, TLC |
| `CountIsTrueInOrder` | a page in the room shows the number of active spectators once every saved join and departure has been announced and has arrived | invariant, proved |

`Synced`, `CommandsRunOnce`, `EverySceneArrives` and `CountIsTrueInOrder` make an
exception for pages in `behind`. The exception is real: the join acknowledgement reads
the scene, then awaits its count (`realtime.gateway.ts:156-158`), so a scene broadcast
in between reaches the page first and is then overwritten by the older one, until the
next update. `BroadcastScenesMoveOn` says that only an acknowledgement can do this.

For the count the same happens between two broadcasts: two handlers await their counts
at once and broadcast in the other order (`realtime.gateway.ts:453`); every page goes
on showing the older number under "Espectadores conectados". `CountIsTrueInOrder`
excepts a page whose last count was such an older one.

`CountIsTrueInOrder` also assumes that nobody has tried to join twice. TLC shows why: a
spectator's first join times out but is in flight, the second succeeds, the page
closes; the first join re-opens the row after `leave-room` closed it, the leave clears
`client.data.roomSlug`, and the disconnect closes the row without a count.

### The board

`SceneBoard.tla` says what the scene promises, without handlers and packets: the host
posts versions on a board, a member enters once, with some version that has been
posted, and from then on sees only versions that are not older than the one it saw.
`FollowsTheBoard` instantiates it with the server's version, the version each page shows,
and the pages that have been acknowledged. A late acknowledgement that a page still
applied would be a second step back; the time limit of `joinRoom`, which drops it, is
what the refinement depends on.

### Run and bounds

`feed` has a host and a spectator, two slots, one edit and two joins of each page, with
fairness. The spectator's two joins, or a join and an edit, cross; a leave and a
disconnect run beside them; the room ends. One edit beside the default scene suffices
for a page to be behind, and an acknowledgement repeats the edit's command; the edit
leaves the other one of two fields alone. What two edits do to each other is left to the
theorems. Fairness is weak, of each handler's next step (Node and PostgreSQL go on) and
of a delivery on an open connection. `CHECK_DEADLOCK FALSE`: everybody may leave.

## Signaling

`Signaling.tla` models how the pages of a room connect: the relay of the gateway,
`emitSignal` and the incoming signals of `RealtimeService`, and `WebrtcService`. A page
joins, asks for its list and its media, and then offers a connection to everybody on
the list.

An `RTCPeerConnection` runs the operations called on it one after the other; `chain` is
that queue, and a handler awaits each operation and then calls the next one, so that two
handlers on one connection interleave. An operation in the wrong signaling state rejects,
which ends its handler. An offer that meets an offer of one's own rolls that one back.

| Variable | Code |
|---|---|
| `page`, `rows`, `bound`, `list` | `RealtimeService.roomSlug`; the socket's row, `client.data.roomSlug`, the HTTP list: a page is in others' lists before it is acknowledged |
| `media`, `ready`, `stream` | the promise of `getUserMedia`, `WebrtcService.roomSlug` (`initialize`), `localStream` |
| `peer`, `chain`, `shown` | `peers` with the state of each connection, its queue, `remoteStreams` |
| `up`, `down` | signals and acknowledgements on each socket, in order |
| `offered`, `rolled`, `lost`, `early` | history: a page offers once; the exceptions |

| Property | Says |
|---|---|
| `SettledPagesAreLinked` | with nothing on its way between the two, two participants that have offered are connected, in one session, in whatever order they joined, listed, answered prompts and signalled, unless both rolled back; so are a participant and a spectator that found it |
| `OneEndIsReachable` | with nothing on its way between the two, of two connected pages one knows the other's candidates, though those before `initialize` and before the description are lost |
| `CandidatesAreTimely` | a candidate is never added before the description it belongs to, unless an answer was dropped |
| `HeardUnlessEarly` | a participant with a stream is heard at the other end as soon as the two ends agree, unless it made the connection before it had the stream |

The exceptions are real. Two participants that each roll back end up unconnected if both
answers then meet a stable connection. A page whose offer arrives while its user is
still at the permission prompt makes a connection without tracks; `updateLocalStream`
adds them later, but nobody renegotiates. An answer made before the acknowledgement of
the join is not sent (`emitSignal` has no room). And a spectator that joins before a
participant is connected to nobody: the spectator found nobody to offer to, and the list
of the participant leaves spectators out.

The run has two pages, each a participant or a spectator. The code handles each pair of
pages by itself, but for lists, media and joins, which are the page's: a third page adds
nothing to a pair. The theorems do not depend on that argument: they hold for any number
of pages, and all four properties and `TypeOK` are proved. Deadlock is not checked, as everybody may settle or leave. A person
who comes back has a new page with a new socket. Renegotiation does not exist in the
code; the transport of media is the browser's, apart from the loss of a connection.

## Roster

`Roster.tla` models the list of participants each page shows. A handler of the gateway
saves a row, announces what it saved, and acknowledges its caller; a page applies packets
one by one, and once, after its join, replaces the list by the answer of an HTTP request.
A row is the number of times it was saved.

| Variable | Code |
|---|---|
| `active`, `saves`, `slugged`, `inRoom` | rows, `client.data.roomSlug`, the Socket.IO room |
| `call`, `wire`, `answer` | handlers, packets, the HTTP request of each page |
| `page`, `me`, `roster` | state, `participant` and `participants` of `RealtimeService` |
| `known`, `behind`, `readded`, `outdated`, `early`, `unsaid` | history: what a page has been told, and the exceptions |

`RosterIsTrue`: once what was saved has been announced, a page in the room to which nothing
is on its way lists exactly the active participants, each as saved last. Exceptions: what
it was told last was older than what it had been told before (handlers announce in the
order they resume; the HTTP list may be old); the acknowledgement of a kick re-adds the
kicked participant (`realtime.service.ts:299`); the newest save was not announced and the
page has not heard of it otherwise (`unsaid`). `MeIsTrue`: the participant that a page
believes itself to be, which switches its tracks, is the one saved last; exceptions: the
last thing told was older, the host changed it before the join was acknowledged, or the
change was never announced.

A save goes unannounced in two ways. A socket drops before `client.data` is set. Or the
page is stranded: `Break` is the transport breaking; Socket.IO reconnects with another
socket (`realtime.service.ts:62-66`), which joins nothing, and the page goes on as if it
were in, with its participant and its list. It still updates, moderates and kicks
(`AskUpdate`, `AskKick`; the request is marked `again`), and leaves (`CloseStranded`); the
gateway saves and acknowledges, a kick also reaches the kicked socket, but
`emitParticipantUpdated` and the kick's broadcast return early, since the new socket has no
`client.data.roomSlug` (`realtime.gateway.ts:251-257`, `:343-347`, `:437-445`; `Loud` in the
model). So the others, and the guest who was muted, go on showing the row as it was.
What a stranded page lists and believes itself to be is not claimed.

The run has a host and a guest, two handlers besides disconnects, two updates or kicks: two
announcements about one row are what can be swapped, and a list that crosses one of them.
The connection of the host may break (`Fragile`), once, and from "in" only; it is the host
who can change other rows when stranded. An emit that Socket.IO buffers until it has
reconnected is a request of the stranded page. Acknowledgements of updates and kicks do not
time out: a late one would only be missing. Closing a page forgets the history about it.
Both properties and `TypeOK` are proved for any number of members, fragile or not, updates
and kicks.

## LocalMedia

`LocalMedia.tla` models `MediaDevicesService` and what `ConferenceComponent` does with it,
over several visits of one person to conference pages. The service outlives the page, and
prompts are answered whenever the person likes, so what follows an `await` may happen in
another visit. The page's effect on `me()` is scheduled and runs later (`dirty`).

| Variable | Code |
|---|---|
| `camera`, `screen`, `stream`, `sharing` | `cameraStream`, `screenStream`, `stream`, `screenSharing` |
| `running`, `enabled` | tracks that have not been stopped; `track.enabled` |
| `prompts`, `asked` | promises of `getUserMedia` and `getDisplayMedia` |
| `page`, `visit`, `me`, `shown`, `waiting`, `dirty` | the page, `participant`, `micEnabled` and `cameraEnabled`, toggles without acknowledgement, the scheduled effect |
| `unsure`, `late`, `crowded` | history: the exceptions |

`TracksFollowTheSettings`: on a page in its room with no effect to run, a track that
captures is on exactly if the participant's setting is, also while a screen is shared
and after; exceptions are a toggle without an acknowledgement (the code changes the
tracks first and does not change them back) and a stream that arrived after the settings
were applied (it starts switched on, whatever the participant's settings say).
`LeavingReleases`: leaving stops every capture, unless two prompts of one kind were open
at once, or one for the screen while a screen was shared; then the second stream replaces
the first one, which nobody stops. The last case needs five prompts: a screen prompt of an
earlier visit is granted, then the camera prompt of a later share, which goes on to a
second screen prompt. It is out of the run's bounds; the attempt to prove the property
found it.

The run has two visits, three prompts and one open toggle: a prompt of the first visit is
answered in the second one beside its own two. The theorems hold for any number.

## Chat

`Chat.tla` models the messages of a room: two awaited checks, the save, the broadcast and
the acknowledgement; and the page's list, which the history replaces once, and form.

| Variable | Code |
|---|---|
| `open`, `active`, `inRoom`, `messages` | room status, active rows, the Socket.IO room, `room_messages` |
| `call`, `wire`, `history` | handlers, packets, the HTTP request for the history |
| `page`, `shown`, `draft`, `sending` | the page, `messages`, `chatMessage`, `sendingMessage` |
| `doubtful`, `cut`, `early`, `over` | history: the exceptions |

| Property | Says |
|---|---|
| `NothingIsMissed` | a page that got everything announced so far misses no saved message, unless its list is full or an older history replaced the message |
| `ShownInOrder` | a page shows a message once, and one person's messages as they were saved, unless one was sent again without an acknowledgement or came after a history it was too old for |
| `SaidOnce` | a text is saved twice only if its sender was not told in time |
| `LastWords` | nothing is saved after the room ended or the sender left, but by a handler past its check |

Counterexamples that led to the exceptions: the history, requested before a message is
saved, answers after its broadcast and removes it from the list; a broadcast delayed past
a full history appends an old message at the end; a message that timed out but was saved
is sent again from the box that still holds it. The acknowledgement also empties the box
when something new has been typed meanwhile; that is in the model (`TakeAck`) and no
property forbids it. One more was out of the run's bounds, and the attempt to prove
`ShownInOrder` found it: a message that a full list has dropped is added again, at the
end, when its acknowledgement or its broadcast, whichever was second, arrives
(`upsertMessage` looks for the id in the list only). With lists of two and three messages
in all this cannot be; TLC shows it with lists of three and four messages, without any
fault. `cut` therefore also holds what a full list has dropped.

The run has two people, two texts, three messages, lists of two (50 in the code) and one
fault: a time-out, a departure, a kick or the end of the room. A connection that breaks
and comes back is left out here; `Roster` has it. All four properties and
`TypeOK` are proved for any number of each and any length of the list.

## Accounts

`Accounts.tla` models `UsersService`, `AuthService` and `RoomsService` with the users page,
the dashboard and the session. A request is a handler that awaits the database between
its checks and its save; the lookups before a save are one step. Each user has one
browser with a token that carries the role it was issued with; an admin has a list and a
form, filled when they were loaded.

The users page opens in two requests: `LoadProfile` (`GET /auth/me`) reads the row and sends
away who is not an active admin, `LoadUsers` (`GET /users`) asks the token alone
(`users-admin.component.ts:52-66`, `:178-183`). Between them the row may change, so that an
admin may find oneself inactive on the list and press "Activar", which has no check for
oneself (`:122-127`). A page is left by signing out or by being sent away. `save()` writes what was loaded, with the fields of
the request, and inserts a row that is not there any more (TypeORM).

| Variable | Code |
|---|---|
| `row`, `rooms` | tables `users` and `rooms`; `at` (history) counts the saves of a row |
| `token`, `visit`, `list`, `form` | role in `AuthTokenService.token`; how far the users page has come (asked for the profile, shown, open), its `users` and its `form` |
| `call` | handlers; `meant` and `base` (history) say what the person changed, and from what |
| `used`, `deleted`, `misrule` | history: ids given, removed; a change by somebody who was no active admin then, or about oneself that took the role or access away in the form or wrote back an older row |

| Property | Says |
|---|---|
| `NamesDiffer` | two users never have one address, two rooms never one slug: the constraints of the migration, not the checks, see to it |
| `SomeoneGoverns` | there is always an active admin, unless `misrule`: the form does not refuse to take one's own role or access away, "Activar" on oneself may write back a row read before another admin's change, and a token outlives a demotion or a deletion |
| `ChangesAreMeant` | a saved request changes only what its sender changed, unless the row was saved again after the form, or the handler, had read it |
| `DeletedIsGone` | violated (`user_undeleted`): an update that loaded a user before the delete saves it afterwards, and the user is back, though the page says "Esta accion no se puede deshacer." |

The run has two admins, a third id, one free address, two handlers, three requests and two
rooms: two admins acting on each other is the case that matters for `SomeoneGoverns`, and
an edit, a second edit and a delete of one row for the others. `Visitors` bounds who opens
the page (the two admins), `NewActive` the access of the users they create (active); both
are arbitrary in the proofs. An edit changes at most one field of the form. An admin who finds oneself inactive
and switches oneself on is in the run; that this writes an old role back after the same
admin has removed the last other one takes about six requests, beyond the run's three, and
is covered by the theorem `SomeoneRemains`, which holds for any number. An answer is applied
by its page as soon as the handler is done. The requests are those that the pages send: the
backend itself refuses nobody a change to oneself (`users.controller.ts`), and a client of
one's own making is not modelled. All but `DeletedIsGone` are
proved, and so is `TypeOK`.

## Proofs

Every safety property of every passing run, invariant, action property or refinement, is
the statement of a theorem, for every value of the constants. The theorems assume of the
constants only what each module's `ASSUME` says, and TLC evaluates that on every run.
Each proof names an invariant, shows that it holds initially and that every action keeps
it, one lemma per action, and concludes the property from it. TLC checked the invariants on
the runs before they were proved.

`PresenceProofs`, from `PresenceAssumption`:

- `Typed`: `TypeOK` is not inductive. `Shape` adds what a stage says of the record
  (a handler at "write" has a row id in the table and a row as its entity; only a
  join is at "insert", only a leave at "exit").
- `DuplicatesOnlyByRace`: needs `RaceInv`, that a pair with a join about to insert has no
  active row, unless raced. `OthersStay` says that a step of one handler leaves the
  others alone.
- `LeftIsFinal`, `OffIsKept`: from two facts on any step. `NextCopies`: a copy is the one
  held before, or was just read from the row. `NextRows`: a row changes only by the
  write of a copy. Neither property needs more invariant than `Typed`.
- `RowsChangeByTheirOwners`: needs `AuthInv`, that a socket in a request, a row or a copy
  belongs to the row's user or is one that this user has named over HTTP (`claimed`), and
  that a copy is held only by who may act on its row: a disconnect finds its row by socket
  alone. `ClaimsStay` says that what was named stays named.
- `EndedIsFinal`: adds `NextNewRow` and `NextHandlers`, what a step may do to a join.
- `ListenersAreAdmitted`: needs `AdmitInv`, that a join past its check is of an admitted
  user, on that user's connection, and holds a row of its own pair (`JoinPair`).

`RoomFeedProofs` and, on top of it, `SyncProofs`, from `FeedAssumption`:

- `FeedTyped`: with `ShapeOf`, what an operation says of a handler's stage.
- `ScenesMoveOn`: `BroadcastScenesMoveOn` is not inductive, as an acknowledgement may
  carry any scene a handler holds. `OrderInv` bounds every scene, on pages, in packets
  and in handlers, by the server's version; `AppendOrder` and `TailOrder` are the two
  lemmas on queues, `NextScenes` says where a handler's scene comes from,
  `NextVersion` that the server's version only grows.
- `PagesAreSynced`: `Synced` speaks of pages that have received everything, so its
  invariant `SyncInv` says where the server's scene is for every other page in the
  room: broadcast and on its way (`Coming`), shown (`Shown`), in the acknowledgement the
  page waits for (`Awaited`), or lost to an older packet. A page outside the room has
  been sent nothing (`Outside`), so that it enters as `Awaited`. `OneScene` says that a
  version names one scene, and takes the bounds of `OrderInv`; `Slots`, that the slot of
  a disconnect never holds an edit.
- `CommandsOnce`: `CommandInv` adds to `CommandsRunOnce` that a replaced command does not
  return (`Timeline`: among all the scenes that exist, in pages, packets, handlers and the
  server, the versions with one command are an interval), that an edit on its way is in no
  scene and has been run nowhere (`Fresh`), that a page's last command is its scene's
  (`LastRan`), and that the commands before it are in no scene the page may still move
  forward to (`Over`).
- `FeedImplementsBoard`: every step of the feed maps to a step of `SceneBoard` or a
  stutter. It takes `OrderInv`: the packet at the head of a queue is a scene the server
  has had (`HeadInOrder`), and newer than the page's unless it is an acknowledgement.

- `CountIsShown`: a count carries, as history, the number of changes it was read after, and
  `Snaps` says that a number read after the last change is the number there is. `HeardInv`
  says where that number is for each page that listens: shown, on its way, in a handler
  that will tell it, or lost to an older broadcast. It holds because each member joins only
  once (`OneJoin`), so that no row comes back behind a leave (`Leavers`) and a spectator's row
  without a slug belongs to a join that is about to announce it (`Entering`): the case that
  the hypothesis of the property leaves out is exactly where these three fail.

`LocalMediaProofs` proves all three properties of `LocalMedia` from one invariant,
`MediaInv`: `TypeOK`; `Streams`, that the current stream is the camera's or the shared
screen with the camera's microphone; `Tidy`, that whatever the next granted prompt would
replace has been stopped; `Followed`, that every track of the camera is as its setting is
shown, and what is shown is `me` unless the effect is to run. `TracksFollowTheSettings`
alone is not inductive, since it says nothing of the camera behind a shared screen or of
a page whose effect has not run.

`RosterProofs` proves both properties from one invariant, `RosterInv`. The argument is about
news: what a page knows of a participant is the newest version, or a handler will announce
it, or a packet brings it, or the list does that the page has asked for (`NewsInv`; `MeInv`
for its own row, which the list does not set). `ListInv` says that a page that knows the
newest version lists it, `VersionInv` that whatever tells of the newest version tells the
truth, `KickInv` that a page whose row was closed under it will hear so. These need to know
who can still speak: each page joins once (`JoinInv`), and which stages a handler can be in
(`ShapeInv`, `PageInv`); a handler of a stranded page announces nothing, so that what it
saved is `unsaid` when it ends, if it is the newest. `AskChangeStep`,
`LeaveStrandedStep` and `AnnounceStep` are the steps in which this matters. `TypeOK` bounds the saves of a row, which `CountInv` proves by counting
the changes that are still to come: the handlers that have not saved, the join and the
departure.

`ChatProofs` proves all properties from `ChatInv`.

- `MissesNothing`: `NewsInv` has a place for every message and every page: shown, about to be
  announced, on its way, in the history (`HistoryInv`: that was the newest messages when it
  was read), or excused.
- `OrderIsShown`: `OrderInv`, for two messages of one person none of whose requests is in
  doubt. The page's button is disabled while a request is open, so the first is announced
  before the second is saved (`CallOrder`), arrives before it (`WireOrder`), is shown before
  it (`ShownOrder`) and nothing older arrives later (`LateOrder`).
- `TextIsSaidOnce`: there is an injection from saved messages to requests (`SavedInv`), and
  nobody asks for a text twice but after a doubtful request (`FormInv`).
- `LastWordsOnly`: a handler that has passed a check which would fail now is marked (`CheckInv`).

`SignalingProofs` has two invariants. `PagesInv` is about single pages: types, what a page's
state says of its socket (`PageInv`), that nobody signals to itself, that of two participants
one finds the other (`ListInv`: each row is there before its owner's list is read), and that
whatever a page sends has media unless its connection was made early (`MediaInv`).

`PairsInv` is about any two pages. The route from `a` to `b` is one queue: what `b`'s connection
to `a` has still to do, then the packets on their way down to `b`, then those on their way up
from `a`. Without it the invariant would distinguish where each signal is; with it, most
steps move the head of one route or append to it, and a relay changes no route.

- `SideInv` is about one direction and holds even when the other page has gone: candidates
  come behind the description they belong to, and the description is there, known, or was
  lost. `CandidatesFollow` follows from it.
- `SessionInv` holds while both are there. `TokenInv`: the session that `a` offers is in one
  place, being asked for, offered, replied to or answered. `PastInv`: a session that is
  over was offered, rolled back, answered or agreed upon. `DueInv`: what is still to come, so
  that no end waits for nothing. `CrossInv`: how two offers cross, and what each end is in
  when it has rolled back. `ReachInv`: one end will have the candidates of the other.
  `PagesAreLinked` and `CandidatesArrive` follow from these when nothing is on its way between
  the two, whatever the other pages do.

Each action has a lemma for the pair that it concerns; `OthersCalm` and `AllCalm` say that
any other pair sees nothing of it, because no component of its invariant changes (`Calm`).
`SignalingAssumption` says that `None` is neither a page nor a state of a connection.

`AccountsProofs` proves all safety properties of `Accounts` but the violated one, over `Shape`, which says that ids on
lists, forms and requests have been given. `AccountsAssumption` has at least one founder:
no code makes the first admin.

- `SavesAreMeant`: `MeantInv` says of every list, form and request that what it holds is
  `Recent`: it agrees with the row unless the row was saved again or removed. `RowsMoveOn`,
  that a row stays, is saved once more or goes, keeps it so.
- `SomeoneRemains`: `SomeoneGoverns` itself is inductive beside `Shape`, which has no claim
  about what a page shows of its own user. The sender of a save is an active admin or the
  save is marked; an active admin remains one after one's own save, of somebody else
  (`NewRowGoverns`) or of oneself, since a save about oneself that is not marked keeps the
  role and the access in the form, or writes back the row that is there
  (`SaveKeepsItsSender`).
- `NamesStayDifferent`: from the constraints; the checks before the save are not used.
- `AccountsTyped`: `TypeOK` bounds how often a row was saved and the number in a slug. A
  request saves at most once, so both are bounded by the requests that are done, wherever
  the row has been copied to: to lists, forms, and the entities of requests (`TypeInv`,
  `CountInv`). The proof corrected the bounds, which had been too tight for more requests
  than the run has.

Model-checked only: the liveness properties `DropClosesRow`, `KickEvicts` and
`EverySceneArrives`, whose fairness and ENABLED are beyond the prover. The two violations
(`KickedIsOut`, `DeletedIsGone`) have no theorem: TLC's counterexample is the result.

## Deadlock and fairness

Every cfg says `CHECK_DEADLOCK FALSE`: in each module people may leave, deny, or never
ask again. Fairness is stated for `Presence` and `RoomFeed` only, where liveness is
claimed, and is weak fairness of the steps that Node, PostgreSQL and an open connection
take by themselves. `Signaling`, `Roster` and `Chat` say what holds when nothing is on its
way any more; that this moment comes needs the same assumption. They mean by it only
what concerns the page (in `Signaling`, the two pages) the property speaks of: what has been
saved is announced and has arrived there; a request that has not been saved yet and the
traffic of other pages may go on.

## Not modelled

- The loss of the scene in a restart (every join then shows the default until the next
  edit), and restarts in the modules other than `Presence`.
- The cascade of deleting a user to participants and messages, guests, passwords, the
  expiry of tokens.
- A connection that breaks and comes back, but in `Presence`, where it is another socket,
  and in `Roster`: `RoomFeed`, `Signaling` and `Chat` have pages whose connection lasts
  until they close it.
- Requests about accounts other than those the pages send; the backend has no check against
  changing oneself.
- Database errors; a row deleted between `findOne` and `save`, but for users.
- HTTP answers of a page that was left reaching the next visit (two visits of one browser
  are modelled for the media only), and a guest login that replaces the session of
  somebody signed in.
- What a page of a kicked participant goes on doing: its connections and its media stay
  until it is closed.
- Whether a browser lets a remote video play with sound (`RemoteVideoComponent`), the
  YouTube players, copying links; hashing, validation, wording, layout, configuration and
  deployment: no state that another part depends on.
