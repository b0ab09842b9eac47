----------------------------- MODULE Signaling ------------------------------
(***************************************************************************)
(* How the pages of one room connect to each other: WebrtcService and the  *)
(* signals of RealtimeService (frontend/src), relayed by RealtimeGateway.  *)
(*                                                                         *)
(* A page joins, fetches the list of participants and, once it has its     *)
(* media, offers a connection to everybody on the list; whoever enters     *)
(* later and finds it on the list offers to it.  Offers, answers and ICE   *)
(* candidates travel over the gateway, in order from and to each socket.   *)
(*                                                                         *)
(* An RTCPeerConnection runs its operations one after the other, in the    *)
(* order in which they were called: `chain' is its queue.  A handler of    *)
(* WebrtcService calls an operation, awaits it and calls the next one, so  *)
(* the operations of two handlers on one connection interleave.  An        *)
(* operation in the wrong signaling state rejects, and its handler ends.   *)
(* A session is named by the page that offered it: a page offers at most   *)
(* once to each socket, and has a new socket when it joins again.          *)
(***************************************************************************)
EXTENDS Naturals, Sequences, FiniteSets

CONSTANTS
  Pages,   \* visits of a conference or broadcast page, each with its socket
  None     \* null

VARIABLES
  role,    \* participantRole of each page
  page,    \* new, joining, failed, in, closed; "in": RealtimeService.roomSlug is set
  rows,    \* sockets of the active rows of the table participants
  bound,   \* sockets whose client.data.roomSlug is set
  list,    \* sockets of the HTTP list a page has been sent
  media,   \* the promise of getUserMedia: asked, granted, denied
  ready,   \* pages that have run initialize (WebrtcService.roomSlug is set)
  stream,  \* pages whose WebrtcService.localStream is set
  peer,    \* the peers of each page
  chain,   \* the operations called on each peer and not completed
  shown,   \* remoteStreams
  up,      \* packets from each page to the gateway
  down,    \* packets from the gateway to each page
  offered, \* pages whose loadParticipantsAndConnect has run to its end, as it does once
  rolled,  \* history: pairs <<a, b>> where a rolled back its first offer to b
  lost,    \* history: pairs <<a, b>> where a answered b before a had joined
  early    \* history: pairs <<a, b>> where a made its peer for b without a stream

vars == <<role, page, rows, bound, list, media, ready, stream, peer, chain, shown,
          up, down, offered, rolled, lost, early>>

joining == <<role, page, rows, bound, list, media>>
rtc     == <<ready, stream, peer, chain, shown>>
wires   == <<up, down>>
notes   == <<offered, rolled, lost, early>>

\* sig: signalingState.  cur, pend: the session agreed upon, and the one in negotiation.
\* tracks: the senders have tracks.  hears: the remote description carries media.
\* ice: candidates of the first local description are still to be reported.
\* cands: remote candidates have been added.
Peer == [sig : {"stable", "have-local", "have-remote"}, tracks : BOOLEAN,
         cur : Pages \union {None}, pend : Pages \union {None}, hears : BOOLEAN,
         ice : BOOLEAN, cands : BOOLEAN]

ASSUME SignalingAssumption == None \notin Pages /\ None \notin Peer

Ops == {"createOffer", "setOffer", "setRemote", "createAnswer", "setAnswer",
        "applyAnswer", "addIce"}
Op  == [op : Ops, media : BOOLEAN]

\* media: the description in the payload carries media.
Signal == [kind : {"offer", "answer", "ice"}, to : Pages, media : BOOLEAN]
Packet == [kind : {"offer", "answer", "ice", "ack"}, from : Pages, media : BOOLEAN]

TypeOK ==
  /\ role \in [Pages -> {"participant", "spectator"}]
  /\ page \in [Pages -> {"new", "joining", "failed", "in", "closed"}]
  /\ rows \subseteq Pages /\ bound \subseteq Pages
  /\ list \in [Pages -> (SUBSET Pages) \union {None}]
  /\ media \in [Pages -> {"asked", "granted", "denied"}]
  /\ ready \subseteq Pages /\ stream \subseteq Pages
  /\ peer \in [Pages -> [Pages -> Peer \union {None}]]
  /\ chain \in [Pages -> [Pages -> Seq(Op)]]
  /\ \A a, b \in Pages : chain[a][b] # <<>> => peer[a][b] # None
  /\ shown \in [Pages -> SUBSET Pages]
  /\ up \in [Pages -> Seq(Signal)] /\ down \in [Pages -> Seq(Packet)]
  /\ offered \subseteq Pages
  /\ rolled \subseteq Pages \X Pages /\ lost \subseteq Pages \X Pages
  /\ early \subseteq Pages \X Pages

-----------------------------------------------------------------------------
(* Joining.                                                                *)

\* join of the conference page asks for the media first; a spectator has none.
AskJoin(a) ==
  /\ page[a] = "new"
  /\ page' = [page EXCEPT ![a] = "joining"]
  /\ UNCHANGED <<role, rows, bound, list, media, rtc, wires, notes>>

\* The row is saved: from here on the socket is in everybody's lists.
SaveRow(a) ==
  /\ page[a] # "new" /\ a \notin rows \union bound
  /\ page[a] # "closed"
  /\ rows' = rows \union {a}
  /\ UNCHANGED <<role, page, bound, list, media, rtc, wires, notes>>

\* client.data.roomSlug is set, and the join acknowledged.
Acknowledge(a) ==
  /\ a \in rows \ bound /\ page[a] # "closed"
  /\ bound' = bound \union {a}
  /\ down' = [down EXCEPT ![a] = Append(@, [kind |-> "ack", from |-> a, media |-> FALSE])]
  /\ UNCHANGED <<role, page, rows, list, media, rtc, up, notes>>

\* socket.timeout(5000): the page stays open, with its socket and its row.
TimeOut(a) ==
  /\ page[a] = "joining"
  /\ page' = [page EXCEPT ![a] = "failed"]
  /\ UNCHANGED <<role, rows, bound, list, media, rtc, wires, notes>>

\* findActiveByRoom reads the list, without the spectators.
ServeList(a) ==
  /\ page[a] = "in" /\ list[a] = None
  /\ list' = [list EXCEPT ![a] = {b \in rows \ {a} : role[b] = "participant"}]
  /\ UNCHANGED <<role, page, rows, bound, media, rtc, wires, notes>>

\* The user answers the prompt of getUserMedia.
Answer(a, answer) ==
  /\ role[a] = "participant" /\ media[a] = "asked" /\ page[a] \notin {"new", "closed"}
  /\ media' = [media EXCEPT ![a] = answer]
  /\ UNCHANGED <<role, page, rows, bound, list, rtc, wires, notes>>

\* Mutant: dispose clears the map and does not close the connections.
CloseWithoutClosing(a) ==
  /\ page[a] \in {"joining", "failed", "in"}
  /\ page' = [page EXCEPT ![a] = "closed"]
  /\ ready' = ready \ {a} /\ stream' = stream \ {a}
  /\ peer' = [peer EXCEPT ![a] = [b \in Pages |-> None]]
  /\ shown' = [shown EXCEPT ![a] = {}]
  /\ down' = [down EXCEPT ![a] = <<>>]
  /\ UNCHANGED <<role, rows, bound, list, media, chain, up, notes>>

\* ngOnDestroy: leaveRoom of RealtimeService, dispose.  What has been emitted is
\* delivered before the disconnect.
Close(a) ==
  /\ page[a] \in {"joining", "failed", "in"}
  /\ page' = [page EXCEPT ![a] = "closed"]
  /\ ready' = ready \ {a} /\ stream' = stream \ {a}
  /\ peer' = [peer EXCEPT ![a] = [b \in Pages |-> None]]
  /\ chain' = [chain EXCEPT ![a] = [b \in Pages |-> <<>>]]
  /\ shown' = [shown EXCEPT ![a] = {}]
  /\ down' = [down EXCEPT ![a] = <<>>]
  /\ UNCHANGED <<role, rows, bound, list, media, up, notes>>

\* leave-room, handleDisconnect: the row of a page that has gone is closed.
Depart(a) ==
  /\ page[a] = "closed" /\ a \in rows
  /\ rows' = rows \ {a}
  /\ UNCHANGED <<role, page, bound, list, media, rtc, wires, notes>>

-----------------------------------------------------------------------------
(* The peers of a page.                                                    *)

\* Mutant: a peer never sends.
RecvonlyPeer(hasStream) ==
  [sig |-> "stable", tracks |-> FALSE, cur |-> None, pend |-> None,
   hears |-> FALSE, ice |-> FALSE, cands |-> FALSE]

NewPeer(hasStream) ==
  [sig |-> "stable", tracks |-> hasStream, cur |-> None, pend |-> None,
   hears |-> FALSE, ice |-> FALSE, cands |-> FALSE]

Call(op, hasMedia) == [op |-> op, media |-> hasMedia]

\* Mutant: the peer there is is not looked up.
AlwaysNewPeer(a, b, hasStream) == NewPeer(hasStream)

\* getOrCreatePeer: the tracks of the local stream, or two recvonly transceivers.
PeerOf(a, b, hasStream) ==
  IF peer[a][b] = None THEN NewPeer(hasStream) ELSE peer[a][b]

\* initialize and connectToExistingParticipants, once the list and, unless the page
\* is a spectator's, the media have arrived, even if the page has closed.  The peers are
\* made, and createOffer is called on each, in one turn of the event loop.
Connect(a) ==
  LET sends == role[a] = "participant"
  IN  /\ list[a] # None /\ a \notin offered
      /\ offered' = offered \union {a}
      /\ sends => media[a] = "granted"
      /\ ready' = ready \union {a}
      /\ stream' = IF sends THEN stream \union {a} ELSE stream \ {a}
      /\ peer' = [peer EXCEPT ![a] =
                    [b \in Pages |-> IF b \in list[a] THEN PeerOf(a, b, sends) ELSE @[b]]]
      /\ chain' = [chain EXCEPT ![a] =
                     [b \in Pages |-> IF b \in list[a]
                                      THEN Append(@[b], Call("createOffer", FALSE))
                                      ELSE @[b]]]
      /\ early' = IF sends THEN early
                  ELSE early \union {<<a, b>> : b \in {c \in list[a] : peer[a][c] = None}}
      /\ UNCHANGED <<joining, shown, wires, rolled, lost>>

\* updateLocalStream, when screen sharing starts or stops: senders with a track have it
\* replaced, the others get one, and nothing is negotiated.  Sharing asks for the
\* camera again if it was refused.
ShareScreen(a) ==
  /\ page[a] = "in" /\ role[a] = "participant" /\ media[a] # "asked"
  /\ a \notin stream \/ \E b \in Pages : peer[a][b] # None /\ ~peer[a][b].tracks
  /\ stream' = stream \union {a}
  /\ peer' = [peer EXCEPT ![a] =
                [b \in Pages |-> IF @[b] = None THEN None ELSE [@[b] EXCEPT !.tracks = TRUE]]]
  /\ UNCHANGED <<joining, ready, chain, shown, wires, notes>>

\* emitSignal: nothing leaves a page that has not joined.
Sent(a, b, kind, hasMedia) ==
  IF page[a] = "in"
  THEN [up EXCEPT ![a] = Append(@, [kind |-> kind, to |-> b, media |-> hasMedia])]
  ELSE up

\* The operation at the head of the chain completes, and its handler calls `next'.
Done(a, b, next) == chain' = [chain EXCEPT ![a][b] = Tail(@) \o next]

Runs(a, b, op) == chain[a][b] # <<>> /\ Head(chain[a][b]).op = op

\* The operation rejects in state `sig', and its handler ends.
Rejects(a, b, op, sigs) ==
  /\ Runs(a, b, op) /\ peer[a][b].sig \in sigs
  /\ Done(a, b, <<>>)
  /\ UNCHANGED <<joining, ready, stream, peer, shown, wires, notes>>

CreateOffer(a, b) ==
  /\ Runs(a, b, "createOffer")
  /\ Done(a, b, <<Call("setOffer", peer[a][b].tracks)>>)
  /\ UNCHANGED <<joining, ready, stream, peer, shown, wires, notes>>

SetOffer(a, b) ==
  /\ Runs(a, b, "setOffer") /\ peer[a][b].sig # "have-remote"
  /\ peer' = [peer EXCEPT ![a][b] = [@ EXCEPT !.sig = "have-local", !.pend = a,
                                              !.ice = peer[a][b].ice \/ peer[a][b].cur = None]]
  /\ up' = Sent(a, b, "offer", Head(chain[a][b]).media)
  /\ Done(a, b, <<>>)
  /\ UNCHANGED <<joining, ready, stream, shown, down, notes>>

Show(a, b, hasMedia) ==
  shown' = [shown EXCEPT ![a] = IF hasMedia THEN @ \union {b} ELSE @]

\* setRemoteDescription of an offer: an offer of our own is rolled back, with the
\* candidates gathered for it.
RollsBack(a, b) == peer[a][b].sig = "have-local" /\ peer[a][b].cur = None

\* Mutant: an offer that meets one of our own is dropped.
SetRemoteUnlessOffering(a, b) ==
  /\ Runs(a, b, "setRemote")
  /\ IF peer[a][b].sig = "have-local"
     THEN Done(a, b, <<>>) /\ UNCHANGED <<peer, shown>>
     ELSE /\ peer' = [peer EXCEPT ![a][b] = [@ EXCEPT !.sig = "have-remote", !.pend = b,
                                                   !.hears = Head(chain[a][b]).media]]
          /\ Show(a, b, Head(chain[a][b]).media)
          /\ Done(a, b, <<Call("createAnswer", FALSE)>>)
  /\ UNCHANGED <<joining, ready, stream, wires, notes>>

SetRemote(a, b) ==
  /\ Runs(a, b, "setRemote")
  /\ peer' = [peer EXCEPT ![a][b] = [@ EXCEPT !.sig = "have-remote", !.pend = b,
                                              !.hears = Head(chain[a][b]).media,
                                              !.ice = peer[a][b].ice /\ ~RollsBack(a, b)]]
  /\ rolled' = IF RollsBack(a, b) THEN rolled \union {<<a, b>>} ELSE rolled
  /\ Show(a, b, Head(chain[a][b]).media)
  /\ Done(a, b, <<Call("createAnswer", FALSE)>>)
  /\ UNCHANGED <<joining, ready, stream, wires, offered, lost, early>>

CreateAnswer(a, b) ==
  /\ Runs(a, b, "createAnswer") /\ peer[a][b].sig = "have-remote"
  /\ Done(a, b, <<Call("setAnswer", peer[a][b].tracks)>>)
  /\ UNCHANGED <<joining, ready, stream, peer, shown, wires, notes>>

SetAnswer(a, b) ==
  /\ Runs(a, b, "setAnswer") /\ peer[a][b].sig = "have-remote"
  /\ peer' = [peer EXCEPT ![a][b] = [@ EXCEPT !.sig = "stable", !.cur = b, !.pend = None,
                                              !.ice = peer[a][b].ice \/ peer[a][b].cur = None]]
  /\ up' = Sent(a, b, "answer", Head(chain[a][b]).media)
  /\ lost' = IF page[a] = "in" THEN lost ELSE lost \union {<<a, b>>}
  /\ Done(a, b, <<>>)
  /\ UNCHANGED <<joining, ready, stream, shown, down, offered, rolled, early>>

ApplyAnswer(a, b) ==
  /\ Runs(a, b, "applyAnswer") /\ peer[a][b].sig = "have-local"
  /\ peer' = [peer EXCEPT ![a][b] = [@ EXCEPT !.sig = "stable", !.cur = a, !.pend = None,
                                              !.hears = Head(chain[a][b]).media]]
  /\ Show(a, b, Head(chain[a][b]).media)
  /\ Done(a, b, <<>>)
  /\ UNCHANGED <<joining, ready, stream, wires, notes>>

\* There is a remote description.
Described(a, b) == peer[a][b].cur # None \/ peer[a][b].sig = "have-remote"

\* addIceCandidate rejects without a remote description.
AddIce(a, b) ==
  /\ Runs(a, b, "addIce")
  /\ peer' = [peer EXCEPT ![a][b].cands = @ \/ Described(a, b)]
  /\ Done(a, b, <<>>)
  /\ UNCHANGED <<joining, ready, stream, shown, wires, notes>>

\* onicecandidate: reported by the browser, and dropped before initialize.
Gather(a, b) ==
  /\ peer[a][b] # None /\ peer[a][b].ice
  /\ peer' = [peer EXCEPT ![a][b].ice = FALSE]
  /\ up' = IF a \in ready THEN Sent(a, b, "ice", FALSE) ELSE up
  /\ UNCHANGED <<joining, ready, stream, chain, shown, down, notes>>

\* onconnectionstatechange: the stream of a page that has gone is removed; the peer
\* stays in the map.
ConnectionLost(a, b) ==
  /\ page[b] = "closed" /\ b \in shown[a]
  /\ shown' = [shown EXCEPT ![a] = @ \ {b}]
  /\ UNCHANGED <<joining, ready, stream, peer, chain, wires, notes>>

Perform(a, b) ==
  \/ CreateOffer(a, b) \/ SetOffer(a, b) \/ Rejects(a, b, "setOffer", {"have-remote"})
  \/ SetRemote(a, b) \/ CreateAnswer(a, b) \/ SetAnswer(a, b)
  \/ Rejects(a, b, "createAnswer", {"stable", "have-local"})
  \/ Rejects(a, b, "setAnswer", {"stable", "have-local"})
  \/ ApplyAnswer(a, b) \/ Rejects(a, b, "applyAnswer", {"stable", "have-remote"})
  \/ AddIce(a, b)

-----------------------------------------------------------------------------
(* Signals on their way.                                                   *)

\* forwardSignalingEvent: to the target's socket, if the sender has joined.
Relay(a) ==
  /\ up[a] # <<>>
  /\ up' = [up EXCEPT ![a] = Tail(@)]
  /\ LET s == Head(up[a])
     IN  down' = IF a \in bound /\ page[s.to] # "closed"
                 THEN [down EXCEPT ![s.to] =
                         Append(@, [kind |-> s.kind, from |-> a, media |-> s.media])]
                 ELSE down
  /\ UNCHANGED <<joining, rtc, notes>>

\* The acknowledgement of the join; after the time limit it is ignored.
TakeAck(a) ==
  /\ down[a] # <<>> /\ Head(down[a]).kind = "ack"
  /\ down' = [down EXCEPT ![a] = Tail(@)]
  /\ page' = IF page[a] = "joining" THEN [page EXCEPT ![a] = "in"] ELSE page
  /\ UNCHANGED <<role, rows, bound, list, media, rtc, up, notes>>

\* handleOffer: the peer is made at once, whether or not the page has its stream.
TakeOffer(a) ==
  LET p == Head(down[a])
      b == p.from
  IN  /\ down[a] # <<>> /\ p.kind = "offer"
      /\ down' = [down EXCEPT ![a] = Tail(@)]
      /\ peer' = [peer EXCEPT ![a][b] = PeerOf(a, b, a \in stream)]
      /\ chain' = [chain EXCEPT ![a][b] = Append(@, Call("setRemote", p.media))]
      /\ early' = IF peer[a][b] = None /\ a \notin stream
                  THEN early \union {<<a, b>>} ELSE early
      /\ UNCHANGED <<joining, ready, stream, shown, up, offered, rolled, lost>>

\* Mutant: candidates are taken from initialize on, like those of our own.
TakeOtherOnceReady(a) ==
  LET p == Head(down[a])
      b == p.from
  IN  /\ down[a] # <<>> /\ p.kind \in {"answer", "ice"}
      /\ down' = [down EXCEPT ![a] = Tail(@)]
      /\ chain' = IF peer[a][b] = None \/ (p.kind = "ice" /\ a \notin ready) THEN chain
                  ELSE [chain EXCEPT ![a][b] =
                          Append(@, Call(IF p.kind = "answer" THEN "applyAnswer"
                                         ELSE "addIce", p.media))]
      /\ UNCHANGED <<joining, ready, stream, peer, shown, up, notes>>

\* handleAnswer, handleIceCandidate: dropped without a peer.
TakeOther(a) ==
  LET p == Head(down[a])
      b == p.from
  IN  /\ down[a] # <<>> /\ p.kind \in {"answer", "ice"}
      /\ down' = [down EXCEPT ![a] = Tail(@)]
      /\ chain' = IF peer[a][b] = None THEN chain
                  ELSE [chain EXCEPT ![a][b] =
                          Append(@, Call(IF p.kind = "answer" THEN "applyAnswer"
                                         ELSE "addIce", p.media))]
      /\ UNCHANGED <<joining, ready, stream, peer, shown, up, notes>>

-----------------------------------------------------------------------------
Init ==
  /\ role \in [Pages -> {"participant", "spectator"}]
  /\ page = [a \in Pages |-> "new"]
  /\ rows = {} /\ bound = {}
  /\ list = [a \in Pages |-> None]
  /\ media = [a \in Pages |-> "asked"]
  /\ ready = {} /\ stream = {}
  /\ peer = [a \in Pages |-> [b \in Pages |-> None]]
  /\ chain = [a \in Pages |-> [b \in Pages |-> <<>>]]
  /\ shown = [a \in Pages |-> {}]
  /\ up = [a \in Pages |-> <<>>] /\ down = [a \in Pages |-> <<>>]
  /\ offered = {} /\ rolled = {} /\ lost = {} /\ early = {}

Next ==
  \E a \in Pages :
    \/ AskJoin(a) \/ SaveRow(a) \/ Acknowledge(a) \/ TimeOut(a) \/ ServeList(a)
    \/ Answer(a, "granted") \/ Answer(a, "denied")
    \/ Close(a) \/ Depart(a) \/ Connect(a) \/ ShareScreen(a)
    \/ Relay(a) \/ TakeAck(a) \/ TakeOffer(a) \/ TakeOther(a)
    \/ \E b \in Pages : Perform(a, b) \/ Gather(a, b) \/ ConnectionLost(a, b)

Spec == Init /\ [][Next]_vars
-----------------------------------------------------------------------------
(* Properties.                                                             *)

\* Everything that a sent to b has arrived and been worked off, and a has no candidates
\* left to send.
Delivered(a, b) ==
  /\ \A i \in DOMAIN up[a] : up[a][i].to # b
  /\ \A i \in DOMAIN down[b] : down[b][i].from # a
  /\ chain[b][a] = <<>>
  /\ peer[a][b] # None => ~peer[a][b].ice

\* Nothing is on its way between two pages, whatever the others are doing.
Quiet(a, b) == Delivered(a, b) /\ Delivered(b, a)

\* A page that has offered its connections.
Settled(a) == page[a] = "in" /\ a \in ready

\* The two ends of a connection have agreed upon the same session.
Linked(a, b) ==
  /\ peer[a][b] # None /\ peer[b][a] # None
  /\ peer[a][b].sig = "stable" /\ peer[b][a].sig = "stable"
  /\ peer[a][b].cur # None /\ peer[a][b].cur = peer[b][a].cur

\* Whatever the order of their joins, lists, prompts and signals, two participants
\* that have offered their connections are connected, unless each has rolled back its
\* offer for the other's; and so are a participant and a spectator who found it in the
\* room, unless the participant answered before it knew that it had joined.
SettledPagesAreLinked ==
  \A a, b \in Pages :
    /\ a # b /\ Quiet(a, b) /\ Settled(a) /\ Settled(b) /\ role[a] = "participant"
    /\ role[b] = "spectator" => a \in list[b] /\ <<a, b>> \notin lost
    => Linked(a, b) \/ {<<a, b>>, <<b, a>>} \subseteq rolled

\* Of two pages that are connected, one knows candidates of the other, although those
\* that come before initialize or before the remote description are lost.
OneEndIsReachable ==
  \A a, b \in Pages :
    page[a] = "in" /\ page[b] = "in" /\ Quiet(a, b) /\ Linked(a, b) =>
      peer[a][b].cands \/ peer[b][a].cands

\* A candidate is never added before the description it belongs to, although offers,
\* answers and candidates wait for each other on every peer, unless an answer was
\* dropped because the page had not joined yet.
CandidatesAreTimely ==
  \A a, b \in Pages :
    Runs(a, b, "addIce") => Described(a, b) \/ <<b, a>> \in lost

\* What a page with a stream sends is heard at the other end as soon as the two agree,
\* unless it made the connection before it had its stream.
HeardUnlessEarly ==
  \A a, b \in Pages :
    a \in stream /\ Linked(a, b) => peer[b][a].hears \/ <<a, b>> \in early
=============================================================================
