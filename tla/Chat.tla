-------------------------------- MODULE Chat --------------------------------
(***************************************************************************)
(* The chat of one room: ChatService and the handler of RealtimeGateway    *)
(* (backend/src), and RealtimeService with the conference page's form      *)
(* (frontend/src).                                                         *)
(*                                                                         *)
(* A message is saved after two awaited checks, then sent to the sockets   *)
(* in the room and acknowledged to its sender.  A page appends what it     *)
(* hears to a list that it once, after its join, replaces by the history   *)
(* it requested over HTTP.  Each person visits the room once; how a row    *)
(* and its socket come and go is Presence's subject, and one step here.    *)
(***************************************************************************)
EXTENDS Naturals, Sequences, FiniteSets, SequencesExt

CONSTANTS
  Users,     \* people, each with one visit of the conference page
  Host,      \* the host of the room
  Calls,     \* bound: chat handlers in flight
  Recent,    \* messages that a page and the history keep: 50 in the code
  MaxTexts,  \* bound: texts typed
  MaxSends,  \* bound: messages sent
  MaxFaults  \* bound: timeouts, departures, kicks and the end of the room

ASSUME ChatAssumption ==
  /\ Host \in Users
  /\ Recent \in Nat \ {0} /\ MaxTexts \in Nat /\ MaxSends \in Nat
  /\ MaxFaults \in Nat

VARIABLES
  open,      \* the room's status is active
  active,    \* users with an active row
  inRoom,    \* users whose socket is in the Socket.IO room
  messages,  \* the table, in the order of the saves; a message's id is its position
  call,      \* the chat handlers in flight
  wire,      \* packets on their way to each page
  history,   \* each page's HTTP request for the history, and its answer
  page,      \* new, in, kicked, closed
  shown,     \* messages of each page: ids
  draft,     \* chatMessage: the text in the box, 0 if empty
  sent,      \* chat-message requests so far: who sent which text
  sending,   \* the page's request that awaits its acknowledgement, or 0
  typed,     \* texts typed so far
  faults,    \* timeouts, departures, kicks and the end of the room so far
  doubtful,  \* history: requests whose acknowledgement did not come in time
  cut,       \* history: <<u, id>> too old for the history of u, or for its full list
  early      \* history: <<u, id>> shown before the history, and not in it

vars == <<open, active, inRoom, messages, call, wire, history, page, shown, draft,
          sent, sending, typed, faults, doubtful, cut, early>>

room == <<open, active, inRoom, messages>>
form == <<draft, sent, sending, typed>>
past == <<faults, doubtful, cut, early>>

Texts   == 1 .. MaxTexts
Ids     == 1 .. MaxSends
Message == [by : Users, text : Texts]
Call    == [no : Ids, pc : {"room", "member", "save", "announce"}, id : 0 .. MaxSends,
            over : BOOLEAN]    \* over (history): it has passed a check that fails now
Packet  == [kind : {"message", "ack", "kicked"}, id : 0 .. MaxSends,
            no : 0 .. MaxSends]
Answer  == [is : {"none", "asked", "sent", "refused"}, ids : SeqOf(Ids, Recent)]

NoAnswer == [is |-> "none", ids |-> <<>>]

TypeOK ==
  /\ open \in BOOLEAN /\ active \subseteq Users /\ inRoom \subseteq Users
  /\ messages \in Seq(Message) /\ Len(messages) <= Len(sent)
  /\ DOMAIN call \subseteq Calls /\ call \in [DOMAIN call -> Call]
  /\ wire \in [Users -> Seq(Packet)]
  /\ history \in [Users -> Answer]
  /\ page \in [Users -> {"new", "in", "kicked", "closed"}]
  /\ shown \in [Users -> SeqOf(Ids, Recent)]
  /\ draft \in [Users -> 0 .. MaxTexts] /\ typed \in 0 .. MaxTexts
  /\ sent \in SeqOf(Message, MaxSends) /\ sending \in [Users -> 0 .. Len(sent)]
  /\ faults \in 0 .. MaxFaults
  /\ doubtful \subseteq 1 .. Len(sent) /\ cut \subseteq Users \X Ids /\ early \subseteq Users \X Ids

-----------------------------------------------------------------------------
Packet1(kind, id, no) == <<[kind |-> kind, id |-> id, no |-> no]>>

At(c, stage) == c \in DOMAIN call /\ call[c].pc = stage

End(c) == call' = [d \in DOMAIN call \ {c} |-> call[d]]

\* slice(-50), and take: 50 of the newest.
Newest(ids) == IF Len(ids) > Recent
             THEN SubSeq(ids, Len(ids) - Recent + 1, Len(ids)) ELSE ids

-----------------------------------------------------------------------------
(* Presence, abstracted.                                                   *)

\* join: the row, the Socket.IO room, and then loadChatHistory.
Join(u) ==
  /\ page[u] = "new" /\ open
  /\ page' = [page EXCEPT ![u] = "in"]
  /\ active' = active \union {u} /\ inRoom' = inRoom \union {u}
  /\ history' = [history EXCEPT ![u].is = "asked"]
  /\ UNCHANGED <<open, messages, call, wire, shown, form, past>>

By(c) == sent[call[c].no].by

\* The row of u is closed while handlers are past their check of it.
Outlived(u) == [c \in DOMAIN call |->
                  IF By(c) = u /\ call[c].pc = "save" THEN [call[c] EXCEPT !.over = TRUE]
                  ELSE call[c]]

Fault == faults < MaxFaults /\ faults' = faults + 1

\* The host's kick closes the row and tells the page.
Kick(u) ==
  /\ Fault
  /\ u \in active \ {Host} /\ page[u] = "in"
  /\ active' = active \ {u}
  /\ call' = Outlived(u)
  /\ wire' = [wire EXCEPT ![u] = @ \o Packet1("kicked", 0, 0)]
  /\ UNCHANGED <<open, inRoom, messages, history, page, shown, form, doubtful, cut, early>>

\* leaveRoom: the list is emptied, the socket is closed and the row with it.
Close(u) ==
  /\ Fault
  /\ page[u] = "in"
  /\ page' = [page EXCEPT ![u] = "closed"]
  /\ active' = active \ {u} /\ inRoom' = inRoom \ {u}
  /\ call' = Outlived(u)
  /\ wire' = [wire EXCEPT ![u] = <<>>]
  /\ shown' = [shown EXCEPT ![u] = <<>>]
  /\ UNCHANGED <<open, messages, history, form, doubtful, cut, early>>

\* endRoom: the status is all that changes.
EndRoom ==
  /\ Fault
  /\ open /\ open' = FALSE
  /\ call' = [c \in DOMAIN call |->
                [call[c] EXCEPT !.over = @ \/ call[c].pc \in {"member", "save"}]]
  /\ UNCHANGED <<active, inRoom, messages, wire, history, page, shown, form, doubtful, cut, early>>

-----------------------------------------------------------------------------
(* The form.                                                               *)

\* The box is not disabled while a message is being sent.
Type(u) ==
  /\ page[u] = "in" /\ typed < MaxTexts
  /\ typed' = typed + 1
  /\ draft' = [draft EXCEPT ![u] = typed']
  /\ UNCHANGED <<room, call, wire, history, page, shown, sent, sending, past>>

\* sendChatMessage: the button is disabled while a message is being sent.
Send(c, u) ==
  /\ page[u] = "in" /\ draft[u] # 0 /\ sending[u] = 0
  /\ c \notin DOMAIN call /\ Len(sent) < MaxSends
  /\ sent' = Append(sent, [by |-> u, text |-> draft[u]])
  /\ sending' = [sending EXCEPT ![u] = Len(sent')]
  /\ call' = [d \in DOMAIN call \union {c} |->
                IF d = c THEN [no |-> Len(sent'), pc |-> "room", id |-> 0, over |-> FALSE]
                ELSE call[d]]
  /\ UNCHANGED <<room, wire, history, page, shown, draft, typed, past>>

\* socket.timeout(5000): the text stays in the box, and a late acknowledgement is ignored.
TimeOut(u) ==
  /\ Fault
  /\ sending[u] # 0
  /\ sending' = [sending EXCEPT ![u] = 0]
  /\ doubtful' = doubtful \union {sending[u]}
  /\ UNCHANGED <<room, call, wire, history, page, shown, draft, sent, typed, cut, early>>

-----------------------------------------------------------------------------
(* The backend.                                                            *)

\* findJoinableRoom.
CheckRoom(c) ==
  /\ At(c, "room")
  /\ IF open THEN call' = [call EXCEPT ![c].pc = "member"] ELSE End(c)
  /\ UNCHANGED <<room, wire, history, page, shown, form, past>>

\* Mutant of CheckMember: the participant may have left.
CheckMemberEver(c) ==
  /\ At(c, "member")
  /\ call' = [call EXCEPT ![c].pc = "save"]
  /\ UNCHANGED <<room, wire, history, page, shown, form, past>>

\* findActiveParticipant.
CheckMember(c) ==
  /\ At(c, "member")
  /\ IF By(c) \in active THEN call' = [call EXCEPT ![c].pc = "save"] ELSE End(c)
  /\ UNCHANGED <<room, wire, history, page, shown, form, past>>

Save(c) ==
  /\ At(c, "save")
  /\ messages' = Append(messages, sent[call[c].no])
  /\ call' = [call EXCEPT ![c].pc = "announce", ![c].id = Len(messages) + 1]
  /\ UNCHANGED <<open, active, inRoom, wire, history, page, shown, form, past>>

\* Mutant of Announce: to the others in the room.
AnnounceToOthers(c) ==
  /\ At(c, "announce")
  /\ LET k == call[c]
         told(u)  == IF u \in inRoom \ {By(c)} THEN Packet1("message", k.id, 0) ELSE <<>>
         acked(u) == IF u = By(c) /\ page[u] = "in" THEN Packet1("ack", k.id, k.no) ELSE <<>>
     IN  wire' = [u \in Users |-> wire[u] \o told(u) \o acked(u)]
  /\ End(c)
  /\ UNCHANGED <<room, history, page, shown, form, past>>

\* chat-message to the room, and the acknowledgement to the sender.
Announce(c) ==
  /\ At(c, "announce")
  /\ LET k == call[c]
         told(u)  == IF u \in inRoom THEN Packet1("message", k.id, 0) ELSE <<>>
         acked(u) == IF u = By(c) /\ page[u] = "in" THEN Packet1("ack", k.id, k.no) ELSE <<>>
     IN  wire' = [u \in Users |-> wire[u] \o told(u) \o acked(u)]
  /\ End(c)
  /\ UNCHANGED <<room, history, page, shown, form, past>>

\* findRecentByRoom: the newest messages, oldest first; or a refusal, which leaves the
\* page's list as it is.
ServeHistory(u) ==
  /\ history[u].is = "asked"
  /\ LET newest == Newest([i \in 1 .. Len(messages) |-> i])
     IN  IF open /\ u \in active \union {Host}
         THEN /\ history' = [history EXCEPT ![u] = [is |-> "sent", ids |-> newest]]
              /\ cut' = cut \union ({u} \X (DOMAIN messages \ ToSet(newest)))
         ELSE /\ history' = [history EXCEPT ![u] = [is |-> "refused", ids |-> <<>>]]
              /\ UNCHANGED cut
  /\ UNCHANGED <<room, call, wire, page, shown, form, faults, doubtful, early>>

-----------------------------------------------------------------------------
(* The page.                                                               *)

\* Mutant of WithMessage: every packet is appended.
WithMessageAgain(list, id) == Newest(Append(list, id))

\* Mutant of WithMessage: the list is not cut.
WithMessageUncut(list, id) ==
  IF id \in ToSet(list) THEN list ELSE Append(list, id)

\* upsertMessage.
WithMessage(list, id) ==
  IF id \in ToSet(list) THEN list ELSE Newest(Append(list, id))

\* What the full list of u drops.
Dropped(u) == cut' = cut \union ({u} \X (ToSet(shown[u]) \ ToSet(shown'[u])))

Heard(u, id) == early' = IF history[u].is \in {"asked", "sent"} THEN early \union {<<u, id>>}
                         ELSE early

\* chat-message.
TakeMessage(u) ==
  /\ wire[u] # <<>> /\ Head(wire[u]).kind = "message"
  /\ wire' = [wire EXCEPT ![u] = Tail(@)]
  /\ shown' = [shown EXCEPT ![u] = WithMessage(@, Head(wire[u]).id)]
  /\ Dropped(u) /\ Heard(u, Head(wire[u]).id)
  /\ UNCHANGED <<room, call, history, page, form, faults, doubtful>>

\* Mutant of TakeAck: the box is not emptied.
TakeAckKeepsText(u) ==
  /\ wire[u] # <<>> /\ Head(wire[u]).kind = "ack"
  /\ wire' = [wire EXCEPT ![u] = Tail(@)]
  /\ LET p == Head(wire[u])
     IN  IF sending[u] = p.no
         THEN /\ shown' = [shown EXCEPT ![u] = WithMessage(@, p.id)]
              /\ Dropped(u) /\ Heard(u, p.id)
              /\ sending' = [sending EXCEPT ![u] = 0]
         ELSE UNCHANGED <<shown, cut, early, sending>>
  /\ UNCHANGED <<room, call, history, page, draft, sent, typed, faults, doubtful>>

\* The acknowledgement of the page's own message empties the box, whatever is in it now.
\* One that comes after its timeout is ignored.
TakeAck(u) ==
  /\ wire[u] # <<>> /\ Head(wire[u]).kind = "ack"
  /\ wire' = [wire EXCEPT ![u] = Tail(@)]
  /\ LET p == Head(wire[u])
     IN  IF sending[u] = p.no
         THEN /\ shown' = [shown EXCEPT ![u] = WithMessage(@, p.id)]
              /\ Dropped(u) /\ Heard(u, p.id)
              /\ draft' = [draft EXCEPT ![u] = 0]
              /\ sending' = [sending EXCEPT ![u] = 0]
         ELSE UNCHANGED <<shown, cut, early, draft, sending>>
  /\ UNCHANGED <<room, call, history, page, sent, typed, faults, doubtful>>

\* participant-kicked: the page disconnects and stays, with its messages.
TakeKicked(u) ==
  /\ wire[u] # <<>> /\ Head(wire[u]).kind = "kicked"
  /\ wire' = [wire EXCEPT ![u] = <<>>]
  /\ page' = [page EXCEPT ![u] = "kicked"]
  /\ inRoom' = inRoom \ {u}
  /\ UNCHANGED <<open, active, messages, call, history, shown, form, past>>

\* setMessages: the history replaces the list, on whatever page is open by then.
TakeHistory(u) ==
  /\ history[u].is = "sent"
  /\ shown' = [shown EXCEPT ![u] = history[u].ids]
  /\ early' = {e \in early : e[1] = u => \A j \in ToSet(history[u].ids) : j < e[2]}
  /\ history' = [history EXCEPT ![u] = NoAnswer]
  /\ UNCHANGED <<room, call, wire, page, form, faults, doubtful, cut>>

-----------------------------------------------------------------------------
Init ==
  /\ open = TRUE /\ active = {} /\ inRoom = {} /\ messages = <<>>
  /\ call = [c \in {} |-> 0]
  /\ wire = [u \in Users |-> <<>>]
  /\ history = [u \in Users |-> NoAnswer]
  /\ page = [u \in Users |-> "new"]
  /\ shown = [u \in Users |-> <<>>]
  /\ draft = [u \in Users |-> 0] /\ typed = 0
  /\ sent = <<>> /\ sending = [u \in Users |-> 0] /\ faults = 0
  /\ doubtful = {} /\ cut = {} /\ early = {}

Receive(u) == TakeMessage(u) \/ TakeAck(u) \/ TakeKicked(u)

Next ==
  \/ EndRoom
  \/ \E u \in Users :
       \/ Join(u) \/ Kick(u) \/ Close(u)
       \/ Type(u) \/ TimeOut(u) \/ \E c \in Calls : Send(c, u)
       \/ ServeHistory(u) \/ TakeHistory(u) \/ Receive(u)
  \/ \E c \in Calls : CheckRoom(c) \/ CheckMember(c) \/ Save(c) \/ Announce(c)

Spec == Init /\ [][Next]_vars
-----------------------------------------------------------------------------
(* Properties.                                                             *)

\* Every message saved so far has been announced, and nothing is on its way to page u.
Quiet(u) == /\ \A c \in DOMAIN call : call[c].pc # "announce"
            /\ wire[u] = <<>> /\ history[u].is = "none"

\* A page in the room to which nothing is on its way, and which got its history, misses
\* no message saved in the room, from before or after its join, however many others are
\* being checked before they are saved; unless its list is full,
\* or the history that replaced the list was older than a message already shown.
NothingIsMissed ==
  \A u \in Users : page[u] = "in" /\ Quiet(u) =>
    \A id \in 1 .. Len(messages) :
      id \in ToSet(shown[u]) \/ <<u, id>> \in early \/ Len(shown[u]) = Recent

\* However the broadcast, the acknowledgement and the history of a message cross, a page
\* shows it once, and shows the messages of one person in the order they were saved,
\* unless one of them was sent again without an acknowledgement of the first, or the later
\* one on the page was too old for the history, or for the full list, and arrived after it
\* was left out.
ShownInOrder ==
  \A u \in Users : \A i, j \in 1 .. Len(shown[u]) :
    LET m == shown[u][i]  n == shown[u][j]
    IN  i < j => /\ m # n
                 /\ messages[m].by = messages[n].by =>
                      \/ m < n \/ <<u, n>> \in cut
                      \/ \E no \in doubtful : sent[no].by = messages[m].by

\* A text is saved twice only if its sender was not told in five seconds.
SaidOnce ==
  \A m, n \in 1 .. Len(messages) :
    m # n /\ messages[m] = messages[n] => \E no \in doubtful : sent[no] = messages[m]

\* Nothing is saved in a room that has ended, or for someone whose row is closed, but by
\* a handler that had passed its check before.
LastWords ==
  [][\A c \in DOMAIN call : At(c, "save") /\ call'[c].pc = "announce" =>
       (open /\ By(c) \in active) \/ call[c].over]_vars
=============================================================================
