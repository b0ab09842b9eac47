---------------------------- MODULE RosterProofs ----------------------------
(* Theorems about Roster for every value of its constants, with proofs.    *)
EXTENDS Roster, FiniteSetTheorems, TLAPS

USE RosterAssumption

\* The packets of a queue.
Packets(w) == {w[i] : i \in 1 .. Len(w)}

\* Packets about a participant that is there.
Upserts == {"connected", "updated", "ack-update", "ack-join"}

\* Which handlers there are, in which stages, and where their callers' pages are by then.
Shaped(c) ==
  LET k == call[c]
  IN  /\ k.op = "depart" <=> c \in Members
      /\ k.op = "depart" => k.by = c /\ k.on = c /\ page[c] \in {"closed", "stranded"}
      /\ k.op = "leave" => k.on = k.by /\ page[k.by] = "closed"
      /\ k.op = "join" => k.on = k.by /\ page[k.by] \notin {"new", "in", "stranded"}
      /\ k.pc \in {"enter", "reply"} => k.op = "join"
      /\ k.pc = "announce" => k.op # "join"

ShapeInv == \A c \in DOMAIN call : Shaped(c)

\* Only pages that have their row's socket are in the room, pages without a connection
\* hear nothing, and those that are in have been let in.
PageInv ==
  \A m \in Members :
    /\ m \in inRoom => page[m] \in Listening
    /\ wire[m] # <<>> => page[m] \in Listening \union {"stranded"}
    /\ page[m] = "in" => m \in inRoom /\ me[m] # 0 /\ saves[m] # 0
    /\ page[m] = "new" => saves[m] = 0
    /\ saves[m] = 0 => m \notin active

\* Each page joins once: by its one handler, or by the acknowledgement of its first save.
JoinInv ==
  /\ \A c, d \in DOMAIN call :
       call[c].op = "join" /\ call[d].op = "join" /\ call[c].by = call[d].by => c = d
  /\ \A c \in DOMAIN call : call[c].op = "join" =>
       LET k == call[c]
       IN  /\ \A p \in Packets(wire[k.by]) : p.kind # "ack-join"
           /\ IF k.pc = "save" THEN saves[k.by] = 0 ELSE k.ver = 1
           /\ k.pc = "reply" /\ page[k.by] \in Listening => k.by \in inRoom
  /\ \A m \in Members : \A p \in Packets(wire[m]) : p.kind = "ack-join" =>
       p.on = m /\ p.ver = 1 /\ m \in inRoom

\* Nothing tells of a version that was not saved, and what tells of the newest one tells
\* the truth.
VersionInv ==
  /\ \A c \in DOMAIN call :
       LET k == call[c]
       IN  /\ k.ver <= saves[k.on]
           /\ k.pc # "save" => k.ver # 0
           /\ k.pc # "save" /\ k.ver = saves[k.on] =>
                (k.op \in {"join", "update"} <=> k.on \in active)
  /\ \A m \in Members : \A p \in Packets(wire[m]) :
       /\ p.ver <= saves[p.on] /\ p.ver # 0
       /\ p.ver = saves[p.on] => /\ p.kind \in Upserts => p.on \in active
                                 /\ p.kind = "gone" => p.on \notin active
  /\ \A m, x \in Members :
       /\ known[m][x] <= saves[x]
       /\ answer[m].is = "sent" =>
            /\ answer[m].at[x] <= saves[x]
            /\ answer[m].at[x] = saves[x] => answer[m].of[x] = Truth(x)

\* A page whose row was closed under it is told so.
KickInv ==
  \A m \in Members : page[m] \in Listening /\ saves[m] # 0 /\ m \notin active =>
    \/ \E p \in Packets(wire[m]) : p.kind = "kicked"
    \/ \E c \in DOMAIN call : At(c, "announce") /\ call[c].op = "kick" /\ call[c].on = m

\* A page that knows the newest version of x lists it, but for the named exceptions.
ListInv ==
  \A m, x \in Members :
    page[m] \notin {"closed", "kicked"} /\ known[m][x] = saves[x] =>
      roster[m][x] = Truth(x) \/ <<m, x>> \in behind \union readded

\* The newest version of x is about to be announced to page m.
Announced(m, x) ==
  \E c \in DOMAIN call : /\ call[c].on = x /\ call[c].ver = saves[x]
                         /\ At(c, "announce") \/ (At(c, "enter") /\ x # m)

\* A packet on its way to page m tells it the newest version of x.
Coming(m, x) ==
  \E p \in Packets(wire[m]) :
    p.on = x /\ p.ver = saves[x] /\ p.kind \notin {"kicked", "ack-join"}

\* A page in the room knows the newest version of x, or will be told.
NewsInv ==
  \A m \in Members : page[m] = "in" /\ m \in active => \A x \in Members \ unsaid :
    \/ known[m][x] = saves[x] \/ Announced(m, x) \/ Coming(m, x)
    \/ answer[m].is = "asked"
    \/ answer[m].is = "sent" /\ answer[m].at[x] = saves[x]

\* So does it of itself, without the list, which does not set its participant.
MeInv ==
  \A m \in Members \ early :
    /\ page[m] = "joining" => saves[m] <= 1
    /\ page[m] = "in" /\ m \in active /\ m \notin unsaid =>
         \/ Announced(m, m) \/ Coming(m, m)
         \/ known[m][m] = saves[m] /\ (me[m] = saves[m] \/ m \in outdated)

\* The changes that are still to be saved in the row of x.
Changing(x) == {c \in DOMAIN call :
                  At(c, "save") /\ call[c].op \in {"update", "kick"} /\ call[c].on = x}

\* Its join and its departure that are still to be saved.
Left(x) == IF saves[x] = 0 THEN 2 ELSE IF x \in active THEN 1 ELSE 0

CountInv ==
  /\ IsFiniteSet(DOMAIN call)
  /\ \A x \in Members :
       saves[x] + Cardinality(Changing(x)) + Left(x) <= changes + 2

RosterInv ==
  /\ TypeOK /\ CountInv /\ ShapeInv /\ PageInv /\ JoinInv /\ VersionInv
  /\ KickInv /\ ListInv /\ NewsInv /\ MeInv

-----------------------------------------------------------------------------
(* Queues.                                                                 *)

\* What is sent joins the packets of a queue.
LEMMA PacketsConcat ==
  ASSUME NEW w \in Seq(Packet), NEW v \in Seq(Packet)
  PROVE  w \o v \in Seq(Packet) /\ Packets(w \o v) = Packets(w) \union Packets(v)
<1>1. /\ w \o v \in Seq(Packet) /\ Len(w \o v) = Len(w) + Len(v)
      /\ Len(w) \in Nat /\ Len(v) \in Nat
      /\ \A i \in 1 .. Len(w) : (w \o v)[i] = w[i]
      /\ \A i \in 1 .. Len(v) : (w \o v)[i + Len(w)] = v[i]
  OBVIOUS
<1>2. Packets(w) \union Packets(v) \subseteq Packets(w \o v)
  <2>1. \A i \in 1 .. Len(w) : i \in 1 .. Len(w \o v)
    BY <1>1
  <2>2. \A i \in 1 .. Len(v) : i + Len(w) \in 1 .. Len(w \o v)
    BY <1>1
  <2> QED BY <1>1, <2>1, <2>2 DEF Packets
<1>3. Packets(w \o v) \subseteq Packets(w) \union Packets(v)
  <2> SUFFICES ASSUME NEW i \in 1 .. Len(w \o v)
               PROVE  (w \o v)[i] \in Packets(w) \union Packets(v)
    BY DEF Packets
  <2>1. CASE i <= Len(w)
    BY <1>1, <2>1 DEF Packets
  <2>2. CASE i > Len(w)
    <3>1. i - Len(w) \in 1 .. Len(v) /\ (i - Len(w)) + Len(w) = i
      BY <1>1, <2>2
    <3> QED BY <1>1, <3>1 DEF Packets
  <2> QED BY <1>1, <2>1, <2>2
<1> QED BY <1>1, <1>2, <1>3

\* A packet taken from a queue is its head.
LEMMA PacketsTail ==
  ASSUME NEW w \in Seq(Packet), w # <<>>
  PROVE  /\ Head(w) \in Packet /\ Tail(w) \in Seq(Packet)
         /\ Packets(w) = {Head(w)} \union Packets(Tail(w))
<1>1. /\ Head(w) = w[1] /\ Head(w) \in Packet /\ Tail(w) \in Seq(Packet)
      /\ Len(w) \in Nat \ {0} /\ Len(Tail(w)) = Len(w) - 1
      /\ \A i \in 1 .. Len(Tail(w)) : Tail(w)[i] = w[i + 1]
  OBVIOUS
<1>2. {Head(w)} \union Packets(Tail(w)) \subseteq Packets(w)
  BY <1>1 DEF Packets
<1>3. Packets(w) \subseteq {Head(w)} \union Packets(Tail(w))
  <2> SUFFICES ASSUME NEW i \in 1 .. Len(w), i # 1
               PROVE  w[i] \in Packets(Tail(w))
    BY <1>1 DEF Packets
  <2>1. i - 1 \in 1 .. Len(Tail(w)) /\ (i - 1) + 1 = i
    BY <1>1
  <2> QED BY <1>1, <2>1 DEF Packets
<1> QED BY <1>1, <1>2, <1>3

\* The packets of the shortest queues.
LEMMA PacketsOne ==
  ASSUME NEW kind, NEW x, NEW ver
  PROVE  Packets(Packet1(kind, x, ver)) = {[kind |-> kind, on |-> x, ver |-> ver]}
BY DEF Packets, Packet1

LEMMA PacketsNone == Packets(<<>>) = {}
BY DEF Packets

\* What a handler that has saved says to page n.
LEMMA HeardPackets ==
  ASSUME NEW k \in Call, NEW n \in Members
  PROVE  /\ Heard(k, n) \in Seq(Packet)
         /\ page[n] \notin Listening \union {"stranded"} => Heard(k, n) = <<>>
         /\ \A p \in Packets(Heard(k, n)) :
              /\ p.on = k.on /\ p.ver = k.ver
              /\ p.kind \in {"updated", "gone", "kicked", "ack-update", "ack-kick"}
              /\ p.kind \in {"updated", "ack-update"} => k.op = "update"
              /\ p.kind = "gone" => k.op # "update"
         /\ page[n] \in Listening /\ Loud(k) /\ n \in inRoom =>
              \E p \in Packets(Heard(k, n)) :
                p.on = k.on /\ p.ver = k.ver /\ p.kind \in {"updated", "gone"}
         /\ page[n] \in Listening /\ k.op = "kick" /\ k.on = n =>
              \E p \in Packets(Heard(k, n)) : p.kind = "kicked"
<1> DEFINE toRoom == Loud(k) /\ n \in inRoom
           out  == k.op = "kick" /\ n = k.on
           said == IF k.op = "update" THEN "updated" ELSE "gone"
           ack  == IF k.op = "kick" THEN "ack-kick" ELSE "ack-update"
           told   == IF toRoom THEN Packet1(said, k.on, k.ver) ELSE <<>>
           kicked == IF out THEN Packet1("kicked", n, k.ver) ELSE <<>>
           heard  == IF page[n] \in Listening THEN told \o kicked ELSE <<>>
           acked  == IF Awaits(n, k) THEN Packet1(ack, k.on, k.ver) ELSE <<>>
<1>1. /\ [kind |-> said, on |-> k.on, ver |-> k.ver] \in Packet
      /\ [kind |-> "kicked", on |-> n, ver |-> k.ver] \in Packet
      /\ [kind |-> ack, on |-> k.on, ver |-> k.ver] \in Packet
  BY DEF Call, Packet
<1>2. told \in Seq(Packet) /\ kicked \in Seq(Packet) /\ acked \in Seq(Packet)
  BY <1>1 DEF Packet1
<1>3. Heard(k, n) = heard \o acked
  BY DEF Heard
<1>4. /\ Packets(told) = IF toRoom THEN {[kind |-> said, on |-> k.on, ver |-> k.ver]} ELSE {}
      /\ Packets(kicked) = IF out THEN {[kind |-> "kicked", on |-> n, ver |-> k.ver]} ELSE {}
      /\ Packets(acked) = IF Awaits(n, k) THEN {[kind |-> ack, on |-> k.on, ver |-> k.ver]}
                          ELSE {}
  BY PacketsOne, PacketsNone
<1>5. Awaits(n, k) => page[n] \in Listening \union {"stranded"} /\ k.op \in {"update", "kick"}
  BY DEF Awaits
<1>6. page[n] \notin Listening \union {"stranded"} => Heard(k, n) = <<>>
  BY <1>3, <1>5
<1> HIDE DEF told, kicked, acked
<1>7. /\ heard \in Seq(Packet)
      /\ Packets(heard) = IF page[n] \in Listening THEN Packets(told) \union Packets(kicked)
                          ELSE {}
  <2>1. CASE page[n] \in Listening
    BY <1>2, <2>1, PacketsConcat
  <2>2. CASE page[n] \notin Listening
    <3>1. heard = <<>>
      BY <2>2
    <3> QED BY <2>2, <3>1, PacketsNone
  <2> QED BY <2>1, <2>2
<1> HIDE DEF heard
<1>8. /\ Heard(k, n) \in Seq(Packet)
      /\ Packets(Heard(k, n)) = Packets(heard) \union Packets(acked)
  BY <1>2, <1>3, <1>7, PacketsConcat
<1>9. ASSUME NEW p \in Packets(Heard(k, n))
      PROVE  \/ p = [kind |-> said, on |-> k.on, ver |-> k.ver]
             \/ out /\ p = [kind |-> "kicked", on |-> n, ver |-> k.ver]
             \/ k.op \in {"update", "kick"} /\ p = [kind |-> ack, on |-> k.on, ver |-> k.ver]
  BY <1>4, <1>5, <1>7, <1>8
<1>10. page[n] \in Listening =>
         /\ toRoom => [kind |-> said, on |-> k.on, ver |-> k.ver] \in Packets(Heard(k, n))
         /\ out => [kind |-> "kicked", on |-> n, ver |-> k.ver] \in Packets(Heard(k, n))
  BY <1>4, <1>7, <1>8
<1> QED BY <1>6, <1>8, <1>9, <1>10
-----------------------------------------------------------------------------
(* The handlers.                                                           *)

Kept(d) == d \in DOMAIN call /\ call'[d] = call[d]

\* A handler begins, in its first stage.
LEMMA BegunCall ==
  ASSUME TypeOK, NEW c, c \notin DOMAIN call, NEW op, NEW by, NEW on, NEW again,
         Begin(c, op, by, on, again)
  PROVE  /\ DOMAIN call' = DOMAIN call \union {c}
         /\ call'[c] = NewCall(op, by, on, again)
         /\ \A d \in DOMAIN call : Kept(d)
BY DEF Begin, Kept

\* A handler ends.
LEMMA EndedCall ==
  ASSUME NEW c, End(c)
  PROVE  DOMAIN call' = DOMAIN call \ {c} /\ \A d \in DOMAIN call' : Kept(d)
BY DEF End, Kept

\* The first step of handler c saved the row.
Saved(c) ==
  LET k == call[c]
      stays == k.op \in {"join", "update"}
  IN  /\ k.op = "join" \/ k.on \in active
      /\ active' = IF stays THEN active \union {k.on} ELSE active \ {k.on}
      /\ saves' = [saves EXCEPT ![k.on] = @ + 1]
      /\ DOMAIN call' = DOMAIN call
      /\ call'[c] = [k EXCEPT !.ver = saves[k.on] + 1,
                              !.pc = IF k.op = "join" THEN "enter" ELSE "announce"]
      /\ \A d \in DOMAIN call \ {c} : Kept(d)

\* It did, or the handler ended.
LEMMA SaveCases ==
  ASSUME TypeOK, NEW c, Save(c)
  PROVE  /\ c \in DOMAIN call /\ call[c] \in Call /\ call[c].pc = "save"
         /\ \/ Saved(c)
            \/ /\ End(c) /\ UNCHANGED <<active, saves>>
               /\ call[c].op # "join" /\ call[c].on \notin active
<1>1. c \in DOMAIN call /\ call[c] \in Call /\ call[c].pc = "save"
  BY DEF Save, At, TypeOK
<1>2. CASE call[c].op # "join" /\ call[c].on \notin active
  BY <1>1, <1>2 DEF Save
<1>3. CASE ~(call[c].op # "join" /\ call[c].on \notin active)
  <2>1. /\ call' = [call EXCEPT ![c].ver = saves[call[c].on] + 1,
                      ![c].pc = IF call[c].op = "join" THEN "enter" ELSE "announce"]
        /\ active' = IF call[c].op \in {"join", "update"} THEN active \union {call[c].on}
                     ELSE active \ {call[c].on}
        /\ saves' = [saves EXCEPT ![call[c].on] = @ + 1]
    BY <1>3 DEF Save
  <2>2. call'[c] = [call[c] EXCEPT !.ver = saves[call[c].on] + 1,
                      !.pc = IF call[c].op = "join" THEN "enter" ELSE "announce"]
    BY <1>1, <2>1 DEF Call
  <2>3. DOMAIN call' = DOMAIN call /\ \A d \in DOMAIN call \ {c} : Kept(d)
    BY <2>1 DEF Kept
  <2>4. Saved(c)
    BY <1>3, <2>1, <2>2, <2>3 DEF Saved
  <2> QED BY <1>1, <2>4
<1> QED BY <1>1, <1>2, <1>3

\* A join goes on to its acknowledgement.
LEMMA EnteredCall ==
  ASSUME TypeOK, NEW c, Enter(c)
  PROVE  /\ c \in DOMAIN call /\ call[c] \in Call /\ DOMAIN call' = DOMAIN call
         /\ call'[c] = [call[c] EXCEPT !.pc = "reply"]
         /\ \A d \in DOMAIN call \ {c} : Kept(d)
BY DEF Enter, At, TypeOK, Kept

\* Handlers keep their types when each of them is typed.
LEMMA CallsTyped ==
  ASSUME TypeOK, NEW c, c \in DOMAIN call' => c \in CallIds /\ call'[c] \in Call,
         \A d \in DOMAIN call' \ {c} : Kept(d), call' = [d \in DOMAIN call' |-> call'[d]]
  PROVE  DOMAIN call' \subseteq CallIds /\ call' \in [DOMAIN call' -> Call]
<1>1. \A d \in DOMAIN call' : d \in CallIds /\ call'[d] \in Call
  BY DEF TypeOK, Kept
<1> QED BY <1>1
-----------------------------------------------------------------------------
(* Types, and how often a row is saved.                                    *)

\* The numbers that are counted.
LEMMA Counts ==
  ASSUME CountInv, NEW x \in Members
  PROVE  /\ IsFiniteSet(Changing(x)) /\ Cardinality(Changing(x)) \in Nat
         /\ Changing(x) # {} => Cardinality(Changing(x)) # 0
         /\ Left(x) \in {0, 1, 2}
<1>1. IsFiniteSet(Changing(x))
  BY FS_Subset DEF CountInv, Changing
<1> QED BY <1>1, FS_CardinalityType, FS_EmptySet DEF Left

\* A row that is about to be saved may be saved once more.
LEMMA SaveRoom ==
  ASSUME TypeOK, CountInv, JoinInv, ShapeInv, NEW c \in DOMAIN call, call[c].pc = "save",
         call[c].op = "join" \/ call[c].on \in active
  PROVE  saves[call[c].on] + 1 \in 0 .. MaxSaves /\ saves[call[c].on] + 1 # 0
<1> DEFINE x == call[c].on
<1>1. /\ x \in Members /\ saves[x] \in Nat /\ changes \in 0 .. MaxChanges
      /\ call[c].op = "join" => saves[x] = 0
  BY DEF TypeOK, Call, JoinInv, ShapeInv, Shaped
<1>2. saves[x] + Cardinality(Changing(x)) + Left(x) <= changes + 2
  BY <1>1 DEF CountInv
<1>3. Left(x) # 0
  BY <1>1 DEF Left
<1>4. Cardinality(Changing(x)) \in Nat /\ Left(x) \in {0, 1, 2}
  BY <1>1, Counts
<1> HIDE DEF x
<1>5. saves[x] + 1 <= MaxChanges + 2
  BY <1>1, <1>2, <1>3, <1>4
<1> QED BY <1>1, <1>5 DEF MaxSaves, x

\* A new handler is typed.
LEMMA BeginType ==
  ASSUME TypeOK, NEW c \in CallIds, c \notin DOMAIN call,
         NEW op \in {"join", "update", "kick", "depart", "leave"}, NEW by \in Members,
         NEW on \in Members, NEW again \in BOOLEAN, Begin(c, op, by, on, again)
  PROVE  DOMAIN call' \subseteq CallIds /\ call' \in [DOMAIN call' -> Call]
<1>1. NewCall(op, by, on, again) \in Call
  BY DEF NewCall, Call, MaxSaves
<1>2. call' = [d \in DOMAIN call' |-> call'[d]]
  BY DEF Begin
<1>3. /\ DOMAIN call' = DOMAIN call \union {c} /\ call'[c] = NewCall(op, by, on, again)
      /\ \A d \in DOMAIN call : Kept(d)
  BY Zenon DEF Begin, Kept
<1>4. \A d \in DOMAIN call' \ {c} : Kept(d)
  BY <1>3
<1> QED BY <1>1, <1>2, <1>3, <1>4, CallsTyped

\* So are those that stay.
LEMMA EndType ==
  ASSUME TypeOK, NEW c, End(c)
  PROVE  DOMAIN call' \subseteq CallIds /\ call' \in [DOMAIN call' -> Call]
<1>1. call' = [d \in DOMAIN call' |-> call'[d]]
  BY DEF End
<1> QED BY <1>1, EndedCall, CallsTyped

LEMMA PacketType ==
  ASSUME NEW m \in Members, NEW ver \in 0 .. MaxSaves
  PROVE  /\ Packet1("connected", m, ver) \in Seq(Packet)
         /\ Packet1("ack-join", m, ver) \in Seq(Packet)
BY DEF Packet1, Packet

\* One entry of what each page has of each member.
LEMMA Entry ==
  ASSUME NEW S, NEW f \in [Members -> [Members -> S]], NEW m \in Members, NEW x \in Members,
         NEW v \in S
  PROVE  /\ [f EXCEPT ![m][x] = v] \in [Members -> [Members -> S]]
         /\ \A n, y \in Members :
              [f EXCEPT ![m][x] = v][n][y] = IF n = m /\ y = x THEN v ELSE f[n][y]
<1>1. [f[m] EXCEPT ![x] = v] \in [Members -> S]
  OBVIOUS
<1>2. [f EXCEPT ![m][x] = v] = [f EXCEPT ![m] = [f[m] EXCEPT ![x] = v]]
  OBVIOUS
<1> QED BY <1>1, <1>2

\* What a page knows, after it has been told of a version.
LEMMA ToldEffect ==
  ASSUME TypeOK, NEW m \in Members, NEW x \in Members, NEW ver \in 0 .. MaxSaves,
         Told(m, x, ver)
  PROVE  /\ known' \in [Members -> [Members -> 0 .. MaxSaves]]
         /\ behind' \subseteq Members \X Members
         /\ \A n, y \in Members :
              known'[n][y] = IF n = m /\ y = x /\ ver > known[m][x] THEN ver ELSE known[n][y]
         /\ \A n, y \in Members :
              <<n, y>> \in behind' <=>
                IF n = m /\ y = x THEN ver < known[m][x] ELSE <<n, y>> \in behind
<1> DEFINE v == IF ver > known[m][x] THEN ver ELSE known[m][x]
<1>1. v \in 0 .. MaxSaves /\ known \in [Members -> [Members -> 0 .. MaxSaves]]
  BY DEF TypeOK
<1>2. known' = [known EXCEPT ![m][x] = v]
  BY DEF Told
<1> HIDE DEF v
<1>3. /\ known' \in [Members -> [Members -> 0 .. MaxSaves]]
      /\ \A n, y \in Members : known'[n][y] = IF n = m /\ y = x THEN v ELSE known[n][y]
  BY <1>1, <1>2, Entry
<1>4. \A n, y \in Members :
        known'[n][y] = IF n = m /\ y = x /\ ver > known[m][x] THEN ver ELSE known[n][y]
  BY <1>3 DEF v
<1>5. behind' = IF ver < known[m][x] THEN behind \union {<<m, x>>} ELSE behind \ {<<m, x>>}
  BY DEF Told
<1>6. behind' \subseteq Members \X Members
  BY <1>5 DEF TypeOK
<1>7. \A n, y \in Members :
        <<n, y>> \in behind' <=>
          IF n = m /\ y = x THEN ver < known[m][x] ELSE <<n, y>> \in behind
  BY <1>5
<1> QED BY <1>3, <1>4, <1>6, <1>7

\* What a page was told, after it is gone.
LEMMA ForgottenType ==
  ASSUME TypeOK, NEW m \in Members, Forgotten(m)
  PROVE  /\ known' \in [Members -> [Members -> 0 .. MaxSaves]]
         /\ behind' \subseteq Members \X Members /\ readded' \subseteq Members \X Members
         /\ outdated' \subseteq Members
         /\ \A y \in Members : known'[m][y] = 0
         /\ \A n \in Members \ {m} : /\ known'[n] = known[n]
                                     /\ n \in outdated' <=> n \in outdated
         /\ \A n \in Members \ {m}, y \in Members :
              <<n, y>> \in behind' \union readded' <=> <<n, y>> \in behind \union readded
<1>1. /\ known' = [known EXCEPT ![m] = Nobody] /\ DOMAIN known = Members
      /\ known \in [Members -> [Members -> 0 .. MaxSaves]]
  BY DEF Forgotten, TypeOK
<1>2. Nobody \in [Members -> 0 .. MaxSaves] /\ \A y \in Members : Nobody[y] = 0
  BY DEF Nobody, MaxSaves
<1>3. /\ known' \in [Members -> [Members -> 0 .. MaxSaves]]
      /\ \A y \in Members : known'[m][y] = 0
      /\ \A n \in Members \ {m} : known'[n] = known[n]
  BY <1>1, <1>2
<1>4. /\ behind' \subseteq Members \X Members /\ readded' \subseteq Members \X Members
      /\ outdated' \subseteq Members
      /\ \A n \in Members \ {m} : n \in outdated' <=> n \in outdated
  BY DEF Forgotten, TypeOK
<1>5. \A n \in Members \ {m}, y \in Members :
        <<n, y>> \in behind' \union readded' <=> <<n, y>> \in behind \union readded
  BY DEF Forgotten
<1> QED BY <1>3, <1>4, <1>5

\* A step keeps the types.
LEMMA TypeNext == TypeOK /\ CountInv /\ JoinInv /\ ShapeInv /\ Next => TypeOK'
<1> SUFFICES ASSUME TypeOK, CountInv, JoinInv, ShapeInv, Next PROVE TypeOK'
  OBVIOUS
<1> USE DEF CallIds
<1>12. <<>> \in Seq(Packet)
  OBVIOUS
<1>0. 0 \in 0 .. MaxSaves /\ Nobody \in [Members -> 0 .. MaxSaves]
  BY DEF MaxSaves, Nobody
<1>1. ASSUME NEW c \in Calls, NEW m \in Members, AskJoin(c, m) PROVE TypeOK'
  BY <1>1, BeginType DEF AskJoin, TypeOK, server, notes, Listening
<1>2. ASSUME NEW c \in Calls, NEW m \in Members, NEW x \in Members,
             AskUpdate(c, m, x) \/ AskKick(c, m, x)
      PROVE  TypeOK'
  <2>1. changes' \in 0 .. MaxChanges
    BY <1>2 DEF AskUpdate, AskKick, TypeOK
  <2>2. DOMAIN call' \subseteq CallIds /\ call' \in [DOMAIN call' -> Call]
    BY <1>2, BeginType DEF AskUpdate, AskKick
  <2> QED BY <1>2, <2>1, <2>2 DEF AskUpdate, AskKick, TypeOK, server, notes, screen
<1>3. ASSUME NEW m \in Members, TimeOut(m) PROVE TypeOK'
  BY <1>3 DEF TimeOut, TypeOK, server, notes, Listening
<1>4. ASSUME NEW m \in Members, Close(m) \/ Break(m) PROVE TypeOK'
  <2>1. DOMAIN call' \subseteq CallIds /\ call' \in [DOMAIN call' -> Call]
    BY <1>4, BeginType DEF Close, Break, Disconnected
  <2>2. wire' \in [Members -> Seq(Packet)]
    <3>1. <<>> \in Seq(Packet)
      OBVIOUS
    <3>2. wire' = [wire EXCEPT ![m] = <<>>]
      BY <1>4 DEF Close, Break, Disconnected
    <3> QED BY <3>1, <3>2 DEF TypeOK
  <2>3. inRoom' \subseteq slugged'
    BY <1>4 DEF Close, Break, Disconnected, TypeOK
  <2>4. CASE Close(m)
    BY <1>0, <2>1, <2>2, <2>3, <2>4, ForgottenType DEF Close, Disconnected, TypeOK, Listening
  <2>5. CASE Break(m)
    BY <2>1, <2>2, <2>3, <2>5 DEF Break, Disconnected, TypeOK, notes, Listening
  <2> QED BY <1>4, <2>4, <2>5
<1>17. ASSUME NEW c \in Calls, NEW m \in Members, CloseStranded(c, m) PROVE TypeOK'
  <2>1. DOMAIN call' \subseteq CallIds /\ call' \in [DOMAIN call' -> Call]
    BY <1>17, BeginType DEF CloseStranded, TypeOK
  <2> QED BY <1>0, <1>12, <1>17, <2>1, ForgottenType DEF CloseStranded, TypeOK, server
<1>5. ASSUME NEW c \in CallIds, Save(c) PROVE TypeOK'
  <2>1. c \in DOMAIN call /\ call[c] \in Call /\ call[c].pc = "save"
    BY <1>5, SaveCases
  <2>2. early' \subseteq Members
    BY <1>5, <2>1 DEF Save, TypeOK, Call
  <2>3. CASE Saved(c)
    <3>1. saves[call[c].on] + 1 \in 0 .. MaxSaves
      BY <2>1, <2>3, SaveRoom DEF Saved
    <3>2. call'[c] \in Call
      BY <2>1, <2>3, <3>1 DEF Saved, Call
    <3>3. call' = [d \in DOMAIN call' |-> call'[d]]
      BY <1>5 DEF Save, End
    <3>4. DOMAIN call' \subseteq CallIds /\ call' \in [DOMAIN call' -> Call]
      BY <2>1, <2>3, <3>2, <3>3, CallsTyped DEF Saved
    <3>5. active' \subseteq Members /\ saves' \in [Members -> 0 .. MaxSaves]
      BY <2>1, <2>3, <3>1 DEF Saved, Call, TypeOK
    <3> QED BY <1>5, <2>2, <3>4, <3>5 DEF Save, TypeOK, screen, notes
  <2>4. CASE End(c) /\ UNCHANGED <<active, saves>>
    BY <1>5, <2>2, <2>4, EndType DEF Save, TypeOK, screen, notes
  <2> QED BY <1>5, <2>3, <2>4, SaveCases
<1>6. ASSUME NEW c \in CallIds, Enter(c) PROVE TypeOK'
  <2>1. c \in DOMAIN call /\ call[c] \in Call /\ call'[c] \in Call
    BY <1>6, EnteredCall DEF Call
  <2>2. DOMAIN call' \subseteq CallIds /\ call' \in [DOMAIN call' -> Call]
    <3>1. call' = [d \in DOMAIN call' |-> call'[d]]
      BY <1>6 DEF Enter, TypeOK
    <3> QED BY <1>6, <2>1, <3>1, EnteredCall, CallsTyped
  <2>3. wire' \in [Members -> Seq(Packet)]
    <3>1. Packet1("connected", call[c].by, call[c].ver) \in Seq(Packet)
      BY <2>1, PacketType DEF Call
    <3>2. \A n \in Members : wire[n] \o Packet1("connected", call[c].by, call[c].ver) \in Seq(Packet)
      BY <3>1, PacketsConcat DEF TypeOK
    <3> QED BY <1>6, <3>2 DEF Enter, TypeOK
  <2>4. slugged' \subseteq Members /\ inRoom' \subseteq slugged'
    BY <1>6, <2>1 DEF Enter, TypeOK, Call
  <2> QED BY <1>6, <2>2, <2>3, <2>4 DEF Enter, TypeOK, screen, notes
<1>7. ASSUME NEW c \in CallIds, Reply(c) PROVE TypeOK'
  <2>1. c \in DOMAIN call /\ call[c] \in Call
    BY <1>7 DEF Reply, At, TypeOK
  <2>2. wire' \in [Members -> Seq(Packet)]
    <3>1. Packet1("ack-join", call[c].by, call[c].ver) \in Seq(Packet)
      BY <2>1, PacketType DEF Call
    <3>2. wire[call[c].by] \o Packet1("ack-join", call[c].by, call[c].ver) \in Seq(Packet)
      BY <2>1, <3>1, PacketsConcat DEF TypeOK, Call
    <3> QED BY <1>7, <3>2 DEF Reply, TypeOK
  <2>3. DOMAIN call' \subseteq CallIds /\ call' \in [DOMAIN call' -> Call]
    BY <1>7, EndType DEF Reply
  <2> QED BY <1>7, <2>2, <2>3 DEF Reply, TypeOK, server, screen, notes
<1>8. ASSUME NEW c \in CallIds, Announce(c) PROVE TypeOK'
  <2>1. c \in DOMAIN call /\ call[c] \in Call
    BY <1>8 DEF Announce, At, TypeOK
  <2>2. wire' \in [Members -> Seq(Packet)]
    <3>1. \A n \in Members : wire[n] \o Heard(call[c], n) \in Seq(Packet)
      BY <2>1, HeardPackets, PacketsConcat DEF TypeOK
    <3> QED BY <1>8, <3>1 DEF Announce
  <2>3. DOMAIN call' \subseteq CallIds /\ call' \in [DOMAIN call' -> Call]
    BY <1>8, EndType DEF Announce
  <2>4. unsaid' \subseteq Members
    BY <1>8, <2>1 DEF Announce, TypeOK, Call
  <2> QED BY <1>8, <2>2, <2>3, <2>4 DEF Announce, TypeOK, server, screen, notes
<1>9. ASSUME NEW m \in Members, ServeList(m) PROVE TypeOK'
  <2>1. /\ [is |-> "sent", of |-> [x \in Members |-> IF x \in active THEN saves[x] ELSE 0],
            at |-> saves] \in Answer
        /\ NoAnswer \in Answer
    BY <1>0 DEF Answer, TypeOK, NoAnswer
  <2>2. answer' \in [Members -> Answer]
    BY <1>9, <2>1 DEF ServeList, TypeOK
  <2> QED BY <1>9, <2>2 DEF ServeList, TypeOK, server, screen, notes
<1>10. ASSUME NEW m \in Members, TakeKicked(m) PROVE TypeOK'
  <2>1. /\ roster' \in [Members -> [Members -> 0 .. MaxSaves]]
        /\ wire' \in [Members -> Seq(Packet)]
    BY <1>0, <1>10, <1>12, Entry DEF TakeKicked, TypeOK
  <2> QED BY <1>0, <1>10, <2>1 DEF TakeKicked, TypeOK, notes, Listening
<1>11. ASSUME NEW m \in Members, wire[m] # <<>>
       PROVE  /\ Tail(wire[m]) \in Seq(Packet) /\ Head(wire[m]).on \in Members
              /\ Head(wire[m]).ver \in 0 .. MaxSaves
  BY <1>11, PacketsTail DEF TypeOK, Packet
<1>13. ASSUME NEW m \in Members, TakeGone(m) PROVE TypeOK'
  <2>1. /\ known' \in [Members -> [Members -> 0 .. MaxSaves]]
        /\ behind' \subseteq Members \X Members
        /\ wire' \in [Members -> Seq(Packet)]
    BY <1>11, <1>13, ToldEffect DEF TakeGone, TypeOK
  <2>2. roster' \in [Members -> [Members -> 0 .. MaxSaves]]
    BY <1>0, <1>11, <1>13, Entry DEF TakeGone, TypeOK
  <2> QED BY <1>13, <2>1, <2>2 DEF TakeGone, TypeOK, server
<1>14. ASSUME NEW m \in Members, TakeUpsert(m) PROVE TypeOK'
  <2>1. /\ known' \in [Members -> [Members -> 0 .. MaxSaves]]
        /\ behind' \subseteq Members \X Members
        /\ wire' \in [Members -> Seq(Packet)]
    BY <1>11, <1>14, ToldEffect DEF TakeUpsert, TypeOK
  <2>2. /\ roster' \in [Members -> [Members -> 0 .. MaxSaves]]
        /\ readded' \subseteq Members \X Members
    <3>1. roster' = [roster EXCEPT ![m][Head(wire[m]).on] = Head(wire[m]).ver]
      BY <1>14 DEF TakeUpsert
    <3>2. roster \in [Members -> [Members -> 0 .. MaxSaves]]
      BY DEF TypeOK
    <3>3. Head(wire[m]).on \in Members /\ Head(wire[m]).ver \in 0 .. MaxSaves
      BY <1>11, <1>14 DEF TakeUpsert
    <3>4. roster' \in [Members -> [Members -> 0 .. MaxSaves]]
      BY <3>1, <3>2, <3>3, Entry
    <3>5. readded' \subseteq readded \union {<<m, Head(wire[m]).on>>}
      BY <1>14 DEF TakeUpsert
    <3>6. readded \subseteq Members \X Members /\ <<m, Head(wire[m]).on>> \in Members \X Members
      BY <3>3 DEF TypeOK
    <3> QED BY <3>4, <3>5, <3>6
  <2>3. /\ me' \in [Members -> 0 .. MaxSaves] /\ outdated' \subseteq Members
        /\ \A n \in Members : me'[n] # 0 => page[n] \in {"in", "stranded"}
    <3>1. CASE Head(wire[m]).on = m /\ me[m] # 0
      <4>1. Sets(m, Head(wire[m]).ver) /\ Head(wire[m]).ver \in 0 .. MaxSaves
        BY <1>11, <1>14, <3>1 DEF TakeUpsert
      <4> QED BY <3>1, <4>1 DEF Sets, TypeOK
    <3>2. CASE ~(Head(wire[m]).on = m /\ me[m] # 0)
      BY <1>14, <3>2 DEF TakeUpsert, TypeOK
    <3> QED BY <3>1, <3>2
  <2> QED BY <1>14, <2>1, <2>2, <2>3 DEF TakeUpsert, TypeOK, server
<1>15. ASSUME NEW m \in Members, TakeJoined(m) PROVE TypeOK'
  <2>1. wire' \in [Members -> Seq(Packet)]
    BY <1>11, <1>15 DEF TakeJoined, TypeOK
  <2>2. CASE page[m] = "joining"
    <3>1. Asked \in Answer
      BY <1>0 DEF Asked, NoAnswer, Answer
    <3>2. /\ known' \in [Members -> [Members -> 0 .. MaxSaves]]
          /\ behind' \subseteq Members \X Members
      BY <1>11, <1>15, <2>2, ToldEffect DEF TakeJoined
    <3>3. Head(wire[m]).ver \in 0 .. MaxSaves
      BY <1>11, <1>15 DEF TakeJoined
    <3>4. /\ roster' = [roster EXCEPT ![m][m] = Head(wire[m]).ver]
          /\ answer' = [answer EXCEPT ![m] = Asked]
          /\ page' = [page EXCEPT ![m] = "in"]
          /\ Sets(m, Head(wire[m]).ver)
      BY <1>15, <2>2 DEF TakeJoined
    <3>5. roster' \in [Members -> [Members -> 0 .. MaxSaves]]
      <4>1. roster \in [Members -> [Members -> 0 .. MaxSaves]]
        BY DEF TypeOK
      <4> QED BY <3>3, <3>4, <4>1, Entry
    <3>6. answer' \in [Members -> Answer]
      BY <3>1, <3>4 DEF TypeOK
    <3>7. me' \in [Members -> 0 .. MaxSaves] /\ outdated' \subseteq Members
      BY <3>3, <3>4 DEF Sets, TypeOK
    <3>8. page' \in [Members -> Listening \union {"new", "kicked", "stranded", "closed"}]
      BY <3>4 DEF TypeOK, Listening
    <3>9. \A n \in Members : me'[n] # 0 => page'[n] \in {"in", "stranded"}
      BY <3>4 DEF Sets, TypeOK
    <3> QED BY <1>15, <2>1, <3>2, <3>5, <3>6, <3>7, <3>8, <3>9 DEF TakeJoined, TypeOK, server
  <2>3. CASE page[m] # "joining"
    BY <1>15, <2>1, <2>3 DEF TakeJoined, TypeOK, server
  <2> QED BY <2>2, <2>3
<1>16. ASSUME NEW m \in Members, TakeList(m) PROVE TypeOK'
  <2>1. /\ answer[m].of \in [Members -> 0 .. MaxSaves] /\ answer[m].at \in [Members -> 0 .. MaxSaves]
        /\ NoAnswer \in Answer
    BY <1>0 DEF TypeOK, Answer, NoAnswer
  <2>2. /\ roster' \in [Members -> [Members -> 0 .. MaxSaves]]
        /\ known' \in [Members -> [Members -> 0 .. MaxSaves]]
        /\ behind' \subseteq Members \X Members /\ readded' \subseteq Members \X Members
        /\ answer' \in [Members -> Answer]
    BY <1>16, <2>1 DEF TakeList, TypeOK
  <2> QED BY <1>16, <2>2 DEF TakeList, TypeOK, server
<1> QED
  BY <1>1, <1>2, <1>3, <1>4, <1>5, <1>6, <1>7, <1>8, <1>9, <1>10, <1>13, <1>14, <1>15, <1>16,
     <1>17
  DEF Next, Step, Receive
-----------------------------------------------------------------------------
(* The steps of the members.                                               *)

\* The counts hold on when nothing is added to what is still to come.
LEMMA CountKeeps ==
  ASSUME CountInv, TypeOK, UNCHANGED <<active, saves, changes>>, IsFiniteSet(DOMAIN call'),
         \A x \in Members : Changing(x)' \subseteq Changing(x)
  PROVE  CountInv'
<1> SUFFICES ASSUME NEW x \in Members
             PROVE  (saves[x] + Cardinality(Changing(x)) + Left(x) <= changes + 2)'
  BY DEF CountInv
<1>1. /\ IsFiniteSet(Changing(x)) /\ Cardinality(Changing(x)) \in Nat
      /\ Left(x) \in {0, 1, 2} /\ Left(x)' = Left(x)
  BY Counts DEF Left
<1>2. Cardinality(Changing(x)') \in Nat /\ Cardinality(Changing(x)') <= Cardinality(Changing(x))
  BY <1>1, FS_Subset, FS_CardinalityType
<1>3. /\ saves[x] + Cardinality(Changing(x)) + Left(x) <= changes + 2
      /\ saves[x] \in Nat /\ changes \in Nat
  BY DEF CountInv, TypeOK
<1> QED BY <1>1, <1>2, <1>3

\* What is about to be announced is still, when its handler stays.
LEMMA AnnouncedStays ==
  ASSUME NEW m, NEW x, saves'[x] = saves[x], Announced(m, x),
         \A d \in DOMAIN call :
           (At(d, "announce") \/ At(d, "enter")) /\ call[d].on = x /\ call[d].ver = saves[x]
             => d \in DOMAIN call' /\ call'[d] = call[d]
  PROVE  Announced(m, x)'
BY DEF Announced, At

\* So does what is kept from a page that is kicked.
LEMMA KickStays ==
  ASSUME KickInv, active' = active, saves' = saves,
         \A m \in Members : page'[m] \in Listening => page[m] \in Listening,
         \A m \in Members : page'[m] \in Listening =>
           \A p \in Packets(wire[m]) : p.kind = "kicked" => p \in Packets(wire'[m]),
         \A d \in DOMAIN call : At(d, "announce") => d \in DOMAIN call' /\ call'[d] = call[d]
  PROVE  KickInv'
BY DEF KickInv, At

LEMMA AskJoinStep ==
  ASSUME RosterInv, TypeOK', NEW c \in Calls, NEW m \in Members, AskJoin(c, m)
  PROVE  RosterInv'
<1> USE DEF RosterInv
<1>1. /\ DOMAIN call' = DOMAIN call \union {c} /\ c \notin DOMAIN call /\ c \notin Members
      /\ call'[c] = NewCall("join", m, m, FALSE)
      /\ \A d \in DOMAIN call : call'[d] = call[d]
  BY BegunCall DEF AskJoin, Kept
<1> USE DEF NewCall
<1>2. /\ page[m] = "new" /\ page'[m] = "joining"
      /\ \A n \in Members \ {m} : page'[n] = page[n]
  BY DEF AskJoin, TypeOK
<1>3. UNCHANGED <<server, wire, answer, me, roster, notes, early, unsaid, changes>>
  BY DEF AskJoin
<1>4. saves[m] = 0 /\ wire[m] = <<>>
  BY <1>2 DEF PageInv, Listening
<1>5. CountInv'
  <2>1. IsFiniteSet(DOMAIN call')
    BY <1>1, FS_AddElement DEF CountInv
  <2>2. ASSUME NEW x \in Members PROVE Changing(x)' \subseteq Changing(x)
    BY <1>1 DEF Changing, At
  <2> QED BY <1>3, <2>1, <2>2, CountKeeps DEF server
<1>14. \A d \in DOMAIN call : call[d].by \in Members
  BY DEF TypeOK, Call
<1>6. ShapeInv'
  <2> SUFFICES ASSUME NEW d \in DOMAIN call' PROVE Shaped(d)'
    BY DEF ShapeInv
  <2> QED BY <1>1, <1>2, <1>3, <1>14 DEF ShapeInv, Shaped, server
<1>7. PageInv'
  BY <1>2, <1>3 DEF PageInv, server, Listening
<1>8. JoinInv'
  <2>1. \A d \in DOMAIN call : call[d].op = "join" => call[d].by # m
    BY <1>2 DEF ShapeInv, Shaped
  <2>2. Packets(wire[m]) = {}
    BY <1>4, PacketsNone
  <2> QED BY <1>1, <1>2, <1>3, <1>4, <1>14, <2>1, <2>2 DEF JoinInv, server
<1>9. VersionInv'
  BY <1>1, <1>3, <1>4 DEF VersionInv, server, notes, Truth
<1>10. KickInv'
  BY <1>1, <1>2, <1>3, <1>4 DEF KickInv, server, At
<1>11. ListInv'
  BY <1>2, <1>3 DEF ListInv, server, notes, Truth
<1>12. NewsInv'
  <2>1. \A n, x \in Members : Announced(n, x) => Announced(n, x)'
    BY <1>1, <1>3, AnnouncedStays DEF server
  <2> QED BY <1>2, <1>3, <2>1 DEF NewsInv, server, notes, Coming
<1>13. MeInv'
  <2>1. \A n \in Members : Announced(n, n) => Announced(n, n)'
    BY <1>1, <1>3, AnnouncedStays DEF server
  <2> QED BY <1>2, <1>3, <1>4, <2>1 DEF MeInv, server, notes, Coming
<1> QED BY <1>5, <1>6, <1>7, <1>8, <1>9, <1>10, <1>11, <1>12, <1>13

\* The number still to come to x grows by one with one handler.
LEMMA ChangingAdds ==
  ASSUME CountInv, NEW x \in Members, NEW c, Changing(x)' = Changing(x) \union {c}
  PROVE  /\ Cardinality(Changing(x)') \in Nat
         /\ Cardinality(Changing(x)') <= Cardinality(Changing(x)) + 1
<1> DEFINE S == Changing(x)
<1>1. IsFiniteSet(S) /\ Cardinality(S) \in Nat
  BY Counts
<1> HIDE DEF S
<1>2. /\ Cardinality(S \union {c}) \in Nat
      /\ Cardinality(S \union {c}) <= Cardinality(S) + 1
  <2>1. CASE c \in S
    <3>1. S \union {c} = S
      BY <2>1
    <3>2. Cardinality(S \union {c}) = Cardinality(S)
      BY <3>1, Zenon
    <3> QED BY <1>1, <3>2
  <2>2. CASE c \notin S
    <3>1. Cardinality(S \union {c}) = Cardinality(S) + 1
      BY <1>1, <2>2, FS_AddElement
    <3> QED BY <1>1, <3>1
  <2> QED BY <2>1, <2>2
<1> QED BY <1>2 DEF S

LEMMA AskChangeStep ==
  ASSUME RosterInv, TypeOK', NEW c \in Calls, NEW m \in Members, NEW x \in Members,
         AskUpdate(c, m, x) \/ AskKick(c, m, x)
  PROVE  RosterInv'
<1> USE DEF RosterInv
<1>1. /\ DOMAIN call' = DOMAIN call \union {c} /\ c \notin DOMAIN call /\ c \notin Members
      /\ \E op \in {"update", "kick"}, again \in BOOLEAN : call'[c] = NewCall(op, m, x, again)
      /\ \A d \in DOMAIN call : call'[d] = call[d]
  <2>1. c \notin DOMAIN call /\ c \notin Members
    BY DEF AskUpdate, AskKick
  <2>2. PICK op \in {"update", "kick"}, again \in BOOLEAN : Begin(c, op, m, x, again)
    BY DEF AskUpdate, AskKick
  <2>3. /\ DOMAIN call' = DOMAIN call \union {c} /\ call'[c] = NewCall(op, m, x, again)
        /\ \A d \in DOMAIN call : call'[d] = call[d]
    BY <2>1, <2>2, BegunCall, Zenon DEF Kept
  <2> QED BY <2>1, <2>3, Zenon
<1> USE DEF NewCall
<1>2. /\ UNCHANGED <<server, wire, answer, screen, notes, early, unsaid>>
      /\ changes' = changes + 1
  BY DEF AskUpdate, AskKick
<1>3. CountInv'
  <2>1. IsFiniteSet(DOMAIN call')
    BY <1>1, FS_AddElement DEF CountInv
  <2>2. ASSUME NEW y \in Members
        PROVE  (saves[y] + Cardinality(Changing(y)) + Left(y) <= changes + 2)'
    <3>1. Changing(y)' = IF y = x THEN Changing(y) \union {c} ELSE Changing(y)
      BY <1>1 DEF Changing, At
    <3>2. Left(y)' = Left(y)
      BY <1>2 DEF Left, server
    <3>4. Cardinality(Changing(y)) \in Nat /\ Left(y) \in {0, 1, 2}
      BY Counts
    <3>5. /\ Cardinality(Changing(y)') \in Nat
          /\ Cardinality(Changing(y)') <= Cardinality(Changing(y)) + 1
      <4>1. CASE y = x
        BY <3>1, <4>1, ChangingAdds
      <4>2. CASE y # x
        <5>1. Changing(y)' = Changing(y)
          BY <3>1, <4>2
        <5> QED BY <3>4, <5>1
      <4> QED BY <4>1, <4>2
    <3>6. saves[y] + Cardinality(Changing(y)) + Left(y) <= changes + 2
      BY DEF CountInv
    <3>7. saves[y] \in Nat /\ changes \in Nat
      BY DEF TypeOK
    <3> QED BY <1>2, <3>2, <3>4, <3>5, <3>6, <3>7 DEF server
  <2> QED BY <2>1, <2>2 DEF CountInv
<1>4. ShapeInv'
  <2> SUFFICES ASSUME NEW d \in DOMAIN call' PROVE Shaped(d)'
    BY DEF ShapeInv
  <2> QED BY <1>1, <1>2 DEF ShapeInv, Shaped, server, screen
<1>5. PageInv'
  BY <1>2 DEF PageInv, server, screen
<1>6. JoinInv'
  BY <1>1, <1>2 DEF JoinInv, server, screen
<1>7. VersionInv'
  <2>1. saves[x] \in Nat
    BY DEF TypeOK
  <2> QED BY <1>1, <1>2, <2>1 DEF VersionInv, server, notes, Truth
<1>8. KickInv'
  BY <1>1, <1>2, KickStays DEF server, screen
<1>9. ListInv'
  BY <1>2 DEF ListInv, server, screen, notes, Truth
<1>10. \A n, y \in Members : Announced(n, y) => Announced(n, y)'
  BY <1>1, <1>2, AnnouncedStays DEF server
<1>11. NewsInv'
  BY <1>2, <1>10 DEF NewsInv, server, screen, notes, Coming
<1>12. MeInv'
  BY <1>2, <1>10 DEF MeInv, server, screen, notes, Coming
<1> QED BY <1>3, <1>4, <1>5, <1>6, <1>7, <1>8, <1>9, <1>11, <1>12

LEMMA TimeOutStep ==
  ASSUME RosterInv, TypeOK', NEW m \in Members, TimeOut(m)
  PROVE  RosterInv'
<1> USE DEF RosterInv
<1>1. /\ page[m] = "joining" /\ page'[m] = "failed"
      /\ \A n \in Members \ {m} : page'[n] = page[n]
      /\ UNCHANGED <<server, call, wire, answer, me, roster, notes, early, unsaid, changes>>
  BY DEF TimeOut, TypeOK
<1>2. CountInv'
  <2>1. \A x \in Members : Changing(x)' = Changing(x)
    BY <1>1 DEF Changing, At
  <2>2. IsFiniteSet(DOMAIN call')
    BY <1>1 DEF CountInv
  <2> QED BY <1>1, <2>1, <2>2, CountKeeps DEF server
<1>3. \A d \in DOMAIN call : call[d].by \in Members
  BY DEF TypeOK, Call
<1>4. ShapeInv'
  <2> SUFFICES ASSUME NEW d \in DOMAIN call' PROVE Shaped(d)'
    BY DEF ShapeInv
  <2> QED BY <1>1, <1>3 DEF ShapeInv, Shaped, server
<1>5. PageInv'
  BY <1>1 DEF PageInv, server, Listening
<1>6. JoinInv'
  BY <1>1, <1>3 DEF JoinInv, server, Listening
<1>7. VersionInv'
  BY <1>1 DEF VersionInv, server, notes, Truth
<1>8. KickInv'
  BY <1>1, KickStays DEF server, Listening
<1>9. ListInv'
  BY <1>1 DEF ListInv, server, notes, Truth
<1>10. \A n, y \in Members : Announced(n, y) => Announced(n, y)'
  BY <1>1, AnnouncedStays DEF server
<1>11. NewsInv'
  BY <1>1, <1>10 DEF NewsInv, server, notes, Coming
<1>12. MeInv'
  BY <1>1, <1>10 DEF MeInv, server, notes, Coming
<1> QED BY <1>2, <1>4, <1>5, <1>6, <1>7, <1>8, <1>9, <1>11, <1>12

\* The page leaves: its packets are lost, and handleDisconnect begins.
LEMMA LeaveStep ==
  ASSUME RosterInv, TypeOK', NEW m \in Members, Close(m) \/ Break(m)
  PROVE  RosterInv'
<1> USE DEF RosterInv
<1>1. /\ DOMAIN call' = DOMAIN call \union {m} /\ m \notin DOMAIN call
      /\ call'[m] = NewCall("depart", m, m, FALSE)
      /\ \A d \in DOMAIN call : call'[d] = call[d]
  BY BegunCall DEF Close, Break, Disconnected, Kept
<1> USE DEF NewCall
<1>2. /\ page[m] \in Listening
      /\ page'[m] = "closed" \/ (page'[m] = "stranded" /\ page[m] = "in")
      /\ \A n \in Members \ {m} : page'[n] = page[n]
  BY DEF Close, Break, TypeOK, Listening
<1>3. /\ inRoom' = inRoom \ {m} /\ wire'[m] = <<>>
      /\ \A n \in Members \ {m} : wire'[n] = wire[n]
      /\ UNCHANGED <<active, saves, slugged, answer, early, unsaid, changes>>
  <2>1. wire' = [wire EXCEPT ![m] = <<>>] /\ DOMAIN wire = Members
    BY DEF Close, Break, Disconnected, TypeOK
  <2>2. wire'[m] = <<>> /\ \A n \in Members \ {m} : wire'[n] = wire[n]
    BY <2>1
  <2> QED BY <2>2 DEF Close, Break, Disconnected
<1>4. /\ page'[m] = "stranded" => UNCHANGED <<me, roster, notes>>
      /\ page'[m] = "closed" => Forgotten(m)
      /\ \A n \in Members \ {m} : me'[n] = me[n] /\ roster'[n] = roster[n]
  <2>1. CASE Break(m)
    BY <2>1 DEF Break, TypeOK
  <2>2. CASE Close(m)
    <3>1. page'[m] = "closed" /\ Forgotten(m)
      BY <2>2 DEF Close, TypeOK
    <3>2. /\ me' = [me EXCEPT ![m] = 0]
          /\ roster' = [roster EXCEPT ![m] = Nobody]
      BY <2>2 DEF Close
    <3> QED BY <3>1, <3>2 DEF TypeOK
  <2> QED BY <2>1, <2>2
<1>17. /\ \A y \in Members : known'[m][y] <= saves[y]
       /\ \A n \in Members \ {m} : /\ known'[n] = known[n]
                                   /\ n \in outdated' <=> n \in outdated
       /\ \A n \in Members \ {m}, y \in Members :
            <<n, y>> \in behind' \union readded' <=> <<n, y>> \in behind \union readded
  <2>1. CASE page'[m] = "stranded"
    BY <1>4, <2>1 DEF VersionInv, notes
  <2>2. CASE page'[m] = "closed"
    <3>1. \A y \in Members : saves[y] \in Nat
      BY DEF TypeOK
    <3> QED BY <1>4, <2>2, <3>1, ForgottenType
  <2> QED BY <1>2, <2>1, <2>2
<1>5. \A d \in DOMAIN call : call[d].by \in Members
  BY DEF TypeOK, Call
<1>6. \A n \in Members : Packets(wire'[n]) \subseteq Packets(wire[n])
  BY <1>3, PacketsNone
<1>7. CountInv'
  <2>1. IsFiniteSet(DOMAIN call')
    BY <1>1, FS_AddElement DEF CountInv
  <2>2. ASSUME NEW x \in Members PROVE Changing(x)' \subseteq Changing(x)
    BY <1>1 DEF Changing, At
  <2> QED BY <1>3, <2>1, <2>2, CountKeeps
<1>8. ShapeInv'
  <2> SUFFICES ASSUME NEW d \in DOMAIN call' PROVE Shaped(d)'
    BY DEF ShapeInv
  <2> QED BY <1>1, <1>2, <1>3, <1>5 DEF ShapeInv, Shaped
<1>9. PageInv'
  BY <1>2, <1>3, <1>4 DEF PageInv, Listening
<1>10. JoinInv'
  BY <1>1, <1>2, <1>3, <1>5, <1>6, PacketsNone DEF JoinInv, Listening
<1>11. VersionInv'
  <2>1. saves[m] \in Nat
    BY DEF TypeOK
  <2>2. ASSUME NEW d \in DOMAIN call'
        PROVE  LET k == call'[d]
               IN  /\ k.ver <= saves[k.on]
                   /\ k.pc # "save" => k.ver # 0
                   /\ k.pc # "save" /\ k.ver = saves[k.on] =>
                        (k.op \in {"join", "update"} <=> k.on \in active)
    BY <1>1, <2>1 DEF VersionInv
  <2>3. ASSUME NEW n \in Members, NEW q \in Packets(wire'[n])
        PROVE  /\ q.ver <= saves[q.on] /\ q.ver # 0
               /\ q.ver = saves[q.on] => /\ q.kind \in Upserts => q.on \in active
                                         /\ q.kind = "gone" => q.on \notin active
    BY <1>6 DEF VersionInv
  <2>4. ASSUME NEW n \in Members, NEW y \in Members PROVE known'[n][y] <= saves[y]
    BY <1>17 DEF VersionInv
  <2> QED BY <1>3, <2>2, <2>3, <2>4 DEF VersionInv, Truth
<1>12. KickInv'
  BY <1>1, <1>2, <1>3, KickStays DEF Listening
<1>13. ListInv'
  <2> SUFFICES ASSUME NEW n \in Members, NEW y \in Members,
                      page'[n] \notin {"closed", "kicked"}, known'[n][y] = saves[y]
               PROVE  roster'[n][y] = Truth(y) \/ <<n, y>> \in behind' \union readded'
    BY <1>3 DEF ListInv, Truth
  <2>1. CASE n = m
    BY <1>2, <1>4, <2>1 DEF ListInv, notes, Listening
  <2>2. CASE n # m
    BY <1>2, <1>4, <1>17, <2>2 DEF ListInv
  <2> QED BY <2>1, <2>2
<1>14. \A n, y \in Members : Announced(n, y) => Announced(n, y)'
  BY <1>1, <1>3, AnnouncedStays
<1>15. NewsInv'
  BY <1>2, <1>3, <1>14, <1>17 DEF NewsInv, Coming
<1>16. MeInv'
  BY <1>2, <1>3, <1>4, <1>14, <1>17 DEF MeInv, Coming
<1> QED BY <1>7, <1>8, <1>9, <1>10, <1>11, <1>12, <1>13, <1>15, <1>16

\* A stranded page leaves: its news are lost, and a leave-room handler may begin.
LEMMA LeaveStrandedStep ==
  ASSUME RosterInv, TypeOK', NEW c \in Calls, NEW m \in Members, CloseStranded(c, m)
  PROVE  RosterInv'
<1> USE DEF RosterInv
<1>1. /\ DOMAIN call \subseteq DOMAIN call' /\ DOMAIN call' \subseteq DOMAIN call \union {c}
      /\ c \notin DOMAIN call /\ c \notin Members
      /\ c \in DOMAIN call' => call'[c] = NewCall("leave", m, m, TRUE)
      /\ \A d \in DOMAIN call : call'[d] = call[d]
  <2>1. c \notin DOMAIN call /\ c \notin Members
    BY DEF CloseStranded
  <2>2. CASE Begin(c, "leave", m, m, TRUE)
    <3>1. /\ DOMAIN call' = DOMAIN call \union {c} /\ call'[c] = NewCall("leave", m, m, TRUE)
          /\ \A d \in DOMAIN call : call'[d] = call[d]
      BY <2>1, <2>2, BegunCall, Zenon DEF Kept
    <3> QED BY <2>1, <3>1
  <2>3. CASE UNCHANGED call
    BY <2>1, <2>3
  <2> QED BY <2>2, <2>3 DEF CloseStranded
<1> USE DEF NewCall
<1>2. /\ page[m] = "stranded" /\ page'[m] = "closed" /\ wire'[m] = <<>>
      /\ \A n \in Members \ {m} :
           page'[n] = page[n] /\ wire'[n] = wire[n] /\ me'[n] = me[n] /\ roster'[n] = roster[n]
      /\ UNCHANGED <<server, answer, early, unsaid, changes>>
  BY DEF CloseStranded, TypeOK
<1>16. Forgotten(m) /\ \A y \in Members : saves[y] \in Nat
  BY DEF CloseStranded, TypeOK
<1>3. /\ \A y \in Members : known'[m][y] = 0
      /\ \A n \in Members \ {m} : known'[n] = known[n] /\ (n \in outdated' <=> n \in outdated)
      /\ \A n \in Members \ {m}, y \in Members :
           <<n, y>> \in behind' \union readded' <=> <<n, y>> \in behind \union readded
  BY <1>16, ForgottenType
<1>4. \A d \in DOMAIN call : call[d].by \in Members
  BY DEF TypeOK, Call
<1>5. \A n \in Members : Packets(wire'[n]) \subseteq Packets(wire[n])
  BY <1>2, PacketsNone
<1>6. CountInv'
  <2>1. IsFiniteSet(DOMAIN call')
    <3>1. IsFiniteSet(DOMAIN call \union {c})
      BY FS_AddElement DEF CountInv
    <3> QED BY <1>1, <3>1, FS_Subset
  <2>2. ASSUME NEW x \in Members PROVE Changing(x)' \subseteq Changing(x)
    BY <1>1 DEF Changing, At
  <2> QED BY <1>2, <2>1, <2>2, CountKeeps DEF server
<1>7. ShapeInv'
  <2> SUFFICES ASSUME NEW d \in DOMAIN call' PROVE Shaped(d)'
    BY DEF ShapeInv
  <2> QED BY <1>1, <1>2, <1>4 DEF ShapeInv, Shaped
<1>8. PageInv'
  BY <1>2 DEF PageInv, Listening, server
<1>9. JoinInv'
  BY <1>1, <1>2, <1>4, <1>5, PacketsNone DEF JoinInv, Listening, server
<1>10. VersionInv'
  <2>1. UNCHANGED <<active, saves, answer>>
    BY <1>2 DEF server
  <2>2. ASSUME NEW d \in DOMAIN call'
        PROVE  LET k == call'[d]
               IN  /\ k.ver <= saves[k.on]
                   /\ k.pc # "save" => k.ver # 0
                   /\ k.pc # "save" /\ k.ver = saves[k.on] =>
                        (k.op \in {"join", "update"} <=> k.on \in active)
    <3>1. CASE d \in DOMAIN call
      BY <1>1, <3>1 DEF VersionInv
    <3>2. CASE d = c
      BY <1>1, <1>16, <3>2
    <3> QED BY <1>1, <3>1, <3>2
  <2>3. ASSUME NEW n \in Members, NEW q \in Packets(wire'[n])
        PROVE  /\ q.ver <= saves[q.on] /\ q.ver # 0
               /\ q.ver = saves[q.on] => /\ q.kind \in Upserts => q.on \in active
                                         /\ q.kind = "gone" => q.on \notin active
    BY <1>5 DEF VersionInv
  <2>4. ASSUME NEW n \in Members, NEW y \in Members PROVE known'[n][y] <= saves[y]
    BY <1>3, <1>16 DEF VersionInv
  <2> QED BY <2>1, <2>2, <2>3, <2>4 DEF VersionInv, Truth
<1>11. KickInv'
  BY <1>1, <1>2, KickStays DEF Listening, server
<1>12. ListInv'
  BY <1>2, <1>3 DEF ListInv, Truth, server
<1>13. \A n, y \in Members : Announced(n, y) => Announced(n, y)'
  BY <1>1, <1>2, AnnouncedStays DEF server
<1>14. NewsInv'
  BY <1>2, <1>3, <1>13 DEF NewsInv, Coming, server
<1>15. MeInv'
  BY <1>2, <1>3, <1>13 DEF MeInv, Coming, server
<1> QED BY <1>6, <1>7, <1>8, <1>9, <1>10, <1>11, <1>12, <1>14, <1>15
-----------------------------------------------------------------------------
(* The steps of the handlers.                                              *)

\* The members and the versions that are spoken of.
LEMMA Spoken ==
  ASSUME TypeOK
  PROVE  /\ \A d \in DOMAIN call : /\ call[d].by \in Members /\ call[d].on \in Members
                                   /\ call[d].ver \in Nat
         /\ \A m \in Members : \A p \in Packets(wire[m]) :
              p \in Packet /\ p.on \in Members /\ p.ver \in Nat
         /\ \A m \in Members : saves[m] \in Nat
         /\ \A m, x \in Members : known[m][x] \in Nat /\ answer[m].at[x] \in Nat
<1>1. \A v \in 0 .. MaxSaves : v \in Nat
  OBVIOUS
<1>2. \A d \in DOMAIN call : call[d] \in Call
  BY DEF TypeOK
<1>3. \A m \in Members : \A p \in Packets(wire[m]) : p \in Packet
  <2> SUFFICES ASSUME NEW m \in Members, NEW i \in 1 .. Len(wire[m])
               PROVE  wire[m][i] \in Packet
    BY DEF Packets
  <2>1. wire[m] \in Seq(Packet)
    BY DEF TypeOK
  <2> QED BY <2>1
<1>4. \A m \in Members : saves[m] \in 0 .. MaxSaves
  BY DEF TypeOK
<1>5. \A m, x \in Members : known[m][x] \in 0 .. MaxSaves
  BY DEF TypeOK
<1>6. \A m, x \in Members : answer[m].at[x] \in 0 .. MaxSaves
  <2>1. \A m \in Members : answer[m] \in Answer
    BY DEF TypeOK
  <2> QED BY <2>1 DEF Answer
<1>7. \A d \in DOMAIN call : /\ call[d].by \in Members /\ call[d].on \in Members
                              /\ call[d].ver \in 0 .. MaxSaves
  BY <1>2 DEF Call
<1>8. \A p \in Packet : p.on \in Members /\ p.ver \in 0 .. MaxSaves
  BY DEF Packet
<1> QED BY <1>1, <1>3, <1>4, <1>5, <1>6, <1>7, <1>8

\* A handler that ends leaves the others and their counts alone.
LEMMA EndKeeps ==
  ASSUME RosterInv, NEW c, End(c), UNCHANGED <<active, saves, changes, page>>
  PROVE  CountInv' /\ ShapeInv'
<1> USE DEF RosterInv
<1>1. DOMAIN call' = DOMAIN call \ {c} /\ \A d \in DOMAIN call' : call'[d] = call[d]
  BY EndedCall DEF Kept
<1>2. CountInv'
  <2>1. IsFiniteSet(DOMAIN call')
    BY <1>1, FS_Subset DEF CountInv
  <2>2. ASSUME NEW x \in Members PROVE Changing(x)' \subseteq Changing(x)
    BY <1>1 DEF Changing, At
  <2> QED BY <2>1, <2>2, CountKeeps
<1>3. ShapeInv'
  BY <1>1 DEF ShapeInv, Shaped
<1> QED BY <1>2, <1>3

\* The row is not active: the handler ends.
LEMMA SkipStep ==
  ASSUME RosterInv, TypeOK', NEW c \in CallIds, Save(c), End(c), UNCHANGED <<active, saves>>
  PROVE  RosterInv'
<1> USE DEF RosterInv
<1>1. DOMAIN call' = DOMAIN call \ {c} /\ \A d \in DOMAIN call' : call'[d] = call[d]
  BY EndedCall DEF Kept
<1>2. /\ UNCHANGED <<slugged, inRoom, wire, answer, screen, notes, unsaid, changes>>
      /\ early \subseteq early' /\ call[c].pc = "save"
  BY DEF Save, At
<1>3. CountInv' /\ ShapeInv'
  BY <1>2, EndKeeps DEF screen
<1>4. PageInv'
  BY <1>2 DEF PageInv, screen
<1>5. JoinInv'
  BY <1>1, <1>2 DEF JoinInv, screen
<1>6. VersionInv'
  BY <1>1, <1>2 DEF VersionInv, notes, Truth
<1>7. KickInv'
  BY <1>1, <1>2, KickStays DEF At, screen
<1>8. ListInv'
  BY <1>2 DEF ListInv, screen, notes, Truth
<1>9. \A n, y \in Members : Announced(n, y) => Announced(n, y)'
  BY <1>1, <1>2, AnnouncedStays DEF At
<1>10. NewsInv'
  BY <1>2, <1>9 DEF NewsInv, screen, notes, Coming
<1>11. MeInv'
  BY <1>2, <1>9 DEF MeInv, screen, notes, Coming
<1> QED BY <1>3, <1>4, <1>5, <1>6, <1>7, <1>8, <1>10, <1>11

\* The row is saved once more, which was counted as still to come.
LEMMA SavedCount ==
  ASSUME TypeOK, TypeOK', CountInv, ShapeInv, JoinInv, PageInv,
         NEW c \in CallIds, Save(c), Saved(c)
  PROVE  CountInv'
<1> DEFINE x == call[c].on
<1>1. /\ c \in DOMAIN call /\ call[c] \in Call /\ call[c].pc = "save" /\ x \in Members
      /\ call[c].op \in {"join", "update", "kick", "depart", "leave"}
  BY SaveCases DEF Call
<1> HIDE DEF x
<1>2. /\ DOMAIN call' = DOMAIN call /\ call'[c].op = call[c].op /\ call'[c].on = x
      /\ call'[c].pc # "save" /\ \A d \in DOMAIN call \ {c} : call'[d] = call[d]
  BY <1>1 DEF Saved, Kept, Call, x
<1>3. saves'[x] = saves[x] + 1 /\ \A y \in Members \ {x} : saves'[y] = saves[y]
  BY <1>1 DEF Saved, TypeOK, x
<1>4. page' = page /\ changes' = changes
  BY DEF Save, screen
<1>5. \A d \in DOMAIN call : call[d].by \in Members
  BY DEF TypeOK, Call
<1>6. ASSUME NEW y \in Members
      PROVE  (saves[y] + Cardinality(Changing(y)) + Left(y) <= changes + 2)'
  <2>1. Cardinality(Changing(y)) \in Nat /\ Left(y) \in {0, 1, 2}
    BY Counts
  <2>4. Changing(y)' = Changing(y) \ {c}
    BY <1>1, <1>2 DEF Changing, At
  <2>5. IsFiniteSet(Changing(y))
    BY Counts
  <2>6. /\ Cardinality(Changing(y)') \in Nat
        /\ c \in Changing(y) => Cardinality(Changing(y)') + 1 = Cardinality(Changing(y))
        /\ Cardinality(Changing(y)') <= Cardinality(Changing(y))
    <3>1. CASE c \in Changing(y)
      <4>1. Cardinality(Changing(y) \ {c}) = Cardinality(Changing(y)) - 1
        BY <2>5, <3>1, FS_RemoveElement
      <4>2. IsFiniteSet(Changing(y) \ {c})
        BY <2>5, FS_Subset
      <4>3. Cardinality(Changing(y) \ {c}) \in Nat
        BY <4>2, FS_CardinalityType
      <4> QED BY <2>1, <2>4, <4>1, <4>3
    <3>2. CASE c \notin Changing(y)
      <4>1. Changing(y)' = Changing(y)
        BY <2>4, <3>2
      <4> QED BY <2>1, <3>2, <4>1
    <3> QED BY <3>1, <3>2
  <2>7. /\ saves[y] + Cardinality(Changing(y)) + Left(y) <= changes + 2
        /\ saves[y] \in Nat /\ changes \in Nat
    BY DEF CountInv, TypeOK
  <2>8. CASE y # x
    <3>1. Left(y)' = Left(y)
      BY <1>3, <2>8 DEF Left, Saved, x
    <3> QED BY <1>3, <1>4, <2>1, <2>6, <2>7, <2>8, <3>1
  <2>9. CASE y = x
    <3>1. /\ Left(y)' \in {0, 1, 2}
          /\ Cardinality(Changing(y)') + Left(y)' + 1 <= Cardinality(Changing(y)) + Left(y)
      <4>1. CASE call[c].op \in {"update", "kick"}
        <5>1. c \in Changing(y)
          BY <1>1, <2>9, <4>1 DEF Changing, At, x
        <5>2. Left(y) \in {1, 2} /\ Left(y)' \in {0, 1}
          BY <1>1, <1>3, <2>7, <2>9, <4>1 DEF Left, Saved, x
        <5> QED BY <2>1, <2>6, <5>1, <5>2
      <4>2. CASE call[c].op \in {"join", "depart", "leave"}
        <5>1. call[c].op = "join" => call[c].by = y /\ saves[y] = 0
          BY <1>1, <2>9 DEF ShapeInv, Shaped, JoinInv, x
        <5>2. /\ call[c].op = "join" => Left(y) = 2 /\ Left(y)' \in {0, 1}
              /\ call[c].op # "join" => Left(y) \in {1, 2} /\ Left(y)' = 0
          BY <1>1, <1>3, <2>7, <2>9, <4>2, <5>1 DEF Left, Saved, x
        <5> QED BY <2>1, <2>6, <4>2, <5>2
      <4> QED BY <1>1, <4>1, <4>2
    <3>2. saves'[y] = saves[y] + 1
      BY <1>3, <2>9
    <3> QED BY <1>4, <2>1, <2>6, <2>7, <3>1, <3>2
  <2> QED BY <2>8, <2>9
<1> QED BY <1>2, <1>6 DEF CountInv

\* The row is saved, and the handler is to announce it.
LEMMA SavedStep ==
  ASSUME RosterInv, TypeOK', NEW c \in CallIds, Save(c), Saved(c)
  PROVE  RosterInv'
<1> USE DEF RosterInv
<1>0. PICK x \in Members : x = call[c].on
  BY SaveCases DEF Call
<1>1. /\ c \in DOMAIN call /\ call[c].pc = "save" /\ x \in Members /\ call[c].by \in Members
      /\ call[c].op \in {"join", "update", "kick", "depart", "leave"}
      /\ call[c].op # "join" => x \in active
  <2>1. c \in DOMAIN call /\ call[c] \in Call /\ call[c].pc = "save"
    BY SaveCases
  <2>2. call[c].op = "join" \/ call[c].on \in active
    BY DEF Saved
  <2> QED BY <1>0, <2>1, <2>2 DEF Call
<1>2. /\ DOMAIN call' = DOMAIN call
      /\ call'[c].op = call[c].op /\ call'[c].on = x /\ call'[c].by = call[c].by
      /\ call'[c].ver = saves[x] + 1
      /\ call'[c].pc = IF call[c].op = "join" THEN "enter" ELSE "announce"
      /\ \A d \in DOMAIN call \ {c} : call'[d] = call[d]
  <2>1. call[c] \in Call
    BY SaveCases
  <2> QED BY <1>0, <2>1 DEF Saved, Kept, Call
<1>3. /\ saves'[x] = saves[x] + 1 /\ saves[x] \in Nat
      /\ \A y \in Members \ {x} : saves'[y] = saves[y]
      /\ x \in active' <=> call[c].op \in {"join", "update"}
      /\ \A y \in Members \ {x} : y \in active' <=> y \in active
  <2>1. saves \in [Members -> 0 .. MaxSaves] /\ saves[x] \in Nat
    BY <1>1, Spoken DEF TypeOK
  <2>2. saves' = [saves EXCEPT ![x] = @ + 1]
    BY <1>0 DEF Saved
  <2>3. saves'[x] = saves[x] + 1 /\ \A y \in Members \ {x} : saves'[y] = saves[y]
    BY <1>1, <2>1, <2>2
  <2>4. active' = IF call[c].op \in {"join", "update"} THEN active \union {x}
                  ELSE active \ {x}
    BY <1>0 DEF Saved
  <2> QED BY <2>1, <2>3, <2>4
<1>4. /\ UNCHANGED <<slugged, inRoom, wire, answer, screen, notes, unsaid, changes>>
      /\ early \subseteq early'
      /\ call[c].op # "join" /\ page[x] = "joining" => x \in early'
  BY <1>0 DEF Save
<1>5. call[c].op = "join" => /\ call[c].by = x /\ saves[x] = 0
                             /\ page[x] \notin {"new", "in", "stranded"}
  BY <1>0, <1>1 DEF ShapeInv, Shaped, JoinInv
<1>6. call[c].op \in {"depart", "leave"} => page[x] \in {"closed", "stranded"}
  BY <1>0, <1>1 DEF ShapeInv, Shaped
<1>7. CountInv'
  BY SavedCount
<1>8. ShapeInv'
  <2> SUFFICES ASSUME NEW d \in DOMAIN call' PROVE Shaped(d)'
    BY DEF ShapeInv
  <2>1. CASE d = c
    BY <1>0, <1>1, <1>2, <1>4, <2>1 DEF ShapeInv, Shaped, screen
  <2>2. CASE d # c
    BY <1>2, <1>4, <2>2 DEF ShapeInv, Shaped, screen
  <2> QED BY <2>1, <2>2
<1>9. \A y \in Members : saves[y] \in Nat /\ saves[y] <= saves'[y]
  BY <1>3, Spoken
<1>10. PageInv'
  <2>1. saves[x] = 0 => call[c].op = "join"
    BY <1>1 DEF PageInv
  <2> QED BY <1>3, <1>4, <1>5, <1>9, <2>1 DEF PageInv, screen
<1>11. JoinInv'
  <2>1. \A d \in DOMAIN call \ {c} : call[d].op = "join" /\ call[d].pc = "save" => call[d].by # x
    BY <1>1, <1>5 DEF JoinInv, PageInv
  <2>2. \A d \in DOMAIN call : call[d].by \in Members
    BY DEF TypeOK, Call
  <2> QED BY <1>1, <1>2, <1>3, <1>4, <1>5, <2>1, <2>2 DEF JoinInv, screen
<1>12. VersionInv'
  <2>1. ASSUME NEW d \in DOMAIN call'
        PROVE  LET k == call'[d]
               IN  /\ k.ver <= saves'[k.on]
                   /\ k.pc # "save" => k.ver # 0
                   /\ k.pc # "save" /\ k.ver = saves'[k.on] =>
                        (k.op \in {"join", "update"} <=> k.on \in active')
    <3>1. CASE d = c
      BY <1>2, <1>3, <3>1
    <3>2. CASE d # c
      <4>1. call[d].on \in Members /\ call[d].ver \in Nat /\ call'[d] = call[d]
        BY <1>2, <3>2, Spoken
      <4> QED BY <1>2, <1>3, <1>9, <3>2, <4>1 DEF VersionInv
    <3> QED BY <3>1, <3>2
  <2>2. ASSUME NEW m \in Members, NEW p \in Packets(wire'[m])
        PROVE  /\ p.ver <= saves'[p.on] /\ p.ver # 0
               /\ p.ver = saves'[p.on] => /\ p.kind \in Upserts => p.on \in active'
                                          /\ p.kind = "gone" => p.on \notin active'
    <3>1. p \in Packets(wire[m])
      BY <1>4
    <3>2. p.on \in Members /\ p.ver \in Nat
      BY <3>1, Spoken
    <3> QED BY <1>3, <1>9, <3>1, <3>2 DEF VersionInv
  <2>3. ASSUME NEW m \in Members, NEW y \in Members
        PROVE  /\ known'[m][y] <= saves'[y]
               /\ answer'[m].is = "sent" =>
                    /\ answer'[m].at[y] <= saves'[y]
                    /\ answer'[m].at[y] = saves'[y] => answer'[m].of[y] = Truth(y)'
    <3>1. known[m][y] \in Nat /\ answer[m].at[y] \in Nat
      BY Spoken
    <3>2. y # x => Truth(y)' = Truth(y)
      BY <1>3 DEF Truth
    <3> QED BY <1>3, <1>4, <1>9, <3>1, <3>2 DEF VersionInv, notes
  <2> QED BY <2>1, <2>2, <2>3 DEF VersionInv
<1>13. KickInv'
  <2> SUFFICES ASSUME NEW m \in Members, page[m] \in Listening, saves'[m] # 0, m \notin active'
               PROVE  \/ \E p \in Packets(wire[m]) : p.kind = "kicked"
                      \/ \E d \in DOMAIN call' :
                           At(d, "announce")' /\ call'[d].op = "kick" /\ call'[d].on = m
    BY <1>4 DEF KickInv, screen
  <2>1. CASE m = x
    BY <1>1, <1>2, <1>3, <1>6, <2>1 DEF At, Listening
  <2>2. CASE m # x
    BY <1>1, <1>2, <1>3, <2>2 DEF KickInv, At
  <2> QED BY <2>1, <2>2
<1>14. ListInv'
  <2> SUFFICES ASSUME NEW m \in Members, NEW y \in Members, known[m][y] = saves'[y],
                      page[m] \notin {"closed", "kicked"}
               PROVE  roster[m][y] = Truth(y)' \/ <<m, y>> \in behind \union readded
    BY <1>4 DEF ListInv, screen, notes
  <2>1. y # x
    BY <1>3 DEF VersionInv, TypeOK
  <2> QED BY <1>3, <2>1 DEF ListInv, Truth
<1>15. \A n, y \in Members : y # x /\ Announced(n, y) => Announced(n, y)'
  BY <1>0, <1>1, <1>2, <1>3, AnnouncedStays DEF At
<1>16. ASSUME NEW n \in Members, page[n] = "in" PROVE Announced(n, x)'
  <2>1. c \in DOMAIN call' /\ call'[c].on = x /\ call'[c].ver = saves'[x]
    BY <1>1, <1>2, <1>3
  <2>2. call'[c].pc = "announce" \/ (call'[c].pc = "enter" /\ x # n)
    BY <1>2, <1>5, <1>16
  <2> QED BY <2>1, <2>2 DEF Announced, At
<1>17. ASSUME NEW n \in Members, page[n] = "in", n \in active' PROVE n \in active
  BY <1>1, <1>3, <1>5, <1>17
<1>18. NewsInv'
  <2> SUFFICES ASSUME NEW n \in Members, page[n] = "in", n \in active', NEW y \in Members \ unsaid
               PROVE  \/ known[n][y] = saves'[y] \/ Announced(n, y)' \/ Coming(n, y)'
                      \/ answer[n].is = "asked"
                      \/ answer[n].is = "sent" /\ answer[n].at[y] = saves'[y]
    BY <1>4 DEF NewsInv, screen, notes
  <2>1. CASE y = x
    BY <1>16, <2>1
  <2>2. CASE y # x
    <3>1. saves'[y] = saves[y] /\ n \in active /\ wire' = wire
      BY <1>3, <1>4, <1>17, <2>2
    <3> QED BY <1>15, <2>2, <3>1 DEF NewsInv, Coming
  <2> QED BY <2>1, <2>2
<1>19. MeInv'
  <2> SUFFICES ASSUME NEW n \in Members \ early'
               PROVE  /\ page[n] = "joining" => saves'[n] <= 1
                      /\ page[n] = "in" /\ n \in active' /\ n \notin unsaid =>
                           \/ Announced(n, n)' \/ Coming(n, n)'
                           \/ known[n][n] = saves'[n] /\ (me[n] = saves'[n] \/ n \in outdated)
    BY <1>4 DEF MeInv, screen, notes
  <2>1. n \notin early
    BY <1>4
  <2>2. CASE n = x
    <3>1. page[n] = "joining" => saves'[n] <= 1
      BY <1>3, <1>4, <1>5, <2>2
    <3> QED BY <1>16, <2>2, <3>1
  <2>3. CASE n # x
    <3>1. saves'[n] = saves[n] /\ wire' = wire /\ (n \in active' => n \in active)
      BY <1>3, <1>4, <2>3
    <3> QED BY <1>15, <2>1, <2>3, <3>1 DEF MeInv, Coming
  <2> QED BY <2>2, <2>3
<1> QED BY <1>7, <1>8, <1>10, <1>11, <1>12, <1>13, <1>14, <1>18, <1>19

\* The others hear of the participant that joins.
LEMMA EnterStep ==
  ASSUME RosterInv, TypeOK', NEW c \in CallIds, Enter(c)
  PROVE  RosterInv'
<1> USE DEF RosterInv
<1>0. PICK m \in Members : m = call[c].by
  BY EnteredCall DEF Call
<1>1. /\ c \in DOMAIN call /\ call[c].pc = "enter" /\ call[c].op = "join" /\ call[c].on = m
      /\ call[c].by = m /\ call[c].ver \in 0 .. MaxSaves
  <2>1. c \in DOMAIN call /\ call[c].pc = "enter" /\ call[c] \in Call
    BY EnteredCall DEF Enter, At
  <2> QED BY <1>0, <2>1 DEF ShapeInv, Shaped, Call
<1>2. /\ DOMAIN call' = DOMAIN call
      /\ call'[c].op = "join" /\ call'[c].on = m /\ call'[c].by = m
      /\ call'[c].ver = call[c].ver /\ call'[c].pc = "reply"
      /\ \A d \in DOMAIN call \ {c} : call'[d] = call[d]
  BY <1>1, EnteredCall DEF Kept, Call
<1>3. /\ slugged' = slugged \union {m} /\ inRoom \subseteq inRoom'
      /\ inRoom' \subseteq inRoom \union {m}
      /\ m \in inRoom' <=> page[m] \in Listening \/ m \in inRoom
      /\ UNCHANGED <<active, saves, answer, screen, notes, early, unsaid, changes>>
  BY <1>1 DEF Enter
<1> DEFINE new == [kind |-> "connected", on |-> m, ver |-> call[c].ver]
<1>4. \A n \in Members :
        /\ n \in inRoom \ {m} => Packets(wire'[n]) = Packets(wire[n]) \union {new}
        /\ n \notin inRoom \ {m} => wire'[n] = wire[n]
  <2>1. Packet1("connected", m, call[c].ver) \in Seq(Packet)
    BY <1>1, PacketType
  <2>2. Packets(Packet1("connected", m, call[c].ver)) = {new}
    BY PacketsOne
  <2>3. wire' = [n \in Members |-> IF n \in inRoom \ {m}
                   THEN wire[n] \o Packet1("connected", m, call[c].ver) ELSE wire[n]]
    BY <1>1 DEF Enter
  <2> SUFFICES ASSUME NEW n \in Members
               PROVE  /\ n \in inRoom \ {m} => Packets(wire'[n]) = Packets(wire[n]) \union {new}
                      /\ n \notin inRoom \ {m} => wire'[n] = wire[n]
    OBVIOUS
  <2>4. wire[n] \in Seq(Packet)
    BY DEF TypeOK
  <2>5. CASE n \in inRoom \ {m}
    <3>1. wire'[n] = wire[n] \o Packet1("connected", m, call[c].ver)
      BY <2>3, <2>5
    <3> QED BY <2>1, <2>2, <2>4, <2>5, <3>1, PacketsConcat
  <2>6. CASE n \notin inRoom \ {m}
    BY <2>3, <2>6
  <2> QED BY <2>5, <2>6
<1>5. /\ new.kind = "connected" /\ new.on = m /\ new.ver = call[c].ver
  OBVIOUS
<1> HIDE DEF new
<1>6. /\ \A n \in Members : \A p \in Packets(wire[n]) : p \in Packets(wire'[n])
      /\ \A n \in Members : \A p \in Packets(wire'[n]) : p \in Packets(wire[n]) \/ p = new
  BY <1>4
<1>7. CountInv'
  <2>1. IsFiniteSet(DOMAIN call')
    BY <1>2 DEF CountInv
  <2>2. ASSUME NEW x \in Members PROVE Changing(x)' \subseteq Changing(x)
    BY <1>2 DEF Changing, At
  <2> QED BY <1>3, <2>1, <2>2, CountKeeps
<1>8. ShapeInv'
  <2> SUFFICES ASSUME NEW d \in DOMAIN call' PROVE Shaped(d)'
    BY DEF ShapeInv
  <2> QED BY <1>1, <1>2, <1>3 DEF ShapeInv, Shaped, screen
<1>9. PageInv'
  <2>1. \A n \in Members : wire'[n] # <<>> => wire[n] # <<>> \/ n \in inRoom
    BY <1>4
  <2>2. \A n \in Members : n \in inRoom' => page[n] \in Listening
    BY <1>3 DEF PageInv
  <2>3. screen' = screen /\ saves' = saves /\ active' = active
    BY <1>3
  <2> QED BY <1>3, <2>1, <2>2, <2>3 DEF PageInv, screen
<1>10. JoinInv'
  <2>1. \A d, e \in DOMAIN call' : /\ call'[d].op = "join" /\ call'[e].op = "join"
                                   /\ call'[d].by = call'[e].by
                                   => d = e
    BY <1>1, <1>2 DEF JoinInv
  <2>2. ASSUME NEW d \in DOMAIN call', call'[d].op = "join"
        PROVE  LET k == call'[d]
               IN  /\ \A p \in Packets(wire'[k.by]) : p.kind # "ack-join"
                   /\ IF k.pc = "save" THEN saves'[k.by] = 0 ELSE k.ver = 1
                   /\ k.pc = "reply" /\ page'[k.by] \in Listening => k.by \in inRoom'
    <3>1. d \in DOMAIN call /\ call[d].by \in Members
      BY <1>2, Spoken
    <3> QED BY <1>1, <1>2, <1>3, <1>5, <1>6, <2>2, <3>1 DEF JoinInv, screen
  <2>3. \A n \in Members : \A p \in Packets(wire'[n]) : p.kind = "ack-join" =>
           p.on = n /\ p.ver = 1 /\ n \in inRoom'
    BY <1>3, <1>5, <1>6 DEF JoinInv
  <2> QED BY <2>1, <2>2, <2>3 DEF JoinInv
<1>11. VersionInv'
  <2>1. ASSUME NEW d \in DOMAIN call'
        PROVE  LET k == call'[d]
               IN  /\ k.ver <= saves[k.on]
                   /\ k.pc # "save" => k.ver # 0
                   /\ k.pc # "save" /\ k.ver = saves[k.on] =>
                        (k.op \in {"join", "update"} <=> k.on \in active)
    BY <1>1, <1>2 DEF VersionInv
  <2>2. ASSUME NEW n \in Members, NEW p \in Packets(wire'[n])
        PROVE  /\ p.ver <= saves[p.on] /\ p.ver # 0
               /\ p.ver = saves[p.on] => /\ p.kind \in Upserts => p.on \in active
                                         /\ p.kind = "gone" => p.on \notin active
    BY <1>1, <1>5, <1>6 DEF VersionInv
  <2> QED BY <1>3, <2>1, <2>2 DEF VersionInv, notes, Truth
<1>12. KickInv'
  <2>1. page' = page /\ active' = active /\ saves' = saves
    BY <1>3 DEF screen
  <2> QED BY <1>1, <1>2, <1>6, <2>1, KickStays DEF At
<1>13. ListInv'
  BY <1>3 DEF ListInv, screen, notes, Truth
<1>14. ASSUME NEW n \in Members, NEW y \in Members, page[n] = "in", Announced(n, y)
       PROVE  Announced(n, y)' \/ Coming(n, y)'
  <2>1. PICK d \in DOMAIN call : /\ call[d].on = y /\ call[d].ver = saves[y]
                                 /\ At(d, "announce") \/ (At(d, "enter") /\ y # n)
    BY <1>14 DEF Announced
  <2>2. CASE d = c
    <3>1. n \in inRoom \ {m} /\ y = m
      BY <1>1, <1>14, <2>1, <2>2 DEF PageInv, At
    <3>2. new \in Packets(wire'[n])
      BY <1>4, <3>1
    <3> QED BY <1>3, <1>5, <2>1, <2>2, <3>1, <3>2 DEF Coming
  <2>3. CASE d # c
    BY <1>2, <1>3, <2>1, <2>3 DEF Announced, At
  <2> QED BY <2>2, <2>3
<1>15. \A n, y \in Members : Coming(n, y) => Coming(n, y)'
  BY <1>3, <1>6 DEF Coming
<1>16. NewsInv'
  BY <1>3, <1>14, <1>15 DEF NewsInv, screen, notes
<1>17. MeInv'
  BY <1>3, <1>14, <1>15 DEF MeInv, screen, notes
<1> QED BY <1>7, <1>8, <1>9, <1>10, <1>11, <1>12, <1>13, <1>16, <1>17

\* The participant that joins is acknowledged.
LEMMA ReplyStep ==
  ASSUME RosterInv, TypeOK', NEW c \in CallIds, Reply(c)
  PROVE  RosterInv'
<1> USE DEF RosterInv
<1>0. PICK m \in Members : m = call[c].by
  BY Spoken DEF Reply, At
<1>1. /\ c \in DOMAIN call /\ call[c].pc = "reply" /\ call[c].op = "join" /\ call[c].on = m
      /\ call[c].by = m /\ call[c].ver \in 0 .. MaxSaves
  <2>1. c \in DOMAIN call /\ call[c].pc = "reply" /\ call[c] \in Call
    BY DEF Reply, At, TypeOK
  <2> QED BY <1>0, <2>1 DEF ShapeInv, Shaped, Call
<1>2. DOMAIN call' = DOMAIN call \ {c} /\ \A d \in DOMAIN call' : call'[d] = call[d]
  BY EndedCall DEF Kept, Reply
<1>3. UNCHANGED <<server, answer, screen, notes, early, unsaid, changes>>
  BY DEF Reply
<1> DEFINE new == [kind |-> "ack-join", on |-> m, ver |-> call[c].ver]
<1>4. /\ page[m] \in Listening => Packets(wire'[m]) = Packets(wire[m]) \union {new}
      /\ page[m] \notin Listening => wire'[m] = wire[m]
      /\ \A n \in Members \ {m} : wire'[n] = wire[n]
  <2>1. Packet1("ack-join", m, call[c].ver) \in Seq(Packet)
    BY <1>1, PacketType
  <2>2. Packets(Packet1("ack-join", m, call[c].ver)) = {new}
    BY PacketsOne
  <2>3. wire[m] \in Seq(Packet) /\ DOMAIN wire = Members
    BY DEF TypeOK
  <2>4. CASE page[m] \in Listening
    <3>1. wire' = [wire EXCEPT ![m] = @ \o Packet1("ack-join", m, call[c].ver)]
      BY <1>1, <2>4 DEF Reply
    <3>2. /\ wire'[m] = wire[m] \o Packet1("ack-join", m, call[c].ver)
          /\ \A n \in Members \ {m} : wire'[n] = wire[n]
      BY <2>3, <3>1
    <3> QED BY <2>1, <2>2, <2>3, <2>4, <3>2, PacketsConcat
  <2>5. CASE page[m] \notin Listening
    BY <1>1, <2>5 DEF Reply
  <2> QED BY <2>4, <2>5
<1>5. /\ new.kind = "ack-join" /\ new.on = m /\ new.ver = call[c].ver
  OBVIOUS
<1> HIDE DEF new
<1>6. /\ \A n \in Members : \A p \in Packets(wire[n]) : p \in Packets(wire'[n])
      /\ \A n \in Members : \A p \in Packets(wire'[n]) :
           p \in Packets(wire[n]) \/ (p = new /\ n = m /\ page[m] \in Listening)
  BY <1>4
<1>7. CountInv' /\ ShapeInv'
  BY <1>3, EndKeeps DEF Reply, server, screen
<1>8. PageInv'
  <2>1. \A n \in Members : wire'[n] # <<>> => wire[n] # <<>> \/ page[n] \in Listening
    BY <1>4
  <2> QED BY <1>3, <2>1 DEF PageInv, server, screen
<1>9. JoinInv'
  <2>1. \A d, e \in DOMAIN call' : /\ call'[d].op = "join" /\ call'[e].op = "join"
                                   /\ call'[d].by = call'[e].by
                                   => d = e
    BY <1>2 DEF JoinInv
  <2>2. ASSUME NEW d \in DOMAIN call', call'[d].op = "join"
        PROVE  LET k == call'[d]
               IN  /\ \A p \in Packets(wire'[k.by]) : p.kind # "ack-join"
                   /\ IF k.pc = "save" THEN saves'[k.by] = 0 ELSE k.ver = 1
                   /\ k.pc = "reply" /\ page'[k.by] \in Listening => k.by \in inRoom'
    <3>1. d \in DOMAIN call /\ d # c /\ call'[d] = call[d] /\ call[d].by \in Members
      BY <1>2, Spoken
    <3>2. call[d].by # m
      BY <1>1, <2>2, <3>1 DEF JoinInv
    <3> QED BY <1>3, <1>4, <2>2, <3>1, <3>2 DEF JoinInv, server, screen
  <2>3. \A n \in Members : \A p \in Packets(wire'[n]) : p.kind = "ack-join" =>
           p.on = n /\ p.ver = 1 /\ n \in inRoom'
    BY <1>1, <1>3, <1>5, <1>6 DEF JoinInv, server
  <2> QED BY <2>1, <2>2, <2>3 DEF JoinInv
<1>10. VersionInv'
  <2>1. ASSUME NEW n \in Members, NEW p \in Packets(wire'[n])
        PROVE  /\ p.ver <= saves[p.on] /\ p.ver # 0
               /\ p.ver = saves[p.on] => /\ p.kind \in Upserts => p.on \in active
                                         /\ p.kind = "gone" => p.on \notin active
    BY <1>1, <1>5, <1>6 DEF VersionInv
  <2> QED BY <1>2, <1>3, <2>1 DEF VersionInv, server, notes, Truth
<1>11. KickInv'
  BY <1>1, <1>2, <1>3, <1>6, KickStays DEF At, server, screen
<1>12. ListInv'
  BY <1>3 DEF ListInv, server, screen, notes, Truth
<1>13. \A n, y \in Members : Announced(n, y) => Announced(n, y)'
  BY <1>1, <1>2, <1>3, AnnouncedStays DEF At, server
<1>14. \A n, y \in Members : Coming(n, y) => Coming(n, y)'
  BY <1>3, <1>6 DEF Coming, server
<1>15. NewsInv'
  BY <1>3, <1>13, <1>14 DEF NewsInv, server, screen, notes
<1>16. MeInv'
  BY <1>3, <1>13, <1>14 DEF MeInv, server, screen, notes
<1> QED BY <1>7, <1>8, <1>9, <1>10, <1>11, <1>12, <1>15, <1>16

\* The room hears what was saved, and the caller is acknowledged.
LEMMA AnnounceStep ==
  ASSUME RosterInv, TypeOK', NEW c \in CallIds, Announce(c)
  PROVE  RosterInv'
<1> USE DEF RosterInv
<1> DEFINE k == call[c]
<1>1. /\ c \in DOMAIN call /\ k \in Call /\ k.pc = "announce" /\ k.op # "join"
      /\ k.op \in {"update", "kick", "depart", "leave"}
      /\ k.on \in Members /\ k.by \in Members
  <2>1. c \in DOMAIN call /\ k.pc = "announce" /\ k \in Call
    BY DEF Announce, At, TypeOK
  <2> QED BY <2>1 DEF ShapeInv, Shaped, Call
<1>2. DOMAIN call' = DOMAIN call \ {c} /\ \A d \in DOMAIN call' : call'[d] = call[d]
  BY EndedCall DEF Kept, Announce
<1>3. /\ UNCHANGED <<server, answer, screen, notes, early, changes>>
      /\ \A y \in Members \ unsaid' :
           k.on = y /\ k.ver = saves[y] => Loud(k)
      /\ \A y \in unsaid \ unsaid' : k.on = y /\ k.ver = saves[y] /\ Loud(k)
  BY DEF Announce
<1>4. ASSUME NEW n \in Members
      PROVE  /\ Packets(wire'[n]) = Packets(wire[n]) \union Packets(Heard(k, n))
             /\ page[n] \notin Listening \union {"stranded"} => wire'[n] = wire[n]
  <2>1. wire[n] \in Seq(Packet) /\ Heard(k, n) \in Seq(Packet)
    BY <1>1, HeardPackets DEF TypeOK
  <2>2. wire'[n] = wire[n] \o Heard(k, n)
    BY DEF Announce
  <2>3. page[n] \notin Listening \union {"stranded"} => wire'[n] = wire[n]
    BY <1>1, <2>1, <2>2, HeardPackets
  <2> QED BY <2>1, <2>2, <2>3, PacketsConcat
<1>5. ASSUME NEW n \in Members, NEW p \in Packets(Heard(k, n))
      PROVE  /\ p.on = k.on /\ p.ver = k.ver
             /\ p.kind \in {"updated", "gone", "kicked", "ack-update", "ack-kick"}
             /\ p.kind \in {"updated", "ack-update"} => k.op = "update"
             /\ p.kind = "gone" => k.op # "update"
  BY <1>1, HeardPackets
<1>6. ASSUME NEW n \in Members, page[n] \in Listening
      PROVE  /\ Loud(k) /\ n \in inRoom =>
                  \E p \in Packets(Heard(k, n)) :
                    p.on = k.on /\ p.ver = k.ver /\ p.kind \in {"updated", "gone"}
             /\ k.op = "kick" /\ k.on = n =>
                  \E p \in Packets(Heard(k, n)) : p.kind = "kicked"
  BY <1>1, <1>6, HeardPackets
<1>7. CountInv' /\ ShapeInv'
  BY <1>3, EndKeeps DEF Announce, server, screen
<1>8. PageInv'
  <2>1. \A n \in Members : wire'[n] # <<>> => \/ wire[n] # <<>>
                                               \/ page[n] \in Listening \union {"stranded"}
    BY <1>4
  <2> QED BY <1>3, <2>1 DEF PageInv, server, screen
<1>9. JoinInv'
  BY <1>2, <1>3, <1>4, <1>5, Spoken DEF JoinInv, server, screen
<1>10. VersionInv'
  <2>1. ASSUME NEW n \in Members, NEW p \in Packets(wire'[n])
        PROVE  /\ p.ver <= saves[p.on] /\ p.ver # 0
               /\ p.ver = saves[p.on] => /\ p.kind \in Upserts => p.on \in active
                                         /\ p.kind = "gone" => p.on \notin active
    <3>1. CASE p \in Packets(wire[n])
      BY <3>1 DEF VersionInv
    <3>2. CASE p \in Packets(Heard(k, n))
      <4>1. /\ k.ver <= saves[k.on] /\ k.ver # 0
            /\ k.ver = saves[k.on] => (k.op = "update" <=> k.on \in active)
        BY <1>1 DEF VersionInv
      <4> QED BY <1>5, <3>2, <4>1 DEF Upserts
    <3> QED BY <1>4, <3>1, <3>2
  <2> QED BY <1>2, <1>3, <2>1 DEF VersionInv, server, notes, Truth
<1>11. KickInv'
  <2> SUFFICES ASSUME NEW m \in Members, page[m] \in Listening, saves[m] # 0, m \notin active
               PROVE  \/ \E p \in Packets(wire'[m]) : p.kind = "kicked"
                      \/ \E d \in DOMAIN call' :
                           At(d, "announce")' /\ call'[d].op = "kick" /\ call'[d].on = m
    BY <1>3 DEF KickInv, server, screen
  <2>1. CASE \E p \in Packets(wire[m]) : p.kind = "kicked"
    BY <1>4, <2>1
  <2>2. ASSUME NEW d \in DOMAIN call, At(d, "announce"), call[d].op = "kick", call[d].on = m
        PROVE  \/ \E p \in Packets(wire'[m]) : p.kind = "kicked"
               \/ \E e \in DOMAIN call' :
                    At(e, "announce")' /\ call'[e].op = "kick" /\ call'[e].on = m
    <3>1. CASE d = c
      BY <1>4, <1>6, <2>2, <3>1
    <3>2. CASE d # c
      BY <1>2, <2>2, <3>2 DEF At
    <3> QED BY <3>1, <3>2
  <2> QED BY <2>1, <2>2 DEF KickInv
<1>12. ListInv'
  BY <1>3 DEF ListInv, server, screen, notes, Truth
<1>13. ASSUME NEW n \in Members, page[n] = "in", NEW y \in Members, Loud(k), k.on = y,
              k.ver = saves[y]
       PROVE  Coming(n, y)'
  <2>1. n \in inRoom /\ page[n] \in Listening
    BY <1>13 DEF PageInv, Listening
  <2>2. PICK p \in Packets(Heard(k, n)) :
          p.on = k.on /\ p.ver = k.ver /\ p.kind \in {"updated", "gone"}
    BY <1>6, <1>13, <2>1
  <2>3. p \in Packets(wire'[n])
    BY <1>4
  <2> QED BY <1>3, <1>13, <2>2, <2>3 DEF Coming, server
<1>17. ASSUME NEW n \in Members, NEW y \in Members, page[n] = "in", Announced(n, y),
              y \notin unsaid'
       PROVE  Announced(n, y)' \/ Coming(n, y)'
  <2>1. PICK d \in DOMAIN call : /\ call[d].on = y /\ call[d].ver = saves[y]
                                 /\ At(d, "announce") \/ (At(d, "enter") /\ y # n)
    BY <1>17 DEF Announced
  <2>2. CASE d = c
    BY <1>3, <1>13, <1>17, <2>1, <2>2
  <2>3. CASE d # c
    BY <1>2, <1>3, <2>1, <2>3 DEF Announced, At, server
  <2> QED BY <2>2, <2>3
<1>14. \A n, y \in Members : Coming(n, y) => Coming(n, y)'
  BY <1>3, <1>4 DEF Coming, server
<1>15. NewsInv'
  <2> SUFFICES ASSUME NEW n \in Members, page[n] = "in", n \in active, NEW y \in Members,
                      y \notin unsaid'
               PROVE  \/ known[n][y] = saves[y] \/ Announced(n, y)' \/ Coming(n, y)'
                      \/ answer[n].is = "asked"
                      \/ answer[n].is = "sent" /\ answer[n].at[y] = saves[y]
    BY <1>3 DEF NewsInv, server, screen, notes
  <2>1. CASE y \in unsaid
    BY <1>3, <1>13, <2>1
  <2>2. CASE y \notin unsaid
    BY <1>14, <1>17, <2>2 DEF NewsInv
  <2> QED BY <2>1, <2>2
<1>16. MeInv'
  <2>1. ASSUME NEW n \in Members \ early, page[n] = "in", n \in active, n \notin unsaid'
        PROVE  \/ Announced(n, n)' \/ Coming(n, n)'
               \/ known[n][n] = saves[n] /\ (me[n] = saves[n] \/ n \in outdated)
    <3>1. CASE n \in unsaid
      BY <1>3, <1>13, <2>1, <3>1
    <3>2. CASE n \notin unsaid
      BY <1>14, <1>17, <2>1, <3>2 DEF MeInv
    <3> QED BY <3>1, <3>2
  <2> QED BY <1>3, <2>1 DEF MeInv, server, screen, notes
<1> QED BY <1>7, <1>8, <1>9, <1>10, <1>11, <1>12, <1>15, <1>16
-----------------------------------------------------------------------------
(* The steps of the pages.                                                 *)

\* What depends on neither the list nor what it was told stays with the rest.
LEMMA ServerStays ==
  ASSUME CountInv, ShapeInv, UNCHANGED <<server, call, page, changes>>
  PROVE  CountInv' /\ ShapeInv'
<1>1. CountInv'
  BY DEF CountInv, server, Changing, Left, At
<1> QED BY <1>1 DEF ShapeInv, Shaped, server

\* The list is answered, or refused to a page whose row is closed.
LEMMA ServeListStep ==
  ASSUME RosterInv, TypeOK', NEW m \in Members, ServeList(m)
  PROVE  RosterInv'
<1> USE DEF RosterInv
<1>1. /\ UNCHANGED <<server, call, wire, screen, notes, early, unsaid, changes>>
      /\ answer[m].is = "asked"
  BY DEF ServeList
<1>2. /\ \A n \in Members \ {m} : answer'[n] = answer[n]
      /\ m \in active => answer'[m].is = "sent"
      /\ answer'[m].is = "sent" =>
           /\ answer'[m].at = saves
           /\ \A x \in Members : answer'[m].of[x] = Truth(x)
  <2>1. \A n \in Members \ {m} : answer'[n] = answer[n]
    BY DEF ServeList, TypeOK
  <2>2. answer'[m] = IF m \in active \union Hosts
                     THEN [is |-> "sent",
                           of |-> [x \in Members |-> IF x \in active THEN saves[x] ELSE 0],
                           at |-> saves]
                     ELSE NoAnswer
    BY DEF ServeList, TypeOK
  <2> QED BY <2>1, <2>2 DEF Truth, NoAnswer
<1>3. CountInv' /\ ShapeInv'
  BY <1>1, ServerStays DEF screen
<1>4. PageInv'
  BY <1>1 DEF PageInv, server, screen
<1>5. JoinInv'
  BY <1>1 DEF JoinInv, server, screen
<1>6. VersionInv'
  BY <1>1, <1>2, Spoken DEF VersionInv, server, notes, Truth
<1>7. KickInv'
  BY <1>1, KickStays DEF server, screen
<1>8. ListInv'
  BY <1>1 DEF ListInv, server, screen, notes, Truth
<1>9. \A n, y \in Members : Announced(n, y) => Announced(n, y)'
  BY <1>1, AnnouncedStays DEF server
<1>10. NewsInv'
  BY <1>1, <1>2, <1>9 DEF NewsInv, server, screen, notes, Coming
<1>11. MeInv'
  BY <1>1, <1>9 DEF MeInv, server, screen, notes, Coming
<1> QED BY <1>3, <1>4, <1>5, <1>6, <1>7, <1>8, <1>10, <1>11

\* The page of a participant that was kicked leaves the room.
LEMMA TakeKickedStep ==
  ASSUME RosterInv, TypeOK', NEW m \in Members, TakeKicked(m)
  PROVE  RosterInv'
<1> USE DEF RosterInv
<1>1. /\ UNCHANGED <<active, saves, slugged, call, answer, notes, early, unsaid, changes>>
      /\ page[m] \in Listening /\ inRoom' = inRoom \ {m}
  BY DEF TakeKicked
<1>2. page'[m] = "kicked" /\ \A n \in Members \ {m} : page'[n] = page[n]
  BY DEF TakeKicked, TypeOK
<1>3. wire'[m] = <<>> /\ \A n \in Members \ {m} : wire'[n] = wire[n]
  <2>1. wire' = [wire EXCEPT ![m] = <<>>] /\ DOMAIN wire = Members
    BY DEF TakeKicked, TypeOK
  <2> QED BY <2>1
<1>4. \A n \in Members \ {m} : me'[n] = me[n] /\ roster'[n] = roster[n]
  <2>1. me' = [me EXCEPT ![m] = 0] /\ DOMAIN me = Members
    BY DEF TakeKicked, TypeOK
  <2>2. roster' = [roster EXCEPT ![m][m] = 0] /\ DOMAIN roster = Members
    BY DEF TakeKicked, TypeOK
  <2> QED BY <2>1, <2>2
<1>5. \A d \in DOMAIN call : call[d].by \in Members
  BY Spoken
<1>6. \A n \in Members : Packets(wire'[n]) \subseteq Packets(wire[n])
  BY <1>3, PacketsNone
<1>7. CountInv'
  <2>1. IsFiniteSet(DOMAIN call')
    BY <1>1 DEF CountInv
  <2>2. ASSUME NEW x \in Members PROVE Changing(x)' \subseteq Changing(x)
    BY <1>1 DEF Changing, At
  <2> QED BY <1>1, <2>1, <2>2, CountKeeps
<1>8. ShapeInv'
  <2> SUFFICES ASSUME NEW d \in DOMAIN call' PROVE Shaped(d)'
    BY DEF ShapeInv
  <2> QED BY <1>1, <1>2, <1>5 DEF ShapeInv, Shaped, Listening
<1>9. PageInv'
  BY <1>1, <1>2, <1>3, <1>4 DEF PageInv, Listening
<1>10. JoinInv'
  BY <1>1, <1>2, <1>3, <1>5, <1>6, PacketsNone DEF JoinInv, Listening
<1>11. VersionInv'
  BY <1>1, <1>6 DEF VersionInv, notes, Truth
<1>12. KickInv'
  BY <1>1, <1>2, <1>3, KickStays DEF Listening
<1>13. ListInv'
  BY <1>1, <1>2, <1>4 DEF ListInv, notes, Truth
<1>14. \A n, y \in Members : Announced(n, y) => Announced(n, y)'
  BY <1>1, AnnouncedStays
<1>15. NewsInv'
  BY <1>1, <1>2, <1>3, <1>14 DEF NewsInv, notes, Coming
<1>16. MeInv'
  BY <1>1, <1>2, <1>3, <1>4, <1>14 DEF MeInv, notes, Coming
<1> QED BY <1>7, <1>8, <1>9, <1>10, <1>11, <1>12, <1>13, <1>15, <1>16

\* A page takes the first packet of its queue.
LEMMA Taken ==
  ASSUME TypeOK, NEW m \in Members, wire[m] # <<>>, wire' = [wire EXCEPT ![m] = Tail(@)]
  PROVE  /\ Head(wire[m]) \in Packets(wire[m])
         /\ \A n \in Members : \A p \in Packets(wire'[n]) : p \in Packets(wire[n])
         /\ \A n \in Members : \A p \in Packets(wire[n]) :
              p \in Packets(wire'[n]) \/ (n = m /\ p = Head(wire[m]))
         /\ \A n \in Members : wire'[n] # <<>> => wire[n] # <<>>
<1>1. wire[m] \in Seq(Packet) /\ DOMAIN wire = Members
  BY DEF TypeOK
<1>2. wire'[m] = Tail(wire[m]) /\ \A n \in Members \ {m} : wire'[n] = wire[n]
  BY <1>1
<1>3. Packets(wire[m]) = {Head(wire[m])} \union Packets(wire'[m])
  BY <1>1, <1>2, PacketsTail
<1> QED BY <1>2, <1>3

\* What it takes changes nothing of the handlers, nor what they are about to say.
LEMMA TakenStays ==
  ASSUME RosterInv, NEW m \in Members, wire[m] # <<>>, wire' = [wire EXCEPT ![m] = Tail(@)],
         Head(wire[m]).kind # "kicked", UNCHANGED <<server, call, page, changes>>
  PROVE  /\ CountInv' /\ ShapeInv' /\ JoinInv' /\ KickInv'
         /\ \A n, y \in Members : Announced(n, y) => Announced(n, y)'
         /\ \A n, y \in Members : Coming(n, y) =>
              \/ Coming(n, y)'
              \/ n = m /\ LET p == Head(wire[m])
                          IN  /\ p.on = y /\ p.ver = saves[y]
                              /\ p.kind \notin {"kicked", "ack-join"}
<1> USE DEF RosterInv
<1>1. CountInv' /\ ShapeInv'
  BY ServerStays
<1>2. JoinInv'
  BY Taken, Spoken DEF JoinInv, server
<1>3. KickInv'
  BY Taken, KickStays DEF server
<1>4. \A n, y \in Members : Announced(n, y) => Announced(n, y)'
  BY AnnouncedStays DEF server
<1>5. ASSUME NEW n \in Members, NEW y \in Members, Coming(n, y)
      PROVE  \/ Coming(n, y)'
             \/ n = m /\ LET p == Head(wire[m])
                         IN  /\ p.on = y /\ p.ver = saves[y]
                             /\ p.kind \notin {"kicked", "ack-join"}
  <2>1. PICK p \in Packets(wire[n]) :
          p.on = y /\ p.ver = saves[y] /\ p.kind \notin {"kicked", "ack-join"}
    BY <1>5 DEF Coming
  <2>2. p \in Packets(wire'[n]) \/ (n = m /\ p = Head(wire[m]))
    BY Taken
  <2> QED BY <2>1, <2>2 DEF Coming, server
<1> QED BY <1>1, <1>2, <1>3, <1>4, <1>5

\* A participant is gone from the list.
LEMMA TakeGoneStep ==
  ASSUME RosterInv, TypeOK', NEW m \in Members, TakeGone(m)
  PROVE  RosterInv'
<1> USE DEF RosterInv
<1>1. /\ wire[m] # <<>> /\ wire' = [wire EXCEPT ![m] = Tail(@)]
      /\ Head(wire[m]).kind = "gone"
      /\ UNCHANGED <<server, call, answer, page, me, outdated, early, unsaid, changes>>
  BY DEF TakeGone
<1>2. PICK x \in Members, ver \in 0 .. MaxSaves :
        x = Head(wire[m]).on /\ ver = Head(wire[m]).ver
  <2>1. Head(wire[m]) \in Packet
    BY <1>1, PacketsTail DEF TypeOK
  <2> QED BY <2>1 DEF Packet
<1>3. ver <= saves[x] /\ (ver = saves[x] => x \notin active)
  <2>1. Head(wire[m]) \in Packets(wire[m])
    BY <1>1, Taken
  <2> QED BY <1>1, <1>2, <2>1 DEF VersionInv
<1>4. /\ \A n, y \in Members :
           known'[n][y] = IF n = m /\ y = x /\ ver > known[m][x] THEN ver ELSE known[n][y]
      /\ \A n, y \in Members :
           <<n, y>> \in behind' <=>
             IF n = m /\ y = x THEN ver < known[m][x] ELSE <<n, y>> \in behind
  <2>1. Told(m, x, ver)
    BY <1>2 DEF TakeGone
  <2> QED BY <2>1, ToldEffect
<1>5. /\ \A n, y \in Members :
           roster'[n][y] = IF n = m /\ y = x THEN 0 ELSE roster[n][y]
      /\ \A n, y \in Members :
           ~(n = m /\ y = x) => (<<n, y>> \in readded' <=> <<n, y>> \in readded)
  <2>0. 0 \in 0 .. MaxSaves
    BY DEF MaxSaves
  <2>1. roster \in [Members -> [Members -> 0 .. MaxSaves]]
    BY DEF TypeOK
  <2>2. roster' = [roster EXCEPT ![m][x] = 0]
    BY <1>2 DEF TakeGone
  <2>3. \A n, y \in Members :
          roster'[n][y] = IF n = m /\ y = x THEN 0 ELSE roster[n][y]
    BY <2>0, <2>1, <2>2, Entry
  <2>4. readded' = readded \ {<<m, x>>}
    BY <1>2 DEF TakeGone
  <2> QED BY <2>3, <2>4
<1>6. \A n, y \in Members : saves[y] \in Nat /\ known[n][y] \in Nat /\ known[n][y] <= saves[y]
  BY Spoken DEF VersionInv
<1>7. \A n, y \in Members : known[n][y] = saves[y] => known'[n][y] = saves[y]
  BY <1>3, <1>4, <1>6
<1>8. /\ CountInv' /\ ShapeInv' /\ JoinInv' /\ KickInv'
      /\ \A n, y \in Members : Announced(n, y) => Announced(n, y)'
      /\ \A n, y \in Members : Coming(n, y) =>
           Coming(n, y)' \/ (n = m /\ y = x /\ ver = saves[x])
  BY <1>1, <1>2, TakenStays
<1>9. ver = saves[x] => known'[m][x] = saves[x]
  BY <1>4, <1>6
<1>10. PageInv'
  BY <1>1, Taken DEF PageInv, server
<1>11. VersionInv'
  <2>1. \A n, y \in Members : known'[n][y] <= saves[y]
    BY <1>3, <1>4, <1>6
  <2> QED BY <1>1, <2>1, Taken DEF VersionInv, server, Truth
<1>12. ListInv'
  <2> SUFFICES ASSUME NEW n \in Members, NEW y \in Members, known'[n][y] = saves[y],
                      page[n] \notin {"closed", "kicked"}
               PROVE  roster'[n][y] = Truth(y) \/ <<n, y>> \in behind' \union readded'
    BY <1>1 DEF ListInv, server, Truth
  <2>1. CASE n = m /\ y = x
    BY <1>3, <1>4, <1>5, <1>6, <2>1 DEF Truth
  <2>2. CASE ~(n = m /\ y = x)
    BY <1>4, <1>5, <2>2 DEF ListInv
  <2> QED BY <2>1, <2>2
<1>13. NewsInv'
  BY <1>1, <1>7, <1>8, <1>9 DEF NewsInv, server
<1>14. MeInv'
  BY <1>1, <1>3, <1>7, <1>8 DEF MeInv, server
<1> QED BY <1>8, <1>10, <1>11, <1>12, <1>13, <1>14

\* A participant is put on the list as it was saved.
LEMMA TakeUpsertStep ==
  ASSUME RosterInv, TypeOK', NEW m \in Members, TakeUpsert(m)
  PROVE  RosterInv'
<1> USE DEF RosterInv
<1>1. /\ wire[m] # <<>> /\ wire' = [wire EXCEPT ![m] = Tail(@)]
      /\ Head(wire[m]).kind \in {"connected", "updated", "ack-update", "ack-kick"}
      /\ UNCHANGED <<server, call, answer, page, early, unsaid, changes>>
  BY DEF TakeUpsert
<1>2. PICK x \in Members, ver \in 0 .. MaxSaves :
        x = Head(wire[m]).on /\ ver = Head(wire[m]).ver
  <2>1. Head(wire[m]) \in Packet
    BY <1>1, PacketsTail DEF TypeOK
  <2> QED BY <2>1 DEF Packet
<1>3. /\ ver <= saves[x] /\ ver # 0
      /\ ver = saves[x] => x \in active \/ Head(wire[m]).kind = "ack-kick"
  <2>1. Head(wire[m]) \in Packets(wire[m])
    BY <1>1, Taken
  <2> QED BY <1>1, <1>2, <2>1 DEF VersionInv, Upserts
<1>4. /\ \A n, y \in Members :
           known'[n][y] = IF n = m /\ y = x /\ ver > known[m][x] THEN ver ELSE known[n][y]
      /\ \A n, y \in Members :
           <<n, y>> \in behind' <=>
             IF n = m /\ y = x THEN ver < known[m][x] ELSE <<n, y>> \in behind
  <2>1. Told(m, x, ver)
    BY <1>2 DEF TakeUpsert
  <2> QED BY <2>1, ToldEffect
<1>5. /\ \A n, y \in Members :
           roster'[n][y] = IF n = m /\ y = x THEN ver ELSE roster[n][y]
      /\ readded \subseteq readded'
      /\ Head(wire[m]).kind = "ack-kick" => <<m, x>> \in readded'
  <2>1. roster \in [Members -> [Members -> 0 .. MaxSaves]]
    BY DEF TypeOK
  <2>2. roster' = [roster EXCEPT ![m][x] = ver]
    BY <1>2 DEF TakeUpsert
  <2>3. \A n, y \in Members :
          roster'[n][y] = IF n = m /\ y = x THEN ver ELSE roster[n][y]
    BY <2>1, <2>2, Entry
  <2>4. readded' = IF Head(wire[m]).kind = "ack-kick" THEN readded \union {<<m, x>>}
                   ELSE readded
    BY <1>2 DEF TakeUpsert
  <2> QED BY <2>3, <2>4
<1>6. /\ \A n \in Members \ {m} : me'[n] = me[n] /\ (n \in outdated' <=> n \in outdated)
      /\ x = m /\ me[m] # 0 => me'[m] = ver /\ (m \in outdated' <=> ver < known[m][m])
      /\ ~(x = m /\ me[m] # 0) => me'[m] = me[m] /\ (m \in outdated' <=> m \in outdated)
  <2>1. IF x = m /\ me[m] # 0 THEN Sets(m, ver) ELSE UNCHANGED <<me, outdated>>
    BY <1>2 DEF TakeUpsert
  <2>2. me \in [Members -> 0 .. MaxSaves]
    BY DEF TypeOK
  <2>3. CASE x = m /\ me[m] # 0
    <3>1. me' = [me EXCEPT ![m] = ver]
      BY <2>1, <2>3 DEF Sets
    <3>2. outdated' = IF ver < known[m][m] THEN outdated \union {m} ELSE outdated \ {m}
      BY <2>1, <2>3 DEF Sets
    <3>3. me'[m] = ver /\ \A n \in Members \ {m} : me'[n] = me[n]
      BY <2>2, <3>1
    <3> QED BY <2>3, <3>2, <3>3
  <2>4. CASE ~(x = m /\ me[m] # 0)
    BY <2>1, <2>4
  <2> QED BY <2>3, <2>4
<1>7. \A n, y \in Members : saves[y] \in Nat /\ known[n][y] \in Nat /\ known[n][y] <= saves[y]
  BY Spoken DEF VersionInv
<1>8. \A n, y \in Members : known[n][y] = saves[y] => known'[n][y] = saves[y]
  BY <1>3, <1>4, <1>7
<1>9. /\ CountInv' /\ ShapeInv' /\ JoinInv' /\ KickInv'
      /\ \A n, y \in Members : Announced(n, y) => Announced(n, y)'
      /\ \A n, y \in Members : Coming(n, y) =>
           Coming(n, y)' \/ (n = m /\ y = x /\ ver = saves[x])
  BY <1>1, <1>2, TakenStays
<1>10. ver = saves[x] => known'[m][x] = saves[x]
  BY <1>4, <1>7
<1>11. PageInv'
  BY <1>1, <1>3, <1>6, Taken DEF PageInv, server
<1>12. VersionInv'
  <2>1. \A n, y \in Members : known'[n][y] <= saves[y]
    BY <1>3, <1>4, <1>7
  <2> QED BY <1>1, <2>1, Taken DEF VersionInv, server, Truth
<1>13. ListInv'
  <2> SUFFICES ASSUME NEW n \in Members, NEW y \in Members, known'[n][y] = saves[y],
                      page[n] \notin {"closed", "kicked"}
               PROVE  roster'[n][y] = Truth(y) \/ <<n, y>> \in behind' \union readded'
    BY <1>1 DEF ListInv, server, Truth
  <2>1. CASE n = m /\ y = x
    BY <1>3, <1>4, <1>5, <1>7, <2>1 DEF Truth
  <2>2. CASE ~(n = m /\ y = x)
    BY <1>4, <1>5, <2>2 DEF ListInv
  <2> QED BY <2>1, <2>2
<1>14. NewsInv'
  BY <1>1, <1>8, <1>9, <1>10 DEF NewsInv, server
<1>15. MeInv'
  <2> SUFFICES ASSUME NEW n \in Members \ early
               PROVE  /\ page[n] = "joining" => saves[n] <= 1
                      /\ page[n] = "in" /\ n \in active /\ n \notin unsaid =>
                           \/ Announced(n, n)' \/ Coming(n, n)'
                           \/ known'[n][n] = saves[n] /\ (me'[n] = saves[n] \/ n \in outdated')
    BY <1>1 DEF MeInv, server
  <2>1. CASE n # m \/ x # m
    BY <1>6, <1>8, <1>9, <2>1 DEF MeInv
  <2>2. CASE n = m /\ x = m
    <3>1. page[m] = "in" => me[m] # 0
      BY DEF PageInv
    <3> QED BY <1>3, <1>6, <1>7, <1>8, <1>9, <1>10, <2>2, <3>1 DEF MeInv
  <2> QED BY <2>1, <2>2
<1> QED BY <1>9, <1>11, <1>12, <1>13, <1>14, <1>15

\* The join is acknowledged: a page that still waits is in, and asks for the list.
LEMMA TakeJoinedStep ==
  ASSUME RosterInv, TypeOK', NEW m \in Members, TakeJoined(m)
  PROVE  RosterInv'
<1> USE DEF RosterInv
<1>1. /\ wire[m] # <<>> /\ wire' = [wire EXCEPT ![m] = Tail(@)]
      /\ Head(wire[m]).kind = "ack-join"
      /\ UNCHANGED <<server, call, readded, early, unsaid, changes>>
  BY DEF TakeJoined
<1>2. Head(wire[m]) \in Packets(wire[m]) /\ m \in Members
  BY <1>1, Taken
<1>3. CASE page[m] # "joining"
  <2>1. UNCHANGED <<page, me, outdated, roster, known, behind, answer>>
    BY <1>3 DEF TakeJoined
  <2>2. /\ CountInv' /\ ShapeInv' /\ JoinInv' /\ KickInv'
        /\ \A n, y \in Members : Announced(n, y) => Announced(n, y)'
        /\ \A n, y \in Members : Coming(n, y) => Coming(n, y)'
    BY <1>1, <2>1, TakenStays
  <2>3. PageInv'
    BY <1>1, <2>1, Taken DEF PageInv, server
  <2>4. VersionInv'
    BY <1>1, <2>1, Taken DEF VersionInv, server, Truth
  <2>5. ListInv'
    BY <1>1, <2>1 DEF ListInv, server, Truth
  <2>6. NewsInv'
    BY <1>1, <2>1, <2>2 DEF NewsInv, server
  <2>7. MeInv'
    BY <1>1, <2>1, <2>2 DEF MeInv, server
  <2> QED BY <2>2, <2>3, <2>4, <2>5, <2>6, <2>7
<1>4. CASE page[m] = "joining"
  <2>1. PICK ver \in 0 .. MaxSaves : ver = Head(wire[m]).ver
    <3>1. Head(wire[m]) \in Packet
      BY <1>1, PacketsTail DEF TypeOK
    <3> QED BY <3>1 DEF Packet
  <2>2. /\ ver = 1 /\ ver <= saves[m] /\ m \in inRoom
        /\ ver = saves[m] => m \in active
    BY <1>1, <1>2, <2>1 DEF JoinInv, VersionInv, Upserts
  <2>3. /\ page' = [page EXCEPT ![m] = "in"] /\ Sets(m, ver)
        /\ roster' = [roster EXCEPT ![m][m] = ver] /\ Told(m, m, ver)
        /\ answer' = [answer EXCEPT ![m] = Asked]
    BY <1>4, <2>1 DEF TakeJoined
  <2>4. page'[m] = "in" /\ \A n \in Members \ {m} : page'[n] = page[n]
    BY <2>3 DEF TypeOK
  <2>5. /\ me'[m] = ver /\ \A n \in Members \ {m} : me'[n] = me[n]
        /\ \A n \in Members \ {m} : n \in outdated' <=> n \in outdated
    <3>1. me' = [me EXCEPT ![m] = ver]
      BY <2>3 DEF Sets
    <3>2. outdated' = IF ver < known[m][m] THEN outdated \union {m} ELSE outdated \ {m}
      BY <2>3 DEF Sets
    <3>3. me'[m] = ver /\ \A n \in Members \ {m} : me'[n] = me[n]
      BY <3>1 DEF TypeOK
    <3> QED BY <3>2, <3>3
  <2>6. \A n, y \in Members :
          roster'[n][y] = IF n = m /\ y = m THEN ver ELSE roster[n][y]
    <3>1. roster \in [Members -> [Members -> 0 .. MaxSaves]]
      BY DEF TypeOK
    <3> QED BY <2>3, <3>1, Entry
  <2>7. /\ \A n, y \in Members :
             known'[n][y] = IF n = m /\ y = m /\ ver > known[m][m] THEN ver ELSE known[n][y]
        /\ \A n, y \in Members :
             <<n, y>> \in behind' <=>
               IF n = m /\ y = m THEN ver < known[m][m] ELSE <<n, y>> \in behind
    BY <2>3, ToldEffect
  <2>8. answer'[m].is = "asked" /\ \A n \in Members \ {m} : answer'[n] = answer[n]
    BY <2>3 DEF TypeOK, Asked, NoAnswer
  <2>9. \A n, y \in Members : saves[y] \in Nat /\ known[n][y] \in Nat /\ known[n][y] <= saves[y]
    BY Spoken DEF VersionInv
  <2>10. \A n, y \in Members : known[n][y] = saves[y] => known'[n][y] = saves[y]
    BY <2>2, <2>7, <2>9
  <2>11. CountInv'
    <3>1. \A x \in Members : Changing(x)' = Changing(x)
      BY <1>1 DEF Changing, At
    <3>2. IsFiniteSet(DOMAIN call')
      BY <1>1 DEF CountInv
    <3> QED BY <1>1, <3>1, <3>2, CountKeeps DEF server
  <2>12. \A d \in DOMAIN call : call[d].op = "join" => call[d].by # m
    BY <1>1, <1>2 DEF JoinInv
  <2>13. ShapeInv'
    <3> SUFFICES ASSUME NEW d \in DOMAIN call' PROVE Shaped(d)'
      BY DEF ShapeInv
    <3> QED BY <1>1, <1>4, <2>4, <2>12, Spoken DEF ShapeInv, Shaped, server
  <2>14. PageInv'
    BY <1>1, <2>2, <2>4, <2>5, Taken DEF PageInv, server, Listening
  <2>15. JoinInv'
    BY <1>1, <2>4, <2>12, Taken, Spoken DEF JoinInv, server
  <2>16. VersionInv'
    <3>1. \A n, y \in Members : known'[n][y] <= saves[y]
      BY <2>2, <2>7, <2>9
    <3>2. \A n, y \in Members : answer'[n].is = "sent" =>
            /\ answer'[n].at[y] <= saves[y]
            /\ answer'[n].at[y] = saves[y] => answer'[n].of[y] = Truth(y)
      BY <2>8 DEF VersionInv
    <3>3. \A n \in Members : \A p \in Packets(wire'[n]) : p \in Packets(wire[n])
      BY <1>1, Taken
    <3> QED BY <1>1, <3>1, <3>2, <3>3 DEF VersionInv, server, Truth
  <2>17. KickInv'
    BY <1>1, <1>4, <2>4, Taken, KickStays DEF server, Listening
  <2>18. ListInv'
    <3> SUFFICES ASSUME NEW n \in Members, NEW y \in Members, known'[n][y] = saves[y],
                        page'[n] \notin {"closed", "kicked"}
                 PROVE  roster'[n][y] = Truth(y) \/ <<n, y>> \in behind' \union readded
      BY <1>1 DEF ListInv, server, Truth
    <3>1. CASE n = m /\ y = m
      BY <2>2, <2>6, <2>7, <2>9, <3>1 DEF Truth
    <3>2. CASE ~(n = m /\ y = m)
      BY <1>4, <2>4, <2>6, <2>7, <3>2 DEF ListInv
    <3> QED BY <3>1, <3>2
  <2>19. /\ \A n, y \in Members : Announced(n, y) => Announced(n, y)'
         /\ \A n, y \in Members : n # m /\ Coming(n, y) => Coming(n, y)'
    <3>1. \A n, y \in Members : Announced(n, y) => Announced(n, y)'
      BY <1>1, AnnouncedStays DEF server
    <3> QED BY <1>1, <3>1, Taken DEF Coming, server
  <2>20. NewsInv'
    BY <1>1, <2>4, <2>8, <2>10, <2>19 DEF NewsInv, server
  <2>21. MeInv'
    <3> SUFFICES ASSUME NEW n \in Members \ early
                 PROVE  /\ page'[n] = "joining" => saves[n] <= 1
                        /\ page'[n] = "in" /\ n \in active /\ n \notin unsaid =>
                             \/ Announced(n, n)' \/ Coming(n, n)'
                             \/ known'[n][n] = saves[n] /\ (me'[n] = saves[n] \/ n \in outdated')
      BY <1>1 DEF MeInv, server
    <3>1. CASE n = m
      <4>1. saves[m] = 1
        BY <1>4, <2>2, <2>9, <3>1 DEF MeInv
      <4>2. known'[m][m] = 1
        BY <2>2, <2>7, <2>9, <4>1
      <4> QED BY <2>2, <2>4, <2>5, <3>1, <4>1, <4>2
    <3>2. CASE n # m
      BY <2>4, <2>5, <2>10, <2>19, <3>2 DEF MeInv
    <3> QED BY <3>1, <3>2
  <2> QED BY <2>11, <2>13, <2>14, <2>15, <2>16, <2>17, <2>18, <2>20, <2>21
<1> QED BY <1>3, <1>4

\* The answer to the list replaces what the page has.
LEMMA TakeListStep ==
  ASSUME RosterInv, TypeOK', NEW m \in Members, TakeList(m)
  PROVE  RosterInv'
<1> USE DEF RosterInv
<1>1. /\ UNCHANGED <<server, call, wire, page, me, outdated, early, unsaid, changes>>
      /\ answer[m].is = "sent"
  BY DEF TakeList
<1>2. answer'[m].is = "none" /\ \A n \in Members \ {m} : answer'[n] = answer[n]
  BY DEF TakeList, TypeOK, NoAnswer
<1>3. \A n, y \in Members : /\ saves[y] \in Nat /\ known[n][y] \in Nat /\ known[n][y] <= saves[y]
                            /\ answer[n].at[y] \in Nat
                            /\ answer[n].is = "sent" => answer[n].at[y] <= saves[y]
  BY Spoken DEF VersionInv
<1> DEFINE old == {x \in Members : answer[m].at[x] < known[m][x]}
<1>4. \A n, y \in Members :
        /\ n # m => known'[n][y] = known[n][y] /\ roster'[n][y] = roster[n][y]
        /\ known'[m][y] = IF y \in old THEN known[m][y] ELSE answer[m].at[y]
        /\ roster'[m][y] = answer[m].of[y]
  <2>1. known' = [known EXCEPT ![m] =
                    [x \in Members |-> IF x \in old THEN @[x] ELSE answer[m].at[x]]]
    BY DEF TakeList
  <2>2. roster' = [roster EXCEPT ![m] = answer[m].of]
    BY DEF TakeList
  <2>3. DOMAIN known = Members /\ DOMAIN roster = Members
    BY DEF TypeOK
  <2> HIDE DEF old
  <2> QED BY <2>1, <2>2, <2>3
<1>5. \A n, y \in Members :
        /\ <<n, y>> \in behind' <=> IF n = m THEN y \in old ELSE <<n, y>> \in behind
        /\ n # m => (<<n, y>> \in readded' <=> <<n, y>> \in readded)
  <2>1. behind' = (behind \ ({m} \X Members)) \union ({m} \X old)
    BY DEF TakeList
  <2>2. readded' = readded \ ({m} \X Members)
    BY DEF TakeList
  <2>3. old \subseteq Members
    OBVIOUS
  <2> HIDE DEF old
  <2> QED BY <2>1, <2>2, <2>3
<1>6. \A n, y \in Members : known[n][y] = saves[y] => known'[n][y] = saves[y]
  BY <1>1, <1>3, <1>4
<1>7. CountInv' /\ ShapeInv'
  BY <1>1, ServerStays
<1>8. PageInv'
  BY <1>1 DEF PageInv, server
<1>9. JoinInv'
  BY <1>1 DEF JoinInv, server
<1>10. VersionInv'
  <2>1. \A n, y \in Members : known'[n][y] <= saves[y]
    BY <1>1, <1>3, <1>4
  <2>2. \A n \in Members : answer'[n].is = "sent" => answer'[n] = answer[n]
    BY <1>2
  <2> QED BY <1>1, <2>1, <2>2 DEF VersionInv, server, Truth
<1>11. KickInv'
  BY <1>1, KickStays DEF server
<1>12. ListInv'
  <2> SUFFICES ASSUME NEW n \in Members, NEW y \in Members, known'[n][y] = saves[y],
                      page[n] \notin {"closed", "kicked"}
               PROVE  roster'[n][y] = Truth(y) \/ <<n, y>> \in behind' \union readded'
    BY <1>1 DEF ListInv, server, Truth
  <2>1. CASE n = m
    <3>1. CASE y \in old
      BY <1>5, <2>1, <3>1
    <3>2. CASE y \notin old
      BY <1>1, <1>4, <2>1, <3>2 DEF VersionInv
    <3> QED BY <3>1, <3>2
  <2>2. CASE n # m
    BY <1>4, <1>5, <2>2 DEF ListInv
  <2> QED BY <2>1, <2>2
<1>13. \A n, y \in Members : Announced(n, y) => Announced(n, y)'
  BY <1>1, AnnouncedStays DEF server
<1>14. \A n, y \in Members : Coming(n, y) => Coming(n, y)'
  BY <1>1 DEF Coming, server
<1>15. NewsInv'
  <2>1. \A y \in Members : answer[m].at[y] = saves[y] => known'[m][y] = saves[y]
    BY <1>1, <1>3, <1>4
  <2> QED BY <1>1, <1>2, <1>6, <1>13, <1>14, <2>1 DEF NewsInv, server
<1>16. MeInv'
  BY <1>1, <1>6, <1>13, <1>14 DEF MeInv, server
<1> QED BY <1>7, <1>8, <1>9, <1>10, <1>11, <1>12, <1>15, <1>16
-----------------------------------------------------------------------------
(* The theorems.                                                           *)

LEMMA RosterInit == Init => RosterInv
<1> SUFFICES ASSUME Init PROVE RosterInv
  OBVIOUS
<1>1. 0 \in 0 .. MaxSaves /\ 0 \in 0 .. MaxChanges /\ Nobody \in [Members -> 0 .. MaxSaves]
  BY DEF MaxSaves, Nobody
<1>2. NoAnswer \in Answer /\ <<>> \in Seq(Packet)
  BY <1>1 DEF NoAnswer, Answer
<1>3. DOMAIN call = {} /\ call \in [DOMAIN call -> Call]
  BY DEF Init
<1>4. TypeOK
  BY <1>1, <1>2, <1>3 DEF Init, TypeOK, Listening
<1>5. \A x \in Members : saves[x] = 0 /\ page[x] = "new" /\ wire[x] = <<>>
                         /\ answer[x].is = "none" /\ roster[x][x] = 0
  BY DEF Init, NoAnswer, Nobody
<1>6. \A x, y \in Members : known[x][y] = 0 /\ roster[x][y] = 0
  BY DEF Init, Nobody
<1>7. \A x \in Members : Packets(wire[x]) = {}
  BY <1>5, PacketsNone
<1>8. CountInv
  <2>1. IsFiniteSet(DOMAIN call)
    BY <1>3, FS_EmptySet
  <2>2. ASSUME NEW x \in Members
        PROVE  saves[x] + Cardinality(Changing(x)) + Left(x) <= changes + 2
    <3>1. Changing(x) = {}
      BY <1>3 DEF Changing
    <3>2. Cardinality(Changing(x)) = 0
      BY <3>1, FS_EmptySet, Zenon
    <3>3. Left(x) = 2
      BY <1>5 DEF Left
    <3>4. saves[x] = 0 /\ changes = 0
      BY DEF Init
    <3> QED BY <3>2, <3>3, <3>4
  <2> QED BY <2>1, <2>2 DEF CountInv
<1>9. ShapeInv /\ JoinInv
  BY <1>3, <1>7 DEF ShapeInv, JoinInv
<1>10. PageInv
  BY <1>5 DEF PageInv, Init
<1>11. VersionInv
  BY <1>3, <1>5, <1>6, <1>7 DEF VersionInv
<1>12. KickInv /\ ListInv
  BY <1>5, <1>6 DEF KickInv, ListInv, Truth, Init
<1>13. NewsInv /\ MeInv
  BY <1>5 DEF NewsInv, MeInv
<1> QED BY <1>4, <1>8, <1>9, <1>10, <1>11, <1>12, <1>13 DEF RosterInv

LEMMA RosterStep == RosterInv /\ [Next]_vars => RosterInv'
<1> SUFFICES ASSUME RosterInv, [Next]_vars PROVE RosterInv'
  OBVIOUS
<1>1. CASE Next
  <2>1. TypeOK'
    BY <1>1, TypeNext DEF RosterInv
  <2>2. ASSUME NEW c \in Calls, NEW m \in Members,
               AskJoin(c, m) \/ \E x \in Members : AskUpdate(c, m, x) \/ AskKick(c, m, x)
        PROVE  RosterInv'
    BY <2>1, <2>2, AskJoinStep, AskChangeStep
  <2>7. ASSUME NEW c \in Calls, NEW m \in Members, CloseStranded(c, m) PROVE RosterInv'
    BY <2>1, <2>7, LeaveStrandedStep
  <2>3. ASSUME NEW m \in Members, TimeOut(m) \/ Close(m) \/ Break(m) PROVE RosterInv'
    BY <2>1, <2>3, TimeOutStep, LeaveStep
  <2>4. ASSUME NEW m \in Members, Receive(m) PROVE RosterInv'
    BY <2>1, <2>4, TakeKickedStep, TakeGoneStep, TakeUpsertStep, TakeJoinedStep DEF Receive
  <2>5. ASSUME NEW m \in Members, ServeList(m) \/ TakeList(m) PROVE RosterInv'
    BY <2>1, <2>5, ServeListStep, TakeListStep
  <2>6. ASSUME NEW c \in CallIds, Step(c) PROVE RosterInv'
    <3>1. CASE Save(c)
      <4>1. CASE Saved(c)
        BY <2>1, <3>1, <4>1, SavedStep
      <4>2. CASE End(c) /\ UNCHANGED <<active, saves>>
        BY <2>1, <3>1, <4>2, SkipStep
      <4>3. TypeOK
        BY DEF RosterInv
      <4> QED BY <3>1, <4>1, <4>2, <4>3, SaveCases
    <3>2. CASE Enter(c) \/ Reply(c) \/ Announce(c)
      BY <2>1, <3>2, EnterStep, ReplyStep, AnnounceStep
    <3> QED BY <2>6, <3>1, <3>2 DEF Step
  <2> QED BY <1>1, <2>2, <2>3, <2>4, <2>5, <2>6, <2>7 DEF Next
<1>2. CASE UNCHANGED vars
  <2> USE <1>2 DEF vars
  <2>1. TypeOK'
    BY DEF RosterInv, TypeOK
  <2>2. CountInv' /\ ShapeInv'
    BY ServerStays DEF RosterInv, server
  <2>3. PageInv' /\ JoinInv'
    BY DEF RosterInv, PageInv, JoinInv
  <2>4. VersionInv' /\ ListInv'
    BY DEF RosterInv, VersionInv, ListInv, Truth
  <2>5. KickInv'
    BY DEF RosterInv, KickInv, At
  <2>6. NewsInv' /\ MeInv'
    BY DEF RosterInv, NewsInv, MeInv, Announced, Coming, At
  <2> QED BY <2>1, <2>2, <2>3, <2>4, <2>5, <2>6 DEF RosterInv
<1> QED BY <1>1, <1>2

LEMMA RosterAlways == Spec => []RosterInv
BY RosterInit, RosterStep, PTL DEF Spec

\* The types, with no row saved more often than it is joined, changed and closed.
THEOREM RosterTyped == Spec => []TypeOK
<1>1. RosterInv => TypeOK
  BY DEF RosterInv
<1> QED BY <1>1, RosterAlways, PTL

\* A page whose news have all arrived lists exactly the active participants, as saved
\* last, but for the exceptions that the property names.
THEOREM RosterTold == Spec => []RosterIsTrue
<1>1. RosterInv => RosterIsTrue
  <2> SUFFICES ASSUME RosterInv, NEW m \in Members, Quiet(m), page[m] = "in",
                      NEW x \in Members, x \notin unsaid \/ ~(known[m][x] < saves[x])
               PROVE  roster[m][x] = Truth(x) \/ <<m, x>> \in behind \union readded
    BY DEF RosterIsTrue
  <2>1. /\ \A c : ~At(c, "announce") /\ ~At(c, "enter")
        /\ Packets(wire[m]) = {} /\ answer[m].is = "none"
    BY PacketsNone DEF Quiet, At
  <2>2. m \in active
    BY <2>1 DEF RosterInv, KickInv, PageInv, Listening
  <2>3. CASE x \in unsaid
    <3>1. known[m][x] <= saves[x] /\ known[m][x] \in Nat /\ saves[x] \in Nat
      BY Spoken DEF RosterInv, VersionInv
    <3> QED BY <2>3, <3>1 DEF RosterInv, ListInv
  <2>4. CASE x \notin unsaid
    <3>1. known[m][x] = saves[x]
      BY <2>1, <2>2, <2>4 DEF RosterInv, NewsInv, Announced, Coming
    <3> QED BY <3>1 DEF RosterInv, ListInv
  <2> QED BY <2>3, <2>4
<1> QED BY <1>1, RosterAlways, PTL

\* So is what a page believes of itself.
THEOREM MeTold == Spec => []MeIsTrue
<1>1. RosterInv => MeIsTrue
  <2> SUFFICES ASSUME RosterInv, NEW m \in Members, Quiet(m), page[m] = "in"
               PROVE  me[m] = saves[m] \/ m \in outdated \union early \union unsaid
    BY DEF MeIsTrue
  <2>1. (\A c : ~At(c, "announce") /\ ~At(c, "enter")) /\ Packets(wire[m]) = {}
    BY PacketsNone DEF Quiet, At
  <2>2. m \in active
    BY <2>1 DEF RosterInv, KickInv, PageInv, Listening
  <2> QED BY <2>1, <2>2 DEF RosterInv, MeInv, Announced, Coming
<1> QED BY <1>1, RosterAlways, PTL
=============================================================================
