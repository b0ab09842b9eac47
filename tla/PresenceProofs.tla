--------------------------- MODULE PresenceProofs ---------------------------
(* Theorems about Presence for every value of its constants, with proofs.  *)
EXTENDS Presence, TLAPS

USE PresenceAssumption

\* The other variables of a step that only moves a handler.
Rest == <<status, row, conn, data, inRoom, notice, crashes, raced, claimed>>

\* What the stage of a handler says about the fields it carries.
ShapeOf(k, ids) ==   \* ids: the participant ids in the table
  /\ k.op = "join" => k.room \in Rooms /\ k.sock \in Sockets \union {None}
  /\ k.op = "drop" => k.via \in Sockets
  /\ k.pc \in {"check", "insert", "enter"} => k.op = "join"
  /\ k.pc \in {"exit", "count"} => k.op = "leave"
  /\ k.pc \in {"enter", "exit", "count"} => k.via \in Sockets
  /\ k.pc \in {"enter", "load", "write"} => k.pid \in ids
  /\ k.pc \in {"load", "write", "exit"} => k.ent \in Row
  /\ k.pc = "count" => k.room \in Rooms

Shape == \A c \in DOMAIN call : ShapeOf(call[c], DOMAIN row)

TypeInv == TypeOK /\ Shape

-----------------------------------------------------------------------------
(* The helpers stay within the types.                                      *)

\* The edit of every operation on a row is a row.
LEMMA EditedType ==
  ASSUME NEW k \in Call, NEW e \in Row,
         k.op = "join" => k.sock \in Sockets \union {None}
  PROVE  Edited(k, e) \in Row
<1>1. CASE k.op = "join"
  BY <1>1 DEF Edited, Rejoined, Row, Call, Roles
<1>2. CASE k.op \in {"update", "moderate"}
  BY <1>2 DEF Edited, Toggled, Row, Call, Want
<1>3. CASE k.op \in {"leave", "kick", "drop"}
  BY <1>3 DEF Edited, Gone, Row
<1> QED BY <1>1, <1>2, <1>3 DEF Call, Ops, RequestOps

\* An UPDATE of any columns from a row leaves a row.
LEMMA MergeType ==
  ASSUME NEW e \in Row, NEW r \in Row, NEW cols
  PROVE  Merge(e, cols, r) \in Row
BY DEF Merge, Row

\* What a join inserts is a row.
LEMMA NewRowType ==
  ASSUME NEW k \in Call, k.room \in Rooms, k.sock \in Sockets \union {None}
  PROVE  NewRow(k) \in Row
BY DEF NewRow, Row, Call, Roles
-----------------------------------------------------------------------------
(* A step that begins, moves or ends one handler keeps the handlers typed. *)

CallsOK == /\ DOMAIN call \subseteq CallIds /\ call \in [DOMAIN call -> Call]
           /\ Shape

\* Adding a handler of the right shape keeps the handlers typed.
LEMMA BeginKeeps ==
  ASSUME CallsOK, row' = row, NEW c \in CallIds, NEW k \in Call, ShapeOf(k, DOMAIN row),
         Begin(c, k)
  PROVE  CallsOK'
BY DEF CallsOK, Begin, Shape, ShapeOf

\* Removing a handler does, too.
LEMMA EndKeeps ==
  ASSUME CallsOK, DOMAIN row \subseteq DOMAIN row', NEW c, End(c)
  PROVE  CallsOK'
BY DEF CallsOK, End, Shape, ShapeOf

\* Handler c becomes k, the others stay.
Moved(c, k) == /\ DOMAIN call' = DOMAIN call
               /\ call' = [d \in DOMAIN call |-> IF d = c THEN k ELSE call[d]]

\* So does replacing one by a handler of the right shape.
LEMMA MoveKeeps ==
  ASSUME CallsOK, DOMAIN row \subseteq DOMAIN row', NEW c \in DOMAIN call,
         NEW k \in Call, ShapeOf(k, DOMAIN row'), Moved(c, k)
  PROVE  CallsOK'
BY DEF CallsOK, Moved, Shape, ShapeOf

\* The requested changes are typed.
LEMMA WantsType == Wants \union {NoWant} \subseteq Want
BY DEF Wants, NoWant, Want

\* The initial state is typed.
LEMMA TypeInit == Init => TypeInv
BY DEF Init, TypeInv, TypeOK, Shape

\* A request that comes in keeps the types.
LEMMA TypeRequest ==
  ASSUME TypeInv, NEW c \in Calls, NEW via \in Sockets \union {None},
         NEW u \in Users, Request(c, via, u)
  PROVE  TypeInv'
<1>1. CallsOK
  BY DEF TypeInv, TypeOK, CallsOK
<1>2. c \in CallIds
  BY DEF CallIds
<1>3. SUFFICES ASSUME NEW k \in Call, ShapeOf(k, DOMAIN row), Ask(c, k)
               PROVE  TypeInv'
  <2>1. ASSUME NEW r \in Rooms, NEW s \in Sockets \union {None}, NEW role \in JoinRoles,
               AskJoin(c, via, u, r, s, role)
        PROVE  \E k \in Call : ShapeOf(k, DOMAIN row) /\ Ask(c, k)
    BY <2>1 DEF AskJoin, Blank, NoWant, Call, Want, ShapeOf, Ops, RequestOps, Stages
  <2>2. ASSUME NEW p \in DOMAIN row, AskLeave(c, via, u, p)
        PROVE  \E k \in Call : ShapeOf(k, DOMAIN row) /\ Ask(c, k)
    BY <2>2 DEF AskLeave, Blank, NoWant, Call, Want, ShapeOf, Ops, RequestOps, Stages,
                TypeInv, TypeOK
  <2>3. ASSUME NEW p \in DOMAIN row, NEW want \in Want, NEW s \in Sockets \union {None, "unset"},
               AskUpdate(c, via, u, p, want, s)
        PROVE  \E k \in Call : ShapeOf(k, DOMAIN row) /\ Ask(c, k)
    <3> DEFINE k == [Blank("update", via, u, "find") EXCEPT
                       !.pid = p, !.want = want, !.sock = s]
    <3>1. k \in Call
      BY DEF Blank, Call, Ops, RequestOps, Stages, TypeInv, TypeOK
    <3>2. ShapeOf(k, DOMAIN row)
      BY DEF ShapeOf, Blank
    <3> QED BY <2>3, <3>1, <3>2 DEF AskUpdate
  <2>4. ASSUME NEW p \in DOMAIN row, NEW want \in Want,
               AskModerate(c, via, u, p, want)
        PROVE  \E k \in Call : ShapeOf(k, DOMAIN row) /\ Ask(c, k)
    <3> DEFINE k == [Blank("moderate", via, u, "find") EXCEPT !.pid = p, !.want = want]
    <3>1. k \in Call
      BY DEF Blank, NoWant, Call, Want, Ops, RequestOps, Stages, TypeInv, TypeOK
    <3>2. ShapeOf(k, DOMAIN row)
      BY DEF ShapeOf, Blank
    <3> QED BY <2>4, <3>1, <3>2 DEF AskModerate
  <2>5. ASSUME NEW p \in DOMAIN row, AskKick(c, via, u, p)
        PROVE  \E k \in Call : ShapeOf(k, DOMAIN row) /\ Ask(c, k)
    BY <2>5 DEF AskKick, Blank, NoWant, Call, Want, ShapeOf, Ops, RequestOps, Stages,
                TypeInv, TypeOK
  <2> QED BY <2>1, <2>2, <2>3, <2>4, <2>5, WantsType DEF Request
<1>4. CallsOK'
  BY <1>1, <1>2, <1>3, BeginKeeps DEF Ask
<1>5. claimed' \subseteq Users \X Sockets
  BY <1>3 DEF Ask, Claims, Call, TypeInv, TypeOK
<1> QED BY <1>3, <1>4, <1>5 DEF Ask, TypeInv, TypeOK, CallsOK

\* A step of a handler keeps the types.
LEMMA TypeStep ==
  ASSUME TypeInv, NEW c \in CallIds, Step(c)
  PROVE  TypeInv'
<1> DEFINE k == call[c]
<1>1. CallsOK /\ c \in DOMAIN call /\ k \in Call /\ ShapeOf(k, DOMAIN row)
  BY DEF TypeInv, TypeOK, CallsOK, Shape, Step, CheckRoom, Peek, Find, FindNothing,
         Load, Write, Insert, Enter, Exit, Count, Emit, At
<1>2. ASSUME UNCHANGED Rest, CallsOK' PROVE TypeInv'
  BY <1>2 DEF Rest, TypeInv, TypeOK, CallsOK
<1>3. CASE CheckRoom(c)
  <2>1. CASE End(c)
    BY <1>1, <1>2, <1>3, <2>1, EndKeeps DEF CheckRoom, Rest
  <2>2. CASE Goto(c, "find")
    BY <1>1, <1>2, <1>3, <2>2 DEF CheckRoom, Rest, Goto, At, CallsOK, Shape, ShapeOf, Call, Stages
  <2> QED BY <1>3, <2>1, <2>2 DEF CheckRoom
<1>4. CASE Peek(c)
  <2>1. CASE End(c)
    BY <1>1, <1>2, <1>4, <2>1, EndKeeps DEF Peek, Rest
  <2>2. CASE Active(k.pid) /\ ~End(c)
    <3>1. row[k.pid].sock \in Sockets \union {None}
      BY <2>2 DEF Active, TypeInv, TypeOK, Row
    <3> DEFINE m == [k EXCEPT !.peek = row[k.pid].sock, !.pc = "find"]
    <3>2. m \in Call
      BY <1>1, <3>1 DEF Call, Stages
    <3>3. row' = row /\ k.pc = "peek"
      BY <1>4 DEF Peek, At
    <3>4. ShapeOf(m, DOMAIN row')
      BY <1>1, <3>3 DEF ShapeOf, Call
    <3>5. Moved(c, m)
      BY <1>1, <1>4, <2>2 DEF Peek, Moved, CallsOK, Call
    <3> QED BY <1>1, <1>2, <1>4, <3>2, <3>3, <3>4, <3>5, MoveKeeps DEF Peek, Rest
  <2> QED BY <1>4, <2>1, <2>2 DEF Peek
<1>5. CASE Find(c)
  <2>1. PICK p \in Matches(k) :
          call' = [call EXCEPT ![c].pid = p, ![c].pc = "load",
                               ![c].ent = Edited(k, row[p])]
    BY <1>5 DEF Find
  <2>2. p \in DOMAIN row /\ p \in Pids /\ row[p] \in Row
    BY DEF Matches, TypeInv, TypeOK
  <2>3. Edited(k, row[p]) \in Row
    BY <1>1, <2>2, EditedType DEF ShapeOf
  <2> QED
    BY <1>1, <1>2, <1>5, <2>1, <2>2, <2>3
       DEF Find, Rest, At, CallsOK, Shape, ShapeOf, Call, Stages
<1>6. CASE FindNothing(c)
  <2>1. CASE End(c)
    BY <1>1, <1>2, <1>6, <2>1, EndKeeps DEF FindNothing, Rest
  <2>2. CASE k.op = "join" /\ Goto(c, "insert")
    BY <1>1, <1>2, <1>6, <2>2
       DEF FindNothing, Rest, Goto, At, CallsOK, Shape, ShapeOf, Call, Stages
  <2> QED BY <1>6, <2>1, <2>2 DEF FindNothing
<1>7. CASE Load(c)
  <2>1. Diff(k.ent, row[k.pid]) \subseteq Columns
    BY DEF Diff
  <2> QED
    BY <1>1, <1>2, <1>7, <2>1
       DEF Load, Rest, At, CallsOK, Shape, ShapeOf, Call, Stages
<1>8. CASE Write(c)
  <2>1. k.pid \in DOMAIN row /\ k.ent \in Row /\ row[k.pid] \in Row
    BY <1>1, <1>8 DEF Write, At, ShapeOf, TypeInv, TypeOK
  <2>2. Merge(k.ent, k.cols, row[k.pid]) \in Row
    BY <2>1, MergeType
  <2>3. DOMAIN row' = DOMAIN row /\ row' \in [DOMAIN row' -> Row]
    BY <1>8, <2>1, <2>2 DEF Write, TypeInv, TypeOK
  <2>4. raced' \subseteq Rooms \X Users
    BY <1>8, <2>1 DEF Write, PairOf, Row, TypeInv, TypeOK
  <2>5. CallsOK'
    <3>1. CASE End(c)
      BY <1>1, <2>3, <3>1, EndKeeps
    <3>2. CASE ~End(c)
      BY <1>1, <1>8, <2>1, <2>3, <3>2
         DEF Write, AfterSave, Goto, At, CallsOK, Shape, ShapeOf, Call, Stages
    <3> QED BY <3>1, <3>2
  <2> QED BY <1>8, <2>3, <2>4, <2>5 DEF Write, TypeInv, TypeOK, CallsOK
<1>9. CASE Insert(c)
  <2>1. k.room \in Rooms /\ k.op = "join" /\ k.sock \in Sockets \union {None}
    BY <1>1, <1>9 DEF Insert, At, ShapeOf
  <2>2. PICK p \in Pids \ DOMAIN row :
          /\ row' = [q \in DOMAIN row \union {p} |->
                       IF q = p THEN NewRow(call[c]) ELSE row[q]]
          /\ IF call[c].via = None THEN End(c)
             ELSE call' = [call EXCEPT ![c].pid = p, ![c].pc = "enter"]
    BY <1>9 DEF Insert
  <2>3. /\ DOMAIN row' = DOMAIN row \union {p} /\ DOMAIN row' \subseteq Pids
        /\ row' \in [DOMAIN row' -> Row]
    BY <1>1, <2>1, <2>2, NewRowType DEF TypeInv, TypeOK
  <2>4. raced' \subseteq Rooms \X Users
    BY <1>1, <1>9, <2>1 DEF Insert, Call, TypeInv, TypeOK
  <2>5. CallsOK'
    <3>1. CASE End(c)
      BY <1>1, <2>3, <3>1, EndKeeps
    <3>2. CASE ~End(c)
      BY <1>1, <2>1, <2>2, <2>3, <3>2 DEF CallsOK, Shape, ShapeOf, Call, Stages
    <3> QED BY <3>1, <3>2
  <2> QED BY <1>9, <2>3, <2>4, <2>5 DEF Insert, TypeInv, TypeOK, CallsOK
<1>10. CASE Enter(c)
  <2>1. k.via \in Sockets /\ k.room \in Rooms /\ k.pid \in Pids
    BY <1>1, <1>10 DEF Enter, At, ShapeOf, TypeInv, TypeOK
  <2>2. CallsOK'
    BY <1>1, <1>10, EndKeeps DEF Enter
  <2> QED BY <1>10, <2>1, <2>2 DEF Enter, TypeInv, TypeOK, CallsOK
<1>11. CASE Exit(c)
  <2>1. k.via \in Sockets /\ k.op = "leave"
    BY <1>1, <1>11 DEF Exit, At, ShapeOf
  <2>2. CASE End(c)
    <3>1. CallsOK'
      BY <1>1, <1>11, <2>2, EndKeeps DEF Exit
    <3> QED BY <1>11, <2>1, <3>1 DEF Exit, TypeInv, TypeOK, CallsOK
  <2>3. CASE ~End(c)
    <3>1. /\ data[k.via] # None /\ data[k.via].slug \in Rooms
          /\ call' = [call EXCEPT ![c].room = data[k.via].slug, ![c].pc = "count"]
          /\ data' = data
      BY <1>11, <2>1, <2>3 DEF Exit, TypeInv, TypeOK
    <3> DEFINE m == [k EXCEPT !.room = data[k.via].slug, !.pc = "count"]
    <3>3. m \in Call /\ row' = row
      BY <1>1, <1>11, <3>1 DEF Exit, Call, Stages
    <3>4. ShapeOf(m, DOMAIN row')
      BY <1>1, <2>1, <3>1, <3>3 DEF ShapeOf, Call
    <3>5. Moved(c, m)
      BY <1>1, <3>1 DEF Moved, CallsOK, Call
    <3>2. CallsOK'
      BY <1>1, <3>3, <3>4, <3>5, MoveKeeps
    <3> QED BY <1>11, <2>1, <3>1, <3>2 DEF Exit, TypeInv, TypeOK, CallsOK
  <2> QED BY <2>2, <2>3
<1>12. CASE Count(c)
  <2>1. k.via \in Sockets /\ CallsOK'
    BY <1>1, <1>12, EndKeeps DEF Count, At, ShapeOf
  <2> QED BY <1>12, <2>1 DEF Count, TypeInv, TypeOK, CallsOK
<1>13. CASE Emit(c)
  <2>1. CallsOK'
    BY <1>1, <1>13, EndKeeps DEF Emit
  <2> QED BY <1>13, <2>1 DEF Emit, TypeInv, TypeOK, CallsOK
<1> QED BY <1>3, <1>4, <1>5, <1>6, <1>7, <1>8, <1>9, <1>10, <1>11, <1>12, <1>13 DEF Step

\* Connections, the end of a room and a restart keep the types.
LEMMA TypeRest ==
  ASSUME TypeInv,
         \/ \E s \in Sockets : Connect(s) \/ Drop(s)
         \/ \E r \in Endable : EndRoom(r)
         \/ Crash
         \/ UNCHANGED vars
  PROVE  TypeInv'
<1>1. ASSUME NEW s \in Sockets, Connect(s) PROVE TypeInv'
  BY <1>1 DEF Connect, TypeInv, TypeOK, Shape, ShapeOf
<1>2. ASSUME NEW s \in Sockets, Drop(s) PROVE TypeInv'
  <2> DEFINE k == Blank("drop", s, UserOf[s], "find")
  <2>1. k \in Call /\ ShapeOf(k, DOMAIN row) /\ s \in CallIds
    BY DEF Blank, NoWant, Call, Want, ShapeOf, Ops, RequestOps, Stages, CallIds
  <2>2. CallsOK'
    BY <1>2, <2>1, BeginKeeps DEF Drop, TypeInv, TypeOK, CallsOK
  <2> QED BY <1>2, <2>2 DEF Drop, TypeInv, TypeOK, CallsOK
<1>3. ASSUME NEW r \in Endable, EndRoom(r) PROVE TypeInv'
  BY <1>3 DEF EndRoom, TypeInv, TypeOK, Shape, ShapeOf
<1>4. CASE Crash
  <2>1. crashes' \in 0 .. MaxCrashes
    BY <1>4 DEF Crash, TypeInv, TypeOK
  <2> QED BY <1>4, <2>1 DEF Crash, TypeInv, TypeOK, Shape, ShapeOf
<1>5. CASE UNCHANGED vars
  BY <1>5 DEF vars, TypeInv, TypeOK, Shape, ShapeOf
<1> QED BY <1>1, <1>2, <1>3, <1>4, <1>5

\* Every reachable state is typed, and every handler carries what its stage needs.
THEOREM Typed == Spec => [](TypeOK /\ Shape)
<1>1. TypeInv /\ [Next]_vars => TypeInv'
  BY TypeRequest, TypeStep, TypeRest DEF Next
<1> QED BY <1>1, TypeInit, PTL DEF Spec, TypeInv

\* The type invariant that the runs check.
THEOREM TypeCorrect == Spec => []TypeOK
BY Typed, PTL

-----------------------------------------------------------------------------
(* Duplicates.  DuplicatesNeedARace is not inductive: a join that is about  *)
(* to insert must be known to have no active row to duplicate, unless a     *)
(* race has been recorded for its pair.                                     *)

Inserting(r, u) == {c \in DOMAIN call : /\ call[c].pc = "insert"
                                        /\ call[c].room = r /\ call[c].user = u}

RaceInv ==
  \A r \in Rooms, u \in Users : <<r, u>> \notin raced =>
    /\ \A p, q \in ActiveOf(r, u) : p = q
    /\ Inserting(r, u) # {} => ActiveOf(r, u) = {}

\* A step that leaves the table alone and brings no handler to its INSERT.
LEMMA RaceQuiet ==
  ASSUME RaceInv, row' = row, raced' = raced,
         \A r \in Rooms, u \in Users : Inserting(r, u)' \subseteq Inserting(r, u)
  PROVE  RaceInv'
BY DEF RaceInv, ActiveOf, Active, PairOf

\* The handlers of a step that begins, ends or moves one to another stage.
LEMMA NoInserter ==
  ASSUME NEW c,
         \A d \in DOMAIN call' \ {c} : d \in DOMAIN call /\ call'[d] = call[d],
         c \in DOMAIN call' => call'[c].pc # "insert",
         NEW r \in Rooms, NEW u \in Users
  PROVE  Inserting(r, u)' \subseteq Inserting(r, u)
BY DEF Inserting

\* An UPDATE changes neither the room nor the user of a row.
LEMMA MergeKeepsPair ==
  ASSUME NEW e \in Row, NEW r \in Row, NEW cols
  PROVE  Merge(e, cols, r).room = r.room /\ Merge(e, cols, r).user = r.user
BY DEF Merge, Row

\* A step of handler c leaves the other handlers alone, and takes c to its INSERT
\* only when a join found nothing.
LEMMA OthersStay ==
  ASSUME TypeInv, NEW c \in CallIds, Step(c)
  PROVE  /\ c \in DOMAIN call
         /\ \A d \in DOMAIN call' \ {c} : d \in DOMAIN call /\ call'[d] = call[d]
         /\ c \in DOMAIN call' /\ call'[c].pc = "insert" => FindNothing(c)
<1>1. c \in DOMAIN call /\ call \in [DOMAIN call -> Call] /\ call[c] \in Call
  BY DEF TypeInv, TypeOK, Step, CheckRoom, Peek, Find, FindNothing,
         Load, Write, Insert, Enter, Exit, Count, Emit, At
<1>2. CASE End(c)
  BY <1>1, <1>2 DEF End
<1>3. CASE CheckRoom(c) /\ ~End(c)
  BY <1>1, <1>3 DEF CheckRoom, Goto, Call
<1>4. CASE Peek(c) /\ ~End(c)
  <2>1. DOMAIN call' = DOMAIN call /\ \A d \in DOMAIN call \ {c} : call'[d] = call[d]
    BY <1>1, <1>4 DEF Peek
  <2>2. PICK x : call' = [call EXCEPT ![c].peek = x, ![c].pc = "find"]
    BY <1>4 DEF Peek
  <2>3. call'[c].pc = "find"
    BY <1>1, <2>2 DEF Call
  <2> QED BY <1>1, <2>1, <2>3
<1>5. CASE Find(c)
  <2>1. DOMAIN call' = DOMAIN call /\ \A d \in DOMAIN call \ {c} : call'[d] = call[d]
    BY <1>1, <1>5 DEF Find
  <2>2. PICK p, e : call' = [call EXCEPT ![c].pid = p, ![c].pc = "load", ![c].ent = e]
    BY <1>5 DEF Find
  <2>3. call'[c].pc = "load"
    BY <1>1, <2>2 DEF Call
  <2> QED BY <1>1, <2>1, <2>3
<1>10. CASE Load(c)
  <2>1. DOMAIN call' = DOMAIN call /\ \A d \in DOMAIN call \ {c} : call'[d] = call[d]
    BY <1>1, <1>10 DEF Load
  <2>2. PICK x : call' = [call EXCEPT ![c].cols = x, ![c].pc = "write"]
    BY <1>10 DEF Load
  <2>3. call'[c].pc = "write"
    BY <1>1, <2>2 DEF Call
  <2> QED BY <1>1, <2>1, <2>3
<1>6. CASE FindNothing(c) /\ ~End(c)
  BY <1>1, <1>6 DEF FindNothing, Goto
<1>7. CASE Write(c) /\ ~End(c)
  BY <1>1, <1>7 DEF Write, AfterSave, Goto, Call
<1>8. CASE Insert(c) /\ ~End(c)
  <2>1. DOMAIN call' = DOMAIN call /\ \A d \in DOMAIN call \ {c} : call'[d] = call[d]
    BY <1>1, <1>8 DEF Insert
  <2>2. PICK p : call' = [call EXCEPT ![c].pid = p, ![c].pc = "enter"]
    BY <1>8 DEF Insert
  <2>3. call'[c].pc = "enter"
    BY <1>1, <2>2 DEF Call
  <2> QED BY <1>1, <2>1, <2>3
<1>9. CASE Exit(c) /\ ~End(c)
  <2>1. DOMAIN call' = DOMAIN call /\ \A d \in DOMAIN call \ {c} : call'[d] = call[d]
    BY <1>1, <1>9 DEF Exit
  <2>2. PICK x : call' = [call EXCEPT ![c].room = x, ![c].pc = "count"]
    BY <1>9 DEF Exit
  <2>3. call'[c].pc = "count"
    BY <1>1, <2>2 DEF Call
  <2> QED BY <1>1, <2>1, <2>3
<1> QED
  BY <1>1, <1>2, <1>3, <1>4, <1>5, <1>6, <1>7, <1>8, <1>9, <1>10
     DEF Step, Enter, Count, Emit

\* A step of a handler keeps RaceInv.
LEMMA RaceStep ==
  ASSUME TypeInv, RaceInv, NEW c \in CallIds, Step(c)
  PROVE  RaceInv'
<1> DEFINE k == call[c]
<1>1. c \in DOMAIN call /\ k \in Call /\ ShapeOf(k, DOMAIN row)
  BY OthersStay DEF TypeInv, TypeOK, Shape
<1>2. \A d \in DOMAIN call' \ {c} : d \in DOMAIN call /\ call'[d] = call[d]
  BY OthersStay
<1>3. CASE CheckRoom(c) \/ Peek(c) \/ Find(c) \/ Load(c)
           \/ Enter(c) \/ Exit(c) \/ Count(c) \/ Emit(c)
  <2>1. row' = row /\ raced' = raced
    BY <1>3 DEF CheckRoom, Peek, Find, Load, Enter, Exit, Count, Emit
  <2>2. c \in DOMAIN call' => call'[c].pc # "insert"
    <3>1. CASE Find(c)
      <4>1. PICK p, e : call' = [call EXCEPT ![c].pid = p, ![c].pc = "load", ![c].ent = e]
        BY <3>1 DEF Find
      <4> QED BY <1>1, <4>1 DEF Call
    <3>2. CASE ~Find(c)
      BY <1>3, <3>2, OthersStay
         DEF CheckRoom, Peek, Load, Enter, Exit, Count, Emit, FindNothing, At
    <3> QED BY <3>1, <3>2
  <2> QED BY <1>2, <2>1, <2>2, NoInserter, RaceQuiet
<1>4. CASE FindNothing(c)
  <2>1. row' = row /\ raced' = raced
    BY <1>4 DEF FindNothing
  <2>2. CASE End(c)
    BY <1>2, <2>1, <2>2, NoInserter, RaceQuiet DEF End
  <2>3. CASE k.op = "join" /\ Goto(c, "insert")
    <3>1. \A r \in Rooms, u \in Users :
            r = k.room /\ u = k.user => ActiveOf(r, u) = {}
      BY <1>4, <2>3 DEF FindNothing, Matches, ActiveOf
    <3>2. \A r \in Rooms, u \in Users :
            (r = k.room /\ u = k.user) \/ Inserting(r, u)' \subseteq Inserting(r, u)
      BY <1>1, <2>3 DEF Goto, Inserting, Call
    <3> QED BY <2>1, <3>1, <3>2 DEF RaceInv, ActiveOf, Active, PairOf
  <2> QED BY <1>4, <2>2, <2>3 DEF FindNothing
<1>5. CASE Write(c)
  <2>1. PICK p \in DOMAIN row :
          /\ p = k.pid /\ k.ent \in Row /\ row[p] \in Row
          /\ row[p].room \in Rooms /\ row[p].user \in Users
    BY <1>1, <1>5 DEF Write, At, ShapeOf, TypeInv, TypeOK, Row
  <2>2. /\ DOMAIN row' = DOMAIN row
        /\ \A q \in DOMAIN row : row'[q].room = row[q].room /\ row'[q].user = row[q].user
        /\ \A q \in DOMAIN row \ {p} : row'[q] = row[q]
    BY <1>5, <2>1, MergeKeepsPair DEF Write
  <2>3. c \in DOMAIN call' => call'[c].pc # "insert"
    BY <1>5, OthersStay DEF Write, FindNothing, At
  <2>4. \A r \in Rooms, u \in Users : Inserting(r, u)' \subseteq Inserting(r, u)
    BY <1>2, <2>3, NoInserter
  <2>5. \A r \in Rooms, u \in Users : <<r, u>> \notin raced' =>
          /\ <<r, u>> \notin raced
          /\ ActiveOf(r, u)' \subseteq ActiveOf(r, u)
    BY <1>5, <2>1, <2>2 DEF Write, ActiveOf, Active, PairOf
  <2> QED BY <2>4, <2>5 DEF RaceInv
<1>6. CASE Insert(c)
  <2>1. PICK r0 \in Rooms, u0 \in Users :
          r0 = k.room /\ u0 = k.user /\ c \in Inserting(r0, u0)
    BY <1>1, <1>6 DEF Insert, At, ShapeOf, Call, Inserting
  <2>2. PICK p \in Pids \ DOMAIN row :
          row' = [q \in DOMAIN row \union {p} |->
                   IF q = p THEN NewRow(call[c]) ELSE row[q]]
    BY <1>6 DEF Insert
  <2>3. c \in DOMAIN call' => call'[c].pc # "insert"
    BY <1>6, OthersStay DEF Insert, FindNothing, At
  <2>4. \A r \in Rooms, u \in Users : Inserting(r, u)' \subseteq Inserting(r, u) \ {c}
    BY <1>2, <2>3 DEF Inserting
  <2>5. \A r \in Rooms, u \in Users : <<r, u>> # <<r0, u0>> =>
          ActiveOf(r, u)' = ActiveOf(r, u) /\ (<<r, u>> \notin raced' => <<r, u>> \notin raced)
    BY <1>6, <2>1, <2>2 DEF Insert, ActiveOf, Active, PairOf, NewRow
  <2>6. <<r0, u0>> \notin raced' =>
          /\ <<r0, u0>> \notin raced
          /\ Inserting(r0, u0)' = {}
    <3>1. ASSUME NEW d \in Inserting(r0, u0) \ {c} PROVE <<r0, u0>> \in raced'
      BY <1>6, <2>1, <3>1 DEF Insert, Inserting
    <3>2. raced \subseteq raced'
      BY <1>6 DEF Insert
    <3> QED BY <2>4, <3>1, <3>2
  <2>7. ActiveOf(r0, u0)' \subseteq ActiveOf(r0, u0) \union {p}
    BY <2>2 DEF ActiveOf, Active, PairOf, NewRow
  <2>8. <<r0, u0>> \notin raced => ActiveOf(r0, u0) = {}
    BY <2>1 DEF RaceInv
  <2> QED
    <3> SUFFICES ASSUME NEW r \in Rooms, NEW u \in Users, <<r, u>> \notin raced'
                 PROVE  /\ \A x, y \in ActiveOf(r, u)' : x = y
                        /\ Inserting(r, u)' # {} => ActiveOf(r, u)' = {}
      BY DEF RaceInv
    <3>1. CASE r = r0 /\ u = u0
      BY <2>6, <2>7, <2>8, <3>1
    <3>2. CASE <<r, u>> # <<r0, u0>>
      BY <2>4, <2>5, <3>2 DEF RaceInv
    <3> QED BY <3>1, <3>2
<1> QED BY <1>3, <1>4, <1>5, <1>6 DEF Step

\* Every other step keeps RaceInv.
LEMMA RaceRest ==
  ASSUME TypeInv, RaceInv,
         \/ \E c \in Calls, via \in Sockets \union {None}, u \in Users : Request(c, via, u)
         \/ \E s \in Sockets : Connect(s) \/ Drop(s)
         \/ \E r \in Endable : EndRoom(r)
         \/ Crash
         \/ UNCHANGED vars
  PROVE  RaceInv'
<1>1. ASSUME NEW c \in Calls, NEW via \in Sockets \union {None}, NEW u \in Users,
             Request(c, via, u)
      PROVE  RaceInv'
  <2>1. \E k : k.pc # "insert" /\ Ask(c, k)
    BY <1>1 DEF Request, AskJoin, AskLeave, AskUpdate, AskModerate, AskKick, Blank
  <2> QED BY <2>1, NoInserter, RaceQuiet DEF Ask, Begin
<1>2. ASSUME NEW s \in Sockets, Drop(s) PROVE RaceInv'
  BY <1>2, NoInserter, RaceQuiet DEF Drop, Begin, Blank
<1>3. ASSUME \/ \E s \in Sockets : Connect(s)
             \/ \E r \in Endable : EndRoom(r)
             \/ UNCHANGED vars
      PROVE  RaceInv'
  BY <1>3, RaceQuiet DEF Connect, EndRoom, vars, Inserting
<1>4. CASE Crash
  BY <1>4, RaceQuiet DEF Crash, Inserting
<1> QED BY <1>1, <1>2, <1>3, <1>4

\* A user gets two active rows in a room only through a recorded race.
THEOREM DuplicatesOnlyByRace == Spec => []DuplicatesNeedARace
<1>1. Init => RaceInv
  BY DEF Init, RaceInv, ActiveOf, Inserting
<1>2. TypeInv /\ RaceInv /\ [Next]_vars => RaceInv'
  BY RaceStep, RaceRest DEF Next
<1>3. RaceInv => DuplicatesNeedARace
  BY DEF RaceInv, DuplicatesNeedARace
<1> QED BY <1>1, <1>2, <1>3, Typed, PTL DEF Spec, TypeInv

-----------------------------------------------------------------------------
(* What one step can do to the copies in flight and to the rows.           *)

\* d holds a copy of p after a step only if it held the same copy before, or the
\* step is its find.
CopyFrom(d, p) ==
  \/ Holds(d, p) /\ call'[d].ent = call[d].ent
  \/ /\ At(d, "find") /\ p \in Matches(call[d])
     /\ call'[d].ent = Edited(call[d], row[p])

\* p is left alone, or a handler that holds it writes its copy.
RowFrom(p) ==
  /\ p \in DOMAIN row'
  /\ \/ row'[p] = row[p]
     \/ \E c \in DOMAIN call :
          /\ call[c].pc = "write" /\ call[c].pid = p
          /\ row'[p] = Merge(call[c].ent, call[c].cols, row[p])

\* A step of a handler makes no copy but by its find.
LEMMA StepCopies ==
  ASSUME TypeInv, NEW c \in CallIds, Step(c), NEW d, NEW p, Holds(d, p)'
  PROVE  CopyFrom(d, p)
<1>1. /\ c \in DOMAIN call /\ call \in [DOMAIN call -> Call] /\ call[c] \in Call
      /\ d # c => d \in DOMAIN call /\ call'[d] = call[d]
  BY OthersStay DEF Holds, At, TypeInv, TypeOK
<1>2. CASE d # c
  BY <1>1, <1>2 DEF CopyFrom, Holds, At
<1>3. CASE d = c
  <2>1. ~End(c)
    BY <1>3 DEF End, Holds, At
  <2>2. CASE CheckRoom(c) \/ FindNothing(c)
    <3>1. call'[c].pc \in {"find", "insert"}
      BY <1>1, <2>1, <2>2 DEF CheckRoom, FindNothing, Goto, Call
    <3> QED BY <1>3, <3>1 DEF Holds, At
  <2>3. CASE Peek(c)
    <3>1. PICK x : call' = [call EXCEPT ![c].peek = x, ![c].pc = "find"]
      BY <2>1, <2>3 DEF Peek
    <3>2. call'[c].pc = "find"
      BY <1>1, <3>1 DEF Call
    <3> QED BY <1>3, <3>2 DEF Holds, At
  <2>4. CASE Find(c)
    <3>1. PICK q \in Matches(call[c]) :
            call' = [call EXCEPT ![c].pid = q, ![c].pc = "load",
                                 ![c].ent = Edited(call[c], row[q])]
      BY <2>4 DEF Find
    <3>2. PICK e : /\ e = Edited(call[c], row[q])
                   /\ call' = [call EXCEPT ![c].pid = q, ![c].pc = "load", ![c].ent = e]
      BY <3>1
    <3>3. call'[c].pid = q /\ call'[c].ent = e
      BY <1>1, <3>2 DEF Call
    <3>4. q = p
      BY <1>3, <3>3 DEF Holds, At
    <3> QED BY <1>3, <2>4, <3>2, <3>3, <3>4 DEF CopyFrom, Find, At
  <2>5. CASE Load(c)
    <3>1. PICK x : call' = [call EXCEPT ![c].cols = x, ![c].pc = "write"]
      BY <2>5 DEF Load
    <3>2. call'[c].pid = call[c].pid /\ call'[c].ent = call[c].ent
      BY <1>1, <3>1 DEF Call
    <3> QED BY <1>3, <2>5, <3>2 DEF CopyFrom, Holds, Load, At
  <2>6. CASE Write(c)
    <3>1. call'[c].pc \in {"enter", "exit", "emit"}
      BY <1>1, <2>1, <2>6 DEF Write, AfterSave, Goto, Call
    <3> QED BY <1>3, <3>1 DEF Holds, At
  <2>7. CASE Insert(c)
    <3>1. PICK q : call' = [call EXCEPT ![c].pid = q, ![c].pc = "enter"]
      BY <2>1, <2>7 DEF Insert
    <3>2. call'[c].pc = "enter"
      BY <1>1, <3>1 DEF Call
    <3> QED BY <1>3, <3>2 DEF Holds, At
  <2>8. CASE Exit(c)
    <3>1. PICK x : call' = [call EXCEPT ![c].room = x, ![c].pc = "count"]
      BY <2>1, <2>8 DEF Exit
    <3>2. call'[c].pc = "count"
      BY <1>1, <3>1 DEF Call
    <3> QED BY <1>3, <3>2 DEF Holds, At
  <2> QED
    BY <2>1, <2>2, <2>3, <2>4, <2>5, <2>6, <2>7, <2>8 DEF Step, Enter, Count, Emit
<1> QED BY <1>2, <1>3

\* No other step makes or changes a copy.
LEMMA NextCopies ==
  ASSUME TypeInv, [Next]_vars, NEW d, NEW p, Holds(d, p)'
  PROVE  CopyFrom(d, p)
<1>1. ASSUME NEW c \in Calls, NEW via \in Sockets \union {None}, NEW u \in Users,
             Request(c, via, u)
      PROVE  CopyFrom(d, p)
  <2>1. \E k : k.pc \notin {"load", "write"} /\ Ask(c, k)
    BY <1>1 DEF Request, AskJoin, AskLeave, AskUpdate, AskModerate, AskKick, Blank
  <2> QED BY <2>1 DEF Ask, Begin, CopyFrom, Holds, At
<1>2. ASSUME NEW s \in Sockets, Drop(s) PROVE CopyFrom(d, p)
  BY <1>2 DEF Drop, Begin, Blank, CopyFrom, Holds, At
<1>3. ASSUME \/ \E s \in Sockets : Connect(s)
             \/ \E r \in Endable : EndRoom(r)
             \/ UNCHANGED vars
      PROVE  CopyFrom(d, p)
  BY <1>3 DEF Connect, EndRoom, vars, CopyFrom, Holds, At
<1>4. CASE Crash
  BY <1>4 DEF Crash, Holds, At
<1> QED BY <1>1, <1>2, <1>3, <1>4, StepCopies DEF Next

\* Whatever step is taken, a row changes only by the write of a copy.
LEMMA NextRows ==
  ASSUME TypeInv, [Next]_vars, NEW p \in DOMAIN row
  PROVE  RowFrom(p)
<1>1. CASE row' = row
  BY <1>1 DEF RowFrom
<1>2. ASSUME NEW c \in CallIds, Write(c) PROVE RowFrom(p)
  BY <1>2 DEF Write, At, RowFrom
<1>3. ASSUME NEW c \in CallIds, Insert(c) PROVE RowFrom(p)
  BY <1>3 DEF Insert, RowFrom
<1>4. \/ row' = row
      \/ \E c \in CallIds : Write(c) \/ Insert(c)
  <2>1. ASSUME NEW c \in Calls, NEW via \in Sockets \union {None}, NEW u \in Users,
               Request(c, via, u)
        PROVE  row' = row
    BY <2>1 DEF Request, AskJoin, AskLeave, AskUpdate, AskModerate, AskKick, Ask
  <2>2. ASSUME NEW c \in CallIds, Step(c)
        PROVE  row' = row \/ Write(c) \/ Insert(c)
    BY <2>2 DEF Step, CheckRoom, Peek, Find, FindNothing, Load, Enter, Exit, Count, Emit
  <2> QED BY <2>1, <2>2 DEF Next, Connect, Drop, EndRoom, Crash, vars
<1> QED BY <1>1, <1>2, <1>3, <1>4

-----------------------------------------------------------------------------
(* Action properties.                                                      *)

\* Once no open copy of a closed row is in flight, the row is closed for good.
THEOREM LeftIsFinal == Spec => LeftStaysLeft
<1>1. ASSUME TypeInv, [Next]_vars, NEW p \in Pids, Settled(p)
      PROVE  Settled(p)'
  <2>1. RowFrom(p)
    BY <1>1, NextRows DEF Settled
  <2>2. row'[p].left
    <3>1. ASSUME NEW c \in DOMAIN call, call[c].pc = "write", call[c].pid = p
          PROVE  Merge(call[c].ent, call[c].cols, row[p]).left
      <4>1. call[c].ent.left
        BY <1>1, <3>1 DEF Settled, Holds, At
      <4>2. row[p] \in Row /\ row[p].left
        BY <1>1 DEF Settled, TypeInv, TypeOK
      <4> QED BY <4>1, <4>2 DEF Merge, Row
    <3> QED BY <1>1, <2>1, <3>1 DEF RowFrom, Settled
  <2>3. ASSUME NEW d \in DOMAIN call', Holds(d, p)' PROVE call'[d].ent.left
    <3>1. CopyFrom(d, p)
      BY <1>1, <2>3, NextCopies
    <3>2. p \notin Matches(call[d])
      BY <1>1 DEF Settled, Matches, Active
    <3> QED BY <1>1, <3>1, <3>2 DEF CopyFrom, Settled, Holds, At
  <2> QED BY <2>1, <2>2, <2>3 DEF Settled, RowFrom
<1>2. TypeInv /\ [Next]_vars => [\A p \in Pids : Settled(p) => Settled(p)']_vars
  BY <1>1
<1> QED BY <1>2, Typed, PTL DEF Spec, TypeInv, LeftStaysLeft

\* Joining again never switches a setting on.
LEMMA RejoinedOn ==
  ASSUME NEW k, NEW e \in Row
  PROVE  Rejoined(k, e).on \subseteq e.on
BY DEF Rejoined, Row

\* What is off, and off in every copy, goes on only by a request that asks for it.
THEOREM OffIsKept == Spec => OffUntilAskedOn
<1> DEFINE Asked(p, x) == \E c \in DOMAIN call :
                            /\ call[c].pc = "find" /\ call[c].op \in {"update", "moderate"}
                            /\ call[c].pid = p /\ x \in call[c].want.on
<1>1. ASSUME TypeInv, [Next]_vars, NEW p \in Pids, NEW x \in Settings,
             Silent(p, x), ~Asked(p, x)
      PROVE  Silent(p, x)'
  <2>1. RowFrom(p)
    BY <1>1, NextRows DEF Silent
  <2>2. row[p] \in Row /\ x \notin row[p].on
    BY <1>1 DEF Silent, TypeInv, TypeOK
  <2>3. x \notin row'[p].on
    <3>1. ASSUME NEW c \in DOMAIN call, call[c].pc = "write", call[c].pid = p
          PROVE  x \notin Merge(call[c].ent, call[c].cols, row[p]).on
      <4>1. x \notin call[c].ent.on
        BY <1>1, <3>1 DEF Silent, Holds, At
      <4> QED BY <2>2, <4>1 DEF Merge, Row
    <3> QED BY <2>1, <2>2, <3>1 DEF RowFrom
  <2>4. ASSUME NEW d \in DOMAIN call', Holds(d, p)' PROVE x \notin call'[d].ent.on
    <3>1. CopyFrom(d, p)
      BY <1>1, <2>4, NextCopies
    <3>2. CASE Holds(d, p) /\ call'[d].ent = call[d].ent
      BY <1>1, <3>2 DEF Silent, Holds, At
    <3>3. CASE /\ At(d, "find") /\ p \in Matches(call[d])
               /\ call'[d].ent = Edited(call[d], row[p])
      <4>1. call[d] \in Call
        BY <1>1, <3>3 DEF At, TypeInv, TypeOK
      <4>2. CASE call[d].op = "join"
        BY <2>2, <3>3, <4>2, RejoinedOn DEF Edited
      <4>3. CASE call[d].op \in {"update", "moderate"}
        <5>1. call[d].pid = p
          BY <3>3, <4>3 DEF Matches
        <5>2. x \notin call[d].want.on
          BY <1>1, <3>3, <4>3, <5>1 DEF At
        <5> QED BY <2>2, <3>3, <4>3, <5>2 DEF Edited, Toggled, Row
      <4>4. CASE call[d].op \in {"leave", "kick", "drop"}
        BY <2>2, <3>3, <4>4 DEF Edited, Gone, Row
      <4> QED BY <4>1, <4>2, <4>3, <4>4 DEF Call, Ops, RequestOps
    <3> QED BY <3>1, <3>2, <3>3 DEF CopyFrom
  <2> QED BY <2>1, <2>3, <2>4 DEF Silent, RowFrom
<1>2. TypeInv /\ [Next]_vars =>
        [\A p \in Pids, x \in Settings :
           Silent(p, x) /\ ~Silent(p, x)' => Asked(p, x)]_vars
  BY <1>1
<1> QED BY <1>2, Typed, PTL DEF Spec, TypeInv, OffUntilAskedOn
-----------------------------------------------------------------------------
(* Theorems about who gets into a room and who may change a row there.     *)

-----------------------------------------------------------------------------
(* What one step can do to a handler and to the owner of a row.            *)

\* The connection of a request is the user's own.
Owns(u, s) == s # None => UserOf[s] = u

\* A socket that a request, a copy or a row of u's carries is u's own, or u has
\* named it over HTTP.
Named(u, s) == s \in Sockets /\ UserOf[s] # u => <<u, s>> \in claimed

\* d was in flight before the step, for the same caller and operation; a join
\* passes its check only into an active room, and does nothing after "enter".
Continues(d) ==
  /\ d \in DOMAIN call
  /\ call'[d].op = call[d].op /\ call'[d].via = call[d].via
  /\ call'[d].user = call[d].user /\ call'[d].sock = call[d].sock
  /\ call[d].op = "join" =>
       /\ call'[d].room = call[d].room
       /\ call'[d].pc # call[d].pc =>
            /\ call[d].pc # "enter"
            /\ call[d].pc = "check" => /\ status[call[d].room] = "active"
                                       /\ Admitted(call[d].room, call[d].user)

\* d starts with the step.
Starts(d) ==
  /\ call'[d].pc \in {"check", "peek", "find"}
  /\ call'[d].op = "join" => call'[d].pc = "check"
  /\ call'[d].op = "moderate" => call'[d].sock = "unset"
  /\ Owns(call'[d].user, call'[d].via) /\ Named(call[d].user, call[d].sock)'

\* A step of handler c leaves its identity alone.
LEMMA StepContinues ==
  ASSUME TypeInv, NEW c \in CallIds, Step(c), NEW d \in DOMAIN call'
  PROVE  Continues(d)
<1>1. /\ c \in DOMAIN call /\ call \in [DOMAIN call -> Call] /\ call[c] \in Call
      /\ ShapeOf(call[c], DOMAIN row)
      /\ d # c => d \in DOMAIN call /\ call'[d] = call[d]
  BY OthersStay DEF TypeInv, TypeOK, Shape
<1>2. CASE d # c
  BY <1>1, <1>2 DEF Continues
<1>3. CASE d = c
  <2>1. ~End(c)
    BY <1>3 DEF End
  <2>2. CASE CheckRoom(c)
    BY <1>1, <1>3, <2>1, <2>2 DEF CheckRoom, Goto, Call, At, Continues
  <2>3. CASE FindNothing(c)
    BY <1>1, <1>3, <2>1, <2>3 DEF FindNothing, Goto, Call, At, Continues
  <2>4. CASE Peek(c)
    <3>1. PICK x : call' = [call EXCEPT ![c].peek = x, ![c].pc = "find"]
      BY <2>1, <2>4 DEF Peek
    <3> QED BY <1>1, <1>3, <2>4, <3>1 DEF Peek, Call, At, Continues, ShapeOf
  <2>5. CASE Find(c)
    <3>1. PICK p, e : call' = [call EXCEPT ![c].pid = p, ![c].pc = "load", ![c].ent = e]
      BY <2>5 DEF Find
    <3> QED BY <1>1, <1>3, <2>5, <3>1 DEF Find, Call, At, Continues
  <2>6. CASE Load(c)
    <3>1. PICK x : call' = [call EXCEPT ![c].cols = x, ![c].pc = "write"]
      BY <2>6 DEF Load
    <3> QED BY <1>1, <1>3, <2>6, <3>1 DEF Load, Call, At, Continues
  <2>7. CASE Write(c)
    <3>1. PICK x : call' = [call EXCEPT ![c].pc = x]
      BY <2>1, <2>7 DEF Write, AfterSave, Goto
    <3> QED BY <1>1, <1>3, <2>7, <3>1 DEF Write, Call, At, Continues
  <2>8. CASE Insert(c)
    <3>1. PICK p : call' = [call EXCEPT ![c].pid = p, ![c].pc = "enter"]
      BY <2>1, <2>8 DEF Insert
    <3> QED BY <1>1, <1>3, <2>8, <3>1 DEF Insert, Call, At, Continues
  <2>9. CASE Exit(c)
    <3>1. PICK x : call' = [call EXCEPT ![c].room = x, ![c].pc = "count"]
      BY <2>1, <2>9 DEF Exit
    <3>2. call[c].op # "join"
      BY <1>1, <2>9 DEF Exit, At, ShapeOf
    <3> QED BY <1>1, <1>3, <2>9, <3>1, <3>2 DEF Exit, Call, At, Continues
  <2> QED
    BY <2>1, <2>2, <2>3, <2>4, <2>5, <2>6, <2>7, <2>8, <2>9
       DEF Step, Enter, Count, Emit
<1> QED BY <1>2, <1>3

\* Every handler in flight after a step was there before it, or starts with it.
LEMMA NextHandlers ==
  ASSUME TypeInv, [Next]_vars, NEW d \in DOMAIN call'
  PROVE  Continues(d) \/ Starts(d)
<1>1. ASSUME NEW c \in Calls, NEW via \in Sockets \union {None}, NEW u \in Users,
             Request(c, via, u)
      PROVE  Continues(d) \/ Starts(d)
  <2>1. PICK k : /\ Ask(c, k) /\ k.via = via /\ k.user = u
                 /\ k.pc \in {"check", "peek", "find"}
                 /\ k.op = "join" => k.pc = "check"
                 /\ k.op = "moderate" => k.sock = "unset"
                 /\ via # None => k.sock \in {via, "unset"}
    <3>1. ASSUME NEW r, NEW s, NEW role, AskJoin(c, via, u, r, s, role)
          PROVE  \E k : /\ Ask(c, k) /\ k.via = via /\ k.user = u
                        /\ k.op = "join" /\ k.pc = "check"
                        /\ via # None => k.sock = via
      <4> DEFINE k == [Blank("join", via, u, "check") EXCEPT
                         !.room = r, !.sock = s, !.role = role]
      <4>1. k.via = via /\ k.user = u /\ k.op = "join" /\ k.pc = "check" /\ k.sock = s
        BY DEF Blank
      <4>2. Ask(c, k) /\ (via # None => s = via)
        BY <3>1 DEF AskJoin
      <4> HIDE DEF k
      <4> QED BY <4>1, <4>2
    <3>2. ASSUME NEW p, NEW want, NEW s, AskUpdate(c, via, u, p, want, s)
          PROVE  \E k : /\ Ask(c, k) /\ k.via = via /\ k.user = u
                        /\ k.op = "update" /\ k.pc = "find"
                        /\ via # None => k.sock = "unset"
      <4> DEFINE k == [Blank("update", via, u, "find") EXCEPT
                         !.pid = p, !.want = want, !.sock = s]
      <4>1. k.via = via /\ k.user = u /\ k.op = "update" /\ k.pc = "find" /\ k.sock = s
        BY DEF Blank
      <4>2. Ask(c, k) /\ (via # None => s = "unset")
        BY <3>2 DEF AskUpdate
      <4> HIDE DEF k
      <4> QED BY <4>1, <4>2
    <3>3. ASSUME NEW p, NEW op \in {"leave", "kick"}, NEW pc \in {"peek", "find"},
                 Ask(c, [Blank(op, via, u, pc) EXCEPT !.pid = p])
          PROVE  \E k : /\ Ask(c, k) /\ k.via = via /\ k.user = u
                        /\ k.op \in {"leave", "kick"}
                        /\ k.pc \in {"peek", "find"} /\ k.sock = "unset"
      <4> DEFINE k == [Blank(op, via, u, pc) EXCEPT !.pid = p]
      <4>1. k.via = via /\ k.user = u /\ k.op = op /\ k.pc = pc /\ k.sock = "unset"
        BY DEF Blank
      <4>2. Ask(c, k)
        BY <3>3
      <4> HIDE DEF k
      <4> QED BY <4>1, <4>2
    <3>4. ASSUME NEW p, NEW want, AskModerate(c, via, u, p, want)
          PROVE  \E k : /\ Ask(c, k) /\ k.via = via /\ k.user = u
                        /\ k.op = "moderate" /\ k.pc = "find" /\ k.sock = "unset"
      <4> DEFINE k == [Blank("moderate", via, u, "find") EXCEPT !.pid = p, !.want = want]
      <4>1. /\ k.via = via /\ k.user = u /\ k.op = "moderate" /\ k.pc = "find"
            /\ k.sock = "unset"
        BY DEF Blank
      <4>2. Ask(c, k)
        BY <3>4 DEF AskModerate
      <4> HIDE DEF k
      <4> QED BY <4>1, <4>2
    <3>5. ASSUME NEW p, AskLeave(c, via, u, p) \/ AskKick(c, via, u, p)
          PROVE  \E k : /\ Ask(c, k) /\ k.via = via /\ k.user = u
                        /\ k.op \in {"leave", "kick"}
                        /\ k.pc \in {"peek", "find"} /\ k.sock = "unset"
      BY <3>3, <3>5 DEF AskLeave, AskKick
    <3> QED BY <1>1, <3>1, <3>2, <3>4, <3>5 DEF Request
  <2>2. Owns(u, via)
    BY <2>1 DEF Ask, Caller, Owns
  <2>3. Named(u, k.sock)'
    <3>1. via = None => <<u, k.sock>> \in claimed' \/ ~Claims(k)
      BY <2>1 DEF Ask
    <3> QED BY <2>1, <2>2, <3>1, PresenceAssumption DEF Named, Owns, Claims
  <2>4. d \in DOMAIN call \union {c} /\ call'[d] = IF d = c THEN k ELSE call[d]
    BY <2>1 DEF Ask, Begin
  <2> QED BY <2>1, <2>2, <2>3, <2>4 DEF Continues, Starts
<1>2. ASSUME NEW s \in Sockets, Drop(s)
      PROVE  Continues(d) \/ Starts(d)
  <2>1. /\ call' = [e \in DOMAIN call \union {s} |->
                     IF e = s THEN Blank("drop", s, UserOf[s], "find") ELSE call[e]]
        /\ claimed' = claimed
    BY <1>2 DEF Drop, Begin
  <2>2. CASE d = s
    <3>1. /\ call'[d].op = "drop" /\ call'[d].pc = "find" /\ call'[d].via = s
          /\ call'[d].user = UserOf[s] /\ call'[d].sock = "unset"
      BY <2>1, <2>2 DEF Blank
    <3> QED BY <3>1, PresenceAssumption DEF Starts, Owns, Named
  <2>3. CASE d # s
    BY <2>1, <2>3 DEF Continues
  <2> QED BY <2>2, <2>3
<1>3. ASSUME \/ \E s \in Sockets : Connect(s)
             \/ \E r \in Endable : EndRoom(r)
             \/ UNCHANGED vars
      PROVE  Continues(d)
  BY <1>3 DEF Connect, EndRoom, vars, Continues
<1>4. CASE Crash
  BY <1>4 DEF Crash
<1> QED BY <1>1, <1>2, <1>3, <1>4, StepContinues DEF Next

\* A row never changes its room or its user.
LEMMA NextPair ==
  ASSUME TypeInv, [Next]_vars, NEW p \in DOMAIN row
  PROVE  /\ p \in DOMAIN row'
         /\ row'[p].room = row[p].room /\ row'[p].user = row[p].user
<1>1. RowFrom(p)
  BY NextRows
<1>2. CASE row'[p] = row[p]
  BY <1>1, <1>2 DEF RowFrom
<1>3. ASSUME NEW c \in DOMAIN call, call[c].pc = "write", call[c].pid = p,
             row'[p] = Merge(call[c].ent, call[c].cols, row[p])
      PROVE  row'[p].room = row[p].room /\ row'[p].user = row[p].user
  <2>1. call[c].ent \in Row /\ row[p] \in Row
    BY <1>3 DEF TypeInv, TypeOK, Shape, ShapeOf
  <2> QED BY <1>3, <2>1, MergeKeepsPair
<1> QED BY <1>1, <1>2, <1>3 DEF RowFrom

\* A row that a step adds is a join's, for the pair it passed the check with.
LEMMA NextNewRow ==
  ASSUME TypeInv, [Next]_vars, NEW p \in DOMAIN row', p \notin DOMAIN row
  PROVE  \E c \in DOMAIN call : /\ call[c].pc = "insert" /\ call[c].op = "join"
                                /\ row'[p] = NewRow(call[c])
<1>1. ASSUME NEW c \in CallIds, Insert(c)
      PROVE  /\ c \in DOMAIN call /\ call[c].pc = "insert" /\ call[c].op = "join"
             /\ row'[p] = NewRow(call[c])
  <2>1. c \in DOMAIN call /\ call[c].pc = "insert" /\ call[c].op = "join"
    BY <1>1 DEF Insert, At, TypeInv, Shape, ShapeOf
  <2>2. PICK q \in Pids \ DOMAIN row :
          row' = [x \in DOMAIN row \union {q} |->
                   IF x = q THEN NewRow(call[c]) ELSE row[x]]
    BY <1>1 DEF Insert
  <2> QED BY <2>1, <2>2
<1>2. \E c \in CallIds : Insert(c)
  <2>1. ASSUME NEW c \in Calls, NEW via \in Sockets \union {None}, NEW u \in Users,
               Request(c, via, u)
        PROVE  row' = row
    BY <2>1 DEF Request, AskJoin, AskLeave, AskUpdate, AskModerate, AskKick, Ask
  <2>2. ASSUME NEW c \in CallIds, Step(c), ~Insert(c)
        PROVE  DOMAIN row' = DOMAIN row
    BY <2>2 DEF Step, CheckRoom, Peek, Find, FindNothing, Load, Write,
                Enter, Exit, Count, Emit
  <2> QED BY <2>1, <2>2 DEF Next, Connect, Drop, EndRoom, Crash, vars
<1> QED BY <1>1, <1>2

-----------------------------------------------------------------------------
(* Who may change a row.                                                   *)

\* Handler k acts for the owner of row p, or for the host of its room, or closes it
\* for a socket that the owner has named.
ActsFor(k, p) ==
  \/ k.user = row[p].user
  \/ k.user = HostOf[row[p].room] /\ k.op \in {"moderate", "kick"}
  \/ k.op = "drop" /\ <<row[p].user, k.via>> \in claimed

\* What a handler carries once it has read its row: it may act on it, and the
\* socket in its copy is the row owner's or named by the owner (a disconnect finds
\* its row by socket).
AuthInv ==
  /\ \A p \in DOMAIN row : Named(row[p].user, row[p].sock)
  /\ \A c \in DOMAIN call :
       /\ Owns(call[c].user, call[c].via) /\ Named(call[c].user, call[c].sock)
       /\ call[c].op = "moderate" => call[c].sock = "unset"
       /\ \A p \in DOMAIN row : Holds(c, p) =>
            ActsFor(call[c], p) /\ Named(row[p].user, call[c].ent.sock)

\* What was named stays named.
LEMMA ClaimsStay ==
  ASSUME [Next]_vars
  PROVE  claimed \subseteq claimed'
<1>1. ASSUME NEW c \in Calls, NEW via \in Sockets \union {None}, NEW u \in Users,
             Request(c, via, u)
      PROVE  claimed \subseteq claimed'
  BY <1>1 DEF Request, AskJoin, AskLeave, AskUpdate, AskModerate, AskKick, Ask
<1>2. ASSUME NEW c \in CallIds, Step(c) PROVE claimed' = claimed
  BY <1>2 DEF Step, CheckRoom, Peek, Find, FindNothing, Load, Write, Insert,
              Enter, Exit, Count, Emit
<1> QED BY <1>1, <1>2 DEF Next, Connect, Drop, EndRoom, Crash, vars

\* A row that a handler's findOne may return is one the handler may change, and the
\* edit leaves a socket of the owner's, or named by the owner, in the copy.
LEMMA MatchesAuthorised ==
  ASSUME TypeInv, AuthInv, NEW c \in DOMAIN call, NEW p \in Matches(call[c])
  PROVE  ActsFor(call[c], p) /\ Named(row[p].user, Edited(call[c], row[p]).sock)
<1> DEFINE k == call[c]
<1>1. /\ k \in Call /\ ShapeOf(k, DOMAIN row)
      /\ p \in DOMAIN row /\ row[p] \in Row
      /\ Named(row[p].user, row[p].sock)
      /\ Owns(k.user, k.via) /\ Named(k.user, k.sock)
      /\ k.op = "moderate" => k.sock = "unset"
  BY DEF TypeInv, TypeOK, Shape, AuthInv, Matches
<1>2. CASE k.op = "join"
  <2>1. row[p].user = k.user
    BY <1>2 DEF Matches, PairOf
  <2>2. Rejoined(k, row[p]).sock \in {k.sock, row[p].sock}
    BY <1>1 DEF Rejoined, Row
  <2> QED BY <1>1, <1>2, <2>1, <2>2 DEF ActsFor, Edited, Named
<1>3. CASE k.op \in {"update", "moderate"}
  <2>1. Toggled(k, row[p]).sock = IF k.sock = "unset" THEN row[p].sock ELSE k.sock
    BY <1>1 DEF Toggled, Row
  <2>2. CASE k.op = "update"
    <3>1. row[p].user = k.user
      BY <2>2 DEF Matches
    <3> QED BY <1>1, <2>1, <2>2, <3>1 DEF ActsFor, Edited, Named
  <2>3. CASE k.op = "moderate"
    <3>1. HostOf[row[p].room] = k.user
      BY <2>3 DEF Matches
    <3> QED BY <1>1, <2>1, <2>3, <3>1 DEF ActsFor, Edited, Named
  <2> QED BY <1>3, <2>2, <2>3
<1>4. CASE k.op \in {"leave", "kick", "drop"}
  <2>1. Edited(k, row[p]).sock = None
    BY <1>1, <1>4 DEF Edited, Gone, Row
  <2>2. k.op = "leave" => row[p].user = k.user
    BY DEF Matches
  <2>3. k.op = "kick" => HostOf[row[p].room] = k.user
    BY DEF Matches
  <2>4. k.op = "drop" => row[p].user = k.user \/ <<row[p].user, k.via>> \in claimed
    <3> SUFFICES ASSUME k.op = "drop"
                 PROVE  row[p].user = k.user \/ <<row[p].user, k.via>> \in claimed
      OBVIOUS
    <3>1. row[p].sock = k.via /\ k.via \in Sockets
      BY <1>1 DEF Matches, ShapeOf
    <3> QED BY <1>1, <3>1, PresenceAssumption DEF Owns, Named
  <2> QED BY <1>4, <2>1, <2>2, <2>3, <2>4 DEF ActsFor, Named
<1> QED BY <1>1, <1>2, <1>3, <1>4 DEF Call, Ops, RequestOps

\* Every step keeps AuthInv.
LEMMA AuthNext ==
  ASSUME TypeInv, TypeInv', AuthInv, [Next]_vars
  PROVE  AuthInv'
<1>1. ASSUME NEW p \in DOMAIN row' PROVE Named(row[p].user, row[p].sock)'
  <2>1. CASE p \in DOMAIN row
    <3>1. CASE row'[p] = row[p]
      BY <2>1, <3>1, ClaimsStay DEF AuthInv, Named
    <3>2. ASSUME NEW c \in DOMAIN call, call[c].pc = "write", call[c].pid = p,
                 row'[p] = Merge(call[c].ent, call[c].cols, row[p])
          PROVE  Named(row[p].user, row[p].sock)'
      <4>1. call[c].ent \in Row /\ row[p] \in Row
        BY <2>1, <3>2 DEF TypeInv, TypeOK, Shape, ShapeOf
      <4>2. /\ Named(row[p].user, call[c].ent.sock)
            /\ Named(row[p].user, row[p].sock)
        BY <2>1, <3>2 DEF AuthInv, Holds, At
      <4>3. row'[p].user = row[p].user
        BY <2>1, NextPair
      <4>4. row'[p].sock \in {call[c].ent.sock, row[p].sock}
        BY <3>2, <4>1 DEF Merge, Row
      <4> QED BY <4>2, <4>3, <4>4, ClaimsStay DEF Named
    <3> QED BY <2>1, <3>1, <3>2, NextRows DEF RowFrom
  <2>2. CASE p \notin DOMAIN row
    <3>1. PICK c \in DOMAIN call : row'[p] = NewRow(call[c])
      BY <2>2, NextNewRow
    <3>2. row'[p].user = call[c].user /\ row'[p].sock = call[c].sock
      BY <3>1 DEF NewRow
    <3> QED BY <3>2, ClaimsStay DEF AuthInv, Named
  <2> QED BY <2>1, <2>2
<1>2. ASSUME NEW d \in DOMAIN call'
      PROVE  /\ Owns(call'[d].user, call'[d].via) /\ Named(call[d].user, call[d].sock)'
             /\ call'[d].op = "moderate" => call'[d].sock = "unset"
  BY <1>2, NextHandlers, ClaimsStay DEF Continues, Starts, AuthInv, Named
<1>3. ASSUME NEW d \in DOMAIN call', NEW p \in DOMAIN row', Holds(d, p)'
      PROVE  ActsFor(call[d], p)' /\ Named(row[p].user, call[d].ent.sock)'
  <2>1. CopyFrom(d, p)
    BY <1>3, NextCopies
  <2>2. p \in DOMAIN row /\ d \in DOMAIN call
    <3>1. CASE Holds(d, p)
      BY <3>1 DEF Holds, At, TypeInv, Shape, ShapeOf
    <3>2. CASE At(d, "find") /\ p \in Matches(call[d])
      BY <3>2 DEF At, Matches
    <3> QED BY <2>1, <3>1, <3>2 DEF CopyFrom
  <2>3. ActsFor(call[d], p) /\ Named(row[p].user, call'[d].ent.sock)
    BY <2>1, <2>2, MatchesAuthorised DEF CopyFrom, AuthInv
  <2>4. row'[p].room = row[p].room /\ row'[p].user = row[p].user
    BY <2>2, NextPair
  <2>5. /\ call'[d].user = call[d].user /\ call'[d].op = call[d].op
        /\ call'[d].via = call[d].via
    BY <1>3, NextHandlers DEF Continues, Starts, Holds, At
  <2> QED BY <2>3, <2>4, <2>5, ClaimsStay DEF ActsFor, Named
<1> QED BY <1>1, <1>2, <1>3 DEF AuthInv

\* A row changes only by a handler of its user, of a socket of the user's, or of the
\* host of its room, or by the disconnect of a socket that its user has named over HTTP.
THEOREM RowsChangeByTheirOwners == Spec => ChangesAreAuthorised
<1>1. Init => AuthInv
  BY DEF Init, AuthInv
<1>2. TypeInv /\ TypeInv' /\ AuthInv /\ [Next]_vars => AuthInv'
  BY AuthNext
<1>3. ASSUME TypeInv, AuthInv, [Next]_vars, NEW p \in DOMAIN row, row'[p] # row[p]
      PROVE  \E c \in DOMAIN call :
               /\ call[c].pc = "write" /\ call[c].pid = p
               /\ \/ call[c].user = row[p].user
                  \/ /\ call[c].user = HostOf[row[p].room]
                     /\ call[c].op \in {"moderate", "kick"}
                  \/ call[c].op = "drop" /\ <<row[p].user, call[c].via>> \in claimed
  BY <1>3, NextRows DEF RowFrom, AuthInv, ActsFor, Holds, At
<1>4. TypeInv /\ AuthInv /\ [Next]_vars =>
        [\A p \in DOMAIN row : row'[p] # row[p] =>
           \E c \in DOMAIN call :
             /\ call[c].pc = "write" /\ call[c].pid = p
             /\ \/ call[c].user = row[p].user
                \/ /\ call[c].user = HostOf[row[p].room]
                   /\ call[c].op \in {"moderate", "kick"}
                \/ call[c].op = "drop" /\ <<row[p].user, call[c].via>> \in claimed]_vars
  BY <1>3
<1>5. Spec => []TypeInv
  BY Typed DEF TypeInv
<1>6. Spec => []AuthInv
  BY <1>1, <1>2, <1>5, PTL DEF Spec
<1> QED BY <1>4, <1>5, <1>6, PTL DEF Spec, ChangesAreAuthorised

-----------------------------------------------------------------------------
(* The end of a room.                                                      *)

\* A room that has ended and drained stays without active participants.
THEOREM EndedIsFinal == Spec => EndedRoomStaysDrained
<1>1. ASSUME TypeInv, [Next]_vars, NEW r \in Rooms, Drained(r)
      PROVE  Drained(r)'
  <2>1. status'[r] = "ended"
    <3>1. status[r] = "ended" /\ status \in [Rooms -> {"active", "ended"}]
      BY <1>1 DEF Drained, TypeInv, TypeOK
    <3>2. ASSUME NEW c \in Calls, NEW via \in Sockets \union {None}, NEW u \in Users,
                 Request(c, via, u)
          PROVE  status' = status
      BY <3>2 DEF Request, AskJoin, AskLeave, AskUpdate, AskModerate, AskKick, Ask
    <3>3. ASSUME NEW c \in CallIds, Step(c) PROVE status' = status
      BY <3>3 DEF Step, CheckRoom, Peek, Find, FindNothing, Load, Write, Insert,
                  Enter, Exit, Count, Emit
    <3>4. ASSUME NEW q \in Endable, EndRoom(q) PROVE status'[r] = "ended"
      BY <3>1, <3>4 DEF EndRoom
    <3> QED BY <1>1, <3>1, <3>2, <3>3, <3>4 DEF Next, Connect, Drop, Crash, vars
  <2>2. ASSUME NEW p \in DOMAIN row', row'[p].room = r
        PROVE  /\ p \in DOMAIN row /\ row[p].room = r /\ row[p].left
               /\ row'[p].left
    <3>1. p \in DOMAIN row
      <4> SUFFICES ASSUME p \notin DOMAIN row PROVE FALSE
        OBVIOUS
      <4>1. PICK c \in DOMAIN call : /\ call[c].pc = "insert" /\ call[c].op = "join"
                                     /\ row'[p] = NewRow(call[c])
        BY <1>1, NextNewRow
      <4>2. call[c].room = r
        BY <2>2, <4>1 DEF NewRow
      <4> QED BY <1>1, <4>1, <4>2 DEF Drained
    <3>2. row[p].room = r /\ row[p].left /\ row[p] \in Row
      BY <1>1, <2>2, <3>1, NextPair DEF Drained, TypeInv, TypeOK
    <3>3. ASSUME NEW c \in DOMAIN call, call[c].pc = "write", call[c].pid = p
          PROVE  Merge(call[c].ent, call[c].cols, row[p]).left
      <4>1. call[c].ent.left
        BY <1>1, <3>1, <3>2, <3>3 DEF Drained, Holds, At
      <4> QED BY <3>2, <4>1 DEF Merge, Row
    <3> QED BY <1>1, <3>1, <3>2, <3>3, NextRows DEF RowFrom
  <2>3. ASSUME NEW p \in DOMAIN row', row'[p].room = r, NEW d \in DOMAIN call', Holds(d, p)'
        PROVE  call'[d].ent.left
    <3>1. CopyFrom(d, p)
      BY <1>1, <2>3, NextCopies
    <3>2. p \in DOMAIN row /\ row[p].room = r /\ row[p].left
      BY <2>2, <2>3
    <3> QED BY <1>1, <3>1, <3>2 DEF CopyFrom, Drained, Matches, Active, Holds, At
  <2>4. ASSUME NEW d \in DOMAIN call', call'[d].op = "join", call'[d].room = r
        PROVE  call'[d].pc \in {"check", "enter"}
    <3>1. CASE Starts(d)
      BY <2>4, <3>1 DEF Starts
    <3>2. CASE Continues(d)
      <4>1. /\ d \in DOMAIN call /\ call[d].room = r /\ call[d].op = "join"
            /\ call[d].pc \in {"check", "enter"} /\ status[r] # "active"
        BY <1>1, <2>4, <3>2 DEF Continues, Drained
      <4> QED BY <3>2, <4>1 DEF Continues
    <3> QED BY <1>1, <3>1, <3>2, NextHandlers
  <2> QED BY <2>1, <2>2, <2>3, <2>4 DEF Drained
<1>2. TypeInv /\ [Next]_vars => [\A r \in Rooms : Drained(r) => Drained(r)']_vars
  BY <1>1
<1> QED BY <1>2, Typed, PTL DEF Spec, TypeInv, EndedRoomStaysDrained

-----------------------------------------------------------------------------
(* Who hears a room.                                                       *)

\* OnlyAdmittedListen, strengthened with what a join carries after its check: its
\* user is admitted, its connection is the user's, and the row it has found or
\* inserted is the user's own in the room.
AdmitInv ==
  /\ OnlyAdmittedListen
  /\ \A c \in DOMAIN call : Owns(call[c].user, call[c].via)
  /\ \A c \in DOMAIN call : call[c].op = "join" /\ call[c].pc # "check" =>
       /\ Admitted(call[c].room, call[c].user)
       /\ call[c].pc \in {"load", "write", "enter"} =>
            PairOf(call[c].pid) = <<call[c].room, call[c].user>>

\* The join that takes a step binds itself to a row of its own pair.
LEMMA JoinPair ==
  ASSUME TypeInv, AdmitInv, NEW c \in CallIds, Step(c), c \in DOMAIN call',
         call[c].op = "join", call'[c].pc \in {"load", "write", "enter"},
         [Next]_vars
  PROVE  PairOf(call[c].pid)' = <<call[c].room, call[c].user>>
<1>1. /\ c \in DOMAIN call /\ call \in [DOMAIN call -> Call] /\ call[c] \in Call
      /\ ShapeOf(call[c], DOMAIN row)
  BY OthersStay DEF TypeInv, TypeOK, Shape
<1>2. ASSUME NEW p \in DOMAIN row, call'[c].pid = p,
             PairOf(p) = <<call[c].room, call[c].user>>
      PROVE  PairOf(call[c].pid)' = <<call[c].room, call[c].user>>
  BY <1>2, NextPair DEF PairOf
<1>3. CASE CheckRoom(c) \/ Peek(c) \/ FindNothing(c) \/ Enter(c) \/ Exit(c)
           \/ Count(c) \/ Emit(c)
  <2>1. CASE Peek(c) /\ ~End(c)
    <3>1. PICK x : call' = [call EXCEPT ![c].peek = x, ![c].pc = "find"]
      BY <2>1 DEF Peek
    <3> QED BY <1>1, <3>1 DEF Call
  <2>2. CASE Exit(c) /\ ~End(c)
    <3>1. PICK x : call' = [call EXCEPT ![c].room = x, ![c].pc = "count"]
      BY <2>2 DEF Exit
    <3> QED BY <1>1, <3>1 DEF Call
  <2>3. ~End(c)
    BY DEF End
  <2> QED BY <1>1, <1>3, <2>1, <2>2, <2>3
          DEF CheckRoom, FindNothing, Enter, Count, Emit, Goto, Call
<1>4. CASE Find(c)
  <2>1. PICK p \in Matches(call[c]) :
          \E e : call' = [call EXCEPT ![c].pid = p, ![c].pc = "load", ![c].ent = e]
    BY <1>4 DEF Find
  <2>2. call'[c].pid = p
    BY <1>1, <2>1 DEF Call
  <2> QED BY <1>2, <2>1, <2>2 DEF Matches, PairOf
<1>5. CASE Load(c)
  <2>1. PICK x : call' = [call EXCEPT ![c].cols = x, ![c].pc = "write"]
    BY <1>5 DEF Load
  <2>2. call'[c].pid = call[c].pid
    BY <1>1, <2>1 DEF Call
  <2> QED BY <1>1, <1>2, <1>5, <2>2 DEF Load, At, ShapeOf, AdmitInv
<1>6. CASE Write(c)
  <2>1. PICK x : call' = [call EXCEPT ![c].pc = x]
    BY <1>6 DEF Write, AfterSave, Goto, End
  <2>2. call'[c].pid = call[c].pid
    BY <1>1, <2>1 DEF Call
  <2> QED BY <1>1, <1>2, <1>6, <2>2 DEF Write, At, ShapeOf, AdmitInv
<1>7. CASE Insert(c)
  <2>1. PICK p \in Pids \ DOMAIN row :
          /\ row' = [q \in DOMAIN row \union {p} |->
                      IF q = p THEN NewRow(call[c]) ELSE row[q]]
          /\ call' = [call EXCEPT ![c].pid = p, ![c].pc = "enter"]
    <3>1. ~End(c)
      BY DEF End
    <3> QED BY <1>7, <3>1 DEF Insert
  <2>2. call'[c].pid = p
    BY <1>1, <2>1 DEF Call
  <2> QED BY <2>1, <2>2 DEF PairOf, NewRow
<1> QED BY <1>3, <1>4, <1>5, <1>6, <1>7 DEF Step

\* A step in which data and the rooms of the sockets stay, and connections only open.
LEMMA ListenersStay ==
  ASSUME TypeInv, AdmitInv, [Next]_vars, data' = data, inRoom' = inRoom,
         \A s \in Sockets : conn[s] = "open" => conn'[s] = "open"
  PROVE  OnlyAdmittedListen'
BY NextPair DEF AdmitInv, OnlyAdmittedListen, PairOf, Admitted

\* Every step keeps the listeners admitted: only "enter" adds one.
LEMMA ListenNext ==
  ASSUME TypeInv, AdmitInv, [Next]_vars
  PROVE  OnlyAdmittedListen'
<1>1. ASSUME NEW c \in Calls, NEW via \in Sockets \union {None}, NEW u \in Users,
             Request(c, via, u)
      PROVE  OnlyAdmittedListen'
  BY <1>1, ListenersStay
     DEF Request, AskJoin, AskLeave, AskUpdate, AskModerate, AskKick, Ask
<1>2. ASSUME NEW c \in CallIds, Step(c) PROVE OnlyAdmittedListen'
  <2>1. /\ c \in DOMAIN call /\ call[c] \in Call /\ ShapeOf(call[c], DOMAIN row)
        /\ Owns(call[c].user, call[c].via)
    BY <1>2, OthersStay DEF TypeInv, TypeOK, Shape, AdmitInv
  <2>2. CASE \/ CheckRoom(c) \/ Peek(c) \/ Find(c) \/ FindNothing(c) \/ Load(c)
             \/ Write(c) \/ Insert(c) \/ Emit(c)
    BY <2>2, ListenersStay
       DEF CheckRoom, Peek, Find, FindNothing, Load, Write, Insert, Emit
  <2>3. CASE Enter(c)
    <3> DEFINE s == call[c].via
    <3>1. /\ s \in Sockets /\ UserOf[s] = call[c].user
          /\ call[c].pid \in DOMAIN row /\ call[c].room \in Rooms
          /\ Admitted(call[c].room, call[c].user)
          /\ PairOf(call[c].pid) = <<call[c].room, call[c].user>>
      BY <2>1, <2>3, PresenceAssumption DEF Enter, At, ShapeOf, AdmitInv, Owns
    <3>2. /\ row' = row /\ conn' = conn
          /\ data' = [data EXCEPT ![s] = [slug |-> call[c].room, pid |-> call[c].pid]]
          /\ inRoom' = IF conn[s] = "open"
                       THEN [inRoom EXCEPT ![s] = @ \union {call[c].room}]
                       ELSE inRoom
      BY <2>3 DEF Enter
    <3>3. data \in [Sockets -> [slug : Rooms, pid : Pids] \union {None}]
          /\ inRoom \in [Sockets -> SUBSET Rooms]
      BY DEF TypeInv, TypeOK
    <3>4. ASSUME NEW t \in Sockets, NEW r \in inRoom'[t]
          PROVE  conn'[t] = "open" /\ Admitted(r, UserOf[t])
      <4>1. r \in inRoom[t] \/ (t = s /\ conn[s] = "open" /\ r = call[c].room)
        BY <3>2, <3>3, <3>4
      <4> QED BY <3>1, <3>2, <4>1 DEF AdmitInv, OnlyAdmittedListen
    <3>5. ASSUME NEW t \in Sockets, data'[t] # None
          PROVE  /\ data'[t].pid \in DOMAIN row
                 /\ PairOf(data'[t].pid) = <<data'[t].slug, UserOf[t]>>
      <4>1. CASE t = s
        <5>1. data'[t] = [slug |-> call[c].room, pid |-> call[c].pid]
          BY <3>2, <3>3, <4>1
        <5> QED BY <3>1, <4>1, <5>1
      <4>2. CASE t # s
        BY <3>2, <3>3, <3>5, <4>2 DEF AdmitInv, OnlyAdmittedListen
      <4> QED BY <4>1, <4>2
    <3> QED BY <3>2, <3>4, <3>5 DEF OnlyAdmittedListen, PairOf, Admitted
  <2>4. CASE Exit(c) \/ Count(c)
    <3>1. /\ row' = row /\ conn' = conn
          /\ \A t \in Sockets : inRoom'[t] \subseteq inRoom[t]
          /\ \A t \in Sockets : data'[t] \in {data[t], None}
      <4>1. /\ data \in [Sockets -> [slug : Rooms, pid : Pids] \union {None}]
            /\ inRoom \in [Sockets -> SUBSET Rooms]
        BY DEF TypeInv, TypeOK
      <4>2. CASE Exit(c)
        BY <4>1, <4>2 DEF Exit
      <4>3. CASE Count(c)
        BY <4>1, <4>3 DEF Count
      <4> QED BY <2>4, <4>2, <4>3
    <3> QED BY <3>1 DEF AdmitInv, OnlyAdmittedListen, PairOf, Admitted
  <2> QED BY <1>2, <2>2, <2>3, <2>4 DEF Step
<1>3. ASSUME NEW s \in Sockets, Connect(s) PROVE OnlyAdmittedListen'
  BY <1>3, ListenersStay DEF Connect, TypeInv, TypeOK
<1>4. ASSUME NEW s \in Sockets, Drop(s) PROVE OnlyAdmittedListen'
  BY <1>4 DEF Drop, AdmitInv, OnlyAdmittedListen, PairOf, Admitted, TypeInv, TypeOK
<1>5. ASSUME (\E r \in Endable : EndRoom(r)) \/ UNCHANGED vars
      PROVE  OnlyAdmittedListen'
  BY <1>5, ListenersStay DEF EndRoom, vars
<1>6. CASE Crash
  BY <1>6 DEF Crash, OnlyAdmittedListen
<1> QED BY <1>1, <1>2, <1>3, <1>4, <1>5, <1>6 DEF Next

\* Every step keeps AdmitInv.
LEMMA AdmitNext ==
  ASSUME TypeInv, AdmitInv, [Next]_vars
  PROVE  AdmitInv'
<1>1. ASSUME NEW d \in DOMAIN call' PROVE Owns(call'[d].user, call'[d].via)
  BY <1>1, NextHandlers DEF Continues, Starts, AdmitInv
<1>2. ASSUME NEW d \in DOMAIN call', call'[d].op = "join", call'[d].pc # "check"
      PROVE  /\ Admitted(call'[d].room, call'[d].user)
             /\ call'[d].pc \in {"load", "write", "enter"} =>
                  PairOf(call[d].pid)' = <<call'[d].room, call'[d].user>>
  <2>1. Continues(d)
    BY <1>2, NextHandlers DEF Starts
  <2>2. /\ d \in DOMAIN call /\ call[d].op = "join"
        /\ call'[d].room = call[d].room /\ call'[d].user = call[d].user
    BY <1>2, <2>1 DEF Continues
  <2>3. Admitted(call[d].room, call[d].user)
    BY <1>2, <2>1, <2>2 DEF Continues, AdmitInv
  <2>4. ASSUME call'[d].pc \in {"load", "write", "enter"}
        PROVE  PairOf(call[d].pid)' = <<call[d].room, call[d].user>>
    <3>1. CASE call'[d] = call[d]
      <4>1. /\ call[d].pid \in DOMAIN row
            /\ PairOf(call[d].pid) = <<call[d].room, call[d].user>>
        BY <2>2, <2>4, <3>1 DEF AdmitInv, TypeInv, Shape, ShapeOf
      <4> QED BY <3>1, <4>1, NextPair DEF PairOf
    <3>2. CASE \E c \in CallIds : Step(c) /\ d = c
      BY <1>2, <2>2, <2>4, <3>2, JoinPair
    <3>3. \/ call'[d] = call[d]
          \/ \E c \in CallIds : Step(c) /\ d = c
      <4>1. ASSUME NEW c \in CallIds, Step(c), d # c PROVE call'[d] = call[d]
        BY <1>2, <4>1, OthersStay
      <4>2. ASSUME NEW c \in Calls, NEW via \in Sockets \union {None}, NEW u \in Users,
                   Request(c, via, u)
            PROVE  call'[d] = call[d]
        <5>1. \E k : Ask(c, k)
          BY <4>2 DEF Request, AskJoin, AskLeave, AskUpdate, AskModerate, AskKick
        <5> QED BY <2>2, <5>1 DEF Ask, Begin
      <4>3. ASSUME NEW s \in Sockets, Drop(s) PROVE call'[d] = call[d]
        <5>1. call' = [e \in DOMAIN call \union {s} |->
                         IF e = s THEN Blank("drop", s, UserOf[s], "find") ELSE call[e]]
          BY <4>3 DEF Drop, Begin
        <5>2. Blank("drop", s, UserOf[s], "find").op = "drop"
          BY DEF Blank
        <5> QED BY <1>2, <2>2, <5>1, <5>2
      <4> QED BY <1>2, <4>1, <4>2, <4>3 DEF Next, Connect, EndRoom, Crash, vars
    <3> QED BY <3>1, <3>2, <3>3
  <2> QED BY <2>2, <2>3, <2>4
<1> QED BY <1>1, <1>2, ListenNext DEF AdmitInv, Admitted

\* Whatever joins, leaves and room changes came before, a socket hears only rooms
\* its user may enter, and is bound only to the user's own row there.
THEOREM ListenersAreAdmitted == Spec => []OnlyAdmittedListen
<1>1. Init => AdmitInv
  BY DEF Init, AdmitInv, OnlyAdmittedListen
<1>2. TypeInv /\ AdmitInv /\ [Next]_vars => AdmitInv'
  BY AdmitNext
<1>3. AdmitInv => OnlyAdmittedListen
  BY DEF AdmitInv
<1>4. Spec => []TypeInv
  BY Typed DEF TypeInv
<1> QED BY <1>1, <1>2, <1>3, <1>4, PTL DEF Spec
=============================================================================
