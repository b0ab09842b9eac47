--------------------------- MODULE AccountsProofs ---------------------------
(* Theorems about Accounts for every value of its constants, with proofs.  *)
EXTENDS Accounts, FiniteSetTheorems, TLAPS

USE AccountsAssumption

Sends(k) == k.op \in {"edit", "switch", "delete"}

\* What every step keeps of the shape of the state: ids that are in use, numbers of saves,
\* and requests about somebody on the sender's list.
RowsOK ==
  /\ DOMAIN row \subseteq used /\ used \subseteq Users
  /\ used \subseteq DOMAIN row \union deleted
  /\ \A u \in DOMAIN row : row[u].at \in Nat \ {0}

PagesOK ==
  /\ DOMAIN list = Users /\ DOMAIN form = Users /\ DOMAIN token = Users
  /\ visit \in [Users -> {"none", "asked", "shown", "open"}]
  /\ \A a \in Users : \A u \in DOMAIN list[a] : u \in used /\ list[a][u].at \in Nat
  /\ \A a \in Users : form[a] = NoForm \/ (form[a].on \in used /\ form[a].row.at \in Nat)
  /\ \A a \in Users : Open(a) \/ (list[a] = Nothing /\ form[a] = NoForm)

CallOK(k) ==
  /\ DOMAIN k = {"op", "pc", "by", "on", "want", "meant", "got", "base", "n"}
  /\ k.by \in Users \union {None} /\ k.got.at \in Nat /\ k.base \in Nat
  /\ Sends(k) => k.on \in Users /\ k.by \in Users
  /\ k.op = "edit" => DOMAIN k.want = Fields
  /\ k.op = "switch" => k.meant = {"active"} /\ DOMAIN k.want = k.meant
  /\ k.op = "switch" /\ k.on = k.by => k.want.active = TRUE
  /\ k.op = "delete" => k.on # k.by

CallsOK == \A c \in DOMAIN call :
             CallOK(call[c]) /\ (Sends(call[c]) => call[c].on \in used)

Shape == RowsOK /\ PagesOK /\ CallsOK

-----------------------------------------------------------------------------
(* What a step does to the requests.                                       *)

\* A request that has just been sent, with what the page has to do with it.
Asked(c) ==
  /\ c \notin DOMAIN call /\ DOMAIN call' = DOMAIN call \union {c}
  /\ \A d \in DOMAIN call : call'[d] = call[d]
  /\ CallOK(call'[c]) /\ (Sends(call'[c]) => call'[c].on \in used)
  /\ call'[c].op = "edit" =>
       \E a \in Users :
         /\ form[a] # NoForm /\ call'[c].on = form[a].on /\ call'[c].base = form[a].row.at
         /\ \A f \in Fields \ call'[c].meant : call'[c].want[f] = form[a].row[f]
  /\ call'[c].op = "switch" =>
       \E a \in Users : \E u \in DOMAIN list[a] :
         call'[c].by = a /\ call'[c].on = u /\ call'[c].base = 0

\* Every request is sent so.
LEMMA SentShape ==
  ASSUME Shape, NEW c \in Calls, NEW a \in Users, NEW u \in Users, NEW e \in Address,
         \/ SubmitEdit(c, a) \/ SubmitNew(c, a) \/ Switch(c, a, u) \/ AskDelete(c, a, u)
         \/ AskRegister(c, e) \/ AskLogin(c, a) \/ AskRoom(c, a)
  PROVE  Asked(c) /\ UNCHANGED <<table, pages>>
<1>1. CASE SubmitEdit(c, a)
  <2> DEFINE old == [g \in Fields |-> form[a].row[g]]
             changed(want) == {f \in Fields : want[f] # old[f]}
  <2>1. PICK want \in Edits(old) :
          Begin(c, Request("edit", a, form[a].on, want, changed(want), form[a].row.at))
    BY <1>1 DEF SubmitEdit
  <2>5. DOMAIN want = Fields
    BY DEF Edits
  <2>6. \A g \in Fields \ changed(want) : want[g] = form[a].row[g]
    OBVIOUS
  <2> DEFINE meant == changed(want)
  <2> HIDE DEF old, changed
  <2>2. /\ form[a] # NoForm /\ form[a].on \in used /\ form[a].on \in Users
        /\ form[a].row.at \in Nat
    BY <1>1 DEF SubmitEdit, Shape, PagesOK, RowsOK
  <2> DEFINE k == Request("edit", a, form[a].on, want, meant, form[a].row.at)
  <2>3. /\ CallOK(k) /\ k.op = "edit" /\ k.on = form[a].on /\ k.base = form[a].row.at
        /\ k.meant = meant /\ k.want = want
    BY <2>2, <2>5 DEF Request, CallOK, Sends, NoRow
  <2> HIDE DEF k
  <2>4. /\ c \notin DOMAIN call /\ DOMAIN call' = DOMAIN call \union {c} /\ call'[c] = k
        /\ \A d \in DOMAIN call : call'[d] = call[d]
    BY <2>1 DEF Begin, k
  <2> QED BY <1>1, <2>2, <2>3, <2>4, <2>6 DEF Asked, SubmitEdit
<1>2. CASE SubmitNew(c, a)
  BY <1>2 DEF SubmitNew, Begin, Request, Asked, CallOK, Sends, NoRow
<1>3. CASE Switch(c, a, u)
  <2>1. u \in used
    BY <1>3 DEF Switch, Shape, PagesOK
  <2> QED BY <1>3, <2>1 DEF Switch, Begin, Request, Asked, CallOK, Sends, NoRow
<1>4. CASE AskDelete(c, a, u)
  <2>1. u \in used
    BY <1>4 DEF AskDelete, Shape, PagesOK
  <2> QED BY <1>4, <2>1 DEF AskDelete, Begin, Request, Asked, CallOK, Sends, NoRow
<1>5. CASE AskRegister(c, e)
  BY <1>5 DEF AskRegister, Begin, Request, Asked, CallOK, Sends, NoRow
<1>6. CASE AskLogin(c, a)
  BY <1>6 DEF AskLogin, Begin, Request, Asked, CallOK, Sends, NoRow
<1>7. CASE AskRoom(c, a)
  BY <1>7 DEF AskRoom, Begin, Request, Asked, CallOK, Sends, NoRow
<1> QED BY <1>1, <1>2, <1>3, <1>4, <1>5, <1>6, <1>7

\* A step of a request that only reads: what it has loaded is the row of the table.
Moved(d) ==
  /\ d \in DOMAIN call /\ DOMAIN call'[d] = DOMAIN call[d]
  /\ call'[d].op = call[d].op /\ call'[d].by = call[d].by /\ call'[d].on = call[d].on
  /\ call'[d].want = call[d].want /\ call'[d].meant = call[d].meant
  /\ \/ call'[d].got = call[d].got /\ call'[d].base = call[d].base
     \/ /\ call[d].on \in DOMAIN row /\ call'[d].got = row[call[d].on]
        /\ call'[d].base = IF call[d].op \in {"edit", "login"} THEN call[d].base
                           ELSE row[call[d].on].at

\* The reading steps move one request, or end it.
LEMMA ReadShape ==
  ASSUME Shape, NEW c \in Calls, FindLogin(c) \/ CheckNew(c) \/ Load(c) \/ TrySlug(c)
  PROVE  \A d \in DOMAIN call' : d \in DOMAIN call /\ (call'[d] = call[d] \/ Moved(d))
<1>1. c \in DOMAIN call /\ CallOK(call[c])
  BY DEF FindLogin, CheckNew, Load, TrySlug, At, Shape, CallsOK
<1>2. CASE End(c)
  BY <1>2 DEF End
<1>3. ASSUME NEW k, call' = [call EXCEPT ![c] = k], DOMAIN k = DOMAIN call[c],
             k.op = call[c].op, k.by = call[c].by, k.on = call[c].on,
             k.want = call[c].want, k.meant = call[c].meant,
             \/ k.got = call[c].got /\ k.base = call[c].base
             \/ /\ call[c].on \in DOMAIN row /\ k.got = row[call[c].on]
                /\ k.base = IF call[c].op \in {"edit", "login"} THEN call[c].base
                            ELSE row[call[c].on].at
      PROVE  \A d \in DOMAIN call' : d \in DOMAIN call /\ (call'[d] = call[d] \/ Moved(d))
  <2>1. call'[c] = k /\ \A d \in DOMAIN call \ {c} : call'[d] = call[d]
    BY <1>1, <1>3
  <2>2. Moved(c)
    BY <1>1, <1>3, <2>1 DEF Moved
  <2> QED BY <1>3, <2>1, <2>2
<1>4. CASE \E n : call' = [call EXCEPT ![c].n = n]
  <2>1. PICK n : call' = [call EXCEPT ![c].n = n]
    BY <1>4
  <2> DEFINE k == [call[c] EXCEPT !.n = n]
  <2>2. /\ DOMAIN k = DOMAIN call[c] /\ k.op = call[c].op /\ k.by = call[c].by
        /\ k.on = call[c].on /\ k.want = call[c].want /\ k.meant = call[c].meant
        /\ k.got = call[c].got /\ k.base = call[c].base
    BY <1>1 DEF CallOK
  <2> HIDE DEF k
  <2>3. call' = [call EXCEPT ![c] = k]
    BY <2>1 DEF k
  <2> QED BY <1>3, <2>2, <2>3
<1>5. CASE Passes(c)
  <2> DEFINE k == [call[c] EXCEPT !.pc = "save"]
  <2>2. /\ DOMAIN k = DOMAIN call[c] /\ k.op = call[c].op /\ k.by = call[c].by
        /\ k.on = call[c].on /\ k.want = call[c].want /\ k.meant = call[c].meant
        /\ k.got = call[c].got /\ k.base = call[c].base
    BY <1>1 DEF CallOK
  <2> HIDE DEF k
  <2>3. call' = [call EXCEPT ![c] = k]
    BY <1>5 DEF k, Passes
  <2> QED BY <1>3, <2>2, <2>3
<1>6. CASE FindLogin(c) /\ ~End(c)
  <2> DEFINE k == [call[c] EXCEPT !.pc = "save", !.got = row[call[c].on]]
  <2>1. call[c].on \in DOMAIN row /\ call[c].op = "login"
    BY <1>6 DEF FindLogin, At
  <2>2. /\ DOMAIN k = DOMAIN call[c] /\ k.op = call[c].op /\ k.by = call[c].by
        /\ k.on = call[c].on /\ k.want = call[c].want /\ k.meant = call[c].meant
        /\ k.got = row[call[c].on] /\ k.base = call[c].base
    BY <1>1 DEF CallOK
  <2> HIDE DEF k
  <2>3. call' = [call EXCEPT ![c] = k]
    BY <1>6 DEF k, FindLogin
  <2> QED BY <1>3, <2>1, <2>2, <2>3
<1>7. CASE Load(c) /\ ~End(c)
  <2> DEFINE b == IF call[c].op \in {"edit", "login"} THEN call[c].base
                  ELSE row[call[c].on].at
             k == [call[c] EXCEPT !.pc = "save", !.got = row[call[c].on], !.base = b]
  <2>1. call[c].on \in DOMAIN row /\ call[c].op \in {"edit", "switch", "delete"}
    BY <1>7 DEF Load, At
  <2>2. /\ DOMAIN k = DOMAIN call[c] /\ k.op = call[c].op /\ k.by = call[c].by
        /\ k.on = call[c].on /\ k.want = call[c].want /\ k.meant = call[c].meant
        /\ k.got = row[call[c].on] /\ k.base = b
    BY <1>1 DEF CallOK
  <2>3. call' = [call EXCEPT ![c] = k]
    BY <1>7, <2>1 DEF Load
  <2> HIDE DEF k
  <2> QED BY <1>3, <2>1, <2>2, <2>3
<1> QED BY <1>2, <1>4, <1>5, <1>6, <1>7 DEF CheckNew, TrySlug, Passes

\* What a step does to the requests: it keeps or ends them, moves one, or adds one.
LEMMA NextCalls ==
  ASSUME Shape, Next
  PROVE  \/ \A d \in DOMAIN call' : d \in DOMAIN call /\ call'[d] = call[d]
         \/ /\ UNCHANGED <<table, pages>>
            /\ \/ \A d \in DOMAIN call' : d \in DOMAIN call /\ (call'[d] = call[d] \/ Moved(d))
               \/ \E c \in Calls : Asked(c)
<1>1. ASSUME NEW c \in Calls, NEW a \in Users, NEW u \in Users,
             SubmitEdit(c, a) \/ SubmitNew(c, a) \/ AskLogin(c, a) \/ AskRoom(c, a)
               \/ Switch(c, a, u) \/ AskDelete(c, a, u)
      PROVE  Asked(c) /\ UNCHANGED <<table, pages>>
  <2>1. PICK e : e \in Address
    BY DEF Address
  <2> QED BY <1>1, <2>1, SentShape
<1>2. ASSUME NEW c \in Calls, NEW e \in Address, AskRegister(c, e)
      PROVE  Asked(c) /\ UNCHANGED <<table, pages>>
  BY <1>2, SentShape
<1>3. ASSUME NEW c \in Calls, FindLogin(c) \/ CheckNew(c) \/ Load(c) \/ TrySlug(c)
      PROVE  /\ UNCHANGED <<table, pages>>
             /\ \A d \in DOMAIN call' : d \in DOMAIN call /\ (call'[d] = call[d] \/ Moved(d))
  BY <1>3, ReadShape DEF FindLogin, CheckNew, Load, TrySlug
<1>4. ASSUME NEW c \in Calls, Issue(c) \/ SaveNew(c) \/ SaveUpdate(c) \/ Remove(c) \/ SaveRoom(c)
      PROVE  \A d \in DOMAIN call' : d \in DOMAIN call /\ call'[d] = call[d]
  BY <1>4 DEF Issue, SaveNew, SaveUpdate, Remove, SaveRoom, End
<1>5. ASSUME NEW a \in Users,
             \/ OpenPage(a) \/ LoadProfile(a) \/ LoadUsers(a) \/ Logout(a)
             \/ \E u \in Users : EditUser(a, u)
             \/ \E r \in 1 .. MaxRooms : EndRoom(a, r)
      PROVE  call' = call
  BY <1>5 DEF OpenPage, LoadProfile, LoadUsers, Logout, EditUser, EndRoom
<1> QED BY <1>1, <1>2, <1>3, <1>4, <1>5 DEF Next

-----------------------------------------------------------------------------
(* What a step does to the table.                                          *)

\* Only saves and removals change the table.
LEMMA OnlySaves ==
  ASSUME Next
  PROVE  UNCHANGED table \/ \E c \in Calls : SaveNew(c) \/ SaveUpdate(c) \/ Remove(c)
<1>1. ASSUME NEW c \in Calls, NEW a \in Users, NEW u \in Users, NEW e \in Address,
             \/ SubmitEdit(c, a) \/ SubmitNew(c, a) \/ AskLogin(c, a) \/ AskRoom(c, a)
             \/ Switch(c, a, u) \/ AskDelete(c, a, u) \/ AskRegister(c, e)
             \/ FindLogin(c) \/ CheckNew(c) \/ Load(c) \/ TrySlug(c) \/ SaveRoom(c)
      PROVE  UNCHANGED table
  BY <1>1 DEF SubmitEdit, SubmitNew, AskLogin, AskRoom, Switch, AskDelete, AskRegister,
              FindLogin, CheckNew, Load, TrySlug, SaveRoom
<1>2. ASSUME NEW a \in Users, NEW u \in Users, NEW r,
             \/ OpenPage(a) \/ LoadProfile(a) \/ LoadUsers(a) \/ Logout(a)
             \/ EditUser(a, u) \/ EndRoom(a, r)
      PROVE  UNCHANGED table
  BY <1>2 DEF OpenPage, LoadProfile, LoadUsers, Logout, EditUser, EndRoom
<1>3. ASSUME NEW c \in Calls, Issue(c) PROVE UNCHANGED table
  BY <1>3 DEF Issue
<1>4. \E u, e : u \in Users /\ e \in Address
  BY DEF Address
<1> QED BY <1>1, <1>2, <1>3, <1>4 DEF Next

\* A row stays as it is, or is saved once more, or is removed.
LEMMA RowsMoveOn ==
  ASSUME Shape, Next
  PROVE  /\ RowsOK' /\ used \subseteq used' /\ deleted \subseteq deleted'
         /\ \A u \in DOMAIN row :
              \/ u \in DOMAIN row' /\ (row'[u] = row[u] \/ row'[u].at = row[u].at + 1)
              \/ u \in deleted'
<1>1. ASSUME NEW c \in Calls, SaveNew(c), row' # row
      PROVE  /\ RowsOK' /\ used \subseteq used' /\ deleted' = deleted
             /\ \A u \in DOMAIN row : u \in DOMAIN row' /\ row'[u] = row[u]
  <2>1. PICK u, r :
          /\ u \in Users \ used
          /\ used' = used \union {u} /\ Writes(c, u, r) /\ r.at = 1
    BY <1>1 DEF SaveNew
  <2>2. /\ DOMAIN row' = DOMAIN row \union {u} /\ row'[u] = r /\ deleted' = deleted
        /\ \A v \in DOMAIN row \ {u} : row'[v] = row[v]
    BY <1>1, <2>1 DEF Writes, SaveNew
  <2> QED BY <2>1, <2>2 DEF RowsOK, Shape
<1>2. ASSUME NEW c \in Calls, SaveUpdate(c), row' # row
      PROVE  /\ RowsOK' /\ used' = used /\ deleted' = deleted
             /\ \A u \in DOMAIN row :
                  u \in DOMAIN row' /\ (row'[u] = row[u] \/ row'[u].at = row[u].at + 1)
  <2> DEFINE u == call[c].on
             at == IF u \in DOMAIN row THEN row[u].at ELSE call[c].got.at
  <2>1. PICK r : Writes(c, u, r) /\ r.at = at + 1
    BY <1>2 DEF SaveUpdate
  <2>2. u \in used /\ at \in Nat
    BY <1>2 DEF SaveUpdate, At, Shape, CallsOK, CallOK, Sends, RowsOK
  <2>3. /\ DOMAIN row' = DOMAIN row \union {u} /\ row'[u] = r
        /\ deleted' = deleted /\ used' = used
        /\ \A v \in DOMAIN row \ {u} : row'[v] = row[v]
    BY <1>2, <2>1 DEF Writes, SaveUpdate
  <2> QED BY <2>1, <2>2, <2>3 DEF RowsOK, Shape
<1>3. ASSUME NEW c \in Calls, Remove(c)
      PROVE  /\ RowsOK' /\ used' = used /\ deleted' = deleted \union {call[c].on}
             /\ DOMAIN row' = DOMAIN row \ {call[c].on}
             /\ \A u \in DOMAIN row' : row'[u] = row[u]
  BY <1>3 DEF Remove, RowsOK, Shape
<1>4. CASE row' = row /\ used' = used /\ deleted' = deleted
  BY <1>4 DEF RowsOK, Shape
<1>5. \/ row' = row /\ used' = used /\ deleted' = deleted
      \/ \E c \in Calls : ((SaveNew(c) \/ SaveUpdate(c)) /\ row' # row) \/ Remove(c)
  <2>1. ASSUME NEW c \in Calls, SaveNew(c), row' = row
        PROVE  row' = row /\ used' = used /\ deleted' = deleted
    <3>1. ASSUME NEW u \in Users \ used, NEW r, Writes(c, u, r) PROVE FALSE
      BY <2>1, <3>1 DEF Writes, Shape, RowsOK
    <3> QED BY <2>1, <3>1 DEF SaveNew
  <2>2. ASSUME NEW c \in Calls, SaveUpdate(c), row' = row
        PROVE  used' = used /\ deleted' = deleted
    BY <2>2 DEF SaveUpdate
  <2>3. (\A c \in Calls : ~SaveNew(c) /\ ~SaveUpdate(c) /\ ~Remove(c)) =>
           row' = row /\ used' = used /\ deleted' = deleted
    BY OnlySaves DEF table
  <2> QED BY <2>1, <2>2, <2>3
<1> QED BY <1>1, <1>2, <1>3, <1>4, <1>5

-----------------------------------------------------------------------------
(* What a step does to the pages.                                          *)

\* An entry of a list stays, or is the row as it is now; a form is empty, or it stays or is
\* filled from the list.
Listed(a) == \A u \in DOMAIN list'[a] :
               \/ u \in DOMAIN list[a] /\ list'[a][u] = list[a][u]
               \/ u \in DOMAIN row' /\ list'[a][u] = row'[u]

Filled(a) ==
  \/ form'[a] = NoForm \/ form'[a] = form[a]
  \/ \E u \in DOMAIN list[a] : form'[a] = [on |-> u, row |-> list[a][u]]

\* Every step changes them so.
LEMMA PagesMoveOn ==
  ASSUME Shape, Next
  PROVE  /\ DOMAIN list' = Users /\ DOMAIN form' = Users /\ DOMAIN token' = Users
         /\ \A a \in Users : Listed(a) /\ Filled(a)
<1>1. DOMAIN list = Users /\ DOMAIN form = Users /\ DOMAIN token = Users
  BY DEF Shape, PagesOK
<1> DEFINE Moved1 == /\ DOMAIN list' = Users /\ DOMAIN form' = Users
                     /\ \A a \in Users : Listed(a) /\ Filled(a)
<1>2. ASSUME UNCHANGED <<list, form>> PROVE Moved1
  BY <1>1, <1>2 DEF Listed, Filled
<1>3. ASSUME NEW by, NEW u, NEW r, NEW empties, Shows(by, u, r, empties),
             u \in DOMAIN row', row'[u] = r, by \in Users \union {None}
      PROVE  Moved1
  <2>1. CASE by # None /\ Open(by)
    <3>1. \A a \in Users : Listed(a)
      BY <1>1, <1>3, <2>1 DEF Shows, Listed
    <3>2. \A a \in Users : Filled(a)
      BY <1>1, <1>3, <2>1 DEF Shows, Filled
    <3> QED BY <1>1, <1>3, <2>1, <3>1, <3>2 DEF Shows
  <2> QED BY <1>2, <1>3, <2>1 DEF Shows
<1>4. ASSUME NEW c \in Calls, SaveNew(c) PROVE Moved1 /\ DOMAIN token' = Users
  <2>1. call[c].by \in Users \union {None}
    BY <1>4 DEF SaveNew, At, Shape, CallsOK, CallOK
  <2>2. ASSUME NEW u \in Users, NEW r, Writes(c, u, r) PROVE Moved1
    BY <1>3, <2>1, <2>2 DEF Writes
  <2>3. UNCHANGED <<list, form>> \/ \E u \in Users : \E r : Writes(c, u, r)
    BY <1>4 DEF SaveNew, pages
  <2>4. DOMAIN token' = Users
    BY <1>1, <1>4 DEF SaveNew, pages
  <2> QED BY <1>2, <2>2, <2>3, <2>4
<1>5. ASSUME NEW c \in Calls, SaveUpdate(c) PROVE Moved1 /\ token' = token
  <2>1. call[c].by \in Users \union {None}
    BY <1>5 DEF SaveUpdate, At, Shape, CallsOK, CallOK
  <2>2. ASSUME NEW u, NEW r, Writes(c, u, r) PROVE Moved1
    BY <1>3, <2>1, <2>2 DEF Writes
  <2>3. UNCHANGED <<list, form>> \/ \E u, r : Writes(c, u, r)
    BY <1>5 DEF SaveUpdate
  <2> QED BY <1>2, <1>5, <2>2, <2>3 DEF SaveUpdate
<1>6. ASSUME NEW c \in Calls, Remove(c) PROVE Moved1 /\ token' = token
  <2>1. call[c].by \in Users
    BY <1>6 DEF Remove, At, Shape, CallsOK, CallOK, Sends
  <2>2. \A a \in Users : Listed(a)
    BY <1>1, <1>6, <2>1 DEF Remove, Listed
  <2>3. \A a \in Users : Filled(a)
    BY <1>1, <1>6, <2>1 DEF Remove, Filled
  <2> QED BY <1>1, <1>6, <2>2, <2>3 DEF Remove
<1>7. ASSUME NEW a \in Users, OpenPage(a) \/ LoadProfile(a) \/ LoadUsers(a)
      PROVE  Moved1 /\ token' = token
  <2>1. CASE UNCHANGED <<list, form, token>>
    BY <1>2, <2>1
  <2>2. CASE LoadProfile(a) /\ Leaves(a)
    <3>1. \A b \in Users : Listed(b) /\ Filled(b)
      BY <1>1, <2>2 DEF Leaves, Listed, Filled, Nothing
    <3> QED BY <1>1, <2>2, <3>1 DEF Leaves, LoadProfile
  <2>3. CASE LoadUsers(a)
    <3>1. form' = form /\ row' = row /\ token' = token /\ list' = [list EXCEPT ![a] = row]
      BY <2>3 DEF LoadUsers, table
    <3>2. \A b \in Users : Listed(b) /\ Filled(b)
      BY <1>1, <3>1 DEF Listed, Filled
    <3> QED BY <1>1, <3>1, <3>2
  <2> QED BY <1>7, <2>1, <2>2, <2>3 DEF OpenPage, LoadProfile
<1>8. ASSUME NEW a \in Users, NEW u \in Users, EditUser(a, u) PROVE Moved1 /\ token' = token
  BY <1>1, <1>8 DEF EditUser, Listed, Filled
<1>9. ASSUME NEW a \in Users, Logout(a) PROVE Moved1 /\ DOMAIN token' = Users
  <2>1. \A b \in Users : Listed(b) /\ Filled(b)
    BY <1>1, <1>9 DEF Logout, Leaves, Listed, Filled, Nothing
  <2> QED BY <1>1, <1>9, <2>1 DEF Logout, Leaves
<1>10. ASSUME NEW c \in Calls, Issue(c) PROVE Moved1 /\ DOMAIN token' = Users
  BY <1>1, <1>2, <1>10 DEF Issue
<1>11. ASSUME NEW c \in Calls, NEW a \in Users, NEW u \in Users, NEW e \in Address,
              \/ SubmitEdit(c, a) \/ SubmitNew(c, a) \/ AskLogin(c, a) \/ AskRoom(c, a)
              \/ Switch(c, a, u) \/ AskDelete(c, a, u) \/ AskRegister(c, e)
              \/ FindLogin(c) \/ CheckNew(c) \/ Load(c) \/ TrySlug(c) \/ SaveRoom(c)
       PROVE  UNCHANGED <<list, form>> /\ token' = token
  BY <1>11 DEF SubmitEdit, SubmitNew, AskLogin, AskRoom, Switch, AskDelete, AskRegister,
               FindLogin, CheckNew, Load, TrySlug, SaveRoom, pages
<1>12. ASSUME NEW a, NEW r, EndRoom(a, r) PROVE UNCHANGED <<list, form>> /\ token' = token
  BY <1>12 DEF EndRoom, pages
<1>13. \E u, e : u \in Users /\ e \in Address
  BY DEF Address
<1> HIDE DEF Moved1
<1>14. Moved1 /\ DOMAIN token' = Users
  <2>1. ASSUME UNCHANGED <<list, form>>, token' = token PROVE Moved1 /\ DOMAIN token' = Users
    BY <1>1, <1>2, <2>1
  <2> QED BY <1>1, <1>4, <1>5, <1>6, <1>7, <1>8, <1>9, <1>10, <1>11, <1>12, <1>13, <2>1 DEF Next
<1> QED BY <1>14 DEF Moved1

\* A page that is not open shows nothing.
LEMMA VisitNext ==
  ASSUME Shape, Next
  PROVE  /\ visit' \in [Users -> {"none", "asked", "shown", "open"}]
         /\ \A a \in Users : visit'[a] # "none" \/ (list'[a] = Nothing /\ form'[a] = NoForm)
<1> DEFINE V == /\ visit' \in [Users -> {"none", "asked", "shown", "open"}]
                /\ \A a \in Users : \/ visit'[a] # "none"
                                    \/ list'[a] = Nothing /\ form'[a] = NoForm
<1>1. /\ DOMAIN list = Users /\ DOMAIN form = Users
      /\ visit \in [Users -> {"none", "asked", "shown", "open"}]
      /\ \A a \in Users : visit[a] # "none" \/ (list[a] = Nothing /\ form[a] = NoForm)
  BY DEF Shape, PagesOK, Open
<1>2. ASSUME UNCHANGED <<visit, list, form>> PROVE V
  BY <1>1, <1>2
<1>3. ASSUME NEW by \in Users \union {None}, NEW u, NEW r, NEW empties,
             Shows(by, u, r, empties), visit' = visit
      PROVE  V
  BY <1>1, <1>3 DEF Shows, Open
<1>4. ASSUME NEW c \in Calls, SaveNew(c) \/ SaveUpdate(c) PROVE V
  <2>1. call[c].by \in Users \union {None} /\ visit' = visit
    BY <1>4 DEF SaveNew, SaveUpdate, At, Shape, CallsOK, CallOK, pages
  <2>2. \/ UNCHANGED <<list, form>>
        \/ \E u, r : Shows(call[c].by, u, r, call[c].op # "switch")
    BY <1>4 DEF SaveNew, SaveUpdate, Writes, pages
  <2> QED BY <1>2, <1>3, <2>1, <2>2
<1>5. ASSUME NEW c \in Calls, Remove(c) PROVE V
  <2>1. ASSUME NEW a \in Users, list[a] = Nothing PROVE list'[a] = Nothing
    BY <1>1, <1>5, <2>1 DEF Remove, Nothing
  <2>2. ASSUME NEW a \in Users, form[a] = NoForm PROVE form'[a] = NoForm
    BY <1>1, <1>5, <2>2 DEF Remove
  <2> QED BY <1>1, <1>5, <2>1, <2>2 DEF Remove
<1>6. ASSUME NEW a \in Users, Leaves(a) PROVE V
  BY <1>1, <1>6 DEF Leaves
<1>7. ASSUME NEW a \in Users, OpenPage(a) \/ LoadProfile(a) \/ LoadUsers(a) \/ Logout(a)
      PROVE  V
  <2>1. CASE OpenPage(a)
    BY <1>1, <2>1 DEF OpenPage
  <2>2. CASE LoadProfile(a)
    BY <1>1, <1>6, <2>2 DEF LoadProfile
  <2>3. CASE LoadUsers(a)
    BY <1>1, <2>3 DEF LoadUsers
  <2>4. CASE Logout(a)
    BY <1>6, <2>4 DEF Logout
  <2> QED BY <1>7, <2>1, <2>2, <2>3, <2>4
<1>8. ASSUME NEW a \in Users, NEW u \in Users, EditUser(a, u) PROVE V
  BY <1>1, <1>8 DEF EditUser, Nothing
<1>9. ASSUME NEW c \in Calls, NEW a \in Users, NEW u \in Users, NEW e \in Address,
             \/ SubmitEdit(c, a) \/ SubmitNew(c, a) \/ AskLogin(c, a) \/ AskRoom(c, a)
             \/ Switch(c, a, u) \/ AskDelete(c, a, u) \/ AskRegister(c, e)
             \/ FindLogin(c) \/ Issue(c) \/ CheckNew(c) \/ Load(c) \/ TrySlug(c) \/ SaveRoom(c)
      PROVE  UNCHANGED <<visit, list, form>>
  BY <1>9 DEF SubmitEdit, SubmitNew, AskLogin, AskRoom, Switch, AskDelete, AskRegister,
              FindLogin, Issue, CheckNew, Load, TrySlug, SaveRoom, pages
<1>10. ASSUME NEW a, NEW r, EndRoom(a, r) PROVE UNCHANGED <<visit, list, form>>
  BY <1>10 DEF EndRoom, pages
<1>11. \E u, e : u \in Users /\ e \in Address
  BY DEF Address
<1> HIDE DEF V
<1>12. V
  BY <1>2, <1>4, <1>5, <1>7, <1>8, <1>9, <1>10, <1>11 DEF Next
<1> QED BY <1>12 DEF V

\* Every step keeps the shape.
LEMMA ShapeNext == Shape /\ [Next]_vars => Shape'
<1> SUFFICES ASSUME Shape, [Next]_vars PROVE Shape'
  OBVIOUS
<1>1. CASE UNCHANGED vars
  BY <1>1 DEF vars, Shape, RowsOK, PagesOK, CallsOK, Open
<1>2. CASE Next
  <2>1. RowsOK' /\ used \subseteq used'
    BY <1>2, RowsMoveOn
  <2>2. PagesOK'
    <3>1. ASSUME NEW a \in Users, NEW u \in DOMAIN list'[a]
          PROVE  u \in used' /\ list'[a][u].at \in Nat
      BY <1>2, <2>1, PagesMoveOn DEF Listed, Shape, PagesOK, RowsOK
    <3>2. ASSUME NEW a \in Users, form'[a] # NoForm
          PROVE  form'[a].on \in used' /\ form'[a].row.at \in Nat
      <4>1. Filled(a)
        BY <1>2, PagesMoveOn
      <4>2. CASE form'[a] = form[a]
        BY <2>1, <3>2, <4>2 DEF Shape, PagesOK
      <4>3. ASSUME NEW u \in DOMAIN list[a], form'[a] = [on |-> u, row |-> list[a][u]]
            PROVE  form'[a].on \in used' /\ form'[a].row.at \in Nat
        BY <2>1, <4>3 DEF Shape, PagesOK
      <4> QED BY <3>2, <4>1, <4>2, <4>3 DEF Filled
    <3>3. \A a \in Users : \/ form'[a] = NoForm
                           \/ form'[a].on \in used' /\ form'[a].row.at \in Nat
      BY <3>2
    <3> QED BY <1>2, <3>1, <3>3, PagesMoveOn, VisitNext DEF PagesOK, Open
  <2>3. ASSUME NEW d \in DOMAIN call'
        PROVE  CallOK(call'[d]) /\ (Sends(call'[d]) => call'[d].on \in used')
    <3>1. CASE d \in DOMAIN call /\ call'[d] = call[d]
      BY <2>1, <3>1 DEF Shape, CallsOK
    <3>2. CASE Moved(d)
      <4>1. CallOK(call[d]) /\ (Sends(call[d]) => call[d].on \in used)
        BY <3>2 DEF Moved, Shape, CallsOK
      <4>2. call'[d].got.at \in Nat /\ call'[d].base \in Nat
        BY <3>2, <4>1 DEF Moved, CallOK, Shape, RowsOK
      <4> QED BY <2>1, <3>2, <4>1, <4>2 DEF Moved, CallOK, Sends
    <3>3. CASE \E c \in Calls : Asked(c)
      <4>1. CallsOK
        BY DEF Shape
      <4> QED BY <2>1, <3>3, <4>1 DEF Asked, CallsOK
    <3> QED BY <1>2, <3>1, <3>2, <3>3, NextCalls
  <2>4. CallsOK'
    BY <2>3 DEF CallsOK
  <2> QED BY <2>1, <2>2, <2>4 DEF Shape
<1> QED BY <1>1, <1>2

\* At the start there are the founders.
LEMMA ShapeInit == Init => Shape
<1> SUFFICES ASSUME Init PROVE Shape
  OBVIOUS
<1>1. RowsOK
  BY DEF Init, RowsOK
<1>2. PagesOK
  <2>1. /\ DOMAIN list = Users /\ DOMAIN form = Users /\ DOMAIN token = Users
        /\ \A a \in Users : list[a] = Nothing /\ DOMAIN list[a] = {}
    BY DEF Init, Nothing
  <2>2. /\ \A a \in Users : form[a] = NoForm
        /\ visit \in [Users -> {"none", "asked", "shown", "open"}]
    BY DEF Init
  <2> HIDE DEF Init
  <2> QED BY <2>1, <2>2 DEF PagesOK
<1>3. CallsOK
  BY DEF Init, CallsOK
<1> QED BY <1>1, <1>2, <1>3 DEF Shape

-----------------------------------------------------------------------------
(* What is saved is what the sender meant.                                 *)

\* r, read when u's row had been saved `at' times, still agrees with it in the fields of S,
\* unless the row was saved again, or removed.
Recent(u, at, S, r) ==
  \/ u \in deleted
  \/ /\ u \in DOMAIN row /\ at <= row[u].at
     /\ at = row[u].at => \A f \in S : r[f] = row[u][f]

MeantOK(k) == k.op \in {"edit", "switch"} =>
                Recent(k.on, k.base, Fields \ k.meant, Merged(k.got, k.want))

MeantInv ==
  /\ \A a \in Users : \A u \in DOMAIN list[a] : Recent(u, list[a][u].at, Fields, list[a][u])
  /\ \A a \in Users :
       form[a] # NoForm => Recent(form[a].on, form[a].row.at, Fields, form[a].row)
  /\ \A c \in DOMAIN call : MeantOK(call[c])

\* The same after a step.
RecentNext(u, at, S, r) ==
  \/ u \in deleted'
  \/ /\ u \in DOMAIN row' /\ at <= row'[u].at
     /\ at = row'[u].at => \A f \in S : r[f] = row'[u][f]

MeantNow(k) == k.op \in {"edit", "switch"} =>
                 RecentNext(k.on, k.base, Fields \ k.meant, Merged(k.got, k.want))

\* What was recent stays so.
LEMMA RecentKept ==
  ASSUME Shape, Next, NEW u \in used, NEW at \in Nat, NEW S, NEW r, Recent(u, at, S, r)
  PROVE  RecentNext(u, at, S, r)
<1>1. CASE u \in deleted
  BY <1>1, RowsMoveOn DEF RecentNext
<1>2. CASE u \in DOMAIN row
  <2>1. row[u].at \in Nat
    BY <1>2 DEF Shape, RowsOK
  <2> QED BY <1>2, <2>1, RowsMoveOn DEF Recent, RecentNext
<1> QED BY <1>1, <1>2 DEF Recent

\* What the table holds now is recent.
LEMMA RowIsRecent ==
  ASSUME Shape, Next, NEW u \in DOMAIN row'
  PROVE  RecentNext(u, row'[u].at, Fields, row'[u])
<1>1. row'[u].at \in Nat
  BY RowsMoveOn DEF RowsOK
<1> QED BY <1>1 DEF RecentNext

\* A request that has just been sent holds what its page held.
LEMMA AskedIsMeant ==
  ASSUME Shape, MeantInv, NEW d, Asked(d), UNCHANGED table
  PROVE  MeantNow(call'[d])
<1> DEFINE k == call'[d]
<1> SUFFICES MeantNow(k)
  OBVIOUS
<1>1. /\ CallOK(k) /\ (Sends(k) => k.on \in used)
      /\ k.op = "edit" =>
           \E a \in Users :
             /\ form[a] # NoForm /\ k.on = form[a].on /\ k.base = form[a].row.at
             /\ \A f \in Fields \ k.meant : k.want[f] = form[a].row[f]
      /\ k.op = "switch" => k.base = 0
  BY DEF Asked
<1> HIDE DEF k
<1>2. CASE k.op = "edit"
  <2>1. PICK a \in Users :
          /\ form[a] # NoForm /\ k.on = form[a].on /\ k.base = form[a].row.at
          /\ \A f \in Fields \ k.meant : k.want[f] = form[a].row[f]
    BY <1>1, <1>2
  <2>2. \A f \in Fields : Merged(k.got, k.want)[f] = k.want[f]
    BY <1>1, <1>2 DEF CallOK, Merged
  <2>3. Recent(k.on, k.base, Fields, form[a].row)
    BY <2>1 DEF MeantInv
  <2> QED BY <2>1, <2>2, <2>3 DEF MeantNow, Recent, RecentNext, table
<1>3. CASE k.op = "switch"
  <2>1. k.base = 0 /\ k.on \in used
    BY <1>1, <1>3 DEF Sends
  <2>2. k.on \in deleted \/ (k.on \in DOMAIN row /\ row[k.on].at \in Nat \ {0})
    BY <2>1 DEF Shape, RowsOK
  <2> QED BY <2>1, <2>2 DEF MeantNow, RecentNext, table
<1> QED BY <1>2, <1>3 DEF MeantNow

\* A request that has just been read for holds what was read.
LEMMA MovedIsMeant ==
  ASSUME Shape, MeantInv, NEW d, Moved(d), UNCHANGED table
  PROVE  MeantNow(call'[d])
<1> DEFINE k == call[d]
           n == call'[d]
<1> SUFFICES MeantNow(n)
  OBVIOUS
<1>1. /\ CallOK(k) /\ MeantOK(k)
      /\ n.op = k.op /\ n.on = k.on /\ n.want = k.want /\ n.meant = k.meant
      /\ \/ n.got = k.got /\ n.base = k.base
         \/ /\ k.on \in DOMAIN row /\ n.got = row[k.on]
            /\ n.base = IF k.op \in {"edit", "login"} THEN k.base ELSE row[k.on].at
  BY DEF Moved, Shape, CallsOK, MeantInv
<1>2. row' = row /\ deleted' = deleted
  BY DEF table
<1> HIDE DEF k, n
<1>3. CASE n.got = k.got /\ n.base = k.base
  BY <1>1, <1>2, <1>3 DEF MeantNow, MeantOK, Recent, RecentNext
<1>4. CASE k.op = "edit" /\ n.base = k.base
  <2>1. \A f \in Fields : /\ Merged(k.got, k.want)[f] = k.want[f]
                         /\ Merged(n.got, k.want)[f] = k.want[f]
    BY <1>1, <1>4 DEF CallOK, Merged
  <2> QED BY <1>1, <1>2, <1>4, <2>1 DEF MeantNow, MeantOK, Recent, RecentNext
<1>5. CASE /\ k.op = "switch" /\ k.on \in DOMAIN row
           /\ n.got = row[k.on] /\ n.base = row[k.on].at
  <2>1. row[k.on].at \in Nat
    BY <1>5 DEF Shape, RowsOK
  <2>2. \A f \in Fields \ n.meant : Merged(n.got, n.want)[f] = row[k.on][f]
    BY <1>1, <1>5 DEF CallOK, Merged
  <2> QED BY <1>1, <1>2, <1>5, <2>1, <2>2 DEF MeantNow, RecentNext
<1>6. CASE k.op \notin {"edit", "switch"}
  BY <1>1, <1>6 DEF MeantNow
<1> QED BY <1>1, <1>3, <1>4, <1>5, <1>6

\* Every step keeps what pages and requests hold recent.
LEMMA MeantNext == Shape /\ MeantInv /\ [Next]_vars => MeantInv'
<1> SUFFICES ASSUME Shape, MeantInv, [Next]_vars PROVE MeantInv'
  OBVIOUS
<1>1. CASE UNCHANGED vars
  BY <1>1 DEF vars, MeantInv, MeantOK, Recent
<1>2. CASE Next
  <2>1. ASSUME NEW a \in Users, NEW u \in DOMAIN list'[a]
        PROVE  RecentNext(u, list'[a][u].at, Fields, list'[a][u])
    <3>1. CASE u \in DOMAIN list[a] /\ list'[a][u] = list[a][u]
      <4>1. /\ u \in used /\ list[a][u].at \in Nat
            /\ Recent(u, list[a][u].at, Fields, list[a][u])
        BY <3>1 DEF Shape, PagesOK, MeantInv
      <4> QED BY <1>2, <3>1, <4>1, RecentKept
    <3>2. CASE u \in DOMAIN row' /\ list'[a][u] = row'[u]
      BY <1>2, <3>2, RowIsRecent
    <3> QED BY <1>2, <3>1, <3>2, PagesMoveOn DEF Listed
  <2>2. ASSUME NEW a \in Users, form'[a] # NoForm
        PROVE  RecentNext(form'[a].on, form'[a].row.at, Fields, form'[a].row)
    <3>1. CASE form'[a] = form[a]
      <4>1. /\ form[a].on \in used /\ form[a].row.at \in Nat
            /\ Recent(form[a].on, form[a].row.at, Fields, form[a].row)
        BY <2>2, <3>1 DEF Shape, PagesOK, MeantInv
      <4> QED BY <1>2, <3>1, <4>1, RecentKept
    <3>2. ASSUME NEW u \in DOMAIN list[a], form'[a] = [on |-> u, row |-> list[a][u]]
          PROVE  RecentNext(form'[a].on, form'[a].row.at, Fields, form'[a].row)
      <4>1. u \in used /\ list[a][u].at \in Nat /\ Recent(u, list[a][u].at, Fields, list[a][u])
        BY DEF Shape, PagesOK, MeantInv
      <4>2. form'[a].on = u /\ form'[a].row = list[a][u]
        BY <3>2
      <4> QED BY <1>2, <4>1, <4>2, RecentKept
    <3> QED BY <1>2, <2>2, <3>1, <3>2, PagesMoveOn DEF Filled
  <2>3. ASSUME NEW d \in DOMAIN call' PROVE MeantNow(call'[d])
    <3>1. CASE d \in DOMAIN call /\ call'[d] = call[d]
      <4>1. CASE call[d].op \in {"edit", "switch"}
        <5>1. /\ call[d].on \in used /\ call[d].base \in Nat
              /\ Recent(call[d].on, call[d].base, Fields \ call[d].meant,
                        Merged(call[d].got, call[d].want))
          BY <3>1, <4>1 DEF Shape, CallsOK, CallOK, Sends, MeantInv, MeantOK
        <5> QED BY <1>2, <3>1, <5>1, RecentKept DEF MeantNow
      <4> QED BY <3>1, <4>1 DEF MeantNow
    <3>2. CASE Moved(d) /\ UNCHANGED table
      BY <3>2, MovedIsMeant
    <3>3. CASE Asked(d) /\ UNCHANGED table
      BY <3>3, AskedIsMeant
    <3>4. (\E c \in Calls : Asked(c)) => Asked(d) \/ (d \in DOMAIN call /\ call'[d] = call[d])
      BY DEF Asked
    <3> QED BY <1>2, <3>1, <3>2, <3>3, <3>4, NextCalls
  <2>4. \A a \in Users : \A u \in DOMAIN list'[a] :
          Recent(u, list[a][u].at, Fields, list[a][u])'
    BY <2>1 DEF Recent, RecentNext
  <2>5. \A a \in Users : form'[a] # NoForm =>
          Recent(form[a].on, form[a].row.at, Fields, form[a].row)'
    BY <2>2 DEF Recent, RecentNext
  <2>6. \A d \in DOMAIN call' : MeantOK(call[d])'
    BY <2>3 DEF MeantOK, MeantNow, Recent, RecentNext
  <2> QED BY <2>4, <2>5, <2>6 DEF MeantInv
<1> QED BY <1>1, <1>2

\* At the start no page is open and nothing is requested.
LEMMA MeantInit == Init => MeantInv
BY DEF Init, MeantInv, Nothing

\* A change of the table by a request that saves is the row it loaded, with its fields.
LEMMA SavedRow ==
  ASSUME Shape, Next, NEW c \in DOMAIN call, At(c, {"edit", "switch"}, "save"),
         c \notin DOMAIN call', NEW f \in Fields, call[c].on \in DOMAIN row
  PROVE  \/ row'[call[c].on][f] = row[call[c].on][f]
         \/ row'[call[c].on][f] = Merged(call[c].got, call[c].want)[f]
<1>1. SaveUpdate(c)
  <2>1. ASSUME NEW d \in Calls, Issue(d) \/ SaveNew(d) \/ Remove(d) \/ SaveRoom(d)
        PROVE  FALSE
    BY <2>1 DEF Issue, SaveNew, Remove, SaveRoom, At, End
  <2>2. ASSUME NEW d \in Calls, SaveUpdate(d) PROVE d = c
    BY <2>2 DEF SaveUpdate, End
  <2>3. ASSUME NEW d \in Calls, FindLogin(d) \/ CheckNew(d) \/ Load(d) \/ TrySlug(d)
        PROVE  FALSE
    BY <2>3 DEF FindLogin, CheckNew, Load, TrySlug, At, End, Passes
  <2>4. ASSUME NEW d \in Calls, NEW a \in Users, NEW u \in Users, NEW e \in Address,
               \/ SubmitEdit(d, a) \/ SubmitNew(d, a) \/ AskLogin(d, a) \/ AskRoom(d, a)
               \/ Switch(d, a, u) \/ AskDelete(d, a, u) \/ AskRegister(d, e)
        PROVE  FALSE
    BY <2>4, SentShape DEF Asked
  <2>5. ASSUME NEW a \in Users, NEW u \in Users, NEW r,
               \/ OpenPage(a) \/ LoadProfile(a) \/ LoadUsers(a) \/ Logout(a)
               \/ EditUser(a, u) \/ EndRoom(a, r)
        PROVE  FALSE
    BY <2>5 DEF OpenPage, LoadProfile, LoadUsers, Logout, EditUser, EndRoom
  <2>6. \E u, e : u \in Users /\ e \in Address
    BY DEF Address
  <2> QED BY <2>1, <2>2, <2>3, <2>4, <2>5, <2>6 DEF Next
<1> DEFINE u == call[c].on
           new == Merged(call[c].got, call[c].want)
<1>2. PICK at : \/ row' = row
                \/ Writes(c, u, [email |-> new.email, role |-> new.role, active |-> new.active,
                                 at |-> at])
  BY <1>1 DEF SaveUpdate
<1>3. CASE row' = row
  BY <1>3
<1>4. CASE Writes(c, u, [email |-> new.email, role |-> new.role, active |-> new.active, at |-> at])
  <2>1. row'[u] = [email |-> new.email, role |-> new.role, active |-> new.active, at |-> at]
    BY <1>4 DEF Writes
  <2>2. row'[u][f] = new[f]
    BY <2>1 DEF Fields
  <2> QED BY <2>2
<1> QED BY <1>2, <1>3, <1>4

\* ChangesAreMeant of every instance: whatever forms, lists and other requests are old by
\* then, a save changes what its sender changed, unless the row was saved since it was read.
THEOREM SavesAreMeant == Spec => ChangesAreMeant
<1> DEFINE A == \A c \in DOMAIN call : \A u \in DOMAIN row \intersect DOMAIN row' :
       At(c, {"edit", "switch"}, "save") /\ call[c].on = u /\ c \notin DOMAIN call' =>
         \A f \in Fields : \/ row'[u][f] = row[u][f] \/ f \in call[c].meant
                           \/ call[c].base < row[u].at \/ u \in deleted
<1>1. Shape /\ MeantInv /\ [Next]_vars => [A]_vars
  <2> SUFFICES ASSUME Shape, MeantInv, Next,
                      NEW c \in DOMAIN call, NEW u \in DOMAIN row \intersect DOMAIN row',
                      At(c, {"edit", "switch"}, "save"), call[c].on = u, c \notin DOMAIN call',
                      NEW f \in Fields, f \notin call[c].meant,
                      ~(call[c].base < row[u].at), u \notin deleted
               PROVE  row'[u][f] = row[u][f]
    OBVIOUS
  <2>1. MeantOK(call[c]) /\ call[c].op \in {"edit", "switch"} /\ call[c].base \in Nat
    BY DEF MeantInv, At, Shape, CallsOK, CallOK
  <2>2. row[u].at \in Nat
    BY DEF Shape, RowsOK
  <2>3. Merged(call[c].got, call[c].want)[f] = row[u][f]
    BY <2>1, <2>2 DEF MeantOK, Recent
  <2> QED BY <2>3, SavedRow
<1> QED BY <1>1, ShapeInit, ShapeNext, MeantInit, MeantNext, PTL DEF Spec, ChangesAreMeant

-----------------------------------------------------------------------------
(* There is always somebody to govern.                                     *)

\* u is an active admin after the step.
GovernsNext(u) == u \in DOMAIN row' /\ row'[u].active /\ row'[u].role = "admin"

\* The sender of a save that is not a misrule governs after it: the save is about somebody
\* else, or keeps the role and the access it finds.
LEMMA SaveKeepsItsSender ==
  ASSUME Shape, NEW c \in Calls, SaveUpdate(c) \/ Remove(c), ~misrule'
  PROVE  row' = row \/ (call[c].by \in Users /\ GovernsNext(call[c].by))
<1> DEFINE a == call[c].by
           u == call[c].on
           new == Merged(call[c].got, call[c].want)
<1>1. a \in Users /\ a # None /\ CallOK(call[c])
  BY DEF SaveUpdate, Remove, At, Shape, CallsOK, CallOK, Sends
<1>2. ASSUME NEW r, Writes(c, u, r), r.role = new.role, r.active = new.active,
             call[c].op \in {"edit", "switch"}
      PROVE  GovernsNext(a)
  <2>1. Governs(a) /\ (a = u => ~TakesBack(c))
    BY <1>1, <1>2 DEF Writes
  <2>2. CASE a # u
    BY <1>2, <2>1, <2>2 DEF Writes, Governs, GovernsNext
  <2>3. ASSUME a = u, new.active, new.role = "admin" PROVE GovernsNext(a)
    BY <1>2, <2>3 DEF Writes, GovernsNext
  <2>4. CASE a = u /\ call[c].op = "edit"
    <3>1. call[c].want.active /\ call[c].want.role = "admin"
      BY <2>1, <2>4 DEF TakesBack
    <3>2. new.active = call[c].want.active /\ new.role = call[c].want.role
      BY <1>1, <2>4 DEF CallOK, Merged, Fields
    <3> QED BY <2>3, <2>4, <3>1, <3>2
  <2>5. CASE a = u /\ call[c].op = "switch"
    <3>1. call[c].got = row[a] /\ row[a].role = "admin"
      BY <2>1, <2>5 DEF TakesBack, Governs
    <3>2. new.active = TRUE /\ new.role = call[c].got.role
      BY <1>1, <2>5 DEF CallOK, Merged, Fields
    <3> QED BY <2>3, <2>5, <3>1, <3>2
  <2> QED BY <1>2, <2>2, <2>4, <2>5
<1>3. CASE SaveUpdate(c)
  <2>1. call[c].op \in {"edit", "switch"}
    BY <1>3 DEF SaveUpdate, At
  <2>2. \/ row' = row
        \/ \E r : Writes(c, u, r) /\ r.role = new.role /\ r.active = new.active
    BY <1>3 DEF SaveUpdate
  <2> HIDE DEF new
  <2> QED BY <1>1, <1>2, <2>1, <2>2
<1>4. CASE Remove(c)
  <2>1. Governs(a) /\ a # u
    BY <1>1, <1>4 DEF Remove, At, CallOK
  <2> QED BY <1>1, <1>4, <2>1 DEF Remove, Governs, GovernsNext
<1> QED BY <1>3, <1>4

\* A new row leaves the others as they are.
LEMMA NewRowGoverns ==
  ASSUME Shape, NEW c \in Calls, SaveNew(c), NEW u \in Users, Governs(u)
  PROVE  GovernsNext(u)
<1>1. CASE row' = row
  BY <1>1 DEF Governs, GovernsNext
<1>2. ASSUME NEW v \in Users \ used, NEW r, Writes(c, v, r) PROVE GovernsNext(u)
  BY <1>2 DEF Writes, Governs, GovernsNext, Shape, RowsOK
<1>3. row' = row \/ \E v \in Users \ used : \E r : Writes(c, v, r)
  BY DEF SaveNew
<1> QED BY <1>1, <1>2, <1>3

\* Every step keeps somebody.
LEMMA GovNext == Shape /\ SomeoneGoverns /\ [Next]_vars => SomeoneGoverns'
<1> SUFFICES ASSUME Shape, SomeoneGoverns, [Next]_vars PROVE SomeoneGoverns'
  OBVIOUS
<1>1. CASE UNCHANGED vars
  BY <1>1 DEF vars, SomeoneGoverns, Governs
<1>2. CASE Next /\ ~misrule'
  <2>1. ~misrule
    BY <1>2, OnlySaves DEF table, SaveNew, SaveUpdate, Remove, Writes
  <2>2. PICK u \in Users : Governs(u)
    BY <2>1 DEF SomeoneGoverns
  <2>3. \E v \in Users : GovernsNext(v)
    <3>1. CASE row' = row
      BY <2>2, <3>1 DEF Governs, GovernsNext
    <3> QED BY <1>2, <2>2, <3>1, OnlySaves, SaveKeepsItsSender, NewRowGoverns DEF table
  <2> QED BY <2>3 DEF SomeoneGoverns, Governs, GovernsNext
<1> QED BY <1>1, <1>2 DEF SomeoneGoverns

\* At the start the founders govern.
LEMMA GovInit == Init => SomeoneGoverns
BY DEF Init, SomeoneGoverns, Governs

\* SomeoneGoverns of every instance: however many admins remove, switch off and demote each
\* other at once, whatever lists and forms are old by then, one of them remains, unless a
\* form took away its sender's own role, a save about its sender wrote back a row read
\* earlier, or an outlived token was used.
THEOREM SomeoneRemains == Spec => []SomeoneGoverns
BY ShapeInit, ShapeNext, GovInit, GovNext, PTL DEF Spec

-----------------------------------------------------------------------------
(* Addresses and slugs differ.                                             *)

NamesInv == NamesDiffer /\ \A r \in DOMAIN rooms : DOMAIN rooms[r] = {"slug", "host", "ended"}

\* Every step keeps the addresses apart.
LEMMA EmailsNext ==
  ASSUME Shape, NamesDiffer, Next
  PROVE  \A u, v \in DOMAIN row' : u # v => row'[u].email # row'[v].email
<1>1. CASE row' = row
  BY <1>1 DEF NamesDiffer
<1>2. ASSUME NEW c \in Calls, NEW u, NEW r, Writes(c, u, r),
             \A v \in DOMAIN row \ {u} : row[v].email # r.email
      PROVE  \A v, w \in DOMAIN row' : v # w => row'[v].email # row'[w].email
  BY <1>2 DEF Writes, NamesDiffer
<1>3. ASSUME NEW c \in Calls, SaveNew(c), row' # row
      PROVE  \E u, r : Writes(c, u, r) /\ \A v \in DOMAIN row \ {u} : row[v].email # r.email
  BY <1>3 DEF SaveNew, AcceptsUser, EmailFree, Shape, RowsOK
<1>4. ASSUME NEW c \in Calls, SaveUpdate(c), row' # row
      PROVE  \E u, r : Writes(c, u, r) /\ \A v \in DOMAIN row \ {u} : row[v].email # r.email
  BY <1>4 DEF SaveUpdate, AcceptsUser, EmailFree
<1>5. ASSUME NEW c \in Calls, Remove(c)
      PROVE  \A v, w \in DOMAIN row' : v # w => row'[v].email # row'[w].email
  BY <1>5 DEF Remove, NamesDiffer
<1> QED BY <1>1, <1>2, <1>3, <1>4, <1>5, OnlySaves DEF table

\* Only creating, ending and the cascade change the rooms.
LEMMA OnlyTheseRooms ==
  ASSUME Next
  PROVE  \/ rooms' = rooms
         \/ \E c \in Calls : SaveRoom(c) \/ Remove(c)
         \/ \E a \in Users, r \in 1 .. MaxRooms : EndRoom(a, r)
<1>1. ASSUME NEW c \in Calls, NEW a \in Users, NEW u \in Users, NEW e \in Address,
             \/ SubmitEdit(c, a) \/ SubmitNew(c, a) \/ AskLogin(c, a) \/ AskRoom(c, a)
             \/ Switch(c, a, u) \/ AskDelete(c, a, u) \/ AskRegister(c, e)
             \/ FindLogin(c) \/ Issue(c) \/ CheckNew(c) \/ SaveNew(c) \/ Load(c)
             \/ SaveUpdate(c) \/ TrySlug(c)
      PROVE  rooms' = rooms
  BY <1>1 DEF SubmitEdit, SubmitNew, AskLogin, AskRoom, Switch, AskDelete, AskRegister,
              FindLogin, Issue, CheckNew, SaveNew, Load, SaveUpdate, TrySlug
<1>2. ASSUME NEW a \in Users, NEW u \in Users,
             OpenPage(a) \/ LoadProfile(a) \/ LoadUsers(a) \/ Logout(a) \/ EditUser(a, u)
      PROVE  rooms' = rooms
  BY <1>2 DEF OpenPage, LoadProfile, LoadUsers, Logout, EditUser
<1>3. \E u, e : u \in Users /\ e \in Address
  BY DEF Address
<1> QED BY <1>1, <1>2, <1>3 DEF Next

\* Every step keeps the slugs apart.
LEMMA SlugsNext ==
  ASSUME NamesInv, Next
  PROVE  /\ \A r, q \in DOMAIN rooms' : r # q => rooms'[r].slug # rooms'[q].slug
         /\ \A r \in DOMAIN rooms' : DOMAIN rooms'[r] = {"slug", "host", "ended"}
<1>1. CASE rooms' = rooms
  BY <1>1 DEF NamesInv, NamesDiffer
<1>2. ASSUME NEW c \in Calls, SaveRoom(c), rooms' # rooms
      PROVE  /\ \A r, q \in DOMAIN rooms' : r # q => rooms'[r].slug # rooms'[q].slug
             /\ \A r \in DOMAIN rooms' : DOMAIN rooms'[r] = {"slug", "host", "ended"}
  <2>1. PICK r \in (1 .. MaxRooms) \ DOMAIN rooms :
          rooms' = [q \in DOMAIN rooms \union {r} |->
                      IF q = r THEN [slug |-> call[c].n, host |-> call[c].on, ended |-> FALSE]
                      ELSE rooms[q]]
    BY <1>2 DEF SaveRoom
  <2>2. /\ DOMAIN rooms' = DOMAIN rooms \union {r} /\ rooms'[r].slug = call[c].n
        /\ DOMAIN rooms'[r] = {"slug", "host", "ended"}
        /\ \A q \in DOMAIN rooms : rooms'[q] = rooms[q]
    BY <2>1
  <2>3. \A q \in DOMAIN rooms : rooms[q].slug # call[c].n
    BY <1>2 DEF SaveRoom, AcceptsRoom, SlugFree
  <2> QED BY <2>2, <2>3 DEF NamesInv, NamesDiffer
<1>3. ASSUME NEW c \in Calls, Remove(c)
      PROVE  /\ \A r, q \in DOMAIN rooms' : r # q => rooms'[r].slug # rooms'[q].slug
             /\ \A r \in DOMAIN rooms' : DOMAIN rooms'[r] = {"slug", "host", "ended"}
  BY <1>3 DEF Remove, NamesInv, NamesDiffer
<1>4. ASSUME NEW u, NEW r, EndRoom(u, r)
      PROVE  /\ \A p, q \in DOMAIN rooms' : p # q => rooms'[p].slug # rooms'[q].slug
             /\ \A p \in DOMAIN rooms' : DOMAIN rooms'[p] = {"slug", "host", "ended"}
  <2>1. /\ DOMAIN rooms' = DOMAIN rooms
        /\ \A q \in DOMAIN rooms : /\ DOMAIN rooms'[q] = DOMAIN rooms[q]
                                   /\ rooms'[q].slug = rooms[q].slug
    BY <1>4 DEF EndRoom, NamesInv
  <2> QED BY <2>1 DEF NamesInv, NamesDiffer
<1> QED BY <1>1, <1>2, <1>3, <1>4, OnlyTheseRooms

\* NamesDiffer of every instance: whatever passes its check at once, the constraints keep two
\* users from one address and two rooms from one slug.
THEOREM NamesStayDifferent == Spec => []NamesDiffer
<1>1. Init => NamesInv
  BY DEF Init, NamesInv, NamesDiffer
<1>2. Shape /\ NamesInv /\ [Next]_vars => NamesInv'
  <2>1. Shape /\ NamesInv /\ Next => NamesInv'
    BY EmailsNext, SlugsNext DEF NamesInv, NamesDiffer
  <2>2. NamesInv /\ UNCHANGED vars => NamesInv'
    BY DEF vars, NamesInv, NamesDiffer
  <2> QED BY <2>1, <2>2
<1>3. NamesInv => NamesDiffer
  BY DEF NamesInv
<1> QED BY <1>1, <1>2, <1>3, ShapeInit, ShapeNext, PTL DEF Spec
-----------------------------------------------------------------------------
(* The types.  Every request saves at most once, so that the requests that are done bound *)
(* the number of a row's saves and the suffix of a slug, wherever they have been copied.   *)

Done == requests - Cardinality(DOMAIN call)

CountInv == IsFiniteSet(DOMAIN call) /\ Done \in Nat /\ requests \in 0 .. MaxRequests

RowBy(b) == [email : Address, role : Roles, active : BOOLEAN, at : 1 .. b + 1]

RoomBy(b) == [slug : 1 .. b, host : Users, ended : BOOLEAN]

CallBy(k, b) ==
  /\ k.op \in {"register", "create", "edit", "switch", "delete", "login", "room"}
  /\ k.pc \in {"check", "save"}
  /\ k.by \in Users \union {None} /\ k.on \in Users \union {None}
  /\ IsWant(k.want) /\ k.meant \subseteq Fields
  /\ k.got \in RowBy(b) \union {NoRow} /\ k.base \in 0 .. b + 1 /\ k.n \in 0 .. b + 1
  /\ k.op \in {"register", "create"} => DOMAIN k.want = Fields
  /\ k.op \in {"login", "room"} => k.on \in Users
  /\ k.pc = "save" => /\ k.op \in {"edit", "switch"} => k.got \in RowBy(b)
                      /\ k.op = "room" => k.n # 0

RowsTyped == \A u \in DOMAIN row : row[u] \in RowBy(Done)

RoomsTyped ==
  /\ DOMAIN rooms \subseteq 1 .. MaxRooms
  /\ \A r \in DOMAIN rooms : rooms[r] \in RoomBy(Done) /\ rooms[r].host \in DOMAIN row

PagesTyped ==
  /\ token \in [Users -> Roles \union {None}]
  /\ \A a \in Users : \A u \in DOMAIN list[a] : list[a][u] \in RowBy(Done)
  /\ \A a \in Users : form[a] = NoForm \/ form[a] \in [on : Users, row : RowBy(Done)]

CallsTyped == DOMAIN call \subseteq Calls /\ \A c \in DOMAIN call : CallBy(call[c], Done)

TypeInv ==
  /\ CountInv /\ RowsTyped /\ RoomsTyped /\ PagesTyped /\ CallsTyped
  /\ deleted \subseteq Users /\ misrule \in BOOLEAN

\* The bounds only grow.
LEMMA BoundsGrow ==
  ASSUME NEW b \in Nat, NEW d \in Nat, b <= d
  PROVE  /\ RowBy(b) \subseteq RowBy(d) /\ RoomBy(b) \subseteq RoomBy(d)
         /\ \A k : CallBy(k, b) => CallBy(k, d)
<1>1. 1 .. b + 1 \subseteq 1 .. d + 1 /\ 1 .. b \subseteq 1 .. d /\ 0 .. b + 1 \subseteq 0 .. d + 1
  OBVIOUS
<1>2. RowBy(b) \subseteq RowBy(d)
  BY <1>1 DEF RowBy
<1>3. RoomBy(b) \subseteq RoomBy(d)
  BY <1>1 DEF RoomBy
<1>4. ASSUME NEW k, CallBy(k, b) PROVE CallBy(k, d)
  BY <1>1, <1>2, <1>4 DEF CallBy
<1> QED BY <1>2, <1>3, <1>4

\* A request that has been sent, and one that ends.
LEMMA CountBegun ==
  ASSUME CountInv, NEW c, NEW k, Begin(c, k), Counted
  PROVE  CountInv' /\ Done' = Done
<1>1. DOMAIN call' = DOMAIN call \union {c} /\ c \notin DOMAIN call
  BY DEF Begin
<1>2. /\ IsFiniteSet(DOMAIN call') /\ Cardinality(DOMAIN call') = Cardinality(DOMAIN call) + 1
      /\ Cardinality(DOMAIN call) \in Nat
  BY <1>1, FS_AddElement, FS_CardinalityType DEF CountInv
<1> QED BY <1>2 DEF CountInv, Counted, Done

LEMMA CountEnded ==
  ASSUME CountInv, NEW c \in DOMAIN call, End(c), requests' = requests
  PROVE  CountInv' /\ Done' = Done + 1
<1>1. DOMAIN call' = DOMAIN call \ {c}
  BY DEF End
<1>2. /\ IsFiniteSet(DOMAIN call') /\ Cardinality(DOMAIN call') = Cardinality(DOMAIN call) - 1
      /\ Cardinality(DOMAIN call) \in Nat
  BY <1>1, FS_RemoveElement, FS_CardinalityType DEF CountInv
<1> QED BY <1>2 DEF CountInv, Done

LEMMA CountKept ==
  ASSUME CountInv, DOMAIN call' = DOMAIN call, requests' = requests
  PROVE  CountInv' /\ Done' = Done
BY DEF CountInv, Done

\* Every step keeps the count, and a save raises it.
LEMMA CountNext ==
  ASSUME CountInv, Next
  PROVE  CountInv' /\ Done \in Nat /\ Done' \in Nat /\ Done <= Done'
<1>1. ASSUME NEW c \in Calls, NEW a \in Users, NEW u \in Users, NEW e \in Address,
             \/ SubmitEdit(c, a) \/ SubmitNew(c, a) \/ Switch(c, a, u) \/ AskDelete(c, a, u)
             \/ AskRegister(c, e) \/ AskLogin(c, a) \/ AskRoom(c, a)
      PROVE  CountInv' /\ Done' = Done
  <2>1. Counted /\ \E k : Begin(c, k)
    BY <1>1 DEF SubmitEdit, SubmitNew, Switch, AskDelete, AskRegister, AskLogin, AskRoom
  <2> QED BY <2>1, CountBegun
<1>2. ASSUME NEW c \in Calls, FindLogin(c) \/ CheckNew(c) \/ Load(c) \/ TrySlug(c)
      PROVE  CountInv' /\ Done' \in {Done, Done + 1}
  <2>1. c \in DOMAIN call /\ requests' = requests /\ (End(c) \/ DOMAIN call' = DOMAIN call)
    BY <1>2 DEF FindLogin, CheckNew, Load, TrySlug, At, Passes
  <2> QED BY <2>1, CountEnded, CountKept
<1>3. ASSUME NEW c \in Calls, Issue(c) \/ SaveNew(c) \/ SaveUpdate(c) \/ Remove(c) \/ SaveRoom(c)
      PROVE  CountInv' /\ Done' = Done + 1
  <2>1. c \in DOMAIN call /\ requests' = requests /\ End(c)
    BY <1>3 DEF Issue, SaveNew, SaveUpdate, Remove, SaveRoom, At
  <2> QED BY <2>1, CountEnded
<1>4. ASSUME NEW a \in Users, NEW u \in Users,
             OpenPage(a) \/ LoadProfile(a) \/ LoadUsers(a) \/ Logout(a) \/ EditUser(a, u)
      PROVE  CountInv' /\ Done' = Done
  <2>1. call' = call /\ requests' = requests
    BY <1>4 DEF OpenPage, LoadProfile, LoadUsers, Logout, EditUser
  <2> QED BY <2>1, CountKept
<1>5. ASSUME NEW a \in Users, NEW r, EndRoom(a, r)
      PROVE  CountInv' /\ Done' = Done + 1
  <2>1. call' = call /\ requests' = requests + 1 /\ requests < MaxRequests
    BY <1>5 DEF EndRoom, Counted
  <2>2. Cardinality(DOMAIN call) \in Nat
    BY FS_CardinalityType DEF CountInv
  <2> QED BY <2>1, <2>2 DEF CountInv, Done
<1>6. \E u, e : u \in Users /\ e \in Address
  BY DEF Address
<1>7. CountInv' /\ Done' \in {Done, Done + 1}
  BY <1>1, <1>2, <1>3, <1>4, <1>5, <1>6 DEF Next
<1>8. Done \in Nat
  BY DEF CountInv
<1> QED BY <1>7, <1>8

\* What SaveNew and SaveUpdate write is a row.
LEMMA NewRowTyped ==
  ASSUME TypeInv, Shape, NEW c \in Calls, SaveNew(c), row' # row
  PROVE  \E u \in Users : \E r \in RowBy(Done') : Writes(c, u, r)
<1> DEFINE want == call[c].want
<1>1. c \in DOMAIN call /\ call[c].op \in {"register", "create"} /\ Done \in Nat
  BY DEF SaveNew, At, TypeInv, CountInv
<1>2. DOMAIN want = Fields /\ IsWant(want)
  BY <1>1 DEF TypeInv, CallsTyped, CallBy
<1>3. want.email \in Address /\ want.role \in Roles /\ want.active \in BOOLEAN
  BY <1>2 DEF IsWant, Fields
<1>4. PICK u \in Users :
        Writes(c, u, [email |-> want.email, role |-> want.role, active |-> want.active,
                      at |-> 1])
  BY DEF SaveNew
<1>5. Done' \in Nat
  BY <1>1, CountEnded DEF SaveNew, TypeInv
<1>6. [email |-> want.email, role |-> want.role, active |-> want.active, at |-> 1]
        \in RowBy(Done')
  <2>1. \A n \in Nat : 1 \in 1 .. n + 1
    OBVIOUS
  <2>2. 1 \in 1 .. Done' + 1
    BY <1>5, <2>1
  <2> QED BY <1>3, <2>2 DEF RowBy
<1> QED BY <1>4, <1>6

LEMMA UpdatedRowTyped ==
  ASSUME TypeInv, Shape, NEW c \in Calls, SaveUpdate(c), row' # row
  PROVE  \E u \in Users : \E r \in RowBy(Done') : Writes(c, u, r)
<1> DEFINE u == call[c].on
           new == Merged(call[c].got, call[c].want)
           at == IF u \in DOMAIN row THEN row[u].at ELSE call[c].got.at
           r == [email |-> new.email, role |-> new.role, active |-> new.active, at |-> at + 1]
<1>1. /\ c \in DOMAIN call /\ call[c].op \in {"edit", "switch"} /\ call[c].pc = "save"
      /\ Done \in Nat /\ u \in Users
  BY DEF SaveUpdate, At, TypeInv, CountInv, Shape, CallsOK, CallOK, Sends
<1>2. IsWant(call[c].want) /\ call[c].got \in RowBy(Done)
  BY <1>1 DEF TypeInv, CallsTyped, CallBy
<1>3. new.email \in Address /\ new.role \in Roles /\ new.active \in BOOLEAN
  BY <1>2 DEF IsWant, Merged, Fields, RowBy
<1>4. at \in 1 .. Done + 1
  <2>1. u \in DOMAIN row => row[u] \in RowBy(Done)
    BY DEF TypeInv, RowsTyped
  <2> QED BY <1>2, <2>1 DEF RowBy
<1>5. Done' = Done + 1
  BY <1>1, CountEnded DEF SaveUpdate, TypeInv
<1>6. r \in RowBy(Done')
  <2>1. at + 1 \in 1 .. Done' + 1
    BY <1>1, <1>4, <1>5
  <2> HIDE DEF at, new
  <2> QED BY <1>3, <2>1 DEF RowBy
<1>7. Writes(c, u, r)
  BY DEF SaveUpdate
<1> QED BY <1>1, <1>6, <1>7

LEMMA RowsNext ==
  ASSUME TypeInv, Shape, Next
  PROVE  RowsTyped' /\ deleted' \subseteq Users /\ misrule' \in BOOLEAN
<1>1. /\ RowBy(Done) \subseteq RowBy(Done') /\ RowsTyped
      /\ deleted \subseteq Users /\ misrule \in BOOLEAN
  BY CountNext, BoundsGrow DEF TypeInv
<1>2. CASE UNCHANGED table
  BY <1>1, <1>2 DEF table, RowsTyped
<1>3. ASSUME NEW c, NEW u \in Users, NEW r \in RowBy(Done'), Writes(c, u, r)
      PROVE  RowsTyped' /\ misrule' \in BOOLEAN
  <2>1. misrule' \in BOOLEAN
    BY <1>1, <1>3 DEF Writes
  <2>2. \A v \in DOMAIN row' : row'[v] = r \/ (v \in DOMAIN row /\ row'[v] = row[v])
    BY <1>3 DEF Writes
  <2> QED BY <1>1, <2>1, <2>2 DEF RowsTyped
<1>4. ASSUME NEW c \in Calls, SaveNew(c) \/ SaveUpdate(c)
      PROVE  RowsTyped' /\ deleted' \subseteq Users /\ misrule' \in BOOLEAN
  <2>1. deleted' = deleted
    BY <1>4 DEF SaveNew, SaveUpdate
  <2>2. CASE row' # row
    BY <1>1, <1>3, <1>4, <2>1, <2>2, NewRowTyped, UpdatedRowTyped
  <2>3. CASE row' = row
    <3>1. misrule' = misrule \/ \E u, r : Writes(c, u, r)
      BY <1>4 DEF SaveNew, SaveUpdate
    <3>2. misrule' \in BOOLEAN
      BY <1>1, <3>1 DEF Writes
    <3> QED BY <1>1, <2>1, <2>3, <3>2 DEF RowsTyped
  <2> QED BY <2>2, <2>3
<1>5. ASSUME NEW c \in Calls, Remove(c)
      PROVE  RowsTyped' /\ deleted' \subseteq Users /\ misrule' \in BOOLEAN
  <2>1. call[c].on \in Users
    BY <1>5 DEF Remove, At, Shape, CallsOK, CallOK, Sends
  <2>2. deleted' \subseteq Users /\ misrule' \in BOOLEAN
    BY <1>1, <1>5, <2>1 DEF Remove
  <2>3. \A v \in DOMAIN row' : v \in DOMAIN row /\ row'[v] = row[v]
    BY <1>5 DEF Remove
  <2> QED BY <1>1, <2>2, <2>3 DEF RowsTyped
<1> QED BY <1>2, <1>4, <1>5, OnlySaves

\* Lists and forms hold rows, and tokens roles.
LEMMA PagesNext ==
  ASSUME TypeInv, Shape, Next, RowsTyped'
  PROVE  PagesTyped'
<1>1. RowBy(Done) \subseteq RowBy(Done') /\ PagesTyped /\ RowsTyped
  BY CountNext, BoundsGrow DEF TypeInv
<1>2. ASSUME NEW a \in Users, NEW u \in DOMAIN list'[a]
      PROVE  list'[a][u] \in RowBy(Done')
  <2>1. Listed(a)
    BY PagesMoveOn
  <2> QED BY <1>1, <1>2, <2>1 DEF Listed, PagesTyped, RowsTyped
<1>3. ASSUME NEW a \in Users, form'[a] # NoForm
      PROVE  form'[a] \in [on : Users, row : RowBy(Done')]
  <2>1. CASE form'[a] = form[a]
    BY <1>1, <1>3, <2>1 DEF PagesTyped
  <2>2. ASSUME NEW u \in DOMAIN list[a], form'[a] = [on |-> u, row |-> list[a][u]]
        PROVE  form'[a] \in [on : Users, row : RowBy(Done')]
    <3>1. u \in Users /\ list[a][u] \in RowBy(Done')
      BY <1>1 DEF PagesTyped, Shape, PagesOK, RowsOK
    <3> QED BY <2>2, <3>1
  <2> QED BY <1>3, <2>1, <2>2, PagesMoveOn DEF Filled
<1>4. token' \in [Users -> Roles \union {None}]
  <2>1. token \in [Users -> Roles \union {None}]
    BY <1>1 DEF PagesTyped
  <2>2. ASSUME NEW c \in Calls, Issue(c) PROVE token' \in [Users -> Roles \union {None}]
    <3>1. call[c].got.role \in Roles
      BY <2>2 DEF Issue, At, TypeInv, CallsTyped, CallBy, RowBy, NoRow, Roles
    <3> QED BY <2>1, <2>2, <3>1 DEF Issue
  <2>3. ASSUME NEW c \in Calls, SaveNew(c) PROVE token' \in [Users -> Roles \union {None}]
    BY <2>1, <2>3 DEF SaveNew, Roles, pages
  <2>4. ASSUME NEW a \in Users, Logout(a) PROVE token' \in [Users -> Roles \union {None}]
    BY <2>1, <2>4 DEF Logout
  <2>5. ASSUME NEW c \in Calls, NEW a \in Users, NEW u \in Users, NEW e \in Address,
               \/ SubmitEdit(c, a) \/ SubmitNew(c, a) \/ AskLogin(c, a) \/ AskRoom(c, a)
               \/ Switch(c, a, u) \/ AskDelete(c, a, u) \/ AskRegister(c, e)
               \/ FindLogin(c) \/ CheckNew(c) \/ Load(c) \/ SaveUpdate(c) \/ Remove(c)
               \/ TrySlug(c) \/ SaveRoom(c)
        PROVE  token' = token
    BY <2>5 DEF SubmitEdit, SubmitNew, AskLogin, AskRoom, Switch, AskDelete, AskRegister,
                FindLogin, CheckNew, Load, SaveUpdate, Remove, TrySlug, SaveRoom, pages
  <2>6. ASSUME NEW a \in Users, NEW u \in Users, NEW r,
               \/ OpenPage(a) \/ LoadProfile(a) \/ LoadUsers(a)
               \/ EditUser(a, u) \/ EndRoom(a, r)
        PROVE  token' = token
    BY <2>6 DEF OpenPage, LoadProfile, LoadUsers, EditUser, EndRoom, pages
  <2>7. \E u, e : u \in Users /\ e \in Address
    BY DEF Address
  <2> QED BY <2>1, <2>2, <2>3, <2>4, <2>5, <2>6, <2>7 DEF Next
<1> QED BY <1>2, <1>3, <1>4 DEF PagesTyped

\* The constraints keep a room's host in the table, and a slug below the number of saves.
LEMMA RoomsNext ==
  ASSUME TypeInv, Shape, Next
  PROVE  RoomsTyped'
<1>1. /\ RoomBy(Done) \subseteq RoomBy(Done') /\ RoomsTyped /\ Done \in Nat
      /\ DOMAIN rooms \subseteq 1 .. MaxRooms
      /\ \A r \in DOMAIN rooms : rooms[r] \in RoomBy(Done) /\ rooms[r].host \in DOMAIN row
  BY CountNext, BoundsGrow DEF TypeInv, RoomsTyped
<1>2. ASSUME NEW c \in Calls, Remove(c) PROVE RoomsTyped'
  <2>1. /\ DOMAIN rooms' \subseteq DOMAIN rooms /\ DOMAIN row' = DOMAIN row \ {call[c].on}
        /\ \A r \in DOMAIN rooms' : rooms'[r] = rooms[r] /\ rooms[r].host # call[c].on
    BY <1>2 DEF Remove
  <2>2. \A r \in DOMAIN rooms' : rooms'[r] \in RoomBy(Done') /\ rooms'[r].host \in DOMAIN row'
    BY <1>1, <2>1
  <2> QED BY <1>1, <2>1, <2>2 DEF RoomsTyped
<1>3. ASSUME \A c \in Calls : ~Remove(c) PROVE DOMAIN row \subseteq DOMAIN row'
  <2>1. ASSUME NEW c \in Calls, SaveNew(c) \/ SaveUpdate(c)
        PROVE  row' = row \/ \E u, r : Writes(c, u, r)
    BY <2>1 DEF SaveNew, SaveUpdate
  <2> QED BY <1>3, <2>1, OnlySaves DEF Writes, table
<1>4. ASSUME rooms' = rooms, \A c \in Calls : ~Remove(c) PROVE RoomsTyped'
  <2>1. \A r \in DOMAIN rooms' : rooms'[r] \in RoomBy(Done') /\ rooms'[r].host \in DOMAIN row'
    BY <1>1, <1>3, <1>4
  <2> QED BY <1>1, <1>4, <2>1 DEF RoomsTyped
<1>5. ASSUME NEW c \in Calls, SaveRoom(c), rooms' # rooms PROVE RoomsTyped'
  <2>1. PICK r \in (1 .. MaxRooms) \ DOMAIN rooms :
          rooms' = [q \in DOMAIN rooms \union {r} |->
                      IF q = r THEN [slug |-> call[c].n, host |-> call[c].on, ended |-> FALSE]
                      ELSE rooms[q]]
    BY <1>5 DEF SaveRoom
  <2>2. /\ call[c].on \in DOMAIN row /\ row' = row /\ c \in DOMAIN call
        /\ call[c].op = "room" /\ call[c].pc = "save"
    BY <1>5 DEF SaveRoom, AcceptsRoom, At, table
  <2>3. call[c].n \in 1 .. Done + 1 /\ call[c].on \in Users
    BY <1>1, <2>2 DEF TypeInv, CallsTyped, CallBy
  <2>4. Done' = Done + 1
    BY <1>5, <2>2, CountEnded DEF SaveRoom, TypeInv
  <2>5. [slug |-> call[c].n, host |-> call[c].on, ended |-> FALSE] \in RoomBy(Done')
    BY <2>3, <2>4 DEF RoomBy
  <2> DEFINE new == [slug |-> call[c].n, host |-> call[c].on, ended |-> FALSE]
  <2>6. new \in RoomBy(Done') /\ new.host \in DOMAIN row'
    BY <2>2, <2>5
  <2>7. /\ DOMAIN rooms' = DOMAIN rooms \union {r} /\ rooms'[r] = new
        /\ \A q \in DOMAIN rooms : rooms'[q] = rooms[q]
    BY <2>1
  <2> HIDE DEF new
  <2>8. \A q \in DOMAIN rooms' : rooms'[q] \in RoomBy(Done') /\ rooms'[q].host \in DOMAIN row'
    BY <1>1, <2>2, <2>6, <2>7
  <2> QED BY <1>1, <2>7, <2>8 DEF RoomsTyped
<1>6. ASSUME NEW a \in Users, NEW r \in 1 .. MaxRooms, EndRoom(a, r) PROVE RoomsTyped'
  <2>1. row' = row /\ rooms' = [rooms EXCEPT ![r].ended = TRUE] /\ r \in DOMAIN rooms
    BY <1>6 DEF EndRoom, table
  <2>2. ASSUME NEW q \in DOMAIN rooms
        PROVE  rooms'[q] \in RoomBy(Done) /\ rooms'[q].host = rooms[q].host
    BY <1>1, <2>1 DEF RoomBy
  <2>3. \A q \in DOMAIN rooms' : rooms'[q] \in RoomBy(Done') /\ rooms'[q].host \in DOMAIN row'
    BY <1>1, <2>1, <2>2
  <2> QED BY <1>1, <2>1, <2>3 DEF RoomsTyped
<1> QED BY <1>2, <1>4, <1>5, <1>6, OnlyTheseRooms DEF SaveRoom, Remove, EndRoom

\* A request is one of Calls, and holds fields and a row of the right kind, from its start.
LEMMA AskedTyped ==
  ASSUME TypeInv, Shape, NEW c \in Calls, NEW a \in Users, NEW u \in Users, NEW e \in Address,
         \/ SubmitEdit(c, a) \/ SubmitNew(c, a) \/ Switch(c, a, u) \/ AskDelete(c, a, u)
         \/ AskRegister(c, e) \/ AskLogin(c, a) \/ AskRoom(c, a)
  PROVE  \E k : Begin(c, k) /\ Counted /\ CallBy(k, Done)
<1>1. /\ Counted /\ Done \in Nat /\ PagesTyped
  BY DEF SubmitEdit, SubmitNew, Switch, AskDelete, AskRegister, AskLogin, AskRoom, TypeInv,
         CountInv
<1>2. ASSUME NEW op \in {"register", "create", "edit", "switch", "delete", "login", "room"},
             NEW by \in Users \union {None}, NEW on \in Users \union {None},
             NEW want, IsWant(want), NEW meant \in SUBSET Fields, NEW base \in 0 .. Done + 1,
             op \in {"register", "create"} => DOMAIN want = Fields,
             op \in {"login", "room"} => on \in Users
      PROVE  CallBy(Request(op, by, on, want, meant, base), Done)
  BY <1>1, <1>2 DEF Request, CallBy
<1>3. IsWant(Nothing)
  BY DEF IsWant, Nothing
<1>4. CASE SubmitEdit(c, a)
  <2> DEFINE old == [g \in Fields |-> form[a].row[g]]
             meant(want) == {f \in Fields : want[f] # old[f]}
  <2>1. form[a] \in [on : Users, row : RowBy(Done)]
    BY <1>1, <1>4 DEF SubmitEdit, PagesTyped
  <2>2. form[a].on \in Users /\ form[a].row \in RowBy(Done) /\ form[a].row.at \in 0 .. Done + 1
    BY <1>1, <2>1 DEF RowBy
  <2>3. /\ \A e1 \in Address : IsWant([old EXCEPT !.email = e1])
        /\ \A r \in Roles : IsWant([old EXCEPT !.role = r])
        /\ \A b \in BOOLEAN : IsWant([old EXCEPT !.active = b])
    BY <2>2 DEF IsWant, Fields, RowBy
  <2>4. PICK want \in Edits(old) :
          Begin(c, Request("edit", a, form[a].on, want, meant(want), form[a].row.at))
    BY <1>4 DEF SubmitEdit
  <2>5. IsWant(want)
    <3> HIDE DEF old
    <3> QED BY <2>3 DEF Edits
  <2>6. meant(want) \in SUBSET Fields
    OBVIOUS
  <2> HIDE DEF old, meant
  <2>7. CallBy(Request("edit", a, form[a].on, want, meant(want), form[a].row.at), Done)
    BY <1>2, <2>2, <2>5, <2>6
  <2> QED BY <1>1, <2>4, <2>7
<1>5. CASE SubmitNew(c, a)
  <2>1. PICK e1 \in Address, r \in Roles, b \in BOOLEAN :
          Begin(c, Request("create", a, None, [email |-> e1, role |-> r, active |-> b],
                           Fields, 0))
    BY <1>5 DEF SubmitNew
  <2> DEFINE want == [email |-> e1, role |-> r, active |-> b]
  <2>2. IsWant(want) /\ DOMAIN want = Fields
    BY DEF IsWant, Fields
  <2> HIDE DEF want
  <2>3. CallBy(Request("create", a, None, want, Fields, 0), Done)
    BY <1>1, <1>2, <2>2
  <2> QED BY <1>1, <2>1, <2>3 DEF want
<1>6. CASE Switch(c, a, u)
  <2> DEFINE want == [active |-> ~list[a][u].active]
  <2>1. Begin(c, Request("switch", a, u, want, {"active"}, 0)) /\ u \in DOMAIN list[a]
    BY <1>6 DEF Switch
  <2>2. IsWant(want)
    BY <1>1, <2>1 DEF IsWant, Fields, PagesTyped, RowBy
  <2> HIDE DEF want
  <2>3. CallBy(Request("switch", a, u, want, {"active"}, 0), Done)
    BY <1>1, <1>2, <2>2 DEF Fields
  <2> QED BY <1>1, <2>1, <2>3
<1>7. CASE AskDelete(c, a, u)
  <2>1. Begin(c, Request("delete", a, u, Nothing, {}, 0))
    BY <1>7 DEF AskDelete
  <2>2. CallBy(Request("delete", a, u, Nothing, {}, 0), Done)
    BY <1>1, <1>2, <1>3
  <2> QED BY <1>1, <2>1, <2>2
<1>8. CASE AskRegister(c, e)
  <2> DEFINE want == [email |-> e, role |-> "host", active |-> TRUE]
  <2>1. Begin(c, Request("register", None, None, want, Fields, 0))
    BY <1>8 DEF AskRegister
  <2>2. IsWant(want) /\ DOMAIN want = Fields
    BY DEF IsWant, Fields, Roles
  <2> HIDE DEF want
  <2>3. CallBy(Request("register", None, None, want, Fields, 0), Done)
    BY <1>1, <1>2, <2>2
  <2> QED BY <1>1, <2>1, <2>3
<1>9. CASE AskLogin(c, a)
  <2>1. Begin(c, Request("login", a, a, Nothing, {}, 0))
    BY <1>9 DEF AskLogin
  <2>2. CallBy(Request("login", a, a, Nothing, {}, 0), Done)
    BY <1>1, <1>2, <1>3
  <2> QED BY <1>1, <2>1, <2>2
<1>10. CASE AskRoom(c, a)
  <2>1. Begin(c, Request("room", a, a, Nothing, {}, 0))
    BY <1>10 DEF AskRoom
  <2>2. CallBy(Request("room", a, a, Nothing, {}, 0), Done)
    BY <1>1, <1>2, <1>3
  <2> QED BY <1>1, <2>1, <2>2
<1> QED BY <1>4, <1>5, <1>6, <1>7, <1>8, <1>9, <1>10

\* A check leaves a request of the right kind behind, or none.
LEMMA CheckedTyped ==
  ASSUME TypeInv, Shape, NEW c \in Calls, FindLogin(c) \/ CheckNew(c) \/ Load(c) \/ TrySlug(c)
  PROVE  \/ End(c)
         \/ \E k : CallBy(k, Done) /\ call' = [call EXCEPT ![c] = k]
<1> DEFINE k0 == call[c]
<1>1. c \in DOMAIN call /\ CallBy(k0, Done) /\ Done \in Nat /\ CallOK(k0)
      /\ \A u \in DOMAIN row : row[u] \in RowBy(Done)
  BY DEF FindLogin, CheckNew, Load, TrySlug, At, TypeInv, CallsTyped, CountInv, RowsTyped,
         Shape, CallsOK
<1>2. CASE FindLogin(c) /\ ~End(c)
  <2> DEFINE k == [k0 EXCEPT !.pc = "save", !.got = row[k0.on]]
  <2>1. k0.on \in DOMAIN row /\ k0.op = "login" /\ call' = [call EXCEPT ![c] = k]
    BY <1>2 DEF FindLogin, At
  <2>2. CallBy(k, Done)
    BY <1>1, <2>1 DEF CallBy, CallOK
  <2> QED BY <2>1, <2>2
<1>3. CASE CheckNew(c) /\ ~End(c)
  <2> DEFINE k == [k0 EXCEPT !.pc = "save"]
  <2>1. k0.op \in {"register", "create"} /\ call' = [call EXCEPT ![c] = k]
    BY <1>3 DEF CheckNew, At, Passes
  <2>2. CallBy(k, Done)
    BY <1>1, <2>1 DEF CallBy, CallOK
  <2> QED BY <2>1, <2>2
<1>4. CASE Load(c) /\ ~End(c)
  <2> DEFINE b == IF k0.op = "edit" THEN k0.base ELSE row[k0.on].at
             k == [k0 EXCEPT !.pc = "save", !.got = row[k0.on], !.base = b]
  <2>1. /\ k0.on \in DOMAIN row /\ k0.op \in {"edit", "switch", "delete"}
        /\ call' = [call EXCEPT ![c] = k]
    BY <1>4 DEF Load, At
  <2>2. row[k0.on] \in RowBy(Done) /\ b \in 0 .. Done + 1
    BY <1>1, <2>1 DEF RowBy, CallBy
  <2>3. CallBy(k, Done)
    <3> HIDE DEF b
    <3> QED BY <1>1, <2>1, <2>2 DEF CallBy, CallOK
  <2> QED BY <2>1, <2>3
<1>5. CASE TrySlug(c) /\ ~End(c)
  <2>1. k0.op = "room" /\ k0.pc = "check" /\ k0.n \in 0 .. Done + 1
    BY <1>1, <1>5 DEF TrySlug, At, CallBy
  <2>2. CASE k0.n # 0 /\ SlugFree(k0.n)
    <3> DEFINE k == [k0 EXCEPT !.pc = "save"]
    <3>1. call' = [call EXCEPT ![c] = k]
      BY <1>5, <2>2 DEF TrySlug
    <3>2. CallBy(k, Done)
      BY <1>1, <2>1, <2>2 DEF CallBy, CallOK
    <3> QED BY <3>1, <3>2
  <2>3. CASE ~(k0.n # 0 /\ SlugFree(k0.n))
    <3> DEFINE m == k0.n + 1
               k == [k0 EXCEPT !.n = m]
    <3>1. call' = [call EXCEPT ![c] = k]
      BY <1>5, <2>1, <2>3 DEF TrySlug
    <3>2. m \in 0 .. Done + 1
      <4>1. CASE k0.n = 0
        BY <1>1, <4>1
      <4>2. CASE ~SlugFree(k0.n)
        <5>1. PICK r \in DOMAIN rooms : rooms[r].slug = k0.n
          BY <4>2 DEF SlugFree
        <5>2. rooms[r].slug \in 1 .. Done
          BY DEF TypeInv, RoomsTyped, RoomBy
        <5> QED BY <1>1, <5>1, <5>2
      <4> QED BY <2>3, <4>1, <4>2
    <3>3. CallBy(k, Done)
      <4> HIDE DEF m
      <4> QED BY <1>1, <2>1, <3>2 DEF CallBy, CallOK
    <3> QED BY <3>1, <3>3
  <2> QED BY <2>2, <2>3
<1> QED BY <1>2, <1>3, <1>4, <1>5

LEMMA CallsNext ==
  ASSUME TypeInv, Shape, Next
  PROVE  CallsTyped'
<1>1. /\ DOMAIN call \subseteq Calls /\ \A d \in DOMAIN call : CallBy(call[d], Done)
  BY DEF TypeInv, CallsTyped
<1>2. \A k : CallBy(k, Done) => CallBy(k, Done')
  BY CountNext, BoundsGrow DEF TypeInv
<1>3. ASSUME \A d \in DOMAIN call' : d \in DOMAIN call /\ call'[d] = call[d]
      PROVE  CallsTyped'
  BY <1>1, <1>2, <1>3 DEF CallsTyped
<1>4. ASSUME NEW c \in Calls, NEW k, CallBy(k, Done), Begin(c, k)
      PROVE  CallsTyped'
  <2>1. /\ DOMAIN call' = DOMAIN call \union {c}
        /\ \A d \in DOMAIN call' : call'[d] = k \/ (d \in DOMAIN call /\ call'[d] = call[d])
    BY <1>4 DEF Begin
  <2> QED BY <1>1, <1>2, <1>4, <2>1 DEF CallsTyped
<1>5. ASSUME NEW c \in Calls, NEW k, CallBy(k, Done), call' = [call EXCEPT ![c] = k]
      PROVE  CallsTyped'
  <2>1. /\ DOMAIN call' = DOMAIN call
        /\ \A d \in DOMAIN call' : call'[d] = k \/ (d \in DOMAIN call /\ call'[d] = call[d])
    BY <1>5
  <2> QED BY <1>1, <1>2, <1>5, <2>1 DEF CallsTyped
<1>6. ASSUME NEW c \in Calls, NEW a \in Users, NEW u \in Users, NEW e \in Address,
             \/ SubmitEdit(c, a) \/ SubmitNew(c, a) \/ AskLogin(c, a) \/ AskRoom(c, a)
             \/ Switch(c, a, u) \/ AskDelete(c, a, u) \/ AskRegister(c, e)
      PROVE  CallsTyped'
  BY <1>4, <1>6, AskedTyped
<1>7. ASSUME NEW c \in Calls, FindLogin(c) \/ CheckNew(c) \/ Load(c) \/ TrySlug(c)
      PROVE  CallsTyped'
  BY <1>3, <1>5, <1>7, CheckedTyped DEF End
<1>8. ASSUME NEW c \in Calls, Issue(c) \/ SaveNew(c) \/ SaveUpdate(c) \/ Remove(c) \/ SaveRoom(c)
      PROVE  CallsTyped'
  BY <1>3, <1>8 DEF Issue, SaveNew, SaveUpdate, Remove, SaveRoom, End
<1>9. ASSUME NEW a \in Users, NEW u \in Users, NEW r,
             \/ OpenPage(a) \/ LoadProfile(a) \/ LoadUsers(a) \/ Logout(a)
             \/ EditUser(a, u) \/ EndRoom(a, r)
      PROVE  CallsTyped'
  BY <1>3, <1>9 DEF OpenPage, LoadProfile, LoadUsers, Logout, EditUser, EndRoom
<1>10. \E u, e : u \in Users /\ e \in Address
  BY DEF Address
<1> QED BY <1>6, <1>7, <1>8, <1>9, <1>10 DEF Next

LEMMA TypeNext == Shape /\ TypeInv /\ [Next]_vars => TypeInv'
<1> SUFFICES ASSUME Shape, TypeInv, [Next]_vars PROVE TypeInv'
  OBVIOUS
<1>1. CASE Next
  BY <1>1, CountNext, RowsNext, PagesNext, RoomsNext, CallsNext DEF TypeInv
<1>2. CASE UNCHANGED vars
  <2>1. Done' = Done /\ CountInv'
    BY <1>2 DEF vars, Done, CountInv, TypeInv
  <2> QED BY <1>2, <2>1 DEF vars, TypeInv, RowsTyped, RoomsTyped, PagesTyped, CallsTyped
<1> QED BY <1>1, <1>2

LEMMA TypeInit == Init => TypeInv
<1> SUFFICES ASSUME Init PROVE TypeInv
  OBVIOUS
<1>1. CountInv /\ Done = 0
  BY FS_EmptySet DEF Init, CountInv, Done
<1>2. RowsTyped
  BY <1>1 DEF Init, RowsTyped, RowBy, Address, Roles
<1>3. PagesTyped
  BY DEF Init, PagesTyped, Nothing, Roles
<1> QED BY <1>1, <1>2, <1>3 DEF Init, TypeInv, RoomsTyped, CallsTyped

\* A call in flight is one of the requests that are counted, so that the bounds of its own
\* fields are within those of TypeOK.
LEMMA TypesHold == Shape /\ TypeInv => TypeOK
<1> SUFFICES ASSUME Shape, TypeInv PROVE TypeOK
  OBVIOUS
<1>1. /\ Done \in Nat /\ Done <= MaxRequests /\ requests \in 0 .. MaxRequests
      /\ DOMAIN call # {} => Done < MaxRequests
  <2>1. /\ IsFiniteSet(DOMAIN call) /\ Cardinality(DOMAIN call) \in Nat
        /\ (DOMAIN call # {} => Cardinality(DOMAIN call) # 0)
    BY FS_CardinalityType, FS_EmptySet DEF TypeInv, CountInv
  <2> QED BY <2>1 DEF TypeInv, CountInv, Done
<1>2. RowBy(Done) \subseteq Row
  BY <1>1 DEF RowBy, Row
<1>3. RoomBy(Done) \subseteq Room
  BY <1>1 DEF RoomBy, Room
<1>4. ASSUME NEW c \in DOMAIN call PROVE IsCall(call[c])
  <2>1. CallBy(call[c], Done) /\ Done + 1 <= MaxRequests
    BY <1>1 DEF TypeInv, CallsTyped
  <2>2. call[c].got \in Row \union {NoRow}
    BY <1>2, <2>1 DEF CallBy
  <2>3. call[c].base \in 0 .. MaxRequests + 1 /\ call[c].n \in 0 .. MaxRequests
    BY <1>1, <2>1 DEF CallBy
  <2> QED BY <2>1, <2>2, <2>3 DEF CallBy, IsCall
<1>5. /\ \A u \in DOMAIN row : row[u] \in Row
      /\ DOMAIN row \subseteq used /\ used \subseteq Users
  BY <1>2 DEF TypeInv, RowsTyped, Shape, RowsOK
<1>6. /\ DOMAIN rooms \subseteq 1 .. MaxRooms /\ \A r \in DOMAIN rooms : rooms[r] \in Room
      /\ \A r \in DOMAIN rooms : rooms[r].host \in DOMAIN row
  BY <1>3 DEF TypeInv, RoomsTyped
<1>7. /\ token \in [Users -> Roles \union {None}]
      /\ \A a \in Users : \A u \in DOMAIN list[a] : u \in Users /\ list[a][u] \in Row
  BY <1>2, <1>5 DEF TypeInv, PagesTyped, Shape, PagesOK
<1>8. ASSUME NEW a \in Users, form[a] # NoForm
      PROVE  form[a] \in Form
  <2>1. form[a] \in [on : Users, row : RowBy(Done)]
    BY <1>8 DEF TypeInv, PagesTyped
  <2> QED BY <1>2, <2>1 DEF Form
<1>9. /\ visit \in [Users -> {"none", "asked", "shown", "open"}]
      /\ \A a \in Users : visit[a] = "none" => list[a] = Nothing /\ form[a] = NoForm
  BY DEF Shape, PagesOK, Open
<1> QED BY <1>1, <1>4, <1>5, <1>6, <1>7, <1>8, <1>9 DEF TypeOK, TypeInv, CallsTyped

\* TypeOK of every instance: the table, the pages and the handlers keep the shape they have,
\* every room has a host in the table, and a page that is closed shows nothing.
THEOREM AccountsTyped == Spec => []TypeOK
BY TypesHold, ShapeInit, ShapeNext, TypeInit, TypeNext, PTL DEF Spec
=============================================================================
