------------------------------ MODULE Accounts ------------------------------
(***************************************************************************)
(* Accounts and the rooms they own: UsersService, AuthService and          *)
(* RoomsService with their controllers and guards (backend/src), and the   *)
(* users-admin page, the session and the dashboard of frontend/src.        *)
(*                                                                         *)
(* A request is a handler that awaits the database between its checks and  *)
(* its save, and its answer is applied by the page that sent it at once.   *)
(* Each user has one browser, with a token that says which role the user   *)
(* had when it was issued, and an admin has a list of the users and a form *)
(* that were filled when they were loaded.  The requests are those that    *)
(* the pages send: the backend refuses nobody a change to oneself.         *)
(*                                                                         *)
(* save() of a row that was loaded writes every column in which the row    *)
(* differs from the table, and inserts the row if it is not there any      *)
(* more.  The unique constraints and the foreign key are the migration's.  *)
(* Passwords, display names and the expiry of tokens are left out.         *)
(***************************************************************************)
EXTENDS Naturals, FiniteSets

CONSTANTS
  Users,        \* ids of users
  Founders,     \* the active admins of the initial table, put there by hand: the first
                \* one cannot be made by the code
  Emails,       \* addresses, besides the initial one of each founder
  Calls,        \* bound: requests in flight
  MaxRequests,  \* bound: requests
  MaxRooms,     \* bound: rooms created
  Visitors,     \* bound: who opens the users-admin page
  NewActive,    \* bound: the access of users that admins create
  None

ASSUME AccountsAssumption ==
  /\ Founders \subseteq Users /\ Founders # {} /\ None \notin Users
  /\ MaxRequests \in Nat /\ MaxRooms \in Nat /\ NewActive \subseteq BOOLEAN

VARIABLES
  row,       \* users: the rows of the table
  used,      \* ids that have been given
  rooms,     \* rooms: slug (the suffix of one title), host, ended
  token,     \* role in the token of each user's browser
  visit,     \* users-admin page of each browser: none, asked for the profile, shown, open
  list,      \* users of each page, empty until they are loaded
  form,      \* form of each admin's page: the user and the row it was filled from
  call,      \* the handlers in flight
  requests,  \* requests so far
  deleted,   \* history: ids whose row was removed
  misrule    \* history: a change was saved for someone who was not an active admin then,
             \* or one about its sender that took away the role or came from an older row

vars == <<row, used, rooms, token, visit, list, form, call, requests, deleted, misrule>>

table == <<row, used, deleted, misrule>>
pages == <<token, visit, list, form>>

Fields  == {"email", "role", "active"}
Roles   == {"admin", "host"}
Address == Founders \union Emails    \* a founder's first address is named after the founder
Row     == [email : Address, role : Roles, active : BOOLEAN, at : 1 .. MaxRequests + 1]
NoRow   == [email |-> None, role |-> "host", active |-> FALSE, at |-> 0]
Nothing == [x \in {} |-> NoRow]
Form    == [on : Users, row : Row]
NoForm  == [on |-> None, row |-> NoRow]
Room    == [slug : 1 .. MaxRequests, host : Users, ended : BOOLEAN]

IsWant(w) ==
  /\ DOMAIN w \subseteq Fields
  /\ "email" \in DOMAIN w => w["email"] \in Address
  /\ "role" \in DOMAIN w => w["role"] \in Roles
  /\ "active" \in DOMAIN w => w["active"] \in BOOLEAN

\* want: the fields of the request.  meant (history): those the person has changed.
\* got: what was loaded.  base (history): the save that the form, or else the handler, had
\* read.  n: the suffix tried for a room's slug.
IsCall(k) ==
  /\ k.op \in {"register", "create", "edit", "switch", "delete", "login", "room"}
  /\ k.pc \in {"check", "save"}
  /\ k.by \in Users \union {None} /\ k.on \in Users \union {None}
  /\ IsWant(k.want) /\ k.meant \subseteq Fields
  /\ k.got \in Row \union {NoRow} /\ k.base \in 0 .. MaxRequests + 1
  /\ k.n \in 0 .. MaxRequests

TypeOK ==
  /\ DOMAIN row \subseteq used /\ used \subseteq Users
  /\ \A u \in DOMAIN row : row[u] \in Row
  /\ DOMAIN rooms \subseteq 1 .. MaxRooms /\ \A r \in DOMAIN rooms : rooms[r] \in Room
  /\ \A r \in DOMAIN rooms : rooms[r].host \in DOMAIN row
  /\ token \in [Users -> Roles \union {None}]
  /\ visit \in [Users -> {"none", "asked", "shown", "open"}]
  /\ \A a \in Users : \A u \in DOMAIN list[a] : u \in Users /\ list[a][u] \in Row
  /\ \A a \in Users : form[a] \in Form \union {NoForm}
  /\ \A a \in Users : visit[a] = "none" => list[a] = Nothing /\ form[a] = NoForm
  /\ DOMAIN call \subseteq Calls /\ \A c \in DOMAIN call : IsCall(call[c])
  /\ requests \in 0 .. MaxRequests
  /\ deleted \subseteq Users /\ misrule \in BOOLEAN

-----------------------------------------------------------------------------
\* The request of by about on: want holds its fields.
Request(op, by, on, want, meant, base) ==
  [op |-> op, pc |-> "check", by |-> by, on |-> on, want |-> want, meant |-> meant,
   got |-> NoRow, base |-> base, n |-> 0]

Begin(c, request) ==
  /\ c \notin DOMAIN call
  /\ call' = [d \in DOMAIN call \union {c} |-> IF d = c THEN request ELSE call[d]]

Counted == requests < MaxRequests /\ requests' = requests + 1

At(c, ops, stage) == c \in DOMAIN call /\ call[c].op \in ops /\ call[c].pc = stage

End(c) == call' = [d \in DOMAIN call \ {c} |-> call[d]]

Passes(c) == call' = [call EXCEPT ![c].pc = "save"]

\* What the services look up.
EmailFree(u, e) == \A v \in DOMAIN row \ {u} : row[v].email # e
SlugFree(s) == \A r \in DOMAIN rooms : rooms[r].slug # s

\* The unique constraints of the schema, and the foreign key of a room's host.
AcceptsAnyUser(u, e) == TRUE    \* mutant of AcceptsUser
AcceptsUser(u, e) == EmailFree(u, e)
AcceptsRoom(s, u) == SlugFree(s) /\ u \in DOMAIN row

\* An active admin, for the table and for getProfile.
Governs(u) == u \in DOMAIN row /\ row[u].active /\ row[u].role = "admin"

\* JwtAuthGuard and RolesGuard: the token decides.
Allowed(u) == token[u] = "admin"

-----------------------------------------------------------------------------
(* The users-admin page.                                                   *)

Open(a) == visit[a] # "none"

\* authGuard lets every token pass; ngOnInit begins with loadProfile.
OpenPage(a) ==
  /\ a \in Visitors /\ ~Open(a) /\ token[a] # None
  /\ visit' = [visit EXCEPT ![a] = "asked"]
  /\ UNCHANGED <<table, rooms, token, list, form, call, requests>>

\* The page is left, and what it showed with it.
Leaves(a) ==
  /\ visit' = [visit EXCEPT ![a] = "none"]
  /\ list' = [list EXCEPT ![a] = Nothing] /\ form' = [form EXCEPT ![a] = NoForm]

\* getProfile reads the row: an active admin goes on to getUsers, others are sent away.
LoadProfile(a) ==
  /\ visit[a] = "asked"
  /\ IF Governs(a) THEN visit' = [visit EXCEPT ![a] = "shown"] /\ UNCHANGED <<list, form>>
     ELSE Leaves(a)
  /\ UNCHANGED <<table, rooms, token, call, requests>>

\* loadUsers, which asks for the token alone: the row may have changed by now.
LoadUsers(a) ==
  /\ visit[a] = "shown" /\ Allowed(a)
  /\ visit' = [visit EXCEPT ![a] = "open"]
  /\ list' = [list EXCEPT ![a] = row]
  /\ UNCHANGED <<table, rooms, token, form, call, requests>>

EditUser(a, u) ==
  /\ u \in DOMAIN list[a]
  /\ form' = [form EXCEPT ![a] = [on |-> u, row |-> list[a][u]]]
  /\ UNCHANGED <<table, rooms, token, visit, list, call, requests>>

\* The form filled with old, with at most one of its fields changed.
Edits(old) == {[old EXCEPT !.email = e] : e \in Address}
                \union {[old EXCEPT !.role = r] : r \in Roles}
                \union {[old EXCEPT !.active = b] : b \in BOOLEAN}

\* submit of a form filled from a row: every field is sent.
SubmitEdit(c, a) ==
  /\ form[a] # NoForm /\ Allowed(a) /\ Counted
  /\ LET old == [f \in Fields |-> form[a].row[f]]
     IN  \E want \in Edits(old) :
           Begin(c, Request("edit", a, form[a].on, want, {f \in Fields : want[f] # old[f]},
                            form[a].row.at))
  /\ UNCHANGED <<table, rooms, pages>>

\* submit of an empty form, which is there from the start.
SubmitNew(c, a) ==
  /\ Open(a) /\ form[a] = NoForm /\ Allowed(a) /\ Counted
  /\ \E e \in Address, r \in Roles, b \in NewActive :
       Begin(c, Request("create", a, None, [email |-> e, role |-> r, active |-> b],
                        Fields, 0))
  /\ UNCHANGED <<table, rooms, pages>>

\* Mutant of Switch: admins may deactivate themselves.
SwitchAnyone(c, a, u) ==
  /\ u \in DOMAIN list[a] /\ Allowed(a) /\ Counted
  /\ Begin(c, Request("switch", a, u, [active |-> ~list[a][u].active], {"active"}, 0))
  /\ UNCHANGED <<table, rooms, pages>>

\* deactivateUser, not of oneself, and activateUser.
Switch(c, a, u) ==
  /\ u \in DOMAIN list[a] /\ Allowed(a) /\ Counted
  /\ list[a][u].active => u # a
  /\ Begin(c, Request("switch", a, u, [active |-> ~list[a][u].active], {"active"}, 0))
  /\ UNCHANGED <<table, rooms, pages>>

\* deleteUser.
AskDelete(c, a, u) ==
  /\ u \in DOMAIN list[a] \ {a} /\ Allowed(a) /\ Counted
  /\ Begin(c, Request("delete", a, u, Nothing, {}, 0))
  /\ UNCHANGED <<table, rooms, pages>>

-----------------------------------------------------------------------------
(* Sessions.                                                               *)

\* register: anybody, as a host.
AskRegister(c, e) ==
  /\ Counted
  /\ Begin(c, Request("register", None, None,
                      [email |-> e, role |-> "host", active |-> TRUE], Fields, 0))
  /\ UNCHANGED <<table, rooms, pages>>

AskLogin(c, u) ==
  /\ u \in used /\ token[u] = None /\ Counted
  /\ Begin(c, Request("login", u, u, Nothing, {}, 0))
  /\ UNCHANGED <<table, rooms, pages>>

\* login: findByEmail and isActive before the password is compared, which is awaited.
FindLogin(c) ==
  /\ At(c, {"login"}, "check")
  /\ LET u == call[c].on
     IN  IF u \in DOMAIN row /\ row[u].active
         THEN call' = [call EXCEPT ![c].pc = "save", ![c].got = row[u]]
         ELSE End(c)
  /\ UNCHANGED <<table, rooms, pages, requests>>

\* createAuthResponse: the role that was loaded.
Issue(c) ==
  /\ At(c, {"login"}, "save")
  /\ token' = [token EXCEPT ![call[c].on] = call[c].got.role]
  /\ End(c)
  /\ UNCHANGED <<table, rooms, visit, list, form, requests>>

Logout(u) ==
  /\ token[u] # None
  /\ token' = [token EXCEPT ![u] = None]
  /\ Leaves(u)
  /\ UNCHANGED <<table, rooms, call, requests>>

-----------------------------------------------------------------------------
(* UsersService.                                                           *)

\* The page of by shows r for u; its own request empties the form.
Shows(by, u, r, empties) ==
  IF by # None /\ Open(by)
  THEN /\ list' = [list EXCEPT ![by] = [v \in DOMAIN list[by] \union {u} |->
                                          IF v = u THEN r ELSE list[by][v]]]
       /\ form' = IF empties THEN [form EXCEPT ![by] = NoForm] ELSE form
  ELSE UNCHANGED <<list, form>>

\* (History) The save of call c about its own sender sends a form that takes away the
\* role or the access, or writes back a row that is not the one in the table any more.
TakesBack(c) ==
  LET k == call[c]
  IN  IF k.op = "edit" THEN k.want.role # "admin" \/ ~k.want.active ELSE k.got # row[k.by]

\* u's row becomes r, on behalf of call c.
Writes(c, u, r) ==
  /\ row' = [v \in DOMAIN row \union {u} |-> IF v = u THEN r ELSE row[v]]
  /\ misrule' = \/ misrule
                \/ /\ call[c].by # None
                   /\ ~Governs(call[c].by) \/ (call[c].by = u /\ TakesBack(c))
  /\ Shows(call[c].by, u, r, call[c].op # "switch")

\* create: findByEmail.
CheckNew(c) ==
  /\ At(c, {"register", "create"}, "check")
  /\ IF EmailFree(None, call[c].want.email) THEN Passes(c) ELSE End(c)
  /\ UNCHANGED <<table, rooms, pages, requests>>

\* create: the insert, which the constraint may refuse.
SaveNew(c) ==
  /\ At(c, {"register", "create"}, "save")
  /\ LET want == call[c].want
     IN  IF AcceptsUser(None, want.email)
         THEN \E u \in Users \ used :
                /\ used' = used \union {u}
                /\ Writes(c, u, [email |-> want.email, role |-> want.role,
                                 active |-> want.active, at |-> 1])
                /\ token' = IF call[c].op = "register" THEN [token EXCEPT ![u] = "host"]
                            ELSE token
         ELSE UNCHANGED <<row, used, misrule, token, list, form>>
  /\ End(c)
  /\ UNCHANGED <<rooms, visit, deleted, requests>>

\* update and delete: findByIdOrFail, and whether the new address is another user's.
Load(c) ==
  /\ At(c, {"edit", "switch", "delete"}, "check")
  /\ LET u == call[c].on  want == call[c].want
     IN  IF u \in DOMAIN row /\ ("email" \in DOMAIN want => EmailFree(u, want.email))
         THEN call' = [call EXCEPT ![c].pc = "save", ![c].got = row[u],
                         ![c].base = IF call[c].op = "edit" THEN @ ELSE row[u].at]
         ELSE End(c)
  /\ UNCHANGED <<table, rooms, pages, requests>>

\* Mutant of Merged: a missing role is the default one.
MergedByDefault(got, want) ==
  [f \in Fields |-> IF f \in DOMAIN want THEN want[f]
                    ELSE IF f = "role" THEN "host" ELSE got[f]]

\* The row that was loaded, with the fields of the request.
Merged(got, want) == [f \in Fields |-> IF f \in DOMAIN want THEN want[f] ELSE got[f]]

\* update: the save.
SaveUpdate(c) ==
  /\ At(c, {"edit", "switch"}, "save")
  /\ LET u   == call[c].on
         new == Merged(call[c].got, call[c].want)
         at  == IF u \in DOMAIN row THEN row[u].at ELSE call[c].got.at
     IN  IF AcceptsUser(u, new.email)
         THEN Writes(c, u, [email |-> new.email, role |-> new.role, active |-> new.active,
                            at |-> at + 1])
         ELSE UNCHANGED <<row, misrule, list, form>>
  /\ End(c)
  /\ UNCHANGED <<used, deleted, rooms, token, visit, requests>>

\* Mutant of Remove: the rooms of the user are kept.
RemoveKeepsRooms(c) ==
  /\ At(c, {"delete"}, "save")
  /\ LET u == call[c].on  a == call[c].by
     IN  /\ row' = [v \in DOMAIN row \ {u} |-> row[v]]
         /\ deleted' = deleted \union {u}
         /\ misrule' = (misrule \/ ~Governs(a))
         /\ list' = [list EXCEPT ![a] = [v \in DOMAIN list[a] \ {u} |-> list[a][v]]]
         /\ form' = IF form[a].on = u THEN [form EXCEPT ![a] = NoForm] ELSE form
  /\ End(c)
  /\ UNCHANGED <<used, rooms, token, visit, requests>>

\* delete: the row goes, and the rooms it hosts with it.
Remove(c) ==
  /\ At(c, {"delete"}, "save")
  /\ LET u == call[c].on  a == call[c].by
     IN  /\ row' = [v \in DOMAIN row \ {u} |-> row[v]]
         /\ rooms' = [r \in {q \in DOMAIN rooms : rooms[q].host # u} |-> rooms[r]]
         /\ deleted' = deleted \union {u}
         /\ misrule' = (misrule \/ ~Governs(a))
         /\ list' = [list EXCEPT ![a] = [v \in DOMAIN list[a] \ {u} |-> list[a][v]]]
         /\ form' = IF form[a].on = u THEN [form EXCEPT ![a] = NoForm] ELSE form
  /\ End(c)
  /\ UNCHANGED <<used, token, visit, requests>>

-----------------------------------------------------------------------------
(* RoomsService, from the dashboard: any token will do.                    *)

AskRoom(c, u) ==
  /\ token[u] # None /\ Cardinality(DOMAIN rooms) < MaxRooms /\ Counted
  /\ Begin(c, Request("room", u, u, Nothing, {}, 0))
  /\ UNCHANGED <<table, rooms, pages>>

\* create: the host is found, and then one suffix after the other is tried.
TrySlug(c) ==
  /\ At(c, {"room"}, "check")
  /\ LET n == call[c].n
     IN  IF n = 0
         THEN IF call[c].on \in DOMAIN row THEN call' = [call EXCEPT ![c].n = 1] ELSE End(c)
         ELSE call' = IF SlugFree(n) THEN [call EXCEPT ![c].pc = "save"]
                      ELSE [call EXCEPT ![c].n = n + 1]
  /\ UNCHANGED <<table, rooms, pages, requests>>

\* create: the insert, which the constraints may refuse.
SaveRoom(c) ==
  /\ At(c, {"room"}, "save")
  /\ LET k == call[c]
     IN  IF AcceptsRoom(k.n, k.on)
         THEN \E r \in (1 .. MaxRooms) \ DOMAIN rooms :
                /\ \A q \in (1 .. MaxRooms) \ DOMAIN rooms : r <= q
                /\ rooms' = [q \in DOMAIN rooms \union {r} |->
                               IF q = r THEN [slug |-> k.n, host |-> k.on, ended |-> FALSE]
                               ELSE rooms[q]]
         ELSE UNCHANGED rooms
  /\ End(c)
  /\ UNCHANGED <<table, pages, requests>>

\* endRoom: of a room of one's own.
EndRoom(u, r) ==
  /\ token[u] # None /\ r \in DOMAIN rooms /\ rooms[r].host = u /\ ~rooms[r].ended /\ Counted
  /\ rooms' = [rooms EXCEPT ![r].ended = TRUE]
  /\ UNCHANGED <<table, pages, call>>

-----------------------------------------------------------------------------
Init ==
  /\ row = [u \in Founders |-> [email |-> u, role |-> "admin", active |-> TRUE, at |-> 1]]
  /\ used = Founders
  /\ rooms = [r \in {} |-> 0]
  /\ token = [u \in Users |-> IF u \in Founders THEN "admin" ELSE None]
  /\ visit = [u \in Users |-> "none"]
  /\ list = [u \in Users |-> Nothing] /\ form = [u \in Users |-> NoForm]
  /\ call = [c \in {} |-> 0]
  /\ requests = 0 /\ deleted = {} /\ misrule = FALSE

Next ==
  \/ \E c \in Calls :
       \/ \E a \in Users :
            \/ SubmitEdit(c, a) \/ SubmitNew(c, a) \/ AskLogin(c, a) \/ AskRoom(c, a)
            \/ \E u \in Users : Switch(c, a, u) \/ AskDelete(c, a, u)
       \/ \E e \in Address : AskRegister(c, e)
       \/ FindLogin(c) \/ Issue(c) \/ CheckNew(c) \/ SaveNew(c)
       \/ Load(c) \/ SaveUpdate(c) \/ Remove(c) \/ TrySlug(c) \/ SaveRoom(c)
  \/ \E a \in Users :
       \/ OpenPage(a) \/ LoadProfile(a) \/ LoadUsers(a) \/ Logout(a)
       \/ \E u \in Users : EditUser(a, u)
       \/ \E r \in 1 .. MaxRooms : EndRoom(a, r)

Spec == Init /\ [][Next]_vars
-----------------------------------------------------------------------------
(* Properties.                                                             *)

\* No two users have one address and no two rooms one slug, although every check for it
\* is made before an await, and a user's address also changes.
NamesDiffer ==
  /\ \A u, v \in DOMAIN row : u # v => row[u].email # row[v].email
  /\ \A r, q \in DOMAIN rooms : r # q => rooms[r].slug # rooms[q].slug

\* A saved request changes the fields its sender meant to change, and no other, unless
\* the row was saved again after the sender's form, or the handler, had read it, or
\* removed and then inserted again.
ChangesAreMeant ==
  [][\A c \in DOMAIN call : \A u \in DOMAIN row \intersect DOMAIN row' :
       At(c, {"edit", "switch"}, "save") /\ call[c].on = u /\ c \notin DOMAIN call' =>
         \A f \in Fields : \/ row'[u][f] = row[u][f] \/ f \in call[c].meant
                           \/ call[c].base < row[u].at \/ u \in deleted]_vars

\* There is always an active admin: an admin cannot deactivate or delete oneself, and
\* whoever removes another one remains.  Not so after a form that takes one's own role
\* or access away, which is not refused; after a save about oneself that writes back a row
\* read earlier, as that of an admin who found oneself inactive on the list and pressed
\* "Activar"; or after a save for somebody whose token outlived the role.
SomeoneGoverns == misrule \/ \E u \in Users : Governs(u)

\* A user who was deleted does not come back: "Eliminar definitivamente ... Esta accion
\* no se puede deshacer."
DeletedIsGone == deleted \intersect DOMAIN row = {}
=============================================================================
