---------------------------- MODULE SchemaProofs ----------------------------
(***************************************************************************)
(* What the keys and foreign keys of the schema promise holds throughout   *)
(* every behaviour of the API, migrations included.                        *)
(***************************************************************************)
EXTENDS AuthProofs, Backend

(* The types of the whole API: the todo handlers keep TypeInv as well. *)

LEMMA UpdateTodoType ==
  ASSUME DbTypeOK, NEW id, NEW patch \in Input, UpdateTodoPartial(id, patch)
  PROVE  DbTypeOK'
<1>1. ASSUME NEW t \in todos
      PROVE  [t EXCEPT !.title = Coalesce(patch.title, @),
                       !.description = Coalesce(patch.description, @),
                       !.is_completed = Coalesce(patch.is_completed, @),
                       !.due_date = Coalesce(patch.due_date, @)] \in TodoRow
  <2>1. t \in TodoRow
    BY DEF DbTypeOK
  <2>2. Coalesce(patch.title, t.title) \in Title
    BY <2>1 DEF TodoRow, Input, Coalesce
  <2>3. Coalesce(patch.description, t.description) \in Description \cup {NULL}
    BY <2>1 DEF TodoRow, Input, Coalesce
  <2>4. Coalesce(patch.is_completed, t.is_completed) \in BOOLEAN
    BY <2>1 DEF TodoRow, Input, Coalesce
  <2>5. Coalesce(patch.due_date, t.due_date) \in DueDate \cup {NULL}
    BY <2>1 DEF TodoRow, Input, Coalesce
  <2> QED
    BY <2>1, <2>2, <2>3, <2>4, <2>5 DEF TodoRow
<1>2. todos' \subseteq TodoRow
  BY <1>1 DEF UpdateTodoPartial, DbTypeOK, GetTodoByID
<1> QED
  BY <1>2 DEF UpdateTodoPartial, DbTypeOK

LEMMA CreateTodoType ==
  ASSUME DbTypeOK, NEW u \in UserId, NEW n \in Title,
         NEW d \in Description \cup {NULL}, NEW due \in DueDate \cup {NULL},
         NEW ids \in NewIds({n}, TodoId), CreateTodo(ids, u, n, d, due)
  PROVE  DbTypeOK'
<1>1. ids[n] \in TodoId
  BY NewIdsFresh
<1>2. [id |-> ids[n], user_id |-> u, title |-> n, description |-> d,
       is_completed |-> FALSE, due_date |-> due] \in TodoRow
  BY <1>1 DEF TodoRow
<1> QED
  BY <1>1, <1>2 DEF DbTypeOK, CreateTodo

LEMMA TodoWriteType ==
  ASSUME TypeInv, NEW p \in Request, TodoWrite(p)
  PROVE  DbTypeOK'
<1>1. LocalInv(p) /\ RequestTypeOK /\ DbTypeOK /\ args[p] \in Input
  BY DEF TypeInv, TypeOK, RequestTypeOK
<1>2. CASE AtQuery(p, "td_create") /\ InsertTodo(p)
  <2>1. ctx[p].user \in UserId /\ args[p].title \in Title
    BY <1>1, <1>2 DEF AtQuery, LocalInv
  <2>2. /\ args[p].description \in Description \cup {NULL}
        /\ args[p].due_date \in DueDate \cup {NULL}
    BY <1>1 DEF Input
  <2> QED
    BY <1>1, <1>2, <2>1, <2>2, CreateTodoType DEF InsertTodo
<1>3. CASE UpdateTodoPartial(args[p].todo_id, args[p])
  BY <1>1, <1>3, UpdateTodoType
<1>4. CASE DeleteTodo(args[p].todo_id)
  BY <1>1, <1>4 DEF DeleteTodo, DbTypeOK
<1> QED
  BY <1>2, <1>3, <1>4 DEF TodoWrite

LEMMA TodoRequestType ==
  ASSUME TypeInv, NEW p \in Request, TodoRequest(p),
         UNCHANGED <<defaultUserRoleID, restarts>>
  PROVE  TypeInv'
<1>1. /\ DbTypeOK' /\ MigrationTypeOK' /\ AuthTypeOK'
      /\ UNCHANGED <<issued, now, faults, serving>>
  BY DEF TodoRequest, TodoVars, dbVars, migrationVars, TypeInv, TypeOK,
         DbTypeOK, MigrationTypeOK, AuthTypeOK
<1>2. ASSUME NEW input \in Input, Begin(p, input), input.op \notin PublicOp,
             input.op = "CreateTodo" => input.title \in Title
      PROVE  TypeInv'
  BY <1>1, <1>2, ArrivalType DEF PublicOp
<1>3. <<>> \in Seq(Email)
  OBVIOUS
<1>4. Presented \subseteq Token \cup {NULL}
  BY DEF Presented, TypeInv, TypeOK, RequestTypeOK
<1>5. BodyErr \subseteq {0, 400, 413}
  BY RequestAssumption
<1>6. CASE ListTodos(p)
  <2>1. PICK t \in Presented : Begin(p, [NoInput("ListTodos") EXCEPT !.token = t])
    BY <1>6 DEF ListTodos
  <2> DEFINE input == [NoInput("ListTodos") EXCEPT !.token = t]
  <2>2. input \in Input /\ input.op = "ListTodos"
    BY <1>3, <1>4 DEF Input, NoInput, UserOp
  <2> QED
    BY <1>2, <2>1, <2>2 DEF PublicOp
<1>7. CASE CreateTodoBody(p)
  <2>1. PICK t \in Presented, n \in NewTodos, b \in BodyErr :
          Begin(p, [NoInput("CreateTodo") EXCEPT
                      !.token = t, !.body = b, !.title = n.title,
                      !.description = n.description, !.due_date = n.due_date])
    BY <1>7 DEF CreateTodoBody
  <2>2. /\ n.title \in Title /\ n.description \in Description \cup {NULL}
        /\ n.due_date \in DueDate \cup {NULL}
    BY TodoAssumption
  <2> DEFINE i0 == NoInput("CreateTodo")
             i1 == [i0 EXCEPT !.token = t]
             i2 == [i1 EXCEPT !.body = b]
             i3 == [i2 EXCEPT !.title = n.title]
             i4 == [i3 EXCEPT !.description = n.description]
             i5 == [i4 EXCEPT !.due_date = n.due_date]
  <2>3. Begin(p, i5)
    BY <2>1
  <2>4. i0 \in Input /\ i0.op = "CreateTodo"
    BY NoInputType DEF UserOp
  <2>5. i1 \in Input /\ i1.op = "CreateTodo"
    <3> HIDE DEF i0
    <3> QED
      BY <1>4, <2>4 DEF Input
  <2>6. i2 \in Input /\ i2.op = "CreateTodo"
    <3> HIDE DEF i1
    <3> QED
      BY <1>5, <2>5 DEF Input
  <2>7. i3 \in Input /\ i3.op = "CreateTodo" /\ i3.title = n.title
    <3> HIDE DEF i2
    <3> QED
      BY <2>2, <2>6 DEF Input
  <2>8. i4 \in Input /\ i4.op = "CreateTodo" /\ i4.title = n.title
    <3> HIDE DEF i3
    <3> QED
      BY <2>2, <2>7 DEF Input
  <2>9. i5 \in Input /\ i5.op = "CreateTodo" /\ i5.title = n.title
    <3> HIDE DEF i4
    <3> QED
      BY <2>2, <2>8 DEF Input
  <2> HIDE DEF i5
  <2> QED
    BY <1>2, <2>2, <2>3, <2>9 DEF PublicOp
<1>8. CASE GetTodo(p) \/ DeleteTodoById(p)
  <2>1. PICK op \in {"GetTodo", "DeleteTodo"}, t \in Presented, id \in TodoId :
          Begin(p, [NoInput(op) EXCEPT !.token = t, !.todo_id = id])
    BY <1>8 DEF GetTodo, DeleteTodoById
  <2> DEFINE input == [NoInput(op) EXCEPT !.token = t, !.todo_id = id]
  <2>2. input \in Input /\ input.op = op
    BY <1>3, <1>4 DEF Input, NoInput, UserOp
  <2> QED
    BY <1>2, <2>1, <2>2 DEF PublicOp
<1>9. CASE UpdateTodo(p)
  <2>1. PICK t \in Presented, id \in TodoId, c \in Patches, b \in BodyErr :
          Begin(p, [NoInput("UpdateTodo") EXCEPT
                      !.token = t, !.todo_id = id, !.body = b, !.title = c.title,
                      !.description = c.description,
                      !.is_completed = c.is_completed, !.due_date = c.due_date])
    BY <1>9 DEF UpdateTodo
  <2>2. /\ c.title \in Title \cup {NULL}
        /\ c.description \in Description \cup {NULL}
        /\ c.is_completed \in BOOLEAN \cup {NULL}
        /\ c.due_date \in DueDate \cup {NULL}
    BY TodoAssumption
  <2> DEFINE i0 == NoInput("UpdateTodo")
             i1 == [i0 EXCEPT !.token = t]
             i2 == [i1 EXCEPT !.todo_id = id]
             i3 == [i2 EXCEPT !.body = b]
             i4 == [i3 EXCEPT !.title = c.title]
             i5 == [i4 EXCEPT !.description = c.description]
             i6 == [i5 EXCEPT !.is_completed = c.is_completed]
             i7 == [i6 EXCEPT !.due_date = c.due_date]
  <2>3. Begin(p, i7)
    BY <2>1
  <2>4. i0 \in Input /\ i0.op = "UpdateTodo"
    BY NoInputType DEF UserOp
  <2>5. i1 \in Input /\ i1.op = "UpdateTodo"
    <3> HIDE DEF i0
    <3> QED
      BY <1>4, <1>5, <2>2, <2>4 DEF Input
  <2>6. i2 \in Input /\ i2.op = "UpdateTodo"
    <3> HIDE DEF i1
    <3> QED
      BY <1>4, <1>5, <2>2, <2>5 DEF Input
  <2>7. i3 \in Input /\ i3.op = "UpdateTodo"
    <3> HIDE DEF i2
    <3> QED
      BY <1>4, <1>5, <2>2, <2>6 DEF Input
  <2>8. i4 \in Input /\ i4.op = "UpdateTodo"
    <3> HIDE DEF i3
    <3> QED
      BY <1>4, <1>5, <2>2, <2>7 DEF Input
  <2>9. i5 \in Input /\ i5.op = "UpdateTodo"
    <3> HIDE DEF i4
    <3> QED
      BY <1>4, <1>5, <2>2, <2>8 DEF Input
  <2>10. i6 \in Input /\ i6.op = "UpdateTodo"
    <3> HIDE DEF i5
    <3> QED
      BY <1>4, <1>5, <2>2, <2>9 DEF Input
  <2>11. i7 \in Input /\ i7.op = "UpdateTodo"
    <3> HIDE DEF i6
    <3> QED
      BY <1>4, <1>5, <2>2, <2>10 DEF Input
  <2> HIDE DEF i7
  <2> QED
    BY <1>2, <2>3, <2>11 DEF PublicOp
<1> QED
  BY <1>6, <1>7, <1>8, <1>9 DEF TodoRequest

LEMMA TodoStepType ==
  ASSUME TypeInv, NEW p \in Request, TodoStep(p),
         UNCHANGED <<defaultUserRoleID, restarts>>
  PROVE  TypeInv'
<1>1. LocalInv(p) /\ RequestTypeOK
  BY DEF TypeInv, TypeOK
<1>2. /\ {200, 201, 204, 404, 500} \subseteq Status
      /\ {"upd_write", "del_write"} \subseteq Label
  BY LabelType DEF Status
<1>3. CASE ListTodosByUserID(p) \/ GetByID(p) \/ CreateRefused(p)
  <2>1. UNCHANGED <<ctx, TodoVars>>
    BY <1>3 DEF ListTodosByUserID, GetByID, CreateRefused
  <2>2. Rest(p)
    BY <2>1, ReadRest DEF TodoVars, runVars, processVars
  <2> QED
    BY <1>2, <1>3, <2>2, RespondStep DEF ListTodosByUserID, GetByID, CreateRefused
<1>4. ASSUME NEW lookup \in {"upd_lookup", "del_lookup"},
             NEW write \in {"upd_write", "del_write"},
             CheckOwner(p, lookup, write)
      PROVE  TypeInv'
  <2>1. UNCHANGED <<ctx, TodoVars>>
    BY <1>4 DEF CheckOwner
  <2>2. Rest(p)
    BY <2>1, ReadRest DEF TodoVars, runVars, processVars
  <2>3. CASE Goto(p, write)
    <3>1. pc'[p] = write /\ args' = args /\ ctx' = ctx
      BY <1>1, <1>2, <2>1, <2>3, GotoType
    <3>2. LocalInv(p)'
      BY <1>1, <1>4, <3>1 DEF CheckOwner, AtQuery, LocalInv, Registering, HasAccount
    <3> QED
      BY <1>2, <2>2, <2>3, <3>2, GotoStep
  <2> QED
    BY <1>2, <1>4, <2>2, <2>3, RespondStep DEF CheckOwner
<1>5. CASE Create(p) \/ Update(p) \/ Delete(p)
  <2>1. /\ TodoWrite(p) /\ ctx' = ctx
        /\ UNCHANGED <<issued, runVars, processVars>>
        /\ \E code \in Status : Respond(p, code)
    BY <1>2, <1>5 DEF Create, Update, Delete, TodoWrite, runVars, processVars
  <2>2. Rest(p)
    BY <2>1, TodoWriteType, WriteRest
  <2> QED
    BY <2>1, <2>2, RespondStep
<1>6. CASE TodoUnacked(p)
  <2>1. faults' \in 0..MaxFaults
    BY <1>1, <1>6, RequestAssumption DEF TodoUnacked, AnswerLost, RequestTypeOK
  <2>2. DbTypeOK'
    BY <1>6, TodoWriteType DEF TodoUnacked
  <2>3. Rest(p)
    BY <1>6, <2>1, <2>2 DEF TodoUnacked, Rest, TypeInv, TypeOK,
         MigrationTypeOK, RequestTypeOK, AuthTypeOK, migrationVars
  <2> QED
    BY <1>2, <1>6, <2>3, RespondStep DEF TodoUnacked, AnswerLost
<1> QED
  BY <1>3, <1>4, <1>5, <1>6 DEF TodoStep

LEMMA BackendTypeNext == TypeInv /\ [BackendNext]_vars => TypeInv'
<1> SUFFICES ASSUME TypeInv, [BackendNext]_vars PROVE TypeInv'
  OBVIOUS
<1>1. ASSUME NEW p \in Request,
             \/ TodoRequest(p) /\ UNCHANGED <<defaultUserRoleID, restarts>>
             \/ TodoStep(p) /\ UNCHANGED <<defaultUserRoleID, restarts>>
      PROVE  TypeInv'
  BY <1>1, TodoRequestType, TodoStepType
<1>2. CASE [Next]_vars
  BY <1>2, TypeInvNext
<1> QED
  BY <1>1, <1>2 DEF BackendNext, BackendStep, Next

(* The type invariant covers the whole API, todo handlers included. *)
THEOREM BackendTypeCorrect == BackendSpec => []TypeOK
<1>1. TypeInv => TypeOK
  BY DEF TypeInv
<1> QED
  BY <1>1, TypeInvInit, BackendTypeNext, PTL DEF BackendSpec

-----------------------------------------------------------------------------
(* Uniqueness and integrity are inductive only together with two facts: no *)
(* table has rows before its migration, which is what lets a down          *)
(* migration drop a table nothing refers to any more, and every row's uuid *)
(* has been drawn, so that a new row's uuid is new to the table.           *)

LevelInv ==
    /\ level < 1 => approved_users = {}
    /\ level < 2 => users = {}
    /\ level < 3 => roles = {}
    /\ level < 4 => user_roles = {}
    /\ level < 5 => todos = {}

RowsDrawn ==
    /\ \A a \in approved_users : a.id \in used
    /\ \A u \in users : u.id \in used
    /\ \A r \in roles : r.id \in used
    /\ \A t \in todos : t.id \in used
    /\ AdminApproved \in used /\ UserApproved \in used

Tables == UniqueKeys /\ RefIntegrity /\ RowsDrawn
SchemaInv == Tables /\ LevelInv

(* The statements. *)

LEMMA CreateUserTables ==
  ASSUME Tables, NEW a, NEW e, NEW h, NEW ids \in NewIds({e}, UserId),
         CreateUser(ids, a, e, h)
  PROVE  Tables'
<1> DEFINE new == [id |-> ids[e], approved_user_id |-> a, email |-> e,
                   password_hash |-> h, is_active |-> TRUE]
<1>1. /\ users' = users \cup {new} /\ used' = used \cup {ids[e]}
      /\ UNCHANGED <<approved_users, roles, user_roles, todos>>
      /\ ApprovedUserExists(a) /\ GetUserByEmail(e) = {}
  BY DEF CreateUser, CreateUserRefused
<1>2. /\ new.id = ids[e] /\ new.email = e /\ new.approved_user_id = a
      /\ ids[e] \notin used
  BY NewIdsFresh
<1> HIDE DEF new
<1>3. \A u \in users : u.id # new.id /\ u.email # new.email
  BY <1>1, <1>2 DEF Tables, RowsDrawn, GetUserByEmail
<1>4. UniqueKeys'
  BY <1>1, <1>3 DEF Tables, UniqueKeys
<1>5. RefIntegrity'
  BY <1>1, <1>2 DEF Tables, RefIntegrity, ApprovedUserExists
<1>6. RowsDrawn'
  BY <1>1, <1>2 DEF Tables, RowsDrawn
<1> QED
  BY <1>4, <1>5, <1>6 DEF Tables

LEMMA AssignRoleTables ==
  ASSUME Tables, NEW u, NEW r, AssignRole(u, r)
  PROVE  Tables'
<1>1. /\ user_roles' = user_roles \cup {[user_id |-> u, role_id |-> r]}
      /\ UNCHANGED <<approved_users, users, roles, todos, used>>
      /\ \E v \in users : v.id = u
      /\ \E s \in roles : s.id = r
  BY DEF AssignRole, AssignRoleRefused, GetUserByID
<1>2. RefIntegrity'
  BY <1>1 DEF Tables, RefIntegrity, ApprovedUserExists
<1> QED
  BY <1>1, <1>2 DEF Tables, UniqueKeys, RowsDrawn

(* A bulk INSERT is as good as its single rows: its emails differ from each *)
(* other and from those of the table, and so do its uuids.                  *)
LEMMA CreateApprovedTables ==
  ASSUME Tables, NEW emails, NEW c, NEW ids \in NewIds(DOMAIN emails, ApprovedId),
         CreateApprovedUsersBulk(ids, emails, c)
  PROVE  Tables'
<1> DEFINE row(i) == [id |-> ids[i], email |-> emails[i], created_by |-> c]
<1>1. /\ approved_users' = approved_users \cup {row(i) : i \in DOMAIN emails}
      /\ used' = used \cup {ids[i] : i \in DOMAIN emails}
      /\ UNCHANGED <<users, roles, user_roles, todos>>
      /\ ApprovedUserExists(c)
      /\ \A i \in DOMAIN emails : GetApprovedUserByEmail(emails[i]) = {}
      /\ \A i, j \in DOMAIN emails : emails[i] = emails[j] => i = j
  BY DEF CreateApprovedUsersBulk, CreateApprovedUsersRefused
<1>2. /\ \A i \in DOMAIN emails : ids[i] \notin used
      /\ \A i, j \in DOMAIN emails : ids[i] = ids[j] => i = j
  BY NewIdsFresh
<1>3. \A i \in DOMAIN emails : /\ row(i).id = ids[i] /\ row(i).email = emails[i]
                               /\ row(i).created_by = c
  OBVIOUS
<1> HIDE DEF row
<1>4. ASSUME NEW i \in DOMAIN emails, NEW b \in approved_users
      PROVE  b.id # row(i).id /\ b.email # row(i).email
  BY <1>1, <1>2, <1>3 DEF Tables, RowsDrawn, GetApprovedUserByEmail
<1>5. UniqueKeys'
  <2>1. ASSUME NEW a \in approved_users', NEW b \in approved_users',
               a.id = b.id \/ a.email = b.email
        PROVE  a = b
    BY <1>1, <1>2, <1>3, <1>4, <2>1 DEF Tables, UniqueKeys
  <2> QED
    BY <1>1, <2>1 DEF Tables, UniqueKeys
<1>6. RefIntegrity'
  <2>1. \A x : ApprovedUserExists(x) => \E a \in approved_users' : a.id = x
    BY <1>1 DEF ApprovedUserExists
  <2>2. ASSUME NEW a \in approved_users', a.created_by # NULL
        PROVE  \E b \in approved_users' : b.id = a.created_by
    BY <1>1, <1>3, <2>1, <2>2 DEF Tables, RefIntegrity
  <2> QED
    BY <1>1, <2>1, <2>2 DEF Tables, RefIntegrity, ApprovedUserExists
<1>7. RowsDrawn'
  BY <1>1, <1>3 DEF Tables, RowsDrawn
<1> QED
  BY <1>5, <1>6, <1>7 DEF Tables

(* Users that go together with everything that refers to them. *)
LEMMA CascadeTables ==
  ASSUME Tables, NEW gone, CascadeUsers(gone)
  PROVE  /\ \A u \in users' : u \in users /\ u.id \notin gone
         /\ \A x \in user_roles' : x \in user_roles /\ \E u \in users' : u.id = x.user_id
         /\ \A t \in todos' : t \in todos /\ \E u \in users' : u.id = t.user_id
BY DEF Tables, RefIntegrity, CascadeUsers

LEMMA DeleteApprovedTables ==
  ASSUME DbTypeOK, Tables, NEW id, DeleteApprovedUser(id)
  PROVE  Tables'
<1> DEFINE kept(a) == [a EXCEPT !.created_by = IF @ = id THEN NULL ELSE @]
           gone == {u.id : u \in {x \in users : x.approved_user_id = id}}
<1>1. /\ approved_users' = {kept(a) : a \in {x \in approved_users : x.id # id}}
      /\ CascadeUsers(gone) /\ UNCHANGED <<roles, used>>
  BY DEF DeleteApprovedUser
<1>2. \A a \in approved_users :
        /\ kept(a).id = a.id /\ kept(a).email = a.email
        /\ kept(a).created_by # NULL =>
             kept(a).created_by = a.created_by /\ a.created_by # id
  BY DEF DbTypeOK, ApprovedUserRow
<1> HIDE DEF kept
<1>3. \A u \in users : u.approved_user_id = id => u.id \in gone
  OBVIOUS
<1> HIDE DEF gone
<1>4. /\ \A u \in users' : u \in users /\ u.approved_user_id # id
      /\ \A x \in user_roles' : x \in user_roles /\ \E u \in users' : u.id = x.user_id
      /\ \A t \in todos' : t \in todos /\ \E u \in users' : u.id = t.user_id
  BY <1>1, <1>3, CascadeTables
<1>5. \A x : ApprovedUserExists(x) /\ x # id => \E a \in approved_users' : a.id = x
  BY <1>1, <1>2 DEF ApprovedUserExists
<1>6. \A a \in approved_users' :
        \E b \in approved_users : b.id # id /\ a = kept(b)
  BY <1>1
<1>7. UniqueKeys'
  BY <1>1, <1>2, <1>4, <1>6 DEF Tables, UniqueKeys
<1>8. RefIntegrity'
  <2>1. ASSUME NEW a \in approved_users', a.created_by # NULL
        PROVE  \E b \in approved_users' : b.id = a.created_by
    BY <1>2, <1>5, <1>6, <2>1 DEF Tables, RefIntegrity
  <2>2. \A u \in users' : \E b \in approved_users' : b.id = u.approved_user_id
    BY <1>4, <1>5 DEF Tables, RefIntegrity
  <2> QED
    BY <1>1, <1>4, <2>1, <2>2 DEF Tables, RefIntegrity, ApprovedUserExists
<1>9. RowsDrawn'
  BY <1>1, <1>2, <1>4, <1>6 DEF Tables, RowsDrawn
<1> QED
  BY <1>7, <1>8, <1>9 DEF Tables

LEMMA UpdateUserTables ==
  ASSUME DbTypeOK, Tables, NEW id, NEW h, NEW active, UpdateUser(id, h, active)
  PROVE  Tables'
<1> DEFINE upd(u) == IF u.id = id THEN [u EXCEPT !.password_hash = h,
                                                 !.is_active = active]
                                  ELSE u
<1>1. /\ users' = {upd(u) : u \in users}
      /\ UNCHANGED <<approved_users, roles, user_roles, todos, used>>
  BY DEF UpdateUser
<1>2. \A u \in users : /\ upd(u).id = u.id /\ upd(u).email = u.email
                       /\ upd(u).approved_user_id = u.approved_user_id
  BY DEF DbTypeOK, UserRow
<1> HIDE DEF upd
<1>3. /\ \A u \in users' : \E v \in users : u = upd(v)
      /\ \A v \in users : upd(v) \in users'
  BY <1>1
<1>4. UniqueKeys'
  BY <1>1, <1>2, <1>3 DEF Tables, UniqueKeys
<1>5. RefIntegrity'
  BY <1>1, <1>2, <1>3 DEF Tables, RefIntegrity, ApprovedUserExists
<1>6. RowsDrawn'
  BY <1>1, <1>2, <1>3 DEF Tables, RowsDrawn
<1> QED
  BY <1>4, <1>5, <1>6 DEF Tables

LEMMA CreateTodoTables ==
  ASSUME Tables, NEW u, NEW n, NEW d, NEW due, NEW ids \in NewIds({n}, TodoId),
         CreateTodo(ids, u, n, d, due)
  PROVE  Tables'
<1> DEFINE new == [id |-> ids[n], user_id |-> u, title |-> n, description |-> d,
                   is_completed |-> FALSE, due_date |-> due]
<1>1. /\ todos' = todos \cup {new} /\ used' = used \cup {ids[n]}
      /\ UNCHANGED <<approved_users, users, roles, user_roles>>
      /\ \E v \in users : v.id = u
  BY DEF CreateTodo, CreateTodoRefused, GetUserByID
<1>2. new.id = ids[n] /\ new.user_id = u /\ ids[n] \notin used
  BY NewIdsFresh
<1> HIDE DEF new
<1>3. UniqueKeys'
  BY <1>1, <1>2 DEF Tables, UniqueKeys, RowsDrawn
<1>4. RefIntegrity'
  BY <1>1, <1>2 DEF Tables, RefIntegrity, ApprovedUserExists
<1>5. RowsDrawn'
  BY <1>1, <1>2 DEF Tables, RowsDrawn
<1> QED
  BY <1>3, <1>4, <1>5 DEF Tables

(* A PATCH rewrites rows in place, a DELETE removes one. *)
Patched(t, patch) ==
    [t EXCEPT !.title = Coalesce(patch.title, @),
              !.description = Coalesce(patch.description, @),
              !.is_completed = Coalesce(patch.is_completed, @),
              !.due_date = Coalesce(patch.due_date, @)]

LEMMA UpdateTodoRows ==
  ASSUME DbTypeOK, NEW id, NEW patch, UpdateTodoPartial(id, patch)
  PROVE  \A s \in todos' : \/ s \in todos /\ s.id # id
                           \/ \E t \in todos : /\ t.id = id /\ s = Patched(t, patch)
                                               /\ s.id = id /\ s.user_id = t.user_id
<1>1. \A t \in todos : /\ Patched(t, patch).id = t.id
                       /\ Patched(t, patch).user_id = t.user_id
  BY DEF DbTypeOK, TodoRow, Patched
<1>2. todos' = (todos \ GetTodoByID(id)) \cup
                 {Patched(t, patch) : t \in GetTodoByID(id)}
  BY DEF UpdateTodoPartial, Patched
<1> QED
  BY <1>1, <1>2 DEF GetTodoByID

LEMMA TodoTables ==
  ASSUME DbTypeOK, Tables, NEW id, NEW patch,
         UpdateTodoPartial(id, patch) \/ DeleteTodo(id)
  PROVE  Tables'
<1>1. UNCHANGED <<approved_users, users, roles, user_roles, used>>
  BY DEF UpdateTodoPartial, DeleteTodo
<1>2. \A s \in todos' : \E t \in todos : s.id = t.id /\ s.user_id = t.user_id
  BY UpdateTodoRows DEF DeleteTodo
<1>3. \A s, t \in todos' : s.id = t.id => s = t
  BY UpdateTodoRows DEF DeleteTodo, Tables, UniqueKeys
<1>4. RefIntegrity'
  BY <1>1, <1>2 DEF Tables, RefIntegrity, ApprovedUserExists
<1> QED
  BY <1>1, <1>2, <1>3, <1>4 DEF Tables, UniqueKeys, RowsDrawn

-----------------------------------------------------------------------------
(* The migrations. *)

(* ON CONFLICT (name) DO NOTHING: only missing roles are added. *)
LEMMA DefaultRolesTables ==
  ASSUME Tables, NEW ids \in NewIds(MissingRoles, RoleId), NEW rs,
         rs = DefaultRoles(ids)
  PROVE  /\ roles \subseteq rs
         /\ \A r, s \in rs : r.id = s.id \/ r.name = s.name => r = s
         /\ \A r \in rs : r \in roles \/ \E n \in MissingRoles : r.id = ids[n]
<1> DEFINE row(n) == [id |-> ids[n], name |-> n]
<1>1. DOMAIN ids = MissingRoles
  BY NewIdsFresh
<1>2. /\ \A n \in MissingRoles : ids[n] \notin used
      /\ \A m, n \in MissingRoles : ids[m] = ids[n] => m = n
  BY NewIdsFresh
<1>3. rs = roles \cup {row(n) : n \in MissingRoles}
  BY <1>1 DEF DefaultRoles
<1>4. \A n \in MissingRoles : row(n).id = ids[n] /\ row(n).name = n
  OBVIOUS
<1> HIDE DEF row
<1>5. \A n \in MissingRoles : \A r \in roles : r.name # n /\ r.id # ids[n]
  BY <1>2 DEF MissingRoles, GetRoleByName, Tables, RowsDrawn
<1>6. \A r, s \in rs : r.id = s.id \/ r.name = s.name => r = s
  BY <1>2, <1>3, <1>4, <1>5 DEF Tables, UniqueKeys
<1> QED
  BY <1>3, <1>4, <1>6

LEMMA UpCreateRolesTables ==
  ASSUME Tables, UpCreateRoles
  PROVE  Tables'
<1>1. PICK ids \in NewIds(MissingRoles, RoleId) :
        /\ roles' = DefaultRoles(ids)
        /\ used' = used \cup {ids[n] : n \in DOMAIN ids}
  BY DEF UpCreateRoles
<1>2. /\ UNCHANGED <<approved_users, users, user_roles, todos>>
      /\ DOMAIN ids = MissingRoles
  BY NewIdsFresh DEF UpCreateRoles
<1>3. /\ roles \subseteq roles'
      /\ \A r, s \in roles' : r.id = s.id \/ r.name = s.name => r = s
      /\ \A r \in roles' : r \in roles \/ \E n \in MissingRoles : r.id = ids[n]
  BY <1>1, DefaultRolesTables
<1>4. RefIntegrity'
  BY <1>2, <1>3 DEF Tables, RefIntegrity, ApprovedUserExists
<1> QED
  BY <1>1, <1>2, <1>3, <1>4 DEF Tables, UniqueKeys, RowsDrawn

(* The seed adds accounts only under emails that nobody has, and the       *)
(* entries and roles they need beside them.                                *)
LEMMA UpSeedTables ==
  ASSUME DbTypeOK, Tables, UpSeed
  PROVE  Tables'
<1>1. PICK roleIds \in NewIds(MissingRoles, RoleId),
           userIds \in NewIds(MissingUsers, UserId),
           todoIds \in NewIds(SampleTitle, TodoId) :
        /\ approved_users' = approved_users \cup NewSeedApproved
        /\ roles' = DefaultRoles(roleIds)
        /\ users' = users \cup {SeedUser(userIds, e) : e \in MissingUsers}
        /\ user_roles' = user_roles \cup SeedGrants(users', roles')
        /\ todos' = todos \cup SampleTodos(todoIds, users')
        /\ used' = used \cup {roleIds[n] : n \in MissingRoles}
                        \cup {userIds[e] : e \in MissingUsers}
                        \cup {todoIds[n] : n \in SampleTitle}
  BY DEF UpSeed
<1>2. /\ roles \subseteq roles'
      /\ \A r, s \in roles' : r.id = s.id \/ r.name = s.name => r = s
      /\ \A r \in roles' : r \in roles \/ \E n \in MissingRoles : r.id = roleIds[n]
  BY <1>1, DefaultRolesTables
<1>3. /\ \A e \in MissingUsers : userIds[e] \notin used
      /\ \A e, f \in MissingUsers : userIds[e] = userIds[f] => e = f
  BY NewIdsFresh
<1>4. /\ DOMAIN todoIds = SampleTitle
      /\ \A n \in SampleTitle : todoIds[n] \notin used
      /\ \A m, n \in SampleTitle : todoIds[m] = todoIds[n] => m = n
  BY NewIdsFresh
<1>5. ASSUME NEW e \in MissingUsers
      PROVE  /\ SeedUser(userIds, e).id = userIds[e]
             /\ SeedUser(userIds, e).email = e
             /\ SeedUser(userIds, e).approved_user_id \in {AdminApproved, UserApproved}
             /\ \A u \in users : u.email # e /\ u.id # userIds[e]
  BY <1>3 DEF SeedUser, MissingUsers, GetUserByEmail, Tables, RowsDrawn
<1>6. \A u, v \in users' : u.id = v.id \/ u.email = v.email => u = v
  BY <1>1, <1>3, <1>5 DEF Tables, UniqueKeys
<1>7. /\ approved_users \subseteq approved_users'
      /\ \A x \in {AdminApproved, UserApproved} : \E a \in approved_users' : a.id = x
  <2>1. \A x \in {AdminApproved, UserApproved} : \E a \in SeedApproved : a.id = x
    BY DEF SeedApproved
  <2>2. \A a \in SeedApproved : a \in NewSeedApproved \/ ApprovedUserExists(a.id)
    BY DEF NewSeedApproved
  <2> QED
    BY <1>1, <2>1, <2>2 DEF ApprovedUserExists
<1>8. \A a, b \in approved_users' : a.id = b.id \/ a.email = b.email => a = b
  <2>1. \A a, b \in SeedApproved : a.id = b.id \/ a.email = b.email => a = b
    BY SeedAssumption DEF SeedApproved, AdminEmail, UserEmail
  <2>2. \A a \in NewSeedApproved, b \in approved_users :
          a.id # b.id /\ a.email # b.email
    BY DEF UpSeed, SeedRefused, NewSeedApproved, ApprovedUserExists,
           GetApprovedUserByEmail
  <2>3. NewSeedApproved \subseteq SeedApproved
    BY DEF NewSeedApproved
  <2> QED
    BY <1>1, <2>1, <2>2, <2>3 DEF Tables, UniqueKeys
<1>9. ASSUME NEW t \in todos'
      PROVE  \/ t \in todos
             \/ \E u \in users', n \in SampleTitle :
                  /\ u.email = UserEmail /\ t = SampleTodo(todoIds[n], u, n)
                  /\ t.id = todoIds[n] /\ t.user_id = u.id
  <2>1. CASE t \in SampleTodos(todoIds, users')
    <3>1. PICK u \in users', n \in SampleTitle :
            u.email = UserEmail /\ t = SampleTodo(todoIds[n], u, n)
      BY <1>4, <2>1 DEF SampleTodos
    <3> QED
      BY <3>1 DEF SampleTodo
  <2> QED
    BY <1>1, <2>1
<1>10. \A t, s \in todos' : t.id = s.id => t = s
  <2> SUFFICES ASSUME NEW t \in todos', NEW s \in todos', t.id = s.id
               PROVE  t = s
    OBVIOUS
  <2>1. CASE t \in todos /\ s \in todos
    BY <2>1 DEF Tables, UniqueKeys
  <2>2. CASE t \notin todos /\ s \notin todos
    <3>1. PICK u \in users', n \in SampleTitle :
            /\ u.email = UserEmail /\ t = SampleTodo(todoIds[n], u, n)
            /\ t.id = todoIds[n]
      BY <1>9, <2>2
    <3>2. PICK v \in users', m \in SampleTitle :
            /\ v.email = UserEmail /\ s = SampleTodo(todoIds[m], v, m)
            /\ s.id = todoIds[m]
      BY <1>9, <2>2
    <3>3. m = n /\ u = v
      BY <1>4, <1>6, <3>1, <3>2
    <3> QED
      BY <3>1, <3>2, <3>3
  <2>3. \A x \in todos : x.id \in used
    BY DEF Tables, RowsDrawn
  <2> QED
    BY <1>4, <1>9, <2>1, <2>2, <2>3
<1>11. UniqueKeys'
  BY <1>2, <1>6, <1>8, <1>10 DEF UniqueKeys
<1>12. \A x \in user_roles' : /\ \E u \in users' : u.id = x.user_id
                              /\ \E r \in roles' : r.id = x.role_id
  <2>1. \A x \in SeedGrants(users', roles') :
          \E u \in users', r \in roles' : u.id = x.user_id /\ r.id = x.role_id
    BY DEF SeedGrants
  <2>2. users \subseteq users'
    BY <1>1
  <2> QED
    BY <1>1, <1>2, <2>1, <2>2 DEF Tables, RefIntegrity
<1>13. RefIntegrity'
  <2>1. \A x : ApprovedUserExists(x) => \E a \in approved_users' : a.id = x
    BY <1>7 DEF ApprovedUserExists
  <2>2. \A a \in approved_users' : a \in approved_users \/ a.created_by = NULL
    BY <1>1 DEF NewSeedApproved, SeedApproved
  <2>3. \A a \in approved_users' :
          a.created_by # NULL => \E b \in approved_users' : b.id = a.created_by
    BY <2>1, <2>2 DEF Tables, RefIntegrity
  <2>4. \A u \in users' : \E b \in approved_users' : b.id = u.approved_user_id
    BY <1>1, <1>5, <1>7, <2>1 DEF Tables, RefIntegrity
  <2>5. \A t \in todos' : \E u \in users' : u.id = t.user_id
    BY <1>1, <1>9 DEF Tables, RefIntegrity
  <2> QED
    BY <1>12, <2>3, <2>4, <2>5 DEF RefIntegrity, ApprovedUserExists
<1>14. RowsDrawn'
  <2>1. \A a \in approved_users' : a.id \in used'
    BY <1>1 DEF Tables, RowsDrawn, NewSeedApproved, SeedApproved
  <2>2. \A u \in users' : u.id \in used'
    BY <1>1, <1>5 DEF Tables, RowsDrawn
  <2>3. \A r \in roles' : r.id \in used'
    BY <1>1, <1>2 DEF Tables, RowsDrawn
  <2>4. \A t \in todos' : t.id \in used'
    BY <1>1, <1>9 DEF Tables, RowsDrawn
  <2> QED
    BY <1>1, <2>1, <2>2, <2>3, <2>4 DEF Tables, RowsDrawn
<1> QED
  BY <1>11, <1>13, <1>14 DEF Tables

(* 000006 down removes the accounts with their rows and both roles with    *)
(* their assignments.                                                      *)
LEMMA DownSeedTables ==
  ASSUME DbTypeOK, Tables, DownSeed
  PROVE  Tables'
<1> DEFINE gone == {u.id : u \in {x \in users : x.email \in SeedEmail}}
<1>1. /\ users' = {u \in users : u.id \notin gone}
      /\ todos' = {t \in todos : t.title \notin SampleTitle /\ t.user_id \notin gone}
      /\ \A x \in user_roles' : x \in user_roles /\ x.user_id \notin gone
                                  /\ \E r \in roles' : r.id = x.role_id
      /\ roles' \subseteq roles
      /\ UNCHANGED <<approved_users, used>>
  BY DEF DownSeed
<1> HIDE DEF gone
<1>2. UniqueKeys'
  BY <1>1 DEF Tables, UniqueKeys
<1>3. RefIntegrity'
  BY <1>1 DEF Tables, RefIntegrity, ApprovedUserExists
<1>4. RowsDrawn'
  BY <1>1 DEF Tables, RowsDrawn
<1> QED
  BY <1>2, <1>3, <1>4 DEF Tables

(* A table is dropped last of those that refer to it. *)
LEMMA DownDropTables ==
  ASSUME SchemaInv, MigrationTypeOK, DownDropTable
  PROVE  Tables'
<1>1. /\ approved_users' = IF level = 1 THEN {} ELSE approved_users
      /\ users' = IF level = 2 THEN {} ELSE users
      /\ roles' = IF level = 3 THEN {} ELSE roles
      /\ user_roles' = IF level = 4 THEN {} ELSE user_roles
      /\ todos' = IF level = 5 THEN {} ELSE todos
      /\ used' = used /\ level \in 1..5
  BY DEF DownDropTable
<1>2. /\ level = 1 => users = {} /\ user_roles = {} /\ todos = {}
      /\ level = 2 => user_roles = {} /\ todos = {}
      /\ level = 3 => user_roles = {}
  BY DEF SchemaInv, LevelInv
<1>3. UniqueKeys'
  BY <1>1 DEF SchemaInv, Tables, UniqueKeys
<1>4. RefIntegrity'
  BY <1>1, <1>2 DEF SchemaInv, Tables, RefIntegrity, ApprovedUserExists
<1>5. RowsDrawn'
  BY <1>1 DEF SchemaInv, Tables, RowsDrawn
<1> QED
  BY <1>3, <1>4, <1>5 DEF Tables

LEMMA TablesUnchangedKeep ==
  ASSUME Tables, UNCHANGED dbVars
  PROVE  Tables'
BY DEF Tables, UniqueKeys, RefIntegrity, RowsDrawn, ApprovedUserExists, dbVars

LEMMA MigrateSchema ==
  ASSUME DbTypeOK, MigrationTypeOK, SchemaInv, Migrate
  PROVE  SchemaInv'
<1> USE DEF SchemaInv
<1>1. CASE UNCHANGED <<dbVars, level>>
  BY <1>1, TablesUnchangedKeep DEF LevelInv, dbVars
<1>2. CASE MigrateUp
  <2>1. Tables'
    BY <1>2, TablesUnchangedKeep, UpCreateRolesTables, UpSeedTables
       DEF MigrateUp, UpCreateTable
  <2>2. LevelInv'
    BY <1>2 DEF MigrateUp, UpCreateTable, UpCreateRoles, UpSeed, MigrationTypeOK,
                LevelInv, dbVars
  <2> QED
    BY <2>1, <2>2
<1>3. CASE MigrateDown
  <2>1. Tables'
    BY <1>3, DownSeedTables, DownDropTables DEF MigrateDown
  <2>2. LevelInv'
    BY <1>3 DEF MigrateDown, DownSeed, DownDropTable, MigrationTypeOK, LevelInv
  <2> QED
    BY <2>1, <2>2
<1> QED
  BY <1>1, <1>2, <1>3 DEF Migrate, RunUp, RunDownOrReset, MigrateStops

-----------------------------------------------------------------------------
(* Every step of the API that touches the tables is one statement of a     *)
(* handler, an operator's UPDATE, or a migration.                          *)

OperatorWrite ==
    /\ level >= 2
    /\ \E u \in users :
         \/ u.is_active /\ UpdateUser(u.id, u.password_hash, FALSE)
         \/ \E w \in Password :
              UpdateUser(u.id, GenerateFromPassword(w), u.is_active)

LEMMA TableSteps ==
  ASSUME [BackendNext]_vars
  PROVE  \/ UNCHANGED <<dbVars, migrationVars>>
         \/ /\ UNCHANGED migrationVars
            /\ \E p \in Request :
                 AuthWrite(p) \/ (TodoWrite(p) /\ \E code : Respond(p, code))
         \/ UNCHANGED migrationVars /\ OperatorWrite
         \/ Migrate
<1> DEFINE Goal == \/ UNCHANGED <<dbVars, migrationVars>>
                   \/ /\ UNCHANGED migrationVars
                      /\ \E p \in Request :
                           AuthWrite(p) \/ (TodoWrite(p) /\ \E code : Respond(p, code))
                   \/ UNCHANGED migrationVars /\ OperatorWrite
                   \/ Migrate
<1> SUFFICES Goal
  OBVIOUS
<1>1. ASSUME NEW p \in Request, AuthRequest(p) \/ TodoRequest(p)
      PROVE  Goal
  BY <1>1 DEF AuthRequest, TodoRequest, TodoVars, runVars
<1>2. ASSUME NEW p \in Request,
             \/ RegisterExists(p) \/ RegisterLookup(p) \/ RegisterCreateRefused(p)
             \/ RegisterRole(p) \/ RegisterRoleLookup(p) \/ RegisterRoleStore(p)
             \/ RegisterAssignRefused(p) \/ LoginLookup(p) \/ IssueToken(p)
             \/ Authenticate(p) \/ AnswerRead(p) \/ CreateApprovedLookup(p)
             \/ CreateApprovedRefused(p) \/ QueryError(p)
      PROVE  UNCHANGED <<dbVars, migrationVars>>
  <2>1. CASE \/ RegisterExists(p) \/ RegisterLookup(p) \/ RegisterCreateRefused(p)
             \/ RegisterRole(p) \/ RegisterRoleLookup(p) \/ RegisterRoleStore(p)
    BY <2>1 DEF RegisterExists, RegisterLookup, RegisterCreateRefused, RegisterRole,
                RegisterRoleLookup, RegisterRoleStore, runVars
  <2>2. CASE \/ RegisterAssignRefused(p) \/ LoginLookup(p) \/ IssueToken(p)
             \/ Authenticate(p) \/ AnswerRead(p) \/ CreateApprovedLookup(p)
             \/ CreateApprovedRefused(p) \/ QueryError(p)
    BY <2>2 DEF RegisterAssignRefused, LoginLookup, IssueToken, Authenticate,
                AnswerRead, CreateApprovedLookup, CreateApprovedRefused, QueryError,
                runVars
  <2> QED
    BY <1>2, <2>1, <2>2
<1>3. ASSUME NEW p \in Request,
             \/ RegisterCreate(p) \/ RegisterAssign(p) \/ CreateApproved(p)
             \/ DeleteApproved(p) \/ CommitUnacked(p)
      PROVE  AuthWrite(p) /\ UNCHANGED migrationVars
  BY <1>3 DEF RegisterCreate, RegisterAssign, CreateApproved, DeleteApproved,
              CommitUnacked, AuthWrite, runVars
<1>4. ASSUME NEW p \in Request, TodoStep(p)
      PROVE  Goal
  <2>1. CASE \/ ListTodosByUserID(p) \/ GetByID(p) \/ CreateRefused(p)
             \/ CheckOwner(p, "upd_lookup", "upd_write")
             \/ CheckOwner(p, "del_lookup", "del_write")
    BY <2>1 DEF ListTodosByUserID, GetByID, CreateRefused, CheckOwner, TodoVars
  <2>2. CASE Create(p) \/ Update(p) \/ Delete(p) \/ TodoUnacked(p)
    <3>1. TodoWrite(p) /\ UNCHANGED migrationVars
      BY <2>2 DEF Create, Update, Delete, TodoUnacked, TodoWrite
    <3>2. \E code : Respond(p, code)
      BY <2>2 DEF Create, Update, Delete, TodoUnacked, AnswerLost
    <3> QED
      BY <3>1, <3>2
  <2> QED
    BY <1>4, <2>1, <2>2 DEF TodoStep
<1>5. ASSUME NEW p \in Request, AuthStep(p)
      PROVE  Goal
  <2>1. \/ UNCHANGED <<dbVars, migrationVars>>
        \/ AuthWrite(p) /\ UNCHANGED migrationVars
    BY <1>2, <1>3, <1>5 DEF AuthStep
  <2> QED
    BY <2>1
<1>6. CASE Environment
  <2>1. CASE \E r \in Replica : StartServer(r) \/ Restart(r)
    BY <2>1 DEF StartServer, Restart, runVars
  <2>2. CASE Tick
    BY <2>2 DEF Tick
  <2>3. CASE Deactivate \/ SetPassword
    BY <2>3 DEF Deactivate, SetPassword, OperatorWrite
  <2> QED
    BY <1>6, <2>1, <2>2, <2>3 DEF Environment
<1>7. CASE UNCHANGED vars
  BY <1>7 DEF vars
<1> HIDE DEF Goal
<1>8. ASSUME NEW p \in Request,
             \/ AuthRequest(p) \/ BackendStep(p)
             \/ TodoRequest(p) /\ UNCHANGED <<defaultUserRoleID, restarts>>
      PROVE  Goal
  BY <1>1, <1>4, <1>5, <1>8 DEF BackendStep
<1>9. CASE BackendNext
  BY <1>6, <1>8, <1>9 DEF BackendNext
<1> QED
  BY <1>7, <1>9

LEMMA NeedsTables ==
  /\ Needs["reg_create"] = 2 /\ Needs["reg_assign"] = 4
  /\ Needs["ca_create"] = 1 /\ Needs["ap_bulk"] = 1 /\ Needs["ap_delete"] = 1
  /\ Needs["td_create"] = 5 /\ Needs["upd_write"] = 5 /\ Needs["del_write"] = 5
BY DEF Needs

LEMMA WriteSchema ==
  ASSUME DbTypeOK, MigrationTypeOK, SchemaInv, UNCHANGED migrationVars,
         NEW p \in Request, AuthWrite(p) \/ TodoWrite(p)
  PROVE  SchemaInv'
<1> USE DEF SchemaInv, migrationVars, MigrationTypeOK
<1>1. CASE /\ AtQuery(p, "reg_create")
           /\ \E ids \in NewIds({args[p].email}, UserId) :
                CreateUser(ids, args[p].approved_id, args[p].email,
                           GenerateFromPassword(args[p].password))
  <2>1. Tables' /\ level >= 2
    BY <1>1, CreateUserTables, NeedsTables DEF AtQuery
  <2> QED
    BY <1>1, <2>1 DEF CreateUser, LevelInv
<1>2. CASE AtQuery(p, "reg_assign") /\ AssignRole(ctx[p].user, ctx[p].role)
  <2>1. Tables' /\ level >= 4
    BY <1>2, AssignRoleTables, NeedsTables DEF AtQuery
  <2> QED
    BY <1>2, <2>1 DEF AssignRole, LevelInv
<1>3. CASE AtCreateApproved(p) /\ InsertApproved(p)
  <2>1. Tables' /\ level >= 1
    BY <1>3, CreateApprovedTables, NeedsTables
       DEF AtCreateApproved, AtQuery, InsertApproved
  <2> QED
    BY <1>3, <2>1 DEF InsertApproved, CreateApprovedUsersBulk, LevelInv
<1>4. CASE AtQuery(p, "ap_delete") /\ DeleteApprovedUser(args[p].approved_id)
  <2>1. Tables' /\ level >= 1
    BY <1>4, DeleteApprovedTables, NeedsTables DEF AtQuery
  <2> QED
    BY <1>4, <2>1 DEF DeleteApprovedUser, CascadeUsers, LevelInv
<1>5. CASE AtQuery(p, "td_create") /\ InsertTodo(p)
  <2>1. Tables' /\ level >= 5
    BY <1>5, CreateTodoTables, NeedsTables DEF AtQuery, InsertTodo
  <2> QED
    BY <1>5, <2>1 DEF InsertTodo, CreateTodo, LevelInv
<1>6. CASE \/ AtQuery(p, "upd_write") /\ UpdateTodoPartial(args[p].todo_id, args[p])
           \/ AtQuery(p, "del_write") /\ DeleteTodo(args[p].todo_id)
  <2>1. Tables' /\ level >= 5
    BY <1>6, TodoTables, NeedsTables DEF AtQuery
  <2>2. UNCHANGED <<approved_users, users, roles, user_roles>>
    BY <1>6 DEF UpdateTodoPartial, DeleteTodo
  <2> QED
    BY <2>1, <2>2 DEF LevelInv
<1> QED
  BY <1>1, <1>2, <1>3, <1>4, <1>5, <1>6 DEF AuthWrite, TodoWrite

LEMMA SchemaInvInit == Init => SchemaInv
BY DEF Init, InitDb, SchemaInv, Tables, UniqueKeys, RefIntegrity, RowsDrawn, LevelInv

LEMMA SchemaInvNext == TypeInv /\ SchemaInv /\ [BackendNext]_vars => SchemaInv'
<1> SUFFICES ASSUME TypeInv, SchemaInv, [BackendNext]_vars PROVE SchemaInv'
  OBVIOUS
<1>1. DbTypeOK /\ MigrationTypeOK
  BY DEF TypeInv, TypeOK
<1>2. CASE UNCHANGED <<dbVars, migrationVars>>
  BY <1>2, TablesUnchangedKeep DEF SchemaInv, LevelInv, dbVars, migrationVars
<1>3. CASE UNCHANGED migrationVars /\ OperatorWrite
  <2>1. Tables'
    BY <1>1, <1>3, UpdateUserTables DEF OperatorWrite, SchemaInv
  <2>2. UNCHANGED <<approved_users, roles, user_roles, todos, level>> /\ level >= 2
    BY <1>3 DEF OperatorWrite, UpdateUser, migrationVars
  <2> QED
    BY <1>1, <2>1, <2>2 DEF SchemaInv, LevelInv, MigrationTypeOK
<1> QED
  BY <1>1, <1>2, <1>3, TableSteps, WriteSchema, MigrateSchema

-----------------------------------------------------------------------------
(* The statements that rely on the ownership check before them. *)
Checked == {"upd_write", "del_write"}

(* A step of an auth handler moves its goroutine, and no other, to a       *)
(* statement that is not the second one of a todo handler.                 *)
AuthMove(p) ==
    /\ \/ \E label \in Label \ Checked : Goto(p, label)
       \/ \E code : Respond(p, code)
    /\ \A q \in Request : q # p => ctx'[q] = ctx[q]

LEMMA AuthStepMoves ==
  ASSUME TypeInv, NEW p \in Request, AuthStep(p)
  PROVE  AuthMove(p)
<1>1. RequestTypeOK /\ LocalInv(p) /\ args[p] \in Input
  BY DEF TypeInv, TypeOK, RequestTypeOK
<1>2. ctx \in [Request -> Context]
  BY <1>1 DEF RequestTypeOK
<1>3. \A label \in {"reg_lookup", "reg_create", "reg_role", "reg_role_lookup",
                    "reg_role_store", "reg_assign", "issue", "auth_user",
                    "ca_create", "ap_list", "ca_lookup", "ap_bulk", "ap_delete",
                    "me", "td_list", "td_create", "td_get", "upd_lookup",
                    "del_lookup"} : label \in Label \ Checked
  BY LabelType DEF Checked
<1>4. CASE \/ RegisterExists(p) \/ RegisterLookup(p) \/ RegisterCreateRefused(p)
           \/ RegisterRoleStore(p) \/ RegisterAssign(p) \/ RegisterAssignRefused(p)
           \/ IssueToken(p) \/ AnswerRead(p) \/ CreateApprovedLookup(p)
           \/ CreateApproved(p) \/ CreateApprovedRefused(p) \/ DeleteApproved(p)
  <2>1. ctx' = ctx
    BY <1>4 DEF RegisterExists, RegisterLookup, RegisterCreateRefused,
                RegisterRoleStore, RegisterAssign, RegisterAssignRefused, IssueToken,
                AnswerRead, CreateApprovedLookup, CreateApproved,
                CreateApprovedRefused, DeleteApproved
  <2>2. CASE RegisterExists(p)
    BY <1>3, <2>1, <2>2 DEF RegisterExists, AuthMove
  <2>3. CASE RegisterLookup(p)
    BY <1>3, <2>1, <2>3 DEF RegisterLookup, AuthMove
  <2>4. CASE RegisterRoleStore(p)
    BY <1>3, <2>1, <2>4 DEF RegisterRoleStore, AuthMove
  <2>5. CASE RegisterAssign(p)
    BY <1>3, <2>1, <2>5 DEF RegisterAssign, AuthMove
  <2>6. CASE CreateApprovedLookup(p)
    BY <1>3, <2>1, <2>6 DEF CreateApprovedLookup, AuthMove
  <2>7. CASE \/ RegisterCreateRefused(p) \/ RegisterAssignRefused(p)
             \/ IssueToken(p) \/ AnswerRead(p) \/ CreateApproved(p)
             \/ CreateApprovedRefused(p) \/ DeleteApproved(p)
    <3>1. \E code : Respond(p, code)
      BY <2>7 DEF RegisterCreateRefused, RegisterAssignRefused, IssueToken,
                  AnswerRead, CreateApproved, CreateApprovedRefused, DeleteApproved
    <3> QED
      BY <2>1, <3>1 DEF AuthMove
  <2> QED
    BY <1>4, <2>2, <2>3, <2>4, <2>5, <2>6, <2>7
<1>5. CASE RegisterCreate(p)
  <2>1. Goto(p, "reg_role") /\ \E i : ctx' = [ctx EXCEPT ![p].user = i]
    BY <1>5 DEF RegisterCreate
  <2>2. \A q \in Request : q # p => ctx'[q] = ctx[q]
    BY <1>2, <2>1
  <2> QED
    BY <1>3, <2>1, <2>2 DEF AuthMove
<1>6. CASE RegisterRole(p)
  <2>1. \A q \in Request : q # p => ctx'[q] = ctx[q]
    BY <1>2, <1>6 DEF RegisterRole
  <2>2. Goto(p, "reg_role_lookup") \/ Goto(p, "reg_assign")
    BY <1>6 DEF RegisterRole
  <2> QED
    BY <1>3, <2>1, <2>2 DEF AuthMove
<1>7. CASE RegisterRoleLookup(p)
  <2>1. ctx' = ctx \/ \E i : ctx' = [ctx EXCEPT ![p].role = i]
    BY <1>7 DEF RegisterRoleLookup
  <2>2. \A q \in Request : q # p => ctx'[q] = ctx[q]
    BY <1>2, <2>1
  <2>3. Goto(p, "reg_role_store") \/ Goto(p, "issue")
    BY <1>7 DEF RegisterRoleLookup
  <2> QED
    BY <1>3, <2>2, <2>3 DEF AuthMove
<1>8. CASE LoginLookup(p)
  <2>1. ctx' = ctx \/ \E i : ctx' = [ctx EXCEPT ![p].user = i]
    BY <1>8 DEF LoginLookup
  <2>2. \A q \in Request : q # p => ctx'[q] = ctx[q]
    BY <1>2, <2>1
  <2>3. Goto(p, "issue") \/ Respond(p, 401)
    BY <1>8 DEF LoginLookup
  <2> QED
    BY <1>3, <2>2, <2>3 DEF AuthMove
<1>9. CASE Authenticate(p)
  <2>1. CASE ParseToken(p) \/ Unauthorized(p) \/ Forbidden(p)
    <3>1. ctx' = ctx
      BY <2>1 DEF ParseToken, Unauthorized, Forbidden
    <3>2. Goto(p, "auth_user") \/ \E code : Respond(p, code)
      BY <2>1 DEF ParseToken, Unauthorized, Forbidden
    <3> QED
      BY <1>3, <3>1, <3>2 DEF AuthMove
  <2>2. CASE Admit(p)
    <3>1. \E i, j : ctx' = [ctx EXCEPT ![p].user = i, ![p].creator = j]
      BY <2>2 DEF Admit
    <3>2. \A q \in Request : q # p => ctx'[q] = ctx[q]
      BY <1>2, <3>1
    <3>3. args[p].op \in AdminOp \cup UserOp
      BY <1>1, <2>2 DEF Admit, AtQuery, LocalInv, Input
    <3>4. Entry[args[p].op] \in Label \ Checked
      BY <1>3, <3>3, EntryType
    <3>5. Goto(p, Entry[args[p].op]) \/ \E code : Respond(p, code)
      BY <2>2 DEF Admit
    <3> QED
      BY <3>2, <3>4, <3>5 DEF AuthMove
  <2> QED
    BY <1>9, <2>1, <2>2 DEF Authenticate
<1>10. CASE QueryError(p) \/ CommitUnacked(p)
  <2>1. ctx' = ctx
    BY <1>10 DEF QueryError, QueryFails, MissingTable, OnQueryError, CommitUnacked
  <2>2. \/ Goto(p, "issue") \/ Goto(p, "ca_create")
        \/ \E code : Respond(p, code)
    BY <1>10 DEF QueryError, QueryFails, MissingTable, OnQueryError, Swallowed,
                 CommitUnacked, AnswerLost
  <2> QED
    BY <1>3, <2>1, <2>2 DEF AuthMove
<1> QED
  BY <1>4, <1>5, <1>6, <1>7, <1>8, <1>9, <1>10 DEF AuthStep

(* Only a run of "down" or "reset" takes a migration back. *)
CommandInv == command \in {"down", "reset"} => rollbacks > 0

LEMMA CommandInvNext ==
  ASSUME TypeInv, CommandInv, [BackendNext]_vars
  PROVE  CommandInv'
<1>1. rollbacks \in Nat
  BY MaxRollbacksAssumption DEF TypeInv, TypeOK, MigrationTypeOK
<1>2. CASE UNCHANGED migrationVars
  BY <1>2 DEF CommandInv, migrationVars
<1>3. CASE Migrate
  BY <1>1, <1>3 DEF Migrate, RunUp, RunDownOrReset, MigrateStops, MigrateUp,
                    MigrateDown, CommandInv
<1> QED
  BY <1>2, <1>3, TableSteps

(* Without the todo handlers the API is a part of the whole. *)
LEMMA NextIsBackendNext == [Next]_vars => [BackendNext]_vars
BY DEF Next, BackendNext, BackendStep

LEMMA SpecIsBackend == Spec => BackendSpec
BY NextIsBackendNext, PTL DEF Spec, BackendSpec

LEMMA SchemaInvAlways == BackendSpec => [](TypeInv /\ SchemaInv)
BY TypeInvInit, BackendTypeNext, SchemaInvInit, SchemaInvNext, PTL DEF BackendSpec

(* No interleaving of registrations, whitelist edits, todo handlers, lost  *)
(* acknowledgements and migrations leaves two rows with one primary key,   *)
(* one email or one role name: two Registers or two CreateApprovedUsers    *)
(* whose lookups both found an email free insert it once, and seeding      *)
(* again collides with nothing.                                            *)
THEOREM KeysUnique == BackendSpec => []UniqueKeys
<1>1. SchemaInv => UniqueKeys
  BY DEF SchemaInv, Tables
<1> QED
  BY <1>1, SchemaInvAlways, PTL

(* No reference dangles: not when an entry is deleted while its creator,   *)
(* its accounts and their todos are in use, not after a down migration     *)
(* dropped some of the tables, not when a handler inserts a row for an     *)
(* account that was there when it looked.                                  *)
THEOREM ReferencesIntact == BackendSpec => []RefIntegrity
<1>1. SchemaInv => RefIntegrity
  BY DEF SchemaInv, Tables
<1> QED
  BY <1>1, SchemaInvAlways, PTL

(* The same for the API without the todo handlers, which is what the runs  *)
(* of AuthService check.                                                   *)
THEOREM AuthTablesConsistent == Spec => [](UniqueKeys /\ RefIntegrity)
BY SpecIsBackend, KeysUnique, ReferencesIntact, PTL

=============================================================================
